---------------------------- MODULE MCSessions ------------------------------
(* Small instances of Sessions for TLC.                                     *)
EXTENDS Sessions, TLC

CONSTANTS r1, r2, s1, s2

Symmetry == Permutations(Requests) \cup Permutations(Session)

=============================================================================
