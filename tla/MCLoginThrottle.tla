--------------------------- MODULE MCLoginThrottle ---------------------------
(* A small instance of LoginThrottle for TLC.                               *)
EXTENDS LoginThrottle, TLC

CONSTANTS r1, r2, r3

Symmetry == Permutations(Attempts)

=============================================================================
