----------------------------- MODULE MCDirectory -----------------------------
(* A small directory for TLC.                                              *)
EXTENDS Directory, TLC

Symmetry ==
    Permutations(Departments) \cup Permutations(Menus) \cup Permutations(Requests)

=============================================================================
