------------------------------ MODULE MCCatalog ------------------------------
(* A small catalog for TLC.                                                *)
EXTENDS Catalog, TLC

\* Each set is seeded whole or its seeded members are fixed.
Symmetry ==
    Permutations(Models) \cup Permutations(Quotas) \cup Permutations(Limits)
    \cup Permutations(Requests)

=============================================================================
