---------------------------- MODULE MCDetailCache ----------------------------
EXTENDS DetailCache, TLC

Symmetry == Permutations(Req)
=============================================================================
