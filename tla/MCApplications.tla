--------------------------- MODULE MCApplications ----------------------------
EXTENDS Applications, TLC

Symmetry == Permutations(Req) \cup Permutations(Student)
=============================================================================
