------------------------------ MODULE MCUploads ------------------------------
EXTENDS Uploads, TLC

Symmetry == Permutations(Req) \cup Permutations(Name) \cup Permutations(Upload)
=============================================================================
