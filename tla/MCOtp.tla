------------------------------- MODULE MCOtp --------------------------------
EXTENDS OtpProperties, TLC
Symmetry == Permutations(Req) \cup Permutations(Code)
=============================================================================
