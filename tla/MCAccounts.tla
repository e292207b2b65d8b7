----------------------------- MODULE MCAccounts -----------------------------
EXTENDS Accounts, TLC
Symmetry == Permutations(Req) \cup Permutations(Seed) \cup Permutations(Address)
=============================================================================
