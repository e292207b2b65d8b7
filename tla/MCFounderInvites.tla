-------------------------- MODULE MCFounderInvites ---------------------------
EXTENDS FounderInvites, FiniteSets, TLC

Symmetry ==
  Permutations(Req) \cup Permutations(User) \cup Permutations(Address)
    \cup Permutations(Invite)

\* Bound: no step follows a second accident.
OneAccident == Cardinality(stray) + Cardinality(raced) + Cardinality(contested) <= 1
=============================================================================
