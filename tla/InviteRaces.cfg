SPECIFICATION Spec
CONSTANTS
  Req = {r1, r2}
  User = {u1, u2}
  Address = {a1, a2, a3}
  Invite = {i1, i2}
  None = None
  MaxFounders = 2
  MaxMoves = 1
CONSTRAINT OneAccident
SYMMETRY Symmetry
INVARIANTS AcceptedIsFounder FounderOnce FounderWasInvited OnePending
PROPERTY AnswerIsFinal
