SPECIFICATION Spec
CONSTANTS
  Req = {r1, r2}
  Password = {p1, p2}
  None = None
  RefreshTtl = 2
  MaxTime = 2
SYMMETRY Symmetry
INVARIANTS SpentComesBackOnlyLate InForceIsKnown OldPasswordRunsOut
