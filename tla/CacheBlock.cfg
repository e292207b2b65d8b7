SPECIFICATION Spec
CONSTANTS
  Req = {r1, r2}
  Gone = Gone
  DetailTtl = 2
  MaxWrites = 3
  MaxFaults = 0
INVARIANT BlockImmediate
