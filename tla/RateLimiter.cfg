SPECIFICATION Spec
CONSTANTS
  Req = {r1, r2}
  Limit = 2
  WindowLength = 2
  MaxTime = 3
  MaxCalls = 4
  MaxFaults = 1
  MaxCrashes = 1
SYMMETRY Symmetry
INVARIANTS AdmittedWithinLimit RefusedOnlyAtLimit CountersExpire
