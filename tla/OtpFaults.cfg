CONSTANTS
  None = None
  Req = {r1, r2}
  Code = {c1, c2}
  MaxAttempts = 3
  OtpTtl = 2
  CooldownTtl = 1
  AttemptsTtl = 2
  LockoutTtl = 3
  MaxIssues = 2
  MaxFaults = 1
  MaxCrashes = 0
SPECIFICATION Spec
SYMMETRY Symmetry
INVARIANT TypeOK
INVARIANT NoReplayAfterSuccess
INVARIANT RedeemedOnlyByOverlappingCalls
INVARIANT LimitIsEnforced
INVARIANT CounterWillExpire
INVARIANT GuessBudget
PROPERTY DeadStaysDead
PROPERTY LockoutOnlyExpires
