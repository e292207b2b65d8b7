CONSTANTS
  None = None
  Req = {r1, r2}
  Code = {c1, c2}
  MaxAttempts = 2
  OtpTtl = 2
  CooldownTtl = 1
  AttemptsTtl = 2
  LockoutTtl = 3
  MaxIssues = 1
  MaxFaults = 0
  MaxCrashes = 1
SPECIFICATION FairSpec
PROPERTY LockoutEnds
PROPERTY CallsAnswered
PROPERTY ImplementsOneTimeCode
