SPECIFICATION FairSpec
CONSTANTS
  Requests = {r1, r2}
  Workers = {w1}
  maxAttempts = 2
  lockDuration = 1
  resetAttemptsPeriod = 1
  MaxFailed = 3
  MaxUnlockJobs = 1
  GivenCounts = {2}
  None = None
INVARIANTS LockedAtThreshold
PROPERTIES LockHolds LocksEnd
CHECK_DEADLOCK FALSE
