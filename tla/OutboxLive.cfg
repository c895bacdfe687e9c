SPECIFICATION FairSpec
CONSTANTS
  Messages = {m1, m2}
  Relays = {w1}
  BatchSize = 1
  MaxAttempts = 2
  MaxFaults = 1
  NoRow = NoRow
PROPERTIES EventuallySettled PromiseKept
CHECK_DEADLOCK FALSE
