SPECIFICATION MailSpec
CONSTANTS
  Jobs = {j1, j2}
  Verify = Verify
  Callers <- MCCallers
  failureThreshold = 2
  resetTimeout = 1
  halfOpenSuccesses = 2
  halfOpenMaxProbes = 1
  NoCall = NoCall
  attempts = 2
  concurrency = 2
  maxStalled = 1
  MaxMailFaults = 2
SYMMETRY Symmetry
VIEW Canonical
CHECK_DEADLOCK FALSE
INVARIANTS
  ProbesAccounted
  CompletedWasSent
  DeadLettered
PROPERTIES
  ClosesOnProbes
