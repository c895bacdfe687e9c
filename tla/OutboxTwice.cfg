\* A counterexample to QueuedOnce (README, Divergences).
\* A message whose marks were lost is dispatched again after BullMQ removed its job.
SPECIFICATION SlowRemovalSpec
CONSTANTS
  Messages = {m1}
  Relays = {w1, w2}
  BatchSize = 1
  MaxAttempts = 2
  MaxFaults = 1
  NoRow = NoRow
INVARIANTS QueuedOnce
CHECK_DEADLOCK FALSE
