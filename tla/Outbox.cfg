SPECIFICATION Spec
CONSTANTS
  Messages = {m1, m2}
  Relays = {w1, w2}
  BatchSize = 2
  MaxAttempts = 2
  MaxFaults = 1
  NoRow = NoRow
SYMMETRY Symmetry
INVARIANTS JobOnlyIfCommitted HandedOver DataKept ChargedForTries
PROPERTIES Settled
CHECK_DEADLOCK FALSE
