SPECIFICATION CacheSpec
CONSTANTS
  Rows = {s1}
  Parts = {c1}
  Fills = {f1, f2}
  Writers = {w1}
  Ttl <- TtlOfEntries
  SetMargin = 0
  FenceTtl = 2
  MaxAge = 1
  CallTimeout = 0
  MaxWrites = 1
  NoEntry = NoEntry
SYMMETRY Symmetry
VIEW Canonical
CONSTRAINT OneCached
INVARIANTS Tracked StaleOnlyWhilePending
CHECK_DEADLOCK FALSE
