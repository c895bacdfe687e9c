\* Counterexamples (README, Divergences): TLC finds the first; for another, name it instead.
\*   StaleFillsAreRefused: a timed-out fill is executed after the invalidation it raced with
\*     is forgotten.
\*   NothingMissing: an entry loaded while its part was soft-deleted outlives its return.
SPECIFICATION CacheSpec
CONSTANTS
  Rows = {s1}
  Parts = {c1}
  Fills = {f1}
  Writers = {w1}
  Ttl <- TtlOfEntries
  SetMargin = 0
  FenceTtl = 2
  MaxAge = 1
  CallTimeout = 0
  MaxWrites = 1
  NoEntry = NoEntry
INVARIANTS StaleFillsAreRefused
\* INVARIANTS NothingMissing
CHECK_DEADLOCK FALSE
