SPECIFICATION FairSpec
CONSTANTS
  Requests = {r1, r2}
  Keys = {k1}
  Hashes = {h1}
  Lease = 1
  Ttl = 3
  StoreAttempts = 2
  NoRow = NoRow
  Nobody = Nobody
PROPERTIES AbandonedKeyFreed
CHECK_DEADLOCK FALSE
