\* A counterexample to NoOverlapWhileBeating (README, Divergences).
\* Two requests of one key: a handler that beats in time loses its row to the TTL, and a
\* retry runs beside it.
SPECIFICATION Spec
CONSTANTS
  Requests = {r1, r2}
  Keys = {k1}
  Hashes = {h1}
  Lease = 1
  Ttl = 3
  StoreAttempts = 2
  NoRow = NoRow
  Nobody = Nobody
INVARIANTS NoOverlapWhileBeating
CHECK_DEADLOCK FALSE
