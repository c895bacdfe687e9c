SPECIFICATION Spec
CONSTANTS
  Requests = {r1, r2, r3}
  Keys = {k1}
  Hashes = {h1, h2}
  Lease = 1
  Ttl = 3
  StoreAttempts = 2
  NoRow = NoRow
  Nobody = Nobody
SYMMETRY Symmetry
INVARIANTS HolderUnlessLapsed OutcomeKept ReplayFaithful
PROPERTIES NeverRunAgain
CHECK_DEADLOCK FALSE
