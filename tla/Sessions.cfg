SPECIFICATION Spec
CONSTANTS
  Requests = {r1, r2}
  Passwords = {p1, p2}
  maxConcurrentSessions = 1
  Opened = 1
  MaxSessions = 3
  MaxVersion = 1
  Links = {l1}
  None = None
SYMMETRY Symmetry
VIEW Canonical
CONSTRAINT Constraint
INVARIANTS ResetVoids OneSuccessor RotatedIsOver TokenDiesWithSession
CHECK_DEADLOCK FALSE
