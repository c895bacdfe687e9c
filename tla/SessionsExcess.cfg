\* A counterexample to OnlyExcessRevoked (README, Divergences).
\* The list of sessions is shorter than the count it is cut by.
SPECIFICATION Spec
CONSTANTS
  Requests = {r1, r2}
  Passwords = {p1}
  maxConcurrentSessions = 4
  Opened = 4
  MaxSessions = 5
  MaxVersion = 0
  Links = {}
  None = None
SYMMETRY Symmetry
CONSTRAINT Constraint
INVARIANT OnlyExcessRevoked
