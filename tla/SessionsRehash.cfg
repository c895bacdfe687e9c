\* A counterexample to NewPasswordStands (README, Divergences).
\* A sign-in stores its re-hash of the old password over a new one.
SPECIFICATION Spec
CONSTANTS
  Requests = {r1, r2}
  Passwords = {p1, p2}
  maxConcurrentSessions = 1
  Opened = 1
  MaxSessions = 2
  MaxVersion = 1
  Links = {l1}
  None = None
SYMMETRY Symmetry
CONSTRAINT Constraint
INVARIANT NewPasswordStands
