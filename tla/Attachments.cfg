SPECIFICATION Spec
CONSTANTS
  Requests = {q1, q2}
  Completing = {q1}
  Changing = {q2}
  Showing = {q1}
  Files <- MCFiles
  Contents <- MCContents
  SniffBytes = 4
  None = None
VIEW Canonical
CONSTRAINT Bounded
INVARIANTS RawStaysPrivate AclFollowsRow CompletedIsVerified
PROPERTIES OnlyInvalidRejected
CHECK_DEADLOCK FALSE
