\* Counterexamples (README, Divergences): TLC finds the first; for another, name it instead.
\*   RawIsNeverPublic: a photo is made the main image of a story before it is processed.
\*   MainImageFollowsRow: it becomes one while its owner deletes it or makes it private.
\*   FlagAndAclTogether: a text whose owner makes it private while it is completed.
SPECIFICATION Spec
CONSTANTS
  Requests = {q1, q2}
  Completing = {q1}
  Changing = {q2}
  Showing = {q1}
  Files <- MCFiles
  Contents <- MCContents
  SniffBytes = 4
  None = None
INVARIANTS RawIsNeverPublic
\* INVARIANTS MainImageFollowsRow
\* INVARIANTS FlagAndAclTogether
CHECK_DEADLOCK FALSE
