SPECIFICATION Spec
CONSTANTS
  Me = Me
  None = None
  Today = Today
  NotANumber = NotANumber
  ed = ed
  wri = wri
  root = root
  r1 = r1
  r2 = r2
  SeededActions = {"manage", "create", "read", "update", "delete", "publish"}
  SeededSubjects = {"all", "Content", "PostType", "FieldDefinition"}
  Users <- MCUsers
  PermissionsOf <- MCPermissionsOf
  TypeIds = {1, 2, 3, 4, 5}
  FieldIds = {1, 2, 3, 4, 5}
  TypeNames = {"Story", "Event", "Talk"}
  Settings <- MCSettings
  Values <- MCValues
  FieldNames = {"event_date", "location"}
  Requests = {r1, r2}
  MaxServed = 2
  EntryIds = {1, 2, 3, 4}
  Titles = {"a", "b", "c"}
  MaxNow = 2
  Creations <- MCCreations
  Edits <- MCEdits
  TypeChanges <- MCTypeChanges
  NewFields <- MCNewFields
  FieldChanges <- MCFieldChanges
  Versions = {2}
  Dates = {1, 2}
  FirstEntries <- MCFirstEntries
  FirstUnique = {"location"}
SYMMETRY Symmetric
CHECK_DEADLOCK FALSE
INVARIANTS
  TypeOK
  UniqueValuesHold
PROPERTIES
  PublishedByPublishers
  EditsKeepTheRest
