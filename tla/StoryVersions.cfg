SPECIFICATION Spec
CONSTANTS
  Me = Me
  None = None
  Gone = Gone
  Null = Null
  ann = ann
  ed = ed
  root = root
  photo = photo
  scan = scan
  r1 = r1
  r2 = r2
  SeededActions = {"manage", "create", "read", "update", "delete", "publish", "restore"}
  SeededSubjects = {"all", "Story", "StoryVersion", "Tag", "Category"}
  Users <- MCUsers
  PermissionsOf <- MCPermissionsOf
  TagIds = {1, 2}
  CategoryIds = {1, 2, 3}
  Names = {"news", "new"}
  StoryIds = {1, 2, 3}
  Titles = {"a", "b", "c"}
  Times = {"noon"}
  Files = {photo, scan}
  OwnerOf <- MCOwnerOf
  UsableFiles = {photo, scan}
  Images = {photo}
  Requests = {r1, r2}
  MaxServed = 2
  VersionIds = {1, 2, 3, 4, 5, 6, 7}
  Branches = {"main", "try", "new"}
  VersionTags = {"final"}
  NewStories <- MCNewStories
  Edits <- MCEdits
  LinkChanges <- MCLinkChanges
  StatusesAsked = {"PUBLISHED", "DRAFT"}
  Snapshots <- MCSnapshots
  Rollbacks <- MCRollbacks
  NewBranches <- MCNewBranches
  Merges <- MCMerges
  NumbersTagged = {1, 3}
  keepAutoVersions = 1
  PRUNE_BATCH = 2
  FirstTags <- MCFirstTags
  FirstCategories <- MCFirstCategories
  FirstStories <- MCFirstStories
  FirstVersions <- MCFirstVersions
SYMMETRY Symmetric
CHECK_DEADLOCK FALSE
INVARIANTS
  TypeOK
  NumberedInOrder
PROPERTIES
  EditsApplyToWhatWasRead
  PublishedByEditors
  PruningKeepsAncestors
