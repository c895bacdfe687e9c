SPECIFICATION Spec
CONSTANTS
  Me = Me
  root = root
  lia = lia
  joe = joe
  None = None
  SeededActions = {"manage", "read", "assign"}
  SeededSubjects = {"all", "Story", "Role"}
  Users <- MCUsers
  RoleIds <- MCRoleIds
  Names <- MCNames
  Requests = {q}
  Priorities = {40}
  NewPermissions <- MCNewPermissions
  MaxServed = 2
  MaxAssignments = 1
  Lead = "lead"
  LeadPriority = 60
  FirstRoles <- MCFirstRoles
  Stories <- MCStories
  Columns <- MCColumns
INVARIANTS
  ListsShowWhatIsReadable
PROPERTY OnlySuperAdminsMakeSuperAdmins
