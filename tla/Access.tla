------------------------------- MODULE Access -------------------------------
(***************************************************************************)
(* Roles, their permissions and who holds them (src/modules/acl and the    *)
(* role operations of src/modules/users): super-admins change roles and    *)
(* permissions and set primary roles; whoever may assign roles gives and   *)
(* takes roles ranked below their own; the seeder runs on every release.   *)
(*                                                                         *)
(* A request is authenticated with the roles its caller holds at that      *)
(* moment and runs one await at a time: what it read may have changed when *)
(* it writes.  A cached read is an earlier read.  Audit records and events *)
(* are left out.                                                           *)
(***************************************************************************)
EXTENDS AclSeed, FiniteSets, SequencesExt

CONSTANTS Users, RoleIds, Names,
          Requests,          \* requests to the user-roles routes
          Priorities,        \* bound: priorities a role is given
          NewPermissions,    \* bound: permissions a super-admin writes
          MaxServed,         \* bound: requests that change something
          MaxAssignments,    \* bound: rows of user_roles ever made
          Lead, LeadPriority, \* the role made before, and its priority
          FirstRoles,        \* everyone's primary role at first
          Stories, Columns,  \* stories, and the columns their lists filter by
          None

VARIABLES permissions, \* the permissions table
          roles,       \* the roles table, with each role's permissions
          primary,     \* users.primary_role_id
          assigned,    \* the user_roles row of a user and a role
          made,        \* rows of user_roles made so far
          served,      \* requests so far
          at, my       \* where each request is, and its local variables

vars == <<permissions, roles, primary, assigned, made, served, at, my>>

Role == [name : Names, isSystem : BOOLEAN, isActive : BOOLEAN,
         priority : Priorities \cup {LeadPriority} \cup {RolesData[n] : n \in DOMAIN RolesData},
         deleted : BOOLEAN, grants : SUBSET (PermissionsData \cup NewPermissions)]

UserRole == [id : 1..MaxAssignments, isActive : BOOLEAN,
             expiresAt : {"never", "later", "past"}]

SeededIds == DOMAIN RolesData \cap RoleIds
FirstIds == SeededIds \cup ({Lead} \cap RoleIds)

ASSUME AccessAssumption ==
  /\ \A S \in {SeededActions, SeededSubjects, NewPermissions, RoleIds} : IsFiniteSet(S)
  /\ FirstIds \subseteq Names
  /\ FirstRoles \in [Users -> FirstIds]
  /\ MaxServed \in Nat /\ MaxAssignments \in Nat
  /\ None \notin Users \cup RoleIds \cup Role \cup UserRole

Existing == {id \in RoleIds : roles[id] # None}
NameTaken(name) == \E id \in Existing : roles[id].name = name

-----------------------------------------------------------------------------
(* The roles that count. *)

IsLiveRole(id) == roles[id] # None /\ roles[id].isActive /\ ~roles[id].deleted

LiveRoles(u) ==
  {id \in RoleIds :
     /\ IsLiveRole(id)
     /\ \/ primary[u] = id
        \/ /\ assigned[u, id] # None
           /\ assigned[u, id].isActive
           /\ assigned[u, id].expiresAt # "past"}

IsSuperAdmin(u) == \E id \in LiveRoles(u) : roles[id].name = "super-admin"

\* getHighestPriorityRole, 0 when no role is live.
HighestPriority(u) ==
  CHOOSE p \in {0} \cup {roles[id].priority : id \in LiveRoles(u)} :
    \A id \in LiveRoles(u) : roles[id].priority <= p

PermissionsOf(u) == UNION {roles[id].grants : id \in LiveRoles(u)}

\* An ability: the permissions' rows come in any order.
Ability(u, rows) == IF IsSuperAdmin(u) THEN Everything ELSE CreateForUser(rows, u)

\* Rows about other actions decide nothing here.
MayAssign(u) ==
  LET rows == {p \in PermissionsOf(u) : p.action \in {"assign", "manage"}}
  IN  CanSome(RulesFor(Ability(u, SetToSeq(rows)), "assign", "Role"))

Blank == [super |-> FALSE, rank |-> 0, todo |-> None, user |-> None,
          role |-> None, ranked |-> FALSE, row |-> None]

Go(r, place) == at' = [at EXCEPT ![r] = place]
Leave(r) == at' = [at EXCEPT ![r] = "idle"] /\ my' = [my EXCEPT ![r] = Blank]

-----------------------------------------------------------------------------
(* Roles and permissions: SuperAdminGuard, then RolesService and           *)
(* PermissionsService, the checks and the write in one step.                *)

\* A super-admin's request.
Administer ==
  /\ \E u \in Users : IsSuperAdmin(u)
  /\ served < MaxServed
  /\ served' = served + 1
  /\ UNCHANGED <<assigned, made, at, my>>

SetRole(id, row) ==
  roles' = [roles EXCEPT ![id] = row] /\ UNCHANGED <<permissions, primary>>

CreateRole(name, p, isSystem, isActive) ==
  /\ Administer
  /\ ~NameTaken(name)
  /\ \E id \in RoleIds \ Existing :
       SetRole(id, [name |-> name, isSystem |-> isSystem, isActive |-> isActive,
                    priority |-> p, deleted |-> FALSE, grants |-> {}])

\* A system role keeps its name and stays one.  A deleted role is found and updated like
\* any other.
UpdateRole(id, name, p, isSystem, isActive) ==
  /\ Administer
  /\ roles[id].isSystem => name = roles[id].name /\ isSystem
  /\ name # roles[id].name => ~NameTaken(name)
  /\ SetRole(id, [roles[id] EXCEPT !.name = name, !.priority = p,
                                   !.isSystem = isSystem, !.isActive = isActive])

\* A deleted role is inactive too.
RemoveRole(id) ==
  /\ Administer
  /\ ~roles[id].isSystem /\ ~roles[id].deleted
  /\ SetRole(id, [roles[id] EXCEPT !.deleted = TRUE, !.isActive = FALSE])

AssignPermissions(id, given) ==
  /\ Administer
  /\ ~roles[id].deleted
  /\ SetRole(id, [roles[id] EXCEPT !.grants = @ \cup given])

\* A system role keeps at least one permission.
RemovePermissions(id, taken) ==
  /\ Administer
  /\ ~roles[id].deleted
  /\ roles[id].isSystem => ~(roles[id].grants \subseteq taken)
  /\ SetRole(id, [roles[id] EXCEPT !.grants = @ \ taken])

NoEquivalent(p) == ~ \E q \in permissions : SameRule(p, q)

CreatePermission(p) ==
  /\ Administer
  /\ NoEquivalent(p)
  /\ permissions' = permissions \cup {p}
  /\ UNCHANGED <<roles, primary>>

\* Every role that has the permission has it as it is now; a deleted one takes its
\* grants along (cascade).
Replace(p, by) ==
  /\ permissions' = (permissions \ {p}) \cup by
  /\ roles' = [id \in RoleIds |->
                 IF roles[id] # None /\ p \in roles[id].grants
                 THEN [roles[id] EXCEPT !.grants = (@ \ {p}) \cup by]
                 ELSE roles[id]]
  /\ UNCHANGED primary

\* Only a change of action, subject or conditions looks for an equivalent.
UpdatePermission(p, q) ==
  Administer /\ (SameRule(p, q) \/ NoEquivalent(q)) /\ Replace(p, {q})

\* Whatever role has it: a system role may lose its last permission.
RemovePermission(p) == Administer /\ Replace(p, {})

\* AdminUserManagementService.updateUser.
SetPrimaryRole(u, id) ==
  /\ Administer
  /\ primary' = [primary EXCEPT ![u] = id]
  /\ UNCHANGED <<permissions, roles>>

-----------------------------------------------------------------------------
(* Additional roles: AbilityGuard, RoleHierarchyGuard, UserRolesService.    *)

Kinds == {"assign", "revoke", "activate", "deactivate"}

\* The role is the one that the service deals in: the body's where it is assigned, the
\* route's otherwise.
Authenticate(r, caller) ==
  /\ at[r] = "idle"
  /\ MayAssign(caller)
  /\ \E kind \in Kinds, u \in Users, id \in Existing :
       my' = [my EXCEPT ![r] =
                [super |-> IsSuperAdmin(caller), rank |-> HighestPriority(caller),
                 todo |-> kind, user |-> u, role |-> id, ranked |-> FALSE, row |-> None]]
  /\ served < MaxServed
  /\ served' = served + 1
  /\ Go(r, "rank")
  /\ UNCHANGED <<permissions, roles, primary, assigned, made>>

\* Mutant: only the ranks are compared.
OutranksRoleByPriority(caller, role) == caller.super \/ role.priority < caller.rank

OutranksRole(caller, role) ==
  caller.super \/ (role.name # "super-admin" /\ role.priority < caller.rank)

\* Any body may name a role, and the guard ranks that one before the route's.  It lets a
\* request pass whose role is not there.
RankRole(r) ==
  /\ at[r] = "rank"
  /\ \E named \in RoleIds :
       /\ my[r].todo = "assign" => named = my[r].role
       /\ IF roles[named] = None \/ OutranksRole(my[r], roles[named])
          THEN Go(r, "target") /\ my' = [my EXCEPT ![r].ranked = (named = my[r].role)]
          ELSE Leave(r)
  /\ UNCHANGED <<permissions, roles, primary, assigned, made, served>>

\* canManageUser, on the target's roles read now.
CanManageUser(caller, u) == caller.super \/ caller.rank > HighestPriority(u)

RankUser(r) ==
  /\ at[r] = "target"
  /\ IF CanManageUser(my[r], my[r].user) THEN Go(r, "find") /\ UNCHANGED my
                                         ELSE Leave(r)
  /\ UNCHANGED <<permissions, roles, primary, assigned, made, served>>

\* A new assignment must not exist yet, a change needs one.
FindAssignment(r) ==
  /\ at[r] = "find"
  /\ LET row == assigned[my[r].user, my[r].role] IN
     IF my[r].todo = "assign" <=> row = None
     THEN Go(r, "save") /\ my' = [my EXCEPT ![r].row = row]
     ELSE Leave(r)
  /\ UNCHANGED <<permissions, roles, primary, assigned, made, served>>

SetAssignment(r, row) == assigned' = [assigned EXCEPT ![<<my[r].user, my[r].role>>] = row]
Current(r) == assigned[my[r].user, my[r].role]

\* The unique index answers a second assignment with a conflict.
AssignRole(r) ==
  /\ at[r] = "save" /\ my[r].todo = "assign"
  /\ \/ /\ Current(r) = None /\ made < MaxAssignments
        /\ \E isActive \in BOOLEAN, expiresAt \in {"never", "later"} :
             SetAssignment(r, [id |-> made + 1, isActive |-> isActive,
                               expiresAt |-> expiresAt])
        /\ made' = made + 1
     \/ Current(r) # None /\ UNCHANGED <<assigned, made>>
  /\ Leave(r)
  /\ UNCHANGED <<permissions, roles, primary, served>>

\* By id: a row made since is another row.
RevokeRole(r) ==
  /\ at[r] = "save" /\ my[r].todo = "revoke"
  /\ IF Current(r) # None /\ Current(r).id = my[r].row.id
     THEN SetAssignment(r, None)
     ELSE UNCHANGED assigned
  /\ Leave(r)
  /\ UNCHANGED <<permissions, roles, primary, made, served>>

\* save writes isActive into the row; when the row is gone it inserts it again as it
\* was read, which the unique index refuses if there is another one.
SetActive(r) ==
  /\ at[r] = "save" /\ my[r].todo \in {"activate", "deactivate"}
  /\ LET isActive == my[r].todo = "activate" IN
     \/ /\ Current(r) # None /\ Current(r).id = my[r].row.id
        /\ SetAssignment(r, [Current(r) EXCEPT !.isActive = isActive])
     \/ Current(r) = None /\ SetAssignment(r, [my[r].row EXCEPT !.isActive = isActive])
     \/ Current(r) # None /\ Current(r).id # my[r].row.id /\ UNCHANGED assigned
  /\ Leave(r)
  /\ UNCHANGED <<permissions, roles, primary, made, served>>

Expire(u, id) ==
  /\ assigned[u, id] # None /\ assigned[u, id].expiresAt = "later"
  /\ assigned' = [assigned EXCEPT ![<<u, id>>].expiresAt = "past"]
  /\ UNCHANGED <<permissions, roles, primary, made, served, at, my>>

-----------------------------------------------------------------------------
(* The seeder. *)

\* createRoles finds a role by its name, deleted or renamed from another one or not.
RoleNamed(name) == CHOOSE id \in Existing : roles[id].name = name

\* The row of a seeded role, as found or as it is made, with its grants: added and then
\* taken back, or only the first of the two when the seeder dies between them.
SeededRow(name, rows, complete) ==
  LET row   == IF NameTaken(name) THEN roles[RoleNamed(name)]
               ELSE [name |-> name, isSystem |-> TRUE, isActive |-> TRUE,
                     priority |-> RolesData[name], deleted |-> FALSE, grants |-> {}]
      given == row.grants \cup RowsFor(rows, GrantsData[name])
      taken == IF complete THEN {p \in given : \E q \in Revoked[name] : SameRule(p, q)}
                           ELSE {}
  IN  [row EXCEPT !.grants = given \ taken]

\* A run of the seeder; a run that dies has given some of the roles their grants.
Seed ==
  /\ \A name \in SeededIds : NameTaken(name) \/ roles[name] = None
  /\ \E complete \in BOOLEAN, reached \in SUBSET SeededIds :
       /\ complete => reached = SeededIds
       /\ \E rows \in {permissions \cup RowsFor(permissions, PermissionsData)} :
            /\ permissions' = rows
            /\ roles' = [id \in RoleIds |->
                 IF \E name \in reached : IF NameTaken(name) THEN id = RoleNamed(name)
                                                             ELSE id = name
                 THEN SeededRow(CHOOSE name \in reached :
                                  IF NameTaken(name) THEN id = RoleNamed(name)
                                                     ELSE id = name,
                                rows, complete)
                 ELSE roles[id]]
  /\ UNCHANGED <<primary, assigned, made, served, at, my>>

-----------------------------------------------------------------------------

AdministerStep ==
  \/ \E name \in Names, p \in Priorities, isSystem, isActive \in BOOLEAN :
       CreateRole(name, p, isSystem, isActive)
  \/ \E id \in Existing :
       \/ \E name \in Names, p \in Priorities, isSystem, isActive \in BOOLEAN :
            UpdateRole(id, name, p, isSystem, isActive)
       \/ RemoveRole(id)
       \/ \E p \in permissions : AssignPermissions(id, {p})
       \/ \E p \in permissions : RemovePermissions(id, {p})
       \/ \E u \in Users : SetPrimaryRole(u, id)
  \/ \E p \in NewPermissions : CreatePermission(p)
  \/ \E p \in permissions : RemovePermission(p) \/ \E q \in NewPermissions : UpdatePermission(p, q)

AssignStep(r) ==
  \/ \E u \in Users : Authenticate(r, u)
  \/ RankRole(r) \/ RankUser(r) \/ FindAssignment(r)
  \/ AssignRole(r) \/ RevokeRole(r) \/ SetActive(r)

Next ==
  \/ AdministerStep
  \/ \E r \in Requests : AssignStep(r)
  \/ \E u \in Users, id \in RoleIds : Expire(u, id)
  \/ Seed

\* A deployment of an earlier release whose super-admins made a role that may assign roles.
Init ==
  /\ permissions = PermissionsData
  /\ roles = [id \in RoleIds |->
       IF id \in SeededIds
       THEN [name |-> id, isSystem |-> TRUE, isActive |-> TRUE, priority |-> RolesData[id],
             deleted |-> FALSE,
             grants |-> GrantsData[id] \cup (Revoked[id] \cap PermissionsData)]
       ELSE IF id = Lead
       THEN [name |-> id, isSystem |-> FALSE, isActive |-> TRUE, priority |-> LeadPriority,
             deleted |-> FALSE, grants |-> {p \in PermissionsData : p.action = "assign"}]
       ELSE None]
  /\ primary = FirstRoles
  /\ assigned = [pair \in Users \X RoleIds |-> None]
  /\ made = 0
  /\ served = 0
  /\ at = [r \in Requests |-> "idle"]
  /\ my = [r \in Requests |-> Blank]

Spec == Init /\ [][Next]_vars

-----------------------------------------------------------------------------
(* Properties. *)

TypeOK ==
  /\ permissions \subseteq PermissionsData \cup NewPermissions
  /\ roles \in [RoleIds -> Role \cup {None}]
  /\ primary \in [Users -> Existing]
  /\ assigned \in [Users \X RoleIds -> UserRole \cup {None}]
  /\ made \in 0..MaxAssignments
  /\ served \in 0..MaxServed
  /\ at \in [Requests -> {"idle", "rank", "target", "find", "save"}]

\* A list shows no story that its viewer may not read on its own, whatever the order in
\* which the rows of permissions come; and where every condition is a plain value and
\* nothing is refused, it shows all of them (story-access.policy.ts readScope, can).
ListsShowWhatIsReadable ==
  \A u \in Users :
    LET about == {p \in PermissionsOf(u) : p.action \in {"read", "manage"}
                                           /\ p.subject \in {"Story", "all"}}
        plain == \A p \in about : /\ ~p.inverted
                                  /\ p.conditions = Always \/ Exact(p.conditions, Columns)
    IN  \A rows \in SetToSeqs(about) :
          LET rules == RulesFor(Ability(u, rows), "read", "Story")
          IN  \A story \in Stories :
                /\ ShowsOnlyReadable(rules, Columns, story)
                /\ plain /\ CanRecord(rules, story)
                     => InScope(RecordScope(rules, Columns), story)

\* Only a request authenticated as a super-admin's makes someone a super-admin: not one
\* of a caller who may assign roles, whatever changes while it runs, nor the seeder
\* (role-hierarchy.guard.ts).  The one exception activates an assignment that the person
\* has, for a body that names another role than the route.
OnlySuperAdminsMakeSuperAdmins ==
  [][\A u \in Users :
       (IsSuperAdmin(u)' /\ ~IsSuperAdmin(u)) =>
         \/ AdministerStep
         \/ \E r \in Requests :
              /\ at'[r] # at[r]
              /\ my[r].super \/ (my[r].todo = "activate" /\ ~my[r].ranked)]_vars

\* role-hierarchy.guard.ts:12 has it that a caller changes roles ranked below their own,
\* "and never the super-admin role (super-admins bypass the check)".
NeverTheSuperAdminRole ==
  [][\A r \in Requests :
       at[r] = "save" /\ assigned' # assigned /\ at'[r] # at[r]
         => my[r].super \/ roles[my[r].role].name # "super-admin"]_vars
=============================================================================
