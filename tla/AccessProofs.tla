---------------------------- MODULE AccessProofs ----------------------------
(***************************************************************************)
(* Theorems about Access and the abilities it rests on: what the filter of *)
(* a list shows can be read on its own, for any rules in any order and for *)
(* every user of every reachable state; and no one but a super-admin makes *)
(* a super-admin, unless by activating an assignment for a body that names *)
(* another role.                                                           *)
(***************************************************************************)
EXTENDS Access, FiniteSetTheorems, WellFoundedInduction, TLAPS

-----------------------------------------------------------------------------
(* Abilities. *)

\* A set of natural numbers that has a member has a least one.
LEMMA LeastMember ==
  ASSUME NEW T, T \subseteq Nat, T # {}
  PROVE  \E x \in T : \A y \in T : ~(y < x)
<1>1. \E x \in T : \A y \in T : ~(<<y, x>> \in OpToRel(<, Nat))
  BY WFMin, NatLessThanWellFounded
<1>2. PICK x \in T : \A y \in T : ~(<<y, x>> \in OpToRel(<, Nat))
  BY <1>1
<1>3. \A y \in T : y < x => <<y, x>> \in OpToRel(<, Nat)
  BY DEF OpToRel
<1> QED
  BY <1>2, <1>3

\* A bounded one has a greatest.
LEMMA GreatestMember ==
  ASSUME NEW n \in Nat, NEW T, T \subseteq 1..n, T # {}
  PROVE  \E x \in T : \A y \in T : ~(y > x)
<1> DEFINE Left == {n - x : x \in T}
<1>1. Left \subseteq Nat /\ Left # {}
  <2>1. \A x \in T : n - x \in Nat
    OBVIOUS
  <2>2. PICK x \in T : TRUE
    OBVIOUS
  <2>3. n - x \in Left
    BY <2>2
  <2> QED
    BY <2>1, <2>3
<1>2. PICK m \in Left : \A y \in Left : ~(y < m)
  BY <1>1, LeastMember
<1>3. PICK x \in T : m = n - x
  BY <1>2
<1>4. ASSUME NEW y \in T, y > x PROVE FALSE
  <2>1. n - y \in Left /\ n - y < m
    BY <1>3, <1>4
  <2> QED
    BY <2>1, <1>2
<1> QED
  BY <1>4

\* A condition-free rule matches every record.
LEMMA AlwaysMatches ==
  ASSUME NEW record
  PROVE  Matches(Always, record)
BY DEF Matches, Always

\* A record that a grant above the first refusal matches may be read: the highest rule
\* that matches it stands no lower, so it is a grant too.
LEMMA GrantAboveRefusals ==
  ASSUME NEW n \in Nat, NEW rules, NEW record, DOMAIN rules \subseteq 1..n,
         NEW i \in Unrestricted(rules), Matches(rules[i].conditions, record)
  PROVE  CanRecord(rules, record)
<1> DEFINE T == {k \in DOMAIN rules : Matches(rules[k].conditions, record)}
<1>1. i \in DOMAIN rules /\ \A j \in DOMAIN rules : j = i \/ j > i => ~ rules[j].inverted
  BY DEF Unrestricted, Above
<1>2. T \subseteq 1..n /\ i \in T
  BY <1>1
<1>3. PICK k \in T : \A y \in T : ~(y > k)
  BY <1>2, GreatestMember
<1>4. k = i \/ k > i
  BY <1>2, <1>3
<1>5. ~ rules[k].inverted
  BY <1>1, <1>3, <1>4
<1>6. \A j \in Above(rules, k) : ~Matches(rules[j].conditions, record)
  BY <1>3 DEF Above
<1> QED
  BY <1>3, <1>5, <1>6 DEF CanRecord

\* What a list shows is readable on its own, whatever the rules at however many
\* positions, the columns and the record (record-scope.ts fails closed).
THEOREM ScopeIsSound ==
  \A n \in Nat : \A rules, columns, record :
    DOMAIN rules \subseteq 1..n => ShowsOnlyReadable(rules, columns, record)
<1> SUFFICES ASSUME NEW n \in Nat, NEW rules, NEW columns, NEW record,
                    DOMAIN rules \subseteq 1..n,
                    InScope(RecordScope(rules, columns), record)
             PROVE  CanRecord(rules, record)
  BY DEF ShowsOnlyReadable
<1>1. CASE \E i \in Unrestricted(rules) : rules[i].conditions = Always
  <2>1. PICK i \in Unrestricted(rules) : rules[i].conditions = Always
    BY <1>1
  <2> QED
    BY <2>1, AlwaysMatches, GrantAboveRefusals
<1>2. CASE \E conditions \in RecordScope(rules, columns).anyOf : Matches(conditions, record)
  <2>1. PICK i \in Unrestricted(rules) : Matches(rules[i].conditions, record)
    BY <1>2 DEF RecordScope
  <2> QED
    BY <2>1, GrantAboveRefusals
<1> QED
  BY <1>1, <1>2 DEF InScope, RecordScope

-----------------------------------------------------------------------------
(* The seeded permissions. *)

SeededConditions ==
  ((({Always} \cup {OnColumn("id", Is(Me))}) \cup {OnColumn("userId", Is(Me))})
     \cup {OnColumn("status", Is("PUBLISHED"))}) \cup {OnColumn("isPublic", Is(TRUE))}

LEMMA PermissionForm ==
  ASSUME NEW p \in PermissionsData
  PROVE  \E a \in SeededActions, s \in SeededSubjects, c \in SeededConditions :
           p = Permission(a, s, c)
<1> DEFINE Formed(q) == \E a, s : \E c \in SeededConditions : q = Permission(a, s, c)
<1>1. \A A, s : \A q \in All(A, s) : Formed(q)
  <2>1. Always \in SeededConditions
    BY DEF SeededConditions
  <2> QED
    BY <2>1 DEF All
<1>2. \A c : OnColumn(c, Is(Me)) \in SeededConditions
               => \A A, s : \A q \in Own(A, s, c) : Formed(q)
  BY DEF Own
<1>3. /\ OnColumn("id", Is(Me)) \in SeededConditions
      /\ OnColumn("userId", Is(Me)) \in SeededConditions
      /\ OnColumn("status", Is("PUBLISHED")) \in SeededConditions
      /\ OnColumn("isPublic", Is(TRUE)) \in SeededConditions
  BY DEF SeededConditions
<1>4. \A q \in PublishedStories \cup PublicAttachments : Formed(q)
  BY <1>3 DEF PublishedStories, PublicAttachments
<1>5. Formed(p) => \E a, s : \E c \in SeededConditions : p = Permission(a, s, c)
  OBVIOUS
<1> HIDE DEF Formed
<1>6. Formed(p)
  BY <1>1, <1>2, <1>3, <1>4 DEF PermissionsData, Looked
<1>7. PICK a, s : \E c \in SeededConditions : p = Permission(a, s, c)
  BY <1>5, <1>6
<1>8. p.action = a /\ p.subject = s
  BY <1>7 DEF Permission
<1>9. p.action \in SeededActions /\ p.subject \in SeededSubjects
  BY DEF PermissionsData, Looked
<1> QED
  BY <1>7, <1>8, <1>9

\* There are finitely many: three lists of finite sets determine a permission.
LEMMA FinitePermissions ==
  /\ IsFiniteSet(PermissionsData)
  /\ IsFiniteSet(PermissionsData \cup NewPermissions)
<1> DEFINE AS == SeededActions \X SeededSubjects
           ASC == AS \X SeededConditions
           f == [t \in ASC |-> Permission(t[1][1], t[1][2], t[2])]
           P == {f[t] : t \in ASC}
<1>1. IsFiniteSet(SeededConditions)
  <2>1. \A c : {c} = {} \cup {c}
    OBVIOUS
  <2>2. IsFiniteSet({Always})
    BY <2>1, FS_EmptySet, FS_AddElement
  <2> QED
    BY <2>2, FS_AddElement DEF SeededConditions
<1>2. IsFiniteSet(ASC)
  BY <1>1, FS_Product, AccessAssumption
<1>3. IsFiniteSet(P)
  <2>1. f \in [ASC -> P] /\ \A x \in P : \E t \in ASC : f[t] = x
    OBVIOUS
  <2>2. f \in Surjection(ASC, P)
    BY <2>1 DEF Surjection
  <2> QED
    BY <1>2, <2>2, FS_Surjection
<1>4. ASSUME NEW a \in SeededActions, NEW s \in SeededSubjects, NEW c \in SeededConditions
      PROVE  Permission(a, s, c) \in P
  <2>1. <<a, s>> \in AS /\ <<<<a, s>>, c>> \in ASC
    OBVIOUS
  <2>2. f[<<<<a, s>>, c>>] = Permission(a, s, c)
    BY <2>1
  <2> QED
    BY <2>1, <2>2
<1>5. PermissionsData \subseteq P
  BY <1>4, PermissionForm
<1> QED
  BY <1>3, <1>5, FS_Subset, FS_Union, AccessAssumption

\* Whatever the seeder grants, it has made.
LEMMA GrantsAreSeeded ==
  ASSUME NEW name \in DOMAIN RolesData
  PROVE  GrantsData[name] \subseteq PermissionsData
<1> DEFINE More == CRUD \cup {"publish", "archive", "moderate"}
           Reads(subjects) == UNION {All({"read"}, s) : s \in subjects}
<1>1. \A A, B, s : A \subseteq B => All(A, s) \subseteq All(B, s)
  BY DEF All
<1>2. /\ \A s : All({"read"}, s) \subseteq All(CRUD, s)
      /\ All({"create"}, "Story") \subseteq All(More, "Story")
      /\ All({"create"}, "Attachment") \subseteq All(CRUD, "Attachment")
      /\ \A s : All({"create", "read", "update"}, s) \subseteq All(CRUD, s)
      /\ \A s : All({"read", "create", "update"}, s) \subseteq All(CRUD, s)
      /\ \A s : All({"read", "update", "delete"}, s) \subseteq All(CRUD, s)
      /\ \A s : All({"read"}, s) \subseteq All({"read", "update"}, s)
      /\ All({"read", "update", "delete", "moderate", "publish", "archive"}, "Story")
           \subseteq All(More, "Story")
  BY <1>1 DEF CRUD
<1>3. \A S : \A p \in Reads(S) : \E s \in S : p \in All({"read"}, s)
  OBVIOUS
<1>4. \A p : p \in PermissionsData <=>
        /\ p.action \in SeededActions /\ p.subject \in SeededSubjects
        /\ p \in All({"manage"}, "all")
             \cup All(CRUD, "User") \cup Own({"update"}, "User", "id")
             \cup All(More, "Story")
             \cup PublishedStories \cup Own({"read", "update", "delete"}, "Story", "userId")
             \cup All(CRUD, "StoryVersion")
             \cup All(CRUD, "Attachment") \cup PublicAttachments
             \cup Own({"read", "update", "delete"}, "Attachment", "userId")
             \cup All(CRUD, "Category") \cup All(CRUD, "Tag")
             \cup All({"read", "delete"}, "Session")
             \cup Own({"read", "delete"}, "Session", "userId")
             \cup All(CRUD \cup {"assign"}, "Role") \cup All(CRUD, "Permission")
             \cup All(CRUD, "PostType") \cup All(CRUD, "FieldDefinition")
             \cup All(CRUD \cup {"publish"}, "Content")
             \cup All({"read", "update"}, "Country") \cup All({"read", "update"}, "Setting")
  BY DEF PermissionsData, Looked
<1>5. Looked(All({"manage"}, "all")) \subseteq PermissionsData
  BY DEF Looked, PermissionsData
<1>6. AdminPermissions \subseteq PermissionsData
  BY DEF AdminPermissions
<1>7. \A p \in Reads({"Category", "Tag", "Country", "Setting", "PostType", "FieldDefinition"}) :
        \/ p \in All(CRUD, "Category") \cup All(CRUD, "Tag") \cup All(CRUD, "PostType")
                   \cup All(CRUD, "FieldDefinition")
        \/ p \in All({"read", "update"}, "Country") \cup All({"read", "update"}, "Setting")
  BY <1>2, <1>3
<1>8. Reads({"Category", "Tag", "Country"})
        \subseteq Reads({"Category", "Tag", "Country", "Setting", "PostType", "FieldDefinition"})
  OBVIOUS
<1>9. UserPermissions \subseteq PermissionsData
  <2> HIDE DEF More
  <2> SUFFICES ASSUME NEW p \in UserPermissions PROVE p \in PermissionsData
    OBVIOUS
  <2>1. p.action \in SeededActions /\ p.subject \in SeededSubjects
    BY DEF UserPermissions, Looked
  <2>2. \/ p \in Own({"update"}, "User", "id") \cup PublishedStories \cup PublicAttachments
        \/ p \in Own({"read", "update", "delete"}, "Story", "userId")
                  \cup Own({"read", "update", "delete"}, "Attachment", "userId")
                  \cup Own({"read", "delete"}, "Session", "userId")
        \/ p \in All({"create"}, "Story") \cup All({"create"}, "Attachment")
        \/ p \in All({"create", "read", "update"}, "StoryVersion")
        \/ p \in Reads({"Category", "Tag", "Country"})
    BY DEF UserPermissions, Looked
  <2> HIDE DEF Reads
  <2>3. CASE p \in Reads({"Category", "Tag", "Country"})
    BY <2>1, <2>3, <1>4, <1>7, <1>8
  <2>4. CASE \/ p \in All({"create"}, "Story") \cup All({"create"}, "Attachment")
             \/ p \in All({"create", "read", "update"}, "StoryVersion")
    <3>1. \/ p \in All(More, "Story") \cup All(CRUD, "Attachment")
          \/ p \in All(CRUD, "StoryVersion")
      BY <2>4, <1>2
    <3> QED
      BY <2>1, <3>1, <1>4
  <2> QED
    BY <2>1, <2>2, <2>3, <2>4, <1>4
<1>10. GuestPermissions \subseteq PermissionsData
  <2> HIDE DEF More
  <2> SUFFICES ASSUME NEW p \in GuestPermissions PROVE p \in PermissionsData
    OBVIOUS
  <2>1. p.action \in SeededActions /\ p.subject \in SeededSubjects
    BY DEF GuestPermissions, Looked
  <2> QED
    BY <2>1, <1>4, <1>7, <1>8 DEF GuestPermissions, Looked
<1>11. ModeratorPermissions \subseteq PermissionsData
  <2> HIDE DEF More
  <2> SUFFICES ASSUME NEW p \in ModeratorPermissions PROVE p \in PermissionsData
    OBVIOUS
  <2>1. p.action \in SeededActions /\ p.subject \in SeededSubjects
    BY DEF ModeratorPermissions, Looked
  <2>2. \/ p \in All({"read"}, "User")
        \/ p \in All({"read", "update", "delete", "moderate", "publish", "archive"}, "Story")
        \/ p \in All({"read", "create", "update"}, "StoryVersion")
        \/ p \in All({"read", "update", "delete"}, "Attachment")
        \/ p \in All(CRUD \cup {"publish"}, "Content")
        \/ p \in Reads({"Category", "Tag", "Country", "Setting", "PostType",
                        "FieldDefinition"})
    BY DEF ModeratorPermissions, Looked
  <2> HIDE DEF Reads
  <2>3. \/ p \in All(CRUD, "User") \cup All(More, "Story") \cup All(CRUD, "StoryVersion")
        \/ p \in All(CRUD, "Attachment") \cup All(CRUD \cup {"publish"}, "Content")
        \/ p \in All(CRUD, "Category") \cup All(CRUD, "Tag") \cup All(CRUD, "PostType")
                  \cup All(CRUD, "FieldDefinition")
        \/ p \in All({"read", "update"}, "Country") \cup All({"read", "update"}, "Setting")
    BY <2>2, <1>2, <1>7
  <2> QED
    BY <2>1, <2>3, <1>4
<1> QED
  BY <1>5, <1>6, <1>9, <1>10, <1>11 DEF GrantsData, RolesData

-----------------------------------------------------------------------------
(* The roles, in every reachable state. *)

\* Only the role of that id is named super-admin, and no one renames it.
SuperNamed ==
  /\ \A id \in Existing : roles[id].name = "super-admin" <=> id = "super-admin"
  /\ "super-admin" \in RoleIds =>
       roles["super-admin"] # None /\ roles["super-admin"].isSystem

IsLocals(l) ==
  l = [super |-> l.super, rank |-> l.rank, todo |-> l.todo, user |-> l.user,
       role |-> l.role, ranked |-> l.ranked, row |-> l.row]

\* A request that is past the guard's look at the role deals in no super-admin, unless
\* it is a super-admin's, or names another role than it changes.
RequestOK(r) ==
  /\ IsLocals(my[r])
  /\ at[r] # "idle" => my[r].user \in Users /\ my[r].role \in Existing
  /\ at[r] = "save" => /\ my[r].row \in UserRole \cup {None}
                       /\ (my[r].todo = "assign" <=> my[r].row = None)
  /\ at[r] \in {"target", "find", "save"} =>
       /\ my[r].todo = "assign" => my[r].ranked
       /\ my[r].super \/ my[r].role # "super-admin" \/ ~my[r].ranked

RequestsOK == DOMAIN my = Requests /\ \A r \in Requests : RequestOK(r)

IInv == TypeOK /\ SuperNamed /\ RequestsOK

LEMMA NoneFacts ==
  /\ None \notin Role /\ None \notin UserRole /\ None \notin RoleIds /\ None \notin Users
BY AccessAssumption

LEMMA SeededGrants ==
  ASSUME NEW rows, NEW name \in DOMAIN RolesData
  PROVE  RowsFor(rows, GrantsData[name]) \subseteq rows \cup PermissionsData
BY GrantsAreSeeded DEF RowsFor

\* The initial roles.
LEMMA InitOK == Init => IInv
<1> SUFFICES ASSUME Init PROVE IInv
  OBVIOUS
<1>1. ASSUME NEW id \in RoleIds
      PROVE  /\ roles[id] \in Role \cup {None}
             /\ id \in FirstIds => roles[id] \in Role
             /\ roles[id] # None => roles[id].name = id
             /\ id = "super-admin" => roles[id] \in Role /\ roles[id].isSystem
  <2>1. CASE id \in SeededIds
    <3>1. roles[id] \in Role /\ roles[id].name = id /\ roles[id].isSystem
      BY <2>1, GrantsAreSeeded, AccessAssumption DEF Init, Role, SeededIds, FirstIds
    <3> QED
      BY <3>1
  <2>2. CASE id \notin SeededIds /\ id = Lead
    <3>1. roles[id] \in Role /\ roles[id].name = id
      BY <2>2, AccessAssumption DEF Init, Role, FirstIds
    <3> QED
      BY <2>2, <3>1 DEF SeededIds, RolesData
  <2>3. CASE id \notin SeededIds /\ id # Lead
    BY <2>3 DEF Init, SeededIds, FirstIds, RolesData
  <2> QED
    BY <2>1, <2>2, <2>3
<1>2. roles \in [RoleIds -> Role \cup {None}]
  BY <1>1 DEF Init
<1>3. primary \in [Users -> Existing]
  <2>1. FirstIds \subseteq Existing
    BY <1>1, NoneFacts DEF Existing, FirstIds, SeededIds
  <2> QED
    BY <2>1, AccessAssumption DEF Init
<1>4. TypeOK
  BY <1>2, <1>3, AccessAssumption DEF Init, TypeOK
<1>5. SuperNamed
  BY <1>1, NoneFacts DEF SuperNamed, Existing
<1>6. RequestsOK
  BY DEF Init, RequestsOK, RequestOK, IsLocals, Blank
<1> QED
  BY <1>4, <1>5, <1>6 DEF IInv

\* What a change of roles must keep.
RolesOK ==
  /\ permissions \subseteq PermissionsData \cup NewPermissions
  /\ roles \in [RoleIds -> Role \cup {None}]
  /\ SuperNamed

LEMMA SetRoleKeeps ==
  ASSUME RolesOK, NEW id \in RoleIds, NEW row \in Role, SetRole(id, row),
         row.name = "super-admin" <=> id = "super-admin",
         id = "super-admin" => row.isSystem
  PROVE  RolesOK' /\ Existing \subseteq Existing' /\ UNCHANGED primary
<1>1. /\ roles' = [roles EXCEPT ![id] = row] /\ UNCHANGED <<permissions, primary>>
      /\ roles \in [RoleIds -> Role \cup {None}]
  BY DEF SetRole, RolesOK
<1>2. /\ roles' \in [RoleIds -> Role \cup {None}]
      /\ roles'[id] = row /\ row # None
      /\ \A other \in RoleIds \ {id} : roles'[other] = roles[other]
  BY <1>1, NoneFacts
<1>3. Existing \subseteq Existing'
  BY <1>2 DEF Existing
<1>4. SuperNamed'
  BY <1>2, <1>3 DEF SuperNamed, Existing, RolesOK
<1> QED
  BY <1>1, <1>2, <1>3, <1>4 DEF RolesOK

\* An administrator is one by a role that is the super-admin's.
LEMMA SuperAdminExists ==
  ASSUME RolesOK, Administer
  PROVE  "super-admin" \in Existing /\ NameTaken("super-admin")
<1>1. PICK u \in Users : IsSuperAdmin(u)
  BY DEF Administer
<1>2. PICK id \in LiveRoles(u) : roles[id].name = "super-admin"
  BY <1>1 DEF IsSuperAdmin
<1>3. id \in Existing
  BY <1>2 DEF LiveRoles, IsLiveRole, Existing
<1> QED
  BY <1>2, <1>3 DEF RolesOK, SuperNamed, NameTaken

LEMMA RowFacts ==
  ASSUME RolesOK, NEW id \in Existing
  PROVE  /\ id \in RoleIds /\ roles[id] \in Role
         /\ roles[id].name = "super-admin" <=> id = "super-admin"
         /\ id = "super-admin" => roles[id].isSystem
BY DEF RolesOK, SuperNamed, Existing

LEMMA ReplaceKeeps ==
  ASSUME RolesOK, NEW p, NEW by, by \subseteq NewPermissions, Replace(p, by)
  PROVE  RolesOK' /\ Existing \subseteq Existing' /\ UNCHANGED primary
<1>1. ASSUME NEW id \in RoleIds
      PROVE  /\ roles'[id] \in Role \cup {None}
             /\ roles[id] # None => /\ roles'[id] # None
                                    /\ roles'[id].name = roles[id].name
                                    /\ roles'[id].isSystem = roles[id].isSystem
             /\ roles[id] = None => roles'[id] = None
  <2>1. CASE roles[id] # None /\ p \in roles[id].grants
    <3>1. roles'[id] = [roles[id] EXCEPT !.grants = (@ \ {p}) \cup by]
      BY <2>1 DEF Replace
    <3>2. roles[id] \in Role
      BY <2>1 DEF RolesOK
    <3>3. roles'[id] \in Role
      BY <3>1, <3>2 DEF Role
    <3> QED
      BY <3>1, <3>2, <3>3, NoneFacts DEF Role
  <2>2. CASE ~(roles[id] # None /\ p \in roles[id].grants)
    <3>1. roles'[id] = roles[id]
      BY <2>2 DEF Replace
    <3> QED
      BY <3>1 DEF RolesOK
  <2> QED
    BY <2>1, <2>2
<1>2. roles' \in [RoleIds -> Role \cup {None}]
  BY <1>1 DEF Replace
<1>3. Existing \subseteq Existing'
  BY <1>1 DEF Existing
<1>4. SuperNamed'
  BY <1>1 DEF RolesOK, SuperNamed, Existing
<1> QED
  BY <1>2, <1>3, <1>4 DEF RolesOK, Replace

\* A super-admin's change leaves one role named super-admin: its name is taken.
LEMMA CreateRoleKeeps ==
  ASSUME RolesOK, NEW name \in Names, NEW p \in Priorities, NEW isSystem \in BOOLEAN,
         NEW isActive \in BOOLEAN, CreateRole(name, p, isSystem, isActive)
  PROVE  RolesOK' /\ Existing \subseteq Existing' /\ UNCHANGED primary
<1> DEFINE row == [name |-> name, isSystem |-> isSystem, isActive |-> isActive,
                   priority |-> p, deleted |-> FALSE, grants |-> {}]
<1>1. PICK id \in RoleIds \ Existing : SetRole(id, row)
  BY DEF CreateRole
<1>2. row \in Role
  BY DEF Role
<1>3. id # "super-admin" /\ row.name # "super-admin"
  BY <1>1, SuperAdminExists DEF CreateRole
<1> HIDE DEF row
<1> QED
  BY <1>1, <1>2, <1>3, SetRoleKeeps

LEMMA UpdateRoleKeeps ==
  ASSUME RolesOK, NEW id \in Existing, NEW name \in Names, NEW p \in Priorities,
         NEW isSystem \in BOOLEAN, NEW isActive \in BOOLEAN,
         UpdateRole(id, name, p, isSystem, isActive)
  PROVE  RolesOK' /\ Existing \subseteq Existing' /\ UNCHANGED primary
<1> DEFINE row == [roles[id] EXCEPT !.name = name, !.priority = p,
                                    !.isSystem = isSystem, !.isActive = isActive]
<1>1. SetRole(id, row)
  BY DEF UpdateRole
<1>2. row \in Role /\ row.name = name /\ row.isSystem = isSystem
  BY RowFacts DEF Role
<1>3. id = "super-admin" => name = "super-admin" /\ isSystem
  BY RowFacts DEF UpdateRole
<1>4. name = "super-admin" => id = "super-admin"
  BY RowFacts, SuperAdminExists DEF UpdateRole
<1> HIDE DEF row
<1> QED
  BY <1>1, <1>2, <1>3, <1>4, RowFacts, SetRoleKeeps

LEMMA AdministerKeeps ==
  ASSUME IInv, AdministerStep
  PROVE  /\ RolesOK' /\ Existing \subseteq Existing'
         /\ primary' \in [Users -> Existing'] /\ served' \in 0..MaxServed
         /\ UNCHANGED <<assigned, made, at, my>>
<1> DEFINE Keeps == RolesOK' /\ Existing \subseteq Existing' /\ UNCHANGED primary
<1>0. RolesOK /\ TypeOK
  BY DEF IInv, TypeOK, RolesOK
<1>1. ASSUME NEW name \in Names, NEW p \in Priorities, NEW isSystem \in BOOLEAN,
             NEW isActive \in BOOLEAN, CreateRole(name, p, isSystem, isActive)
      PROVE  Keeps /\ Administer
  BY <1>0, <1>1, CreateRoleKeeps DEF CreateRole
<1>2. ASSUME NEW id \in Existing, NEW name \in Names, NEW p \in Priorities,
             NEW isSystem \in BOOLEAN, NEW isActive \in BOOLEAN,
             UpdateRole(id, name, p, isSystem, isActive)
      PROVE  Keeps /\ Administer
  BY <1>0, <1>2, UpdateRoleKeeps DEF UpdateRole
<1>3. ASSUME NEW id \in Existing, NEW row,
             SetRole(id, row), \/ row = [roles[id] EXCEPT !.deleted = TRUE, !.isActive = FALSE]
                               \/ \E grants \in SUBSET (PermissionsData \cup NewPermissions) :
                                    row = [roles[id] EXCEPT !.grants = grants]
      PROVE  Keeps
  <2>1. row \in Role /\ row.name = roles[id].name /\ row.isSystem = roles[id].isSystem
    BY <1>0, <1>3, RowFacts DEF Role
  <2> QED
    BY <1>0, <1>3, <2>1, RowFacts, SetRoleKeeps
<1>4. ASSUME NEW id \in Existing, RemoveRole(id) PROVE Keeps /\ Administer
  BY <1>3, <1>4 DEF RemoveRole
<1>5. ASSUME NEW id \in Existing, NEW p \in permissions,
             AssignPermissions(id, {p}) \/ RemovePermissions(id, {p})
      PROVE  Keeps /\ Administer
  <2>1. /\ roles[id].grants \subseteq PermissionsData \cup NewPermissions
        /\ p \in PermissionsData \cup NewPermissions
    BY <1>0, RowFacts DEF Role, RolesOK
  <2>2. CASE AssignPermissions(id, {p})
    <3>1. SetRole(id, [roles[id] EXCEPT !.grants = roles[id].grants \cup {p}])
      BY <2>2 DEF AssignPermissions
    <3> QED
      BY <2>1, <2>2, <3>1, <1>3 DEF AssignPermissions
  <2>3. CASE RemovePermissions(id, {p})
    <3>1. SetRole(id, [roles[id] EXCEPT !.grants = roles[id].grants \ {p}])
      BY <2>3 DEF RemovePermissions
    <3> QED
      BY <2>1, <2>3, <3>1, <1>3 DEF RemovePermissions
  <2> QED
    BY <1>5, <2>2, <2>3
<1>6. ASSUME NEW p \in NewPermissions, CreatePermission(p) PROVE Keeps /\ Administer
  BY <1>0, <1>6 DEF CreatePermission, RolesOK, SuperNamed, Existing
<1>7. ASSUME NEW p \in permissions,
             RemovePermission(p) \/ \E q \in NewPermissions : UpdatePermission(p, q)
      PROVE  Keeps /\ Administer
  <2>1. PICK by \in SUBSET NewPermissions : Replace(p, by) /\ Administer
    BY <1>7 DEF RemovePermission, UpdatePermission
  <2> QED
    BY <1>0, <2>1, ReplaceKeeps
<1>8. ASSUME NEW id \in Existing, NEW u \in Users, SetPrimaryRole(u, id)
      PROVE  /\ RolesOK' /\ Existing' = Existing /\ primary' \in [Users -> Existing]
             /\ Administer
  BY <1>0, <1>8 DEF SetPrimaryRole, RolesOK, SuperNamed, Existing, TypeOK
<1>9. Keeps => primary' \in [Users -> Existing']
  BY <1>0 DEF TypeOK
<1>10. Administer => served' \in 0..MaxServed /\ UNCHANGED <<assigned, made, at, my>>
  BY <1>0, AccessAssumption DEF Administer, TypeOK
<1> HIDE DEF Keeps
<1>11. \/ Keeps /\ Administer
       \/ /\ RolesOK' /\ Existing' = Existing /\ primary' \in [Users -> Existing]
          /\ Administer
  BY <1>1, <1>2, <1>4, <1>5, <1>6, <1>7, <1>8 DEF AdministerStep
<1> QED
  BY <1>9, <1>10, <1>11 DEF Keeps

\* The seeder finds a role by its name or makes one of its own id, and changes nothing of
\* a role it finds but its grants.
LEMMA SeedKeeps ==
  ASSUME IInv, Seed
  PROVE  /\ RolesOK' /\ Existing \subseteq Existing'
         /\ \A id \in Existing : /\ roles'[id].name = roles[id].name
                                 /\ IsLiveRole(id)' = IsLiveRole(id)
         /\ UNCHANGED <<primary, assigned, made, served, at, my>>
<1>0. RolesOK
  BY DEF IInv, TypeOK, RolesOK
<1> DEFINE Data == PermissionsData \cup NewPermissions
           rows == permissions \cup RowsFor(permissions, PermissionsData)
           Target(id, name) == IF NameTaken(name) THEN id = RoleNamed(name) ELSE id = name
<1>1. PICK complete \in BOOLEAN, reached \in SUBSET SeededIds :
        /\ permissions' = rows
        /\ roles' = [id \in RoleIds |->
             IF \E name \in reached : Target(id, name)
             THEN SeededRow(CHOOSE name \in reached : Target(id, name), rows, complete)
             ELSE roles[id]]
  <2>1. \E complete \in BOOLEAN, reached \in SUBSET SeededIds : \E given \in {rows} :
          /\ permissions' = given
          /\ roles' = [id \in RoleIds |->
               IF \E name \in reached : Target(id, name)
               THEN SeededRow(CHOOSE name \in reached : Target(id, name), given, complete)
               ELSE roles[id]]
    BY Zenon DEF Seed
  <2> HIDE DEF rows, Target
  <2> QED
    BY <2>1
<1>2. rows \subseteq Data
  BY <1>0 DEF RowsFor, RolesOK
<1> HIDE DEF rows
<1>3. ASSUME NEW name, NameTaken(name)
      PROVE  RoleNamed(name) \in Existing /\ roles[RoleNamed(name)].name = name
  BY <1>3 DEF NameTaken, RoleNamed
<1>4. ASSUME NEW name \in SeededIds, NEW row \in Role, NEW taken
      PROVE  LET new == [row EXCEPT !.grants =
                           (row.grants \cup RowsFor(rows, GrantsData[name])) \ taken]
             IN  /\ new \in Role /\ new.name = row.name /\ new.isSystem = row.isSystem
                 /\ new.isActive = row.isActive /\ new.deleted = row.deleted
  <2> DEFINE grants == (row.grants \cup RowsFor(rows, GrantsData[name])) \ taken
  <2>1. grants \subseteq Data
    BY <1>2, SeededGrants DEF SeededIds, Role
  <2> HIDE DEF grants
  <2>2. LET new == [row EXCEPT !.grants = grants]
        IN  /\ new \in Role /\ new.name = row.name /\ new.isSystem = row.isSystem
            /\ new.isActive = row.isActive /\ new.deleted = row.deleted
    BY <2>1 DEF Role
  <2> QED
    BY <2>2 DEF grants
<1>5. ASSUME NEW name \in SeededIds, NameTaken(name)
      PROVE  LET row == SeededRow(name, rows, complete)
                 old == roles[RoleNamed(name)]
             IN  /\ row \in Role /\ row.name = old.name /\ row.isSystem = old.isSystem
                 /\ row.isActive = old.isActive /\ row.deleted = old.deleted
  <2> DEFINE old == roles[RoleNamed(name)]
  <2>1. old \in Role
    BY <1>0, <1>3, <1>5, RowFacts
  <2>2. \E taken : SeededRow(name, rows, complete) =
          [old EXCEPT !.grants =
             (old.grants \cup RowsFor(rows, GrantsData[name])) \ taken]
    BY <1>5 DEF SeededRow
  <2> HIDE DEF old
  <2> QED
    BY <1>4, <2>1, <2>2 DEF old
<1>6. ASSUME NEW name \in SeededIds, ~NameTaken(name)
      PROVE  /\ SeededRow(name, rows, complete) \in Role
             /\ SeededRow(name, rows, complete).name = name
  <2> DEFINE new == [name |-> name, isSystem |-> TRUE, isActive |-> TRUE,
                     priority |-> RolesData[name], deleted |-> FALSE, grants |-> {}]
  <2>1. new \in Role /\ new.name = name
    BY AccessAssumption DEF Role, SeededIds, FirstIds
  <2>2. \E taken : SeededRow(name, rows, complete) =
          [new EXCEPT !.grants =
             (new.grants \cup RowsFor(rows, GrantsData[name])) \ taken]
    BY <1>6 DEF SeededRow
  <2> HIDE DEF new
  <2> QED
    BY <1>4, <2>1, <2>2
<1>7. ASSUME NEW id \in RoleIds
      PROVE  /\ roles'[id] \in Role \cup {None}
             /\ roles[id] # None =>
                  /\ roles'[id] \in Role
                  /\ roles'[id].name = roles[id].name
                  /\ roles'[id].isSystem = roles[id].isSystem
                  /\ roles'[id].isActive = roles[id].isActive
                  /\ roles'[id].deleted = roles[id].deleted
             /\ roles[id] = None /\ roles'[id] # None => roles'[id].name = id
  <2>1. CASE \E name \in reached : Target(id, name)
    <3>1. PICK name \in reached : /\ Target(id, name)
                                  /\ roles'[id] = SeededRow(name, rows, complete)
      BY <1>1, <2>1
    <3>2. CASE NameTaken(name)
      <4>1. roles[id] # None /\ id = RoleNamed(name)
        BY <1>3, <3>1, <3>2 DEF Existing
      <4> QED
        BY <1>5, <3>1, <3>2, <4>1
    <3>3. CASE ~NameTaken(name)
      <4>1. roles[id] = None /\ id = name
        BY <3>1, <3>3 DEF Seed
      <4> QED
        BY <1>6, <3>1, <3>3, <4>1, NoneFacts
    <3> QED
      BY <3>2, <3>3
  <2>2. CASE ~ \E name \in reached : Target(id, name)
    <3>1. roles'[id] = roles[id]
      BY <1>1, <2>2
    <3> QED
      BY <1>0, <3>1 DEF RolesOK
  <2> QED
    BY <2>1, <2>2
<1>8. roles' \in [RoleIds -> Role \cup {None}]
  BY <1>1, <1>7
<1>9. Existing \subseteq Existing'
  BY <1>7, NoneFacts DEF Existing
<1>10. SuperNamed'
  BY <1>0, <1>7, <1>9 DEF RolesOK, SuperNamed, Existing
<1>11. \A id \in Existing : /\ roles'[id].name = roles[id].name
                            /\ IsLiveRole(id)' = IsLiveRole(id)
  BY <1>7, NoneFacts DEF Existing, IsLiveRole
<1> QED
  BY <1>1, <1>2, <1>8, <1>9, <1>10, <1>11 DEF RolesOK, Seed

\* A request moves on with its local variables, its rank and its role looked at.
LEMMA MoveOK ==
  ASSUME IInv, NEW r \in Requests, NEW place \in {"rank", "target", "find", "save"},
         Go(r, place), NEW l, IsLocals(l),
         DOMAIN my' = Requests, \A q \in Requests : my'[q] = IF q = r THEN l ELSE my[q],
         l.user \in Users, l.role \in Existing,
         place = "save" => l.row \in UserRole \cup {None} /\ (l.todo = "assign" <=> l.row = None),
         place # "rank" => /\ l.todo = "assign" => l.ranked
                           /\ l.super \/ l.role # "super-admin" \/ ~l.ranked,
         UNCHANGED roles
  PROVE  /\ at' \in [Requests -> {"idle", "rank", "target", "find", "save"}]
         /\ RequestsOK'
<1>1. /\ at \in [Requests -> {"idle", "rank", "target", "find", "save"}]
      /\ DOMAIN my = Requests
  BY DEF IInv, TypeOK, RequestsOK
<1>2. /\ at' = [at EXCEPT ![r] = place]
      /\ at' \in [Requests -> {"idle", "rank", "target", "find", "save"}]
  BY <1>1 DEF Go
<1>3. DOMAIN my' = Requests /\ my'[r] = l /\ \A q \in Requests \ {r} : my'[q] = my[q]
  OBVIOUS
<1>4. Existing' = Existing
  BY DEF Existing
<1>5. ASSUME NEW q \in Requests PROVE RequestOK(q)'
  <2>1. CASE q = r
    BY <1>1, <1>2, <1>3, <1>4, <2>1 DEF RequestOK, IsLocals
  <2>2. CASE q # r
    <3>1. RequestOK(q) /\ at'[q] = at[q] /\ my'[q] = my[q]
      BY <1>1, <1>2, <1>3, <2>2 DEF IInv, RequestsOK
    <3> QED
      BY <1>4, <3>1 DEF RequestOK, IsLocals
  <2> QED
    BY <2>1, <2>2
<1> QED
  BY <1>2, <1>3, <1>5 DEF RequestsOK

LEMMA LeaveOK ==
  ASSUME IInv, NEW r \in Requests, Leave(r), UNCHANGED roles
  PROVE  /\ at' \in [Requests -> {"idle", "rank", "target", "find", "save"}]
         /\ RequestsOK'
<1>1. /\ at \in [Requests -> {"idle", "rank", "target", "find", "save"}]
      /\ DOMAIN my = Requests
  BY DEF IInv, TypeOK, RequestsOK
<1>2. /\ at' \in [Requests -> {"idle", "rank", "target", "find", "save"}]
      /\ DOMAIN my' = Requests /\ at'[r] = "idle" /\ my'[r] = Blank
      /\ \A q \in Requests \ {r} : at'[q] = at[q] /\ my'[q] = my[q]
  BY <1>1 DEF Leave
<1>3. Existing' = Existing
  BY DEF Existing
<1>4. ASSUME NEW q \in Requests PROVE RequestOK(q)'
  <2>1. CASE q = r
    BY <1>2, <2>1 DEF RequestOK, IsLocals, Blank
  <2>2. CASE q # r
    BY <1>2, <1>3, <2>2 DEF IInv, RequestsOK, RequestOK, IsLocals
  <2> QED
    BY <2>1, <2>2
<1> QED
  BY <1>2, <1>4 DEF RequestsOK

\* A write to an assignment keeps the table's type.
LEMMA SetAssignmentOK ==
  ASSUME IInv, NEW r \in Requests, at[r] # "idle", NEW row \in UserRole \cup {None},
         SetAssignment(r, row)
  PROVE  /\ assigned' \in [Users \X RoleIds -> UserRole \cup {None}]
         /\ \A u \in Users, id \in RoleIds :
              id # my[r].role => assigned'[u, id] = assigned[u, id]
<1>1. my[r].user \in Users /\ my[r].role \in RoleIds
  BY DEF IInv, RequestsOK, RequestOK, Existing
<1>2. /\ assigned \in [Users \X RoleIds -> UserRole \cup {None}]
      /\ assigned' = [assigned EXCEPT ![<<my[r].user, my[r].role>>] = row]
  BY DEF IInv, TypeOK, SetAssignment
<1>3. assigned' \in [Users \X RoleIds -> UserRole \cup {None}]
  BY <1>1, <1>2
<1>4. ASSUME NEW u \in Users, NEW id \in RoleIds, id # my[r].role
      PROVE  assigned'[u, id] = assigned[u, id]
  <2>1. <<u, id>> # <<my[r].user, my[r].role>> /\ <<u, id>> \in Users \X RoleIds
    BY <1>4
  <2> QED
    BY <1>2, <2>1
<1> QED
  BY <1>3, <1>4

\* What a write changes is the request's own assignment.
LEMMA RowWritten ==
  ASSUME IInv, NEW r \in Requests, at[r] # "idle", NEW row, SetAssignment(r, row),
         NEW u \in Users, NEW id \in RoleIds, assigned'[u, id] # assigned[u, id]
  PROVE  assigned'[u, id] = row
<1>1. my[r].user \in Users /\ my[r].role \in RoleIds
  BY DEF IInv, RequestsOK, RequestOK, Existing
<1>2. assigned' = [assigned EXCEPT ![<<my[r].user, my[r].role>>] = row]
  BY DEF SetAssignment
<1>3. DOMAIN assigned = Users \X RoleIds
  BY DEF IInv, TypeOK
<1>4. <<u, id>> = <<my[r].user, my[r].role>>
  <2>1. <<u, id>> \in Users \X RoleIds
    OBVIOUS
  <2> QED
    BY <1>2, <1>3, <2>1
<1> QED
  BY <1>1, <1>2, <1>3, <1>4

\* An assignment that another request took away or switched off is none.
LEMMA OnlyActivated ==
  ASSUME IInv, NEW r \in Requests, RevokeRole(r) \/ SetActive(r),
         NEW u \in Users, NEW id \in RoleIds, assigned'[u, id] # assigned[u, id],
         assigned'[u, id] # None, assigned'[u, id].isActive
  PROVE  my[r].todo = "activate"
<1>1. /\ at[r] = "save" /\ RequestOK(r)
      /\ assigned \in [Users \X RoleIds -> UserRole \cup {None}]
  BY DEF RevokeRole, SetActive, IInv, TypeOK, RequestsOK
<1>2. CASE RevokeRole(r)
  <2>1. SetAssignment(r, None)
    BY <1>2 DEF RevokeRole
  <2> QED
    BY <1>1, <2>1, RowWritten
<1>3. CASE SetActive(r) /\ my[r].todo # "activate"
  <2>1. my[r].row \in UserRole
    BY <1>1, <1>3 DEF SetActive, RequestOK
  <2>2. Current(r) # None => Current(r) \in UserRole
    BY <1>1 DEF Current, RequestOK, Existing
  <2>3. PICK old \in UserRole : SetAssignment(r, [old EXCEPT !.isActive = FALSE])
    BY <1>3, <2>1, <2>2 DEF SetActive
  <2>4. assigned'[u, id] = [old EXCEPT !.isActive = FALSE]
    BY <1>1, <2>3, RowWritten
  <2> QED
    BY <2>4 DEF UserRole
<1> QED
  BY <1>2, <1>3

LEMMA LocalsFacts ==
  ASSUME NEW l, IsLocals(l), NEW row
  PROVE  LET m == [l EXCEPT !.row = row]
         IN  /\ IsLocals(m) /\ m.user = l.user /\ m.role = l.role /\ m.ranked = l.ranked
             /\ m.super = l.super /\ m.todo = l.todo /\ m.row = row
<1>1. PICK super, rank, todo, user, role, ranked, old :
        l = [super |-> super, rank |-> rank, todo |-> todo, user |-> user,
             role |-> role, ranked |-> ranked, row |-> old]
  BY DEF IsLocals
<1>2. [l EXCEPT !.row = row] =
        [super |-> super, rank |-> rank, todo |-> todo, user |-> user,
         role |-> role, ranked |-> ranked, row |-> row]
  BY <1>1
<1> QED
  BY <1>1, <1>2 DEF IsLocals

LEMMA RankedFacts ==
  ASSUME NEW l, IsLocals(l), NEW is
  PROVE  LET m == [l EXCEPT !.ranked = is]
         IN  /\ IsLocals(m) /\ m.user = l.user /\ m.role = l.role
             /\ m.super = l.super /\ m.todo = l.todo /\ m.ranked = is
<1>1. PICK super, rank, todo, user, role, ranked, row :
        l = [super |-> super, rank |-> rank, todo |-> todo, user |-> user,
             role |-> role, ranked |-> ranked, row |-> row]
  BY DEF IsLocals
<1>2. [l EXCEPT !.ranked = is] =
        [super |-> super, rank |-> rank, todo |-> todo, user |-> user,
         role |-> role, ranked |-> is, row |-> row]
  BY <1>1
<1> QED
  BY <1>1, <1>2 DEF IsLocals

LEMMA AuthenticateOK ==
  ASSUME IInv, NEW r \in Requests, NEW caller \in Users, Authenticate(r, caller)
  PROVE  /\ at' \in [Requests -> {"idle", "rank", "target", "find", "save"}]
         /\ RequestsOK' /\ served' \in 0..MaxServed
         /\ UNCHANGED <<permissions, roles, primary, assigned, made>>
<1>1. PICK kind \in Kinds, u \in Users, id \in Existing :
        my' = [my EXCEPT ![r] =
                 [super |-> IsSuperAdmin(caller), rank |-> HighestPriority(caller),
                  todo |-> kind, user |-> u, role |-> id, ranked |-> FALSE, row |-> None]]
  BY DEF Authenticate
<1> DEFINE l == [super |-> IsSuperAdmin(caller), rank |-> HighestPriority(caller),
                 todo |-> kind, user |-> u, role |-> id, ranked |-> FALSE, row |-> None]
<1>2. IsLocals(l) /\ l.user \in Users /\ l.role \in Existing
  BY DEF IsLocals
<1>3. my' = [my EXCEPT ![r] = l] /\ DOMAIN my = Requests
  BY <1>1 DEF IInv, RequestsOK
<1> HIDE DEF l
<1>4. DOMAIN my' = Requests /\ \A q \in Requests : my'[q] = IF q = r THEN l ELSE my[q]
  BY <1>3
<1>5. /\ at' \in [Requests -> {"idle", "rank", "target", "find", "save"}]
      /\ RequestsOK'
  BY <1>2, <1>4, MoveOK DEF Authenticate
<1>6. served' \in 0..MaxServed
  BY AccessAssumption DEF Authenticate, IInv, TypeOK
<1> QED
  BY <1>5, <1>6 DEF Authenticate

LEMMA GuardsOK ==
  ASSUME IInv, NEW r \in Requests, RankRole(r) \/ RankUser(r) \/ FindAssignment(r)
  PROVE  /\ at' \in [Requests -> {"idle", "rank", "target", "find", "save"}]
         /\ RequestsOK'
         /\ UNCHANGED <<permissions, roles, primary, assigned, made, served>>
<1>0. UNCHANGED <<permissions, roles, primary, assigned, made, served>>
  BY DEF RankRole, RankUser, FindAssignment
<1>1. RequestOK(r) /\ DOMAIN my = Requests
  BY DEF IInv, RequestsOK
<1>2. CASE Leave(r)
  BY <1>0, <1>2, LeaveOK
<1>3. CASE RankRole(r) /\ ~Leave(r)
  <2>1. PICK named \in RoleIds :
          /\ my[r].todo = "assign" => named = my[r].role
          /\ roles[named] = None \/ OutranksRole(my[r], roles[named])
          /\ Go(r, "target") /\ my' = [my EXCEPT ![r].ranked = (named = my[r].role)]
    BY <1>3 DEF RankRole
  <2> DEFINE l == [my[r] EXCEPT !.ranked = (named = my[r].role)]
  <2>2. my[r].role \in Existing /\ my[r].user \in Users /\ IsLocals(my[r])
    BY <1>1, <1>3 DEF RankRole, RequestOK
  <2>3. /\ IsLocals(l) /\ l.user = my[r].user /\ l.role = my[r].role
        /\ l.super = my[r].super /\ l.todo = my[r].todo /\ l.ranked = (named = my[r].role)
    BY <2>2, RankedFacts
  <2>4. named = my[r].role => my[r].super \/ my[r].role # "super-admin"
    BY <2>1, <2>2 DEF OutranksRole, IInv, SuperNamed, Existing
  <2>5. DOMAIN my' = Requests /\ \A q \in Requests : my'[q] = IF q = r THEN l ELSE my[q]
    BY <1>1, <2>1
  <2> HIDE DEF l
  <2> QED
    BY <1>0, <2>1, <2>2, <2>3, <2>4, <2>5, MoveOK
<1>4. CASE RankUser(r) /\ ~Leave(r)
  <2>1. Go(r, "find") /\ UNCHANGED my
    BY <1>4 DEF RankUser
  <2>2. /\ my[r].role \in Existing /\ my[r].user \in Users /\ IsLocals(my[r])
        /\ my[r].todo = "assign" => my[r].ranked
        /\ my[r].super \/ my[r].role # "super-admin" \/ ~my[r].ranked
    BY <1>1, <1>4 DEF RankUser, RequestOK
  <2> QED
    BY <1>0, <1>1, <2>1, <2>2, MoveOK
<1>5. CASE FindAssignment(r) /\ ~Leave(r)
  <2> DEFINE row == assigned[my[r].user, my[r].role]
             l == [my[r] EXCEPT !.row = row]
  <2>1. /\ Go(r, "save") /\ my' = [my EXCEPT ![r].row = row]
        /\ (my[r].todo = "assign" <=> row = None)
    BY <1>5 DEF FindAssignment
  <2>2. /\ my[r].role \in Existing /\ my[r].user \in Users /\ IsLocals(my[r])
        /\ my[r].todo = "assign" => my[r].ranked
        /\ my[r].super \/ my[r].role # "super-admin" \/ ~my[r].ranked
    BY <1>1, <1>5 DEF FindAssignment, RequestOK
  <2>3. row \in UserRole \cup {None}
    BY <2>2 DEF IInv, TypeOK, Existing
  <2>4. /\ IsLocals(l) /\ l.user = my[r].user /\ l.role = my[r].role
        /\ l.ranked = my[r].ranked /\ l.super = my[r].super /\ l.todo = my[r].todo /\ l.row = row
    BY <2>2, LocalsFacts
  <2>5. DOMAIN my' = Requests /\ \A q \in Requests : my'[q] = IF q = r THEN l ELSE my[q]
    BY <1>1, <2>1
  <2> HIDE DEF l, row
  <2> QED
    BY <1>0, <2>1, <2>2, <2>3, <2>4, <2>5, MoveOK
<1> QED
  BY <1>2, <1>3, <1>4, <1>5

\* What a request writes is an assignment of its user and its role.
LEMMA SavesOK ==
  ASSUME IInv, NEW r \in Requests, AssignRole(r) \/ RevokeRole(r) \/ SetActive(r)
  PROVE  /\ at' \in [Requests -> {"idle", "rank", "target", "find", "save"}]
         /\ at'[r] = "idle" /\ at[r] = "save"
         /\ RequestsOK'
         /\ assigned' \in [Users \X RoleIds -> UserRole \cup {None}]
         /\ \A u \in Users, id \in RoleIds :
              id # my[r].role => assigned'[u, id] = assigned[u, id]
         /\ made' \in 0..MaxAssignments
         /\ UNCHANGED <<permissions, roles, primary, served>>
<1>0. /\ Leave(r) /\ at[r] = "save" /\ RequestOK(r)
      /\ UNCHANGED <<permissions, roles, primary, served>>
  BY DEF AssignRole, RevokeRole, SetActive, IInv, RequestsOK
<1>1. /\ at' \in [Requests -> {"idle", "rank", "target", "find", "save"}]
      /\ RequestsOK' /\ at'[r] = "idle"
  <2>1. at'[r] = "idle"
    BY <1>0 DEF Leave, IInv, TypeOK
  <2> QED
    BY <1>0, <2>1, LeaveOK
<1> DEFINE Written == /\ assigned' \in [Users \X RoleIds -> UserRole \cup {None}]
                      /\ \A u \in Users, id \in RoleIds :
                           id # my[r].role => assigned'[u, id] = assigned[u, id]
<1>2. UNCHANGED assigned => Written
  BY DEF IInv, TypeOK
<1>3. ASSUME NEW row \in UserRole \cup {None}, SetAssignment(r, row) PROVE Written
  BY <1>0, <1>3, SetAssignmentOK
<1>4. /\ Current(r) \in UserRole \cup {None}
      /\ my[r].todo # "assign" => my[r].row \in UserRole
      /\ made \in 0..MaxAssignments
  <2>1. my[r].user \in Users /\ my[r].role \in RoleIds
    BY <1>0 DEF RequestOK, Existing
  <2> QED
    BY <1>0, <2>1 DEF RequestOK, Current, IInv, TypeOK
<1> HIDE DEF Written
<1>5. CASE AssignRole(r)
  <2>1. ASSUME UNCHANGED <<assigned, made>>
        PROVE  Written /\ made' \in 0..MaxAssignments
    BY <1>2, <1>4, <2>1
  <2>2. ASSUME made < MaxAssignments, made' = made + 1,
               \E isActive \in BOOLEAN, expiresAt \in {"never", "later"} :
                 SetAssignment(r, [id |-> made + 1, isActive |-> isActive,
                                   expiresAt |-> expiresAt])
        PROVE  Written /\ made' \in 0..MaxAssignments
    <3>1. made + 1 \in 1..MaxAssignments /\ made' \in 0..MaxAssignments
      BY <1>4, <2>2, AccessAssumption
    <3>2. PICK isActive \in BOOLEAN, expiresAt \in {"never", "later"} :
            SetAssignment(r, [id |-> made + 1, isActive |-> isActive,
                              expiresAt |-> expiresAt])
      BY <2>2
    <3>3. [id |-> made + 1, isActive |-> isActive, expiresAt |-> expiresAt] \in UserRole
      BY <3>1 DEF UserRole
    <3> QED
      BY <1>3, <3>1, <3>2, <3>3
  <2>3. Written /\ made' \in 0..MaxAssignments
    BY <1>5, <2>1, <2>2 DEF AssignRole
  <2> QED
    BY <1>0, <1>1, <2>3 DEF Written
<1>6. CASE RevokeRole(r)
  <2>1. Written /\ made' = made
    BY <1>2, <1>3, <1>6 DEF RevokeRole
  <2> QED
    BY <1>0, <1>1, <1>4, <2>1 DEF Written
<1>7. CASE SetActive(r)
  <2>1. \A row \in UserRole, b \in BOOLEAN : [row EXCEPT !.isActive = b] \in UserRole
    BY DEF UserRole
  <2>2. my[r].todo # "assign" /\ made' = made
    BY <1>7 DEF SetActive
  <2>3. Written
    BY <1>2, <1>3, <1>4, <1>7, <2>1, <2>2 DEF SetActive
  <2> QED
    BY <1>0, <1>1, <1>4, <2>2, <2>3 DEF Written
<1> QED
  BY <1>5, <1>6, <1>7

LEMMA ExpireOK ==
  ASSUME IInv, NEW u \in Users, NEW id \in RoleIds, Expire(u, id)
  PROVE  /\ assigned' \in [Users \X RoleIds -> UserRole \cup {None}]
         /\ \A v \in Users, i \in RoleIds :
              assigned'[v, i] = assigned[v, i] \/ assigned'[v, i].expiresAt = "past"
         /\ UNCHANGED <<permissions, roles, primary, made, served, at, my>>
<1> DEFINE row == [assigned[u, id] EXCEPT !.expiresAt = "past"]
<1>1. /\ assigned \in [Users \X RoleIds -> UserRole \cup {None}]
      /\ assigned[u, id] \in UserRole
  BY DEF IInv, TypeOK, Expire
<1>2. row \in UserRole /\ row.expiresAt = "past"
  BY <1>1 DEF UserRole
<1>3. assigned' = [assigned EXCEPT ![<<u, id>>] = row]
  BY DEF Expire
<1> HIDE DEF row
<1>4. assigned' \in [Users \X RoleIds -> UserRole \cup {None}]
  BY <1>1, <1>2, <1>3
<1>5. ASSUME NEW v \in Users, NEW i \in RoleIds
      PROVE  assigned'[v, i] = assigned[v, i] \/ assigned'[v, i].expiresAt = "past"
  <2>1. CASE <<v, i>> = <<u, id>>
    BY <1>1, <1>2, <1>3, <2>1
  <2>2. CASE <<v, i>> # <<u, id>>
    BY <1>1, <1>3, <2>2
  <2> QED
    BY <2>1, <2>2
<1> QED
  BY <1>4, <1>5 DEF Expire

\* The requests in flight look at roles that stay.
LEMMA RequestsStay ==
  ASSUME IInv, UNCHANGED <<at, my>>, Existing \subseteq Existing'
  PROVE  RequestsOK'
BY DEF IInv, RequestsOK, RequestOK, IsLocals

LEMMA StepOK == IInv /\ [Next]_vars => IInv'
<1> SUFFICES ASSUME IInv, [Next]_vars PROVE IInv'
  OBVIOUS
<1>0. TypeOK /\ SuperNamed /\ RequestsOK /\ RolesOK
  BY DEF IInv, TypeOK, RolesOK
<1>1. CASE AdministerStep
  BY <1>0, <1>1, AdministerKeeps, RequestsStay DEF IInv, TypeOK, RolesOK
<1>2. CASE Seed
  <2>1. primary' \in [Users -> Existing']
    BY <1>0, <1>2, SeedKeeps DEF TypeOK
  <2> QED
    BY <1>0, <1>2, <2>1, SeedKeeps, RequestsStay DEF IInv, TypeOK, RolesOK
<1>3. ASSUME UNCHANGED <<permissions, roles, primary>>
      PROVE  /\ RolesOK' /\ primary' \in [Users -> Existing'] /\ Existing' = Existing
             /\ permissions' \subseteq PermissionsData \cup NewPermissions
  BY <1>0, <1>3 DEF RolesOK, SuperNamed, Existing, TypeOK
<1>4. ASSUME NEW u \in Users, NEW id \in RoleIds, Expire(u, id) PROVE IInv'
  BY <1>0, <1>3, <1>4, ExpireOK, RequestsStay DEF IInv, TypeOK, RolesOK
<1>5. ASSUME NEW r \in Requests, AssignStep(r) PROVE IInv'
  <2>1. CASE \E u \in Users : Authenticate(r, u)
    BY <1>0, <1>3, <2>1, AuthenticateOK DEF IInv, TypeOK, RolesOK
  <2>2. CASE RankRole(r) \/ RankUser(r) \/ FindAssignment(r)
    BY <1>0, <1>3, <2>2, GuardsOK DEF IInv, TypeOK, RolesOK
  <2>3. CASE AssignRole(r) \/ RevokeRole(r) \/ SetActive(r)
    BY <1>0, <1>3, <2>3, SavesOK DEF IInv, TypeOK, RolesOK
  <2> QED
    BY <1>5, <2>1, <2>2, <2>3 DEF AssignStep
<1>6. CASE UNCHANGED vars
  BY <1>0, <1>3, <1>6, RequestsStay DEF IInv, TypeOK, RolesOK, vars
<1> QED
  BY <1>1, <1>2, <1>4, <1>5, <1>6 DEF Next

THEOREM Invariance == Spec => []IInv
BY InitOK, StepOK, PTL DEF Spec

\* Every variable keeps its type: the seeder's grants are permissions that it made, a
\* role once made stays, and whoever has a primary role has one that exists.
THEOREM TypeCorrect == Spec => []TypeOK
<1>1. IInv => TypeOK
  BY DEF IInv
<1> QED BY <1>1, Invariance, PTL

-----------------------------------------------------------------------------
\* A step of the seeder makes no one a super-admin: it takes no role by its id that
\* someone holds, and makes none that is named super-admin.
MakesSuperAdmin(r) ==
  my[r].super \/ (my[r].todo = "activate" /\ ~my[r].ranked)

LEMMA StepOfSuperAdmin ==
  ASSUME IInv, [Next]_vars, NEW u \in Users, IsSuperAdmin(u)', ~IsSuperAdmin(u)
  PROVE  \/ AdministerStep
         \/ \E r \in Requests : at'[r] # at[r] /\ MakesSuperAdmin(r)
<1>0. TypeOK /\ SuperNamed /\ RequestsOK /\ SuperNamed'
  BY StepOK DEF IInv
<1> DEFINE Holds == \/ primary[u] = "super-admin"
                    \/ /\ assigned[u, "super-admin"] # None
                       /\ assigned[u, "super-admin"].isActive
                       /\ assigned[u, "super-admin"].expiresAt # "past"
<1>1. IsSuperAdmin(u) <=> "super-admin" \in Existing /\ IsLiveRole("super-admin") /\ Holds
  BY <1>0 DEF IsSuperAdmin, SuperNamed, LiveRoles, IsLiveRole, Existing
<1>2. /\ "super-admin" \in Existing' /\ IsLiveRole("super-admin")' /\ Holds'
  BY <1>0 DEF IsSuperAdmin, SuperNamed, LiveRoles, IsLiveRole, Existing
<1>3. "super-admin" \in Existing
  BY <1>0, <1>2 DEF SuperNamed, Existing
<1>4. ~(IsLiveRole("super-admin") /\ Holds)
  BY <1>1, <1>3
<1>5. CASE Seed
  <2>1. IsLiveRole("super-admin")' = IsLiveRole("super-admin") /\ UNCHANGED <<primary, assigned>>
    BY <1>3, <1>5, SeedKeeps
  <2> QED
    BY <1>2, <1>4, <2>1
<1>6. ASSUME UNCHANGED <<roles, primary>>
      PROVE  assigned'[u, "super-admin"] # assigned[u, "super-admin"]
  BY <1>2, <1>4, <1>6 DEF IsLiveRole
<1>7. ASSUME NEW v \in Users, NEW id \in RoleIds, Expire(v, id) PROVE FALSE
  <2>1. /\ assigned'[u, "super-admin"].expiresAt = "past"
        /\ UNCHANGED <<roles, primary>>
    BY <1>3, <1>6, <1>7, ExpireOK DEF Existing
  <2> QED
    BY <1>2, <1>4, <2>1 DEF IsLiveRole
<1>8. ASSUME NEW r \in Requests, AssignStep(r) PROVE at'[r] # at[r] /\ MakesSuperAdmin(r)
  <2>1. CASE \E caller \in Users : Authenticate(r, caller)
    BY <1>6, <2>1, AuthenticateOK
  <2>2. CASE RankRole(r) \/ RankUser(r) \/ FindAssignment(r)
    BY <1>6, <2>2, GuardsOK
  <2>3. CASE AssignRole(r) \/ RevokeRole(r) \/ SetActive(r)
    <3>1. my[r].role = "super-admin"
      BY <1>3, <1>6, <2>3, SavesOK DEF Existing
    <3>2. /\ at[r] = "save" /\ at'[r] # at[r] /\ RequestOK(r) /\ UNCHANGED <<roles, primary>>
      BY <1>0, <2>3, SavesOK DEF RequestsOK
    <3>3. assigned'[u, "super-admin"] # None /\ assigned'[u, "super-admin"].isActive
      BY <1>2, <1>4, <3>2 DEF IsLiveRole
    <3>4. my[r].super \/ ~my[r].ranked
      BY <3>1, <3>2 DEF RequestOK
    <3>5. CASE AssignRole(r)
      BY <3>2, <3>4, <3>5 DEF AssignRole, RequestOK, MakesSuperAdmin
    <3>6. CASE RevokeRole(r) \/ SetActive(r)
      <4>1. my[r].todo = "activate"
        BY <1>3, <1>6, <3>2, <3>3, <3>6, OnlyActivated DEF Existing
      <4> QED
        BY <3>2, <3>4, <4>1 DEF MakesSuperAdmin
    <3> QED
      BY <2>3, <3>5, <3>6
  <2> QED
    BY <1>8, <2>1, <2>2, <2>3 DEF AssignStep
<1>9. ~UNCHANGED vars
  BY <1>2, <1>4 DEF vars, IsLiveRole
<1> QED
  BY <1>5, <1>7, <1>8, <1>9 DEF Next

\* Only a super-admin makes someone a super-admin, whatever a caller who may assign roles
\* does while roles are renamed, re-ranked, deleted and seeded again; but for activating
\* an assignment, where the guard ranks the role that a body names.
THEOREM SuperAdminsAreMade == Spec => OnlySuperAdminsMakeSuperAdmins
<1>1. IInv /\ [Next]_vars =>
        [\A u \in Users :
           (IsSuperAdmin(u)' /\ ~IsSuperAdmin(u)) =>
             \/ AdministerStep
             \/ \E r \in Requests :
                  /\ at'[r] # at[r]
                  /\ my[r].super \/ (my[r].todo = "activate" /\ ~my[r].ranked)]_vars
  BY StepOfSuperAdmin DEF MakesSuperAdmin
<1> QED
  BY <1>1, Invariance, PTL DEF Spec, OnlySuperAdminsMakeSuperAdmins

-----------------------------------------------------------------------------
(* Lists. *)

\* A grant on plain values stays one when the user's id is put in.
LEMMA InterpolateKeeps ==
  ASSUME NEW conditions, NEW id, NEW columns,
         conditions = Always \/ Exact(conditions, columns)
  PROVE  \/ Interpolate(conditions, id) = Always
         \/ Exact(Interpolate(conditions, id), columns)
BY DEF Interpolate, Exact, Always, Is

\* Where every rule grants and every condition is plain, the filter loses nothing.
LEMMA ScopeIsComplete ==
  ASSUME NEW rules, NEW columns, NEW record,
         \A i \in DOMAIN rules : /\ ~rules[i].inverted
                                 /\ \/ rules[i].conditions = Always
                                    \/ Exact(rules[i].conditions, columns),
         CanRecord(rules, record)
  PROVE  InScope(RecordScope(rules, columns), record)
<1>1. PICK i \in DOMAIN rules : Matches(rules[i].conditions, record)
  BY DEF CanRecord
<1>2. i \in Unrestricted(rules)
  BY DEF Unrestricted, Above
<1> QED
  BY <1>1, <1>2 DEF RecordScope, InScope

\* The rows of permissions of a user are finitely many.
LEMMA FiniteRows ==
  ASSUME TypeOK, NEW u \in Users, NEW S \in SUBSET PermissionsOf(u)
  PROVE  IsFiniteSet(S)
<1>1. PermissionsOf(u) \subseteq PermissionsData \cup NewPermissions
  BY DEF PermissionsOf, LiveRoles, IsLiveRole, TypeOK, Role
<1> QED
  BY <1>1, FinitePermissions, FS_Subset

LEMMA ListsOK == TypeOK => ListsShowWhatIsReadable
<1> SUFFICES ASSUME TypeOK, NEW u \in Users,
                    NEW about, about = {p \in PermissionsOf(u) : p.action \in {"read", "manage"}
                                                       /\ p.subject \in {"Story", "all"}},
                    NEW rows \in SetToSeqs(about), NEW story \in Stories
             PROVE  LET rules == RulesFor(Ability(u, rows), "read", "Story")
                        plain == \A p \in about :
                                   /\ ~p.inverted
                                   /\ p.conditions = Always \/ Exact(p.conditions, Columns)
                    IN  /\ ShowsOnlyReadable(rules, Columns, story)
                        /\ plain /\ CanRecord(rules, story)
                             => InScope(RecordScope(rules, Columns), story)
  BY DEF ListsShowWhatIsReadable
<1> DEFINE n == Cardinality(about)
           rules == RulesFor(Ability(u, rows), "read", "Story")
<1>1. n \in Nat
  BY FiniteRows, FS_CardinalityType
<1>2. rows \in [1..n -> about]
  BY DEF SetToSeqs
<1>3. CASE IsSuperAdmin(u)
  <2>1. Ability(u, rows) = Everything
    BY <1>3 DEF Ability
  <2>2. /\ DOMAIN rules \subseteq 1..1
        /\ \A i \in DOMAIN rules : ~rules[i].inverted /\ rules[i].conditions = Always
    BY <2>1 DEF RulesFor, Everything, Rule
  <2> HIDE DEF rules
  <2>3. ShowsOnlyReadable(rules, Columns, story)
    BY <2>2, ScopeIsSound
  <2>4. CanRecord(rules, story) => InScope(RecordScope(rules, Columns), story)
    BY <2>2, ScopeIsComplete
  <2> QED
    BY <2>3, <2>4 DEF rules
<1>4. CASE ~IsSuperAdmin(u)
  <2>1. Ability(u, rows) = CreateForUser(rows, u)
    BY <1>4 DEF Ability
  <2>2. /\ DOMAIN rules \subseteq 1..n
        /\ \A i \in DOMAIN rules :
             /\ rules[i].inverted = rows[i].inverted
             /\ rules[i].conditions = Interpolate(rows[i].conditions, u)
    <3> DEFINE ability == CreateForUser(rows, u)
    <3>1. /\ DOMAIN ability \subseteq DOMAIN rows
          /\ \A i \in DOMAIN ability :
               /\ ability[i].inverted = rows[i].inverted
               /\ ability[i].conditions = Interpolate(rows[i].conditions, u)
      BY DEF CreateForUser, Rule
    <3> HIDE DEF ability
    <3>2. /\ DOMAIN rules \subseteq DOMAIN ability
          /\ \A i \in DOMAIN rules : rules[i] = ability[i]
      BY <2>1 DEF RulesFor, ability
    <3> QED
      BY <1>2, <3>1, <3>2
  <2> HIDE DEF rules
  <2>3. ShowsOnlyReadable(rules, Columns, story)
    BY <1>1, <2>2, ScopeIsSound
  <2>4. ASSUME \A p \in about : /\ ~p.inverted
                                /\ p.conditions = Always \/ Exact(p.conditions, Columns),
               CanRecord(rules, story)
        PROVE  InScope(RecordScope(rules, Columns), story)
    <3>1. ASSUME NEW i \in DOMAIN rules
          PROVE  /\ ~rules[i].inverted
                 /\ rules[i].conditions = Always \/ Exact(rules[i].conditions, Columns)
      <4>1. rows[i] \in about
        BY <1>2, <2>2
      <4> QED
        BY <2>2, <2>4, <4>1, InterpolateKeeps
    <3> QED
      BY <2>4, <3>1, ScopeIsComplete
  <2> QED
    BY <2>3, <2>4 DEF rules
<1> QED
  BY <1>3, <1>4

\* In every reachable state, for every user and story and in whatever order the rows of
\* permissions come: a list shows no story its viewer may not read, and where nothing is
\* refused and every condition is plain, all those they may.
THEOREM ListsShowReadable == Spec => []ListsShowWhatIsReadable
BY TypeCorrect, ListsOK, PTL
=============================================================================
