------------------------------ MODULE AclSeed ------------------------------
(***************************************************************************)
(* The permissions and roles a deployment starts with, and the seeder that *)
(* adds what is missing to a database and takes back what earlier releases *)
(* granted (src/modules/acl/seeders/acl.seeder.ts).                        *)
(***************************************************************************)
EXTENDS Abilities, TLC

CONSTANTS SeededActions, SeededSubjects     \* bound: the permissions looked at

\* A row of the permissions table.
Permission(action, subject, conditions) ==
  [action |-> action, subject |-> subject, conditions |-> conditions,
   inverted |-> FALSE, fieldLimited |-> FALSE]

\* Conditions on one column.
OnColumn(column, condition) == [c \in {column} |-> condition]

All(actions, subject) == {Permission(a, subject, Always) : a \in actions}
Own(actions, subject, column) ==
  {Permission(a, subject, OnColumn(column, Is(Me))) : a \in actions}

PublishedStories == {Permission("read", "Story", OnColumn("status", Is("PUBLISHED")))}
PublicAttachments == {Permission("read", "Attachment", OnColumn("isPublic", Is(TRUE)))}

CRUD == {"create", "read", "update", "delete"}

Looked(permissions) ==
  {p \in permissions : p.action \in SeededActions /\ p.subject \in SeededSubjects}

PermissionsData == Looked(
  All({"manage"}, "all")
    \cup All(CRUD, "User") \cup Own({"update"}, "User", "id")
    \cup All(CRUD \cup {"publish", "archive", "moderate"}, "Story")
    \cup PublishedStories \cup Own({"read", "update", "delete"}, "Story", "userId")
    \cup All(CRUD, "StoryVersion")
    \cup All(CRUD, "Attachment") \cup PublicAttachments
    \cup Own({"read", "update", "delete"}, "Attachment", "userId")
    \cup All(CRUD, "Category") \cup All(CRUD, "Tag")
    \cup All({"read", "delete"}, "Session")
    \cup Own({"read", "delete"}, "Session", "userId")
    \cup All(CRUD \cup {"assign"}, "Role") \cup All(CRUD, "Permission")
    \cup All(CRUD, "PostType") \cup All(CRUD, "FieldDefinition")
    \cup All(CRUD \cup {"publish"}, "Content")
    \cup All({"read", "update"}, "Country") \cup All({"read", "update"}, "Setting"))

RolesData == [name \in {"super-admin", "admin", "moderator", "user", "guest"} |->
  CASE name = "super-admin" -> 100
    [] name = "admin" -> 90
    [] name = "moderator" -> 70
    [] name = "user" -> 50
    [] name = "guest" -> 10]

AdminPermissions ==
  {p \in PermissionsData : /\ p.subject \notin {"Role", "Permission", "all"}
                           /\ "userId" \notin DOMAIN p.conditions}

ModeratorPermissions == Looked(
  All({"read"}, "User")
    \cup All({"read", "update", "delete", "moderate", "publish", "archive"}, "Story")
    \cup All({"read", "create", "update"}, "StoryVersion")
    \cup All({"read", "update", "delete"}, "Attachment")
    \cup (UNION {All({"read"}, s) : s \in {"Category", "Tag", "Country", "Setting",
                                           "PostType", "FieldDefinition"}})
    \cup All(CRUD \cup {"publish"}, "Content"))

\* "Read own profile" is looked up too, but there is no such permission.
UserPermissions == Looked(
  Own({"update"}, "User", "id")
    \cup All({"create"}, "Story") \cup PublishedStories
    \cup Own({"read", "update", "delete"}, "Story", "userId")
    \cup All({"create", "read", "update"}, "StoryVersion")
    \cup All({"create"}, "Attachment") \cup PublicAttachments
    \cup Own({"read", "update", "delete"}, "Attachment", "userId")
    \cup (UNION {All({"read"}, s) : s \in {"Category", "Tag", "Country"}})
    \cup Own({"read", "delete"}, "Session", "userId"))

GuestPermissions == Looked(
  PublishedStories \cup PublicAttachments
    \cup (UNION {All({"read"}, s) : s \in {"Category", "Tag", "Country"}}))

GrantsData == [name \in DOMAIN RolesData |->
  CASE name = "super-admin" -> Looked(All({"manage"}, "all"))
    [] name = "admin" -> AdminPermissions
    [] name = "moderator" -> ModeratorPermissions
    [] name = "user" -> UserPermissions
    [] name = "guest" -> GuestPermissions]

\* Grants of earlier releases.
Revoked == [name \in DOMAIN RolesData |->
  IF name \in {"user", "guest"}
  THEN All({"read"}, "Attachment") \cup All({"read"}, "Story")
  ELSE {}]

SameRule(p, q) ==
  /\ p.action = q.action
  /\ p.subject = q.subject
  /\ p.conditions = q.conditions

\* The rows that stand for a set of seeded permissions: those a database already has
\* are kept as they are.
RowsFor(permissions, data) ==
  {q \in permissions : \E p \in data : SameRule(p, q)}
    \cup {p \in data : ~ \E q \in permissions : SameRule(p, q)}
=============================================================================
