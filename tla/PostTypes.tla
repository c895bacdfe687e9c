----------------------------- MODULE PostTypes -----------------------------
(***************************************************************************)
(* Post types and their custom fields (src/modules/post-types): the types  *)
(* and fields a deployment is seeded with, and the requests that change    *)
(* them.  Entries are in Content, which runs these requests beside its     *)
(* own.                                                                    *)
(*                                                                         *)
(* A request checks and writes in steps of their own where another one may *)
(* change the answer in between.  Labels, icons, help texts and the other  *)
(* fields that decide nothing are left out, and a cached read is an        *)
(* earlier read.                                                           *)
(***************************************************************************)
EXTENDS FieldValidators, Principals

CONSTANTS TypeIds, FieldIds,
          TypeNames, FieldNames,    \* names that pass validatePostTypeConfig, FieldNameValid
          Settings,                 \* rules and options of fields
          Requests,                 \* requests running at a time
          MaxServed                 \* bound: requests that change something

VARIABLES types, fields,    \* the rows
          served,           \* requests so far
          at, my            \* where each request is, and its local variables

Rows(table) == {id \in DOMAIN table : table[id] # None}
LiveRows(table) == {id \in Rows(table) : ~table[id].deleted}
HasRoom(table) == Rows(table) # DOMAIN table
FreeRow(table) == Min(DOMAIN table \ Rows(table))

\* A generated slug: its base and a number, 1 for none.  Three random ones follow the tenth.
Slug(Bases) == Bases \X (1..13)
FreeSlugs(base, taken) == {n \in 1..13 : <<base, n>> \notin taken}
UniqueSlug(base, taken) == <<base, Min(FreeSlugs(base, taken))>>

PostType == [name : TypeNames, slug : Slug(TypeNames), isActive : BOOLEAN,
             isSystem : BOOLEAN, deleted : BOOLEAN, version : Nat]

FieldDefinition == [postTypeId : TypeIds, name : FieldNames, fieldType : FieldTypes,
                    required : BOOLEAN, unique : BOOLEAN, displayOrder : Nat,
                    rules : Settings, options : Settings, deleted : BOOLEAN, version : Nat]

\* Bodies: what a body of an update leaves out is None, or not in it.
PostTypeBody == [name : TypeNames \cup {None}, isActive : BOOLEAN \cup {None}]

FieldBody == [postTypeId : {None}, name : FieldNames, fieldType : FieldTypes,
              required : BOOLEAN, unique : BOOLEAN, displayOrder : Nat, rules : Settings,
              options : Settings, deleted : {FALSE}, version : {1}]

\* What an update of a field may change: its name and type stay.
Changeable == [required |-> BOOLEAN, unique |-> BOOLEAN, displayOrder |-> Nat,
               rules |-> Settings, options |-> Settings]
IsFieldChange(changes) ==
  /\ DOMAIN changes \subseteq DOMAIN Changeable
  /\ \A column \in DOMAIN changes : changes[column] \in Changeable[column]

-----------------------------------------------------------------------------
(* The seeder. *)

Unset == <<>>

Field(name, fieldType, required, displayOrder, rules, options) ==
  [postTypeId |-> None, name |-> name, fieldType |-> fieldType, required |-> required,
   unique |-> FALSE, displayOrder |-> displayOrder, rules |-> rules, options |-> options,
   deleted |-> FALSE, version |-> 1]

StoryFields ==
  {Field("content", "wysiwyg", TRUE, 1, [minLength |-> 100, maxLength |-> 50000], Unset),
   Field("excerpt", "textarea", FALSE, 2, [maxLength |-> 500], Unset),
   Field("featured", "toggle", FALSE, 3, Unset, Unset)}

\* Numbers of number fields are in thousandths.
EventFields ==
  {Field("event_date", "date", TRUE, 1, [minDate |-> Today], Unset),
   Field("location", "text", TRUE, 2, [minLength |-> 3, maxLength |-> 200], Unset),
   Field("price", "currency", TRUE, 3, [min |-> 0, max |-> 10000000], [decimals |-> 2]),
   Field("max_attendees", "number", TRUE, 4, [min |-> 1000, max |-> 10000000],
         [step |-> 1]),
   Field("description", "wysiwyg", TRUE, 5, [minLength |-> 50, maxLength |-> 10000],
         Unset)}

NewPostType(name, slug, isSystem) ==
  [name |-> name, slug |-> slug, isActive |-> TRUE, isSystem |-> isSystem,
   deleted |-> FALSE, version |-> 1]

\* The type with this slug among the live ones, made when there is none.
IsSeeded(table, name) == \E id \in LiveRows(table) : table[id].slug = <<name, 1>>

SeededType(table, name, isSystem) ==
  IF IsSeeded(table, name) \/ ~HasRoom(table) THEN table
  ELSE [table EXCEPT ![FreeRow(table)] = NewPostType(name, <<name, 1>>, isSystem)]

\* The looked-at fields that the type does not have by name, each in a free row.
SeededFields(table, type, defs) ==
  LET has == {table[f].name : f \in {g \in LiveRows(table) : table[g].postTypeId = type}}
      missing == {d \in defs : d.name \in FieldNames \ has}
      free == DOMAIN table \ Rows(table)
      place[d \in missing] ==
        LET before == Cardinality({e \in missing : e.displayOrder < d.displayOrder})
        IN  CHOOSE f \in free : Cardinality({g \in free : g < f}) = before
  IN  [f \in DOMAIN table |->
         IF f \in free /\ \E d \in missing : place[d] = f
         THEN LET d == CHOOSE d \in missing : place[d] = f IN [d EXCEPT !.postTypeId = type]
         ELSE table[f]]

WithSlug(table, name) == CHOOSE id \in LiveRows(table) : table[id].slug = <<name, 1>>

SeedTypes(table) == SeededType(SeededType(table, "Story", TRUE), "Event", FALSE)

SeedFields(table, seeded) ==
  SeededFields(SeededFields(table, WithSlug(seeded, "Story"), StoryFields),
               WithSlug(seeded, "Event"), EventFields)

-----------------------------------------------------------------------------
(* Requests. *)

Blank == [op |-> None]
Go(r, place) == at' = [at EXCEPT ![r] = place]
MayStart(r) == at[r] = "idle" /\ served < MaxServed
Leave(r) == at' = [at EXCEPT ![r] = "idle"] /\ my' = [my EXCEPT ![r] = Blank]
Given(value, otherwise) == IF value = None THEN otherwise ELSE value

\* A row with the columns that the changes have.
Changed(row, changes) ==
  [c \in DOMAIN row |-> IF c \in DOMAIN changes THEN changes[c] ELSE row[c]]

NextVersion(row) == [row EXCEPT !.version = @ + 1]

\* A request that is over at once.
Serve == served < MaxServed /\ served' = served + 1 /\ UNCHANGED <<at, my>>

Start(r, request, place) ==
  /\ MayStart(r)
  /\ served' = served + 1
  /\ Go(r, place)
  /\ my' = [my EXCEPT ![r] = request]

-----------------------------------------------------------------------------
(* Post types: the database keeps names and slugs of live types apart. *)

NameExists(table, name, except) == \E id \in LiveRows(table) \ {except} : table[id].name = name
Slugs(table) == {table[id].slug : id \in LiveRows(table)}

CreatePostType(u, name) ==
  /\ Serve
  /\ May(u, "create", "PostType")
  /\ ~NameExists(types, name, None)
  /\ FreeSlugs(name, Slugs(types)) # {}
  /\ HasRoom(types)
  /\ types' = [types EXCEPT ![FreeRow(types)] =
                 NewPostType(name, UniqueSlug(name, Slugs(types)), FALSE)]

\* The slug stays.  Where the row has not the version that is named, or the one just read,
\* nothing changes.
UpdatePostType(u, id, body) ==
  /\ Serve
  /\ May(u, "update", "PostType")
  /\ id \in LiveRows(types) /\ ~types[id].isSystem
  /\ body.name # None => ~NameExists(types, body.name, id)
  /\ types' = [types EXCEPT ![id].name = Given(body.name, @),
                            ![id].isActive = Given(body.isActive, @),
                            ![id].version = @ + 1]

\* hasContent is a query of its own, before the deletion.
RemovePostType(r, u, id, hasContent) ==
  /\ MayStart(r)
  /\ May(u, "delete", "PostType")
  /\ id \in LiveRows(types) /\ ~types[id].isSystem
  /\ ~hasContent
  /\ Start(r, [op |-> "remove type", id |-> id], "drop")
  /\ UNCHANGED <<types, fields>>

SoftDelete(r) ==
  /\ at[r] = "drop"
  /\ types' = [types EXCEPT ![my[r].id].deleted = TRUE]
  /\ Leave(r)
  /\ UNCHANGED <<fields, served>>

-----------------------------------------------------------------------------
(* Fields. *)

FieldsOf(type) == {f \in LiveRows(fields) : fields[f].postTypeId = type}
FindByPostType(type) == {fields[f] : f \in FieldsOf(type)}
FieldNameExists(type, name) == \E d \in FindByPostType(type) : d.name = name

ReservedNames == {"id", "title", "slug", "excerpt", "status", "author", "created_at",
                  "updated_at", "deleted_at", "field_data", "metadata"}
FieldNameValid(name) == name \notin ReservedNames

NextDisplayOrder(type) ==
  IF FieldsOf(type) = {} THEN 0 ELSE Max({fields[f].displayOrder : f \in FieldsOf(type)}) + 1

\* duplicates: two live entries have the same value under the name.
CreateField(r, u, type, def, duplicates) ==
  /\ MayStart(r)
  /\ May(u, "create", "FieldDefinition")
  /\ type \in LiveRows(types)
  /\ FieldNameValid(def.name) /\ ~FieldNameExists(type, def.name)
  /\ ValidDefinition(def)
  /\ ~(def.unique /\ duplicates)
  /\ Start(r, [op |-> "create field", type |-> type, name |-> def.name,
               unique |-> def.unique,
               row |-> [def EXCEPT !.postTypeId = type,
                                   !.displayOrder = NextDisplayOrder(type)]],
           "field")
  /\ UNCHANGED <<types, fields>>

\* The row has to have the version that is named (None: the one just read) when it is
\* written: a later one is named in vain, unless the row is changed first.
UpdateField(r, u, id, changes, version, duplicates) ==
  LET def == fields[id] IN
  /\ MayStart(r)
  /\ May(u, "update", "FieldDefinition")
  /\ id \in LiveRows(fields)
  /\ ValidDefinition(Changed(def, changes))
  /\ ~(On(changes, "unique") /\ ~def.unique /\ duplicates)
  /\ Start(r, [op |-> "update field", id |-> id, type |-> def.postTypeId, name |-> def.name,
               unique |-> On(changes, "unique"), changes |-> changes,
               version |-> Given(version, def.version)],
           "field")
  /\ UNCHANGED <<types, fields>>

\* The index keeps the names of a type's live fields apart.
InsertField(r) ==
  /\ at[r] = "field" /\ my[r].op = "create field"
  /\ ~FieldNameExists(my[r].type, my[r].name)
  /\ HasRoom(fields)
  /\ fields' = [fields EXCEPT ![FreeRow(fields)] = my[r].row]
  /\ Leave(r)
  /\ UNCHANGED <<types, served>>

\* updateIfVersion: a removed field has its version still, and stays removed.
WriteField(r) ==
  /\ at[r] = "field" /\ my[r].op = "update field"
  /\ fields[my[r].id].version = my[r].version
  /\ fields' = [fields EXCEPT ![my[r].id] = Changed(NextVersion(@), my[r].changes)]
  /\ Leave(r)
  /\ UNCHANGED <<types, served>>

RemoveField(u, f) ==
  /\ Serve
  /\ May(u, "delete", "FieldDefinition")
  /\ f \in LiveRows(fields)
  /\ fields' = [fields EXCEPT ![f].deleted = TRUE]
  /\ UNCHANGED types

\* The versions do not move on.
ReorderFields(u, type, order) ==
  /\ Serve
  /\ May(u, "update", "FieldDefinition")
  /\ DOMAIN order \subseteq FieldsOf(type)
  /\ \A f, g \in DOMAIN order : order[f] = order[g] => f = g
  /\ fields' = [f \in FieldIds |-> IF f \in DOMAIN order
                                   THEN [fields[f] EXCEPT !.displayOrder = order[f]]
                                   ELSE fields[f]]
  /\ UNCHANGED types

\* Another run of the seeder: what has been removed comes back.
Seed ==
  /\ Serve
  /\ ~NameExists(types, "Event", None) \/ <<"Event", 1>> \in Slugs(types)
  /\ types' = SeedTypes(types)
  /\ IsSeeded(types', "Story") /\ IsSeeded(types', "Event")
  /\ fields' = SeedFields(fields, types')
=============================================================================
