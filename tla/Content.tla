------------------------------ MODULE Content ------------------------------
(***************************************************************************)
(* Entries of post types (src/modules/post-types): field data validated    *)
(* against the type's fields, values of unique fields, the publishing      *)
(* workflow, and deletion; beside the changes of types and fields that     *)
(* they depend on.                                                         *)
(*                                                                         *)
(* Field data is a function from the names of fields to values.  The title *)
(* stands for the plain columns; publishedAt goes with the status.  A      *)
(* request that is refused, fails or loses its process ends where it is.   *)
(***************************************************************************)
EXTENDS PostTypes

CONSTANTS EntryIds, Titles, MaxNow,
          Values,                   \* of fields
          Creations, Edits,         \* the bodies asked for
          TypeChanges, NewFields, FieldChanges,
          Versions,                 \* that updates of fields name
          Dates,                    \* the dates a schedule asks for
          FirstEntries,             \* the tables to start from
          FirstUnique               \* the fields that may have been made unique before

VARIABLES entries, now,
          unsure    \* the names under which an entry may repeat a value (history)

vars == <<types, fields, entries, now, served, at, my, unsure>>

ContentStatus == {"draft", "pending_review", "published", "scheduled", "archived", "deleted"}

Data == UNION {[names -> Values] : names \in SUBSET FieldNames}

EntryBody ==
  [title : Titles \cup {None}, data : Data \cup {None}, status : ContentStatus \cup {None},
   scheduledAt : 0..MaxNow \cup {None}, version : Nat \cup {None}]

PostContent ==
  [postTypeId : TypeIds, authorId : Users, title : Titles, slug : Slug(Titles), data : Data,
   status : ContentStatus, scheduledAt : 0..MaxNow \cup {None}, deleted : BOOLEAN,
   version : Nat]

\* The unique index: the live entries of a type keep apart by slug.
SlugsApart(table) ==
  \A e, f \in LiveRows(table) :
    table[e].postTypeId = table[f].postTypeId /\ table[e].slug = table[f].slug => e = f

\* The seeder finds room, and what it writes and the bodies that are sent have their types.
ASSUME ContentAssumption ==
  /\ TypeIds \cup FieldIds \cup EntryIds \subseteq Nat /\ IsFiniteSet(FieldIds \cup EntryIds)
  /\ \E s, t \in TypeIds : s # t
  /\ MaxNow \in Nat /\ MaxServed \in Nat /\ Dates \subseteq 0..MaxNow
  /\ {"Story", "Event"} \subseteq TypeNames
  /\ \A d \in StoryFields \cup EventFields : {d.rules, d.options} \subseteq Settings
  /\ \A v \in Values : v.type = "string" => Sanitize(v) \in Values
  /\ Creations \subseteq {body \in EntryBody : None \notin {body.title, body.data}}
  /\ Edits \subseteq EntryBody /\ TypeChanges \subseteq PostTypeBody
  /\ NewFields \subseteq FieldBody /\ \A changes \in FieldChanges : IsFieldChange(changes)
  /\ \A table \in FirstEntries :
       table \in [EntryIds -> PostContent \cup {None}] /\ SlugsApart(table)
  /\ None \notin TypeIds /\ None \notin EntryIds
  /\ None \notin PostType /\ None \notin FieldDefinition /\ None \notin PostContent

\* Who may publish an entry is decided by its author and type at most, as in all that is
\* seeded.
ASSUME PublishingAssumption ==
  \A u \in Users : LET rules == Rules[u]["publish"]["Content"]
                  IN  \A i \in DOMAIN rules :
                        DOMAIN rules[i].conditions \subseteq {"authorId", "postTypeId"}

EntriesOf(type) == {e \in LiveRows(entries) : entries[e].postTypeId = type}
EntrySlugs(type) == {entries[e].slug : e \in EntriesOf(type)}

IsEmpty(value) == value = NullValue \/ (value.type = "string" /\ value.length = 0)

\* The entries with this value, JSON compared with JSON.
Having(type, name, value) ==
  {e \in EntriesOf(type) : name \in DOMAIN entries[e].data /\ entries[e].data[name] = value}

\* Mutant: nobody looks.
NoDuplicateValues(type, name) == FALSE

HasDuplicateValues(type, name) ==
  \E e \in EntriesOf(type) :
    /\ name \in DOMAIN entries[e].data
    /\ ~IsEmpty(entries[e].data[name])
    /\ Cardinality(Having(type, name, entries[e].data[name])) > 1

-----------------------------------------------------------------------------
(* ContentAccessPolicy. *)

\* Mutant: an entry is public later without Publish.
PublishedOnly == {"published"}

PUBLISHING == {"published", "scheduled"}

\* What permissions may name.
Can(u, action, entry) ==
  MayOn(u, action, "Content", [c \in {"authorId", "status", "postTypeId"} |-> entry[c]])

IsVisible(u, entry) == (entry.status = "published" /\ ~entry.deleted) \/ Can(u, "update", entry)

CanChange(u, action, entry) == IsVisible(u, entry) /\ Can(u, action, entry)

CanSetStatus(u, status, entry) ==
  /\ status # "deleted"
  /\ status \in PUBLISHING => Can(u, "publish", entry)

PostTypeFor(u, type) ==
  type \in LiveRows(types) /\ (types[type].isActive \/ May(u, "update", "Content"))

\* The route's guard, and the entry as the request reads it.
Load(r, u, id, action) ==
  /\ MayStart(r)
  /\ May(u, action, "Content")
  /\ id \in LiveRows(entries)
  /\ PostTypeFor(u, entries[id].postTypeId)
  /\ CanChange(u, action, entries[id])

-----------------------------------------------------------------------------
(* Creating and updating entries. *)

\* entry is what the request saves, once it is known.
Writing(op, u, id, body, entry) ==
  [op |-> op, user |-> u, id |-> id, body |-> body, entry |-> entry, checked |-> {}]

Create(r, u, type, body) ==
  LET entry == [postTypeId |-> type, authorId |-> u, title |-> body.title,
                slug |-> None, data |-> Unset, status |-> Given(body.status, "draft"),
                scheduledAt |-> body.scheduledAt, deleted |-> FALSE, version |-> 1]
  IN  /\ MayStart(r)
      /\ May(u, "create", "Content")
      /\ PostTypeFor(u, type)
      /\ Can(u, "create", entry)
      /\ CanSetStatus(u, entry.status, entry)
      /\ Start(r, Writing("create", u, None, body, entry), "fields")

Update(r, u, id, body) ==
  LET entry == entries[id]
  IN  /\ Load(r, u, id, "update")
      /\ body.status \notin {None, entry.status} => CanSetStatus(u, body.status, entry)
      /\ Start(r, Writing("update", u, id, body,
                          [entry EXCEPT !.title = Given(body.title, @),
                                        !.status = Given(body.status, @),
                                        !.scheduledAt = Given(body.scheduledAt, @)]),
               IF body.data = None THEN "save" ELSE "fields")

\* Data not sent is kept, as far as it has a field.
Merged(defs, kept, sent) ==
  [n \in DOMAIN sent \cup (DOMAIN kept \cap {d.name : d \in defs}) |->
     IF n \in DOMAIN sent THEN sent[n] ELSE kept[n]]

\* The fields are read, the data validated with them, and the slug of a new entry chosen.
ReadFields(r) ==
  LET entry == my[r].entry
      defs == FindByPostType(entry.postTypeId)
      merged == Merged(defs, entry.data, my[r].body.data)
      data == Sanitized(defs, merged)
      taken == EntrySlugs(entry.postTypeId)
  IN  /\ at[r] = "fields"
      /\ ValidData(defs, merged, now)
      /\ my[r].op = "create" => FreeSlugs(entry.title, taken) # {}
      /\ my' = [my EXCEPT
                  ![r].entry = [@ EXCEPT !.slug = IF my[r].op = "create"
                                                  THEN UniqueSlug(entry.title, taken)
                                                  ELSE entry.slug,
                                         !.data = data],
                  ![r].checked = {d.name : d \in {e \in defs : /\ e.unique
                                                              /\ e.name \in DOMAIN data
                                                              /\ ~IsEmpty(data[e.name])}}]
      /\ Go(r, "check")

\* Mutant: no lock.
Unlocked(type) == TRUE

\* The post type's advisory lock, held from the check to the commit.
LockFree(type) ==
  ~ \E q \in Requests : /\ at[q] = "save" /\ my[q].entry.postTypeId = type
                        /\ my[q].checked # {}

Conflicts(r) ==
  LET entry == my[r].entry
  IN  {n \in my[r].checked : Having(entry.postTypeId, n, entry.data[n]) \ {my[r].id} # {}}

Check(r) ==
  /\ at[r] = "check"
  /\ my[r].checked # {} => LockFree(my[r].entry.postTypeId)
  /\ Conflicts(r) = {}
  /\ Go(r, "save")
  /\ UNCHANGED my

\* Mutant: the slug was free when it was chosen.
SlugWasFree(id, entry) == TRUE

\* The unique index.
SlugFree(id, entry) == \A e \in EntriesOf(entry.postTypeId) \ {id} : entries[e].slug # entry.slug

\* The names that are unique, are being made unique, or are held by a writer: who does not
\* check them now may repeat a value.
Unchecked(r) ==
  LET type == my[r].entry.postTypeId
  IN  {d.name : d \in {e \in FindByPostType(type) : e.unique}}
        \cup {my[q].name : q \in {p \in Requests : /\ at[p] = "field" /\ my[p].unique
                                                   /\ my[p].type = type}}
        \cup UNION {my[q].checked : q \in {p \in Requests \ {r} : at[p] = "save"}}

Insert(r) ==
  /\ at[r] = "save" /\ my[r].op = "create"
  /\ SlugFree(None, my[r].entry)
  /\ HasRoom(entries)
  /\ entries' = [entries EXCEPT ![FreeRow(entries)] = my[r].entry]
  /\ unsure' = [unsure EXCEPT ![FreeRow(entries)] = Unchecked(r) \ my[r].checked]
  /\ Leave(r)

Expected(r) == Given(my[r].body.version, my[r].entry.version)

\* An update names the version it likes.  If it is later than the one that was read, the
\* row has to be changed first for the update to be saved, over that change.
Ahead(r) == Expected(r) > my[r].entry.version

\* The row is saved as it was read, changed: also when it was deleted since.
Save(r) ==
  LET id == my[r].id
      was == IF entries[id].deleted THEN FieldNames ELSE unsure[id]
      new == IF my[r].body.data = None /\ ~Ahead(r) THEN {} ELSE Unchecked(r)
  IN  /\ at[r] = "save" /\ my[r].op = "update"
      /\ entries[id].version = Expected(r)
      /\ SlugFree(id, my[r].entry)
      /\ entries' = [entries EXCEPT ![id] = [my[r].entry EXCEPT !.version = Expected(r) + 1]]
      /\ unsure' = [unsure EXCEPT ![id] = (was \cup new) \ my[r].checked]
      /\ Leave(r)

-----------------------------------------------------------------------------
(* Publishing, scheduling, deleting. *)

Publish(r, u, id) ==
  /\ Load(r, u, id, "publish")
  /\ Start(r, Writing("publish", u, id, [status |-> "published"], entries[id]), "status")

Schedule(r, u, id, date) ==
  /\ Load(r, u, id, "publish")
  /\ CanSetStatus(u, "scheduled", entries[id])
  /\ date > now
  /\ Start(r, Writing("schedule", u, id, [status |-> "scheduled", scheduledAt |-> date],
                      entries[id]), "status")

\* updateIfVersion: the columns of the body, deleted or not.
StatusChange(r) ==
  LET id == my[r].id
  IN  /\ at[r] = "status"
      /\ entries[id].version = my[r].entry.version
      /\ entries' = [entries EXCEPT ![id] = Changed(NextVersion(@), my[r].body)]
      /\ Leave(r)
      /\ UNCHANGED unsure

Remove(r, u, id) ==
  /\ Load(r, u, id, "delete")
  /\ Start(r, Writing("remove", u, id, None, entries[id]), "remove")

MarkDeleted(r) ==
  LET id == my[r].id
  IN  /\ at[r] = "remove"
      /\ entries' = [entries EXCEPT ![id].status = "deleted", ![id].deleted = TRUE]
      /\ Leave(r)
      /\ UNCHANGED unsure

DueAt(time) ==
  {e \in LiveRows(entries) : /\ entries[e].status = "scheduled"
                             /\ entries[e].scheduledAt # None /\ entries[e].scheduledAt <= time}

\* Mutant: the version stays.
PublishedQuietly(entry) == [entry EXCEPT !.status = "published"]

Published(entry) == [entry EXCEPT !.status = "published", !.version = @ + 1]

\* The job of every minute; one statement.
PublishScheduledBefore ==
  /\ DueAt(now) # {}
  /\ entries' = [e \in EntryIds |-> IF e \in DueAt(now) THEN Published(entries[e])
                                                        ELSE entries[e]]
  /\ UNCHANGED <<types, fields, now, served, at, my, unsure>>

Tick ==
  /\ now < MaxNow
  /\ now' = now + 1
  /\ UNCHANGED <<types, fields, entries, served, at, my, unsure>>

-----------------------------------------------------------------------------
MadeUnique(table, names) ==
  [f \in DOMAIN table |->
     IF table[f] # None /\ table[f].name \in names THEN [table[f] EXCEPT !.unique = TRUE]
                                                   ELSE table[f]]

Init ==
  /\ types = SeedTypes([id \in TypeIds |-> None])
  /\ entries \in FirstEntries
  /\ \E names \in SUBSET FirstUnique :
       /\ \A n \in names, type \in TypeIds : ~HasDuplicateValues(type, n)
       /\ fields = MadeUnique(SeedFields([f \in FieldIds |-> None], types), names)
  /\ now = 0 /\ served = 0
  /\ at = [r \in Requests |-> "idle"] /\ my = [r \in Requests |-> Blank]
  /\ unsure = [e \in EntryIds |-> {}]

Begin(r, u) ==
  /\ \/ \E type \in TypeIds, body \in Creations : Create(r, u, type, body)
     \/ \E id \in EntryIds, body \in Edits : Update(r, u, id, body)
     \/ \E id \in EntryIds : Publish(r, u, id)
     \/ \E id \in EntryIds, date \in Dates : Schedule(r, u, id, date)
     \/ \E id \in EntryIds : Remove(r, u, id)
  /\ UNCHANGED <<types, fields, entries, unsure>>

Continue(r) ==
  \/ (ReadFields(r) \/ Check(r)) /\ UNCHANGED <<types, fields, entries, unsure, served>>
  \/ /\ Insert(r) \/ Save(r) \/ StatusChange(r) \/ MarkDeleted(r)
     /\ UNCHANGED <<types, fields, served>>

End(r) == at[r] # "idle" /\ Leave(r) /\ UNCHANGED <<types, fields, entries, unsure, served>>

ChangeTypes(u) ==
  /\ \/ \E name \in TypeNames : CreatePostType(u, name)
     \/ \E id \in TypeIds, body \in TypeChanges : UpdatePostType(u, id, body)
  /\ UNCHANGED fields

ChangeFields(r, u) ==
  \/ \E type \in TypeIds, def \in NewFields :
       CreateField(r, u, type, def, HasDuplicateValues(type, def.name))
  \/ \E f \in Rows(fields), changes \in FieldChanges :
       \E version \in Versions \cup {None} :
         UpdateField(r, u, f, changes, version,
                     HasDuplicateValues(fields[f].postTypeId, fields[f].name))
  \/ InsertField(r) \/ WriteField(r)

ArrangeFields(u) ==
  \/ \E f \in FieldIds : RemoveField(u, f)
  \/ \E type \in TypeIds : \E f, g \in FieldsOf(type) :
       f < g /\ ReorderFields(u, type, [h \in {f, g} |-> IF h = f THEN fields[g].displayOrder
                                                                 ELSE fields[f].displayOrder])

RemoveTypes(r, u) ==
  \/ \E id \in TypeIds : RemovePostType(r, u, id, EntriesOf(id) # {})
  \/ SoftDelete(r)

Next ==
  \/ \E r \in Requests :
       \/ /\ \/ \E u \in Users : Begin(r, u)
             \/ Continue(r) \/ End(r)
          /\ UNCHANGED now
       \/ \E u \in Users : (ChangeFields(r, u) \/ RemoveTypes(r, u))
                             /\ UNCHANGED <<entries, now, unsure>>
  \/ \E u \in Users : (ChangeTypes(u) \/ ArrangeFields(u)) /\ UNCHANGED <<entries, now, unsure>>
  \/ Seed /\ UNCHANGED <<entries, now, unsure>>
  \/ PublishScheduledBefore \/ Tick

Spec == Init /\ [][Next]_vars

-----------------------------------------------------------------------------
(* Properties. *)

\* The rows have their types; live types, the live fields of a type and its live entries
\* keep apart by name and slug.
TypeOK ==
  /\ types \in [TypeIds -> PostType \cup {None}]
  /\ \A s, t \in LiveRows(types) : types[s].slug = types[t].slug => s = t
  /\ fields \in [FieldIds -> FieldDefinition \cup {None}]
  /\ \A t \in TypeIds : \A f, g \in FieldsOf(t) : fields[f].name = fields[g].name => f = g
  /\ entries \in [EntryIds -> PostContent \cup {None}] /\ SlugsApart(entries)
  /\ now \in 0..MaxNow /\ served \in 0..MaxServed
  /\ unsure \in [EntryIds -> SUBSET FieldNames]

\* Two live entries of a type share a value of a unique field only if one of them was
\* written by a request that read the fields before it was unique, came back from a
\* deletion, or was put back by an update that named a version later than it read: the
\* lock, the check of saveUnlessDuplicate and that of hasDuplicateValues leave no other way.
UniqueValuesHold ==
  \A t \in TypeIds : \A d \in FindByPostType(t) : d.unique =>
    \A e, f \in EntriesOf(t) :
      /\ e # f
      /\ d.name \in DOMAIN entries[e].data \cap DOMAIN entries[f].data
      /\ ~IsEmpty(entries[e].data[d.name])
      /\ entries[e].data[d.name] = entries[f].data[d.name]
      => d.name \in unsure[e] \cup unsure[f]

\* The requests that finish in this step.
Finishing == {r \in Requests : at[r] # "idle" /\ at'[r] = "idle"}

\* The update is saved, and over changes that it did not read.
SavedAhead(r) == at[r] = "save" /\ my[r].op = "update" /\ Ahead(r)

\* A live entry becomes public, or becomes public later, by someone who may publish it, or
\* by the job once its date has come - whichever route set the status.  An update that
\* named a version later than it read may put back a status that was taken since.
PublishedByPublishers ==
  [][\A e \in Rows(entries') :
       LET is == entries'[e]
           was == IF entries[e] = None THEN "draft" ELSE entries[e].status
       IN  /\ e \notin Rows(entries) \ LiveRows(entries)
           /\ is.status \in {"published", "scheduled"} \ {was}
           => \/ \E r \in Finishing : Can(my[r].user, "publish", is) \/ SavedAhead(r)
              \/ /\ was = "scheduled" /\ is.status = "published"
                 /\ is.scheduledAt \in 0..now]_vars

\* An edit takes nothing back that was written since it read the entry: what its body
\* leaves out stays as it is in the row (but for a deletion, which leaves the version, and
\* unless it named a version later than it read).
EditsKeepTheRest ==
  [][\A r \in Finishing : at[r] = "save" /\ my[r].op = "update" /\ entries' # entries =>
       LET body == my[r].body
           was == entries[my[r].id]
           is == entries'[my[r].id]
       IN  \/ was.deleted \/ Ahead(r)
           \/ /\ body.status = None => is.status = was.status
              /\ body.title = None => is.title = was.title
              /\ body.scheduledAt = None => is.scheduledAt = was.scheduledAt
              /\ body.data = None => is.data = was.data]_vars

\* post-content.repository.ts:131 says of the version it compares that the update "was made
\* against" it: an update is saved over the version that it read only.
EditsAreOfTheVersionRead ==
  [][\A r \in Finishing : at[r] = "save" /\ my[r].op = "update" /\ entries' # entries =>
       entries[my[r].id].version = my[r].entry.version]_vars

\* content.service.ts:245 holds that an update of an entry that was deleted since it was
\* read answers 409; so a deleted entry, which no route restores, stays deleted.
RemovedStaysRemoved ==
  [][\A e \in Rows(entries) : entries[e].deleted => entries'[e].deleted]_vars
=============================================================================
