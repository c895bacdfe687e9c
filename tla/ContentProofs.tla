---------------------------- MODULE ContentProofs ----------------------------
(***************************************************************************)
(* Theorems about post types and their entries, for any users, types,      *)
(* fields, entries, bodies and requests: rows keep their types, the values *)
(* of unique fields hold, only publishers publish, and an edit takes       *)
(* nothing back.                                                           *)
(***************************************************************************)
EXTENDS Content, FiniteSetTheorems, TLAPS

-----------------------------------------------------------------------------
(* The inductive invariant. *)

Places == {"idle", "fields", "check", "save", "status", "remove", "drop", "field"}

\* An entry that is made, before its slug is known.
Draft ==
  [postTypeId : TypeIds, authorId : Users, title : Titles, slug : Slug(Titles) \cup {None},
   data : Data, status : ContentStatus, scheduledAt : 0..MaxNow \cup {None},
   deleted : BOOLEAN, version : Nat]

IsWriting(l) ==
  /\ l = [op |-> l.op, user |-> l.user, id |-> l.id, body |-> l.body, entry |-> l.entry,
          checked |-> l.checked]
  /\ l.user \in Users /\ l.entry \in Draft /\ l.checked \subseteq FieldNames

\* A creation may have the status it brings.
IsCreation(l) ==
  /\ l.op = "create" /\ l.id = None /\ l.body \in Creations
  /\ l.entry.status \in PUBLISHING => Can(l.user, "publish", l.entry)

IsEdit(l) ==
  /\ l.op = "update" /\ l.id \in EntryIds /\ l.body \in Edits /\ l.entry \in PostContent

\* A row that has the version still that an update read has all that its body leaves out,
\* and the status it had, or one the user may give it (but for a deletion).
AsRead(l, row) ==
  /\ l.body.data = None => row.data = l.entry.data
  /\ ~row.deleted =>
       /\ l.body.title = None => row.title = l.entry.title
       /\ l.body.scheduledAt = None => row.scheduledAt = l.entry.scheduledAt
       /\ l.body.status = None => row.status = l.entry.status
       /\ \/ row.status = l.entry.status
          \/ l.entry.status \in PUBLISHING => Can(l.user, "publish", l.entry)

\* The row is there, no older than it was read.
ReadFrom(l) ==
  /\ l.id \in Rows(entries)
  /\ entries[l.id].postTypeId = l.entry.postTypeId
  /\ entries[l.id].authorId = l.entry.authorId
  /\ l.entry.version <= entries[l.id].version

IsField(l) ==
  \/ /\ l.op = "create field" /\ l.row \in FieldDefinition
     /\ l.type = l.row.postTypeId /\ l.name = l.row.name
     /\ l.unique = l.row.unique /\ ~l.row.deleted
  \/ /\ l.op = "update field" /\ l.id \in Rows(fields)
     /\ l.type = fields[l.id].postTypeId /\ l.name = fields[l.id].name
     /\ IsFieldChange(l.changes) /\ l.unique = On(l.changes, "unique")

\* A request that writes an entry, before and after its data is known.
IsEditing(place, l) ==
  /\ IsWriting(l) /\ (IsCreation(l) \/ IsEdit(l))
  /\ l.op = "update" => /\ ReadFrom(l)
                        /\ entries[l.id].version = l.entry.version => AsRead(l, entries[l.id])
  /\ place # "fields" => l.entry \in PostContent
  /\ l.body.data = None => place = "save" /\ l.checked = {}

IsPublishing(l) ==
  /\ l.entry \in PostContent /\ ReadFrom(l)
  /\ l.user \in Users /\ Can(l.user, "publish", l.entry)
  /\ \/ l.body = [status |-> "published"]
     \/ \E date \in Dates : l.body = [status |-> "scheduled", scheduledAt |-> date]

\* What a request at a place may hold.
Holds(place, l) ==
  /\ place \in {"fields", "check", "save"} => IsEditing(place, l)
  /\ place = "status" => IsPublishing(l)
  /\ place = "remove" => l.id \in Rows(entries)
  /\ place = "drop" => l.id \in Rows(types)
  /\ place = "field" => IsField(l)

Requested ==
  /\ at \in [Requests -> Places] /\ my = [r \in Requests |-> my[r]]
  /\ \A r \in Requests : Holds(at[r], my[r])

\* A post type's lock is held by one request.
Holding(r) == at[r] = "save" /\ my[r].checked # {}

LocksHeld ==
  \A q, r \in Requests :
    Holding(q) /\ Holding(r) /\ my[q].entry.postTypeId = my[r].entry.postTypeId => q = r

\* What its holder is about to save repeats no value, but of an entry that may repeat it.
CheckHolds(r) ==
  at[r] = "save" =>
    \A n \in my[r].checked : \A e \in Having(my[r].entry.postTypeId, n, my[r].entry.data[n]) :
      e # my[r].id => n \in unsure[e]

\* The names that are unique, or are being made unique.
UniqueNames(type) == {d.name : d \in {e \in FindByPostType(type) : e.unique}}
BeingUnique(type) ==
  {my[q].name : q \in {p \in Requests : at[p] = "field" /\ my[p].unique /\ my[p].type = type}}
Watched(type) == UniqueNames(type) \cup BeingUnique(type)

\* Two entries with one value are two of which one may repeat it.
Apart(type, n) ==
  \A e, f \in EntriesOf(type) :
    /\ e # f /\ n \in DOMAIN entries[e].data \cap DOMAIN entries[f].data
    /\ ~IsEmpty(entries[e].data[n]) /\ entries[e].data[n] = entries[f].data[n]
    => n \in unsure[e] \cup unsure[f]

WatchedApart == \A t \in TypeIds : \A n \in Watched(t) : Apart(t, n)

ValuesInv == LocksHeld /\ (\A r \in Requests : CheckHolds(r)) /\ WatchedApart

IInv == TypeOK /\ Requested /\ ValuesInv

-----------------------------------------------------------------------------
(* Rows and slugs that are free. *)

\* A set of natural numbers that has a member has a least one.
LEMMA MinOfNaturals ==
  ASSUME NEW S, S \subseteq Nat, S # {}
  PROVE  Min(S) \in S
<1>1. \E x \in S : \A y \in S : ~(<<y, x>> \in OpToRel(<, Nat))
  BY WFMin, NatLessThanWellFounded
<1>2. \A x, y \in S : y < x => <<y, x>> \in OpToRel(<, Nat)
  BY DEF OpToRel
<1>3. \E x \in S : \A y \in S : ~(y < x)
  BY <1>1, <1>2
<1>4. \E x \in S : \A y \in S : x =< y
  BY <1>3
<1> QED
  BY <1>4 DEF Min

LEMMA FreeRowIsFree ==
  ASSUME NEW table, DOMAIN table \subseteq Nat, HasRoom(table)
  PROVE  FreeRow(table) \in DOMAIN table /\ table[FreeRow(table)] = None
<1>1. DOMAIN table \ Rows(table) # {} /\ DOMAIN table \ Rows(table) \subseteq Nat
  BY DEF HasRoom, Rows
<1>2. FreeRow(table) \in DOMAIN table \ Rows(table)
  BY <1>1, MinOfNaturals DEF FreeRow
<1> QED
  BY <1>2 DEF Rows

LEMMA UniqueSlugIsFree ==
  ASSUME NEW base, NEW taken, FreeSlugs(base, taken) # {}
  PROVE  /\ UniqueSlug(base, taken) \notin taken
         /\ \A Bases : base \in Bases => UniqueSlug(base, taken) \in Slug(Bases)
<1>1. FreeSlugs(base, taken) \subseteq Nat /\ FreeSlugs(base, taken) \subseteq 1..13
  BY DEF FreeSlugs
<1>2. Min(FreeSlugs(base, taken)) \in FreeSlugs(base, taken)
  BY <1>1, MinOfNaturals
<1> QED
  BY <1>1, <1>2 DEF FreeSlugs, UniqueSlug, Slug

-----------------------------------------------------------------------------
(* The tables one by one. *)

\* One row of a table is written.
Writes(table, id, row, new) == new = [table EXCEPT ![id] = row]

TypesTyped(table) ==
  /\ table \in [TypeIds -> PostType \cup {None}]
  /\ \A s, t \in LiveRows(table) : table[s].slug = table[t].slug => s = t

FieldsTyped(table) ==
  /\ table \in [FieldIds -> FieldDefinition \cup {None}]
  /\ \A f, g \in LiveRows(table) :
       table[f].postTypeId = table[g].postTypeId /\ table[f].name = table[g].name => f = g

EntriesTyped(table) == table \in [EntryIds -> PostContent \cup {None}] /\ SlugsApart(table)

LEMMA Typed ==
  TypeOK <=> /\ TypesTyped(types) /\ FieldsTyped(fields) /\ EntriesTyped(entries)
             /\ now \in 0..MaxNow /\ served \in 0..MaxServed
             /\ unsure \in [EntryIds -> SUBSET FieldNames]
<1>1. ASSUME fields \in [FieldIds -> FieldDefinition \cup {None}]
      PROVE  FieldsTyped(fields) <=>
               \A t \in TypeIds : \A f, g \in FieldsOf(t) : fields[f].name = fields[g].name => f = g
  <2>1. \A f \in LiveRows(fields) : fields[f].postTypeId \in TypeIds
    BY <1>1 DEF LiveRows, Rows, FieldDefinition
  <2> QED
    BY <1>1, <2>1 DEF FieldsTyped, FieldsOf
<1> QED
  BY <1>1 DEF TypeOK, TypesTyped, FieldsTyped, EntriesTyped

\* The same of the next state.
LEMMA TypedNext ==
  ASSUME TypesTyped(types'), FieldsTyped(fields'), EntriesTyped(entries'),
         now' \in 0..MaxNow, served' \in 0..MaxServed,
         unsure' \in [EntryIds -> SUBSET FieldNames]
  PROVE  TypeOK'
<1>1. \A t \in TypeIds : \A f, g \in FieldsOf(t)' : fields'[f].name = fields'[g].name => f = g
  BY DEF FieldsTyped, FieldsOf
<1> QED
  BY <1>1 DEF TypeOK, TypesTyped, FieldsTyped, EntriesTyped

LEMMA TypeRow ==
  ASSUME NEW table, TypesTyped(table), NEW id \in Rows(table)
  PROVE  id \in TypeIds /\ table[id] \in PostType
BY DEF TypesTyped, Rows

LEMMA FieldRow ==
  ASSUME NEW table, FieldsTyped(table), NEW id \in Rows(table)
  PROVE  id \in FieldIds /\ table[id] \in FieldDefinition
BY DEF FieldsTyped, Rows

LEMMA EntryRow ==
  ASSUME NEW table, EntriesTyped(table), NEW id \in Rows(table)
  PROVE  id \in EntryIds /\ table[id] \in PostContent
BY DEF EntriesTyped, Rows

\* A post type that is made, with a slug of no live type.
LEMMA TypeMade ==
  ASSUME NEW table, TypesTyped(table), HasRoom(table), NEW row \in PostType,
         row.slug \notin {table[id].slug : id \in LiveRows(table)},
         NEW new, Writes(table, FreeRow(table), row, new)
  PROVE  TypesTyped(new) /\ \A id \in Rows(table) : new[id] = table[id]
<1> DEFINE f == FreeRow(table)
<1>1. DOMAIN table = TypeIds /\ TypeIds \subseteq Nat
  BY ContentAssumption DEF TypesTyped
<1>2. f \in TypeIds /\ table[f] = None
  BY <1>1, FreeRowIsFree
<1>3. /\ new \in [TypeIds -> PostType \cup {None}] /\ new[f] = row
      /\ \A id \in TypeIds : id # f => new[id] = table[id]
  BY <1>2 DEF TypesTyped, Writes
<1> HIDE DEF f
<1>4. \A id \in LiveRows(new) : id = f \/ (id # f /\ id \in LiveRows(table) /\ new[id] = table[id])
  BY <1>1, <1>3 DEF LiveRows, Rows
<1>5. TypesTyped(new)
  BY <1>3, <1>4 DEF TypesTyped
<1>6. \A id \in Rows(table) : new[id] = table[id]
  BY <1>1, <1>2, <1>3 DEF Rows
<1> QED
  BY <1>5, <1>6

\* A field that is made, with a name that its type's live fields do not have.
LEMMA FieldMade ==
  ASSUME NEW table, FieldsTyped(table), HasRoom(table), NEW row \in FieldDefinition,
         \A f \in LiveRows(table) :
           table[f].postTypeId = row.postTypeId => table[f].name # row.name,
         NEW new, Writes(table, FreeRow(table), row, new)
  PROVE  /\ FieldsTyped(new)
         /\ \A id \in Rows(table) : new[id] = table[id]
         /\ \A id \in LiveRows(new) :
              \/ new[id] = row
              \/ id \in LiveRows(table) /\ new[id] = table[id]
<1> DEFINE place == FreeRow(table)
<1>1. DOMAIN table = FieldIds /\ FieldIds \subseteq Nat
  BY ContentAssumption DEF FieldsTyped
<1>2. place \in FieldIds /\ table[place] = None
  BY <1>1, FreeRowIsFree
<1>3. /\ new \in [FieldIds -> FieldDefinition \cup {None}] /\ new[place] = row
      /\ \A id \in FieldIds : id # place => new[id] = table[id]
  BY <1>2 DEF FieldsTyped, Writes
<1> HIDE DEF place
<1>4. \A id \in LiveRows(new) :
        \/ id = place /\ new[id] = row
        \/ id # place /\ id \in LiveRows(table) /\ new[id] = table[id]
  BY <1>1, <1>3 DEF LiveRows, Rows
<1>5. FieldsTyped(new)
  BY <1>3, <1>4 DEF FieldsTyped
<1>6. \A id \in Rows(table) : new[id] = table[id]
  BY <1>1, <1>2, <1>3 DEF Rows
<1> QED
  BY <1>4, <1>5, <1>6

\* A row of its kind that a field is changed to, of the same type and name.
LEMMA FieldWritten ==
  ASSUME NEW table, FieldsTyped(table), NEW f \in Rows(table), NEW row \in FieldDefinition,
         row.postTypeId = table[f].postTypeId, row.name = table[f].name,
         table[f].deleted => row.deleted, NEW new, Writes(table, f, row, new)
  PROVE  FieldsTyped(new)
<1>1. f \in FieldIds /\ table \in [FieldIds -> FieldDefinition \cup {None}]
  BY FieldRow DEF FieldsTyped
<1>2. /\ new \in [FieldIds -> FieldDefinition \cup {None}] /\ new[f] = row
      /\ \A id \in FieldIds : id # f => new[id] = table[id]
  BY <1>1 DEF Writes
<1>3. \A id \in LiveRows(new) : id \in LiveRows(table) /\ new[id].name = table[id].name
                               /\ new[id].postTypeId = table[id].postTypeId
  BY <1>1, <1>2 DEF LiveRows, Rows
<1> QED
  BY <1>2, <1>3 DEF FieldsTyped

LEMMA ChangedField ==
  ASSUME NEW d \in FieldDefinition, NEW changes, IsFieldChange(changes)
  PROVE  LET new == Changed(NextVersion(d), changes)
         IN  /\ new \in FieldDefinition
             /\ new.postTypeId = d.postTypeId /\ new.name = d.name /\ new.deleted = d.deleted
             /\ new.unique => d.unique \/ On(changes, "unique")
<1> DEFINE e == NextVersion(d)
           new == Changed(e, changes)
<1>1. e \in FieldDefinition /\ e.postTypeId = d.postTypeId /\ e.name = d.name
      /\ e.deleted = d.deleted /\ e.unique = d.unique
  BY DEF NextVersion, FieldDefinition
<1> HIDE DEF e
<1>2. DOMAIN e = {"postTypeId", "name", "fieldType", "required", "unique", "displayOrder",
                  "rules", "options", "deleted", "version"}
  BY <1>1 DEF FieldDefinition
<1>3. new = [c \in {"postTypeId", "name", "fieldType", "required", "unique", "displayOrder",
                    "rules", "options", "deleted", "version"} |->
               IF c \in DOMAIN changes THEN changes[c] ELSE e[c]]
  BY <1>2 DEF Changed
<1>4. /\ DOMAIN Changeable = {"required", "unique", "displayOrder", "rules", "options"}
      /\ Changeable["required"] = BOOLEAN /\ Changeable["unique"] = BOOLEAN
      /\ Changeable["displayOrder"] = Nat
      /\ Changeable["rules"] = Settings /\ Changeable["options"] = Settings
  BY DEF Changeable
<1>5. /\ new.postTypeId = e.postTypeId /\ new.name = e.name /\ new.fieldType = e.fieldType
      /\ new.deleted = e.deleted /\ new.version = e.version
  BY <1>3, <1>4 DEF IsFieldChange
<1>6. /\ new.required \in BOOLEAN /\ new.unique \in BOOLEAN /\ new.displayOrder \in Nat
      /\ new.rules \in Settings /\ new.options \in Settings
  BY <1>1, <1>3, <1>4 DEF IsFieldChange, FieldDefinition
<1>7. new.unique => e.unique \/ On(changes, "unique")
  BY <1>3 DEF On, Has
<1>8. new = [postTypeId |-> new.postTypeId, name |-> new.name, fieldType |-> new.fieldType,
             required |-> new.required, unique |-> new.unique,
             displayOrder |-> new.displayOrder, rules |-> new.rules,
             options |-> new.options, deleted |-> new.deleted, version |-> new.version]
  BY <1>3
<1> HIDE DEF new
<1>9. new \in FieldDefinition
  BY <1>1, <1>5, <1>6, <1>8 DEF FieldDefinition
<1> QED
  BY <1>1, <1>5, <1>7, <1>9 DEF e, new

-----------------------------------------------------------------------------
(* The seeder. *)

LEMMA SeededTypeKeeps ==
  ASSUME NEW table, TypesTyped(table), NEW name \in TypeNames, NEW isSystem \in BOOLEAN
  PROVE  /\ TypesTyped(SeededType(table, name, isSystem))
         /\ \A id \in Rows(table) : SeededType(table, name, isSystem)[id] = table[id]
<1> DEFINE row == NewPostType(name, <<name, 1>>, isSystem)
<1>1. row \in PostType /\ row.slug = <<name, 1>>
  BY DEF NewPostType, PostType, Slug
<1> HIDE DEF row
<1>2. CASE IsSeeded(table, name) \/ ~HasRoom(table)
  BY <1>2 DEF SeededType
<1>3. CASE ~IsSeeded(table, name) /\ HasRoom(table)
  <2>1. row.slug \notin {table[id].slug : id \in LiveRows(table)}
    BY <1>1, <1>3 DEF IsSeeded
  <2>2. Writes(table, FreeRow(table), row, SeededType(table, name, isSystem))
    BY <1>3 DEF SeededType, Writes, row
  <2> QED
    BY <1>1, <1>3, <2>1, <2>2, TypeMade
<1> QED
  BY <1>2, <1>3

LEMMA SeedTypesKeeps ==
  ASSUME NEW table, TypesTyped(table)
  PROVE  /\ TypesTyped(SeedTypes(table))
         /\ \A id \in Rows(table) : id \in Rows(SeedTypes(table))
<1> DEFINE one == SeededType(table, "Story", TRUE)
<1>1. "Story" \in TypeNames /\ "Event" \in TypeNames
  BY ContentAssumption
<1>2. TypesTyped(one) /\ \A id \in Rows(table) : one[id] = table[id]
  BY <1>1, SeededTypeKeeps
<1> HIDE DEF one
<1>3. /\ TypesTyped(SeededType(one, "Event", FALSE))
      /\ \A id \in Rows(one) : SeededType(one, "Event", FALSE)[id] = one[id]
  BY <1>1, <1>2, SeededTypeKeeps
<1>4. SeedTypes(table) = SeededType(one, "Event", FALSE)
  BY DEF SeedTypes, one
<1>5. \A id \in Rows(table) : id \in Rows(one)
  BY <1>2 DEF TypesTyped, Rows
<1>6. \A id \in Rows(one) : id \in Rows(SeedTypes(table))
  BY <1>2, <1>3, <1>4 DEF TypesTyped, Rows
<1> QED
  BY <1>3, <1>4, <1>5, <1>6

\* A type that is seeded has a live row with its slug.
LEMMA SeededHasSlug ==
  ASSUME NEW table, TypesTyped(table), NEW name \in TypeNames, IsSeeded(table, name)
  PROVE  WithSlug(table, name) \in LiveRows(table) /\ WithSlug(table, name) \in TypeIds
BY DEF IsSeeded, WithSlug, TypesTyped, LiveRows, Rows

\* The fields the seeder writes: bodies of which none is unique, and no two have one name.
SeederFields(defs) ==
  /\ \A d \in defs : ~d.unique /\ (d.name \in FieldNames => d \in FieldBody)
  /\ \A d, e \in defs : d.name = e.name => d = e

LEMMA SeededDefinitions == SeederFields(StoryFields) /\ SeederFields(EventFields)
<1>1. {"wysiwyg", "textarea", "toggle", "date", "text", "currency", "number"} \subseteq FieldTypes
  BY DEF FieldTypes
<1>2. SeederFields(StoryFields)
  <2> DEFINE long == [minLength |-> 100, maxLength |-> 50000]
             short == [maxLength |-> 500]
             content == Field("content", "wysiwyg", TRUE, 1, long, Unset)
             excerpt == Field("excerpt", "textarea", FALSE, 2, short, Unset)
             featured == Field("featured", "toggle", FALSE, 3, Unset, Unset)
  <2>1. StoryFields = {content, excerpt, featured}
    BY DEF StoryFields
  <2> HIDE DEF long, short
  <2>2. {long, short, Unset} \subseteq Settings
    <3>1. \A d \in {content, excerpt, featured} : {d.rules, d.options} \subseteq Settings
      BY <2>1, ContentAssumption
    <3>2. content.rules = long /\ excerpt.rules = short /\ featured.rules = Unset
      BY DEF Field
    <3> HIDE DEF content, excerpt, featured
    <3> QED
      BY <3>1, <3>2
  <2>3. /\ content.name = "content" /\ ~content.unique
        /\ content.name \in FieldNames => content \in FieldBody
    BY <1>1, <2>2 DEF Field, FieldBody
  <2>4. /\ excerpt.name = "excerpt" /\ ~excerpt.unique
        /\ excerpt.name \in FieldNames => excerpt \in FieldBody
    BY <1>1, <2>2 DEF Field, FieldBody
  <2>5. /\ featured.name = "featured" /\ ~featured.unique
        /\ featured.name \in FieldNames => featured \in FieldBody
    BY <1>1, <2>2 DEF Field, FieldBody
  <2> HIDE DEF content, excerpt, featured
  <2> QED
    BY <2>1, <2>3, <2>4, <2>5 DEF SeederFields
<1>3. SeederFields(EventFields)
  <2> DEFINE days == [minDate |-> Today]
             places == [minLength |-> 3, maxLength |-> 200]
             prices == [min |-> 0, max |-> 10000000]
             cents == [decimals |-> 2]
             counts == [min |-> 1000, max |-> 10000000]
             steps == [step |-> 1]
             texts == [minLength |-> 50, maxLength |-> 10000]
             date == Field("event_date", "date", TRUE, 1, days, Unset)
             location == Field("location", "text", TRUE, 2, places, Unset)
             price == Field("price", "currency", TRUE, 3, prices, cents)
             attendees == Field("max_attendees", "number", TRUE, 4, counts, steps)
             description == Field("description", "wysiwyg", TRUE, 5, texts, Unset)
  <2>1. EventFields = {date, location, price, attendees, description}
    BY DEF EventFields
  <2> HIDE DEF days, places, prices, cents, counts, steps, texts
  <2>2. {days, places, prices, cents, counts, steps, texts, Unset} \subseteq Settings
    <3>1. \A d \in {date, location, price, attendees, description} :
            {d.rules, d.options} \subseteq Settings
      BY <2>1, ContentAssumption
    <3>2. /\ date.rules = days /\ location.rules = places /\ price.rules = prices
          /\ attendees.rules = counts /\ description.rules = texts
          /\ price.options = cents /\ attendees.options = steps /\ date.options = Unset
      BY DEF Field
    <3> HIDE DEF date, location, price, attendees, description
    <3> QED
      BY <3>1, <3>2
  <2>3. /\ date.name = "event_date" /\ ~date.unique
        /\ date.name \in FieldNames => date \in FieldBody
    BY <1>1, <2>2 DEF Field, FieldBody
  <2>4. /\ location.name = "location" /\ ~location.unique
        /\ location.name \in FieldNames => location \in FieldBody
    BY <1>1, <2>2 DEF Field, FieldBody
  <2>5. /\ price.name = "price" /\ ~price.unique
        /\ price.name \in FieldNames => price \in FieldBody
    BY <1>1, <2>2 DEF Field, FieldBody
  <2>6. /\ attendees.name = "max_attendees" /\ ~attendees.unique
        /\ attendees.name \in FieldNames => attendees \in FieldBody
    BY <1>1, <2>2 DEF Field, FieldBody
  <2>7. /\ description.name = "description" /\ ~description.unique
        /\ description.name \in FieldNames => description \in FieldBody
    BY <1>1, <2>2 DEF Field, FieldBody
  <2> HIDE DEF date, location, price, attendees, description
  <2> QED
    BY <2>1, <2>3, <2>4, <2>5, <2>6, <2>7 DEF SeederFields
<1> QED
  BY <1>2, <1>3

\* A field that gets its type.
LEMMA BodyColumns ==
  ASSUME NEW d \in FieldBody, NEW type
  PROVE  [d EXCEPT !.postTypeId = type] =
           [postTypeId |-> type, name |-> d.name, fieldType |-> d.fieldType,
            required |-> d.required, unique |-> d.unique, displayOrder |-> d.displayOrder,
            rules |-> d.rules, options |-> d.options, deleted |-> d.deleted,
            version |-> d.version]
BY DEF FieldBody

LEMMA FieldOfType ==
  ASSUME NEW d \in FieldBody, NEW type \in TypeIds
  PROVE  LET row == [d EXCEPT !.postTypeId = type]
         IN  /\ row \in FieldDefinition
             /\ row.postTypeId = type /\ row.name = d.name /\ row.unique = d.unique
<1> DEFINE row == [d EXCEPT !.postTypeId = type]
<1>1. row = [postTypeId |-> type, name |-> d.name, fieldType |-> d.fieldType,
             required |-> d.required, unique |-> d.unique, displayOrder |-> d.displayOrder,
             rules |-> d.rules, options |-> d.options, deleted |-> d.deleted,
             version |-> d.version]
  BY BodyColumns
<1>2. /\ d.name \in FieldNames /\ d.fieldType \in FieldTypes /\ d.required \in BOOLEAN
      /\ d.unique \in BOOLEAN /\ d.displayOrder \in Nat /\ d.rules \in Settings
      /\ d.options \in Settings /\ d.deleted \in BOOLEAN /\ d.version \in Nat
  <2>1. d.deleted = FALSE /\ d.version = 1
    BY Zenon DEF FieldBody
  <2>2. /\ d.name \in FieldNames /\ d.fieldType \in FieldTypes /\ d.required \in BOOLEAN
        /\ d.unique \in BOOLEAN /\ d.displayOrder \in Nat /\ d.rules \in Settings
        /\ d.options \in Settings
    BY Zenon DEF FieldBody
  <2>3. d.deleted \in BOOLEAN
    BY <2>1, Zenon
  <2>4. d.version \in Nat
    BY <2>1
  <2> QED
    BY <2>2, <2>3, <2>4, Zenon
<1> HIDE DEF row
<1>3. row \in FieldDefinition
  BY <1>1, <1>2 DEF FieldDefinition
<1> QED
  BY <1>1, <1>3 DEF row

\* Each row that is there stays; each that comes is one of the definitions that the type
\* does not have, and no two are of one.
Missing(table, type, defs) ==
  {d \in defs :
     d.name \in FieldNames \ {table[f].name : f \in {g \in LiveRows(table) :
                                                   table[g].postTypeId = type}}}

SeededFrom(table, new, type, missing, of) ==
  \A f \in DOMAIN table \ Rows(table) :
    \/ new[f] = table[f]
    \/ /\ of[f] \in missing /\ new[f] = [of[f] EXCEPT !.postTypeId = type]
       /\ \A g \in DOMAIN table \ Rows(table) : new[g] # table[g] /\ of[g] = of[f] => g = f

LEMMA SeededRows ==
  ASSUME NEW table, NEW type, NEW defs
  PROVE  LET new == SeededFields(table, type, defs)
         IN  /\ new = [f \in DOMAIN table |-> new[f]]
             /\ \A f \in Rows(table) : new[f] = table[f]
             /\ \E of : SeededFrom(table, new, type, Missing(table, type, defs), of)
<1> DEFINE has == {table[f].name : f \in {g \in LiveRows(table) : table[g].postTypeId = type}}
           missing == {d \in defs : d.name \in FieldNames \ has}
           free == DOMAIN table \ Rows(table)
           place == [d \in missing |->
                      LET before == Cardinality({e \in missing : e.displayOrder < d.displayOrder})
                      IN  CHOOSE f \in free : Cardinality({g \in free : g < f}) = before]
           Row(f) == IF f \in free /\ \E d \in missing : place[d] = f
                     THEN LET d == CHOOSE d \in missing : place[d] = f
                          IN  [d EXCEPT !.postTypeId = type]
                     ELSE table[f]
           new == SeededFields(table, type, defs)
           of == [f \in free |-> CHOOSE d \in missing : place[d] = f]
<1>1. new = [f \in DOMAIN table |-> Row(f)]
  BY DEF SeededFields
<1> HIDE DEF place, new, missing
<1>2. \A f \in DOMAIN table : new[f] = Row(f)
  BY <1>1
<1>3. ASSUME NEW f \in free, new[f] # table[f]
      PROVE  of[f] \in missing /\ place[of[f]] = f /\ new[f] = [of[f] EXCEPT !.postTypeId = type]
  BY <1>2, <1>3
<1>4. \A f \in Rows(table) : new[f] = table[f]
  BY <1>2 DEF Rows
<1>5. SeededFrom(table, new, type, missing, of)
  <2> HIDE DEF of
  <2> QED
    BY <1>3 DEF SeededFrom
<1>6. new = [f \in DOMAIN table |-> new[f]]
  BY <1>1
<1>7. missing = Missing(table, type, defs)
  BY DEF Missing, missing
<1> HIDE DEF of
<1> QED
  BY <1>4, <1>5, <1>6, <1>7 DEF new

LEMMA SeededFieldsKeeps ==
  ASSUME NEW table, FieldsTyped(table), NEW type \in TypeIds, NEW defs, SeederFields(defs)
  PROVE  LET new == SeededFields(table, type, defs)
         IN  /\ FieldsTyped(new)
             /\ \A f \in Rows(table) : new[f] = table[f]
             /\ \A f \in LiveRows(new) : \/ f \in LiveRows(table) /\ new[f] = table[f]
                                         \/ ~new[f].unique
<1> DEFINE new == SeededFields(table, type, defs)
           has == {table[f].name : f \in {g \in LiveRows(table) : table[g].postTypeId = type}}
           missing == Missing(table, type, defs)
           free == DOMAIN table \ Rows(table)
<1>1. /\ new = [f \in DOMAIN table |-> new[f]]
      /\ \A f \in Rows(table) : new[f] = table[f]
  BY SeededRows
<1>0. PICK of : SeededFrom(table, new, type, missing, of)
  BY SeededRows
<1>2. \A f \in free : \/ new[f] = table[f]
                      \/ /\ of[f] \in missing /\ new[f] = [of[f] EXCEPT !.postTypeId = type]
                         /\ \A g \in free : new[g] # table[g] /\ of[g] = of[f] => g = f
  BY <1>0 DEF SeededFrom
<1>3. \A d \in missing : /\ d \in FieldBody /\ d \in defs /\ d.name \notin has /\ ~d.unique
  BY DEF SeederFields, Missing
<1>4. ASSUME NEW f \in free, new[f] # table[f]
      PROVE  /\ new[f] \in FieldDefinition /\ ~new[f].unique /\ new[f].postTypeId = type
             /\ new[f].name = of[f].name /\ new[f].name \notin has
  <2>1. of[f] \in missing /\ new[f] = [of[f] EXCEPT !.postTypeId = type]
    BY <1>2, <1>4
  <2> HIDE DEF new, missing, has
  <2> QED
    BY <1>3, <2>1, FieldOfType
<1>5. ASSUME NEW f \in free, NEW g \in free, new[f] # table[f], new[g] # table[g],
             new[f].name = new[g].name
      PROVE  f = g
  <2>1. of[f] \in defs /\ of[g] \in defs /\ of[f].name = of[g].name
    BY <1>2, <1>3, <1>4, <1>5
  <2>2. of[f] = of[g]
    BY <2>1 DEF SeederFields
  <2> QED
    BY <1>2, <1>5, <2>2
<1>6. table \in [FieldIds -> FieldDefinition \cup {None}] /\ DOMAIN table = FieldIds
  BY DEF FieldsTyped
<1>7. \A f \in LiveRows(table) : table[f].postTypeId = type => table[f].name \in has
  OBVIOUS
<1> HIDE DEF new, has, missing
<1>8. \A f \in FieldIds : \/ new[f] = table[f]
                          \/ f \in free /\ new[f] # table[f] /\ new[f] \in FieldDefinition
  BY <1>1, <1>4, <1>6
<1>9. new \in [FieldIds -> FieldDefinition \cup {None}] /\ DOMAIN new = FieldIds
  BY <1>1, <1>6, <1>8
<1>10. \A f \in LiveRows(new) : \/ f \in LiveRows(table) /\ new[f] = table[f]
                                \/ f \in free /\ new[f] # table[f]
  BY <1>6, <1>8, <1>9 DEF LiveRows, Rows
<1>11. ASSUME NEW f \in LiveRows(new), NEW g \in LiveRows(new),
              new[f].postTypeId = new[g].postTypeId, new[f].name = new[g].name
       PROVE  f = g
  <2>1. CASE f \in LiveRows(table) /\ new[f] = table[f]
    BY <1>4, <1>7, <1>10, <1>11, <2>1 DEF FieldsTyped
  <2>2. CASE g \in LiveRows(table) /\ new[g] = table[g]
    BY <1>4, <1>7, <1>10, <1>11, <2>2 DEF FieldsTyped
  <2>3. CASE f \in free /\ g \in free /\ new[f] # table[f] /\ new[g] # table[g]
    BY <1>5, <1>11, <2>3
  <2> QED
    BY <1>10, <2>1, <2>2, <2>3
<1>12. FieldsTyped(new)
  BY <1>9, <1>11 DEF FieldsTyped
<1>13. \A f \in LiveRows(new) : (f \in LiveRows(table) /\ new[f] = table[f]) \/ ~new[f].unique
  BY <1>4, <1>10
<1> QED
  BY <1>1, <1>12, <1>13 DEF new

LEMMA SeedFieldsKeeps ==
  ASSUME NEW table, FieldsTyped(table), NEW seeded, TypesTyped(seeded),
         IsSeeded(seeded, "Story"), IsSeeded(seeded, "Event")
  PROVE  LET new == SeedFields(table, seeded)
         IN  /\ FieldsTyped(new)
             /\ \A f \in Rows(table) : new[f] = table[f]
             /\ \A f \in LiveRows(new) : \/ f \in LiveRows(table) /\ new[f] = table[f]
                                         \/ ~new[f].unique
<1> DEFINE story == WithSlug(seeded, "Story")
           event == WithSlug(seeded, "Event")
           one == SeededFields(table, story, StoryFields)
           new == SeededFields(one, event, EventFields)
<1>1. story \in TypeIds /\ event \in TypeIds
  BY SeededHasSlug, ContentAssumption
<1> HIDE DEF story, event
<1>2. /\ FieldsTyped(one)
      /\ \A f \in Rows(table) : one[f] = table[f]
      /\ \A f \in LiveRows(one) : (f \in LiveRows(table) /\ one[f] = table[f]) \/ ~one[f].unique
  BY <1>1, SeededFieldsKeeps, SeededDefinitions
<1> HIDE DEF one
<1>3. /\ FieldsTyped(new)
      /\ \A f \in Rows(one) : new[f] = one[f]
      /\ \A f \in LiveRows(new) : (f \in LiveRows(one) /\ new[f] = one[f]) \/ ~new[f].unique
  BY <1>1, <1>2, SeededFieldsKeeps, SeededDefinitions
<1>4. SeedFields(table, seeded) = new
  BY DEF SeedFields, story, event, one
<1> HIDE DEF new
<1>5. \A f \in Rows(table) : f \in Rows(one)
  BY <1>2 DEF FieldsTyped, Rows
<1> QED
  BY <1>2, <1>3, <1>4, <1>5

-----------------------------------------------------------------------------
(* What steps leave of rows, and what requests then hold still. *)

TypesKept == \A id \in Rows(types) : id \in Rows(types')

FieldsKept ==
  \A f \in Rows(fields) : /\ f \in Rows(fields')
                          /\ fields'[f].postTypeId = fields[f].postTypeId
                          /\ fields'[f].name = fields[f].name

\* A row after a step: it is another version, or the same, if it is not deleted.
Later(was, is) ==
  /\ is.postTypeId = was.postTypeId /\ is.authorId = was.authorId
  /\ was.version <= is.version
  /\ is.version = was.version => is.data = was.data /\ (~is.deleted => is = was)

EntriesKept == \A e \in Rows(entries) : e \in Rows(entries') /\ Later(entries[e], entries'[e])

LEMMA ReadFromStays ==
  ASSUME EntriesTyped(entries), EntriesTyped(entries'), EntriesKept,
         NEW l, l.entry.version \in Nat, ReadFrom(l)
  PROVE  /\ ReadFrom(l)'
         /\ (entries[l.id].version = l.entry.version => AsRead(l, entries[l.id]))
            => (entries'[l.id].version = l.entry.version => AsRead(l, entries'[l.id]))
<1> DEFINE was == entries[l.id]
           is == entries'[l.id]
<1>1. /\ l.id \in Rows(entries) /\ was.postTypeId = l.entry.postTypeId
      /\ was.authorId = l.entry.authorId /\ l.entry.version <= was.version
  BY DEF ReadFrom
<1>2. l.id \in Rows(entries') /\ Later(was, is)
  BY <1>1 DEF EntriesKept
<1>3. was \in PostContent /\ is \in PostContent
  BY <1>1, <1>2, EntryRow
<1>4. was.version \in Nat /\ is.version \in Nat
  BY <1>3 DEF PostContent
<1> HIDE DEF was, is
<1>5. l.entry.version <= is.version
  BY <1>1, <1>2, <1>4 DEF Later
<1>6. ReadFrom(l)'
  BY <1>1, <1>2, <1>5 DEF ReadFrom, Later, was, is
<1>7. ASSUME was.version = l.entry.version => AsRead(l, was), is.version = l.entry.version
      PROVE  AsRead(l, is)
  <2>1. was.version = l.entry.version /\ is.version = was.version
    BY <1>1, <1>2, <1>4, <1>7 DEF Later
  <2>2. AsRead(l, was) /\ is.data = was.data /\ (~is.deleted => is = was)
    BY <1>2, <1>7, <2>1 DEF Later
  <2> QED
    BY <2>2 DEF AsRead
<1> QED
  BY <1>6, <1>7 DEF was, is

LEMMA HoldsStays ==
  ASSUME EntriesTyped(entries), EntriesTyped(entries'), TypesKept, FieldsKept, EntriesKept,
         NEW place, NEW l, Holds(place, l)
  PROVE  Holds(place, l)'
<1>1. ASSUME place \in {"fields", "check", "save"} PROVE IsEditing(place, l)'
  <2>1. IsEditing(place, l)
    BY <1>1 DEF Holds
  <2>2. l.entry.version \in Nat
    BY <2>1 DEF IsEditing, IsWriting, Draft
  <2> QED
    BY <2>1, <2>2, ReadFromStays DEF IsEditing
<1>2. ASSUME place = "status" PROVE IsPublishing(l)'
  <2>1. IsPublishing(l)
    BY <1>2 DEF Holds
  <2>2. l.entry.version \in Nat
    BY <2>1 DEF IsPublishing, PostContent
  <2> QED
    BY <2>1, <2>2, ReadFromStays DEF IsPublishing
<1>3. ASSUME place = "field" PROVE IsField(l)'
  <2>1. IsField(l)
    BY <1>3 DEF Holds
  <2>2. CASE l.op = "create field"
    BY <2>1, <2>2 DEF IsField
  <2>3. CASE l.op = "update field"
    BY <2>1, <2>3 DEF IsField, FieldsKept
  <2> QED
    BY <2>1, <2>2, <2>3 DEF IsField
<1> QED
  BY <1>1, <1>2, <1>3 DEF Holds, EntriesKept, TypesKept

\* A request goes to a place, with its variables.
Turn(r, place, l) == at' = [at EXCEPT ![r] = place] /\ my' = [my EXCEPT ![r] = l]

LEMMA TurnKeepsRequested ==
  ASSUME EntriesTyped(entries), EntriesTyped(entries'), TypesKept, FieldsKept, EntriesKept,
         Requested, NEW r \in Requests, NEW place \in Places, NEW l, Turn(r, place, l),
         Holds(place, l)
  PROVE  Requested'
<1>1. /\ at' = [at EXCEPT ![r] = place] /\ at \in [Requests -> Places]
      /\ my' = [my EXCEPT ![r] = l] /\ my = [q \in Requests |-> my[q]]
  BY DEF Turn, Requested
<1>2. my' = [q \in Requests |-> my'[q]] /\ at' \in [Requests -> Places]
  BY <1>1
<1>3. ASSUME NEW q \in Requests PROVE Holds(at[q], my[q])'
  <2>1. CASE q = r
    <3>1. Holds(place, l)' /\ at'[q] = place /\ my'[q] = l
      BY <1>1, <2>1, HoldsStays
    <3> QED
      BY <3>1
  <2>2. CASE q # r
    <3>1. at'[q] = at[q] /\ my'[q] = my[q] /\ Holds(at[q], my[q])
      BY <1>1, <2>2 DEF Requested
    <3>2. PICK p, k : p = at[q] /\ k = my[q]
      OBVIOUS
    <3>3. Holds(p, k)
      BY <3>1, <3>2
    <3>4. Holds(p, k)'
      BY <3>3, HoldsStays
    <3> QED
      BY <3>1, <3>2, <3>4
  <2> QED
    BY <2>1, <2>2
<1> QED
  BY <1>2, <1>3 DEF Requested

LEMMA SameRequested ==
  ASSUME EntriesTyped(entries), EntriesTyped(entries'), TypesKept, FieldsKept, EntriesKept,
         Requested, UNCHANGED <<at, my>>
  PROVE  Requested'
<1>1. ASSUME NEW q \in Requests PROVE Holds(at[q], my[q])'
  <2>1. PICK p, k : p = at[q] /\ k = my[q]
    OBVIOUS
  <2>2. Holds(p, k)
    BY <2>1 DEF Requested
  <2>3. Holds(p, k)'
    BY <2>2, HoldsStays
  <2> QED
    BY <2>1, <2>3
<1> QED
  BY <1>1 DEF Requested, Places

\* A table that is as before.
LEMMA SameTypes == ASSUME types' = types PROVE TypesKept
BY DEF TypesKept

LEMMA SameFields == ASSUME fields' = fields PROVE FieldsKept
BY DEF FieldsKept

LEMMA SameEntries == ASSUME EntriesTyped(entries), entries' = entries PROVE EntriesKept
<1>1. \A e \in Rows(entries) : entries[e].version \in Nat
  BY EntryRow DEF PostContent
<1> QED
  BY <1>1 DEF EntriesKept, Later

-----------------------------------------------------------------------------
(* What steps leave of the values. *)

\* The values of live entries are those that were.
NoNewValues ==
  /\ unsure' = unsure
  /\ \A e \in LiveRows(entries') : /\ e \in LiveRows(entries)
                                   /\ entries'[e].postTypeId = entries[e].postTypeId
                                   /\ entries'[e].data = entries[e].data

LEMMA SameValues == ASSUME UNCHANGED <<entries, unsure>> PROVE NoNewValues
BY DEF NoNewValues

LEMMA ApartStays ==
  ASSUME NoNewValues, NEW type, NEW n, Apart(type, n)
  PROVE  Apart(type, n)'
<1>1. \A e \in EntriesOf(type)' : e \in EntriesOf(type) /\ entries'[e].data = entries[e].data
  BY DEF NoNewValues, EntriesOf
<1> QED
  BY <1>1 DEF NoNewValues, Apart

LEMMA HavingStays ==
  ASSUME NoNewValues, NEW type, NEW n, NEW value
  PROVE  Having(type, n, value)' \subseteq Having(type, n, value)
<1>1. \A e \in EntriesOf(type)' : e \in EntriesOf(type) /\ entries'[e].data = entries[e].data
  BY DEF NoNewValues, EntriesOf
<1> QED
  BY <1>1 DEF Having

\* The unique fields of a step are among those that were, or that some request makes unique.
UniqueKept == \A t \in TypeIds : UniqueNames(t)' \subseteq Watched(t)

LEMMA SameUnique == ASSUME fields' = fields PROVE UniqueKept
BY DEF UniqueKept, UniqueNames, FindByPostType, FieldsOf, Watched

\* A step to a place that takes no lock, and makes no field unique that repeats a value.
Quiet(place, l) ==
  /\ place = "save" => l.checked = {}
  /\ place = "field" /\ l.unique => Apart(l.type, l.name)

LEMMA TurnKeepsValues ==
  ASSUME Requested, ValuesInv, NoNewValues, UniqueKept,
         NEW r \in Requests, NEW place \in Places, NEW l, Turn(r, place, l), Quiet(place, l)
  PROVE  ValuesInv'
<1>1. /\ at'[r] = place /\ my'[r] = l
      /\ \A q \in Requests \ {r} : at'[q] = at[q] /\ my'[q] = my[q]
  BY DEF Turn, Requested
<1>2. \A q \in Requests : Holding(q)' => Holding(q) /\ my'[q] = my[q]
  BY <1>1 DEF Holding, Quiet
<1>3. LocksHeld'
  <2>1. LocksHeld
    BY DEF ValuesInv
  <2> QED
    BY <1>2, <2>1 DEF LocksHeld
<1>4. ASSUME NEW q \in Requests PROVE CheckHolds(q)'
  <2>1. CASE Holding(q)'
    <3>1. Holding(q) /\ my'[q] = my[q] /\ CheckHolds(q)
      BY <1>2, <2>1 DEF ValuesInv
    <3>2. PICK k : k = my[q]
      OBVIOUS
    <3>3. \A n \in k.checked : \A e \in Having(k.entry.postTypeId, n, k.entry.data[n]) :
            e # k.id => n \in unsure[e]
      BY <3>1, <3>2 DEF CheckHolds, Holding
    <3>4. \A n : Having(k.entry.postTypeId, n, k.entry.data[n])'
                   \subseteq Having(k.entry.postTypeId, n, k.entry.data[n])
      BY HavingStays
    <3> QED
      BY <3>1, <3>2, <3>3, <3>4 DEF CheckHolds, NoNewValues
  <2>2. CASE ~Holding(q)'
    BY <2>2 DEF CheckHolds, Holding
  <2> QED
    BY <2>1, <2>2
<1>5. ASSUME NEW t \in TypeIds, NEW n \in Watched(t)' PROVE Apart(t, n)'
  <2>1. n \in Watched(t) \/ Apart(t, n)
    <3>1. CASE n \in UniqueNames(t)'
      BY <3>1 DEF UniqueKept
    <3>2. CASE n \in BeingUnique(t)'
      BY <1>1, <3>2 DEF BeingUnique, Watched, Quiet
    <3> QED
      BY <3>1, <3>2 DEF Watched
  <2>2. Apart(t, n)
    BY <2>1 DEF ValuesInv, WatchedApart
  <2> QED
    BY <2>2, ApartStays
<1> QED
  BY <1>3, <1>4, <1>5 DEF ValuesInv, WatchedApart

LEMMA SameKeepsValues ==
  ASSUME ValuesInv, NoNewValues, UniqueKept, UNCHANGED <<at, my>>
  PROVE  ValuesInv'
<1>1. LocksHeld'
  BY DEF ValuesInv, LocksHeld, Holding
<1>2. ASSUME NEW q \in Requests PROVE CheckHolds(q)'
  <2>1. PICK k : k = my[q]
    OBVIOUS
  <2>2. at[q] = "save" =>
          \A n \in k.checked : \A e \in Having(k.entry.postTypeId, n, k.entry.data[n]) :
            e # k.id => n \in unsure[e]
    BY <2>1 DEF CheckHolds, ValuesInv
  <2>3. \A n : Having(k.entry.postTypeId, n, k.entry.data[n])'
                 \subseteq Having(k.entry.postTypeId, n, k.entry.data[n])
    BY HavingStays
  <2> QED
    BY <2>1, <2>2, <2>3 DEF CheckHolds, NoNewValues
<1>3. ASSUME NEW t \in TypeIds, NEW n \in Watched(t)' PROVE Apart(t, n)'
  <2>1. n \in Watched(t)
    BY DEF UniqueKept, Watched, BeingUnique
  <2>2. Apart(t, n)
    BY <2>1 DEF ValuesInv, WatchedApart
  <2> QED
    BY <2>2, ApartStays
<1> QED
  BY <1>1, <1>2, <1>3 DEF ValuesInv, WatchedApart

-----------------------------------------------------------------------------
(* What may be published is decided by author and post type. *)

LEMMA PublishByAuthor ==
  ASSUME NEW u \in Users, NEW entry, NEW other, Can(u, "publish", entry),
         entry.authorId = other.authorId, entry.postTypeId = other.postTypeId
  PROVE  Can(u, "publish", other)
<1> DEFINE rules == Rules[u]["publish"]["Content"]
           row == [c \in {"authorId", "status", "postTypeId"} |-> entry[c]]
           as == [c \in {"authorId", "status", "postTypeId"} |-> other[c]]
<1>1. \A i \in DOMAIN rules : DOMAIN rules[i].conditions \subseteq {"authorId", "postTypeId"}
  BY PublishingAssumption
<1>2. CanRecord(rules, row)
  BY DEF Can, MayOn
<1>3. /\ DOMAIN row = DOMAIN as /\ {"authorId", "postTypeId"} \subseteq DOMAIN row
      /\ row["authorId"] = as["authorId"] /\ row["postTypeId"] = as["postTypeId"]
  OBVIOUS
<1> HIDE DEF rules, row, as
<1>4. ASSUME NEW i \in DOMAIN rules
      PROVE  Matches(rules[i].conditions, row) <=> Matches(rules[i].conditions, as)
  BY <1>1, <1>3 DEF Matches
<1>5. CanRecord(rules, as)
  BY <1>2, <1>4 DEF CanRecord, Above
<1> QED
  BY <1>5 DEF rules, as, Can, MayOn

-----------------------------------------------------------------------------
(* The steps of requests. *)

Turns(r) ==
  \E place \in Places : \E l : Turn(r, place, l) /\ Holds(place, l) /\ Quiet(place, l)

LEMMA LeaveTurns ==
  ASSUME NEW r, Leave(r)
  PROVE  Turns(r)
<1>1. Holds("idle", Blank) /\ Quiet("idle", Blank)
  BY DEF Holds, Quiet
<1> QED
  BY <1>1 DEF Turns, Turn, Leave, Places

LEMMA WritingColumns ==
  ASSUME NEW op, NEW u, NEW id, NEW body, NEW entry
  PROVE  LET l == Writing(op, u, id, body, entry)
         IN  /\ l = [op |-> l.op, user |-> l.user, id |-> l.id, body |-> l.body,
                     entry |-> l.entry, checked |-> l.checked]
             /\ l.op = op /\ l.user = u /\ l.id = id /\ l.body = body /\ l.entry = entry
             /\ l.checked = {}
BY DEF Writing

LEMMA NoData == Unset \in Data
<1>1. Unset \in [{} -> Values]
  BY DEF Unset
<1> QED
  BY <1>1 DEF Data

LEMMA CreateTurns ==
  ASSUME NEW r, NEW u \in Users, NEW type \in TypeIds, NEW body \in Creations,
         Create(r, u, type, body)
  PROVE  Turns(r)
<1> DEFINE entry == [postTypeId |-> type, authorId |-> u, title |-> body.title,
                     slug |-> None, data |-> Unset, status |-> Given(body.status, "draft"),
                     scheduledAt |-> body.scheduledAt, deleted |-> FALSE, version |-> 1]
           l == Writing("create", u, None, body, entry)
<1>1. Turn(r, "fields", l)
  BY DEF Create, Start, Go, Turn
<1>2. body \in EntryBody /\ body.title # None /\ body.data # None
  BY ContentAssumption
<1>3. /\ body.title \in Titles /\ body.scheduledAt \in 0..MaxNow \cup {None}
      /\ Given(body.status, "draft") \in ContentStatus
  BY <1>2 DEF EntryBody, Given, ContentStatus
<1>4. entry \in Draft
  BY <1>3, NoData DEF Draft
<1>5. entry.status \in PUBLISHING => Can(u, "publish", entry)
  BY DEF Create, CanSetStatus
<1> HIDE DEF entry
<1>6. /\ l = [op |-> l.op, user |-> l.user, id |-> l.id, body |-> l.body, entry |-> l.entry,
              checked |-> l.checked]
      /\ l.op = "create" /\ l.user = u /\ l.id = None /\ l.body = body /\ l.entry = entry
      /\ l.checked = {}
  BY WritingColumns
<1> HIDE DEF l
<1>7. IsWriting(l) /\ IsCreation(l)
  BY <1>4, <1>5, <1>6 DEF IsWriting, IsCreation
<1>8. Holds("fields", l) /\ Quiet("fields", l)
  BY <1>2, <1>6, <1>7 DEF Holds, IsEditing, Quiet
<1> QED
  BY <1>1, <1>8 DEF Turns, Places

LEMMA Loaded ==
  ASSUME EntriesTyped(entries), NEW r, NEW u, NEW id, NEW action, Load(r, u, id, action)
  PROVE  /\ id \in Rows(entries) /\ id \in EntryIds /\ entries[id] \in PostContent
         /\ ~entries[id].deleted /\ entries[id].version \in Nat
         /\ Can(u, action, entries[id])
<1>1. id \in Rows(entries) /\ ~entries[id].deleted
  BY DEF Load, LiveRows
<1>2. id \in EntryIds /\ entries[id] \in PostContent
  BY <1>1, EntryRow
<1> QED
  BY <1>1, <1>2 DEF PostContent, Load, CanChange

LEMMA EditedEntry ==
  ASSUME NEW entry \in PostContent, NEW body \in EntryBody,
         NEW new, new = [entry EXCEPT !.title = Given(body.title, @),
                                      !.status = Given(body.status, @),
                                      !.scheduledAt = Given(body.scheduledAt, @)]
  PROVE  /\ new \in PostContent
         /\ new.postTypeId = entry.postTypeId /\ new.authorId = entry.authorId
         /\ new.data = entry.data /\ new.version = entry.version
         /\ body.title = None => new.title = entry.title
         /\ body.scheduledAt = None => new.scheduledAt = entry.scheduledAt
         /\ new.status = Given(body.status, entry.status)
<1>1. /\ Given(body.title, entry.title) \in Titles
      /\ Given(body.status, entry.status) \in ContentStatus
      /\ Given(body.scheduledAt, entry.scheduledAt) \in 0..MaxNow \cup {None}
  BY DEF EntryBody, PostContent, Given
<1>2. new = [[[entry EXCEPT !.title = Given(body.title, entry.title)]
                     EXCEPT !.status = Given(body.status, entry.status)]
                     EXCEPT !.scheduledAt = Given(body.scheduledAt, entry.scheduledAt)]
  BY DEF PostContent
<1> DEFINE one == [entry EXCEPT !.title = Given(body.title, entry.title)]
           two == [one EXCEPT !.status = Given(body.status, entry.status)]
<1>3. one \in PostContent
  BY <1>1 DEF PostContent
<1>4. /\ one.postTypeId = entry.postTypeId /\ one.authorId = entry.authorId
      /\ one.data = entry.data /\ one.version = entry.version
      /\ one.title = Given(body.title, entry.title) /\ one.status = entry.status
      /\ one.scheduledAt = entry.scheduledAt
  BY DEF PostContent
<1> HIDE DEF one
<1>5. two \in PostContent
  BY <1>1, <1>3 DEF PostContent
<1>6. /\ two.postTypeId = entry.postTypeId /\ two.authorId = entry.authorId
      /\ two.data = entry.data /\ two.version = entry.version
      /\ two.title = Given(body.title, entry.title)
      /\ two.status = Given(body.status, entry.status)
      /\ two.scheduledAt = entry.scheduledAt
  BY <1>3, <1>4 DEF PostContent
<1>7. new = [two EXCEPT !.scheduledAt = Given(body.scheduledAt, entry.scheduledAt)]
  BY <1>2 DEF one
<1> HIDE DEF two
<1>8. /\ new \in PostContent
      /\ new.postTypeId = two.postTypeId /\ new.authorId = two.authorId
      /\ new.data = two.data /\ new.version = two.version /\ new.title = two.title
      /\ new.status = two.status
      /\ new.scheduledAt = Given(body.scheduledAt, entry.scheduledAt)
  BY <1>1, <1>5, <1>7 DEF PostContent
<1> QED
  BY <1>6, <1>8 DEF Given

LEMMA ContentIsDraft ==
  ASSUME NEW entry \in PostContent
  PROVE  entry \in Draft
BY DEF PostContent, Draft

LEMMA UpdateTurns ==
  ASSUME EntriesTyped(entries), NEW r, NEW u \in Users, NEW id \in EntryIds, NEW body \in Edits,
         Update(r, u, id, body)
  PROVE  Turns(r)
<1> DEFINE was == entries[id]
           entry == [was EXCEPT !.title = Given(body.title, @),
                                !.status = Given(body.status, @),
                                !.scheduledAt = Given(body.scheduledAt, @)]
           l == Writing("update", u, id, body, entry)
           place == IF body.data = None THEN "save" ELSE "fields"
<1>1. Turn(r, place, l)
  BY DEF Update, Start, Go, Turn
<1>2. /\ id \in Rows(entries) /\ was \in PostContent /\ ~was.deleted /\ was.version \in Nat
  BY Loaded DEF Update
<1>3. body \in EntryBody
  BY ContentAssumption
<1>4. /\ entry \in PostContent
      /\ entry.postTypeId = was.postTypeId /\ entry.authorId = was.authorId
      /\ entry.data = was.data /\ entry.version = was.version
      /\ body.title = None => entry.title = was.title
      /\ body.scheduledAt = None => entry.scheduledAt = was.scheduledAt
      /\ entry.status = Given(body.status, was.status)
  <2> HIDE DEF was
  <2> QED
    BY <1>2, <1>3, EditedEntry
<1>6. body.status \notin {None, was.status}
      => (body.status \in PUBLISHING => Can(u, "publish", was))
  BY DEF Update, CanSetStatus
<1> HIDE DEF entry
<1>7. /\ l = [op |-> l.op, user |-> l.user, id |-> l.id, body |-> l.body, entry |-> l.entry,
              checked |-> l.checked]
      /\ l.op = "update" /\ l.user = u /\ l.id = id /\ l.body = body /\ l.entry = entry
      /\ l.checked = {}
  BY WritingColumns
<1>8. place \in {"fields", "save"} /\ (place = "fields" => body.data # None)
  OBVIOUS
<1> HIDE DEF l, place, was
<1>9. IsWriting(l) /\ IsEdit(l)
  BY <1>4, <1>7, ContentIsDraft DEF IsWriting, IsEdit
<1>10. ReadFrom(l)
  BY <1>2, <1>4, <1>7 DEF ReadFrom, was
<1>11. \/ was.status = entry.status
       \/ entry.status \in PUBLISHING => Can(u, "publish", entry)
  BY <1>4, <1>6, PublishByAuthor DEF Given
<1>12. body.status = None => was.status = entry.status
  BY <1>4 DEF Given
<1>13. AsRead(l, was)
  BY <1>4, <1>7, <1>11, <1>12 DEF AsRead
<1>14. Holds(place, l) /\ Quiet(place, l)
  BY <1>4, <1>7, <1>8, <1>9, <1>10, <1>13 DEF Holds, IsEditing, Quiet, was
<1> QED
  BY <1>1, <1>8, <1>14 DEF Turns, Places

LEMMA PublishTurns ==
  ASSUME EntriesTyped(entries), NEW r, NEW u \in Users, NEW id,
         NEW op, NEW body, Load(r, u, id, "publish"),
         Start(r, Writing(op, u, id, body, entries[id]), "status"),
         \/ body = [status |-> "published"]
         \/ \E date \in Dates : body = [status |-> "scheduled", scheduledAt |-> date]
  PROVE  Turns(r)
<1> DEFINE l == Writing(op, u, id, body, entries[id])
<1>1. Turn(r, "status", l)
  BY DEF Start, Go, Turn
<1>2. /\ id \in Rows(entries) /\ entries[id] \in PostContent /\ entries[id].version \in Nat
      /\ Can(u, "publish", entries[id])
  BY Loaded
<1>3. l.user = u /\ l.id = id /\ l.body = body /\ l.entry = entries[id]
  BY WritingColumns
<1> HIDE DEF l
<1>4. Holds("status", l) /\ Quiet("status", l)
  BY <1>2, <1>3 DEF Holds, IsPublishing, ReadFrom, Quiet
<1> QED
  BY <1>1, <1>4 DEF Turns, Places

LEMMA RemoveTurns ==
  ASSUME EntriesTyped(entries), NEW r, NEW u, NEW id, Remove(r, u, id)
  PROVE  Turns(r)
<1> DEFINE l == Writing("remove", u, id, None, entries[id])
<1>1. Turn(r, "remove", l)
  BY DEF Remove, Start, Go, Turn
<1>2. id \in Rows(entries)
  BY Loaded DEF Remove
<1>3. l.id = id
  BY WritingColumns
<1> HIDE DEF l
<1>4. Holds("remove", l) /\ Quiet("remove", l)
  BY <1>2, <1>3 DEF Holds, Quiet
<1> QED
  BY <1>1, <1>4 DEF Turns, Places

LEMMA BeginTurns ==
  ASSUME EntriesTyped(entries), NEW r, NEW u \in Users, Begin(r, u)
  PROVE  Turns(r) /\ served' = served + 1 /\ served < MaxServed
<1>1. ASSUME NEW id \in EntryIds, Publish(r, u, id) PROVE Turns(r)
  BY <1>1, PublishTurns DEF Publish
<1>2. ASSUME NEW id \in EntryIds, NEW date \in Dates, Schedule(r, u, id, date) PROVE Turns(r)
  BY <1>2, PublishTurns DEF Schedule
<1>3. served' = served + 1 /\ served < MaxServed
  BY DEF Begin, Create, Update, Publish, Schedule, Remove, Start, MayStart
<1> QED
  BY <1>1, <1>2, <1>3, CreateTurns, UpdateTurns, RemoveTurns DEF Begin

-----------------------------------------------------------------------------
(* The data of an entry, read with its fields. *)

LEMMA SanitizedData ==
  ASSUME NEW defs, NEW data \in Data
  PROVE  Sanitized(defs, data) \in Data
<1> DEFINE rich == {d.name : d \in {e \in defs : e.fieldType = "wysiwyg"}}
           new == Sanitized(defs, data)
<1>1. PICK names \in SUBSET FieldNames : data \in [names -> Values]
  BY DEF Data
<1>2. new = [n \in DOMAIN data |-> IF n \in rich /\ data[n].type = "string"
                                   THEN Sanitize(data[n]) ELSE data[n]]
  BY DEF Sanitized
<1>3. \A n \in names :
        data[n] \in Values /\ (data[n].type = "string" => Sanitize(data[n]) \in Values)
  BY <1>1, ContentAssumption
<1> HIDE DEF rich, new
<1>4. new \in [names -> Values]
  BY <1>1, <1>2, <1>3
<1> QED
  BY <1>4 DEF Data, new

LEMMA MergedData ==
  ASSUME NEW defs, NEW kept \in Data, NEW sent \in Data
  PROVE  Merged(defs, kept, sent) \in Data
<1> DEFINE names == DOMAIN sent \cup (DOMAIN kept \cap {d.name : d \in defs})
           new == Merged(defs, kept, sent)
<1>1. /\ DOMAIN kept \subseteq FieldNames /\ \A n \in DOMAIN kept : kept[n] \in Values
      /\ DOMAIN sent \subseteq FieldNames /\ \A n \in DOMAIN sent : sent[n] \in Values
  BY DEF Data
<1>2. new = [n \in names |-> IF n \in DOMAIN sent THEN sent[n] ELSE kept[n]]
  BY DEF Merged
<1>3. names \subseteq FieldNames /\ \A n \in names : n \in DOMAIN sent \/ n \in DOMAIN kept
  BY <1>1
<1> HIDE DEF names, new
<1>4. new \in [names -> Values]
  BY <1>1, <1>2, <1>3
<1>5. new \in Data
  BY <1>3, <1>4 DEF Data
<1> QED
  BY <1>5 DEF new

LEMMA FieldsOfType ==
  ASSUME FieldsTyped(fields), NEW type, NEW d \in FindByPostType(type)
  PROVE  d \in FieldDefinition /\ d.name \in FieldNames
<1>1. PICK f \in FieldsOf(type) : d = fields[f]
  BY DEF FindByPostType
<1>2. f \in Rows(fields)
  BY DEF FieldsOf, LiveRows
<1> QED
  BY <1>1, <1>2, FieldRow DEF FieldDefinition

\* The entry as the request will save it, and the request.
EntryRead(entry, slug, data) == [entry EXCEPT !.slug = slug, !.data = data]
RequestRead(l, entry, checked) == [l EXCEPT !.entry = entry, !.checked = checked]

LEMMA ReadEntry ==
  ASSUME NEW entry \in Draft, NEW slug \in Slug(Titles), NEW data \in Data,
         NEW new, new = EntryRead(entry, slug, data)
  PROVE  /\ new \in PostContent
         /\ new.postTypeId = entry.postTypeId /\ new.authorId = entry.authorId
         /\ new.title = entry.title /\ new.status = entry.status
         /\ new.scheduledAt = entry.scheduledAt /\ new.version = entry.version
         /\ new.data = data
<1> DEFINE one == [entry EXCEPT !.slug = slug]
<1>1. /\ one \in PostContent
      /\ one.postTypeId = entry.postTypeId /\ one.authorId = entry.authorId
      /\ one.title = entry.title /\ one.status = entry.status
      /\ one.scheduledAt = entry.scheduledAt /\ one.version = entry.version
  BY DEF Draft, PostContent
<1>2. new = [one EXCEPT !.data = data]
  BY DEF Draft, EntryRead
<1> HIDE DEF one
<1> QED
  BY <1>1, <1>2 DEF PostContent

LEMMA WritingRead ==
  ASSUME NEW l, IsWriting(l), NEW entry, NEW checked,
         NEW new, new = RequestRead(l, entry, checked)
  PROVE  /\ new = [op |-> new.op, user |-> new.user, id |-> new.id, body |-> new.body,
                   entry |-> new.entry, checked |-> new.checked]
         /\ new.op = l.op /\ new.user = l.user /\ new.id = l.id /\ new.body = l.body
         /\ new.entry = entry /\ new.checked = checked
<1> DEFINE one == [op |-> l.op, user |-> l.user, id |-> l.id, body |-> l.body,
                   entry |-> l.entry, checked |-> l.checked]
<1>1. l = one
  BY DEF IsWriting
<1>2. new = [[one EXCEPT !.entry = entry] EXCEPT !.checked = checked]
  BY <1>1, Zenon DEF RequestRead
<1> DEFINE two == [op |-> l.op, user |-> l.user, id |-> l.id, body |-> l.body,
                   entry |-> entry, checked |-> l.checked]
<1>3. [one EXCEPT !.entry = entry] = two
  OBVIOUS
<1>4. [two EXCEPT !.checked = checked] =
        [op |-> l.op, user |-> l.user, id |-> l.id, body |-> l.body,
         entry |-> entry, checked |-> checked]
  OBVIOUS
<1>5. new = [op |-> l.op, user |-> l.user, id |-> l.id, body |-> l.body,
             entry |-> entry, checked |-> checked]
  <2> HIDE DEF one, two
  <2> QED
    BY <1>2, <1>3, <1>4
<1> QED
  BY <1>5

LEMMA ReadFieldsTurns ==
  ASSUME FieldsTyped(fields), Requested, NEW r \in Requests, ReadFields(r)
  PROVE  Turns(r)
<1> DEFINE l == my[r]
           defs == FindByPostType(l.entry.postTypeId)
           merged == Merged(defs, l.entry.data, l.body.data)
           data == Sanitized(defs, merged)
           taken == EntrySlugs(l.entry.postTypeId)
           slug == IF l.op = "create" THEN UniqueSlug(l.entry.title, taken) ELSE l.entry.slug
           entry == EntryRead(l.entry, slug, data)
           checked == {d.name : d \in {e \in defs : /\ e.unique
                                                   /\ e.name \in DOMAIN data
                                                   /\ ~IsEmpty(data[e.name])}}
           new == RequestRead(l, entry, checked)
<1>1. at[r] = "fields" /\ IsEditing("fields", l)
  BY DEF ReadFields, Requested, Holds
<1>2. /\ IsWriting(l) /\ (IsCreation(l) \/ IsEdit(l)) /\ l.body.data # None
      /\ l.op = "update" => /\ ReadFrom(l)
                            /\ entries[l.id].version = l.entry.version => AsRead(l, entries[l.id])
  BY <1>1 DEF IsEditing
<1>3. l.body \in EntryBody
  BY <1>2, ContentAssumption DEF IsCreation, IsEdit
<1>4. data \in Data
  <2>1. l.body.data \in Data /\ l.entry.data \in Data
    BY <1>2, <1>3 DEF EntryBody, IsWriting, Draft
  <2> HIDE DEF l, defs
  <2> QED
    BY <2>1, MergedData, SanitizedData
<1>5. slug \in Slug(Titles)
  <2>1. CASE l.op = "create"
    <3>1. FreeSlugs(l.entry.title, taken) # {}
      BY <2>1 DEF ReadFields
    <3>2. l.entry.title \in Titles
      BY <1>2 DEF IsWriting, Draft
    <3> HIDE DEF l, taken
    <3> QED
      BY <2>1, <3>1, <3>2, UniqueSlugIsFree
  <2>2. CASE l.op # "create"
    BY <1>2, <2>2 DEF IsCreation, IsEdit, PostContent
  <2> QED
    BY <2>1, <2>2
<1>6. checked \subseteq FieldNames
  BY FieldsOfType
<1>7. my' = [my EXCEPT ![r] = new]
  <2>1. my' = [my EXCEPT ![r].entry = entry, ![r].checked = checked]
    BY Zenon DEF ReadFields, EntryRead
  <2> HIDE DEF entry, checked
  <2> QED
    BY <2>1 DEF Requested, RequestRead
<1>8. Turn(r, "check", new)
  BY <1>7 DEF ReadFields, Go, Turn
<1> HIDE DEF slug, data, checked, l
<1>9. /\ entry \in PostContent
      /\ entry.postTypeId = l.entry.postTypeId /\ entry.authorId = l.entry.authorId
      /\ entry.title = l.entry.title /\ entry.status = l.entry.status
      /\ entry.scheduledAt = l.entry.scheduledAt /\ entry.version = l.entry.version
      /\ entry.data = data
  <2>1. entry = EntryRead(l.entry, slug, data)
    OBVIOUS
  <2>2. l.entry \in Draft
    BY <1>2 DEF IsWriting
  <2> HIDE DEF entry
  <2> QED
    BY <1>4, <1>5, <2>1, <2>2, ReadEntry
<1> HIDE DEF entry
<1>10. /\ new = [op |-> new.op, user |-> new.user, id |-> new.id, body |-> new.body,
                 entry |-> new.entry, checked |-> new.checked]
       /\ new.op = l.op /\ new.user = l.user /\ new.id = l.id /\ new.body = l.body
       /\ new.entry = entry /\ new.checked = checked
  <2>1. new = RequestRead(l, entry, checked)
    OBVIOUS
  <2> HIDE DEF new
  <2> QED
    BY <1>2, <2>1, WritingRead
<1> HIDE DEF new
<1>11. IsWriting(new)
  BY <1>2, <1>6, <1>9, <1>10, ContentIsDraft DEF IsWriting
<1>12. l.user \in Users /\ (Can(l.user, "publish", l.entry) => Can(l.user, "publish", entry))
  BY <1>2, <1>9, PublishByAuthor DEF IsWriting
<1>13. IsCreation(new) \/ IsEdit(new)
  BY <1>2, <1>9, <1>10, <1>12 DEF IsCreation, IsEdit
<1>14. new.op = "update" =>
         /\ ReadFrom(new)
         /\ entries[new.id].version = new.entry.version => AsRead(new, entries[new.id])
  BY <1>2, <1>9, <1>10, <1>12 DEF ReadFrom, AsRead
<1>15. Holds("check", new) /\ Quiet("check", new)
  BY <1>2, <1>9, <1>10, <1>11, <1>13, <1>14 DEF Holds, IsEditing, Quiet
<1> QED
  BY <1>8, <1>15 DEF Turns, Places

LEMMA CheckTurns ==
  ASSUME Requested, NEW r \in Requests, Check(r)
  PROVE  Turn(r, "save", my[r]) /\ Holds("save", my[r])
<1>1. at[r] = "check" /\ IsEditing("check", my[r])
  BY DEF Check, Requested, Holds
<1>2. Holds("save", my[r])
  BY <1>1 DEF IsEditing, Holds
<1>3. my' = [my EXCEPT ![r] = my[r]]
  BY DEF Check, Requested
<1> QED
  BY <1>2, <1>3 DEF Check, Go, Turn

-----------------------------------------------------------------------------
(* The requests that change types and fields. *)

LEMMA RemoveTypeTurns ==
  ASSUME NEW r, NEW u, NEW id, NEW hasContent, RemovePostType(r, u, id, hasContent)
  PROVE  Turns(r)
<1> DEFINE l == [op |-> "remove type", id |-> id]
<1>1. Turn(r, "drop", l)
  BY DEF RemovePostType, Start, Go, Turn
<1>2. id \in Rows(types)
  BY DEF RemovePostType, LiveRows
<1>3. Holds("drop", l) /\ Quiet("drop", l)
  BY <1>2 DEF Holds, Quiet
<1> QED
  BY <1>1, <1>3 DEF Turns, Places

\* Two entries with one value are at least two that have it.
LEMMA NoDuplicatesApart ==
  ASSUME EntriesTyped(entries), NEW type, NEW n, ~HasDuplicateValues(type, n)
  PROVE  Apart(type, n)
<1> SUFFICES ASSUME NEW e \in EntriesOf(type), NEW f \in EntriesOf(type), e # f,
                    n \in DOMAIN entries[e].data \cap DOMAIN entries[f].data,
                    ~IsEmpty(entries[e].data[n]), entries[e].data[n] = entries[f].data[n]
             PROVE  FALSE
  BY DEF Apart
<1> DEFINE same == Having(type, n, entries[e].data[n])
<1>1. e \in same /\ f \in same
  BY DEF Having
<1>2. same \subseteq EntryIds /\ IsFiniteSet(EntryIds)
  <2>1. same \subseteq EntryIds
    BY EntryRow DEF Having, EntriesOf, LiveRows
  <2>2. IsFiniteSet(FieldIds \cup EntryIds) /\ EntryIds \subseteq FieldIds \cup EntryIds
    BY ContentAssumption
  <2> QED
    BY <2>1, <2>2, FS_Subset
<1> HIDE DEF same
<1>3. IsFiniteSet(same) /\ Cardinality(same) \in Nat
  BY <1>2, FS_Subset, FS_CardinalityType
<1>4. Cardinality({e}) = 1 /\ IsFiniteSet({e})
  BY FS_Singleton
<1>5. Cardinality({e} \cup {f}) = 2 /\ IsFiniteSet({e} \cup {f})
  <2>1. f \notin {e}
    OBVIOUS
  <2>2. \A S, x : IsFiniteSet(S) /\ x \notin S
                 => IsFiniteSet(S \cup {x}) /\ Cardinality(S \cup {x}) = Cardinality(S) + 1
    BY FS_AddElement
  <2>3. IsFiniteSet({e} \cup {f}) /\ Cardinality({e} \cup {f}) = Cardinality({e}) + 1
    BY <1>4, <2>1, <2>2, Zenon
  <2> QED
    BY <1>4, <2>3
<1>6. {e} \cup {f} \subseteq same
  BY <1>1
<1>7. Cardinality({e} \cup {f}) <= Cardinality(same)
  BY <1>3, <1>6, FS_Subset
<1>8. Cardinality(same) > 1
  BY <1>3, <1>5, <1>7
<1> QED
  BY <1>8 DEF HasDuplicateValues, same

\* A finite set of natural numbers that has a member has a greatest one: else the
\* smallest of its parts without one would lose an element and have one.
LEMMA MaxOfFinite ==
  ASSUME NEW S, IsFiniteSet(S), S \subseteq Nat, S # {}
  PROVE  Max(S) \in S
<1> DEFINE Greatest(T) == \E x \in T : \A y \in T : x >= y
           Bad == {T \in FiniteSubsetsOf(S) : T # {} /\ ~Greatest(T)}
<1>1. SUFFICES ASSUME ~Greatest(S) PROVE FALSE
  BY DEF Max
<1>2. Bad \subseteq FiniteSubsetsOf(S) /\ S \in Bad
  BY <1>1 DEF FiniteSubsetsOf
<1>3. \E T \in Bad : \A U \in Bad : ~(<<U, T>> \in StrictSubsetOrdering(S))
  <2> HIDE DEF Bad
  <2> QED
    BY <1>2, FS_StrictSubsetOrderingWellFounded, WFMin
<1>4. PICK T \in Bad : \A U \in Bad : ~(<<U, T>> \in StrictSubsetOrdering(S))
  BY <1>3
<1>5. T \subseteq S /\ IsFiniteSet(T) /\ T # {} /\ ~Greatest(T)
  BY <1>4 DEF FiniteSubsetsOf
<1>6. PICK x \in T : TRUE
  BY <1>5
<1>7. T \ {x} \in FiniteSubsetsOf(S) /\ <<T \ {x}, T>> \in StrictSubsetOrdering(S)
  BY <1>5, <1>6, FS_RemoveElement DEF FiniteSubsetsOf, StrictSubsetOrdering
<1>8. T \ {x} = {} \/ Greatest(T \ {x})
  BY <1>4, <1>7
<1>9. CASE T \ {x} = {}
  BY <1>5, <1>6, <1>9
<1>10. CASE Greatest(T \ {x})
  <2>1. PICK m \in T \ {x} : \A y \in T \ {x} : m >= y
    BY <1>10
  <2>2. CASE m >= x
    BY <2>1, <2>2, <1>5
  <2>3. CASE x >= m
    BY <2>1, <2>3, <1>5, <1>6
  <2>4. m \in Nat /\ x \in Nat
    BY <2>1, <1>5, <1>6
  <2> QED
    BY <2>2, <2>3, <2>4
<1> QED
  BY <1>8, <1>9, <1>10

LEMMA NextOrder ==
  ASSUME FieldsTyped(fields), NEW type
  PROVE  NextDisplayOrder(type) \in Nat
<1> DEFINE orders == {fields[f].displayOrder : f \in FieldsOf(type)}
<1>1. FieldsOf(type) \subseteq FieldIds /\ orders \subseteq Nat
  BY FieldRow DEF FieldsOf, LiveRows, FieldDefinition
<1>2. IsFiniteSet(FieldsOf(type))
  <2>1. IsFiniteSet(FieldIds \cup EntryIds) /\ FieldsOf(type) \subseteq FieldIds \cup EntryIds
    BY <1>1, ContentAssumption
  <2> QED
    BY <2>1, FS_Subset
<1>3. IsFiniteSet(orders)
  <2> DEFINE order == [f \in FieldsOf(type) |-> fields[f].displayOrder]
  <2>1. order \in Surjection(FieldsOf(type), orders)
    BY DEF Surjection
  <2> HIDE DEF order, orders
  <2> QED
    BY <1>2, <2>1, FS_Surjection
<1>4. CASE FieldsOf(type) = {}
  BY <1>4 DEF NextDisplayOrder
<1>5. CASE FieldsOf(type) # {}
  <2>1. orders # {}
    BY <1>5
  <2>2. NextDisplayOrder(type) = Max(orders) + 1
    BY <1>5 DEF NextDisplayOrder
  <2> HIDE DEF orders
  <2>3. orders \subseteq Nat
    BY <1>1
  <2>4. Max(orders) \in orders
    BY <1>3, <2>1, <2>3, MaxOfFinite
  <2>5. PICK m \in Nat : Max(orders) = m
    BY <2>3, <2>4
  <2>6. NextDisplayOrder(type) = m + 1
    BY <2>2, <2>5
  <2> QED
    BY <2>6
<1> QED
  BY <1>4, <1>5

\* The row of a field that a body asks for.
NewField(def, type, order) == [def EXCEPT !.postTypeId = type, !.displayOrder = order]

LEMMA NewFieldRow ==
  ASSUME NEW def \in FieldBody, NEW type \in TypeIds, NEW order \in Nat,
         NEW row, row = NewField(def, type, order)
  PROVE  /\ row \in FieldDefinition /\ ~row.deleted
         /\ row.postTypeId = type /\ row.name = def.name /\ row.unique = def.unique
<1> DEFINE one == [def EXCEPT !.postTypeId = type]
<1>1. /\ one \in FieldDefinition
      /\ one.postTypeId = type /\ one.name = def.name /\ one.unique = def.unique
  BY FieldOfType
<1>2. one.deleted = FALSE
  BY Zenon DEF FieldBody
<1>3. row = [one EXCEPT !.displayOrder = order]
  BY Zenon DEF NewField, FieldBody
<1> HIDE DEF one
<1> QED
  BY <1>1, <1>2, <1>3 DEF FieldDefinition

LEMMA CreateFieldTurns ==
  ASSUME EntriesTyped(entries), TypesTyped(types), FieldsTyped(fields),
         NEW r, NEW u, NEW type \in TypeIds, NEW def \in NewFields,
         CreateField(r, u, type, def, HasDuplicateValues(type, def.name))
  PROVE  Turns(r)
<1> DEFINE row == NewField(def, type, NextDisplayOrder(type))
           l == [op |-> "create field", type |-> type, name |-> def.name,
                 unique |-> def.unique, row |-> row]
<1>1. Turn(r, "field", l)
  BY DEF CreateField, Start, Go, Turn, NewField
<1>2. def \in FieldBody
  BY ContentAssumption
<1>3. /\ row \in FieldDefinition /\ ~row.deleted
      /\ row.postTypeId = type /\ row.name = def.name /\ row.unique = def.unique
  BY <1>2, NextOrder, NewFieldRow
<1>4. def.unique => Apart(type, def.name)
  BY NoDuplicatesApart DEF CreateField
<1> HIDE DEF row
<1>5. Holds("field", l) /\ Quiet("field", l)
  BY <1>3, <1>4 DEF Holds, Quiet, IsField
<1> QED
  BY <1>1, <1>5 DEF Turns, Places

LEMMA UpdateFieldTurns ==
  ASSUME EntriesTyped(entries), FieldsTyped(fields), ValuesInv,
         NEW r, NEW u, NEW f \in Rows(fields), NEW changes \in FieldChanges, NEW version,
         UpdateField(r, u, f, changes, version,
                     HasDuplicateValues(fields[f].postTypeId, fields[f].name))
  PROVE  Turns(r)
<1> DEFINE def == fields[f]
           l == [op |-> "update field", id |-> f, type |-> def.postTypeId, name |-> def.name,
                 unique |-> On(changes, "unique"), changes |-> changes,
                 version |-> Given(version, def.version)]
<1>1. Turn(r, "field", l)
  BY DEF UpdateField, Start, Go, Turn
<1>2. IsFieldChange(changes)
  BY ContentAssumption
<1>3. def \in FieldDefinition /\ f \in LiveRows(fields)
  BY FieldRow DEF UpdateField
<1>4. On(changes, "unique") => Apart(def.postTypeId, def.name)
  <2>1. CASE def.unique
    <3>1. def.name \in Watched(def.postTypeId) /\ def.postTypeId \in TypeIds
      BY <1>3, <2>1 DEF Watched, UniqueNames, FindByPostType, FieldsOf, FieldDefinition
    <3> QED
      BY <3>1 DEF ValuesInv, WatchedApart
  <2>2. CASE ~def.unique
    BY <2>2, NoDuplicatesApart DEF UpdateField
  <2> QED
    BY <2>1, <2>2
<1>5. Holds("field", l) /\ Quiet("field", l)
  BY <1>2, <1>4 DEF Holds, Quiet, IsField
<1> QED
  BY <1>1, <1>5 DEF Turns, Places

-----------------------------------------------------------------------------
(* The steps that write post types. *)

LEMMA TypeWritten ==
  ASSUME NEW table, TypesTyped(table), NEW id \in Rows(table), NEW row \in PostType,
         row.slug = table[id].slug, table[id].deleted => row.deleted,
         NEW new, Writes(table, id, row, new)
  PROVE  TypesTyped(new) /\ \A t \in Rows(table) : t \in Rows(new)
<1>1. id \in TypeIds /\ table \in [TypeIds -> PostType \cup {None}]
  BY TypeRow DEF TypesTyped
<1>2. /\ new \in [TypeIds -> PostType \cup {None}] /\ new[id] = row
      /\ \A t \in TypeIds : t # id => new[t] = table[t]
  BY <1>1 DEF Writes
<1>3. \A t \in LiveRows(new) : t \in LiveRows(table) /\ new[t].slug = table[t].slug
  BY <1>1, <1>2 DEF LiveRows, Rows
<1>4. TypesTyped(new)
  BY <1>2, <1>3 DEF TypesTyped
<1>5. \A t \in Rows(table) : t \in Rows(new)
  BY <1>1, <1>2, ContentAssumption DEF Rows
<1> QED
  BY <1>4, <1>5

LEMMA SoftDeleteTypes ==
  ASSUME TypesTyped(types), Requested, NEW r \in Requests, SoftDelete(r)
  PROVE  TypesTyped(types') /\ TypesKept
<1> DEFINE id == my[r].id
           row == [types[id] EXCEPT !.deleted = TRUE]
<1>1. id \in Rows(types)
  BY DEF SoftDelete, Requested, Holds
<1>2. types[id] \in PostType
  BY <1>1, TypeRow
<1>3. row \in PostType /\ row.slug = types[id].slug /\ row.deleted
  BY <1>2 DEF PostType
<1>4. Writes(types, id, row, types')
  BY DEF SoftDelete, Writes
<1> HIDE DEF row, id
<1> QED
  BY <1>1, <1>3, <1>4, TypeWritten DEF TypesKept

LEMMA CreatePostTypeTypes ==
  ASSUME TypesTyped(types), NEW u, NEW name \in TypeNames, CreatePostType(u, name)
  PROVE  TypesTyped(types') /\ TypesKept
<1> DEFINE slug == UniqueSlug(name, Slugs(types))
           row == NewPostType(name, slug, FALSE)
<1>1. slug \notin Slugs(types) /\ slug \in Slug(TypeNames)
  BY UniqueSlugIsFree DEF CreatePostType
<1>2. Writes(types, FreeRow(types), row, types') /\ HasRoom(types)
  BY DEF CreatePostType, Writes
<1> HIDE DEF slug
<1>3. row \in PostType /\ row.slug = slug
  BY <1>1 DEF NewPostType, PostType
<1> HIDE DEF row
<1>4. row.slug \notin {types[id].slug : id \in LiveRows(types)}
  BY <1>1, <1>3 DEF Slugs
<1>5. TypesTyped(types') /\ \A id \in Rows(types) : types'[id] = types[id]
  BY <1>2, <1>3, <1>4, TypeMade
<1>6. DOMAIN types' = DOMAIN types
  BY <1>5 DEF TypesTyped
<1> QED
  BY <1>5, <1>6 DEF TypesKept, Rows

LEMMA UpdatePostTypeTypes ==
  ASSUME TypesTyped(types), NEW u, NEW id, NEW body \in TypeChanges,
         UpdatePostType(u, id, body)
  PROVE  TypesTyped(types') /\ TypesKept
<1> DEFINE was == types[id]
           one == [was EXCEPT !.name = Given(body.name, was.name)]
           two == [one EXCEPT !.isActive = Given(body.isActive, was.isActive)]
           row == [two EXCEPT !.version = was.version + 1]
<1>1. id \in Rows(types) /\ ~was.deleted
  BY DEF UpdatePostType, LiveRows
<1>2. was \in PostType
  BY <1>1, TypeRow
<1>3. body.name \in TypeNames \cup {None} /\ body.isActive \in BOOLEAN \cup {None}
  BY ContentAssumption DEF PostTypeBody
<1>4. Given(body.name, was.name) \in TypeNames
  BY <1>2, <1>3 DEF Given, PostType
<1>5. Given(body.isActive, was.isActive) \in BOOLEAN
  BY <1>2, <1>3, Zenon DEF Given, PostType
<1>6. Writes(types, id, row, types')
  BY <1>1, <1>2 DEF UpdatePostType, Writes, PostType
<1>7. one \in PostType /\ one.slug = was.slug
  BY <1>2, <1>4 DEF PostType
<1> HIDE DEF one
<1>8. two \in PostType /\ two.slug = was.slug
  BY <1>5, <1>7 DEF PostType
<1> HIDE DEF two
<1>9. was.version \in Nat
  BY <1>2 DEF PostType
<1>10. row \in PostType /\ row.slug = was.slug
  BY <1>8, <1>9 DEF PostType
<1> HIDE DEF row
<1> QED
  BY <1>1, <1>6, <1>10, TypeWritten DEF TypesKept

-----------------------------------------------------------------------------
(* The steps that write fields. *)

\* Who makes a field unique.
Makes(q, type, name) ==
  at[q] = "field" /\ my[q].unique /\ my[q].type = type /\ my[q].name = name

LEMMA UniqueFrom ==
  ASSUME \A f \in LiveRows(fields') :
           \/ ~fields'[f].unique
           \/ /\ f \in LiveRows(fields) /\ fields[f].unique
              /\ fields'[f].postTypeId = fields[f].postTypeId
              /\ fields'[f].name = fields[f].name
           \/ \E q \in Requests : Makes(q, fields'[f].postTypeId, fields'[f].name)
  PROVE  UniqueKept
<1> SUFFICES ASSUME NEW t \in TypeIds, NEW n \in UniqueNames(t)'
             PROVE  n \in Watched(t)
  BY DEF UniqueKept
<1>1. PICK f \in LiveRows(fields') :
        fields'[f].postTypeId = t /\ fields'[f].name = n /\ fields'[f].unique
  BY DEF UniqueNames, FindByPostType, FieldsOf
<1>2. CASE f \in LiveRows(fields) /\ fields[f].unique /\ fields[f].postTypeId = t
             /\ fields[f].name = n
  BY <1>2 DEF Watched, UniqueNames, FindByPostType, FieldsOf
<1>3. CASE \E q \in Requests : Makes(q, t, n)
  BY <1>3 DEF Watched, BeingUnique, Makes
<1> QED
  BY <1>1, <1>2, <1>3

FieldsFollow == FieldsTyped(fields') /\ FieldsKept /\ UniqueKept

LEMMA SameFieldsFollow == ASSUME FieldsTyped(fields), fields' = fields PROVE FieldsFollow
BY SameFields, SameUnique DEF FieldsFollow

\* A row that a field is changed to, of the same type and name, that is unique if it was.
LEMMA WrittenFollows ==
  ASSUME FieldsTyped(fields), NEW f \in Rows(fields), NEW row \in FieldDefinition,
         row.postTypeId = fields[f].postTypeId, row.name = fields[f].name,
         fields[f].deleted => row.deleted,
         ~row.deleted /\ row.unique =>
           \/ fields[f].unique
           \/ \E q \in Requests : Makes(q, row.postTypeId, row.name),
         Writes(fields, f, row, fields')
  PROVE  FieldsFollow
<1>1. FieldsTyped(fields')
  BY FieldWritten
<1>2. f \in FieldIds /\ DOMAIN fields = FieldIds /\ DOMAIN fields' = FieldIds
  BY <1>1, FieldRow DEF FieldsTyped
<1>3. fields'[f] = row /\ \A g \in FieldIds : g # f => fields'[g] = fields[g]
  BY <1>2 DEF Writes
<1>4. FieldsKept
  BY <1>2, <1>3, ContentAssumption DEF FieldsKept, Rows
<1>5. \A g \in LiveRows(fields') :
        g = f \/ (g # f /\ g \in LiveRows(fields) /\ fields'[g] = fields[g])
  BY <1>2, <1>3 DEF LiveRows, Rows
<1>6. f \in LiveRows(fields') => f \in LiveRows(fields) /\ ~row.deleted
  BY <1>2, <1>3 DEF LiveRows, Rows
<1>7. UniqueKept
  BY <1>3, <1>5, <1>6, UniqueFrom
<1> QED
  BY <1>1, <1>4, <1>7 DEF FieldsFollow

LEMMA WriteFieldFollows ==
  ASSUME FieldsTyped(fields), Requested, NEW r \in Requests, WriteField(r)
  PROVE  FieldsFollow
<1> DEFINE l == my[r]
           was == fields[l.id]
           row == Changed(NextVersion(was), l.changes)
<1>1. at[r] = "field" /\ l.op = "update field" /\ IsField(l)
  BY DEF WriteField, Requested, Holds
<1>2. /\ l.id \in Rows(fields) /\ l.type = was.postTypeId /\ l.name = was.name
      /\ IsFieldChange(l.changes) /\ l.unique = On(l.changes, "unique")
  BY <1>1 DEF IsField
<1>3. was \in FieldDefinition
  BY <1>2, FieldRow
<1>4. /\ row \in FieldDefinition
      /\ row.postTypeId = was.postTypeId /\ row.name = was.name /\ row.deleted = was.deleted
      /\ row.unique => was.unique \/ On(l.changes, "unique")
  BY <1>2, <1>3, ChangedField
<1>5. Writes(fields, l.id, row, fields')
  BY DEF WriteField, Writes
<1> HIDE DEF row
<1>6. row.unique => was.unique \/ Makes(r, row.postTypeId, row.name)
  BY <1>1, <1>2, <1>4 DEF Makes
<1> QED
  BY <1>2, <1>4, <1>5, <1>6, WrittenFollows

LEMMA RemoveFieldFollows ==
  ASSUME FieldsTyped(fields), NEW u, NEW f, RemoveField(u, f)
  PROVE  FieldsFollow
<1> DEFINE row == [fields[f] EXCEPT !.deleted = TRUE]
<1>1. f \in Rows(fields)
  BY DEF RemoveField, LiveRows
<1>2. fields[f] \in FieldDefinition
  BY <1>1, FieldRow
<1>3. /\ row \in FieldDefinition /\ row.deleted
      /\ row.postTypeId = fields[f].postTypeId /\ row.name = fields[f].name
  BY <1>2 DEF FieldDefinition
<1>4. Writes(fields, f, row, fields')
  BY DEF RemoveField, Writes
<1> HIDE DEF row
<1> QED
  BY <1>1, <1>3, <1>4, WrittenFollows

LEMMA ReorderFollows ==
  ASSUME FieldsTyped(fields), NEW u, NEW type, NEW order, ReorderFields(u, type, order),
         \A f \in DOMAIN order : order[f] \in Nat
  PROVE  FieldsFollow
<1>1. DOMAIN order \subseteq FieldsOf(type)
  BY DEF ReorderFields
<1>2. /\ DOMAIN fields' = FieldIds
      /\ \A f \in FieldIds : fields'[f] = IF f \in DOMAIN order
                                          THEN [fields[f] EXCEPT !.displayOrder = order[f]]
                                          ELSE fields[f]
  BY DEF ReorderFields
<1>3. DOMAIN fields = FieldIds
  BY DEF FieldsTyped
<1>4. ASSUME NEW f \in DOMAIN order
      PROVE  LET new == [fields[f] EXCEPT !.displayOrder = order[f]]
             IN  /\ new \in FieldDefinition
                 /\ new.postTypeId = fields[f].postTypeId /\ new.name = fields[f].name
                 /\ new.deleted = fields[f].deleted /\ new.unique = fields[f].unique
  <2>1. fields[f] \in FieldDefinition
    BY <1>1, FieldRow DEF FieldsOf, LiveRows
  <2> QED
    BY <2>1 DEF FieldDefinition
<1>5. ASSUME NEW f \in FieldIds
      PROVE  /\ fields[f] = None => fields'[f] = None
             /\ fields[f] # None =>
                  /\ fields'[f] \in FieldDefinition
                  /\ fields'[f].postTypeId = fields[f].postTypeId
                  /\ fields'[f].name = fields[f].name
                  /\ fields'[f].deleted = fields[f].deleted
                  /\ fields'[f].unique = fields[f].unique
  <2>1. CASE f \in DOMAIN order
    <3>1. fields[f] # None
      BY <1>1, <2>1 DEF FieldsOf, LiveRows, Rows
    <3> QED
      BY <1>2, <1>4, <2>1, <3>1
  <2>2. CASE f \notin DOMAIN order
    BY <1>2, <2>2 DEF FieldsTyped
  <2> QED
    BY <2>1, <2>2
<1>6. fields' \in [FieldIds -> FieldDefinition \cup {None}]
  <2>1. \A f \in FieldIds : fields'[f] \in FieldDefinition \cup {None}
    BY <1>5
  <2>2. fields' = [f \in FieldIds |-> fields'[f]]
    BY DEF ReorderFields
  <2> QED
    BY <2>1, <2>2
<1>7. \A f \in LiveRows(fields') : /\ f \in LiveRows(fields)
                                   /\ fields'[f].postTypeId = fields[f].postTypeId
                                   /\ fields'[f].name = fields[f].name
                                   /\ fields'[f].unique = fields[f].unique
  BY <1>2, <1>3, <1>5 DEF LiveRows, Rows
<1>8. FieldsTyped(fields')
  BY <1>6, <1>7 DEF FieldsTyped
<1>9. FieldsKept
  BY <1>2, <1>3, <1>5, ContentAssumption DEF FieldsKept, Rows
<1>10. UniqueKept
  BY <1>7, UniqueFrom
<1> QED
  BY <1>8, <1>9, <1>10 DEF FieldsFollow

\* Fields that are made, in rows that were free.
LEMMA AddedFollows ==
  ASSUME FieldsTyped(fields), FieldsTyped(fields'),
         \A f \in Rows(fields) : fields'[f] = fields[f],
         \A f \in LiveRows(fields') :
           \/ f \in LiveRows(fields) /\ fields'[f] = fields[f]
           \/ ~fields'[f].unique
           \/ \E q \in Requests : Makes(q, fields'[f].postTypeId, fields'[f].name)
  PROVE  FieldsFollow
<1>1. DOMAIN fields' = DOMAIN fields
  BY DEF FieldsTyped
<1>2. FieldsKept
  BY <1>1 DEF FieldsKept, Rows
<1>3. \A f \in LiveRows(fields') :
        \/ ~fields'[f].unique
        \/ /\ f \in LiveRows(fields) /\ fields[f].unique
           /\ fields'[f].postTypeId = fields[f].postTypeId
           /\ fields'[f].name = fields[f].name
        \/ \E q \in Requests : Makes(q, fields'[f].postTypeId, fields'[f].name)
  OBVIOUS
<1>4. UniqueKept
  BY <1>3, UniqueFrom
<1> QED
  BY <1>2, <1>4 DEF FieldsFollow

LEMMA InsertFieldFollows ==
  ASSUME FieldsTyped(fields), Requested, NEW r \in Requests, InsertField(r)
  PROVE  FieldsFollow
<1> DEFINE l == my[r]
           row == l.row
<1>1. at[r] = "field" /\ l.op = "create field" /\ IsField(l)
  BY DEF InsertField, Requested, Holds
<1>2. /\ row \in FieldDefinition /\ l.type = row.postTypeId /\ l.name = row.name
      /\ l.unique = row.unique
  BY <1>1 DEF IsField
<1>3. Writes(fields, FreeRow(fields), row, fields') /\ HasRoom(fields)
  BY DEF InsertField, Writes
<1>4. \A f \in LiveRows(fields) : fields[f].postTypeId = row.postTypeId => fields[f].name # row.name
  BY <1>2 DEF InsertField, FieldNameExists, FindByPostType, FieldsOf
<1>5. row.unique => Makes(r, row.postTypeId, row.name)
  BY <1>1, <1>2 DEF Makes
<1> HIDE DEF row
<1>6. /\ FieldsTyped(fields')
      /\ \A id \in Rows(fields) : fields'[id] = fields[id]
      /\ \A id \in LiveRows(fields') :
           \/ fields'[id] = row
           \/ id \in LiveRows(fields) /\ fields'[id] = fields[id]
  BY <1>2, <1>3, <1>4, FieldMade
<1> QED
  BY <1>5, <1>6, AddedFollows

LEMMA SeedFollows ==
  ASSUME TypesTyped(types), FieldsTyped(fields), Seed
  PROVE  TypesTyped(types') /\ TypesKept /\ FieldsFollow
<1>1. TypesTyped(types') /\ TypesKept
  BY SeedTypesKeeps DEF Seed, TypesKept
<1>2. /\ FieldsTyped(fields') /\ \A f \in Rows(fields) : fields'[f] = fields[f]
      /\ \A f \in LiveRows(fields') : \/ f \in LiveRows(fields) /\ fields'[f] = fields[f]
                                      \/ ~fields'[f].unique
  BY <1>1, SeedFieldsKeeps DEF Seed
<1>3. FieldsFollow
  BY <1>2, AddedFollows
<1> QED
  BY <1>1, <1>3

-----------------------------------------------------------------------------
(* The steps that write entries. *)

EntriesFollow == EntriesTyped(entries') /\ EntriesKept

OnlyRow(id, row) ==
  /\ DOMAIN entries = EntryIds /\ DOMAIN entries' = EntryIds
  /\ id \in EntryIds /\ entries'[id] = row
  /\ \A e \in EntryIds : e # id => entries'[e] = entries[e]

\* A row is written whose slug no other live entry of its type has.
LEMMA EntryWritten ==
  ASSUME EntriesTyped(entries), NEW id \in EntryIds, NEW row \in PostContent,
         Writes(entries, id, row, entries'),
         \A e \in LiveRows(entries) :
           e # id /\ entries[e].postTypeId = row.postTypeId /\ ~row.deleted
             => entries[e].slug # row.slug
  PROVE  EntriesTyped(entries') /\ OnlyRow(id, row)
<1>1. /\ entries' \in [EntryIds -> PostContent \cup {None}] /\ OnlyRow(id, row)
  BY DEF EntriesTyped, Writes, OnlyRow
<1>2. \A e \in LiveRows(entries') :
        \/ e = id /\ entries'[e] = row /\ ~row.deleted
        \/ e # id /\ e \in LiveRows(entries) /\ entries'[e] = entries[e]
  BY <1>1 DEF OnlyRow, LiveRows, Rows
<1>3. SlugsApart(entries')
  BY <1>2 DEF EntriesTyped, SlugsApart
<1> QED
  BY <1>1, <1>3 DEF EntriesTyped

\* Every other row is as it was.
LEMMA OtherRowsKept ==
  ASSUME EntriesTyped(entries), EntriesTyped(entries'), NEW id, NEW row \in PostContent,
         OnlyRow(id, row),
         id \in Rows(entries) => Later(entries[id], row)
  PROVE  EntriesKept
<1>1. \A e \in Rows(entries) : e \in EntryIds /\ entries[e].version \in Nat
  BY EntryRow DEF PostContent
<1>2. \A e \in Rows(entries) : e # id => e \in Rows(entries') /\ entries'[e] = entries[e]
  BY <1>1 DEF OnlyRow, Rows
<1>3. id \in Rows(entries) => id \in Rows(entries')
  BY ContentAssumption DEF OnlyRow, Rows
<1>4. \A e \in Rows(entries) : e # id => Later(entries[e], entries'[e])
  BY <1>1, <1>2 DEF Later
<1> QED
  BY <1>2, <1>3, <1>4 DEF EntriesKept, OnlyRow

LEMMA UncheckedNames ==
  ASSUME FieldsTyped(fields), Requested, NEW r
  PROVE  Unchecked(r) \subseteq FieldNames
<1>1. \A t : \A d \in FindByPostType(t) : d.name \in FieldNames
  BY FieldsOfType
<1>2. ASSUME NEW q \in Requests, at[q] = "field" PROVE my[q].name \in FieldNames
  <2>1. IsField(my[q])
    BY <1>2 DEF Requested, Holds
  <2>2. CASE my[q].op = "create field"
    BY <2>1, <2>2 DEF IsField, FieldDefinition
  <2>3. CASE my[q].op = "update field"
    <3>1. fields[my[q].id] \in FieldDefinition /\ my[q].name = fields[my[q].id].name
      BY <2>1, <2>3, FieldRow DEF IsField
    <3> QED
      BY <3>1 DEF FieldDefinition
  <2> QED
    BY <2>1, <2>2, <2>3 DEF IsField
<1>3. ASSUME NEW q \in Requests, at[q] = "save" PROVE my[q].checked \subseteq FieldNames
  BY <1>3 DEF Requested, Holds, IsEditing, IsWriting
<1> QED
  BY <1>1, <1>2, <1>3 DEF Unchecked

LEMMA UnsureTyped ==
  ASSUME unsure \in [EntryIds -> SUBSET FieldNames], NEW id, NEW names \in SUBSET FieldNames,
         unsure' = [unsure EXCEPT ![id] = names]
  PROVE  unsure' \in [EntryIds -> SUBSET FieldNames]
OBVIOUS

\* A request that saves an entry.
LEMMA Saving ==
  ASSUME Requested, NEW r \in Requests, at[r] = "save"
  PROVE  /\ my[r].entry \in PostContent /\ IsEditing("save", my[r])
         /\ my[r].checked \subseteq FieldNames
         /\ my[r].op = "create" => IsCreation(my[r])
         /\ my[r].op = "update" => IsEdit(my[r]) /\ ReadFrom(my[r])
<1>1. IsEditing("save", my[r])
  BY DEF Requested, Holds
<1> QED
  BY <1>1 DEF IsEditing, IsWriting, IsCreation, IsEdit

LEMMA InsertFollows ==
  ASSUME EntriesTyped(entries), Requested, NEW r \in Requests, Insert(r)
  PROVE  /\ EntriesFollow /\ OnlyRow(FreeRow(entries), my[r].entry)
         /\ FreeRow(entries) \in EntryIds /\ entries[FreeRow(entries)] = None
<1> DEFINE id == FreeRow(entries)
           row == my[r].entry
<1>1. DOMAIN entries = EntryIds /\ EntryIds \subseteq Nat
  BY ContentAssumption DEF EntriesTyped
<1>2. id \in EntryIds /\ entries[id] = None
  BY <1>1, FreeRowIsFree DEF Insert
<1>3. Writes(entries, id, row, entries')
  BY DEF Insert, Writes
<1>4. row \in PostContent
  BY Saving DEF Insert
<1>5. \A e \in LiveRows(entries) : e \in EntryIds /\ e # None
  BY <1>1, ContentAssumption DEF LiveRows, Rows
<1>6. \A e \in LiveRows(entries) :
        entries[e].postTypeId = row.postTypeId => entries[e].slug # row.slug
  BY <1>5 DEF Insert, SlugFree, EntriesOf
<1>7. id \notin Rows(entries)
  BY <1>2 DEF Rows
<1> HIDE DEF id, row
<1>8. EntriesTyped(entries') /\ OnlyRow(id, row)
  BY <1>2, <1>3, <1>4, <1>6, EntryWritten
<1>9. EntriesKept
  BY <1>4, <1>7, <1>8, OtherRowsKept
<1> QED
  BY <1>2, <1>8, <1>9 DEF EntriesFollow, id, row

\* The row that an update saves over: as it was read, unless a later version was named.
LEMMA SavedOver ==
  ASSUME EntriesTyped(entries), Requested, NEW r \in Requests, Save(r)
  PROVE  /\ Expected(r) \in Nat /\ entries[my[r].id].version = Expected(r)
         /\ my[r].id \in Rows(entries) /\ my[r].entry.version <= Expected(r)
         /\ ~Ahead(r) => AsRead(my[r], entries[my[r].id])
<1> DEFINE l == my[r]
<1>1. /\ l.op = "update" /\ IsEdit(l) /\ ReadFrom(l) /\ l.entry \in PostContent
      /\ IsEditing("save", l)
  BY Saving DEF Save
<1>2. /\ l.id \in Rows(entries) /\ entries[l.id].version = Expected(r)
      /\ l.entry.version <= entries[l.id].version
  BY <1>1 DEF Save, ReadFrom
<1>3. entries[l.id].version \in Nat /\ l.entry.version \in Nat
  BY <1>1, <1>2, EntryRow DEF PostContent
<1>4. ~Ahead(r) => entries[l.id].version = l.entry.version
  BY <1>2, <1>3 DEF Ahead
<1> QED
  BY <1>1, <1>2, <1>3, <1>4 DEF IsEditing

SavedEntry(entry, version) == [entry EXCEPT !.version = version]

LEMMA SavedRow ==
  ASSUME NEW entry \in PostContent, NEW version \in Nat,
         NEW row, row = SavedEntry(entry, version)
  PROVE  /\ row \in PostContent /\ row.version = version
         /\ row.postTypeId = entry.postTypeId /\ row.authorId = entry.authorId
         /\ row.slug = entry.slug /\ row.title = entry.title /\ row.status = entry.status
         /\ row.scheduledAt = entry.scheduledAt /\ row.data = entry.data
         /\ row.deleted = entry.deleted
BY DEF SavedEntry, PostContent

SavedBy(r) == SavedEntry(my[r].entry, Expected(r) + 1)

LEMMA SaveFollows ==
  ASSUME EntriesTyped(entries), Requested, NEW r \in Requests, Save(r)
  PROVE  EntriesFollow /\ OnlyRow(my[r].id, SavedBy(r))
<1> DEFINE id == my[r].id
           row == SavedBy(r)
<1>1. my[r].entry \in PostContent /\ ReadFrom(my[r])
  BY Saving DEF Save
<1>2. id \in Rows(entries) /\ id \in EntryIds /\ entries[id] \in PostContent
  BY <1>1, EntryRow DEF ReadFrom
<1>3. Expected(r) \in Nat /\ entries[id].version = Expected(r)
  BY SavedOver DEF Save
<1>4. /\ row \in PostContent /\ row.version = Expected(r) + 1
      /\ row.postTypeId = my[r].entry.postTypeId /\ row.authorId = my[r].entry.authorId
      /\ row.slug = my[r].entry.slug
  <2>1. PICK version \in Nat : version = Expected(r) + 1
    BY <1>3
  <2>2. row = SavedEntry(my[r].entry, version)
    BY <2>1 DEF SavedBy
  <2> HIDE DEF row
  <2> QED
    BY <1>1, <2>1, <2>2, SavedRow
<1>5. Writes(entries, id, row, entries')
  BY DEF Save, Writes, SavedBy, SavedEntry
<1>6. \A e \in LiveRows(entries) :
        e # id /\ entries[e].postTypeId = row.postTypeId => entries[e].slug # row.slug
  BY <1>4 DEF Save, SlugFree, EntriesOf
<1>7. Later(entries[id], row)
  BY <1>1, <1>3, <1>4 DEF Later, ReadFrom
<1> HIDE DEF row, id
<1>8. EntriesTyped(entries') /\ OnlyRow(id, row)
  BY <1>2, <1>4, <1>5, <1>6, EntryWritten
<1>9. EntriesKept
  BY <1>4, <1>7, <1>8, OtherRowsKept
<1> QED
  BY <1>8, <1>9 DEF EntriesFollow, id, row

-----------------------------------------------------------------------------
(* The other steps write a row with the values that it has. *)

\* A row after one of these.
Sequel(was, is) ==
  /\ is.slug = was.slug /\ is.data = was.data
  /\ was.deleted => is.deleted
  /\ Later(was, is)

LEMMA SequelFollows ==
  ASSUME EntriesTyped(entries), NEW id \in Rows(entries), NEW row \in PostContent,
         Writes(entries, id, row, entries'), Sequel(entries[id], row), unsure' = unsure
  PROVE  EntriesFollow /\ NoNewValues /\ OnlyRow(id, row)
<1>1. id \in EntryIds
  BY EntryRow
<1>2. \A e \in LiveRows(entries) :
        e # id /\ entries[e].postTypeId = row.postTypeId /\ ~row.deleted
          => entries[e].slug # row.slug
  <2>1. ~row.deleted => id \in LiveRows(entries)
    BY DEF Sequel, LiveRows
  <2> QED
    BY <2>1 DEF Sequel, Later, EntriesTyped, SlugsApart
<1>3. EntriesTyped(entries') /\ OnlyRow(id, row)
  BY <1>1, <1>2, EntryWritten
<1>4. EntriesKept
  BY <1>3, OtherRowsKept DEF Sequel
<1>5. NoNewValues
  BY <1>3 DEF NoNewValues, OnlyRow, LiveRows, Rows, Sequel, Later
<1> QED
  BY <1>3, <1>4, <1>5 DEF EntriesFollow

LEMMA PublishedRow ==
  ASSUME NEW was \in PostContent, NEW body,
         \/ body = [status |-> "published"]
         \/ \E date \in Dates : body = [status |-> "scheduled", scheduledAt |-> date],
         NEW row, row = Changed(NextVersion(was), body)
  PROVE  /\ row \in PostContent /\ row.status = body.status
         /\ row.version = was.version + 1 /\ row.deleted = was.deleted
         /\ row.postTypeId = was.postTypeId /\ row.authorId = was.authorId
         /\ row.slug = was.slug /\ row.data = was.data
<1> DEFINE e == NextVersion(was)
<1>1. /\ e \in PostContent /\ e.version = was.version + 1 /\ e.deleted = was.deleted
      /\ e.postTypeId = was.postTypeId /\ e.authorId = was.authorId
      /\ e.slug = was.slug /\ e.data = was.data
  BY DEF NextVersion, PostContent
<1> HIDE DEF e
<1>2. DOMAIN e = {"postTypeId", "authorId", "title", "slug", "data", "status", "scheduledAt",
                  "deleted", "version"}
  BY <1>1 DEF PostContent
<1>3. row = [c \in {"postTypeId", "authorId", "title", "slug", "data", "status",
                    "scheduledAt", "deleted", "version"} |->
               IF c \in DOMAIN body THEN body[c] ELSE e[c]]
  BY <1>2 DEF Changed, e
<1>4. /\ DOMAIN body \subseteq {"status", "scheduledAt"} /\ "status" \in DOMAIN body
      /\ body.status \in {"published", "scheduled"}
      /\ "scheduledAt" \in DOMAIN body => body.scheduledAt \in Dates
  OBVIOUS
<1>5. /\ row.postTypeId = e.postTypeId /\ row.authorId = e.authorId /\ row.title = e.title
      /\ row.slug = e.slug /\ row.data = e.data /\ row.deleted = e.deleted
      /\ row.version = e.version /\ row.status = body.status
  BY <1>3, <1>4
<1>6. row.scheduledAt \in 0..MaxNow \cup {None}
  <2>1. row.scheduledAt = e.scheduledAt \/ row.scheduledAt \in Dates
    BY <1>3, <1>4
  <2> QED
    BY <1>1, <2>1, ContentAssumption DEF PostContent
<1>7. row = [postTypeId |-> row.postTypeId, authorId |-> row.authorId, title |-> row.title,
             slug |-> row.slug, data |-> row.data, status |-> row.status,
             scheduledAt |-> row.scheduledAt, deleted |-> row.deleted,
             version |-> row.version]
  BY <1>3
<1>8. row.status \in ContentStatus
  BY <1>4, <1>5 DEF ContentStatus
<1>9. row \in PostContent
  BY <1>1, <1>5, <1>6, <1>7, <1>8 DEF PostContent
<1> QED
  BY <1>1, <1>5, <1>9

LEMMA StatusChangeFollows ==
  ASSUME EntriesTyped(entries), Requested, NEW r \in Requests, StatusChange(r)
  PROVE  /\ EntriesFollow /\ NoNewValues /\ IsPublishing(my[r])
         /\ \E row \in PostContent :
              OnlyRow(my[r].id, row) /\ Sequel(entries[my[r].id], row)
<1> DEFINE id == my[r].id
           was == entries[id]
           row == Changed(NextVersion(was), my[r].body)
<1>1. IsPublishing(my[r])
  BY DEF StatusChange, Requested, Holds
<1>2. id \in Rows(entries) /\ was \in PostContent
  BY <1>1, EntryRow DEF IsPublishing, ReadFrom
<1>3. Writes(entries, id, row, entries') /\ unsure' = unsure
  BY DEF StatusChange, Writes
<1>4. \/ my[r].body = [status |-> "published"]
      \/ \E date \in Dates : my[r].body = [status |-> "scheduled", scheduledAt |-> date]
  BY <1>1 DEF IsPublishing
<1>5. /\ row \in PostContent /\ row.version = was.version + 1 /\ row.deleted = was.deleted
      /\ row.postTypeId = was.postTypeId /\ row.authorId = was.authorId
      /\ row.slug = was.slug /\ row.data = was.data
  <2>1. PICK body : body = my[r].body
    OBVIOUS
  <2>2. /\ row = Changed(NextVersion(was), body)
        /\ \/ body = [status |-> "published"]
           \/ \E date \in Dates : body = [status |-> "scheduled", scheduledAt |-> date]
    BY <1>4, <2>1
  <2> HIDE DEF row, was, id
  <2> QED
    BY <1>2, <2>2, PublishedRow
<1>6. was.version \in Nat
  BY <1>2 DEF PostContent
<1> HIDE DEF row
<1>7. Sequel(was, row)
  BY <1>5, <1>6 DEF Sequel, Later
<1>8. EntriesFollow /\ NoNewValues /\ OnlyRow(id, row)
  BY <1>2, <1>3, <1>5, <1>7, SequelFollows
<1> QED
  BY <1>1, <1>5, <1>7, <1>8

DeletedEntry(was) == [was EXCEPT !.status = "deleted", !.deleted = TRUE]

LEMMA DeletedRow ==
  ASSUME NEW was \in PostContent, NEW row, row = DeletedEntry(was)
  PROVE  row \in PostContent /\ Sequel(was, row) /\ row.status = "deleted"
<1> DEFINE one == [was EXCEPT !.status = "deleted"]
<1>1. /\ one \in PostContent /\ one.version = was.version /\ one.data = was.data
      /\ one.postTypeId = was.postTypeId /\ one.authorId = was.authorId
      /\ one.slug = was.slug /\ one.status = "deleted"
  BY DEF PostContent, ContentStatus
<1>2. row = [one EXCEPT !.deleted = TRUE]
  BY DEF DeletedEntry, PostContent
<1> HIDE DEF one
<1>3. /\ row \in PostContent /\ row.version = one.version /\ row.data = one.data
      /\ row.postTypeId = one.postTypeId /\ row.authorId = one.authorId
      /\ row.slug = one.slug /\ row.status = one.status
  BY <1>1, <1>2 DEF PostContent
<1>4. row.deleted
  BY <1>1, <1>2, Zenon DEF PostContent
<1>5. was.version \in Nat
  BY DEF PostContent
<1> QED
  BY <1>1, <1>3, <1>4, <1>5 DEF Sequel, Later

LEMMA MarkDeletedFollows ==
  ASSUME EntriesTyped(entries), Requested, NEW r \in Requests, MarkDeleted(r)
  PROVE  /\ EntriesFollow /\ NoNewValues
         /\ \E row \in PostContent : OnlyRow(my[r].id, row) /\ row.status = "deleted"
<1> DEFINE id == my[r].id
           row == DeletedEntry(entries[id])
<1>1. id \in Rows(entries)
  BY DEF MarkDeleted, Requested, Holds
<1>2. entries[id] \in PostContent
  BY <1>1, EntryRow
<1>3. Writes(entries, id, row, entries') /\ unsure' = unsure
  BY DEF MarkDeleted, Writes, DeletedEntry
<1>4. row \in PostContent /\ Sequel(entries[id], row) /\ row.status = "deleted"
  BY <1>2, DeletedRow
<1> HIDE DEF row
<1>5. EntriesFollow /\ NoNewValues /\ OnlyRow(id, row)
  BY <1>1, <1>3, <1>4, SequelFollows
<1> QED
  BY <1>4, <1>5

LEMMA DueRow ==
  ASSUME NEW was \in PostContent, NEW row, row = Published(was)
  PROVE  /\ row \in PostContent /\ Sequel(was, row) /\ row.deleted = was.deleted
         /\ row.status = "published" /\ row.scheduledAt = was.scheduledAt
<1> DEFINE one == [was EXCEPT !.status = "published"]
<1>1. /\ one \in PostContent /\ one.version = was.version /\ one.data = was.data
      /\ one.postTypeId = was.postTypeId /\ one.authorId = was.authorId
      /\ one.slug = was.slug /\ one.status = "published" /\ one.deleted = was.deleted
      /\ one.scheduledAt = was.scheduledAt
  BY DEF PostContent, ContentStatus
<1>2. was.version \in Nat /\ row = [one EXCEPT !.version = was.version + 1]
  BY DEF Published, PostContent
<1> HIDE DEF one
<1>3. /\ row \in PostContent /\ row.version = was.version + 1 /\ row.data = one.data
      /\ row.postTypeId = one.postTypeId /\ row.authorId = one.authorId
      /\ row.slug = one.slug /\ row.status = one.status /\ row.deleted = one.deleted
      /\ row.scheduledAt = one.scheduledAt
  BY <1>1, <1>2 DEF PostContent
<1> QED
  BY <1>1, <1>2, <1>3 DEF Sequel, Later

LEMMA JobFollows ==
  ASSUME EntriesTyped(entries), PublishScheduledBefore
  PROVE  EntriesFollow /\ NoNewValues
<1>1. /\ entries' = [e \in EntryIds |-> IF e \in DueAt(now) THEN Published(entries[e])
                                                          ELSE entries[e]]
      /\ unsure' = unsure
  BY DEF PublishScheduledBefore
<1>2. ASSUME NEW e \in EntryIds, entries[e] # None
      PROVE  /\ entries'[e] \in PostContent /\ Sequel(entries[e], entries'[e])
             /\ entries'[e].deleted = entries[e].deleted
  <2>1. entries[e] \in PostContent /\ e \in Rows(entries)
    BY <1>2 DEF EntriesTyped, Rows
  <2>2. CASE e \in DueAt(now)
    BY <1>1, <2>1, <2>2, DueRow
  <2>3. CASE e \notin DueAt(now)
    <3>1. entries'[e] = entries[e] /\ entries[e].version \in Nat
      BY <1>1, <2>1, <2>3 DEF PostContent
    <3> QED
      BY <2>1, <3>1 DEF Sequel, Later
  <2> QED
    BY <2>2, <2>3
<1>3. ASSUME NEW e \in EntryIds, entries[e] = None PROVE entries'[e] = None
  BY <1>1, <1>3 DEF DueAt, LiveRows, Rows
<1>4. DOMAIN entries = EntryIds /\ DOMAIN entries' = EntryIds
  BY <1>1 DEF EntriesTyped
<1>5. entries' \in [EntryIds -> PostContent \cup {None}]
  <2>1. \A e \in EntryIds : entries'[e] \in PostContent \cup {None}
    BY <1>2, <1>3
  <2>2. entries' = [e \in EntryIds |-> entries'[e]]
    BY <1>1
  <2> QED
    BY <2>1, <2>2
<1>6. \A e \in LiveRows(entries') :
        e \in LiveRows(entries) /\ e \in EntryIds /\ Sequel(entries[e], entries'[e])
  BY <1>2, <1>3, <1>4 DEF LiveRows, Rows
<1>7. EntriesTyped(entries')
  BY <1>5, <1>6 DEF EntriesTyped, SlugsApart, Sequel, Later
<1>8. EntriesKept
  BY <1>2, <1>4, ContentAssumption DEF EntriesKept, Rows, Sequel
<1>9. NoNewValues
  BY <1>1, <1>6 DEF NoNewValues, Sequel, Later
<1> QED
  BY <1>7, <1>8, <1>9 DEF EntriesFollow

-----------------------------------------------------------------------------
(* The values of unique fields, where entries are checked and saved. *)

\* Fields of one name of one type are watched by all.
LEMMA WatchedUnchecked ==
  ASSUME NEW r, NEW t, my[r].entry.postTypeId = t
  PROVE  Watched(t) \subseteq Unchecked(r)
BY DEF Watched, UniqueNames, BeingUnique, Unchecked

\* An entry is saved: under the names it was not checked for, it may repeat a value.
LEMMA WriteKeepsValues ==
  ASSUME Requested, ValuesInv, EntriesTyped(entries), NEW r \in Requests, at[r] = "save",
         Leave(r), fields' = fields, NEW id, NEW row, OnlyRow(id, row),
         row.postTypeId = my[r].entry.postTypeId, row.data = my[r].entry.data,
         my[r].id = id \/ (my[r].id = None /\ id \notin Rows(entries)),
         unsure \in [EntryIds -> SUBSET FieldNames], NEW names,
         unsure' = [unsure EXCEPT ![id] = names],
         Unchecked(r) \ my[r].checked \subseteq names
  PROVE  ValuesInv'
<1> DEFINE l == my[r]
           type == l.entry.postTypeId
<1>1. /\ at'[r] = "idle" /\ my'[r] = Blank
      /\ \A q \in Requests \ {r} : at'[q] = at[q] /\ my'[q] = my[q]
  BY DEF Leave, Requested
<1>2. LocksHeld /\ \A q \in Requests : CheckHolds(q)
  BY DEF ValuesInv
<1>3. \A q \in Requests : at'[q] = "save" => q # r /\ at[q] = "save" /\ my'[q] = my[q]
  BY <1>1
<1>4. LocksHeld'
  BY <1>2, <1>3 DEF LocksHeld, Holding
<1>5. /\ id \in EntryIds /\ unsure'[id] = names
      /\ \A e \in EntryIds : e # id => entries'[e] = entries[e] /\ unsure'[e] = unsure[e]
      /\ entries'[id] = row
  BY DEF OnlyRow
<1>6. \A t : \A e \in EntriesOf(t)' :
        \/ e = id /\ t = type
        \/ e # id /\ e \in EntriesOf(t) /\ e \in EntryIds
  BY <1>5 DEF EntriesOf, LiveRows, Rows, OnlyRow
<1>7. ASSUME NEW q \in Requests PROVE CheckHolds(q)'
  <2> SUFFICES ASSUME at'[q] = "save", NEW n \in my'[q].checked,
                      NEW e \in Having(my[q].entry.postTypeId, n, my[q].entry.data[n])',
                      e # my[q].id
               PROVE  n \in unsure'[e]
    BY <1>3, Zenon DEF CheckHolds, Having, EntriesOf
  <2>1. /\ q # r /\ at[q] = "save" /\ n \in my[q].checked
        /\ e \in EntriesOf(my[q].entry.postTypeId)'
        /\ n \in DOMAIN entries'[e].data /\ entries'[e].data[n] = my[q].entry.data[n]
    BY <1>3, Zenon DEF Having
  <2>2. CASE e # id
    <3>1. e \in Having(my[q].entry.postTypeId, n, my[q].entry.data[n])
      BY <1>3, <1>5, <1>6, <2>1, <2>2 DEF Having
    <3> QED
      BY <1>2, <1>5, <1>6, <2>1, <2>2, <3>1 DEF CheckHolds, Having
  <2>3. CASE e = id
    <3>1. my[q].entry.postTypeId = type
      BY <1>3, <1>6, <2>1, <2>3
    <3>2. l.checked = {}
      BY <1>2, <2>1, <3>1 DEF LocksHeld, Holding
    <3>3. n \in Unchecked(r)
      BY <2>1 DEF Unchecked
    <3> QED
      BY <1>5, <2>3, <3>2, <3>3
  <2> QED
    BY <2>2, <2>3
<1>8. ASSUME NEW t \in TypeIds, NEW n \in Watched(t)' PROVE Apart(t, n)'
  <2>1. n \in Watched(t)
    BY <1>1 DEF Watched, UniqueNames, FindByPostType, FieldsOf, LiveRows, Rows, BeingUnique
  <2>2. Apart(t, n)
    BY <2>1 DEF ValuesInv, WatchedApart
  <2>3. ASSUME NEW f \in EntriesOf(t)', f # id, id \in EntriesOf(t)',
               n \in DOMAIN row.data \cap DOMAIN entries'[f].data,
               row.data[n] = entries'[f].data[n]
        PROVE  n \in unsure'[id] \cup unsure'[f]
    <3>1. t = type /\ f \in EntriesOf(t) /\ f \in EntryIds /\ entries'[f] = entries[f]
          /\ unsure'[f] = unsure[f]
      BY <1>5, <1>6, <2>3
    <3>2. CASE n \in l.checked
      <4>1. f \in Having(type, n, l.entry.data[n])
        BY <2>3, <3>1 DEF Having
      <4>2. f # l.id
        BY <2>3, <3>1, ContentAssumption
      <4>3. n \in unsure[f]
        BY <1>2, <3>2, <4>1, <4>2 DEF CheckHolds
      <4> QED
        BY <3>1, <4>3
    <3>3. CASE n \notin l.checked
      BY <1>5, <2>1, <3>1, <3>3, WatchedUnchecked
    <3> QED
      BY <3>2, <3>3
  <2> SUFFICES ASSUME NEW e \in EntriesOf(t)', NEW f \in EntriesOf(t)', e # f,
                      n \in DOMAIN entries'[e].data \cap DOMAIN entries'[f].data,
                      ~IsEmpty(entries'[e].data[n]), entries'[e].data[n] = entries'[f].data[n]
               PROVE  n \in unsure'[e] \cup unsure'[f]
    BY DEF Apart
  <2>4. CASE e = id
    BY <1>5, <2>3, <2>4
  <2>5. CASE f = id
    BY <1>5, <2>3, <2>5
  <2>6. CASE e # id /\ f # id
    BY <1>5, <1>6, <2>2, <2>6 DEF Apart
  <2> QED
    BY <2>4, <2>5, <2>6
<1> QED
  BY <1>4, <1>7, <1>8 DEF ValuesInv, WatchedApart

\* The lock is free, and no entry has the values that are checked.
LEMMA CheckKeepsValues ==
  ASSUME Requested, ValuesInv, NEW r \in Requests, Check(r),
         UNCHANGED <<fields, entries, unsure>>
  PROVE  ValuesInv'
<1>1. /\ at[r] = "check" /\ my' = my /\ at'[r] = "save"
      /\ \A q \in Requests \ {r} : at'[q] = at[q]
  BY DEF Check, Go, Requested
<1>2. LocksHeld /\ \A q \in Requests : CheckHolds(q)
  BY DEF ValuesInv
<1>3. LocksHeld'
  <2>1. my[r].checked # {} =>
          \A q \in Requests : ~(Holding(q) /\ my[q].entry.postTypeId = my[r].entry.postTypeId)
    BY DEF Check, LockFree, Holding
  <2>2. \A q \in Requests : Holding(q)' => Holding(q) \/ (q = r /\ my[r].checked # {})
    BY <1>1 DEF Holding
  <2> QED
    BY <1>1, <1>2, <2>1, <2>2 DEF LocksHeld
<1>4. ASSUME NEW q \in Requests PROVE CheckHolds(q)'
  <2>1. \A t, n, value : Having(t, n, value)' = Having(t, n, value)
    BY DEF Having, EntriesOf, LiveRows, Rows
  <2>2. CASE q = r
    <3>1. \A n \in my[r].checked :
            Having(my[r].entry.postTypeId, n, my[r].entry.data[n]) \ {my[r].id} = {}
      BY DEF Check, Conflicts
    <3> QED
      BY <1>1, <2>1, <2>2, <3>1 DEF CheckHolds
  <2>3. CASE q # r
    BY <1>1, <1>2, <2>1, <2>3 DEF CheckHolds
  <2> QED
    BY <2>2, <2>3
<1>5. WatchedApart'
  <2>1. \A t : Watched(t)' \subseteq Watched(t)
    BY <1>1 DEF Watched, UniqueNames, FindByPostType, FieldsOf, LiveRows, Rows, BeingUnique
  <2>2. \A t, n : Apart(t, n) => Apart(t, n)'
    BY DEF Apart, EntriesOf, LiveRows, Rows
  <2> QED
    BY <2>1, <2>2 DEF ValuesInv, WatchedApart
<1> QED
  BY <1>3, <1>4, <1>5 DEF ValuesInv

-----------------------------------------------------------------------------
(* The initial states. *)

LEMMA SeededTypeHas ==
  ASSUME NEW table, TypesTyped(table), NEW name \in TypeNames, NEW isSystem \in BOOLEAN,
         IsSeeded(table, name) \/ HasRoom(table)
  PROVE  IsSeeded(SeededType(table, name, isSystem), name)
<1> DEFINE place == FreeRow(table)
           row == NewPostType(name, <<name, 1>>, isSystem)
           new == SeededType(table, name, isSystem)
<1>1. CASE IsSeeded(table, name)
  BY <1>1 DEF SeededType
<1>2. CASE ~IsSeeded(table, name) /\ HasRoom(table)
  <2>1. DOMAIN table = TypeIds /\ TypeIds \subseteq Nat
    BY ContentAssumption DEF TypesTyped
  <2>2. place \in TypeIds
    BY <1>2, <2>1, FreeRowIsFree
  <2>3. new = [table EXCEPT ![place] = row]
    BY <1>2 DEF SeededType
  <2>4. row \in PostType /\ row.slug = <<name, 1>> /\ ~row.deleted
    BY DEF NewPostType, PostType, Slug
  <2> HIDE DEF place, row, new
  <2>5. place \in DOMAIN new /\ new[place] = row
    BY <2>1, <2>2, <2>3
  <2>6. place \in LiveRows(new)
    BY <2>4, <2>5, ContentAssumption DEF LiveRows, Rows
  <2>7. IsSeeded(new, name)
    BY <2>4, <2>5, <2>6 DEF IsSeeded
  <2> QED
    BY <2>7 DEF new
<1> QED
  BY <1>1, <1>2

NoTypes == [id \in TypeIds |-> None]
NoFields == [f \in FieldIds |-> None]

\* There is room for both types.
LEMMA SeededAtFirst ==
  /\ TypesTyped(SeedTypes(NoTypes))
  /\ IsSeeded(SeedTypes(NoTypes), "Story") /\ IsSeeded(SeedTypes(NoTypes), "Event")
<1> DEFINE one == SeededType(NoTypes, "Story", TRUE)
           two == SeededType(one, "Event", FALSE)
<1>1. "Story" \in TypeNames /\ "Event" \in TypeNames /\ \E s, t \in TypeIds : s # t
  BY ContentAssumption
<1>2. TypesTyped(NoTypes) /\ Rows(NoTypes) = {} /\ DOMAIN NoTypes = TypeIds
  BY DEF NoTypes, TypesTyped, LiveRows, Rows
<1>3. HasRoom(NoTypes)
  BY <1>1, <1>2 DEF HasRoom
<1>4. TypesTyped(one) /\ IsSeeded(one, "Story")
  BY <1>1, <1>2, <1>3, SeededTypeKeeps, SeededTypeHas
<1>5. HasRoom(one)
  <2>1. one = NoTypes \/ \E row : one = [NoTypes EXCEPT ![FreeRow(NoTypes)] = row]
    BY DEF SeededType
  <2> HIDE DEF one
  <2>2. \A id \in TypeIds : id # FreeRow(NoTypes) => one[id] = None
    BY <1>2, <2>1 DEF NoTypes
  <2>3. DOMAIN one = TypeIds
    BY <1>4 DEF TypesTyped
  <2> QED
    BY <1>1, <2>2, <2>3 DEF HasRoom, Rows
<1> HIDE DEF one
<1>6. TypesTyped(two) /\ IsSeeded(two, "Event") /\ \A id \in Rows(one) : two[id] = one[id]
  BY <1>1, <1>4, <1>5, SeededTypeKeeps, SeededTypeHas
<1> HIDE DEF two
<1>7. IsSeeded(two, "Story")
  <2>1. DOMAIN one = TypeIds /\ DOMAIN two = TypeIds
    BY <1>4, <1>6 DEF TypesTyped
  <2>2. \A id \in LiveRows(one) : id \in LiveRows(two) /\ two[id] = one[id]
    BY <1>6, <2>1 DEF LiveRows, Rows
  <2> QED
    BY <1>4, <2>2 DEF IsSeeded
<1> QED
  BY <1>6, <1>7 DEF one, two, SeedTypes

LEMMA MadeUniqueFields ==
  ASSUME NEW table, FieldsTyped(table), NEW names, NEW new, new = MadeUnique(table, names)
  PROVE  /\ FieldsTyped(new)
         /\ \A f \in LiveRows(new) :
              new[f].unique => new[f].name \in names \/ (f \in LiveRows(table) /\ table[f].unique)
<1>1. DOMAIN table = FieldIds /\ table \in [FieldIds -> FieldDefinition \cup {None}]
  BY DEF FieldsTyped
<1>2. new = [f \in FieldIds |-> IF table[f] # None /\ table[f].name \in names
                                THEN [table[f] EXCEPT !.unique = TRUE] ELSE table[f]]
  BY <1>1 DEF MadeUnique
<1>3. ASSUME NEW f \in FieldIds
      PROVE  \/ new[f] = table[f]
             \/ /\ table[f] # None /\ new[f] \in FieldDefinition
                /\ new[f].postTypeId = table[f].postTypeId /\ new[f].name = table[f].name
                /\ new[f].deleted = table[f].deleted /\ new[f].name \in names
  <2>1. CASE table[f] # None /\ table[f].name \in names
    <3>1. table[f] \in FieldDefinition /\ new[f] = [table[f] EXCEPT !.unique = TRUE]
      BY <1>1, <1>2, <2>1
    <3> QED
      BY <2>1, <3>1 DEF FieldDefinition
  <2>2. CASE ~(table[f] # None /\ table[f].name \in names)
    BY <1>2, <2>2
  <2> QED
    BY <2>1, <2>2
<1>4. new \in [FieldIds -> FieldDefinition \cup {None}]
  <2>1. \A f \in FieldIds : new[f] \in FieldDefinition \cup {None}
    BY <1>1, <1>3
  <2>2. new = [f \in FieldIds |-> new[f]]
    BY <1>2
  <2> QED
    BY <2>1, <2>2
<1>5. \A f \in LiveRows(new) :
        /\ f \in LiveRows(table) /\ f \in FieldIds
        /\ new[f].postTypeId = table[f].postTypeId /\ new[f].name = table[f].name
        /\ new[f] = table[f] \/ new[f].name \in names
  BY <1>1, <1>3, <1>4 DEF LiveRows, Rows
<1>6. FieldsTyped(new)
  BY <1>4, <1>5 DEF FieldsTyped
<1> QED
  BY <1>5, <1>6

LEMMA InitInvariant == Init => IInv
<1> SUFFICES ASSUME Init PROVE IInv
  OBVIOUS
<1>1. types = SeedTypes(NoTypes)
  BY DEF Init, NoTypes
<1>2. TypesTyped(types) /\ IsSeeded(types, "Story") /\ IsSeeded(types, "Event")
  BY <1>1, SeededAtFirst
<1>3. FieldsTyped(NoFields) /\ Rows(NoFields) = {}
  BY DEF NoFields, FieldsTyped, LiveRows, Rows
<1>4. PICK names \in SUBSET FirstUnique :
        /\ \A n \in names, type \in TypeIds : ~HasDuplicateValues(type, n)
        /\ fields = MadeUnique(SeedFields(NoFields, types), names)
  BY DEF Init, NoFields
<1>5. /\ FieldsTyped(SeedFields(NoFields, types))
      /\ \A f \in LiveRows(SeedFields(NoFields, types)) : ~SeedFields(NoFields, types)[f].unique
  BY <1>2, <1>3, SeedFieldsKeeps DEF LiveRows
<1>6. /\ FieldsTyped(fields)
      /\ \A f \in LiveRows(fields) : fields[f].unique => fields[f].name \in names
  BY <1>4, <1>5, MadeUniqueFields
<1>7. EntriesTyped(entries)
  BY ContentAssumption DEF Init, EntriesTyped
<1>8. /\ now \in 0..MaxNow /\ served \in 0..MaxServed
      /\ unsure \in [EntryIds -> SUBSET FieldNames]
  BY ContentAssumption DEF Init
<1>9. TypeOK
  BY <1>2, <1>6, <1>7, <1>8, Typed
<1>10. Requested
  <2>1. /\ at = [r \in Requests |-> "idle"] /\ my = [r \in Requests |-> Blank]
    BY DEF Init
  <2>2. Holds("idle", Blank)
    BY DEF Holds
  <2> QED
    BY <2>1, <2>2 DEF Requested, Places
<1>11. ValuesInv
  <2>1. \A r \in Requests : at[r] = "idle"
    BY DEF Init
  <2>2. ASSUME NEW t \in TypeIds, NEW n \in Watched(t) PROVE Apart(t, n)
    <3>1. n \in names
      BY <1>6, <2>1 DEF Watched, UniqueNames, BeingUnique, FindByPostType, FieldsOf
    <3> QED
      BY <1>4, <1>7, <3>1, NoDuplicatesApart
  <2> QED
    BY <2>1, <2>2 DEF ValuesInv, LocksHeld, Holding, CheckHolds, WatchedApart
<1> QED
  BY <1>9, <1>10, <1>11 DEF IInv

-----------------------------------------------------------------------------
(* Every step. *)

LEMMA Parts ==
  ASSUME IInv
  PROVE  /\ TypesTyped(types) /\ FieldsTyped(fields) /\ EntriesTyped(entries)
         /\ now \in 0..MaxNow /\ served \in 0..MaxServed
         /\ unsure \in [EntryIds -> SUBSET FieldNames]
         /\ Requested /\ ValuesInv
BY Typed DEF IInv

\* now and served stay within their bounds.
Counted == now' \in 0..MaxNow /\ served' \in 0..MaxServed

LEMMA CountedServed ==
  ASSUME IInv, now' = now,
         served' = served \/ (served' = served + 1 /\ served < MaxServed)
  PROVE  Counted
<1>1. now \in 0..MaxNow /\ served \in 0..MaxServed /\ MaxServed \in Nat
  BY Parts, ContentAssumption
<1> QED
  BY <1>1 DEF Counted

TypesFollow == TypesTyped(types') /\ TypesKept

LEMMA SameTypesFollow == ASSUME TypesTyped(types), types' = types PROVE TypesFollow
BY SameTypes DEF TypesFollow

LEMMA SameEntriesFollow ==
  ASSUME EntriesTyped(entries), UNCHANGED <<entries, unsure>>
  PROVE  EntriesFollow /\ NoNewValues
BY SameEntries, SameValues DEF EntriesFollow

LEMMA TurnStep ==
  ASSUME IInv, Counted, TypesFollow, FieldsFollow, EntriesFollow, NoNewValues,
         NEW r \in Requests, Turns(r)
  PROVE  IInv'
<1>1. PICK place \in Places : \E l : Turn(r, place, l) /\ Holds(place, l) /\ Quiet(place, l)
  BY DEF Turns
<1>2. PICK l : Turn(r, place, l) /\ Holds(place, l) /\ Quiet(place, l)
  BY <1>1
<1>3. Requested'
  BY <1>2, Parts, TurnKeepsRequested DEF TypesFollow, FieldsFollow, EntriesFollow
<1>4. ValuesInv'
  BY <1>2, Parts, TurnKeepsValues DEF FieldsFollow
<1>5. TypeOK'
  BY Parts, TypedNext DEF TypesFollow, FieldsFollow, EntriesFollow, Counted, NoNewValues
<1> QED
  BY <1>3, <1>4, <1>5 DEF IInv

LEMMA SameStep ==
  ASSUME IInv, Counted, TypesFollow, FieldsFollow, EntriesFollow, NoNewValues,
         UNCHANGED <<at, my>>
  PROVE  IInv'
<1>1. Requested'
  BY Parts, SameRequested DEF TypesFollow, FieldsFollow, EntriesFollow
<1>2. ValuesInv'
  BY Parts, SameKeepsValues DEF FieldsFollow
<1>3. TypeOK'
  BY Parts, TypedNext DEF TypesFollow, FieldsFollow, EntriesFollow, Counted, NoNewValues
<1> QED
  BY <1>1, <1>2, <1>3 DEF IInv

LEMMA BeginStep ==
  ASSUME IInv, NEW r \in Requests, NEW u \in Users, Begin(r, u), now' = now
  PROVE  IInv'
<1>1. Turns(r) /\ served' = served + 1 /\ served < MaxServed
  BY Parts, BeginTurns
<1>2. UNCHANGED <<types, fields, entries, unsure>>
  BY DEF Begin
<1> QED
  BY <1>1, <1>2, Parts, CountedServed, SameTypesFollow, SameFieldsFollow, SameEntriesFollow,
     TurnStep

\* Steps that write no row.
LEMMA TurnOnly ==
  ASSUME IInv, NEW r \in Requests, Turns(r), now' = now,
         served' = served \/ (served' = served + 1 /\ served < MaxServed),
         UNCHANGED <<types, fields, entries, unsure>>
  PROVE  IInv'
BY Parts, CountedServed, SameTypesFollow, SameFieldsFollow, SameEntriesFollow, TurnStep

LEMMA CheckStep ==
  ASSUME IInv, NEW r \in Requests, Check(r), now' = now,
         UNCHANGED <<types, fields, entries, unsure, served>>
  PROVE  IInv'
<1>1. Turn(r, "save", my[r]) /\ Holds("save", my[r])
  BY Parts, CheckTurns
<1>2. TypesFollow /\ FieldsFollow /\ EntriesFollow
  BY Parts, SameTypesFollow, SameFieldsFollow, SameEntriesFollow
<1>3. Requested'
  <2>1. PICK l : l = my[r]
    OBVIOUS
  <2>2. Turn(r, "save", l) /\ Holds("save", l) /\ "save" \in Places
    BY <1>1, <2>1 DEF Places
  <2> QED
    BY <1>2, <2>2, Parts, TurnKeepsRequested DEF TypesFollow, FieldsFollow, EntriesFollow
<1>4. ValuesInv'
  BY Parts, CheckKeepsValues
<1>5. TypeOK'
  BY <1>2, Parts, TypedNext DEF TypesFollow, FieldsFollow, EntriesFollow
<1> QED
  BY <1>3, <1>4, <1>5 DEF IInv

\* A request that leaves.
LEMMA LeavesRequested ==
  ASSUME IInv, TypesFollow, FieldsFollow, EntriesFollow, NEW r \in Requests, Leave(r)
  PROVE  Requested'
<1>1. PICK l : l = Blank
  OBVIOUS
<1>2. Turn(r, "idle", l) /\ Holds("idle", l) /\ "idle" \in Places
  BY <1>1 DEF Leave, Turn, Holds, Places
<1> QED
  BY <1>2, Parts, TurnKeepsRequested DEF TypesFollow, FieldsFollow, EntriesFollow

LEMMA InsertStep ==
  ASSUME IInv, NEW r \in Requests, Insert(r), UNCHANGED <<types, fields, served, now>>
  PROVE  IInv'
<1> DEFINE id == FreeRow(entries)
           names == Unchecked(r) \ my[r].checked
<1>1. /\ EntriesFollow /\ OnlyRow(id, my[r].entry)
      /\ id \in EntryIds /\ entries[id] = None
  BY Parts, InsertFollows
<1>2. /\ at[r] = "save" /\ Leave(r) /\ unsure' = [unsure EXCEPT ![id] = names]
  BY DEF Insert
<1>3. TypesFollow /\ FieldsFollow
  BY Parts, SameTypesFollow, SameFieldsFollow
<1>4. Requested'
  BY <1>1, <1>2, <1>3, LeavesRequested
<1>5. names \in SUBSET FieldNames
  BY Parts, UncheckedNames
<1>6. my[r].id = None /\ id \notin Rows(entries)
  BY <1>1, Parts, Saving DEF Insert, IsCreation, Rows
<1> HIDE DEF id
<1>7. unsure' \in [EntryIds -> SUBSET FieldNames]
  BY <1>2, <1>5, Parts, UnsureTyped
<1>8. ValuesInv'
  BY <1>1, <1>2, <1>6, Parts, WriteKeepsValues
<1>9. TypeOK'
  BY <1>1, <1>3, <1>7, Parts, TypedNext DEF TypesFollow, FieldsFollow, EntriesFollow
<1> QED
  BY <1>4, <1>8, <1>9 DEF IInv

LEMMA SaveStep ==
  ASSUME IInv, NEW r \in Requests, Save(r), UNCHANGED <<types, fields, served, now>>
  PROVE  IInv'
<1> DEFINE l == my[r]
           id == l.id
           was == IF entries[id].deleted THEN FieldNames ELSE unsure[id]
           new == IF l.body.data = None /\ ~Ahead(r) THEN {} ELSE Unchecked(r)
           names == (was \cup new) \ l.checked
<1>1. EntriesFollow /\ OnlyRow(id, SavedBy(r))
  BY Parts, SaveFollows
<1>2. at[r] = "save" /\ Leave(r) /\ unsure' = [unsure EXCEPT ![id] = names]
  BY DEF Save
<1>3. TypesFollow /\ FieldsFollow
  BY Parts, SameTypesFollow, SameFieldsFollow
<1>4. Requested'
  BY <1>1, <1>2, <1>3, LeavesRequested
<1>5. Unchecked(r) \in SUBSET FieldNames
  BY Parts, UncheckedNames
<1>6. names \in SUBSET FieldNames
  <2>1. unsure[id] \in SUBSET FieldNames
    BY <1>1, Parts DEF OnlyRow
  <2> QED
    BY <1>5, <2>1
<1>7. unsure' \in [EntryIds -> SUBSET FieldNames]
  <2> HIDE DEF id, names
  <2> QED
    BY <1>2, <1>6, Parts, UnsureTyped
<1>8. /\ l.entry \in PostContent /\ IsEditing("save", l)
      /\ Expected(r) \in Nat /\ id \in Rows(entries) /\ ReadFrom(l)
      /\ ~Ahead(r) => AsRead(l, entries[id])
  BY Parts, Saving, SavedOver DEF Save
<1>9. /\ SavedBy(r).postTypeId = l.entry.postTypeId /\ SavedBy(r).data = l.entry.data
      /\ SavedBy(r).deleted = l.entry.deleted
  <2>1. PICK version \in Nat : version = Expected(r) + 1
    BY <1>8
  <2>2. SavedBy(r) = SavedEntry(l.entry, version)
    BY <2>1 DEF SavedBy
  <2> QED
    BY <1>8, <2>2, SavedRow
<1>10. ValuesInv'
  <2>1. CASE l.body.data # None \/ Ahead(r) \/ entries[id].deleted
    <3>1. Unchecked(r) \ l.checked \subseteq names
      BY <1>5, <2>1
    <3> HIDE DEF names
    <3>2. fields' = fields
      OBVIOUS
    <3> QED
      BY <1>1, <1>2, <1>9, <3>1, <3>2, Parts, WriteKeepsValues
  <2>2. CASE l.body.data = None /\ ~Ahead(r) /\ ~entries[id].deleted
    <3>1. l.checked = {} /\ l.entry.data = entries[id].data
      BY <1>8, <2>2 DEF IsEditing, AsRead
    <3>2. names = unsure[id]
      BY <2>2, <3>1
    <3>3. unsure' = unsure
      BY <1>2, <3>2, Parts
    <3>4. id \in LiveRows(entries)
      BY <1>8, <2>2 DEF LiveRows
    <3>5. NoNewValues
      BY <1>1, <1>8, <1>9, <3>1, <3>3, <3>4 DEF NoNewValues, OnlyRow, LiveRows, Rows, ReadFrom
    <3>6. PICK k : k = Blank
      OBVIOUS
    <3>7. Turn(r, "idle", k) /\ Quiet("idle", k) /\ "idle" \in Places
      BY <1>2, <3>6 DEF Leave, Turn, Quiet, Places
    <3> QED
      BY <1>3, <3>5, <3>7, Parts, TurnKeepsValues DEF FieldsFollow
  <2> QED
    BY <2>1, <2>2
<1>11. TypeOK'
  BY <1>1, <1>3, <1>7, Parts, TypedNext DEF TypesFollow, FieldsFollow, EntriesFollow
<1> QED
  BY <1>4, <1>10, <1>11 DEF IInv

LEMMA ContinueStep ==
  ASSUME IInv, NEW r \in Requests, Continue(r), now' = now
  PROVE  IInv'
<1>1. CASE ReadFields(r) /\ UNCHANGED <<types, fields, entries, unsure, served>>
  BY <1>1, Parts, ReadFieldsTurns, TurnOnly
<1>2. CASE Check(r) /\ UNCHANGED <<types, fields, entries, unsure, served>>
  BY <1>2, CheckStep
<1>3. CASE Insert(r) /\ UNCHANGED <<types, fields, served>>
  BY <1>3, InsertStep
<1>4. CASE Save(r) /\ UNCHANGED <<types, fields, served>>
  BY <1>4, SaveStep
<1>5. CASE StatusChange(r) /\ UNCHANGED <<types, fields, served>>
  <2>1. EntriesFollow /\ NoNewValues
    BY <1>5, Parts, StatusChangeFollows
  <2>2. Turns(r)
    BY <1>5, LeaveTurns DEF StatusChange
  <2> QED
    BY <1>5, <2>1, <2>2, Parts, CountedServed, SameTypesFollow, SameFieldsFollow, TurnStep
<1>6. CASE MarkDeleted(r) /\ UNCHANGED <<types, fields, served>>
  <2>1. EntriesFollow /\ NoNewValues
    BY <1>6, Parts, MarkDeletedFollows
  <2>2. Turns(r)
    BY <1>6, LeaveTurns DEF MarkDeleted
  <2> QED
    BY <1>6, <2>1, <2>2, Parts, CountedServed, SameTypesFollow, SameFieldsFollow, TurnStep
<1> QED
  BY <1>1, <1>2, <1>3, <1>4, <1>5, <1>6 DEF Continue

LEMMA ChangeFieldsStep ==
  ASSUME IInv, NEW r \in Requests, NEW u \in Users, ChangeFields(r, u),
         UNCHANGED <<entries, now, unsure>>
  PROVE  IInv'
<1>1. EntriesFollow /\ NoNewValues
  BY Parts, SameEntriesFollow
<1>2. ASSUME NEW type \in TypeIds, NEW def \in NewFields,
             CreateField(r, u, type, def, HasDuplicateValues(type, def.name))
      PROVE  IInv'
  <2>1. Turns(r)
    BY <1>2, Parts, CreateFieldTurns
  <2>2. UNCHANGED <<types, fields>> /\ served' = served + 1 /\ served < MaxServed
    BY <1>2 DEF CreateField, Start, MayStart
  <2> QED
    BY <2>1, <2>2, TurnOnly
<1>3. ASSUME NEW f \in Rows(fields), NEW changes \in FieldChanges, NEW version,
             UpdateField(r, u, f, changes, version,
                         HasDuplicateValues(fields[f].postTypeId, fields[f].name))
      PROVE  IInv'
  <2>1. Turns(r)
    BY <1>3, Parts, UpdateFieldTurns
  <2>2. UNCHANGED <<types, fields>> /\ served' = served + 1 /\ served < MaxServed
    BY <1>3 DEF UpdateField, Start, MayStart
  <2> QED
    BY <2>1, <2>2, TurnOnly
<1>4. CASE InsertField(r)
  <2>1. FieldsFollow
    BY <1>4, Parts, InsertFieldFollows
  <2>2. Turns(r) /\ UNCHANGED <<types, served>>
    BY <1>4, LeaveTurns DEF InsertField
  <2> QED
    BY <1>1, <2>1, <2>2, Parts, CountedServed, SameTypesFollow, TurnStep
<1>5. CASE WriteField(r)
  <2>1. FieldsFollow
    BY <1>5, Parts, WriteFieldFollows
  <2>2. Turns(r) /\ UNCHANGED <<types, served>>
    BY <1>5, LeaveTurns DEF WriteField
  <2> QED
    BY <1>1, <2>1, <2>2, Parts, CountedServed, SameTypesFollow, TurnStep
<1> QED
  BY <1>2, <1>3, <1>4, <1>5 DEF ChangeFields

LEMMA RemoveTypesStep ==
  ASSUME IInv, NEW r \in Requests, NEW u \in Users, RemoveTypes(r, u),
         UNCHANGED <<entries, now, unsure>>
  PROVE  IInv'
<1>1. ASSUME NEW id \in TypeIds, RemovePostType(r, u, id, EntriesOf(id) # {}) PROVE IInv'
  <2>1. Turns(r)
    BY <1>1, RemoveTypeTurns
  <2>2. UNCHANGED <<types, fields>> /\ served' = served + 1 /\ served < MaxServed
    BY <1>1 DEF RemovePostType, Start, MayStart
  <2> QED
    BY <2>1, <2>2, TurnOnly
<1>2. CASE SoftDelete(r)
  <2>1. TypesFollow
    BY <1>2, Parts, SoftDeleteTypes DEF TypesFollow
  <2>2. Turns(r) /\ UNCHANGED <<fields, served>>
    BY <1>2, LeaveTurns DEF SoftDelete
  <2> QED
    BY <2>1, <2>2, Parts, CountedServed, SameEntriesFollow, SameFieldsFollow, TurnStep
<1> QED
  BY <1>1, <1>2 DEF RemoveTypes

LEMMA ChangeTypesStep ==
  ASSUME IInv, NEW u \in Users, ChangeTypes(u), UNCHANGED <<entries, now, unsure>>
  PROVE  IInv'
<1>1. TypesFollow
  BY Parts, CreatePostTypeTypes, UpdatePostTypeTypes DEF ChangeTypes, TypesFollow
<1>2. /\ fields' = fields /\ UNCHANGED <<at, my>>
      /\ served' = served + 1 /\ served < MaxServed
  BY DEF ChangeTypes, CreatePostType, UpdatePostType, Serve
<1> QED
  BY <1>1, <1>2, Parts, CountedServed, SameEntriesFollow, SameFieldsFollow, SameStep

LEMMA ArrangeFieldsStep ==
  ASSUME IInv, NEW u \in Users, ArrangeFields(u), UNCHANGED <<entries, now, unsure>>
  PROVE  IInv'
<1>1. ASSUME NEW type \in TypeIds, NEW f \in FieldsOf(type), NEW g \in FieldsOf(type),
             ReorderFields(u, type, [h \in {f, g} |-> IF h = f THEN fields[g].displayOrder
                                                               ELSE fields[f].displayOrder])
      PROVE  FieldsFollow
  <2> DEFINE order == [h \in {f, g} |-> IF h = f THEN fields[g].displayOrder
                                                 ELSE fields[f].displayOrder]
  <2>1. fields[f].displayOrder \in Nat /\ fields[g].displayOrder \in Nat
    BY Parts, FieldRow DEF FieldsOf, LiveRows, FieldDefinition
  <2>2. \A h \in DOMAIN order : order[h] \in Nat
    BY <2>1
  <2>3. ReorderFields(u, type, order)
    BY <1>1
  <2> HIDE DEF order
  <2> QED
    BY <2>2, <2>3, Parts, ReorderFollows
<1>2. FieldsFollow
  BY <1>1, Parts, RemoveFieldFollows DEF ArrangeFields
<1>3. /\ types' = types /\ UNCHANGED <<at, my>>
      /\ served' = served + 1 /\ served < MaxServed
  BY DEF ArrangeFields, RemoveField, ReorderFields, Serve
<1> QED
  BY <1>2, <1>3, Parts, CountedServed, SameEntriesFollow, SameTypesFollow, SameStep

LEMMA SeedStep ==
  ASSUME IInv, Seed, UNCHANGED <<entries, now, unsure>>
  PROVE  IInv'
<1>1. TypesFollow /\ FieldsFollow
  BY Parts, SeedFollows DEF TypesFollow
<1>2. UNCHANGED <<at, my>> /\ served' = served + 1 /\ served < MaxServed
  BY DEF Seed, Serve
<1> QED
  BY <1>1, <1>2, Parts, CountedServed, SameEntriesFollow, SameStep

LEMMA Inductive == IInv /\ [Next]_vars => IInv'
<1> SUFFICES ASSUME IInv, [Next]_vars PROVE IInv'
  OBVIOUS
<1>1. ASSUME NEW r \in Requests, NEW u \in Users, Begin(r, u), now' = now PROVE IInv'
  BY <1>1, BeginStep
<1>2. ASSUME NEW r \in Requests, Continue(r), now' = now PROVE IInv'
  BY <1>2, ContinueStep
<1>3. ASSUME NEW r \in Requests, End(r), now' = now PROVE IInv'
  BY <1>3, LeaveTurns, TurnOnly DEF End
<1>4. ASSUME NEW r \in Requests, NEW u \in Users, ChangeFields(r, u) \/ RemoveTypes(r, u),
             UNCHANGED <<entries, now, unsure>>
      PROVE  IInv'
  BY <1>4, ChangeFieldsStep, RemoveTypesStep
<1>5. ASSUME NEW u \in Users, ChangeTypes(u) \/ ArrangeFields(u),
             UNCHANGED <<entries, now, unsure>>
      PROVE  IInv'
  BY <1>5, ChangeTypesStep, ArrangeFieldsStep
<1>6. CASE Seed /\ UNCHANGED <<entries, now, unsure>>
  BY <1>6, SeedStep
<1>7. CASE PublishScheduledBefore
  <2>1. UNCHANGED <<types, fields, now, served, at, my>>
    BY <1>7 DEF PublishScheduledBefore
  <2> QED
    BY <1>7, <2>1, Parts, JobFollows, CountedServed, SameTypesFollow, SameFieldsFollow, SameStep
<1>8. CASE Tick
  <2>1. UNCHANGED <<types, fields, entries, served, at, my, unsure>> /\ now' \in 0..MaxNow
    BY <1>8, Parts, ContentAssumption DEF Tick
  <2> QED
    BY <2>1, Parts, SameTypesFollow, SameFieldsFollow, SameEntriesFollow, SameStep DEF Counted
<1>9. CASE UNCHANGED vars
  <2>1. UNCHANGED <<types, fields, entries, now, served, at, my, unsure>>
    BY <1>9 DEF vars
  <2> QED
    BY <2>1, Parts, CountedServed, SameTypesFollow, SameFieldsFollow, SameEntriesFollow, SameStep
<1> QED
  BY <1>1, <1>2, <1>3, <1>4, <1>5, <1>6, <1>7, <1>8, <1>9 DEF Next

LEMMA Invariant == Spec => []IInv
<1> QED
  BY InitInvariant, Inductive, PTL DEF Spec

-----------------------------------------------------------------------------
(* What follows from the invariant. *)

\* The rows of post types, fields and entries keep their types, and live ones keep apart by
\* slug and name (the unique indexes, and the checks of the services and of the seeder).
THEOREM ContentTypeCorrect == Spec => []TypeOK
<1>1. IInv => TypeOK
  BY DEF IInv
<1> QED
  BY <1>1, Invariant, PTL

\* The values of unique fields stay apart, but for entries written by a request that read
\* the fields before they were unique, for those that came back from a deletion, and for
\* those that an update put back that named a later version than it read
\* (saveUnlessDuplicate, hasDuplicateValues).
THEOREM UniqueValuesAreHeld == Spec => []UniqueValuesHold
<1>1. IInv => UniqueValuesHold
  <2> SUFFICES ASSUME IInv, NEW t \in TypeIds, NEW d \in FindByPostType(t), d.unique
               PROVE  Apart(t, d.name)
    BY DEF UniqueValuesHold, Apart
  <2>1. d.name \in Watched(t)
    BY DEF Watched, UniqueNames
  <2> QED
    BY <2>1 DEF IInv, ValuesInv, WatchedApart
<1> QED
  BY <1>1, Invariant, PTL

-----------------------------------------------------------------------------
(* Who writes entries. *)

\* A request's steps that write an entry.
Saves(r) == Insert(r) \/ Save(r) \/ StatusChange(r) \/ MarkDeleted(r)

LEMMA WhoWrites ==
  ASSUME IInv, [Next]_vars, entries' # entries
  PROVE  \/ \E r \in Requests : Saves(r) /\ UNCHANGED <<types, fields, served>>
         \/ PublishScheduledBefore
<1>1. ASSUME NEW r \in Requests, NEW u \in Users, Begin(r, u) PROVE FALSE
  BY <1>1 DEF Begin
<1>2. ASSUME NEW r \in Requests, Continue(r)
      PROVE  Saves(r) /\ UNCHANGED <<types, fields, served>>
  BY <1>2 DEF Continue, Saves
<1>3. ASSUME NEW r \in Requests, End(r) PROVE FALSE
  BY <1>3 DEF End
<1>4. ~Tick /\ ~UNCHANGED vars
  BY DEF Tick, vars
<1> QED
  BY <1>1, <1>2, <1>3, <1>4 DEF Next

LEMMA SaverFinishes ==
  ASSUME Requested, NEW r \in Requests, Saves(r)
  PROVE  r \in Finishing /\ \A q \in Finishing : q = r
<1>1. at[r] \in {"save", "status", "remove"} /\ Leave(r)
  BY DEF Saves, Insert, Save, StatusChange, MarkDeleted
<1>2. at'[r] = "idle" /\ \A q \in Requests \ {r} : at'[q] = at[q]
  BY <1>1 DEF Leave, Requested
<1> QED
  BY <1>1, <1>2 DEF Finishing

LEMMA SavedColumns ==
  ASSUME EntriesTyped(entries), Requested, NEW r \in Requests, Save(r)
  PROVE  LET row == SavedBy(r)
             entry == my[r].entry
         IN  /\ row.postTypeId = entry.postTypeId /\ row.authorId = entry.authorId
             /\ row.title = entry.title /\ row.status = entry.status
             /\ row.scheduledAt = entry.scheduledAt /\ row.data = entry.data
<1>1. my[r].entry \in PostContent /\ Expected(r) \in Nat
  BY Saving, SavedOver DEF Save
<1>2. PICK version \in Nat : version = Expected(r) + 1
  BY <1>1
<1>3. SavedBy(r) = SavedEntry(my[r].entry, version)
  BY <1>2 DEF SavedBy
<1> QED
  BY <1>1, <1>3, SavedRow

\* An entry becomes public by someone who may publish it, or by the job once its date has
\* come (ContentAccessPolicy.assertCanSetStatus, ContentService.publish and schedule,
\* publishScheduledBefore); or its status is put back by an update that named a later
\* version than it read.
THEOREM ContentPublishedByPublishers == Spec => PublishedByPublishers
<1>1. ASSUME IInv, [Next]_vars, NEW e \in Rows(entries'),
             e \notin Rows(entries) \ LiveRows(entries),
             entries'[e].status \in {"published", "scheduled"}
               \ {IF entries[e] = None THEN "draft" ELSE entries[e].status}
      PROVE  \/ \E r \in Finishing : Can(my[r].user, "publish", entries'[e]) \/ SavedAhead(r)
             \/ /\ (IF entries[e] = None THEN "draft" ELSE entries[e].status) = "scheduled"
                /\ entries'[e].status = "published"
                /\ entries'[e].scheduledAt \in 0..now
  <2>1. EntriesTyped(entries) /\ Requested
    BY <1>1, Parts
  <2>2. EntriesTyped(entries')
    BY <1>1, Inductive, Typed DEF IInv, TypeOK, EntriesTyped
  <2>3. e \in EntryIds /\ (entries[e] # None => e \in Rows(entries))
    BY <2>1, <2>2, EntryRow DEF Rows, EntriesTyped
  <2>4. entries' # entries
    BY <1>1 DEF Rows
  <2>5. entries'[e].status \in PUBLISHING
        /\ (entries[e] # None => entries'[e].status # entries[e].status)
    BY <1>1 DEF PUBLISHING
  <2>6. ASSUME NEW r \in Requests, Saves(r)
        PROVE  Can(my[r].user, "publish", entries'[e]) \/ SavedAhead(r)
    <3>1. ASSUME NEW id, NEW row, OnlyRow(id, row) PROVE id = e /\ entries'[e] = row
      <4>1. CASE id # e
        <5>1. entries'[e] = entries[e]
          BY <2>3, <3>1, <4>1 DEF OnlyRow
        <5> QED
          BY <1>1, <2>5, <5>1 DEF Rows
      <4> QED
        BY <3>1, <4>1 DEF OnlyRow
    <3>2. CASE Insert(r)
      <4>1. entries'[e] = my[r].entry /\ IsCreation(my[r])
        BY <2>1, <3>1, <3>2, InsertFollows, Saving DEF Insert
      <4> QED
        BY <2>5, <4>1 DEF IsCreation
    <3>3. CASE Save(r) /\ ~Ahead(r)
      <4>1. my[r].id = e /\ entries'[e] = SavedBy(r)
        BY <2>1, <3>1, <3>3, SaveFollows
      <4>2. /\ entries'[e].postTypeId = my[r].entry.postTypeId
            /\ entries'[e].authorId = my[r].entry.authorId
            /\ entries'[e].status = my[r].entry.status
        BY <2>1, <3>3, <4>1, SavedColumns
      <4>3. AsRead(my[r], entries[e]) /\ e \in LiveRows(entries)
        BY <1>1, <2>1, <3>3, <4>1, SavedOver
      <4>4. Can(my[r].user, "publish", my[r].entry)
        BY <2>3, <2>5, <4>2, <4>3 DEF AsRead, LiveRows, Rows
      <4>5. my[r].user \in Users
        BY <2>1, <3>3, Saving DEF Save, IsEditing, IsWriting
      <4> QED
        BY <4>2, <4>4, <4>5, PublishByAuthor
    <3>4. CASE StatusChange(r)
      <4>1. PICK row \in PostContent :
              OnlyRow(my[r].id, row) /\ Sequel(entries[my[r].id], row)
        BY <2>1, <3>4, StatusChangeFollows
      <4>2. my[r].id = e /\ entries'[e] = row
        BY <3>1, <4>1
      <4>3. IsPublishing(my[r])
        BY <2>1, <3>4, StatusChangeFollows
      <4>4. /\ entries'[e].postTypeId = my[r].entry.postTypeId
            /\ entries'[e].authorId = my[r].entry.authorId
        BY <4>1, <4>2, <4>3 DEF Sequel, Later, IsPublishing, ReadFrom
      <4> QED
        BY <4>3, <4>4, PublishByAuthor DEF IsPublishing
    <3>5. CASE MarkDeleted(r)
      <4>1. entries'[e].status = "deleted"
        BY <2>1, <3>1, <3>5, MarkDeletedFollows
      <4> QED
        BY <2>5, <4>1 DEF PUBLISHING
    <3>6. CASE Save(r) /\ Ahead(r)
      BY <3>6 DEF Save, SavedAhead
    <3> QED
      BY <2>6, <3>2, <3>3, <3>4, <3>5, <3>6 DEF Saves
  <2>7. CASE \E r \in Requests : Saves(r)
    BY <2>1, <2>6, <2>7, SaverFinishes
  <2>8. CASE PublishScheduledBefore
    <3>1. entries'[e] = IF e \in DueAt(now) THEN Published(entries[e]) ELSE entries[e]
      BY <2>3, <2>8 DEF PublishScheduledBefore
    <3>2. e \in DueAt(now) /\ entries'[e] = Published(entries[e])
      BY <1>1, <2>5, <3>1 DEF Rows
    <3>3. /\ e \in Rows(entries) /\ entries[e].status = "scheduled"
          /\ entries[e].scheduledAt # None /\ entries[e].scheduledAt <= now
      BY <3>2 DEF DueAt, LiveRows
    <3>4. entries[e] \in PostContent /\ now \in 0..MaxNow
      BY <1>1, <2>1, <3>3, EntryRow, Parts
    <3>5. entries[e].scheduledAt \in 0..now
      <4>1. entries[e].scheduledAt \in 0..MaxNow /\ MaxNow \in Nat
        BY <3>3, <3>4, ContentAssumption DEF PostContent
      <4> QED
        BY <3>3, <3>4, <4>1
    <3>6. entries'[e].status = "published" /\ entries'[e].scheduledAt = entries[e].scheduledAt
      BY <3>2, <3>4, DueRow
    <3> QED
      BY <3>3, <3>5, <3>6 DEF Rows
  <2> QED
    BY <1>1, <2>4, <2>7, <2>8, WhoWrites
<1>2. IInv /\ [Next]_vars =>
        [\A e \in Rows(entries') :
           LET is == entries'[e]
               was == IF entries[e] = None THEN "draft" ELSE entries[e].status
           IN  /\ e \notin Rows(entries) \ LiveRows(entries)
               /\ is.status \in {"published", "scheduled"} \ {was}
               => \/ \E r \in Finishing : Can(my[r].user, "publish", is) \/ SavedAhead(r)
                  \/ /\ was = "scheduled" /\ is.status = "published"
                     /\ is.scheduledAt \in 0..now]_vars
  BY <1>1
<1> QED
  BY <1>2, Invariant, PTL DEF Spec, PublishedByPublishers

\* What the body of an edit leaves out is in the row as it is: the row still has the version
\* the edit read, unless the edit named a later one, and every change but a deletion moves
\* it on (saveUnlessDuplicate).
THEOREM ContentEditsKeepTheRest == Spec => EditsKeepTheRest
<1>1. ASSUME IInv, [Next]_vars, NEW r \in Finishing, at[r] = "save", my[r].op = "update",
             entries' # entries, ~entries[my[r].id].deleted, ~Ahead(r)
      PROVE  LET body == my[r].body
                 was == entries[my[r].id]
                 is == entries'[my[r].id]
             IN  /\ body.status = None => is.status = was.status
                 /\ body.title = None => is.title = was.title
                 /\ body.scheduledAt = None => is.scheduledAt = was.scheduledAt
                 /\ body.data = None => is.data = was.data
  <2>1. EntriesTyped(entries) /\ Requested
    BY <1>1, Parts
  <2>2. ~PublishScheduledBefore
    BY <1>1 DEF PublishScheduledBefore, Finishing
  <2>3. PICK q \in Requests : Saves(q)
    BY <1>1, <2>2, WhoWrites
  <2>4. Save(r)
    <3>1. q = r
      BY <1>1, <2>1, <2>3, SaverFinishes
    <3> QED
      BY <1>1, <2>3, <3>1 DEF Saves, Insert, StatusChange, MarkDeleted
  <2>5. entries'[my[r].id] = SavedBy(r)
    BY <1>1, <2>1, <2>4, SaveFollows DEF OnlyRow, Finishing
  <2>6. AsRead(my[r], entries[my[r].id])
    BY <1>1, <2>1, <2>4, SavedOver DEF Finishing
  <2>7. /\ SavedBy(r).title = my[r].entry.title /\ SavedBy(r).status = my[r].entry.status
        /\ SavedBy(r).scheduledAt = my[r].entry.scheduledAt
        /\ SavedBy(r).data = my[r].entry.data
    BY <1>1, <2>1, <2>4, SavedColumns DEF Finishing
  <2> QED
    BY <1>1, <2>5, <2>6, <2>7 DEF AsRead
<1>2. IInv /\ [Next]_vars =>
        [\A r \in Finishing : at[r] = "save" /\ my[r].op = "update" /\ entries' # entries =>
           LET body == my[r].body
               was == entries[my[r].id]
               is == entries'[my[r].id]
           IN  \/ was.deleted \/ Ahead(r)
               \/ /\ body.status = None => is.status = was.status
                  /\ body.title = None => is.title = was.title
                  /\ body.scheduledAt = None => is.scheduledAt = was.scheduledAt
                  /\ body.data = None => is.data = was.data]_vars
  BY <1>1
<1> QED
  BY <1>2, Invariant, PTL DEF Spec, EditsKeepTheRest
=============================================================================
