------------------------------- MODULE Stories -------------------------------
(***************************************************************************)
(* Stories (src/modules/stories): creating, editing, deleting, restoring,  *)
(* the editorial workflow, threads, links to tags, categories and files,   *)
(* and the main image.                                                     *)
(*                                                                         *)
(* A request checks what it read and writes an await or more later; a      *)
(* cached read is an earlier read.  A request that is refused, fails or    *)
(* loses its process ends where it is.  The title stands for the plain     *)
(* fields, fromTime for those a body cannot set back to nothing.  Countries *)
(* are read-only and left out, and so are reads: Access has their filter.  *)
(***************************************************************************)
EXTENDS Taxonomy, Principals

CONSTANTS StoryIds, Titles, Times,
          Null,                 \* a body's null: out of the thread
          Files, OwnerOf,       \* the attachments and whose they are
          UsableFiles, Images,  \* uploaded and approved; of an image type
          Requests,             \* requests running at a time
          MaxServed             \* bound: requests that change something

VARIABLES stories,    \* the rows
          public,     \* the files everyone may read
          served,     \* requests so far
          at, my      \* where each request is, and its local variables

AUTHOR_STATUSES == {"DRAFT", "PENDING_REVIEW"}
StoryStatus ==
  AUTHOR_STATUSES \cup {"IN_REVIEW", "APPROVED", "REJECTED", "PUBLISHED", "ARCHIVED",
                        "DELETED", "SUSPENDED", "FLAGGED", "UNDER_INVESTIGATION"}

Story == [userId : Users, title : Titles, fromTime : Times \cup {None},
          status : StoryStatus, deleted : BOOLEAN, parent : StoryIds \cup {None},
          tags : SUBSET TagIds, categories : SUBSET CategoryIds,
          files : SUBSET Files, image : Files \cup {None}, version : Nat]

\* Bodies: what they leave out is None, or {} for labels.
StoryBody ==
  [version : Nat \cup {None}, title : Titles \cup {None}, fromTime : Times \cup {None},
   status : StoryStatus \cup {None}, parent : StoryIds \cup {None, Null},
   tagIds : SUBSET TagIds, names : SUBSET Names, categoryIds : SUBSET CategoryIds]

LinkBody ==
  [add : BOOLEAN, tagIds : SUBSET TagIds, names : SUBSET Names,
   categoryIds : SUBSET CategoryIds, files : SUBSET Files]

Live(id) == id \in Rows(stories) /\ ~stories[id].deleted

Lineage(id) ==
  LET above[n \in 0..Cardinality(StoryIds)] ==
        IF n = 0 THEN {id}
        ELSE above[n - 1] \cup {stories[i].parent : i \in above[n - 1] \cap Rows(stories)}
  IN  above[Cardinality(StoryIds)]

-----------------------------------------------------------------------------
(* What a user may do. *)

Can(u, action, row) == MayOn(u, action, "Story", row)

CanChange(u, action, row) == Can(u, "read", row) /\ Can(u, action, row)

\* Mutant: whoever may edit the story.
MaySetOwn(u, status, row) == Can(u, "update", row)

MaySet(u, status, row) == status \in AUTHOR_STATUSES \/ Can(u, "publish", row)

StatusTransition(from, to) ==
  /\ to # "DELETED"
  /\ ~(from = "PUBLISHED" /\ to = "DRAFT")
  /\ from = "DELETED" => to = "DRAFT"

-----------------------------------------------------------------------------
(* Requests. *)

Blank == [op |-> None]

Go(r, place) == at' = [at EXCEPT ![r] = place]

MayStart(r) == at[r] = "idle" /\ served < MaxServed

Start(r, request, place) ==
  /\ MayStart(r)
  /\ served' = served + 1
  /\ Go(r, place)
  /\ my' = [my EXCEPT ![r] = request]
  /\ UNCHANGED <<stories, public, tags, categories>>

Leave(r) == at' = [at EXCEPT ![r] = "idle"] /\ my' = [my EXCEPT ![r] = Blank]

\* Refused, failed, or its process is gone.
End(r) ==
  /\ at[r] # "idle"
  /\ Leave(r)
  /\ UNCHANGED <<stories, public, tags, categories, served>>

Request(op, u, id, seen, body) ==
  [op |-> op, user |-> u, id |-> id, seen |-> seen, body |-> body,
   tags |-> {}, categories |-> {}]

\* The row as a request found it.
On(r) == stories[my[r].id]
Present(r) == my[r].id \in Rows(stories)

Given(value, otherwise) == IF value = None THEN otherwise ELSE value
Chosen(set, otherwise) == IF set = {} THEN otherwise ELSE set

-----------------------------------------------------------------------------
(* POST /stories and PATCH /stories/:id. *)

NeedsLabels(body) == body.names # {} \/ body.tagIds \cup body.categoryIds # {}

Create(r, u, body) ==
  /\ May(u, "create", "Story")
  /\ StatusTransition(None, body.status)
  /\ MaySet(u, body.status, [userId |-> u])
  /\ Start(r, Request("create", u, None, None, body),
           IF body.parent # None THEN "parent"
           ELSE IF NeedsLabels(body) THEN "labels" ELSE "write")

\* A rollback edits too, with the content of an old version.
Edit(r, u, id, body, op) ==
  LET row == stories[id]
  IN  /\ Live(id) /\ CanChange(u, "update", row)
      /\ body.status \notin {None, row.status} =>
           StatusTransition(row.status, body.status) /\ MaySet(u, body.status, row)
      /\ Start(r, Request(op, u, id, row, body),
               IF body.parent \in StoryIds \ {row.parent} THEN "parent"
               ELSE IF NeedsLabels(body) THEN "labels" ELSE "write")

\* A live story that is not the story itself or one of its descendants.
CheckParent(r) ==
  LET parent == my[r].body.parent
  IN  /\ at[r] = "parent"
      /\ Live(parent)
      /\ my[r].id \notin Lineage(parent)
      /\ Go(r, IF NeedsLabels(my[r].body) THEN "labels" ELSE "write")
      /\ UNCHANGED <<stories, public, tags, categories, served, my>>

TagsNamed(names) == {t \in LiveTags : tags[t].name \in names}

\* Categories and tags by id, all of them live; tags by name, made when missing.
ResolveLabels(r) ==
  LET body == my[r].body
      missing == body.names \ {tags[t].name : t \in LiveTags}
      unused == TagIds \ {t \in TagIds : tags[t] # None}
  IN  /\ at[r] = "labels"
      /\ body.categoryIds \subseteq LiveCategories
      /\ body.tagIds \subseteq LiveTags
      /\ \E made \in {f \in [missing -> unused] :
                        \A m, n \in missing : f[m] = f[n] => m = n} :
           LET new == {made[n] : n \in missing}
               NameOf(t) == CHOOSE n \in missing : made[n] = t
           IN  /\ tags' = [t \in TagIds |->
                             IF t \in new THEN [name |-> NameOf(t), isSystem |-> FALSE,
                                                deleted |-> FALSE]
                             ELSE tags[t]]
               /\ my' = [my EXCEPT ![r].categories = body.categoryIds,
                                   ![r].tags = body.tagIds \cup TagsNamed(body.names) \cup new]
      /\ Go(r, "write")
      /\ UNCHANGED <<stories, public, categories, served>>

\* The foreign keys of the story and of its links.
Refers(row) ==
  /\ row.parent \in Rows(stories) \cup {None}
  /\ row.tags \subseteq Rows(tags) /\ row.categories \subseteq Rows(categories)

SetStory(id, row) ==
  /\ Refers(row)
  /\ stories' = [stories EXCEPT ![id] = row]
  /\ UNCHANGED <<public, tags, categories, served>>

\* The transaction of a new story.
Insert(r) ==
  LET b == my[r].body
  IN  /\ at[r] = "write" /\ my[r].op = "create"
      /\ \E id \in StoryIds :
           /\ stories[id] = None
           /\ SetStory(id, [userId |-> my[r].user, title |-> b.title, fromTime |-> b.fromTime,
                            status |-> b.status, deleted |-> FALSE, parent |-> b.parent,
                            tags |-> my[r].tags, categories |-> my[r].categories,
                            files |-> {}, image |-> None, version |-> 1])
      /\ Leave(r)

\* The story an edit makes.  The save of links it does not replace may drop those to
\* deleted labels.
Edited(r, row, dropped) ==
  LET b == my[r].body
      Loaded(links, live) == IF dropped THEN links \cap live ELSE links
  IN  [row EXCEPT !.title = Given(b.title, @), !.fromTime = Given(b.fromTime, @),
                  !.status = Given(b.status, @),
                  !.parent = IF b.parent = Null THEN None ELSE Given(b.parent, @),
                  !.tags = Chosen(my[r].tags, Loaded(@, LiveTags)),
                  !.categories = Chosen(my[r].categories, Loaded(@, LiveCategories)),
                  !.version = @ + 1]

\* The version the client has, or the one that was read.
Expected(r) == Given(my[r].body.version, my[r].seen.version)

\* Mutant: the row is locked, and its version not compared.
LockAnyVersion(r) == Live(my[r].id)

Lock(r) == Live(my[r].id) /\ On(r).version = Expected(r)

Save(r, ops, place) ==
  /\ at[r] = "write" /\ my[r].op \in ops
  /\ Lock(r)
  /\ \E dropped \in BOOLEAN : SetStory(my[r].id, Edited(r, On(r), dropped))
  /\ Go(r, place)
  /\ UNCHANGED my

-----------------------------------------------------------------------------
(* Deleting and restoring: the write is a plain update. *)

Remove(r, u, id) ==
  /\ Live(id) /\ CanChange(u, "delete", stories[id])
  /\ Start(r, Request("remove", u, id, stories[id], None), "write")

Restore(r, u, id) ==
  /\ id \in Rows(stories) /\ stories[id].deleted
  /\ CanChange(u, "restore", stories[id])
  /\ Start(r, Request("restore", u, id, stories[id], None), "write")

SetDeleted(r) ==
  LET deleted == my[r].op = "remove"
  IN  /\ at[r] = "write" /\ my[r].op \in {"remove", "restore"}
      /\ Present(r)
      /\ SetStory(my[r].id, [On(r) EXCEPT !.deleted = deleted,
                                          !.status = IF deleted THEN "DELETED" ELSE "DRAFT"])
      /\ Leave(r)

\* Replies become top-level stories; links go.
HardDelete(u, id) ==
  /\ May(u, "manage", "all")
  /\ id \in Rows(stories)
  /\ served < MaxServed /\ served' = served + 1
  /\ stories' = [i \in StoryIds |->
                   IF i = id THEN Gone
                   ELSE IF i \in Rows(stories) /\ stories[i].parent = id
                   THEN [stories[i] EXCEPT !.parent = None] ELSE stories[i]]
  /\ UNCHANGED <<public, tags, categories, at, my>>

(* PATCH /stories/:id/status. *)

SetStatus(r, u, id, status) ==
  /\ Live(id) /\ CanChange(u, "publish", stories[id])
  /\ StatusTransition(stories[id].status, status)
  /\ Start(r, Request("status", u, id, stories[id], [status |-> status]), "write")

\* updateIfVersion: a deleted story has its version still.
UpdateIfVersion(r, row) ==
  /\ Present(r) /\ On(r).version = my[r].seen.version
  /\ SetStory(my[r].id, [row EXCEPT !.version = @ + 1])
  /\ Leave(r)

WriteStatus(r) ==
  /\ at[r] = "write" /\ my[r].op = "status"
  /\ UpdateIfVersion(r, [On(r) EXCEPT !.status = my[r].body.status])

-----------------------------------------------------------------------------
(* Links and the main image. *)

\* Your own files, or public ones.
MayAttach(u, files) ==
  files \subseteq {f \in UsableFiles : OwnerOf[f] = u \/ f \in public}

\* body.add: attaching, else detaching; one kind of link per route.
ChangeLinks(r, u, id, body) ==
  /\ Live(id) /\ CanChange(u, "update", stories[id])
  /\ body.add => MayAttach(u, body.files)
  /\ Start(r, Request("links", u, id, stories[id], body),
           IF body.add /\ NeedsLabels(body) THEN "labels" ELSE "write")

\* The version moves on when a link changed.
Linked(row, changed) == IF changed = row THEN row ELSE [changed EXCEPT !.version = @ + 1]

\* One transaction, whether or not the story was deleted meanwhile.
WriteLinks(r) ==
  LET b == my[r].body
      row == On(r)
      changed == IF b.add
                 THEN [row EXCEPT !.tags = @ \cup my[r].tags,
                                  !.categories = @ \cup my[r].categories,
                                  !.files = @ \cup b.files]
                 ELSE [row EXCEPT !.tags = @ \ (b.tagIds \cup TagsNamed(b.names)),
                                  !.categories = @ \ b.categoryIds,
                                  !.files = @ \ b.files]
  IN  /\ at[r] = "write" /\ my[r].op = "links"
      /\ Present(r)
      /\ SetStory(my[r].id, Linked(row, changed))
      /\ Leave(r)

\* One of the editor's own images, or none.
SetImage(r, u, id, file) ==
  /\ Live(id) /\ CanChange(u, "update", stories[id])
  /\ file # None => file \in UsableFiles \cap Images /\ OwnerOf[file] = u
  /\ Start(r, Request("image", u, id, stories[id], [file |-> file]),
           IF file \in Files \ public THEN "publish" ELSE "write")

PublishImage(r) ==
  /\ at[r] = "publish"
  /\ public' = public \cup {my[r].body.file}
  /\ Go(r, "write")
  /\ UNCHANGED <<stories, tags, categories, served, my>>

WriteImage(r) ==
  /\ at[r] = "write" /\ my[r].op = "image"
  /\ UpdateIfVersion(r, [On(r) EXCEPT !.image = my[r].body.file])

-----------------------------------------------------------------------------
(* The labels' own routes; a label deleted for good takes its links. *)

\* Mutant: the links stay.
LinksStay == stories

Unlinked == [i \in StoryIds |->
  IF i \in Rows(stories)
  THEN [stories[i] EXCEPT !.tags = {t \in @ : tags'[t] # Gone},
                          !.categories = {c \in @ : categories'[c] # Gone}]
  ELSE stories[i]]

ChangeTags(u) ==
  LET manages == May(u, "manage", "all")
  IN  \/ /\ May(u, "create", "Tag")
         /\ \E n \in Names, s \in BOOLEAN : CreateTag(n, s, manages)
      \/ /\ May(u, "update", "Tag")
         /\ \E t \in TagIds, n \in Names, s \in BOOLEAN : UpdateTag(t, n, s, manages)
      \/ May(u, "delete", "Tag") /\ \E t \in TagIds : RemoveTag(t, manages)
      \/ manages /\ \E t \in TagIds : HardDeleteTag(t, manages)

ChangeCategories(u) ==
  \/ May(u, "create", "Category") /\ \E n \in Names : CreateCategory(n)
  \/ /\ May(u, "update", "Category")
     /\ \E c \in CategoryIds, n \in Names, a \in BOOLEAN : UpdateCategory(c, n, a)
  \/ May(u, "delete", "Category") /\ \E c \in CategoryIds : RemoveCategory(c)
  \/ May(u, "restore", "Category") /\ \E c \in CategoryIds : RestoreCategory(c)
  \/ May(u, "manage", "all") /\ \E c \in CategoryIds : HardDeleteCategory(c)

ChangeLabels(u) ==
  /\ served < MaxServed /\ served' = served + 1
  /\ ChangeTags(u) \/ ChangeCategories(u)
  /\ stories' = Unlinked
  /\ UNCHANGED <<public, at, my>>
=============================================================================
