---------------------------- MODULE StoryVersions ----------------------------
(***************************************************************************)
(* The history of stories (src/modules/stories: StoryVersionService,       *)
(* StoryVersionBranchService, StoryVersionRepository and the daily         *)
(* VersionCleanupProcessor): snapshots with a number, a branch and a       *)
(* parent, made after every edit, by hand, by rollbacks, branches and      *)
(* merges, and pruned.  The specification of the stories is here too: it   *)
(* has the operations of Stories and those of their history.               *)
(*                                                                         *)
(* What an operation reads of the history before it writes is one step.    *)
(***************************************************************************)
EXTENDS Stories

CONSTANTS VersionIds,        \* bound: rows of story_versions ever made
          Branches, VersionTags,
          NewStories, Edits, LinkChanges, StatusesAsked,  \* bound: what bodies ask for
          Snapshots, Rollbacks, NewBranches, Merges, NumbersTagged,
          keepAutoVersions,  \* STORY_KEEP_AUTO_VERSIONS
          PRUNE_BATCH,
          FirstTags, FirstCategories, FirstStories, FirstVersions  \* the database at first

VARIABLES versions,   \* the rows of story_versions
          prune       \* the rows a running prune deletes, and the parents it gives others

vars == <<tags, categories, stories, public, served, at, my, versions, prune>>

\* What a version keeps of a story.  Files have a column, but the story it is taken from
\* never has them loaded.
Snapshot == [title : Titles, fromTime : Times \cup {None}, status : StoryStatus,
             tags : SUBSET TagIds, categories : SUBSET CategoryIds,
             image : Files \cup {None}]

StoryVersion ==
  [story : StoryIds, number : Nat, branch : Branches,
   type : {"AUTO", "MANUAL", "ROLLBACK", "BRANCH", "MERGE"},
   parent : VersionIds \cup {None}, mergedFrom : VersionIds \cup {None},
   rolledBackFrom : VersionIds \cup {None}, tag : VersionTags \cup {None},
   pinned : BOOLEAN, content : Snapshot]

\* Bodies: a rollback or a branch from the newest, a merge's resolutions of fields.
VersionBody == [branch : Branches, type : {"AUTO", "MANUAL"},
                tag : VersionTags \cup {None}, pinned : BOOLEAN]
RollbackBody == [number : Nat \ {0}, branch : Branches \cup {None}]
BranchBody == [number : (Nat \ {0}) \cup {None}, branch : Branches]
MergeBody == [number : Nat \ {0}, from : Branches, into : Branches,
              resolves : BOOLEAN, resolved : {<<>>} \cup [title : Titles]]

\* What a version was made from is there, and of the same story.
MadeWithinStory(table) ==
  \A w \in Rows(table) : \A v \in {table[w].parent, table[w].mergedFrom} \ {None} :
    v \in Rows(table) /\ table[v].story = table[w].story

\* Each version of a story has its number, a higher one than it was made from.
InOrder(table) ==
  \A v, w \in Rows(table) :
    /\ v # w /\ table[v].story = table[w].story => table[v].number # table[w].number
    /\ table[w].parent = v => table[v].number < table[w].number

ASSUME StoriesAssumption ==
  /\ MaxServed \in Nat /\ keepAutoVersions \in Nat /\ PRUNE_BATCH \in Nat \ {0}
  /\ VersionIds \subseteq Nat /\ IsFiniteSet(VersionIds) /\ "main" \in Branches
  /\ OwnerOf \in [Files -> Users]
  /\ NewStories \subseteq {body \in StoryBody : None \notin {body.title, body.status}}
  /\ Edits \subseteq StoryBody /\ LinkChanges \subseteq LinkBody
  /\ StatusesAsked \subseteq StoryStatus
  /\ Snapshots \subseteq VersionBody /\ Rollbacks \subseteq RollbackBody
  /\ NewBranches \subseteq BranchBody /\ Merges \subseteq MergeBody
  /\ None # Gone /\ None \notin StoryIds /\ None \notin VersionIds
  /\ None \notin Titles /\ None \notin StoryStatus
  /\ None \notin Tag /\ None \notin Category /\ None \notin Story /\ None \notin StoryVersion
  /\ Gone \notin Tag /\ Gone \notin Category /\ Gone \notin Story /\ Gone \notin StoryVersion

\* Who may publish a story is decided by its author at most, as in all that is seeded.
ASSUME PublishingAssumption ==
  \A u \in Users : LET rules == Rules[u]["publish"]["Story"]
                  IN  \A i \in DOMAIN rules : DOMAIN rules[i].conditions \subseteq {"userId"}

\* The database at first: the types and keys that PostgreSQL holds it to, and a history
\* made by the operations below.
ASSUME FirstAssumption ==
  /\ FirstTags \in [TagIds -> Tag \cup {None, Gone}]
  /\ FirstCategories \in [CategoryIds -> Category \cup {None, Gone}]
  /\ \A table \in FirstStories :
       /\ table \in [StoryIds -> Story \cup {None, Gone}]
       /\ \A id \in Rows(table) :
            /\ table[id].parent \in Rows(table) \cup {None}
            /\ table[id].tags \subseteq Rows(FirstTags)
            /\ table[id].categories \subseteq Rows(FirstCategories)
  /\ \A table \in FirstVersions :
       /\ table \in [VersionIds -> StoryVersion \cup {None, Gone}]
       /\ \A v \in Rows(table), rows \in FirstStories : table[v].story \in Rows(rows)
       /\ MadeWithinStory(table) /\ InOrder(table)

\* The labels are loaded with the story, live ones only.
SnapshotOfStory(row) ==
  [title |-> row.title, fromTime |-> row.fromTime, status |-> row.status,
   tags |-> row.tags \cap LiveTags, categories |-> row.categories \cap LiveCategories,
   image |-> row.image]

-----------------------------------------------------------------------------
(* Queries. *)

Of(id) == {v \in Rows(versions) : versions[v].story = id}
OnBranch(id, branch) == {v \in Of(id) : versions[v].branch = branch}

\* The version with a number, and the newest of a branch.
Numbered(id, n) == {v \in Of(id) : versions[v].number = n}
Latest(id, branch) ==
  {v \in OnBranch(id, branch) :
     \A w \in OnBranch(id, branch) : versions[w].number <= versions[v].number}

Only(set) == IF set = {} THEN None ELSE CHOOSE v \in set : TRUE

\* A version and those above it.
Chain(table, v) ==
  LET above[n \in 0..Cardinality(VersionIds)] ==
        IF n = 0 THEN {v}
        ELSE above[n - 1] \cup {table[w].parent : w \in above[n - 1] \cap Rows(table)}
  IN  above[Cardinality(VersionIds)] \cap Rows(table)

\* The first in the chain of one that is also in the other's.
CommonAncestor(v, w) ==
  LET common == Chain(versions, v) \cap Chain(versions, w)
  IN  Only({a \in common : \A b \in common : b \in Chain(versions, a)})

\* Fields both sides changed, to different values.
Conflicts(base, source, target) ==
  {f \in DOMAIN base : /\ base[f] # source[f] /\ base[f] # target[f]
                       /\ source[f] # target[f]}

-----------------------------------------------------------------------------
(* A new version. *)

Version(id, branch, type, parent, content) ==
  [story |-> id, number |-> 0, branch |-> branch, type |-> type, parent |-> parent,
   mergedFrom |-> None, rolledBackFrom |-> None, tag |-> None, pinned |-> FALSE,
   content |-> content]

\* Mutant: the number of versions there are, and one.
CountedNumber(id) == Cardinality(Of(id)) + 1

NextNumber(id) == 1 + Max({0} \cup {versions[v].number : v \in Of(id)})

Others == <<tags, categories, stories, public>>

\* insertNumbered: the number and the row under the story's advisory lock.
InsertVersion(r) ==
  LET new == my[r].version
  IN  /\ at[r] = "insert"
      /\ new.story \in Rows(stories)
      /\ {new.parent, new.mergedFrom} \subseteq Rows(versions) \cup {None}
      /\ \E v \in VersionIds :
           /\ versions[v] = None
           /\ \A w \in VersionIds : versions[w] = None => v <= w
           /\ versions' = [versions EXCEPT ![v] = [new EXCEPT !.number = NextNumber(new.story)]]
      /\ Leave(r)
      /\ UNCHANGED <<Others, served, prune>>

ToInsert(r, new) ==
  /\ Go(r, "insert")
  /\ my' = [my EXCEPT ![r] = [op |-> "version", version |-> new]]

\* createVersion, and recordRollback: the newest of the branch is the parent; content that
\* did not change makes no version, except a rollback's.
CompareWithLatest(r) ==
  LET new == my[r].version
      latest == Only(Latest(new.story, new.branch))
  IN  /\ at[r] = "latest"
      /\ latest # None /\ new.type # "ROLLBACK" => versions[latest].content # new.content
      /\ ToInsert(r, [new EXCEPT !.parent = latest])
      /\ UNCHANGED <<Others, served, versions, prune>>

\* After an edit: the story read again, and an automatic version of it.
ReadBack(r) ==
  /\ at[r] = "record" /\ my[r].op = "update"
  /\ Live(my[r].id)
  /\ Go(r, "latest")
  /\ my' = [my EXCEPT ![r] =
       [op |-> "version",
        version |-> Version(my[r].id, "main", "AUTO", None, SnapshotOfStory(On(r)))]]
  /\ UNCHANGED <<Others, served, versions, prune>>

\* After the edit of a rollback: its version.
RecordRollback(r) ==
  /\ at[r] = "record" /\ my[r].op = "rollback"
  /\ Live(my[r].id)
  /\ Go(r, "latest")
  /\ my' = [my EXCEPT ![r] = [op |-> "version", version |-> my[r].body.record]]
  /\ UNCHANGED <<Others, served, versions, prune>>

-----------------------------------------------------------------------------
(* The routes. *)

Editable(u, id, action) ==
  /\ May(u, action, "StoryVersion")
  /\ Live(id) /\ CanChange(u, "update", stories[id])

StartVersion(r, place, new) ==
  /\ Start(r, [op |-> "version", version |-> new], place)
  /\ UNCHANGED <<versions, prune>>

\* A snapshot by hand: the body chooses the type, the branch, the tag and the pin.
CreateVersion(r, u, id, body) ==
  /\ Editable(u, id, "create")
  /\ StartVersion(r, "latest",
       [Version(id, body.branch, body.type, None, SnapshotOfStory(stories[id]))
          EXCEPT !.tag = body.tag, !.pinned = body.pinned])

\* On main the story gets the old content back, as an edit does; else the version only.
Rollback(r, u, id, n, branch) ==
  LET target == Only(Numbered(id, n))
      old == versions[target].content
      record == [Version(id, Given(branch, "main"), "ROLLBACK", None, old)
                   EXCEPT !.rolledBackFrom = target]
  IN  /\ Editable(u, id, "update")
      /\ target # None
      /\ IF branch = None
         THEN /\ Edit(r, u, id, [version |-> None, title |-> old.title,
                                 fromTime |-> old.fromTime, status |-> None,
                                 parent |-> None, tagIds |-> {}, names |-> {},
                                 categoryIds |-> {}, record |-> record], "rollback")
              /\ UNCHANGED <<versions, prune>>
         ELSE StartVersion(r, "latest", record)

CreateBranch(r, u, id, branch, n) ==
  LET source == Only(IF n = None THEN Latest(id, "main") ELSE Numbered(id, n))
  IN  /\ Editable(u, id, "create")
      /\ OnBranch(id, branch) = {}
      /\ source # None
      /\ StartVersion(r, "insert",
                      Version(id, branch, "BRANCH", source, versions[source].content))

\* The source's content wins, and resolutions override it.
Merge(r, u, id, body) ==
  LET source == Only(Numbered(id, body.number) \cap OnBranch(id, body.from))
      target == Only(Latest(id, body.into))
      base == CommonAncestor(source, target)
      merged == [f \in DOMAIN versions[source].content |->
                   IF f \in DOMAIN body.resolved THEN body.resolved[f]
                   ELSE versions[source].content[f]]
  IN  /\ Editable(u, id, "update")
      /\ source # None /\ target # None
      /\ ~body.resolves /\ base # None =>
           Conflicts(versions[base].content, versions[source].content,
                     versions[target].content) = {}
      /\ StartVersion(r, "insert", [Version(id, body.into, "MERGE", target, merged)
                                      EXCEPT !.mergedFrom = source])

\* The name is free, or this version's already.
TagVersion(r, u, id, n, tag) ==
  LET v == Only(Numbered(id, n))
  IN  /\ Editable(u, id, "update")
      /\ v # None
      /\ {w \in Of(id) : versions[w].tag = tag} \subseteq {v}
      /\ Start(r, [op |-> "tag", version |-> v, tag |-> tag], "tag")
      /\ UNCHANGED <<versions, prune>>

WriteTag(r) ==
  /\ at[r] = "tag"
  /\ my[r].version \in Rows(versions)
  /\ versions' = [versions EXCEPT ![my[r].version].tag = my[r].tag]
  /\ Leave(r)
  /\ UNCHANGED <<Others, served, prune>>

-----------------------------------------------------------------------------
(* The daily prune: one transaction per batch. *)

Rank(v) == Cardinality({w \in OnBranch(versions[v].story, versions[v].branch) :
                          /\ versions[w].type = "AUTO"
                          /\ versions[w].number >= versions[v].number})

Needed(v) ==
  \/ versions[v].pinned
  \/ versions[v].tag # None
  \/ \E o \in Rows(versions) :
       \/ v \in {versions[o].mergedFrom, versions[o].rolledBackFrom}
       \/ versions[o].parent = v /\ versions[o].branch # versions[v].branch

Doomed == {v \in Rows(versions) : /\ versions[v].type = "AUTO"
                                  /\ Rank(v) > keepAutoVersions
                                  /\ ~Needed(v)}

\* Mutant: the parent, whether or not it is deleted too.
DirectParent(v, doomed) == versions[v].parent

\* The nearest one above that is kept.
KeptAncestor(v, doomed) ==
  LET kept == Chain(versions, v) \ doomed
  IN  Only({a \in kept : \A b \in kept : b \in Chain(versions, a)})

Batches(set) ==
  IF set = {} THEN {}
  ELSE IF Cardinality(set) <= PRUNE_BATCH THEN {set} ELSE kSubset(PRUNE_BATCH, set)

Idle == [doomed |-> {}, repointed |-> <<>>]

PruneSelect ==
  /\ prune = Idle
  /\ \E doomed \in Batches(Doomed) :
       /\ prune' = [doomed |-> doomed,
                    repointed |-> [v \in {w \in Rows(versions) \ doomed :
                                            versions[w].parent \in doomed} |->
                                     KeptAncestor(versions[v].parent, doomed)]]
  /\ UNCHANGED <<Others, served, at, my, versions>>

\* The parents it gave, and the rows gone: ON DELETE SET NULL for whoever refers to them
\* now.
PruneCommit ==
  LET Kept(v) == IF v \in prune.doomed THEN None ELSE v
  IN  /\ prune # Idle
      /\ versions' = [v \in VersionIds |->
           IF v \notin Rows(versions) THEN versions[v]
           ELSE IF v \in prune.doomed THEN Gone
           ELSE [versions[v] EXCEPT
                   !.parent = Kept(IF v \in DOMAIN prune.repointed
                                  THEN prune.repointed[v] ELSE @),
                   !.mergedFrom = Kept(@)]]
      /\ prune' = Idle
      /\ UNCHANGED <<Others, served, at, my>>

\* The process is gone, or the database refuses: nothing is deleted.
PruneFails ==
  prune # Idle /\ prune' = Idle /\ UNCHANGED <<Others, served, at, my, versions>>

-----------------------------------------------------------------------------
(* Deleting a story for good takes its history: the cascade. *)

HardDeleteStory(u, id) ==
  /\ HardDelete(u, id)
  /\ prune.doomed \cap Of(id) = {}    \* the prune's locks
  /\ versions' = [v \in VersionIds |-> IF v \in Of(id) THEN Gone ELSE versions[v]]
  /\ UNCHANGED prune

Init ==
  /\ tags = FirstTags /\ categories = FirstCategories
  /\ stories \in FirstStories
  /\ versions \in FirstVersions
  /\ public = {}
  /\ served = 0
  /\ at = [r \in Requests |-> "idle"] /\ my = [r \in Requests |-> Blank]
  /\ prune = Idle

\* What a request does to a story and its labels.
StoryStep(r) ==
  /\ \/ /\ MayStart(r)
        /\ \E u \in Users :
             \/ \E body \in NewStories : Create(r, u, body)
             \/ \E id \in StoryIds :
                  \/ \E body \in Edits : Edit(r, u, id, body, "update")
                  \/ Remove(r, u, id)
                  \/ Restore(r, u, id)
                  \/ \E s \in StatusesAsked : SetStatus(r, u, id, s)
                  \/ \E body \in LinkChanges : ChangeLinks(r, u, id, body)
                  \/ \E f \in Files \cup {None} : SetImage(r, u, id, f)
     \/ CheckParent(r)
     \/ ResolveLabels(r)
     \/ Insert(r)
     \/ Save(r, {"update", "rollback"}, "record")
     \/ SetDeleted(r)
     \/ WriteStatus(r)
     \/ WriteLinks(r)
     \/ PublishImage(r)
     \/ WriteImage(r)
     \/ End(r)
  /\ UNCHANGED <<versions, prune>>

\* What a request does to a history.
VersionStep(r) ==
  \/ /\ MayStart(r)
     /\ \E u \in Users, id \in StoryIds :
          \/ \E body \in Snapshots : CreateVersion(r, u, id, body)
          \/ \E b \in Rollbacks : Rollback(r, u, id, b.number, b.branch)
          \/ \E b \in NewBranches : CreateBranch(r, u, id, b.branch, b.number)
          \/ \E b \in Merges : Merge(r, u, id, b)
          \/ \E n \in NumbersTagged, t \in VersionTags : TagVersion(r, u, id, n, t)
  \/ ReadBack(r)
  \/ RecordRollback(r)
  \/ CompareWithLatest(r)
  \/ InsertVersion(r)
  \/ WriteTag(r)

Next ==
  \/ \E r \in Requests : StoryStep(r) \/ VersionStep(r)
  \/ \E u \in Users, id \in StoryIds : HardDeleteStory(u, id)
  \/ (\E u \in Users : ChangeLabels(u)) /\ UNCHANGED <<versions, prune>>
  \/ PruneSelect \/ PruneCommit \/ PruneFails

Spec == Init /\ [][Next]_vars

-----------------------------------------------------------------------------
(* Properties. *)

\* Rows of their types, and no reference to a row that is gone: a story's parent and
\* labels, a version's story, and its parent and merge source in that story.
TypeOK ==
  /\ tags \in [TagIds -> Tag \cup {None, Gone}]
  /\ categories \in [CategoryIds -> Category \cup {None, Gone}]
  /\ stories \in [StoryIds -> Story \cup {None, Gone}]
  /\ versions \in [VersionIds -> StoryVersion \cup {None, Gone}]
  /\ public \subseteq Files
  /\ served \in 0..MaxServed
  /\ at \in [Requests -> {"idle", "parent", "labels", "write", "publish", "record",
                          "latest", "insert", "tag"}]
  /\ prune.doomed \subseteq Rows(versions)
  /\ \A id \in Rows(stories) : Refers(stories[id])
  /\ \A v \in Rows(versions) : versions[v].story \in Rows(stories)
  /\ MadeWithinStory(versions)

Wrote(r) == at[r] = "write" /\ at'[r] # "write" /\ stories' # stories

\* What happens to a story under the same version: it is deleted or restored, its parent
\* or a label of it goes.
SameVersion(seen, row) ==
  /\ row.title = seen.title /\ row.fromTime = seen.fromTime
  /\ row.files = seen.files /\ row.image = seen.image
  /\ row.parent \in {seen.parent, None}
  /\ row.tags \subseteq seen.tags /\ row.categories \subseteq seen.categories
  /\ row.status \in {seen.status, "DELETED", "DRAFT"}

\* An edit, a rollback, a new status or a new image is written over the story as the
\* request read it, whatever was written in between: else it is refused (409).  A body
\* that names a later version than the one that was read says so itself.
EditsApplyToWhatWasRead ==
  [][\A r \in Requests :
       /\ Wrote(r) /\ my[r].op \in {"update", "rollback", "status", "image"}
       /\ my[r].op = "update" => Expected(r) = my[r].seen.version
       => SameVersion(my[r].seen, stories[my[r].id])]_vars

\* A story gets an editorial status only by someone who may publish it, however it is
\* asked for; sending back the status that was read is no change.
PublishedByEditors ==
  [][\A id \in StoryIds :
       /\ stories'[id] \notin {None, Gone}
       /\ stories'[id].status \notin AUTHOR_STATUSES \cup {"DELETED"}
       /\ id \in Rows(stories) => stories[id].status # stories'[id].status
       => \E r \in Requests :
            /\ Wrote(r)
            /\ \/ Can(my[r].user, "publish", stories'[id])
               \/ my[r].op = "update" /\ my[r].seen.status = stories'[id].status]_vars

\* The versions of a story have different numbers, and a version is newer than the one it
\* was made from: the parent is read before the number is taken.
NumberedInOrder == InOrder(versions)

\* A prune cuts no history: of the versions that were above a version, those it kept
\* still are.  A version that was made from a deleted one while the prune ran loses its
\* parent, and what is made from it, its history.
PruningKeepsAncestors ==
  [][prune # Idle /\ prune' = Idle /\ versions' # versions =>
       LET late == {v \in Rows(versions) \ DOMAIN prune.repointed :
                      versions[v].parent \in prune.doomed}
       IN  \A v \in Rows(versions) \ prune.doomed :
             Chain(versions, v) \cap (late \ prune.doomed) = {} =>
               Chain(versions', v) = Chain(versions, v) \ prune.doomed]_vars
=============================================================================
