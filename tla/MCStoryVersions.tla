--------------------------- MODULE MCStoryVersions ---------------------------
(* An author's draft with a history, and a published reply of an editor's. *)
EXTENDS StoryVersions

CONSTANTS ann, ed, root, photo, scan, r1, r2

MCUsers == {ann, ed, root}
MCPermissionsOf ==
  ann :> GrantsData["user"] @@ ed :> GrantsData["admin"] @@ root :> GrantsData["super-admin"]
MCOwnerOf == photo :> ann @@ scan :> ed
Symmetric == Permutations({r1, r2})

MCFirstTags ==
  1 :> [name |-> "news", isSystem |-> TRUE, deleted |-> FALSE] @@ 2 :> None
MCFirstCategories ==
  1 :> [slug |-> "news", isActive |-> TRUE, deleted |-> FALSE]
    @@ 2 :> [slug |-> "news", isActive |-> TRUE, deleted |-> TRUE] @@ 3 :> None

Draft == [userId |-> ann, title |-> "b", fromTime |-> "noon", status |-> "DRAFT",
          deleted |-> FALSE, parent |-> None, tags |-> {1}, categories |-> {1},
          files |-> {}, image |-> None, version |-> 4]
Reply(deleted) ==
  [Draft EXCEPT !.userId = ed, !.parent = 1, !.deleted = deleted,
                !.status = IF deleted THEN "DELETED" ELSE "PUBLISHED"]
MCFirstStories ==
  {1 :> Draft @@ 2 :> Reply(d) @@ 3 :> None : d \in BOOLEAN}

OldContent == [title |-> "a", fromTime |-> None, status |-> "DRAFT", tags |-> {},
               categories |-> {}, image |-> None]
MadeFrom(n, type, branch, parent, content) ==
  [Version(1, branch, type, parent, content) EXCEPT !.number = n]

\* One by hand, three automatic ones and a branch from the first.
MCFirstVersions ==
  {1 :> MadeFrom(1, "MANUAL", "main", None, OldContent)
    @@ 2 :> MadeFrom(2, "AUTO", "main", 1, [OldContent EXCEPT !.tags = {1}])
    @@ 3 :> MadeFrom(3, "AUTO", "main", 2, [OldContent EXCEPT !.title = "b"])
    @@ 4 :> MadeFrom(4, "BRANCH", "try", 1, OldContent)
    @@ 5 :> MadeFrom(5, "AUTO", "main", 3, [OldContent EXCEPT !.title = "b",
               !.fromTime = "noon", !.tags = {1}, !.categories = {1}])
    @@ 6 :> None @@ 7 :> None}

Body == [version |-> None, title |-> None, fromTime |-> None, status |-> None,
         parent |-> None, tagIds |-> {}, names |-> {}, categoryIds |-> {}]

MCNewStories ==
  {[Body EXCEPT !.title = "a", !.status = "DRAFT", !.parent = 1],
   [Body EXCEPT !.title = "a", !.status = "PUBLISHED", !.names = {"new"}]}

MCEdits ==
  {[Body EXCEPT !.title = "a"],
   [Body EXCEPT !.title = "c", !.fromTime = "noon", !.version = 5],
   [Body EXCEPT !.status = "PUBLISHED"],
   [Body EXCEPT !.parent = 1], [Body EXCEPT !.parent = 2], [Body EXCEPT !.parent = Null],
   [Body EXCEPT !.names = {"new"}, !.tagIds = {1}, !.categoryIds = {1}]}

MCLinkChanges ==
  LET Links == [add |-> TRUE, tagIds |-> {}, names |-> {}, categoryIds |-> {}, files |-> {}]
  IN  {[Links EXCEPT !.files = {photo}], [Links EXCEPT !.names = {"new"}],
       [Links EXCEPT !.add = FALSE, !.tagIds = {1}, !.categoryIds = {1}]}

MCSnapshots ==
  {[branch |-> "main", type |-> "MANUAL", tag |-> "final", pinned |-> TRUE],
   [branch |-> "try", type |-> "AUTO", tag |-> None, pinned |-> FALSE]}
MCRollbacks == {[number |-> 1, branch |-> None], [number |-> 2, branch |-> "try"]}
MCNewBranches == {[branch |-> "new", number |-> None], [branch |-> "new", number |-> 3]}
MCMerges ==
  {[from |-> "try", number |-> 4, into |-> "main", resolves |-> FALSE, resolved |-> <<>>],
   [from |-> "main", number |-> 3, into |-> "try", resolves |-> TRUE,
    resolved |-> [title |-> "a"]]}
=============================================================================
