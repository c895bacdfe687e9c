------------------------------ MODULE MCContent ------------------------------
(* Two events, one of them scheduled, and the requests of an editor, of a    *)
(* contributor who may not publish, and of an administrator.                 *)
EXTENDS Content

CONSTANTS ed, wri, root, r1, r2

MCUsers == {ed, wri, root}
MCPermissionsOf ==
  ed :> GrantsData["moderator"] @@ root :> GrantsData["super-admin"]
    @@ wri :> Own({"create", "update", "delete"}, "Content", "authorId")
Symmetric == Permutations({r1, r2})

Str(n) == [String EXCEPT !.text = n, !.length = 5, !.plain = 5]
Day(n) == [String EXCEPT !.length = 10, !.plain = 10, !.day = n]

At(place, day) == "event_date" :> Day(day) @@ "location" :> Str(place)

MCValues == {Str(place) : place \in {"hall", "gate", "park"}} \cup {Day(0), Day(1)}
MCSettings == UNION {{d.rules, d.options} : d \in StoryFields \cup EventFields}

Event(author, title, data) ==
  [postTypeId |-> 2, authorId |-> author, title |-> title, slug |-> <<title, 1>>,
   data |-> data, status |-> "draft", scheduledAt |-> None, deleted |-> FALSE, version |-> 1]

MCFirstEntries ==
  {1 :> [Event(ed, "a", At("hall", 1)) EXCEPT !.status = "scheduled", !.scheduledAt = 1]
    @@ 2 :> [Event(wri, "b", At(place, 1)) EXCEPT !.status = status] @@ 3 :> None @@ 4 :> None :
     <<place, status>> \in {<<"hall", "draft">>, <<"gate", "published">>}}

Body == [title |-> None, data |-> None, status |-> None, scheduledAt |-> None, version |-> None]

MCCreations ==
  {[Body EXCEPT !.title = "a", !.data = At("hall", 1)],
   [Body EXCEPT !.title = "a", !.data = At("park", 0), !.status = "published"]}

MCEdits ==
  {[Body EXCEPT !.title = "c"], [Body EXCEPT !.data = "location" :> Str("park")],
   [Body EXCEPT !.title = "c", !.version = 2], [Body EXCEPT !.status = "published"],
   [Body EXCEPT !.status = "draft"],
   [Body EXCEPT !.status = "scheduled", !.scheduledAt = 2]}

MCTypeChanges ==
  {[name |-> None, isActive |-> FALSE], [name |-> "Talk", isActive |-> None]}

MCNewFields ==
  {[Field("location", "text", FALSE, 0, Unset, Unset) EXCEPT !.unique = TRUE]}
MCFieldChanges == {"unique" :> TRUE, "required" :> FALSE}
=============================================================================
