----------------------------- MODULE MCSessions -----------------------------
(* Two requests that run at the same time, one session at the start and a  *)
(* limit of one, so that every second session must make room.              *)
EXTENDS Sessions, TLC

Symmetry == Permutations(Requests) \cup Permutations(Passwords)

Number(p) == IF p THEN 1 ELSE 0

Place(r) == IF at[r] = "drop" THEN my[r].next ELSE at[r]

Ending == {"logout", "logoutAll", "change", "adminRevoke", "adminCommit", "suspended"}

Opening == {"lock", "verify", "rehash", "count", "list", "evict", "insert",
            "owner", "recheck", "rotate"}

\* An ended session that nothing refers to keeps its predecessor only.
Seen(s) ==
  IF sessions[s].live \/ s \in cache.access \/ \E r \in Requests : my[r].sid = s
  THEN sessions[s]
  ELSE [sessions[s] EXCEPT !.expired = FALSE, !.cv = 0, !.checked = 0]

\* Bounds: one value is in the cache; the account has one peculiarity at a time
\* (an expired session is one); of the requests, one logs out, changes the password
\* or is an administrator's while the others sign in, refresh or reset by a link,
\* and there is a number left for each session they are opening.
Constraint ==
  /\ Number(cache.count # None) + Number(cache.list # None)
       + Cardinality(cache.access) <= 1
  /\ Number(user.low) + Number(user.force) + Number(user.locked)
       + Number(~user.active) + Number(\E l \in Links : link[l] = "sent")
       + Cardinality({s \in Ids : Seen(s).expired}) <= 1
  /\ Cardinality({r \in Requests : Place(r) \in Ending}) <= 1
  /\ created + Cardinality({r \in Requests : Place(r) \in Opening}) <= MaxSessions

\* What the rest of a request can read of its local variables; the history
\* variables of properties that are not checked here are left out.
Read(r) ==
  [my[r] EXCEPT
     !.size = 0,
     !.pw = IF Place(r) \in {"count", "list", "evict", "insert", "temp"}
            THEN None ELSE @,
     !.active = @ /\ Place(r) \in {"lock", "verify"},
     !.force = @ /\ Place(r) \in {"lock", "verify", "rehash", "adminRevoke", "adminCommit"},
     !.next = IF at[r] = "drop" THEN @ ELSE "idle"]

Canonical ==
  <<user, holder, [s \in Ids |-> Seen(s)], created, cache, lost, link, at,
    [r \in Requests |-> Read(r)]>>

=============================================================================
