------------------------------ MODULE Sessions ------------------------------
(***************************************************************************)
(* The sessions of one user (src/modules/auth): sign-in, rotation of       *)
(* refresh tokens, logout, and the changes of credentials and of access    *)
(* that must end sessions: reset by email link, change by the user, reset  *)
(* by an administrator, lock and deactivation.                             *)
(*                                                                         *)
(* Requests are slots: each runs one request after another, one await at a *)
(* time, and may die between any two.  Sessions are numbered in the order  *)
(* of their creation, which is the order makeRoomForNewSession evicts them *)
(* in.  Counts, lists and access statuses are read through the cache of    *)
(* module Cache: a fill that an invalidation overtook is not stored, so    *)
(* here a fill is one step and every write is followed by an invalidation  *)
(* in a step of its own, which may be lost.                                *)
(***************************************************************************)
EXTENDS Naturals, FiniteSets

CONSTANTS Requests,              \* request slots
          Passwords,
          maxConcurrentSessions,
          Opened,                \* live sessions at the start
          MaxSessions,           \* bound: sessions
          MaxVersion,            \* bound: credential resets
          Links,                 \* bound: reset links ever sent
          None

VARIABLES user,     \* the users row
          holder,   \* the transaction that holds the lock on that row, or None
          sessions, \* the sessions rows
          created,  \* how many there are
          cache,    \* Redis: the count, the list and the access statuses
          lost,     \* an invalidation of cached values was lost and none came since
          link,     \* the reset links
          at,       \* where each request is
          my,       \* its local variables
          newest    \* history: the password set last

vars == <<user, holder, sessions, created, cache, lost, link, at, my, newest>>

Ids == 1..MaxSessions
Versions == 0..MaxVersion

ASSUME ConstantsAssumption ==
  /\ maxConcurrentSessions \in Nat \ {0}
  /\ Opened \in Nat
  /\ MaxSessions \in Nat
  /\ Opened <= MaxSessions
  /\ Opened <= maxConcurrentSessions
  /\ MaxVersion \in Nat
  /\ None \notin Requests
  /\ None \notin Nat
  /\ None \notin Passwords
  /\ \A listed \in SUBSET Ids : listed # None

\* hash: of this password (the column may be null); low: at a lower cost than
\* configured; version: credentialsVersion; force: forcePasswordChange.
UserRow == [hash : Passwords \cup {None}, low : BOOLEAN, version : Versions,
            active : BOOLEAN, locked : BOOLEAN, force : BOOLEAN]

\* live: isActive and not deleted; cv: credentialsVersion; from: the session it
\* succeeds, or 0.  checked is history: the user's version when the password that
\* opened the family of the session was verified.
SessionRow == [live : BOOLEAN, expired : BOOLEAN, cv : Versions,
               checked : Versions, from : 0..MaxSessions]

\* access: the sessions whose status is cached as active.  A cached refusal is left
\* out: it is never wrong, since a session that ended stays ended.
CacheType == [count : Nat \cup {None}, list : (SUBSET Ids) \cup {None},
              access : SUBSET Ids]

Places == {"idle", "lock", "verify", "rehash", "temp", "count", "list", "evict",
           "insert", "drop", "owner", "recheck", "rotate", "logout", "logoutAll",
           "reset", "change", "adminRevoke", "adminCommit", "suspended"}

\* sid: the session a request works on (0: none); pw: the password presented or to
\* be set; size: the length of the list read; next: where to go after "drop".
Locals == [sid : 0..MaxSessions, pw : Passwords \cup {None}, cv : Versions, checked : Versions,
           active : BOOLEAN, force : BOOLEAN, size : Nat, todo : SUBSET Ids,
           next : Places, link : Links \cup {None}]

Blank == [sid |-> 0, pw |-> None, cv |-> 0, checked |-> 0,
          active |-> FALSE, force |-> FALSE, size |-> 0, todo |-> {},
          next |-> "idle", link |-> None]

NoCache == [count |-> None, list |-> None, access |-> {}]

-----------------------------------------------------------------------------
Alive == {s \in 1..created : sessions[s].live}

\* What the queries of active sessions return.
Live == {s \in Alive : ~sessions[s].expired}

\* isUsableForAccess, from the cache or from the database.
Usable(s) == /\ ~sessions[s].expired
             /\ \/ s \in cache.access
                \/ sessions[s].live

\* JwtStrategy.validate for an access token of session s.
Accepted(s) == /\ Usable(s)
               /\ user.active
               /\ sessions[s].cv = user.version

Authenticated == \E s \in 1..created : Accepted(s)

\* slice(0, n - max + 1) of a list of n: a negative end counts from the list's end.
SliceEnd(n) ==
  IF n + 1 >= maxConcurrentSessions THEN n + 1 - maxConcurrentSessions
  ELSE IF 2 * n + 1 >= maxConcurrentSessions THEN 2 * n + 1 - maxConcurrentSessions
  ELSE 0

Excess(listed) ==
  {s \in listed : Cardinality({t \in listed : t < s}) < SliceEnd(Cardinality(listed))}

Free == holder = None

Go(r, place) == at' = [at EXCEPT ![r] = place]
Leave(r) == at' = [at EXCEPT ![r] = "idle"] /\ my' = [my EXCEPT ![r] = Blank]
Set(r, locals) == my' = [my EXCEPT ![r] = locals]

\* The invalidation the repository sends next, and what follows it.
DropThen(r, place, locals) ==
  Go(r, "drop") /\ Set(r, [locals EXCEPT !.next = place])

Ended(ss) ==
  [s \in Ids |-> IF s \in ss THEN [sessions[s] EXCEPT !.live = FALSE] ELSE sessions[s]]

\* Mutant: a revocation sends no invalidation.
RevokeSilently(r, s, place, locals) ==
  sessions' = Ended({s}) /\ Go(r, place) /\ Set(r, locals)

\* revokeSession: one conditional UPDATE, then the invalidation.
RevokeThen(r, s, place, locals) ==
  IF sessions[s].live
  THEN sessions' = Ended({s}) /\ DropThen(r, place, locals)
  ELSE UNCHANGED sessions /\ Go(r, place) /\ Set(r, locals)

-----------------------------------------------------------------------------
(* Sign-in: validateUser and login. *)

Login(r) ==
  /\ at[r] = "idle"
  /\ \E p \in Passwords :
       Set(r, [Blank EXCEPT !.pw = p, !.cv = user.version,
                            !.active = user.active, !.force = user.force])
  /\ Go(r, "lock")
  /\ UNCHANGED <<user, holder, sessions, created, cache, lost, link, newest>>

CheckLock(r) ==
  /\ at[r] = "lock"
  /\ IF user.locked THEN Leave(r) ELSE Go(r, "verify") /\ UNCHANGED my
  /\ UNCHANGED <<user, holder, sessions, created, cache, lost, link, newest>>

\* A user who must change the password gets a token for that only.
Admitted(r) == IF my[r].force THEN "temp" ELSE "count"

Verify(r) ==
  /\ at[r] = "verify"
  /\ IF my[r].pw # user.hash \/ ~my[r].active
     THEN Leave(r)
     ELSE /\ Set(r, [my[r] EXCEPT !.checked = user.version])
          /\ Go(r, IF user.low THEN "rehash" ELSE Admitted(r))
  /\ UNCHANGED <<user, holder, sessions, created, cache, lost, link, newest>>

\* upgradePasswordHash: stores its own hash, or fails and is ignored.
Rehash(r) ==
  /\ at[r] = "rehash"
  /\ \/ Free /\ user' = [user EXCEPT !.hash = my[r].pw, !.low = FALSE]
     \/ UNCHANGED user
  /\ Go(r, Admitted(r))
  /\ UNCHANGED <<holder, sessions, created, cache, lost, link, my, newest>>

-----------------------------------------------------------------------------
(* createSession, for a login and for a refresh. *)

CountSessions(r) ==
  /\ at[r] = "count"
  /\ \E n \in {cache.count, Cardinality(Live)} \ {None} :
       /\ \/ UNCHANGED cache
          \/ n = Cardinality(Live) /\ cache' = [cache EXCEPT !.count = n]
       /\ Go(r, IF n < maxConcurrentSessions THEN "insert" ELSE "list")
  /\ UNCHANGED <<user, holder, sessions, created, lost, link, my, newest>>

ListSessions(r) ==
  /\ at[r] = "list"
  /\ \E listed \in {cache.list, Live} \ {None} :
       /\ \/ UNCHANGED cache
          \/ listed = Live /\ cache' = [cache EXCEPT !.list = listed]
       /\ Set(r, [my[r] EXCEPT !.size = Cardinality(listed), !.todo = Excess(listed)])
  /\ Go(r, IF my'[r].todo = {} THEN "insert" ELSE "evict")
  /\ UNCHANGED <<user, holder, sessions, created, lost, link, newest>>

EvictOldest(r) ==
  /\ at[r] = "evict"
  /\ \E s \in my[r].todo :
       /\ \A t \in my[r].todo : s <= t
       /\ RevokeThen(r, s, IF my[r].todo = {s} THEN "insert" ELSE "evict",
                     [my[r] EXCEPT !.todo = @ \ {s}])
  /\ UNCHANGED <<user, holder, created, cache, lost, link, newest>>

\* Mutant: the version of the credentials is read when the session is created.
NewRowCurrent(r) == [live |-> TRUE, expired |-> FALSE, cv |-> user.version,
                     checked |-> my[r].checked, from |-> my[r].sid]

NewRow(r) == [live |-> TRUE, expired |-> FALSE, cv |-> my[r].cv,
              checked |-> my[r].checked, from |-> my[r].sid]

InsertSession(r) ==
  /\ at[r] = "insert"
  /\ created < MaxSessions
  /\ created' = created + 1
  /\ sessions' = [sessions EXCEPT ![created + 1] = NewRow(r)]
  /\ DropThen(r, "idle", Blank)
  /\ UNCHANGED <<user, holder, cache, lost, link, newest>>

-----------------------------------------------------------------------------
(* Invalidation, which may be lost; the death of a request; time. *)

Proceed(r) == IF my[r].next = "idle" THEN Leave(r) ELSE Go(r, my[r].next) /\ UNCHANGED my

Drop(r) ==
  /\ at[r] = "drop"
  /\ cache' = NoCache
  /\ lost' = FALSE
  /\ Proceed(r)
  /\ UNCHANGED <<user, holder, sessions, created, link, newest>>

DropLost(r) ==
  /\ at[r] = "drop"
  /\ lost' = (cache # NoCache)
  /\ Proceed(r)
  /\ UNCHANGED <<user, holder, sessions, created, cache, link, newest>>

Die(r) ==
  /\ at[r] # "idle"
  /\ Leave(r)
  /\ lost' = (lost \/ (at[r] = "drop" /\ cache # NoCache))
  /\ holder' = (IF holder = r THEN None ELSE holder)
  /\ UNCHANGED <<user, sessions, created, cache, link, newest>>

Expire(s) ==
  /\ ~sessions[s].expired
  /\ sessions' = [sessions EXCEPT ![s].expired = TRUE]
  /\ UNCHANGED <<user, holder, created, cache, lost, link, at, my, newest>>

\* A request with an access token of s fills the access status.
UseToken(s) ==
  /\ sessions[s].live
  /\ cache' = [cache EXCEPT !.access = @ \cup {s}]
  /\ UNCHANGED <<user, holder, sessions, created, lost, link, at, my, newest>>

-----------------------------------------------------------------------------
(* Rotation: refresh and refreshSession. *)

\* validateSession of a live session.  It may record the activity, which changes
\* nothing modelled here; its invalidation is a miss of the cache, possible anyway.
Validated(r, s, place, locals) ==
  ~sessions[s].expired /\ Go(r, place) /\ Set(r, locals) /\ UNCHANGED sessions

\* An expired session or a wrong secret: the session ends.
Refused(r, s) == RevokeThen(r, s, "idle", Blank)

Refresh(r, s) ==
  /\ at[r] = "idle"
  /\ sessions[s].live
  /\ \/ Validated(r, s, "owner", [Blank EXCEPT !.sid = s, !.cv = sessions[s].cv,
                                               !.checked = sessions[s].checked])
     \/ Refused(r, s)
  /\ UNCHANGED <<user, holder, created, cache, lost, link, newest>>

CheckOwner(r) ==
  /\ at[r] = "owner"
  /\ IF user.active /\ my[r].cv = user.version
     THEN Go(r, "recheck") /\ UNCHANGED <<sessions, my>>
     ELSE Refused(r, my[r].sid)
  /\ UNCHANGED <<user, holder, created, cache, lost, link, newest>>

Recheck(r) ==
  /\ at[r] = "recheck"
  /\ IF ~sessions[my[r].sid].live THEN Leave(r) /\ UNCHANGED sessions
     ELSE IF sessions[my[r].sid].expired THEN Refused(r, my[r].sid)
     ELSE Go(r, "rotate") /\ UNCHANGED <<sessions, my>>
  /\ UNCHANGED <<user, holder, created, cache, lost, link, newest>>

\* Mutants: whether the revocation changed a row is not looked at; the old session
\* is left for its successor to end.
RotateAnyway(r) ==
  /\ at[r] = "rotate"
  /\ RevokeThen(r, my[r].sid, "count", my[r])
  /\ UNCHANGED <<user, holder, created, cache, lost, link, newest>>

RotateLater(r) ==
  /\ at[r] = "rotate"
  /\ IF sessions[my[r].sid].live
     THEN Go(r, "count") /\ UNCHANGED <<sessions, my>>
     ELSE Leave(r) /\ UNCHANGED sessions
  /\ UNCHANGED <<user, holder, created, cache, lost, link, newest>>

Rotate(r) ==
  /\ at[r] = "rotate"
  /\ IF sessions[my[r].sid].live
     THEN RevokeThen(r, my[r].sid, "count", my[r])
     ELSE Leave(r) /\ UNCHANGED sessions
  /\ UNCHANGED <<user, holder, created, cache, lost, link, newest>>

-----------------------------------------------------------------------------
(* Logout, of one session or of all. *)

Logout(r, s) ==
  /\ at[r] = "idle"
  /\ Authenticated
  /\ sessions[s].live
  /\ \/ \E place \in {"logout", "logoutAll"} :
          Validated(r, s, place, [Blank EXCEPT !.sid = s])
     \/ Refused(r, s)
  /\ UNCHANGED <<user, holder, created, cache, lost, link, newest>>

LogoutSession(r) ==
  /\ at[r] = "logout"
  /\ RevokeThen(r, my[r].sid, "idle", Blank)
  /\ UNCHANGED <<user, holder, created, cache, lost, link, newest>>

\* revokeAllSessions on its own: after logoutAll, and for a suspended user.
RevokeAll(r) ==
  /\ at[r] \in {"logoutAll", "suspended"}
  /\ sessions' = Ended(Alive)
  /\ DropThen(r, "idle", Blank)
  /\ UNCHANGED <<user, holder, created, cache, lost, link, newest>>

-----------------------------------------------------------------------------
(* Credentials. *)

\* A new link expires the ones sent before.
SendLink(l) ==
  /\ user.active
  /\ link[l] = "unsent"
  /\ user.version < MaxVersion
  /\ link' = [k \in Links |-> IF k = l THEN "sent"
                              ELSE IF link[k] = "sent" THEN "expired" ELSE link[k]]
  /\ UNCHANGED <<user, holder, sessions, created, cache, lost, at, my, newest>>

StartReset(r) ==
  /\ at[r] = "idle"
  /\ user.active
  /\ user.version < MaxVersion
  /\ \E l \in Links, p \in Passwords \ {user.hash} :
       /\ link[l] = "sent"
       /\ Set(r, [Blank EXCEPT !.link = l, !.pw = p])
  /\ Go(r, "reset")
  /\ UNCHANGED <<user, holder, sessions, created, cache, lost, link, newest>>

\* The transaction of resetPassword: it claims the link, or fails.
ResetPassword(r) ==
  /\ at[r] = "reset"
  /\ Free
  /\ IF link[my[r].link] = "used"
     THEN Leave(r) /\ UNCHANGED <<user, sessions, link, newest>>
     ELSE /\ user.version < MaxVersion
          /\ link' = [link EXCEPT ![my[r].link] = "used"]
          /\ user' = [user EXCEPT !.hash = my[r].pw, !.low = FALSE, !.version = @ + 1]
          /\ newest' = my[r].pw
          /\ sessions' = Ended(Alive)
          /\ DropThen(r, "idle", Blank)
  /\ UNCHANGED <<holder, created, cache, lost>>

\* By the user, with an access token or with a token for that only.
StartChange(r) ==
  /\ \E s \in 0..created, p \in Passwords \ {user.hash} :
       /\ IF s = 0
          THEN at[r] = "temp" /\ user.active /\ my[r].cv = user.version
          ELSE at[r] = "idle" /\ Accepted(s)
       /\ Set(r, [Blank EXCEPT !.sid = s, !.pw = p])
  /\ Go(r, "change")
  /\ UNCHANGED <<user, holder, sessions, created, cache, lost, link, newest>>

\* Ends the other sessions unless the user chose to keep them.
ChangePassword(r) ==
  /\ at[r] = "change"
  /\ Free
  /\ user' = [user EXCEPT !.hash = my[r].pw, !.low = FALSE, !.force = FALSE]
  /\ newest' = my[r].pw
  /\ \/ /\ Alive \ {my[r].sid} # {}
        /\ sessions' = Ended(Alive \ {my[r].sid})
        /\ DropThen(r, "idle", Blank)
     \/ Leave(r) /\ UNCHANGED sessions
  /\ UNCHANGED <<holder, created, cache, lost, link>>

-----------------------------------------------------------------------------
(* Administrators. *)

StartAdminReset(r) ==
  /\ at[r] = "idle"
  /\ user.active
  /\ user.version < MaxVersion
  /\ \E p \in Passwords, force \in BOOLEAN :
       Set(r, [Blank EXCEPT !.pw = p, !.force = force])
  /\ Go(r, "adminRevoke")
  /\ UNCHANGED <<user, holder, sessions, created, cache, lost, link, newest>>

\* The row is updated, not committed, when the listener ends the sessions on a
\* connection of its own.
AdminRevoke(r) ==
  /\ at[r] = "adminRevoke"
  /\ Free
  /\ user.version < MaxVersion
  /\ holder' = r
  /\ sessions' = Ended(Alive)
  /\ DropThen(r, "adminCommit", my[r])
  /\ UNCHANGED <<user, created, cache, lost, link, newest>>

AdminCommit(r) ==
  /\ at[r] = "adminCommit"
  /\ user' = [user EXCEPT !.hash = my[r].pw, !.low = FALSE, !.force = my[r].force,
                          !.version = @ + 1]
  /\ newest' = my[r].pw
  /\ holder' = None
  /\ Leave(r)
  /\ UNCHANGED <<sessions, created, cache, lost, link>>

\* Locks or deactivates the account; the listener then ends the sessions.
Suspend(r) ==
  /\ at[r] = "idle"
  /\ Free
  /\ \/ user.active /\ user' = [user EXCEPT !.active = FALSE]
     \/ ~user.locked /\ user' = [user EXCEPT !.locked = TRUE]
  /\ Go(r, "suspended")
  /\ UNCHANGED <<holder, sessions, created, cache, lost, link, my, newest>>

Reinstate ==
  /\ Free
  /\ \/ user.locked /\ user' = [user EXCEPT !.locked = FALSE]
     \/ ~user.active /\ user' = [user EXCEPT !.active = TRUE]
  /\ UNCHANGED <<holder, sessions, created, cache, lost, link, at, my, newest>>

-----------------------------------------------------------------------------
Init ==
  /\ user \in [hash : Passwords, low : BOOLEAN, version : {0},
               active : {TRUE}, locked : {FALSE}, force : {FALSE}]
  /\ holder = None
  /\ sessions = [s \in Ids |-> [live |-> s <= Opened, expired |-> FALSE, cv |-> 0,
                                checked |-> 0, from |-> 0]]
  /\ created = Opened
  /\ cache = NoCache
  /\ lost = FALSE
  /\ link = [l \in Links |-> "unsent"]
  /\ at = [r \in Requests |-> "idle"]
  /\ my = [r \in Requests |-> Blank]
  /\ newest = user.hash

Next ==
  \/ \E r \in Requests :
       \/ Login(r) \/ CheckLock(r) \/ Verify(r) \/ Rehash(r)
       \/ CountSessions(r) \/ ListSessions(r) \/ EvictOldest(r) \/ InsertSession(r)
       \/ Drop(r) \/ DropLost(r) \/ Die(r)
       \/ \E s \in 1..created : Refresh(r, s) \/ Logout(r, s)
       \/ CheckOwner(r) \/ Recheck(r) \/ Rotate(r)
       \/ LogoutSession(r) \/ RevokeAll(r)
       \/ StartReset(r) \/ ResetPassword(r) \/ StartChange(r) \/ ChangePassword(r)
       \/ StartAdminReset(r) \/ AdminRevoke(r) \/ AdminCommit(r) \/ Suspend(r)
  \/ \E s \in 1..created : Expire(s) \/ UseToken(s)
  \/ \E l \in Links : SendLink(l)
  \/ Reinstate

Spec == Init /\ [][Next]_vars

-----------------------------------------------------------------------------
(* The columns of the tables, the cached values and the local variables of *)
(* requests are what the code declares; sessions past `created` are unused. *)
TypeOK ==
  /\ user \in UserRow
  /\ holder \in Requests \cup {None}
  /\ sessions \in [Ids -> SessionRow]
  /\ created \in 0..MaxSessions
  /\ cache \in CacheType
  /\ lost \in BOOLEAN
  /\ link \in [Links -> {"unsent", "sent", "expired", "used"}]
  /\ at \in [Requests -> Places]
  /\ my \in [Requests -> Locals]
  /\ newest \in Passwords \cup {None}

(* A session that access checks accept belongs to a family whose password  *)
(* was verified under the credentials in force now: whatever reset commits *)
(* while a login or a refresh awaits, what it was about to open is void    *)
(* (auth.service.ts: credentialsVersion is read before the password is).   *)
ResetVoids == \A s \in 1..created : Accepted(s) => sessions[s].checked = user.version

(* A refresh token is rotated once: however many refreshes present it, at  *)
(* most one session succeeds it (refreshSession, revokeSession).           *)
OneSuccessor ==
  \A s, t \in 1..created :
    sessions[s].from = sessions[t].from /\ sessions[s].from # 0 => s = t

(* A session and its successor are never usable together: rotation ends    *)
(* the old one before the new one exists.                                  *)
RotatedIsOver ==
  \A s \in 1..created : sessions[s].from # 0 => ~sessions[sessions[s].from].live

(* An access token of an ended session passes only while an invalidation   *)
(* is on its way, or was lost (session.repository.ts, ACCESS_STATUS_TTL).  *)
TokenDiesWithSession ==
  \A s \in 1..created :
    s \in cache.access /\ ~sessions[s].live
      => lost \/ \E r \in Requests : at[r] = "drop"

(* "a new login revokes the oldest ones beyond that" (sessions.service.ts, *)
(* SessionsService): what makeRoomForNewSession revokes are the sessions   *)
(* of its list beyond the limit, so of a list below the limit none.        *)
OnlyExcessRevoked ==
  \A r \in Requests : my[r].todo # {} => my[r].size >= maxConcurrentSessions

(* "You can now log in with your new password." (resetPassword): the hash  *)
(* stored is that of the password set last.                                *)
NewPasswordStands == user.hash = newest

=============================================================================
