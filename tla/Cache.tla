------------------------------- MODULE Cache -------------------------------
(***************************************************************************)
(* The read-through cache of repositories (src/core/cache and              *)
(* base.repository.ts).  Redis holds an entry per cached query, tag sets   *)
(* that say which entries a write must drop, and for every tag the number  *)
(* of its latest invalidation.  A fill takes a fence (the current number), *)
(* loads from PostgreSQL and sends the value, which Redis stores unless a  *)
(* tag of it was invalidated since.  A write commits, and then invalidates *)
(* its tags one by one; an invalidation may fail, or its process die       *)
(* before it.  A call that times out is not cancelled: Redis may execute   *)
(* its command at any later time.                                          *)
(*                                                                         *)
(* The entries are those of one entity (stories): one per row, one that is *)
(* a list, one that is a selection.  Rows embed parts: rows of another     *)
(* entity (categories), written through a repository of their own.         *)
(***************************************************************************)
EXTENDS Naturals

CONSTANTS Rows,      \* rows of the cached entity
          Parts,     \* rows of the other entity
          Fills,     \* concurrent calls of cached()
          Writers,   \* concurrent writes
          Ttl,       \* time to live of each entry, in ticks
          SetMargin, \* how much longer a tag set lives
          FenceTtl,  \* FENCE_TTL_SECONDS, in ticks
          MaxAge,    \* MAX_FILL_MS: age of a fence at which its value can still be sent
          CallTimeout, \* ticks after which a caller of Redis stops waiting
          MaxWrites, \* bound: committed writes
          NoEntry    \* the key is not in Redis

VARIABLES ver,      \* PostgreSQL: each item's version, one per write
          live,     \* items that exist and are not soft-deleted
          links,    \* the parts of each row
          pick,     \* the row the selection's query finds, if it is live
          stored,   \* Redis: the entries
          left,     \* ticks until an entry expires
          sets,     \* the tag sets
          setLeft,  \* ticks until a tag set expires
          seq,      \* the invalidation number
          fence,    \* number of each tag's latest invalidation, kept for FenceTtl
          fenceAge, \* and its age
          stage,    \* what each fill has done
          key,      \* its entry
          since,    \* the fence it took
          age,      \* the age of that, counted up to FenceTtl
          loaded,   \* what it loaded
          wait,     \* ticks since it sent that, counted until its caller stops waiting
          overdue,  \* history: entries stored after that, when fences had expired
          owed,     \* invalidations a writer still has to send, by tag
          lostTags, \* tags whose invalidation failed or died with its process
          writes    \* committed writes

Items == Rows \cup Parts
Entries == Rows \cup {"list", "first"}
Tags == Items \cup {"all", "list"}

database == <<ver, live, links, pick>>
redis == <<stored, left, sets, setLeft, seq, fence, fenceAge>>
fills == <<stage, key, since, age, loaded, wait>>
cacheVars == <<ver, live, links, pick, stored, left, sets, setLeft, seq, fence, fenceAge,
               stage, key, since, age, loaded, wait, overdue, owed, lostTags, writes>>

\* What a value shows: the version of each item in it, and 0 for the others.
Contents == [Items -> Nat]

ASSUME CacheAssumption ==
  /\ Rows \cap Parts = {}
  /\ {"all", "list", "first"} \cap Items = {}
  /\ Ttl \in [Entries -> Nat \ {0}]
  /\ SetMargin \in Nat
  /\ FenceTtl \in Nat
  /\ MaxAge \in Nat
  /\ CallTimeout \in Nat
  /\ MaxAge + CallTimeout < FenceTtl
  /\ MaxWrites \in Nat
  /\ NoEntry \notin Contents

-----------------------------------------------------------------------------
\* The rows the query behind an entry returns.
Answer(e) == IF e \in Rows THEN {e} \cap live
             ELSE IF e = "list" THEN Rows \cap live ELSE {pick} \cap live

Seen(e) == Answer(e) \cup {p \in Parts \cap live : \E r \in Answer(e) : p \in links[r]}

View(e) == [i \in Items |-> IF i \in Seen(e) THEN ver[i] ELSE 0]

Shows(c) == {i \in Items : c[i] # 0}

\* cacheSet: entity tag, row tag or list tag or both, and row tags of the parts.
TagsOf(e, c) ==
  {"all"} \cup (Shows(c) \cap Parts)
          \cup (IF e = "list" THEN {} ELSE Shows(c) \cap Rows)
          \cup (IF e \in Rows THEN {} ELSE {"list"})

\* Mutants: only the entity tag is compared with the fence; the TTL of a set
\* is given when the set is created and never extended.
InvalidatedEntity(f) == fence["all"] > since[f]
SetTtlOnce(e, t) == IF setLeft[t] = 0 THEN Ttl[e] + SetMargin ELSE setLeft[t]

\* A tag of the value was invalidated after the fence, as far as Redis knows.
Invalidated(f) == \E t \in TagsOf(key[f], loaded[f]) : fence[t] > since[f]

Nothing == [i \in Items |-> 0]

\* A set's TTL only grows.
SetTtl(e, t) ==
  IF setLeft[t] < Ttl[e] + SetMargin THEN Ttl[e] + SetMargin ELSE setLeft[t]

-----------------------------------------------------------------------------
CacheInit ==
  /\ ver = [i \in Items |-> 1]
  /\ live \in SUBSET Items
  /\ links \in [Rows -> SUBSET Parts]
  /\ pick \in Rows
  /\ stored = [e \in Entries |-> NoEntry]
  /\ left = [e \in Entries |-> 0]
  /\ sets = [t \in Tags |-> {}]
  /\ setLeft = [t \in Tags |-> 0]
  /\ seq = 0
  /\ fence = [t \in Tags |-> 0]
  /\ fenceAge = [t \in Tags |-> 0]
  /\ stage = [f \in Fills |-> "idle"]
  /\ key = [f \in Fills |-> "list"]
  /\ since = [f \in Fills |-> 0]
  /\ age = [f \in Fills |-> 0]
  /\ loaded = [f \in Fills |-> Nothing]
  /\ wait = [f \in Fills |-> 0]
  /\ overdue = {}
  /\ owed = [w \in Writers |-> {}]
  /\ lostTags = {}
  /\ writes = 0

\* cached: the entry was not found when it was asked for (it may be there by
\* now, and a get that fails is a miss, too), and the fence is taken.
Fence(f) ==
  /\ stage[f] = "idle"
  /\ \E e \in Entries : key' = [key EXCEPT ![f] = e]
  /\ since' = [since EXCEPT ![f] = seq]
  /\ age' = [age EXCEPT ![f] = 0]
  /\ stage' = [stage EXCEPT ![f] = "fenced"]
  /\ UNCHANGED <<database, redis, loaded, wait, overdue, owed, lostTags, writes>>

\* The load, one query.
Load(f) ==
  /\ stage[f] = "fenced"
  /\ loaded' = [loaded EXCEPT ![f] = View(key[f])]
  /\ stage' = [stage EXCEPT ![f] = "loaded"]
  /\ UNCHANGED <<database, redis, key, since, age, wait, overdue, owed, lostTags, writes>>

EndFill(f) ==
  /\ stage' = [stage EXCEPT ![f] = "idle"]
  /\ key' = [key EXCEPT ![f] = "list"]
  /\ since' = [since EXCEPT ![f] = 0]
  /\ age' = [age EXCEPT ![f] = 0]
  /\ loaded' = [loaded EXCEPT ![f] = Nothing]
  /\ wait' = [wait EXCEPT ![f] = 0]

\* A null would read back as a miss; a list may be empty.
Cacheable(e, c) == e = "list" \/ Shows(c) # {}

\* cacheSet: a value that was loaded in time is sent to Redis.
Send(f) ==
  /\ stage[f] = "loaded"
  /\ age[f] <= MaxAge
  /\ Cacheable(key[f], loaded[f])
  /\ stage' = [stage EXCEPT ![f] = "sent"]
  /\ UNCHANGED <<database, redis, key, since, age, loaded, wait, overdue, owed, lostTags, writes>>

\* Its caller has stopped waiting, and no invalidation it raced with is on record.
Overdue(f) == wait[f] > CallTimeout /\ age[f] >= FenceTtl

\* Redis executes TAG_SCRIPT, whenever the command reaches it.  A refused fill
\* also deletes the entry.
Store(f) ==
  /\ stage[f] = "sent"
  /\ LET e == key[f]
         tags == TagsOf(e, loaded[f]) IN
     \/ /\ Invalidated(f)
        /\ stored' = [stored EXCEPT ![e] = NoEntry]
        /\ left' = [left EXCEPT ![e] = 0]
        /\ overdue' = overdue \ {e}
        /\ UNCHANGED <<sets, setLeft>>
     \/ /\ ~Invalidated(f)
        /\ stored' = [stored EXCEPT ![e] = loaded[f]]
        /\ left' = [left EXCEPT ![e] = Ttl[e]]
        /\ overdue' = IF Overdue(f) THEN overdue \cup {e} ELSE overdue \ {e}
        /\ sets' = [t \in Tags |-> IF t \in tags THEN sets[t] \cup {e} ELSE sets[t]]
        /\ setLeft' = [t \in Tags |-> IF t \in tags THEN SetTtl(e, t) ELSE setLeft[t]]
  /\ EndFill(f)
  /\ UNCHANGED <<database, seq, fence, fenceAge, owed, lostTags, writes>>

\* There is nothing to cache, the load took MAX_FILL_MS, a call of Redis or
\* PostgreSQL fails, or the command is lost before Redis executes it.
GiveUp(f) ==
  /\ stage[f] \in {"fenced", "loaded", "sent"}
  /\ EndFill(f)
  /\ UNCHANGED <<database, redis, overdue, owed, lostTags, writes>>

\* A write of w commits; it then owes the invalidation of tags.
Commit(w, tags) ==
  /\ owed[w] = {}
  /\ owed' = [owed EXCEPT ![w] = tags]
  /\ writes < MaxWrites
  /\ writes' = writes + 1
  /\ UNCHANGED <<redis, fills, overdue, lostTags>>

\* What a write changes in PostgreSQL: a row with its links, deleted or brought
\* back perhaps, and with it which row the selection finds.
ChangeRow(r) ==
  /\ ver' = [ver EXCEPT ![r] = @ + 1]
  /\ live' \in {live \cup {r}, live \ {r}}
  /\ \E parts \in SUBSET Parts : links' = [links EXCEPT ![r] = parts]
  /\ pick' \in Rows

\* save, update, delete, softDelete, or transaction() with the row in touched.
WriteRow(w, r) == ChangeRow(r) /\ Commit(w, {r, "list"})

\* transaction() with touched = []: it only inserts.
InsertRow(w, r) ==
  /\ r \notin live
  /\ ver[r] = 1
  /\ ChangeRow(r)
  /\ Commit(w, {"list"})

\* transaction() without touched.
WriteInTransaction(w, r) == ChangeRow(r) /\ Commit(w, {"all"})

\* A write of a part through its own repository (its own lists apart).
WritePart(w, p) ==
  /\ p \in live
  /\ ver' = [ver EXCEPT ![p] = @ + 1]
  /\ live' \in {live, live \ {p}}
  /\ UNCHANGED <<links, pick>>
  /\ Commit(w, {p})

RestorePart(w, p) ==
  /\ p \notin live
  /\ ver' = [ver EXCEPT ![p] = @ + 1]
  /\ live' = live \cup {p}
  /\ UNCHANGED <<links, pick>>
  /\ Commit(w, {p})

\* INVALIDATE_SCRIPT.
DropTag(t) ==
  /\ seq' = seq + 1
  /\ fence' = [fence EXCEPT ![t] = seq + 1]
  /\ fenceAge' = [fenceAge EXCEPT ![t] = 0]
  /\ stored' = [e \in Entries |-> IF e \in sets[t] THEN NoEntry ELSE stored[e]]
  /\ left' = [e \in Entries |-> IF e \in sets[t] THEN 0 ELSE left[e]]
  /\ overdue' = overdue \ sets[t]
  /\ sets' = [sets EXCEPT ![t] = {}]
  /\ setLeft' = [setLeft EXCEPT ![t] = 0]
  /\ lostTags' = lostTags \ {t}
  /\ UNCHANGED <<database, fills, writes>>

Invalidate(w, t) ==
  /\ t \in owed[w]
  /\ owed' = [owed EXCEPT ![w] = @ \ {t}]
  /\ DropTag(t)

\* The call fails or times out, the breaker is open, or the process has died.
InvalidateFails(w, t) ==
  /\ t \in owed[w]
  /\ owed' = [owed EXCEPT ![w] = @ \ {t}]
  /\ lostTags' = lostTags \cup {t}
  /\ UNCHANGED <<database, redis, fills, overdue, writes>>

\* Redis executes a command nobody waits for any more.
InvalidateLate(t) ==
  /\ t \in lostTags
  /\ DropTag(t)
  /\ UNCHANGED owed

Less(n) == IF n = 0 THEN 0 ELSE n - 1

\* A tick: entries and tag sets expire; fences, invalidations and calls age.
Tick ==
  /\ left' = [e \in Entries |-> Less(left[e])]
  /\ stored' = [e \in Entries |-> IF left[e] <= 1 THEN NoEntry ELSE stored[e]]
  /\ overdue' = {e \in overdue : left[e] > 1}
  /\ setLeft' = [t \in Tags |-> Less(setLeft[t])]
  /\ sets' = [t \in Tags |-> IF setLeft[t] <= 1 THEN {} ELSE sets[t]]
  /\ fence' = [t \in Tags |-> IF fenceAge[t] + 1 >= FenceTtl THEN 0 ELSE fence[t]]
  /\ fenceAge' = [t \in Tags |->
                   IF fence[t] = 0 \/ fenceAge[t] + 1 >= FenceTtl THEN 0
                   ELSE fenceAge[t] + 1]
  /\ age' = [f \in Fills |->
              IF stage[f] = "idle" \/ age[f] >= FenceTtl THEN age[f] ELSE age[f] + 1]
  /\ wait' = [f \in Fills |->
               IF stage[f] # "sent" \/ wait[f] > CallTimeout THEN wait[f] ELSE wait[f] + 1]
  /\ UNCHANGED <<database, seq, stage, key, since, loaded, owed, lostTags, writes>>

CacheNext ==
  \/ \E f \in Fills : Fence(f)
  \/ \E f \in Fills : Load(f)
  \/ \E f \in Fills : Send(f)
  \/ \E f \in Fills : Store(f)
  \/ \E f \in Fills : GiveUp(f)
  \/ \E w \in Writers, r \in Rows : WriteRow(w, r)
  \/ \E w \in Writers, r \in Rows : InsertRow(w, r)
  \/ \E w \in Writers, r \in Rows : WriteInTransaction(w, r)
  \/ \E w \in Writers, p \in Parts : WritePart(w, p)
  \/ \E w \in Writers, p \in Parts : RestorePart(w, p)
  \/ \E w \in Writers, t \in Tags : Invalidate(w, t)
  \/ \E w \in Writers, t \in Tags : InvalidateFails(w, t)
  \/ \E t \in Tags : InvalidateLate(t)
  \/ Tick

CacheSpec == CacheInit /\ [][CacheNext]_cacheVars

-----------------------------------------------------------------------------
\* Every variable has its type.
CacheTypeOK ==
  /\ ver \in [Items -> Nat \ {0}]
  /\ live \in SUBSET Items
  /\ links \in [Rows -> SUBSET Parts]
  /\ pick \in Rows
  /\ stored \in [Entries -> Contents \cup {NoEntry}]
  /\ left \in [Entries -> Nat]
  /\ sets \in [Tags -> SUBSET Entries]
  /\ setLeft \in [Tags -> Nat]
  /\ seq \in Nat
  /\ fence \in [Tags -> Nat]
  /\ fenceAge \in [Tags -> Nat]
  /\ stage \in [Fills -> {"idle", "fenced", "loaded", "sent"}]
  /\ key \in [Fills -> Entries]
  /\ since \in [Fills -> Nat]
  /\ age \in [Fills -> Nat]
  /\ loaded \in [Fills -> Contents]
  /\ wait \in [Fills -> Nat]
  /\ overdue \in SUBSET Entries
  /\ owed \in [Writers -> SUBSET Tags]
  /\ lostTags \in SUBSET Tags
  /\ writes \in Nat

Cached(e) == stored[e] # NoEntry

(* "Never an entry without its tags, which could not be invalidated":      *)
(* whatever fills, refusals, invalidations and expiries do to the sets, an *)
(* entry is in the set of each of its tags for as long as it lives.        *)
Tracked ==
  \A e \in Entries : Cached(e) => \A t \in TagsOf(e, stored[e]) : e \in sets[t]

Pending(t) == t \in lostTags \/ \E w \in Writers : t \in owed[w]

\* A value shows the right rows, and each item in it as it is now.
UpToDate(e, c) ==
  /\ Shows(c) \cap Rows = Answer(e)
  /\ \A i \in Shows(c) : i \in live /\ c[i] = ver[i]

(* A fill that read before a write and stores after its invalidation does  *)
(* not leave the old value in the cache.  If an entry shows anything that  *)
(* has changed, one of its tags is still to be invalidated, or could not   *)
(* be; or Redis stored it after the call had timed out and the record of   *)
(* the invalidation had expired (overdue).                                 *)
StaleOnlyWhilePending ==
  \A e \in Entries :
    Cached(e) => \/ UpToDate(e, stored[e])
                 \/ \E t \in TagsOf(e, stored[e]) : Pending(t)
                 \/ e \in overdue

(* cache.service.ts keeps the record of an invalidation "far longer than   *)
(* any cache fill takes": a stale value is refused, whenever it arrives.   *)
(* The code breaks it: the age of a fill is checked before its command is  *)
(* sent, and a command that timed out may wait in the client for longer    *)
(* than the record is kept.                                                *)
StaleFillsAreRefused ==
  \A e \in Entries :
    Cached(e) => \/ UpToDate(e, stored[e])
                 \/ \E t \in TagsOf(e, stored[e]) : Pending(t)

(* story.repository.ts, ADR 0003: a change of any embedded row through its *)
(* repository drops the entry.  The code breaks it: an entry loaded while  *)
(* a linked category was soft-deleted does not carry the category's tag,   *)
(* and restoring the category leaves the entry without it.                 *)
NothingMissing ==
  \A e \in Entries :
    Cached(e) => stored[e] = View(e) \/ lostTags # {} \/ \E w \in Writers : owed[w] # {}
=============================================================================
