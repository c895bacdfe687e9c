------------------------ MODULE CacheSessionsProofs ------------------------
(***************************************************************************)
(* Proofs about the read-through cache, for any numbers of rows, parts,    *)
(* fills and writers and any times to live, provided that a fill which its *)
(* caller still waits for is younger than the records of invalidations     *)
(* (MaxAge + CallTimeout < FenceTtl); and about Sessions, whose counts,    *)
(* lists and access statuses are read through it, for any numbers of       *)
(* requests, passwords, sessions and links and any limit of sessions.      *)
(***************************************************************************)
EXTENDS Cache, Sessions, FiniteSetTheorems, TLAPS

(***************************************************************************)
(* The cache.                                                              *)
(***************************************************************************)

\* A value names the row it was asked for, or the row the selection found.
Shape(e, c) ==
  /\ e # "list" => Shows(c) \cap Rows # {}
  /\ e \in Rows => Shows(c) \cap Rows \subseteq {e}

\* A value is current, or an invalidation that reaches it is outstanding.
Sound(e, c) == UpToDate(e, c) \/ \E t \in TagsOf(e, c) : Pending(t)

\* A fill holds a value that Redis may yet store.
Held(f) == stage[f] \in {"loaded", "sent"} /\ Cacheable(key[f], loaded[f])

\* Entries are sound, and their tag sets live at least as long as they do.
EntrySound(e) ==
  Cached(e) =>
    /\ Shape(e, stored[e])
    /\ Sound(e, stored[e]) \/ e \in overdue
    /\ left[e] # 0
    /\ \A t \in TagsOf(e, stored[e]) : e \in sets[t] /\ left[e] <= setLeft[t]

\* What a fill has loaded is sound, or will be refused, or fences have expired.
FillSound(f) ==
  Held(f) =>
    /\ Shape(key[f], loaded[f])
    /\ Sound(key[f], loaded[f]) \/ age[f] >= FenceTtl \/ Invalidated(f)

\* The record of an invalidation that beats a fill is younger than its fence.
FenceSound(f) ==
  /\ since[f] <= seq
  /\ stage[f] # "idle" /\ age[f] < FenceTtl =>
       \A t \in Tags : fence[t] > since[f] => fenceAge[t] <= age[f]

\* A command was sent in time, and its caller waits for CallTimeout.
SentSound(f) ==
  stage[f] = "sent" =>
    /\ Cacheable(key[f], loaded[f])
    /\ wait[f] <= CallTimeout => age[f] <= MaxAge + wait[f]

Numbered == \A t \in Tags : fence[t] <= seq

CacheInv ==
  /\ CacheTypeOK
  /\ Numbered
  /\ \A e \in Entries : EntrySound(e)
  /\ \A f \in Fills : FillSound(f) /\ FenceSound(f) /\ SentSound(f)

-----------------------------------------------------------------------------
LEMMA TagsOfType ==
  ASSUME NEW e \in Entries, NEW c \in Contents
  PROVE  TagsOf(e, c) \subseteq Tags
  BY DEF TagsOf, Shows, Tags, Items

LEMMA ViewType ==
  ASSUME CacheTypeOK, NEW e \in Entries
  PROVE  View(e) \in Contents
  BY DEF CacheTypeOK, View, Contents

\* What was just loaded is current.
LEMMA ViewSound ==
  ASSUME CacheTypeOK, NEW e \in Entries
  PROVE  /\ UpToDate(e, View(e))
         /\ Cacheable(e, View(e)) => Shape(e, View(e))
<1>1. Answer(e) \subseteq Rows \cap live
  BY DEF CacheTypeOK, Answer
<1>2. Seen(e) \subseteq Items \cap live
  BY <1>1 DEF Seen, Items
<1>3. Shows(View(e)) = Seen(e)
  BY <1>2 DEF Shows, View, CacheTypeOK
<1>4. Seen(e) \cap Rows = Answer(e)
  BY <1>1, CacheAssumption DEF Seen
<1>5. UpToDate(e, View(e))
  BY <1>2, <1>3, <1>4 DEF UpToDate, View
<1>6. Answer(e) = {} => Seen(e) = {}
  BY DEF Seen
<1>7. e \in Rows => Answer(e) \subseteq {e}
  BY DEF Answer
<1> QED
  BY <1>3, <1>4, <1>5, <1>6, <1>7 DEF Cacheable, Shape

-----------------------------------------------------------------------------
\* The steps that change PostgreSQL.
Written ==
  \/ \E w \in Writers, r \in Rows : WriteRow(w, r)
  \/ \E w \in Writers, r \in Rows : InsertRow(w, r)
  \/ \E w \in Writers, r \in Rows : WriteInTransaction(w, r)
  \/ \E w \in Writers, p \in Parts : WritePart(w, p)
  \/ \E w \in Writers, p \in Parts : RestorePart(w, p)

\* The steps that execute INVALIDATE_SCRIPT for a tag.
Dropped(t) == (\E w \in Writers : Invalidate(w, t)) \/ InvalidateLate(t)

LEMMA Steps ==
  ASSUME [CacheNext]_cacheVars
  PROVE  \/ UNCHANGED cacheVars
         \/ \E f \in Fills : Fence(f)
         \/ \E f \in Fills : Load(f)
         \/ \E f \in Fills : Send(f)
         \/ \E f \in Fills : Store(f)
         \/ \E f \in Fills : GiveUp(f)
         \/ Written
         \/ \E t \in Tags : Dropped(t)
         \/ \E w \in Writers, t \in Tags : InvalidateFails(w, t)
         \/ Tick
  BY DEF CacheNext, Written, Dropped

\* A write leaves Redis and the fills alone, and adds to what is owed.
LEMMA WrittenEffect ==
  ASSUME CacheTypeOK, Written
  PROVE  /\ UNCHANGED <<redis, fills, overdue, lostTags>>
         /\ owed' \in [Writers -> SUBSET Tags]
         /\ \A t \in Tags : Pending(t) => Pending(t)'
<1>1. PICK w \in Writers, tags \in SUBSET Tags : Commit(w, tags)
  BY DEF Written, WriteRow, InsertRow, WriteInTransaction, WritePart, RestorePart,
         Tags, Items
<1>2. /\ owed[w] = {}
      /\ owed' = [owed EXCEPT ![w] = tags]
      /\ UNCHANGED <<redis, fills, overdue, lostTags>>
  BY <1>1 DEF Commit
<1>3. owed \in [Writers -> SUBSET Tags]
  BY DEF CacheTypeOK
<1>4. \A v \in Writers : owed[v] \subseteq owed'[v]
  BY <1>2, <1>3
<1> QED
  BY <1>2, <1>3, <1>4 DEF Pending

LEMMA WrittenType ==
  ASSUME CacheTypeOK, Written
  PROVE  /\ ver' \in [Items -> Nat \ {0}]
         /\ live' \in SUBSET Items
         /\ links' \in [Rows -> SUBSET Parts]
         /\ pick' \in Rows
         /\ writes' \in Nat
<1>1. /\ ver \in [Items -> Nat \ {0}]
      /\ live \in SUBSET Items
      /\ links \in [Rows -> SUBSET Parts]
      /\ pick \in Rows
      /\ writes \in Nat
  BY DEF CacheTypeOK
<1>2. ASSUME NEW r \in Rows, ChangeRow(r)
      PROVE  /\ ver' \in [Items -> Nat \ {0}]
             /\ live' \in SUBSET Items
             /\ links' \in [Rows -> SUBSET Parts]
             /\ pick' \in Rows
  <2>1. r \in Items /\ ver[r] + 1 \in Nat \ {0}
    BY <1>1 DEF Items
  <2> QED
    BY <1>1, <1>2, <2>1 DEF ChangeRow
<1>3. ASSUME NEW w \in Writers, NEW p \in Parts, WritePart(w, p) \/ RestorePart(w, p)
      PROVE  /\ ver' \in [Items -> Nat \ {0}]
             /\ live' \in SUBSET Items
             /\ links' \in [Rows -> SUBSET Parts]
             /\ pick' \in Rows
  <2>1. p \in Items /\ ver[p] + 1 \in Nat \ {0}
    BY <1>1 DEF Items
  <2>2. ver' = [ver EXCEPT ![p] = @ + 1] /\ UNCHANGED <<links, pick>>
    BY <1>3 DEF WritePart, RestorePart
  <2>3. live' \in SUBSET Items
    BY <1>1, <1>3, <2>1 DEF WritePart, RestorePart
  <2> QED
    BY <1>1, <2>1, <2>2, <2>3
<1>4. writes' = writes + 1
  BY DEF Written, WriteRow, InsertRow, WriteInTransaction, WritePart, RestorePart, Commit
<1>5. CASE \E r \in Rows : ChangeRow(r)
  BY <1>1, <1>2, <1>4, <1>5
<1>6. CASE \E w \in Writers, p \in Parts : WritePart(w, p) \/ RestorePart(w, p)
  BY <1>1, <1>3, <1>4, <1>6
<1> QED
  BY <1>5, <1>6 DEF Written, WriteRow, InsertRow, WriteInTransaction

\* A value a write makes out of date carries a tag that the write invalidates.
LEMMA WrittenKeepsSound ==
  ASSUME CacheTypeOK, Written, NEW e \in Entries, NEW c \in Contents,
         Shape(e, c), Sound(e, c)
  PROVE  Sound(e, c)'
<1>1. \A t \in Tags : Pending(t) => Pending(t)'
  BY WrittenEffect
<1>2. TagsOf(e, c) \subseteq Tags
  BY TagsOfType
<1>3. CASE \E t \in TagsOf(e, c) : Pending(t)
  BY <1>1, <1>2, <1>3 DEF Sound
<1>4. CASE UpToDate(e, c)
  <2>1. /\ Shows(c) \cap Rows = Answer(e)
        /\ \A i \in Shows(c) : i \in live /\ c[i] = ver[i]
    BY <1>4 DEF UpToDate
  <2>2. ver \in [Items -> Nat \ {0}] /\ owed \in [Writers -> SUBSET Tags]
    BY DEF CacheTypeOK
  <2>3. Shows(c) \subseteq Rows \cup Parts
    BY DEF Shows, Items
  <2>4. ASSUME NEW r \in Rows, ChangeRow(r), e \in Rows, e # r
        PROVE  UpToDate(e, c)'
    <3>1. Shows(c) \cap Rows \subseteq {e}
      BY <2>4 DEF Shape
    <3>2. r \notin Shows(c)
      BY <2>4, <3>1
    <3>3. Answer(e)' = Answer(e)
      BY <2>4 DEF Answer, ChangeRow
    <3>4. \A i \in Shows(c) : i \in live' /\ c[i] = ver'[i]
      BY <2>1, <2>2, <2>4, <3>2 DEF ChangeRow, Shows
    <3> QED
      BY <2>1, <3>3, <3>4 DEF UpToDate
  <2>5. ASSUME NEW w \in Writers, NEW tags \in SUBSET Tags, Commit(w, tags),
               NEW t \in tags, t \in TagsOf(e, c)
        PROVE  Sound(e, c)'
    <3>1. t \in owed'[w]
      BY <2>2, <2>5 DEF Commit
    <3> QED
      BY <2>5, <3>1 DEF Sound, Pending
  <2>6. e \notin Rows => "list" \in TagsOf(e, c)
    BY DEF TagsOf
  <2>7. e \in Rows => e \in TagsOf(e, c) /\ e \in Answer(e)
    <3>1. ASSUME e \in Rows
          PROVE  e \in TagsOf(e, c) /\ e \in Answer(e)
      <4>1. e # "list"
        BY <3>1, CacheAssumption DEF Items
      <4>2. e \in Shows(c) \cap Rows
        BY <3>1, <4>1 DEF Shape
      <4> QED
        BY <2>1, <4>1, <4>2 DEF TagsOf
    <3> QED
      BY <3>1
  <2>8. ASSUME NEW w \in Writers, NEW r \in Rows, WriteRow(w, r)
        PROVE  Sound(e, c)'
    <3>1. {r, "list"} \in SUBSET Tags
      BY DEF Tags, Items
    <3>2. CASE e \in Rows /\ e # r
      BY <2>4, <2>8, <3>2 DEF WriteRow, Sound
    <3>3. CASE e \notin Rows \/ e = r
      BY <2>5, <2>6, <2>7, <2>8, <3>1, <3>3 DEF WriteRow
    <3> QED
      BY <3>2, <3>3
  <2>9. ASSUME NEW w \in Writers, NEW r \in Rows, InsertRow(w, r)
        PROVE  Sound(e, c)'
    <3>1. {"list"} \in SUBSET Tags
      BY DEF Tags
    <3>2. CASE e \in Rows
      <4>1. e # r
        BY <2>7, <2>9, <3>2 DEF InsertRow, Answer
      <4> QED
        BY <2>4, <2>9, <3>2, <4>1 DEF InsertRow, Sound
    <3>3. CASE e \notin Rows
      BY <2>5, <2>6, <2>9, <3>1, <3>3 DEF InsertRow
    <3> QED
      BY <3>2, <3>3
  <2>10. ASSUME NEW w \in Writers, NEW r \in Rows, WriteInTransaction(w, r)
         PROVE  Sound(e, c)'
    <3>1. {"all"} \in SUBSET Tags /\ "all" \in TagsOf(e, c)
      BY DEF Tags, TagsOf
    <3> QED
      BY <2>5, <2>10, <3>1 DEF WriteInTransaction
  <2>11. ASSUME NEW w \in Writers, NEW p \in Parts, WritePart(w, p) \/ RestorePart(w, p)
         PROVE  Sound(e, c)'
    <3>1. Commit(w, {p}) /\ {p} \in SUBSET Tags
      BY <2>11 DEF WritePart, RestorePart, Tags, Items
    <3>2. CASE p \in Shows(c)
      <4>1. p \in TagsOf(e, c)
        BY <3>2 DEF TagsOf
      <4> QED
        BY <2>5, <3>1, <4>1
    <3>3. CASE p \notin Shows(c)
      <4>1. /\ ver' = [ver EXCEPT ![p] = @ + 1]
            /\ pick' = pick
            /\ \A i \in Items : i # p => (i \in live' <=> i \in live)
        BY <2>11 DEF WritePart, RestorePart
      <4>2. p \notin Rows
        BY CacheAssumption
      <4>3. Answer(e)' = Answer(e)
        <5>1. Rows \cap live' = Rows \cap live
          BY <4>1, <4>2 DEF Items
        <5>2. pick \in Rows
          BY DEF CacheTypeOK
        <5> QED
          BY <4>1, <5>1, <5>2 DEF Answer
      <4>4. \A i \in Shows(c) : i \in live' /\ c[i] = ver'[i]
        BY <2>1, <2>2, <3>3, <4>1 DEF Shows
      <4> QED
        BY <2>1, <4>3, <4>4 DEF UpToDate, Sound
    <3> QED
      BY <3>2, <3>3
  <2> QED
    BY <2>8, <2>9, <2>10, <2>11 DEF Written
<1> QED
  BY <1>3, <1>4 DEF Sound

-----------------------------------------------------------------------------
\* An invalidation stamps its tag, and drops every entry of the tag's set.
LEMMA DroppedEffect ==
  ASSUME CacheTypeOK, NEW t \in Tags, Dropped(t)
  PROVE  /\ DropTag(t)
         /\ owed' \in [Writers -> SUBSET Tags]
         /\ lostTags' \in SUBSET Tags
         /\ \A u \in Tags : Pending(u) /\ u # t => Pending(u)'
<1>1. DropTag(t) /\ owed \in [Writers -> SUBSET Tags] /\ lostTags \in SUBSET Tags
  BY DEF Dropped, Invalidate, InvalidateLate, CacheTypeOK
<1>2. lostTags' = lostTags \ {t}
  BY <1>1 DEF DropTag
<1>3. /\ owed' \in [Writers -> SUBSET Tags]
      /\ \A v \in Writers : owed[v] \ {t} \subseteq owed'[v]
  BY <1>1 DEF Dropped, Invalidate, InvalidateLate
<1> QED
  BY <1>1, <1>2, <1>3 DEF Pending

LEMMA FailsEffect ==
  ASSUME CacheTypeOK, NEW w \in Writers, NEW t \in Tags, InvalidateFails(w, t)
  PROVE  /\ UNCHANGED <<database, redis, fills, overdue, writes>>
         /\ owed' \in [Writers -> SUBSET Tags]
         /\ lostTags' \in SUBSET Tags
         /\ \A u \in Tags : Pending(u) => Pending(u)'
<1>1. /\ UNCHANGED <<database, redis, fills, overdue, writes>>
      /\ owed' = [owed EXCEPT ![w] = @ \ {t}]
      /\ lostTags' = lostTags \cup {t}
  BY DEF InvalidateFails
<1>2. owed \in [Writers -> SUBSET Tags] /\ lostTags \in SUBSET Tags
  BY DEF CacheTypeOK
<1>3. \A v \in Writers : owed[v] \subseteq owed'[v] \cup {t}
  BY <1>1, <1>2
<1> QED
  BY <1>1, <1>2, <1>3 DEF Pending

-----------------------------------------------------------------------------
LEMMA InitSound == CacheInit => CacheInv
<1> SUFFICES ASSUME CacheInit PROVE CacheInv
  OBVIOUS
<1>1. CacheTypeOK
  <2>1. /\ ver \in [Items -> Nat \ {0}]
        /\ live \in SUBSET Items
        /\ links \in [Rows -> SUBSET Parts]
        /\ pick \in Rows
    BY DEF CacheInit
  <2>2. /\ stored \in [Entries -> Contents \cup {NoEntry}]
        /\ left \in [Entries -> Nat]
        /\ sets \in [Tags -> SUBSET Entries]
        /\ setLeft \in [Tags -> Nat]
        /\ seq \in Nat
        /\ fence \in [Tags -> Nat]
        /\ fenceAge \in [Tags -> Nat]
    BY DEF CacheInit
  <2>3. /\ stage \in [Fills -> {"idle", "fenced", "loaded", "sent"}]
        /\ key \in [Fills -> Entries]
        /\ since \in [Fills -> Nat]
        /\ age \in [Fills -> Nat]
        /\ loaded \in [Fills -> Contents]
        /\ wait \in [Fills -> Nat]
        /\ overdue \in SUBSET Entries
    BY DEF CacheInit, Entries, Nothing, Contents
  <2>4. owed \in [Writers -> SUBSET Tags] /\ lostTags \in SUBSET Tags /\ writes \in Nat
    BY DEF CacheInit
  <2> QED
    BY <2>1, <2>2, <2>3, <2>4 DEF CacheTypeOK
<1>2. Numbered /\ \A f \in Fills : FillSound(f) /\ FenceSound(f) /\ SentSound(f)
  BY DEF CacheInit, Numbered, FillSound, Held, FenceSound, SentSound
<1>3. \A e \in Entries : EntrySound(e)
  BY DEF CacheInit, EntrySound, Cached
<1> QED
  BY <1>1, <1>2, <1>3 DEF CacheInv

\* The variables a fill keeps, after it ends or takes another step.
LEMMA EndFillType ==
  ASSUME CacheTypeOK, NEW f \in Fills, EndFill(f)
  PROVE  /\ stage' \in [Fills -> {"idle", "fenced", "loaded", "sent"}]
         /\ key' \in [Fills -> Entries]
         /\ since' \in [Fills -> Nat]
         /\ age' \in [Fills -> Nat]
         /\ loaded' \in [Fills -> Contents]
         /\ wait' \in [Fills -> Nat]
<1>1. /\ stage \in [Fills -> {"idle", "fenced", "loaded", "sent"}]
      /\ key \in [Fills -> Entries]
      /\ since \in [Fills -> Nat]
      /\ age \in [Fills -> Nat]
      /\ loaded \in [Fills -> Contents]
      /\ wait \in [Fills -> Nat]
  BY DEF CacheTypeOK
<1>2. "list" \in Entries /\ Nothing \in Contents
  BY DEF Entries, Nothing, Contents
<1> QED
  BY <1>1, <1>2 DEF EndFill

LEMMA TypeStep ==
  ASSUME CacheTypeOK, [CacheNext]_cacheVars
  PROVE  CacheTypeOK'
<1>1. /\ ver \in [Items -> Nat \ {0}]
      /\ live \in SUBSET Items
      /\ links \in [Rows -> SUBSET Parts]
      /\ pick \in Rows
      /\ stored \in [Entries -> Contents \cup {NoEntry}]
      /\ left \in [Entries -> Nat]
      /\ sets \in [Tags -> SUBSET Entries]
      /\ setLeft \in [Tags -> Nat]
      /\ seq \in Nat
      /\ fence \in [Tags -> Nat]
      /\ fenceAge \in [Tags -> Nat]
      /\ stage \in [Fills -> {"idle", "fenced", "loaded", "sent"}]
      /\ key \in [Fills -> Entries]
      /\ since \in [Fills -> Nat]
      /\ age \in [Fills -> Nat]
      /\ loaded \in [Fills -> Contents]
      /\ wait \in [Fills -> Nat]
      /\ overdue \in SUBSET Entries
      /\ owed \in [Writers -> SUBSET Tags]
      /\ lostTags \in SUBSET Tags
      /\ writes \in Nat
  BY DEF CacheTypeOK
<1>2. CASE UNCHANGED cacheVars
  BY <1>1, <1>2 DEF cacheVars, CacheTypeOK
<1>3. ASSUME NEW f \in Fills, Fence(f)
      PROVE  CacheTypeOK'
  <2>1. UNCHANGED <<database, redis, loaded, wait, overdue, owed, lostTags, writes>>
    BY <1>3 DEF Fence
  <2>2. /\ stage' \in [Fills -> {"idle", "fenced", "loaded", "sent"}]
        /\ key' \in [Fills -> Entries]
        /\ since' \in [Fills -> Nat]
        /\ age' \in [Fills -> Nat]
    BY <1>1, <1>3 DEF Fence
  <2> QED
    BY <1>1, <2>1, <2>2 DEF CacheTypeOK, database, redis
<1>4. ASSUME NEW f \in Fills, Load(f)
      PROVE  CacheTypeOK'
  <2>1. UNCHANGED <<database, redis, key, since, age, wait, overdue, owed, lostTags, writes>>
    BY <1>4 DEF Load
  <2>2. View(key[f]) \in Contents
    BY <1>1, ViewType
  <2>3. /\ stage' \in [Fills -> {"idle", "fenced", "loaded", "sent"}]
        /\ loaded' \in [Fills -> Contents]
    BY <1>1, <1>4, <2>2 DEF Load
  <2> QED
    BY <1>1, <2>1, <2>3 DEF CacheTypeOK, database, redis
<1>11. ASSUME NEW f \in Fills, Send(f)
       PROVE  CacheTypeOK'
  <2>1. UNCHANGED <<database, redis, key, since, age, loaded, wait, overdue, owed, lostTags,
                    writes>>
    BY <1>11 DEF Send
  <2>2. stage' \in [Fills -> {"idle", "fenced", "loaded", "sent"}]
    BY <1>1, <1>11 DEF Send
  <2> QED
    BY <1>1, <2>1, <2>2 DEF CacheTypeOK, database, redis
<1>5. ASSUME NEW f \in Fills, Store(f)
      PROVE  CacheTypeOK'
  <2>1. UNCHANGED <<database, seq, fence, fenceAge, owed, lostTags, writes>> /\ EndFill(f)
    BY <1>5 DEF Store
  <2>2. /\ key[f] \in Entries
        /\ loaded[f] \in Contents
        /\ Ttl[key[f]] \in Nat
        /\ SetMargin \in Nat
    BY <1>1, CacheAssumption
  <2>3. \A t \in Tags : SetTtl(key[f], t) \in Nat
    BY <1>1, <2>2 DEF SetTtl
  <2>4. /\ stored' \in [Entries -> Contents \cup {NoEntry}]
        /\ left' \in [Entries -> Nat]
    BY <1>1, <1>5, <2>2 DEF Store
  <2>5. /\ sets' \in [Tags -> SUBSET Entries]
        /\ setLeft' \in [Tags -> Nat]
    BY <1>1, <1>5, <2>2, <2>3 DEF Store
  <2>6. overdue' \in SUBSET Entries
    BY <1>1, <1>5, <2>2 DEF Store
  <2> QED
    BY <1>1, <2>1, <2>4, <2>5, <2>6, EndFillType DEF CacheTypeOK, database
<1>6. ASSUME NEW f \in Fills, GiveUp(f)
      PROVE  CacheTypeOK'
  <2>1. UNCHANGED <<database, redis, overdue, owed, lostTags, writes>> /\ EndFill(f)
    BY <1>6 DEF GiveUp
  <2> QED
    BY <1>1, <2>1, EndFillType DEF CacheTypeOK, database, redis
<1>7. CASE Written
  <2>1. /\ UNCHANGED <<redis, fills, overdue, lostTags>>
        /\ owed' \in [Writers -> SUBSET Tags]
    BY <1>7, WrittenEffect
  <2> QED
    BY <1>1, <1>7, <2>1, WrittenType DEF CacheTypeOK, redis, fills
<1>8. ASSUME NEW t \in Tags, Dropped(t)
      PROVE  CacheTypeOK'
  <2>1. /\ DropTag(t)
        /\ owed' \in [Writers -> SUBSET Tags]
        /\ lostTags' \in SUBSET Tags
    BY <1>8, DroppedEffect
  <2>2. /\ seq' \in Nat
        /\ fence' \in [Tags -> Nat]
        /\ fenceAge' \in [Tags -> Nat]
    BY <1>1, <2>1 DEF DropTag
  <2>3. /\ stored' \in [Entries -> Contents \cup {NoEntry}]
        /\ left' \in [Entries -> Nat]
        /\ sets' \in [Tags -> SUBSET Entries]
        /\ setLeft' \in [Tags -> Nat]
        /\ overdue' \in SUBSET Entries
    BY <1>1, <2>1 DEF DropTag
  <2>4. UNCHANGED <<database, fills, writes>>
    BY <2>1 DEF DropTag
  <2> QED
    BY <1>1, <2>1, <2>2, <2>3, <2>4 DEF CacheTypeOK, database, fills
<1>9. ASSUME NEW w \in Writers, NEW t \in Tags, InvalidateFails(w, t)
      PROVE  CacheTypeOK'
  BY <1>1, <1>9, FailsEffect DEF CacheTypeOK, database, redis, fills
<1>10. CASE Tick
  <2>1. UNCHANGED <<database, seq, stage, key, since, loaded, owed, lostTags, writes>>
    BY <1>10 DEF Tick
  <2>0. \A n \in Nat : Less(n) \in Nat
    BY DEF Less
  <2>2. /\ left' \in [Entries -> Nat]
        /\ setLeft' \in [Tags -> Nat]
    BY <1>1, <1>10, <2>0 DEF Tick
  <2>3. /\ stored' \in [Entries -> Contents \cup {NoEntry}]
        /\ sets' \in [Tags -> SUBSET Entries]
        /\ overdue' \in SUBSET Entries
    BY <1>1, <1>10 DEF Tick
  <2>4. /\ fence' \in [Tags -> Nat]
        /\ fenceAge' \in [Tags -> Nat]
        /\ age' \in [Fills -> Nat]
        /\ wait' \in [Fills -> Nat]
    BY <1>1, <1>10 DEF Tick
  <2> QED
    BY <1>1, <2>1, <2>2, <2>3, <2>4 DEF CacheTypeOK, database
<1> QED
  BY <1>2, <1>3, <1>4, <1>5, <1>6, <1>7, <1>8, <1>9, <1>10, <1>11, Steps

-----------------------------------------------------------------------------
\* Steps that leave the numbers and the running fills alone.
LEMMA FenceKept ==
  ASSUME NEW f \in Fills, FenceSound(f),
         UNCHANGED <<seq, fence, fenceAge>>,
         since'[f] = since[f], age'[f] = age[f],
         stage'[f] # "idle" => stage[f] # "idle"
  PROVE  FenceSound(f)'
  BY DEF FenceSound

LEMMA FenceEnded ==
  ASSUME CacheTypeOK, NEW f \in Fills, EndFill(f), UNCHANGED <<seq, fence, fenceAge>>,
         \A g \in Fills : FenceSound(g), NEW g \in Fills
  PROVE  FenceSound(g)'
<1>1. CASE g = f
  <2>1. since'[f] = 0 /\ stage'[f] = "idle" /\ seq' \in Nat
    BY DEF EndFill, CacheTypeOK
  <2> QED
    BY <1>1, <2>1 DEF FenceSound
<1>2. CASE g # f
  <2>1. since'[g] = since[g] /\ age'[g] = age[g] /\ stage'[g] = stage[g]
    BY <1>2 DEF EndFill, CacheTypeOK
  <2> QED
    BY <2>1, FenceKept
<1> QED
  BY <1>1, <1>2

LEMMA FenceStep ==
  ASSUME CacheInv, [CacheNext]_cacheVars
  PROVE  Numbered' /\ \A g \in Fills : FenceSound(g)'
<1>0. CacheTypeOK /\ Numbered /\ \A g \in Fills : FenceSound(g)
  BY DEF CacheInv
<1>1. /\ fence \in [Tags -> Nat] /\ fenceAge \in [Tags -> Nat] /\ seq \in Nat
      /\ since \in [Fills -> Nat] /\ age \in [Fills -> Nat]
  BY <1>0 DEF CacheTypeOK
<1>2. ASSUME UNCHANGED <<seq, fence, fenceAge, stage, since, age>>
      PROVE  Numbered' /\ \A g \in Fills : FenceSound(g)'
  BY <1>0, <1>2, FenceKept DEF Numbered
<1>3. ASSUME NEW f \in Fills, Fence(f)
      PROVE  Numbered' /\ \A g \in Fills : FenceSound(g)'
  <2>1. /\ UNCHANGED <<seq, fence, fenceAge>>
        /\ since' = [since EXCEPT ![f] = seq]
        /\ age' = [age EXCEPT ![f] = 0]
        /\ stage' = [stage EXCEPT ![f] = "fenced"]
    BY <1>3 DEF Fence, redis
  <2>2. ASSUME NEW g \in Fills
        PROVE  FenceSound(g)'
    <3>1. CASE g = f
      <4>1. since'[f] = seq
        BY <1>1, <2>1
      <4>2. \A t \in Tags : ~(fence[t] > seq)
        BY <1>0, <1>1 DEF Numbered
      <4> QED
        BY <1>1, <2>1, <3>1, <4>1, <4>2 DEF FenceSound
    <3>2. CASE g # f
      <4>1. since'[g] = since[g] /\ age'[g] = age[g] /\ stage'[g] = stage[g]
        BY <1>0, <2>1, <3>2 DEF CacheTypeOK
      <4> QED
        BY <1>0, <2>1, <4>1, FenceKept
    <3> QED
      BY <3>1, <3>2
  <2> QED
    BY <1>0, <2>1, <2>2 DEF Numbered
<1>4. ASSUME NEW f \in Fills, Load(f)
      PROVE  Numbered' /\ \A g \in Fills : FenceSound(g)'
  <2>1. /\ UNCHANGED <<seq, fence, fenceAge, since, age>>
        /\ stage[f] = "fenced"
        /\ stage' = [stage EXCEPT ![f] = "loaded"]
    BY <1>4 DEF Load, redis
  <2>2. \A g \in Fills : stage'[g] # "idle" => stage[g] # "idle"
    BY <1>0, <2>1 DEF CacheTypeOK
  <2> QED
    BY <1>0, <2>1, <2>2, FenceKept DEF Numbered
<1>13. ASSUME NEW f \in Fills, Send(f)
       PROVE  Numbered' /\ \A g \in Fills : FenceSound(g)'
  <2>1. /\ UNCHANGED <<seq, fence, fenceAge, since, age>>
        /\ stage[f] = "loaded"
        /\ stage' = [stage EXCEPT ![f] = "sent"]
    BY <1>13 DEF Send, redis
  <2>2. \A g \in Fills : stage'[g] # "idle" => stage[g] # "idle"
    BY <1>0, <2>1 DEF CacheTypeOK
  <2> QED
    BY <1>0, <2>1, <2>2, FenceKept DEF Numbered
<1>5. ASSUME NEW f \in Fills, EndFill(f), UNCHANGED <<seq, fence, fenceAge>>
      PROVE  Numbered' /\ \A g \in Fills : FenceSound(g)'
  BY <1>0, <1>5, FenceEnded DEF Numbered
<1>6. ASSUME NEW t \in Tags, DropTag(t)
      PROVE  Numbered' /\ \A g \in Fills : FenceSound(g)'
  <2>1. /\ seq' = seq + 1
        /\ fence' = [fence EXCEPT ![t] = seq + 1]
        /\ fenceAge' = [fenceAge EXCEPT ![t] = 0]
        /\ UNCHANGED <<stage, since, age>>
    BY <1>6 DEF DropTag, fills
  <2>2. Numbered'
    BY <1>0, <1>1, <2>1 DEF Numbered
  <2>3. ASSUME NEW g \in Fills
        PROVE  FenceSound(g)'
    <3>1. since[g] <= seq + 1
      BY <1>0, <1>1 DEF FenceSound
    <3>2. ASSUME stage[g] # "idle", age[g] < FenceTtl, NEW u \in Tags, fence'[u] > since[g]
          PROVE  fenceAge'[u] <= age[g]
      BY <1>0, <1>1, <2>1, <3>2 DEF FenceSound
    <3> QED
      BY <2>1, <3>1, <3>2 DEF FenceSound
  <2> QED
    BY <2>2, <2>3
<1>7. CASE Tick
  <2>1. UNCHANGED <<seq, stage, since>>
    BY <1>7 DEF Tick
  <2>2. \A t \in Tags :
          \/ fence'[t] = 0
          \/ fence'[t] = fence[t] /\ (fence[t] # 0 => fenceAge'[t] = fenceAge[t] + 1)
    BY <1>1, <1>7 DEF Tick
  <2>3. \A g \in Fills :
          stage[g] # "idle" => age'[g] = IF age[g] >= FenceTtl THEN age[g] ELSE age[g] + 1
    BY <1>7 DEF Tick
  <2>4. Numbered'
    BY <1>0, <1>1, <2>1, <2>2 DEF Numbered
  <2>5. ASSUME NEW g \in Fills
        PROVE  FenceSound(g)'
    <3>1. since[g] <= seq
      BY <1>0 DEF FenceSound
    <3>2. ASSUME stage[g] # "idle", age'[g] < FenceTtl, NEW u \in Tags, fence'[u] > since[g]
          PROVE  fenceAge'[u] <= age'[g]
      <4>1. age'[g] = age[g] + 1 /\ age[g] < FenceTtl
        BY <1>1, <2>3, <3>2, CacheAssumption
      <4>2. fence'[u] = fence[u] /\ fenceAge'[u] = fenceAge[u] + 1
        BY <1>1, <2>2, <3>2
      <4>3. fenceAge[u] <= age[g]
        BY <1>0, <3>2, <4>1, <4>2 DEF FenceSound
      <4> QED
        BY <1>1, <4>1, <4>2, <4>3
    <3> QED
      BY <2>1, <3>1, <3>2 DEF FenceSound
  <2> QED
    BY <2>4, <2>5
<1>8. CASE UNCHANGED cacheVars
  BY <1>2, <1>8 DEF cacheVars
<1>9. CASE Written
  BY <1>0, <1>2, <1>9, WrittenEffect DEF redis, fills
<1>10. ASSUME NEW f \in Fills, Store(f) \/ GiveUp(f)
       PROVE  Numbered' /\ \A g \in Fills : FenceSound(g)'
  BY <1>5, <1>10 DEF Store, GiveUp, redis
<1>11. ASSUME NEW w \in Writers, NEW t \in Tags, InvalidateFails(w, t)
       PROVE  Numbered' /\ \A g \in Fills : FenceSound(g)'
  BY <1>0, <1>2, <1>11, FailsEffect DEF redis, fills
<1>12. ASSUME NEW t \in Tags, Dropped(t)
       PROVE  Numbered' /\ \A g \in Fills : FenceSound(g)'
  BY <1>0, <1>6, <1>12, DroppedEffect
<1> QED
  BY <1>3, <1>4, <1>7, <1>8, <1>9, <1>10, <1>11, <1>12, <1>13, Steps

-----------------------------------------------------------------------------
\* Steps that leave PostgreSQL alone and take no invalidation off.
LEMMA SoundKept ==
  ASSUME UNCHANGED database,
         \A u \in Tags : Pending(u) => Pending(u)',
         NEW e \in Entries, NEW c \in Contents, Sound(e, c)
  PROVE  Sound(e, c)'
<1>1. TagsOf(e, c) \subseteq Tags
  BY TagsOfType
<1>2. UpToDate(e, c) => UpToDate(e, c)'
  BY DEF database, UpToDate, Answer
<1> QED
  BY <1>1, <1>2 DEF Sound

LEMMA SoundOrDropped ==
  ASSUME CacheTypeOK, NEW t \in Tags, Dropped(t),
         NEW e \in Entries, NEW c \in Contents, Sound(e, c)
  PROVE  Sound(e, c)' \/ t \in TagsOf(e, c)
<1>1. TagsOf(e, c) \subseteq Tags
  BY TagsOfType
<1>2. UNCHANGED database /\ \A u \in Tags : Pending(u) /\ u # t => Pending(u)'
  BY DroppedEffect DEF DropTag
<1>3. UpToDate(e, c) => UpToDate(e, c)'
  BY <1>2 DEF database, UpToDate, Answer
<1> QED
  BY <1>1, <1>2, <1>3 DEF Sound

\* A fill that takes no step keeps what it loaded sound, if the step does.
LEMMA FillKept ==
  ASSUME CacheTypeOK, NEW f \in Fills, FillSound(f),
         \A e \in Entries, c \in Contents : Sound(e, c) => Sound(e, c)',
         stage'[f] = stage[f], key'[f] = key[f], loaded'[f] = loaded[f],
         since'[f] = since[f], age'[f] = age[f], fence' = fence
  PROVE  FillSound(f)'
<1> SUFFICES ASSUME Held(f)
             PROVE  /\ Shape(key[f], loaded[f])
                    /\ \/ Sound(key[f], loaded[f])'
                       \/ age'[f] >= FenceTtl
                       \/ Invalidated(f)'
  BY DEF FillSound, Held, Cacheable, Shape, Shows
<1>1. PICK e \in Entries, c \in Contents : e = key[f] /\ c = loaded[f]
  BY DEF CacheTypeOK
<1>2. Shape(e, c) /\ (Sound(e, c) \/ age[f] >= FenceTtl \/ Invalidated(f))
  BY <1>1 DEF FillSound
<1>3. Invalidated(f) => Invalidated(f)'
  BY DEF Invalidated, TagsOf, Shows
<1>4. Sound(e, c) => Sound(key[f], loaded[f])'
  BY <1>1 DEF Sound, UpToDate, Answer, TagsOf, Shows, Pending
<1> QED
  BY <1>1, <1>2, <1>3, <1>4

\* A step of one fill keeps what the other fills loaded sound.
LEMMA OtherFills ==
  ASSUME CacheInv, NEW f \in Fills, UNCHANGED <<database, fence, owed, lostTags>>,
         NEW g \in Fills, g # f,
         stage'[g] = stage[g], key'[g] = key[g], loaded'[g] = loaded[g],
         since'[g] = since[g], age'[g] = age[g]
  PROVE  FillSound(g)'
<1>1. \A u \in Tags : Pending(u) => Pending(u)'
  BY DEF Pending
<1>2. \A e \in Entries, c \in Contents : Sound(e, c) => Sound(e, c)'
  BY <1>1, SoundKept
<1> QED
  BY <1>2, FillKept DEF CacheInv

LEMMA FillStep ==
  ASSUME CacheInv, [CacheNext]_cacheVars
  PROVE  \A g \in Fills : FillSound(g)'
<1>0. CacheTypeOK /\ \A g \in Fills : FillSound(g) /\ FenceSound(g)
  BY DEF CacheInv
<1>1. /\ stage \in [Fills -> {"idle", "fenced", "loaded", "sent"}]
      /\ key \in [Fills -> Entries]
      /\ since \in [Fills -> Nat]
      /\ age \in [Fills -> Nat]
      /\ loaded \in [Fills -> Contents]
      /\ fence \in [Tags -> Nat] /\ fenceAge \in [Tags -> Nat] /\ seq \in Nat
  BY <1>0 DEF CacheTypeOK
<1>2. ASSUME UNCHANGED <<stage, key, since, age, loaded, fence>>,
             \A e \in Entries, c \in Contents : Sound(e, c) => Sound(e, c)'
      PROVE  \A g \in Fills : FillSound(g)'
  BY <1>0, <1>2, FillKept
<1>3. ASSUME UNCHANGED database, \A u \in Tags : Pending(u) => Pending(u)'
      PROVE  \A e \in Entries, c \in Contents : Sound(e, c) => Sound(e, c)'
  BY <1>3, SoundKept
<1>4. ASSUME NEW f \in Fills, Fence(f), NEW g \in Fills
      PROVE  FillSound(g)'
  <2>1. /\ UNCHANGED <<database, fence, owed, lostTags, loaded>>
        /\ \E e \in Entries : key' = [key EXCEPT ![f] = e]
        /\ since' = [since EXCEPT ![f] = seq]
        /\ age' = [age EXCEPT ![f] = 0]
        /\ stage' = [stage EXCEPT ![f] = "fenced"]
    BY <1>4 DEF Fence, redis
  <2>2. CASE g = f
    BY <1>1, <2>1, <2>2 DEF FillSound, Held
  <2>3. CASE g # f
    <3>1. /\ stage'[g] = stage[g] /\ key'[g] = key[g] /\ loaded'[g] = loaded[g]
          /\ since'[g] = since[g] /\ age'[g] = age[g]
      BY <1>1, <2>1, <2>3
    <3> QED
      BY <2>1, <2>3, <3>1, OtherFills
  <2> QED
    BY <2>2, <2>3
<1>5. ASSUME NEW f \in Fills, Load(f), NEW g \in Fills
      PROVE  FillSound(g)'
  <2>1. /\ UNCHANGED <<database, fence, owed, lostTags, key, since, age>>
        /\ loaded' = [loaded EXCEPT ![f] = View(key[f])]
        /\ stage' = [stage EXCEPT ![f] = "loaded"]
    BY <1>5 DEF Load, redis
  <2>2. CASE g = f
    <3>1. PICK e \in Entries : e = key[f]
      BY <1>1
    <3>2. PICK c \in Contents : c = View(e)
      BY <1>0, ViewType
    <3>3. loaded'[f] = c /\ key'[f] = e
      BY <1>1, <2>1, <3>1, <3>2
    <3>4. UpToDate(e, c) /\ (Cacheable(e, c) => Shape(e, c))
      BY <1>0, <3>2, ViewSound
    <3>5. UpToDate(e, c)'
      BY <2>1, <3>4 DEF UpToDate, Answer, database
    <3>6. Sound(key[f], loaded[f])'
      BY <3>3, <3>5 DEF Sound, UpToDate, Answer, Shows
    <3> QED
      BY <2>2, <3>3, <3>4, <3>6 DEF FillSound, Held, Cacheable, Shape, Shows
  <2>3. CASE g # f
    <3>1. stage'[g] = stage[g] /\ loaded'[g] = loaded[g]
      BY <1>1, <2>1, <2>3
    <3> QED
      BY <2>1, <2>3, <3>1, OtherFills
  <2> QED
    BY <2>2, <2>3
<1>12. ASSUME NEW f \in Fills, Send(f), NEW g \in Fills
       PROVE  FillSound(g)'
  <2>1. /\ UNCHANGED <<database, fence, owed, lostTags, key, since, age, loaded>>
        /\ stage[f] = "loaded"
        /\ stage' = [stage EXCEPT ![f] = "sent"]
    BY <1>12 DEF Send, redis
  <2>2. \A e \in Entries, c \in Contents : Sound(e, c) => Sound(e, c)'
    BY <1>3, <2>1 DEF Pending
  <2>3. CASE Held(g)
    <3>1. PICK e \in Entries, c \in Contents : e = key[g] /\ c = loaded[g]
      BY <1>1
    <3>2. Shape(e, c) /\ (Sound(e, c) \/ age[g] >= FenceTtl \/ Invalidated(g))
      BY <1>0, <2>3, <3>1 DEF FillSound
    <3>3. Sound(e, c) => Sound(key[g], loaded[g])'
      BY <2>1, <2>2, <3>1 DEF Sound, UpToDate, Answer, TagsOf, Shows, Pending
    <3>4. Invalidated(g) => Invalidated(g)'
      BY <2>1 DEF Invalidated, TagsOf, Shows
    <3>5. Shape(key[g], loaded[g])'
      BY <2>1, <3>1, <3>2 DEF Shape, Shows
    <3> QED
      BY <2>1, <3>2, <3>3, <3>4, <3>5 DEF FillSound
  <2>4. CASE ~Held(g)
    <3>1. g # f => stage'[g] = stage[g]
      BY <1>1, <2>1
    <3>2. ~Held(g)'
      BY <2>1, <2>4, <3>1 DEF Held, Cacheable, Shows
    <3> QED
      BY <3>2 DEF FillSound
  <2> QED
    BY <2>3, <2>4
<1>6. ASSUME NEW f \in Fills, Store(f) \/ GiveUp(f), NEW g \in Fills
      PROVE  FillSound(g)'
  <2>1. UNCHANGED <<database, fence, owed, lostTags>> /\ EndFill(f)
    BY <1>6 DEF Store, GiveUp, redis
  <2>2. CASE g = f
    BY <1>1, <2>1, <2>2 DEF FillSound, Held, EndFill
  <2>3. CASE g # f
    <3>1. /\ stage'[g] = stage[g] /\ key'[g] = key[g] /\ loaded'[g] = loaded[g]
          /\ since'[g] = since[g] /\ age'[g] = age[g]
      BY <1>1, <2>1, <2>3 DEF EndFill
    <3> QED
      BY <2>1, <2>3, <3>1, OtherFills
  <2> QED
    BY <2>2, <2>3
<1>7. ASSUME Written, NEW g \in Fills
      PROVE  FillSound(g)'
  <2>1. UNCHANGED <<stage, key, since, age, loaded, fence>>
    BY <1>0, <1>7, WrittenEffect DEF redis, fills
  <2>2. CASE Held(g)
    <3>1. PICK e \in Entries, c \in Contents : e = key[g] /\ c = loaded[g]
      BY <1>1
    <3>2. Shape(e, c) /\ (Sound(e, c) \/ age[g] >= FenceTtl \/ Invalidated(g))
      BY <1>0, <2>2, <3>1 DEF FillSound
    <3>3. Sound(e, c) => Sound(e, c)'
      BY <1>0, <1>7, <3>2, WrittenKeepsSound
    <3>4. Sound(e, c)' => Sound(key[g], loaded[g])'
      BY <2>1, <3>1 DEF Sound, UpToDate, Answer, TagsOf, Shows, Pending
    <3>5. Invalidated(g) => Invalidated(g)'
      BY <2>1 DEF Invalidated, TagsOf, Shows
    <3>6. Shape(key[g], loaded[g])'
      BY <2>1, <3>1, <3>2 DEF Shape, Shows
    <3> QED
      BY <2>1, <3>2, <3>3, <3>4, <3>5, <3>6 DEF FillSound
  <2>3. CASE ~Held(g)
    BY <2>1, <2>3 DEF FillSound, Held, Cacheable, Shows
  <2> QED
    BY <2>2, <2>3
<1>8. ASSUME NEW t \in Tags, Dropped(t), NEW g \in Fills
      PROVE  FillSound(g)'
  <2>1. /\ UNCHANGED <<database, stage, key, since, age, loaded>>
        /\ fence' = [fence EXCEPT ![t] = seq + 1]
    BY <1>0, <1>8, DroppedEffect DEF DropTag, fills
  <2>2. CASE Held(g)
    <3>1. PICK e \in Entries, c \in Contents : e = key[g] /\ c = loaded[g]
      BY <1>1
    <3>2. Shape(e, c) /\ (Sound(e, c) \/ age[g] >= FenceTtl \/ Invalidated(g))
      BY <1>0, <2>2, <3>1 DEF FillSound
    <3>3. Sound(e, c) => Sound(e, c)' \/ t \in TagsOf(e, c)
      BY <1>0, <1>8, SoundOrDropped
    <3>4. Sound(e, c)' => Sound(key[g], loaded[g])'
      BY <2>1, <3>1 DEF Sound, UpToDate, Answer, TagsOf, Shows, Pending
    <3>5. \A u \in Tags : fence'[u] >= fence[u]
      BY <1>1, <2>1 DEF CacheInv, Numbered
    <3>6. fence'[t] > since[g]
      BY <1>0, <1>1, <2>1 DEF FenceSound
    <3>7. TagsOf(e, c) \subseteq Tags
      BY TagsOfType
    <3>8. Invalidated(g) \/ t \in TagsOf(e, c) => Invalidated(g)'
      <4>1. \A u \in Tags : fence[u] > since[g] => fence'[u] > since[g]
        BY <1>1, <2>1, <3>5
      <4>2. Invalidated(g) \/ t \in TagsOf(e, c)
              => \E u \in TagsOf(e, c) : fence'[u] > since[g]
        BY <3>1, <3>6, <3>7, <4>1 DEF Invalidated
      <4> QED
        BY <2>1, <3>1, <4>2 DEF Invalidated, TagsOf, Shows
    <3>9. Shape(key[g], loaded[g])'
      BY <2>1, <3>1, <3>2 DEF Shape, Shows
    <3> QED
      BY <2>1, <3>2, <3>3, <3>4, <3>8, <3>9 DEF FillSound
  <2>3. CASE ~Held(g)
    BY <2>1, <2>3 DEF FillSound, Held, Cacheable, Shows
  <2> QED
    BY <2>2, <2>3
<1>9. ASSUME Tick, NEW g \in Fills
      PROVE  FillSound(g)'
  <2>1. UNCHANGED <<database, stage, key, since, loaded, owed, lostTags>>
    BY <1>9 DEF Tick
  <2>2. CASE Held(g)
    <3>1. PICK e \in Entries, c \in Contents : e = key[g] /\ c = loaded[g]
      BY <1>1
    <3>2. Shape(e, c) /\ (Sound(e, c) \/ age[g] >= FenceTtl \/ Invalidated(g))
      BY <1>0, <2>2, <3>1 DEF FillSound
    <3>3. Sound(e, c) => Sound(key[g], loaded[g])'
      BY <2>1, <3>1 DEF Sound, UpToDate, Answer, TagsOf, Shows, Pending, database
    <3>4. age'[g] = IF age[g] >= FenceTtl THEN age[g] ELSE age[g] + 1
      BY <1>9, <2>2 DEF Tick, Held
    <3>5. ASSUME age[g] < FenceTtl, NEW u \in Tags, fence[u] > since[g]
          PROVE  fence'[u] = fence[u] \/ age'[g] >= FenceTtl
      <4>1. fenceAge[u] <= age[g]
        BY <1>0, <2>2, <3>5 DEF FenceSound, Held
      <4>2. fence'[u] = IF fenceAge[u] + 1 >= FenceTtl THEN 0 ELSE fence[u]
        BY <1>9 DEF Tick
      <4>3. age'[g] = age[g] + 1
        BY <1>1, <3>4, <3>5, CacheAssumption
      <4> QED
        BY <1>1, <4>1, <4>2, <4>3, CacheAssumption
    <3>6. Invalidated(g) => Invalidated(g)' \/ age'[g] >= FenceTtl
      <4>1. TagsOf(e, c) \subseteq Tags
        BY TagsOfType
      <4>2. age[g] >= FenceTtl => age'[g] >= FenceTtl
        BY <3>4
      <4>3. age[g] >= FenceTtl \/ age[g] < FenceTtl
        BY <1>1, CacheAssumption
      <4>4. Invalidated(g)
              => (\E u \in TagsOf(e, c) : fence'[u] > since[g]) \/ age'[g] >= FenceTtl
        BY <3>1, <3>5, <4>1, <4>2, <4>3 DEF Invalidated
      <4> QED
        BY <2>1, <3>1, <4>4 DEF Invalidated, TagsOf, Shows
    <3>7. Shape(key[g], loaded[g])'
      BY <2>1, <3>1, <3>2 DEF Shape, Shows
    <3> QED
      BY <2>1, <3>2, <3>3, <3>4, <3>6, <3>7 DEF FillSound
  <2>3. CASE ~Held(g)
    BY <2>1, <2>3 DEF FillSound, Held, Cacheable, Shows
  <2> QED
    BY <2>2, <2>3
<1>10. CASE UNCHANGED cacheVars
  BY <1>2, <1>3, <1>10 DEF cacheVars, database, Pending
<1>11. ASSUME NEW w \in Writers, NEW t \in Tags, InvalidateFails(w, t)
       PROVE  \A g \in Fills : FillSound(g)'
  BY <1>0, <1>2, <1>3, <1>11, FailsEffect DEF redis, fills
<1> QED
  BY <1>4, <1>5, <1>6, <1>7, <1>8, <1>9, <1>10, <1>11, <1>12, Steps

\* The age of a fill grows no faster than the wait for it.
LEMMA SentStep ==
  ASSUME CacheInv, [CacheNext]_cacheVars
  PROVE  \A g \in Fills : SentSound(g)'
<1>0. CacheTypeOK /\ \A g \in Fills : SentSound(g)
  BY DEF CacheInv
<1>1. /\ stage \in [Fills -> {"idle", "fenced", "loaded", "sent"}]
      /\ age \in [Fills -> Nat] /\ wait \in [Fills -> Nat]
  BY <1>0 DEF CacheTypeOK
<1>2. ASSUME NEW g \in Fills, UNCHANGED <<key[g], loaded[g], age[g], wait[g]>>,
             stage'[g] = stage[g]
      PROVE  SentSound(g)'
  BY <1>0, <1>2 DEF SentSound, Cacheable, Shows
<1>3. ASSUME NEW g \in Fills, stage'[g] # "sent"
      PROVE  SentSound(g)'
  BY <1>3 DEF SentSound
<1>4. ASSUME NEW f \in Fills, NEW g \in Fills, Fence(f) \/ Load(f) \/ EndFill(f)
      PROVE  SentSound(g)'
  <2>1. CASE g = f
    <3>1. stage'[f] # "sent"
      BY <1>1, <1>4 DEF Fence, Load, EndFill
    <3> QED
      BY <1>3, <2>1, <3>1
  <2>2. CASE g # f
    BY <1>0, <1>2, <1>4, <2>2 DEF Fence, Load, EndFill, CacheTypeOK
  <2> QED
    BY <2>1, <2>2
<1>5. ASSUME NEW f \in Fills, NEW g \in Fills, Send(f)
      PROVE  SentSound(g)'
  <2>1. /\ UNCHANGED <<key, age, loaded, wait>>
        /\ stage' = [stage EXCEPT ![f] = "sent"]
        /\ age[f] <= MaxAge
        /\ Cacheable(key[f], loaded[f])
    BY <1>5 DEF Send
  <2>2. CASE g = f
    <3>1. age[f] <= MaxAge + wait[f]
      BY <1>1, <2>1, CacheAssumption
    <3> QED
      BY <2>1, <2>2, <3>1 DEF SentSound, Cacheable, Shows
  <2>3. CASE g # f
    <3>1. stage'[g] = stage[g]
      BY <1>1, <2>1, <2>3
    <3> QED
      BY <1>2, <2>1, <3>1
  <2> QED
    BY <2>2, <2>3
<1>6. ASSUME NEW g \in Fills, Tick
      PROVE  SentSound(g)'
  <2>1. /\ UNCHANGED <<key, loaded, stage>>
        /\ stage[g] = "sent" =>
             /\ age'[g] = IF age[g] >= FenceTtl THEN age[g] ELSE age[g] + 1
             /\ wait'[g] = IF wait[g] > CallTimeout THEN wait[g] ELSE wait[g] + 1
    BY <1>6 DEF Tick
  <2>2. ASSUME stage[g] = "sent", wait'[g] <= CallTimeout
        PROVE  age'[g] <= MaxAge + wait'[g]
    <3>1. wait'[g] = wait[g] + 1 /\ wait[g] <= CallTimeout
      BY <1>1, <2>1, <2>2, CacheAssumption
    <3>2. age[g] <= MaxAge + wait[g]
      BY <1>0, <2>2, <3>1 DEF SentSound
    <3> QED
      BY <1>1, <2>1, <2>2, <3>1, <3>2, CacheAssumption
  <2> QED
    BY <1>0, <2>1, <2>2 DEF SentSound, Cacheable, Shows
<1>7. ASSUME UNCHANGED fills, NEW g \in Fills
      PROVE  SentSound(g)'
  BY <1>2, <1>7 DEF fills
<1>8. CASE UNCHANGED cacheVars
  BY <1>7, <1>8 DEF cacheVars, fills
<1>9. CASE Written
  BY <1>0, <1>7, <1>9, WrittenEffect
<1>10. ASSUME NEW f \in Fills, Store(f) \/ GiveUp(f)
       PROVE  \A g \in Fills : SentSound(g)'
  BY <1>4, <1>10 DEF Store, GiveUp
<1>11. ASSUME NEW w \in Writers, NEW t \in Tags, InvalidateFails(w, t)
       PROVE  \A g \in Fills : SentSound(g)'
  BY <1>0, <1>7, <1>11, FailsEffect
<1>12. ASSUME NEW t \in Tags, Dropped(t)
       PROVE  \A g \in Fills : SentSound(g)'
  BY <1>0, <1>7, <1>12, DroppedEffect DEF DropTag
<1> QED
  BY <1>4, <1>5, <1>6, <1>8, <1>9, <1>10, <1>11, <1>12, Steps

-----------------------------------------------------------------------------
\* An entry no step touches stays sound, if the step keeps values sound.
LEMMA EntryKept ==
  ASSUME CacheTypeOK, NEW e \in Entries, EntrySound(e),
         UNCHANGED <<stored, left, sets, setLeft, overdue>>,
         \A c \in Contents : Shape(e, c) /\ Sound(e, c) => Sound(e, c)'
  PROVE  EntrySound(e)'
<1> SUFFICES ASSUME Cached(e)'
             PROVE  /\ Shape(e, stored[e])
                    /\ Sound(e, stored[e])' \/ e \in overdue
                    /\ left[e] # 0
                    /\ \A t \in TagsOf(e, stored[e]) :
                         e \in sets[t] /\ left[e] <= setLeft[t]
  BY DEF EntrySound, Shape, Shows, TagsOf
<1>1. Cached(e)
  BY DEF Cached
<1>2. PICK c \in Contents : c = stored[e]
  BY <1>1 DEF CacheTypeOK, Cached
<1>3. Shape(e, c) /\ (Sound(e, c) \/ e \in overdue)
  BY <1>1, <1>2 DEF EntrySound
<1>4. Sound(e, c)' \/ e \in overdue
  BY <1>3
<1>5. Sound(e, stored[e])' \/ e \in overdue
  BY <1>2, <1>4 DEF Sound, UpToDate, Answer, TagsOf, Shows, Pending
<1> QED
  BY <1>1, <1>5 DEF EntrySound

LEMMA StoreEntry ==
  ASSUME CacheInv, NEW f \in Fills, Store(f), NEW e \in Entries
  PROVE  EntrySound(e)'
<1>0. CacheTypeOK /\ EntrySound(e)
  BY DEF CacheInv
<1>1. /\ stored \in [Entries -> Contents \cup {NoEntry}]
      /\ left \in [Entries -> Nat]
      /\ sets \in [Tags -> SUBSET Entries]
      /\ setLeft \in [Tags -> Nat]
      /\ key \in [Fills -> Entries] /\ loaded \in [Fills -> Contents] /\ age \in [Fills -> Nat]
  BY <1>0 DEF CacheTypeOK
<1>2. PICK k \in Entries, v \in Contents : k = key[f] /\ v = loaded[f]
  BY <1>1
<1>3. UNCHANGED <<database, owed, lostTags>>
  BY DEF Store
<1>4. \A c \in Contents : Sound(e, c) => Sound(e, c)'
  BY <1>3, SoundKept DEF Pending
<1>5. TagsOf(k, v) \subseteq Tags
  BY TagsOfType
<1>6. CASE Invalidated(f)
  <2>1. /\ stored' = [stored EXCEPT ![k] = NoEntry]
        /\ left' = [left EXCEPT ![k] = 0]
        /\ overdue' = overdue \ {k}
        /\ UNCHANGED <<sets, setLeft>>
    BY <1>2, <1>6 DEF Store
  <2>2. CASE e = k
    BY <1>1, <2>1, <2>2 DEF EntrySound, Cached
  <2>3. CASE e # k
    <3>1. stored'[e] = stored[e] /\ left'[e] = left[e]
      BY <1>1, <2>1, <2>3
    <3>2. CASE Cached(e)
      <4>1. PICK c \in Contents : c = stored[e]
        BY <1>1, <3>2 DEF Cached
      <4>2. Sound(e, c)' \/ e \in overdue'
        BY <1>0, <1>4, <2>1, <2>3, <3>2, <4>1 DEF EntrySound
      <4>3. Sound(e, stored[e])' \/ e \in overdue'
        BY <3>1, <4>1, <4>2 DEF Sound, UpToDate, Answer, TagsOf, Shows, Pending
      <4> QED
        BY <1>0, <2>1, <3>1, <3>2, <4>3 DEF EntrySound, Shape, Shows, TagsOf
    <3>3. CASE ~Cached(e)
      BY <3>1, <3>3 DEF EntrySound, Cached
    <3> QED
      BY <3>2, <3>3
  <2> QED
    BY <2>2, <2>3
<1>7. CASE ~Invalidated(f)
  <2>1. /\ stored' = [stored EXCEPT ![k] = v]
        /\ left' = [left EXCEPT ![k] = Ttl[k]]
        /\ \A t \in Tags : sets'[t] = IF t \in TagsOf(k, v) THEN sets[t] \cup {k} ELSE sets[t]
        /\ \A t \in Tags : setLeft'[t] = IF t \in TagsOf(k, v) THEN SetTtl(k, t) ELSE setLeft[t]
        /\ overdue' = IF Overdue(f) THEN overdue \cup {k} ELSE overdue \ {k}
        /\ stage[f] = "sent"
    BY <1>2, <1>7 DEF Store
  <2>2. Ttl[k] \in Nat \ {0} /\ SetMargin \in Nat
    BY CacheAssumption
  <2>3. \A t \in Tags : /\ setLeft[t] <= SetTtl(k, t)
                        /\ Ttl[k] <= SetTtl(k, t)
    BY <1>1, <2>2 DEF SetTtl
  <2>4. CASE e = k
    <3>1. stored'[e] = v /\ left'[e] = Ttl[k]
      BY <1>1, <2>1, <2>4
    <3>2. Shape(k, v) /\ (Sound(k, v) \/ Overdue(f))
      <4>1. /\ Cacheable(k, v)
            /\ wait[f] <= CallTimeout => age[f] <= MaxAge + wait[f]
        BY <1>2, <2>1 DEF CacheInv, SentSound
      <4>2. age[f] >= FenceTtl => Overdue(f)
        <5>1. wait[f] \in Nat
          BY <1>0 DEF CacheTypeOK
        <5> QED
          BY <1>1, <4>1, <5>1, CacheAssumption DEF Overdue
      <4>3. Held(f)
        BY <1>2, <2>1, <4>1 DEF Held
      <4> QED
        BY <1>2, <1>7, <4>2, <4>3 DEF CacheInv, FillSound
    <3>3. Sound(e, v)' \/ e \in overdue'
      BY <1>4, <2>1, <2>4, <3>2
    <3>4. Sound(e, stored[e])' \/ e \in overdue'
      BY <3>1, <3>3 DEF Sound, UpToDate, Answer, TagsOf, Shows, Pending
    <3>5. \A t \in TagsOf(k, v) : k \in sets'[t] /\ Ttl[k] <= setLeft'[t]
      BY <1>5, <2>1, <2>3
    <3>6. Shape(e, stored[e])'
      BY <2>4, <3>1, <3>2 DEF Shape, Shows
    <3>7. \A t \in TagsOf(e, stored'[e]) : e \in sets'[t] /\ left'[e] <= setLeft'[t]
      BY <2>4, <3>1, <3>5
    <3> QED
      BY <2>2, <3>1, <3>4, <3>6, <3>7 DEF EntrySound, TagsOf, Shows
  <2>5. CASE e # k
    <3>1. stored'[e] = stored[e] /\ left'[e] = left[e]
      BY <1>1, <2>1, <2>5
    <3>2. CASE Cached(e)
      <4>1. PICK c \in Contents : c = stored[e]
        BY <1>1, <3>2 DEF Cached
      <4>2. Shape(e, c) /\ (Sound(e, c)' \/ e \in overdue') /\ left[e] # 0
        BY <1>0, <1>4, <2>1, <2>5, <3>2, <4>1 DEF EntrySound
      <4>3. Sound(e, stored[e])' \/ e \in overdue'
        BY <3>1, <4>1, <4>2 DEF Sound, UpToDate, Answer, TagsOf, Shows, Pending
      <4>4. TagsOf(e, c) \subseteq Tags
        BY TagsOfType
      <4>5. \A t \in TagsOf(e, c) : e \in sets[t] /\ left[e] <= setLeft[t]
        BY <1>0, <3>2, <4>1 DEF EntrySound
      <4>6. \A t \in Tags : sets[t] \subseteq sets'[t]
        BY <2>1
      <4>7. \A t \in Tags : setLeft[t] <= setLeft'[t]
        BY <1>1, <2>1, <2>3
      <4>8. \A t \in Tags : setLeft'[t] \in Nat
        BY <1>1, <2>1, <2>2 DEF SetTtl
      <4>9. \A t \in TagsOf(e, c) : e \in sets'[t] /\ left[e] <= setLeft'[t]
        BY <1>1, <4>4, <4>5, <4>6, <4>7, <4>8
      <4>10. Shape(e, stored[e])'
        BY <3>1, <4>1, <4>2 DEF Shape, Shows
      <4> QED
        BY <3>1, <4>1, <4>2, <4>3, <4>9, <4>10 DEF EntrySound, TagsOf, Shows
    <3>3. CASE ~Cached(e)
      BY <3>1, <3>3 DEF EntrySound, Cached
    <3> QED
      BY <3>2, <3>3
  <2> QED
    BY <2>4, <2>5
<1> QED
  BY <1>6, <1>7

LEMMA DroppedEntry ==
  ASSUME CacheInv, NEW t \in Tags, Dropped(t), NEW e \in Entries
  PROVE  EntrySound(e)'
<1>0. CacheTypeOK /\ EntrySound(e)
  BY DEF CacheInv
<1>1. /\ stored' = [d \in Entries |-> IF d \in sets[t] THEN NoEntry ELSE stored[d]]
      /\ left' = [d \in Entries |-> IF d \in sets[t] THEN 0 ELSE left[d]]
      /\ sets' = [sets EXCEPT ![t] = {}]
      /\ setLeft' = [setLeft EXCEPT ![t] = 0]
      /\ overdue' = overdue \ sets[t]
  BY <1>0, DroppedEffect DEF DropTag
<1>2. CASE ~Cached(e) \/ e \in sets[t]
  BY <1>1, <1>2 DEF EntrySound, Cached
<1>3. CASE Cached(e) /\ e \notin sets[t]
  <2>1. stored'[e] = stored[e] /\ left'[e] = left[e]
    BY <1>1, <1>3
  <2>2. PICK c \in Contents : c = stored[e]
    BY <1>0, <1>3 DEF CacheTypeOK, Cached
  <2>3. /\ Shape(e, c) /\ (Sound(e, c) \/ e \in overdue) /\ left[e] # 0
        /\ \A u \in TagsOf(e, c) : e \in sets[u] /\ left[e] <= setLeft[u]
    BY <1>0, <1>3, <2>2 DEF EntrySound
  <2>4. t \notin TagsOf(e, c)
    BY <1>3, <2>3
  <2>5. Sound(e, c)' \/ e \in overdue'
    BY <1>0, <1>1, <1>3, <2>3, <2>4, SoundOrDropped
  <2>6. Sound(e, stored[e])' \/ e \in overdue'
    BY <2>1, <2>2, <2>5 DEF Sound, UpToDate, Answer, TagsOf, Shows, Pending
  <2>7. TagsOf(e, c) \subseteq Tags
    BY TagsOfType
  <2>8. \A u \in TagsOf(e, c) : e \in sets'[u] /\ left[e] <= setLeft'[u]
    BY <1>0, <1>1, <2>3, <2>4, <2>7 DEF CacheTypeOK
  <2>9. Shape(e, stored[e])'
    BY <2>1, <2>2, <2>3 DEF Shape, Shows
  <2> QED
    BY <2>1, <2>2, <2>3, <2>6, <2>8, <2>9 DEF EntrySound, TagsOf, Shows
<1> QED
  BY <1>2, <1>3

LEMMA TickEntry ==
  ASSUME CacheInv, Tick, NEW e \in Entries
  PROVE  EntrySound(e)'
<1>0. CacheTypeOK /\ EntrySound(e)
  BY DEF CacheInv
<1>1. /\ left'[e] = Less(left[e])
      /\ stored'[e] = IF left[e] <= 1 THEN NoEntry ELSE stored[e]
      /\ \A t \in Tags : setLeft'[t] = Less(setLeft[t])
      /\ \A t \in Tags : sets'[t] = IF setLeft[t] <= 1 THEN {} ELSE sets[t]
      /\ overdue' = {d \in overdue : left[d] > 1}
      /\ UNCHANGED <<database, owed, lostTags>>
  BY DEF Tick
<1>2. left[e] \in Nat /\ \A t \in Tags : setLeft[t] \in Nat
  BY <1>0 DEF CacheTypeOK
<1>3. CASE ~Cached(e) \/ left[e] <= 1
  BY <1>1, <1>3 DEF EntrySound, Cached
<1>4. CASE Cached(e) /\ left[e] > 1
  <2>1. stored'[e] = stored[e] /\ left'[e] = left[e] - 1
    BY <1>1, <1>2, <1>4 DEF Less
  <2>2. PICK c \in Contents : c = stored[e]
    BY <1>0, <1>4 DEF CacheTypeOK, Cached
  <2>3. /\ Shape(e, c) /\ (Sound(e, c) \/ e \in overdue)
        /\ \A u \in TagsOf(e, c) : e \in sets[u] /\ left[e] <= setLeft[u]
    BY <1>0, <1>4, <2>2 DEF EntrySound
  <2>4. Sound(e, c)' \/ e \in overdue'
    BY <1>1, <1>4, <2>3, SoundKept DEF Pending
  <2>5. Sound(e, stored[e])' \/ e \in overdue'
    BY <2>1, <2>2, <2>4 DEF Sound, UpToDate, Answer, TagsOf, Shows, Pending
  <2>6. TagsOf(e, c) \subseteq Tags
    BY TagsOfType
  <2>7. ASSUME NEW u \in TagsOf(e, c)
        PROVE  e \in sets'[u] /\ left'[e] <= setLeft'[u]
    <3>1. u \in Tags /\ setLeft[u] \in Nat /\ e \in sets[u] /\ left[e] <= setLeft[u]
      BY <1>2, <2>3, <2>6
    <3>2. setLeft[u] > 1
      BY <1>2, <1>4, <3>1
    <3>3. sets'[u] = sets[u] /\ setLeft'[u] = setLeft[u] - 1
      BY <1>1, <3>1, <3>2 DEF Less
    <3> QED
      BY <1>2, <2>1, <3>1, <3>3
  <2>8. Shape(e, stored[e])' /\ left'[e] # 0
    BY <1>2, <1>4, <2>1, <2>2, <2>3 DEF Shape, Shows
  <2> QED
    BY <2>1, <2>2, <2>5, <2>7, <2>8 DEF EntrySound, TagsOf, Shows
<1> QED
  BY <1>2, <1>3, <1>4

LEMMA EntryStep ==
  ASSUME CacheInv, [CacheNext]_cacheVars
  PROVE  \A e \in Entries : EntrySound(e)'
<1>0. CacheTypeOK /\ \A e \in Entries : EntrySound(e)
  BY DEF CacheInv
<1>1. ASSUME UNCHANGED <<database, stored, left, sets, setLeft, overdue>>,
             \A u \in Tags : Pending(u) => Pending(u)'
      PROVE  \A e \in Entries : EntrySound(e)'
  BY <1>0, <1>1, SoundKept, EntryKept
<1>2. CASE UNCHANGED cacheVars
  BY <1>1, <1>2 DEF cacheVars, database, Pending
<1>3. ASSUME NEW f \in Fills, Fence(f) \/ Load(f) \/ Send(f) \/ GiveUp(f)
      PROVE  \A e \in Entries : EntrySound(e)'
  BY <1>1, <1>3 DEF Fence, Load, Send, GiveUp, redis, Pending
<1>4. CASE Written
  <2>1. UNCHANGED <<stored, left, sets, setLeft, overdue>>
    BY <1>0, <1>4, WrittenEffect DEF redis
  <2>2. \A e \in Entries, c \in Contents : Shape(e, c) /\ Sound(e, c) => Sound(e, c)'
    BY <1>0, <1>4, WrittenKeepsSound
  <2> QED
    BY <1>0, <2>1, <2>2, EntryKept
<1>5. ASSUME NEW w \in Writers, NEW t \in Tags, InvalidateFails(w, t)
      PROVE  \A e \in Entries : EntrySound(e)'
  BY <1>0, <1>1, <1>5, FailsEffect DEF redis
<1> QED
  BY <1>2, <1>3, <1>4, <1>5, Steps, StoreEntry, DroppedEntry, TickEntry

-----------------------------------------------------------------------------
LEMMA StepSound ==
  ASSUME CacheInv, [CacheNext]_cacheVars
  PROVE  CacheInv'
<1>1. CacheTypeOK'
  BY TypeStep DEF CacheInv
<1>2. Numbered' /\ \A g \in Fills : FenceSound(g)'
  BY FenceStep
<1>3. \A g \in Fills : FillSound(g)' /\ SentSound(g)'
  BY FillStep, SentStep
<1>4. \A e \in Entries : EntrySound(e)'
  BY EntryStep
<1> QED
  BY <1>1, <1>2, <1>3, <1>4 DEF CacheInv

LEMMA CacheInvariance == CacheSpec => []CacheInv
<1>1. CacheInit => CacheInv
  BY InitSound
<1>2. CacheInv /\ [CacheNext]_cacheVars => CacheInv'
  BY StepSound
<1> QED
  BY <1>1, <1>2, PTL DEF CacheSpec

(* The variables of the cache have their types (base.repository.ts,       *)
(* cache.service.ts), whatever the times to live and the number of fills.  *)
THEOREM CacheTypeCorrect == CacheSpec => []CacheTypeOK
<1>1. CacheInv => CacheTypeOK
  BY DEF CacheInv
<1> QED
  BY <1>1, CacheInvariance, PTL

(* TAG_SCRIPT and INVALIDATE_SCRIPT never leave an entry out of the set of *)
(* one of its tags while it lives, although sets expire, too.              *)
THEOREM AlwaysTracked == CacheSpec => []Tracked
<1>1. CacheInv => Tracked
  BY DEF CacheInv, EntrySound, Tracked
<1> QED
  BY <1>1, CacheInvariance, PTL

(* The fence of cached() works: what is in the cache is up to date, or an  *)
(* invalidation that reaches it is outstanding or was lost, or Redis       *)
(* stored it after its caller had given up and fences had expired.         *)
THEOREM NeverSilentlyStale == CacheSpec => []StaleOnlyWhilePending
<1>1. CacheInv => StaleOnlyWhilePending
  BY DEF CacheInv, EntrySound, Sound, StaleOnlyWhilePending
<1> QED
  BY <1>1, CacheInvariance, PTL

-----------------------------------------------------------------------------
(***************************************************************************)
(* Sessions.                                                               *)
(***************************************************************************)

\* Where a request is, or where it will be once its invalidation is sent.
Where(r) == IF at[r] = "drop" THEN my[r].next ELSE at[r]

\* A session is on its way, and its predecessor has ended.
Creating == {"count", "list", "evict", "insert"}

Holding == {"owner", "recheck", "rotate", "logout"}

Signing == {"lock", "verify", "rehash"}

Afters == {"idle", "count", "evict", "insert", "adminCommit"}

\* The local variables of a request agree with its place.
CallSound(r) ==
  /\ my[r].next \in Afters
  /\ my[r].sid <= created
  /\ at[r] \in Holding => my[r].sid # 0
  /\ at[r] \in Signing => my[r].sid = 0
  /\ my[r].cv <= user.version
  /\ my[r].checked <= user.version
  /\ at[r] \notin {"lock", "verify"} => my[r].cv <= my[r].checked

\* A session was opened under a version read before the password was.
RowSound(s) ==
  /\ sessions[s].cv <= sessions[s].checked
  /\ sessions[s].checked <= user.version

\* The predecessor of a session has ended.
FromSound(s) ==
  sessions[s].from # 0 => /\ sessions[s].from <= created
                          /\ ~sessions[sessions[s].from].live

Unique ==
  \A s, t \in Ids :
    sessions[s].from = sessions[t].from /\ sessions[s].from # 0 => s = t

\* A request that rotated a session is the only one, and has no successor yet.
Claims(r) == Where(r) \in Creating /\ my[r].sid # 0

ClaimSound(r) ==
  Claims(r) =>
    /\ ~sessions[my[r].sid].live
    /\ \A s \in Ids : sessions[s].from # my[r].sid
    /\ \A q \in Requests : Claims(q) /\ my[q].sid = my[r].sid => q = r

\* A transaction that will raise the version holds the lock on the row.
CommitSound(r) ==
  Where(r) = "adminCommit" => holder = r /\ user.version < MaxVersion

TokenSound ==
  \A s \in cache.access :
    ~sessions[s].live => lost \/ \E r \in Requests : at[r] = "drop"

IInv ==
  /\ TypeOK
  /\ \A r \in Requests : CallSound(r) /\ ClaimSound(r) /\ CommitSound(r)
  /\ \A s \in Ids : RowSound(s) /\ FromSound(s)
  /\ Unique
  /\ TokenSound

-----------------------------------------------------------------------------
\* What a step of a request that creates no session does.
Turn(r) ==
  /\ \A q \in Requests \ {r} : at'[q] = at[q] /\ my'[q] = my[q]
  /\ created' = created
  /\ user.version <= user'.version
  /\ \A s \in Ids : /\ sessions'[s].cv = sessions[s].cv
                    /\ sessions'[s].checked = sessions[s].checked
                    /\ sessions'[s].from = sessions[s].from
                    /\ sessions'[s].live => sessions[s].live
                    /\ sessions[s].live /\ ~sessions'[s].live => at'[r] = "drop"
  /\ CallSound(r)'
  /\ CommitSound(r)'
  /\ Claims(r)' => \/ Claims(r) /\ my'[r].sid = my[r].sid
                   \/ sessions[my'[r].sid].live /\ ~sessions'[my'[r].sid].live
  /\ \A q \in Requests \ {r} : holder = q => holder' = q /\ user'.version = user.version
  /\ cache'.access # {} => /\ cache'.access = cache.access
                           /\ lost \/ at[r] = "drop" => lost'

LEMMA TurnKeeps ==
  ASSUME IInv, TypeOK', NEW r \in Requests, Turn(r)
  PROVE  IInv'
<1>1. ASSUME NEW q \in Requests PROVE CallSound(q)'
  <2>1. CASE q = r
    BY <2>1 DEF Turn
  <2>2. CASE q # r
    <3>1. /\ at'[q] = at[q] /\ my'[q] = my[q] /\ created' = created
          /\ user.version <= user'.version
      BY <2>2 DEF Turn
    <3>2. /\ my[q].cv \in Nat /\ my[q].checked \in Nat
          /\ user.version \in Nat /\ user'.version \in Nat
      BY ConstantsAssumption DEF IInv, TypeOK, UserRow, Locals, Versions
    <3>3. CallSound(q)
      BY DEF IInv
    <3> QED
      BY <3>1, <3>2, <3>3 DEF CallSound
  <2> QED
    BY <2>1, <2>2
<1>2. ASSUME NEW s \in Ids PROVE RowSound(s)'
  <2>1. /\ sessions'[s].cv = sessions[s].cv
        /\ sessions'[s].checked = sessions[s].checked
        /\ user.version <= user'.version
    BY DEF Turn
  <2>2. /\ sessions[s].checked \in Nat /\ user.version \in Nat /\ user'.version \in Nat
    BY ConstantsAssumption DEF IInv, TypeOK, UserRow, SessionRow, Versions
  <2> QED
    BY <2>1, <2>2 DEF IInv, RowSound
<1>3. ASSUME NEW s \in Ids PROVE FromSound(s)'
  <2>1. sessions[s].from # 0 => sessions[s].from \in Ids
    <3>1. sessions[s] \in SessionRow
      BY DEF IInv, TypeOK
    <3> QED
      BY <3>1, ConstantsAssumption DEF SessionRow, Ids
  <2>2. FromSound(s)
    BY DEF IInv
  <2> QED
    BY <2>1, <2>2 DEF Turn, FromSound
<1>4. Unique'
  BY DEF IInv, Unique, Turn
<1>5. ASSUME NEW q \in Requests \ {r} PROVE Claims(q)' <=> Claims(q)
  BY DEF Turn, Claims, Where
<1>6. ASSUME NEW q \in Requests PROVE my'[q].sid # 0 => my'[q].sid \in Ids
  BY ConstantsAssumption DEF TypeOK, Locals, Ids
<1>7. ASSUME NEW q \in Requests PROVE ClaimSound(q)'
  <2> SUFFICES ASSUME Claims(q)'
               PROVE  /\ ~sessions'[my'[q].sid].live
                      /\ \A s \in Ids : sessions'[s].from # my'[q].sid
                      /\ \A p \in Requests : Claims(p)' /\ my'[p].sid = my'[q].sid => p = q
    BY DEF ClaimSound
  <2>1. my'[q].sid \in Ids
    BY <1>6 DEF Claims
  <2>2. \/ Claims(q) /\ my'[q].sid = my[q].sid
        \/ q = r /\ sessions[my'[q].sid].live /\ ~sessions'[my'[q].sid].live
    BY <1>5 DEF Turn
  <2>3. CASE Claims(q) /\ my'[q].sid = my[q].sid
    <3>1. /\ ~sessions[my[q].sid].live
          /\ \A s \in Ids : sessions[s].from # my[q].sid
          /\ \A p \in Requests : Claims(p) /\ my[p].sid = my[q].sid => p = q
      BY <2>3 DEF IInv, ClaimSound
    <3>2. /\ ~sessions'[my'[q].sid].live
          /\ \A s \in Ids : sessions'[s].from # my'[q].sid
      BY <2>1, <2>3, <3>1 DEF Turn
    <3>3. ASSUME NEW p \in Requests, Claims(p)', my'[p].sid = my'[q].sid PROVE p = q
      <4>1. CASE p # r
        BY <1>5, <2>3, <3>1, <3>3, <4>1 DEF Turn
      <4>2. CASE p = r /\ Claims(r) /\ my'[r].sid = my[r].sid
        BY <2>3, <3>1, <3>3, <4>2
      <4>3. CASE p = r /\ sessions[my'[r].sid].live
        BY <2>3, <3>1, <3>3, <4>3
      <4> QED
        BY <3>3, <4>1, <4>2, <4>3 DEF Turn
    <3> QED
      BY <3>2, <3>3
  <2>4. CASE q = r /\ sessions[my'[q].sid].live /\ ~sessions'[my'[q].sid].live
    <3>1. ASSUME NEW s \in Ids PROVE sessions'[s].from # my'[q].sid
      <4>1. FromSound(s)
        BY DEF IInv
      <4>2. sessions'[s].from = sessions[s].from
        BY DEF Turn
      <4>3. my'[q].sid # 0
        BY <2>1 DEF Ids
      <4> QED
        BY <2>4, <4>1, <4>2, <4>3 DEF FromSound
    <3>2. ASSUME NEW p \in Requests, Claims(p)', my'[p].sid = my'[q].sid PROVE p = q
      <4>1. CASE p # r
        <5>1. Claims(p) /\ my'[p].sid = my[p].sid
          BY <1>5, <3>2, <4>1 DEF Turn
        <5>2. ~sessions[my[p].sid].live
          BY <5>1 DEF IInv, ClaimSound
        <5> QED
          BY <2>4, <3>2, <5>1, <5>2
      <4> QED
        BY <2>4, <4>1
    <3> QED
      BY <2>4, <3>1, <3>2
  <2> QED
    BY <2>2, <2>3, <2>4
<1>8. ASSUME NEW q \in Requests PROVE CommitSound(q)'
  <2>1. CASE q = r
    BY <2>1 DEF Turn
  <2>2. CASE q # r
    <3>1. CommitSound(q)
      BY DEF IInv
    <3>2. /\ at'[q] = at[q] /\ my'[q] = my[q]
          /\ holder = q => holder' = q /\ user'.version = user.version
      BY <2>2 DEF Turn
    <3> QED
      BY <3>1, <3>2 DEF CommitSound, Where
  <2> QED
    BY <2>1, <2>2
<1>9. TokenSound'
  <2> SUFFICES ASSUME NEW s \in cache'.access, ~sessions'[s].live
               PROVE  lost' \/ \E q \in Requests : at'[q] = "drop"
    BY DEF TokenSound
  <2>1. /\ cache'.access = cache.access
        /\ lost \/ at[r] = "drop" => lost'
    BY DEF Turn
  <2>2. s \in Ids
    BY DEF TypeOK, CacheType
  <2>3. CASE sessions[s].live
    BY <2>2, <2>3 DEF Turn
  <2>4. CASE ~sessions[s].live
    <3>1. lost \/ \E q \in Requests : at[q] = "drop"
      BY <2>1, <2>4 DEF IInv, TokenSound
    <3> QED
      BY <2>1, <3>1 DEF Turn
  <2> QED
    BY <2>3, <2>4
<1> QED
  BY <1>1, <1>2, <1>3, <1>4, <1>7, <1>8, <1>9 DEF IInv

-----------------------------------------------------------------------------
\* Request r goes on at place p with the local variables l.
Moves(r, p, l) ==
  /\ at' = [at EXCEPT ![r] = p]
  /\ my' = [my EXCEPT ![r] = l]

LEMMA MovesEffect ==
  ASSUME TypeOK, NEW r \in Requests, NEW p \in Places, NEW l \in Locals, Moves(r, p, l)
  PROVE  /\ at' \in [Requests -> Places]
         /\ my' \in [Requests -> Locals]
         /\ at'[r] = p
         /\ my'[r] = l
         /\ \A q \in Requests \ {r} : at'[q] = at[q] /\ my'[q] = my[q]
<1>1. at \in [Requests -> Places] /\ my \in [Requests -> Locals]
  BY DEF TypeOK
<1> QED
  BY <1>1 DEF Moves

\* The local variables l are right for place p, under version v.
Fits(p, l, v) ==
  /\ l.next \in Afters
  /\ l.sid <= created
  /\ p \in Holding => l.sid # 0
  /\ p \in Signing => l.sid = 0
  /\ l.cv <= v
  /\ l.checked <= v
  /\ p \notin {"lock", "verify"} => l.cv <= l.checked

LEMMA BlankFits ==
  ASSUME TypeOK, NEW p \in Places \ Holding, NEW v \in Nat
  PROVE  Blank \in Locals /\ Fits(p, Blank, v)
<1>1. created \in Nat /\ 0 \in 0..MaxSessions /\ 0 \in Versions
  BY ConstantsAssumption DEF TypeOK, Versions
<1>2. Blank \in Locals
  BY <1>1 DEF Blank, Locals, Places
<1> QED
  BY <1>1, <1>2 DEF Blank, Fits, Afters

\* Steps that change no table.
LEMMA LocalKeeps ==
  ASSUME IInv, NEW r \in Requests, NEW p \in Places, NEW l \in Locals,
         Moves(r, p, l), Fits(p, l, user.version),
         at[r] # "drop", p \notin {"drop", "adminCommit"},
         p \in Creating /\ l.sid # 0 => Claims(r) /\ l.sid = my[r].sid,
         cache' \in CacheType, cache'.access = cache.access,
         UNCHANGED <<user, holder, sessions, created, lost, link, newest>>
  PROVE  IInv'
<1>1. TypeOK
  BY DEF IInv
<1>2. /\ at' \in [Requests -> Places]
      /\ my' \in [Requests -> Locals]
      /\ at'[r] = p
      /\ my'[r] = l
      /\ \A q \in Requests \ {r} : at'[q] = at[q] /\ my'[q] = my[q]
  BY <1>1, MovesEffect
<1>3. TypeOK'
  BY <1>1, <1>2 DEF TypeOK
<1>4. CallSound(r)'
  BY <1>2 DEF CallSound, Fits
<1>5. user.version \in Nat
  BY <1>1, ConstantsAssumption DEF TypeOK, UserRow, Versions
<1>6. Turn(r)
  BY <1>2, <1>4, <1>5 DEF Turn, Claims, Where, CommitSound
<1> QED
  BY <1>3, <1>6, TurnKeeps

LEMMA EndedEffect ==
  ASSUME TypeOK, NEW ss \in SUBSET Ids, sessions' = Ended(ss)
  PROVE  /\ sessions' \in [Ids -> SessionRow]
         /\ \A s \in Ids : /\ sessions'[s].cv = sessions[s].cv
                           /\ sessions'[s].checked = sessions[s].checked
                           /\ sessions'[s].from = sessions[s].from
                           /\ sessions'[s].live <=> sessions[s].live /\ s \notin ss
<1>1. sessions \in [Ids -> SessionRow]
  BY DEF TypeOK
<1>2. ASSUME NEW s \in Ids
      PROVE  /\ sessions'[s] = IF s \in ss THEN [sessions[s] EXCEPT !.live = FALSE]
                               ELSE sessions[s]
             /\ sessions[s] \in SessionRow
  BY <1>1 DEF Ended
<1>3. sessions' \in [Ids -> SessionRow]
  BY <1>1 DEF Ended, SessionRow
<1> QED
  BY <1>2, <1>3 DEF SessionRow

\* Steps that end sessions, and may change the user's row.
LEMMA EndKeeps ==
  ASSUME IInv, NEW r \in Requests, NEW ss \in SUBSET Ids, sessions' = Ended(ss),
         NEW p \in Afters, NEW l \in Locals, DropThen(r, p, l),
         at[r] # "drop",
         user' \in UserRow, user.version <= user'.version,
         Fits("drop", l, user'.version),
         p \in Creating /\ l.sid # 0 =>
           \/ Claims(r) /\ l.sid = my[r].sid
           \/ l.sid \in ss /\ sessions[l.sid].live,
         holder' \in Requests \cup {None},
         p = "adminCommit" => holder' = r /\ user'.version < MaxVersion,
         \A q \in Requests \ {r} :
           holder = q => holder' = q /\ user'.version = user.version,
         link' \in [Links -> {"unsent", "sent", "expired", "used"}],
         newest' \in Passwords \cup {None},
         UNCHANGED <<created, cache, lost>>
  PROVE  IInv'
<1>1. TypeOK
  BY DEF IInv
<1> DEFINE m == [l EXCEPT !.next = p]
<1>2. /\ m \in Locals
      /\ m.next = p /\ m.sid = l.sid /\ m.cv = l.cv /\ m.checked = l.checked
  BY DEF Locals, Afters, Places
<1>3. Moves(r, "drop", m)
  BY DEF DropThen, Go, Set, Moves
<1>4. "drop" \in Places
  BY DEF Places
<1> HIDE DEF m
<1>5. /\ at' \in [Requests -> Places]
      /\ my' \in [Requests -> Locals]
      /\ at'[r] = "drop"
      /\ my'[r] = m
      /\ \A q \in Requests \ {r} : at'[q] = at[q] /\ my'[q] = my[q]
  BY <1>1, <1>2, <1>3, <1>4, MovesEffect
<1>6. /\ sessions' \in [Ids -> SessionRow]
      /\ \A s \in Ids : /\ sessions'[s].cv = sessions[s].cv
                        /\ sessions'[s].checked = sessions[s].checked
                        /\ sessions'[s].from = sessions[s].from
                        /\ sessions'[s].live <=> sessions[s].live /\ s \notin ss
  BY <1>1, EndedEffect
<1>7. TypeOK'
  BY <1>1, <1>5, <1>6 DEF TypeOK
<1>8. CallSound(r)'
  BY <1>2, <1>5 DEF CallSound, Fits, Holding
<1>9. Claims(r)' => \/ Claims(r) /\ my'[r].sid = my[r].sid
                    \/ sessions[my'[r].sid].live /\ ~sessions'[my'[r].sid].live
  BY <1>2, <1>5, <1>6 DEF Claims, Where
<1>10. CommitSound(r)'
  BY <1>2, <1>5 DEF CommitSound, Where
<1>11. Turn(r)
  BY <1>5, <1>6, <1>8, <1>9, <1>10 DEF Turn
<1> QED
  BY <1>7, <1>11, TurnKeeps

LEMMA RevokeKeeps ==
  ASSUME IInv, NEW r \in Requests, NEW s \in Ids,
         NEW p \in Afters \ {"adminCommit"}, NEW l \in Locals, RevokeThen(r, s, p, l),
         at[r] # "drop", Fits(p, l, user.version),
         p \in Creating /\ l.sid # 0 =>
           \/ Claims(r) /\ l.sid = my[r].sid
           \/ l.sid = s /\ sessions[s].live,
         UNCHANGED <<user, holder, created, cache, lost, link, newest>>
  PROVE  IInv'
<1>1. TypeOK
  BY DEF IInv
<1>2. /\ user \in UserRow /\ user.version \in Nat
      /\ holder \in Requests \cup {None}
      /\ link \in [Links -> {"unsent", "sent", "expired", "used"}]
      /\ newest \in Passwords \cup {None}
      /\ cache \in CacheType
  BY <1>1, ConstantsAssumption DEF TypeOK, UserRow, Versions
<1>3. CASE sessions[s].live
  <2>1. sessions' = Ended({s}) /\ DropThen(r, p, l)
    BY <1>3 DEF RevokeThen
  <2>2. Fits("drop", l, user'.version)
    BY DEF Fits, Afters, Holding, Signing
  <2>3. user.version <= user'.version
    BY <1>2
  <2> QED
    BY <1>2, <1>3, <2>1, <2>2, <2>3, EndKeeps
<1>4. CASE ~sessions[s].live
  <2>1. Moves(r, p, l) /\ UNCHANGED sessions
    BY <1>4 DEF RevokeThen, Go, Set, Moves
  <2>2. p \in Places /\ p \notin {"drop", "adminCommit"}
    BY DEF Afters, Places
  <2> QED
    BY <1>2, <1>4, <2>1, <2>2, LocalKeeps
<1> QED
  BY <1>3, <1>4

-----------------------------------------------------------------------------
LEMMA TypesOf ==
  ASSUME IInv
  PROVE  /\ TypeOK
         /\ user \in UserRow /\ user.version \in Nat
         /\ holder \in Requests \cup {None}
         /\ cache \in CacheType
         /\ lost \in BOOLEAN
         /\ link \in [Links -> {"unsent", "sent", "expired", "used"}]
         /\ newest \in Passwords \cup {None}
         /\ created \in 0..MaxSessions
         /\ 1..created \subseteq Ids
         /\ \A r \in Requests : my[r] \in Locals /\ at[r] \in Places
         /\ \A s \in Ids : sessions[s] \in SessionRow
  BY ConstantsAssumption DEF IInv, TypeOK, UserRow, Versions, Ids

LEMMA LoginKeeps ==
  ASSUME IInv, NEW r \in Requests, Login(r)
  PROVE  IInv'
<1>1. PICK pw \in Passwords :
        Moves(r, "lock", [Blank EXCEPT !.pw = pw, !.cv = user.version,
                                       !.active = user.active, !.force = user.force])
  BY DEF Login, Set, Go, Moves
<1> DEFINE l == [Blank EXCEPT !.pw = pw, !.cv = user.version,
                              !.active = user.active, !.force = user.force]
<1>2. user \in UserRow /\ user.version \in Nat /\ TypeOK /\ cache \in CacheType
  BY TypesOf
<1>3. Blank \in Locals /\ Fits("idle", Blank, user.version)
  BY <1>2, BlankFits DEF Places, Holding
<1>4. l \in Locals /\ l.sid = 0 /\ l.cv = user.version /\ l.checked = 0
      /\ l.next = "idle"
  BY <1>2, <1>3 DEF Locals, UserRow, Blank
<1>5. "lock" \in Places /\ "lock" \notin Holding
  BY DEF Places, Holding
<1>6. 0 <= created
  BY TypesOf
<1>7. Moves(r, "lock", l)
  BY <1>1
<1> HIDE DEF l
<1>8. Fits("lock", l, user.version)
  BY <1>2, <1>4, <1>5, <1>6 DEF Fits, Afters
<1>9. at[r] # "drop" /\ UNCHANGED <<user, holder, sessions, created, cache, lost, link, newest>>
  BY DEF Login
<1> QED
  BY <1>2, <1>4, <1>5, <1>7, <1>8, <1>9, LocalKeeps DEF Creating

\* A request that ends without having changed a table.
LEMMA LeaveKeeps ==
  ASSUME IInv, NEW r \in Requests, Leave(r), at[r] # "drop",
         UNCHANGED <<user, holder, sessions, created, cache, lost, link, newest>>
  PROVE  IInv'
<1>1. user.version \in Nat /\ TypeOK /\ cache \in CacheType
  BY TypesOf
<1>2. Blank \in Locals /\ Fits("idle", Blank, user.version)
  BY <1>1, BlankFits DEF Places, Holding
<1>3. Moves(r, "idle", Blank)
  BY DEF Leave, Moves
<1>4. "idle" \in Places /\ "idle" \notin Creating
  BY DEF Places, Creating
<1> QED
  BY <1>1, <1>2, <1>3, <1>4, LocalKeeps

\* A request that goes on with the same local variables.
LEMMA GoKeeps ==
  ASSUME IInv, NEW r \in Requests, NEW p \in Places, Go(r, p), UNCHANGED my,
         at[r] \notin {"drop", "lock", "verify"} \/ p \in {"lock", "verify"},
         at[r] # "drop", p \notin {"drop", "adminCommit"},
         p \in Holding => my[r].sid # 0,
         p \in Signing => my[r].sid = 0,
         p \in Creating => at[r] \in Creating \/ my[r].sid = 0,
         cache' \in CacheType, cache'.access = cache.access,
         UNCHANGED <<user, holder, sessions, created, lost, link, newest>>
  PROVE  IInv'
<1>1. my[r] \in Locals /\ my \in [Requests -> Locals]
  BY TypesOf DEF TypeOK
<1>2. Moves(r, p, my[r])
  BY <1>1 DEF Go, Moves
<1>3. Fits(p, my[r], user.version)
  BY DEF IInv, CallSound, Fits
<1>4. p \in Creating /\ my[r].sid # 0 => Claims(r) /\ my[r].sid = my[r].sid
  BY DEF Claims, Where
<1> QED
  BY <1>1, <1>2, <1>3, <1>4, LocalKeeps

LEMMA CheckLockKeeps ==
  ASSUME IInv, NEW r \in Requests, CheckLock(r)
  PROVE  IInv'
<1>1. /\ at[r] = "lock" /\ cache \in CacheType /\ "verify" \in Places
      /\ "verify" \notin Holding \cup Creating
      /\ UNCHANGED <<user, holder, sessions, created, cache, lost, link, newest>>
  BY TypesOf DEF CheckLock, Places, Holding, Creating
<1>2. CASE user.locked
  BY <1>1, <1>2, LeaveKeeps DEF CheckLock
<1>3. CASE ~user.locked
  <2>1. my[r].sid = 0
    BY <1>1 DEF IInv, CallSound, Signing
  <2> QED
    BY <1>1, <1>3, <2>1, GoKeeps DEF CheckLock
<1> QED
  BY <1>2, <1>3

LEMMA VerifyKeeps ==
  ASSUME IInv, NEW r \in Requests, Verify(r)
  PROVE  IInv'
<1>1. /\ at[r] = "verify" /\ cache \in CacheType
      /\ UNCHANGED <<user, holder, sessions, created, cache, lost, link, newest>>
  BY TypesOf DEF Verify
<1>2. CASE my[r].pw # user.hash \/ ~my[r].active
  BY <1>1, <1>2, LeaveKeeps DEF Verify
<1>3. CASE ~(my[r].pw # user.hash \/ ~my[r].active)
  <2> DEFINE l == [my[r] EXCEPT !.checked = user.version]
             p == IF user.low THEN "rehash" ELSE Admitted(r)
  <2>1. Moves(r, p, l)
    BY <1>3 DEF Verify, Set, Go, Moves
  <2>2. my[r] \in Locals /\ user.version \in Versions /\ user.version \in Nat
    BY TypesOf DEF UserRow
  <2>3. /\ l \in Locals /\ l.checked = user.version /\ l.cv = my[r].cv
        /\ l.sid = my[r].sid /\ l.next = my[r].next
    BY <2>2 DEF Locals
  <2>4. p \in {"rehash", "temp", "count"}
    BY DEF Admitted
  <2> HIDE DEF l, p
  <2>5. Fits(p, l, user.version)
    BY <1>1, <2>2, <2>3, <2>4 DEF Fits, IInv, CallSound, Holding, Signing
  <2>6. p \in Places /\ p \notin {"drop", "adminCommit"}
    BY <2>4 DEF Places
  <2>7. my[r].sid = 0
    BY <1>1 DEF IInv, CallSound, Signing
  <2> QED
    BY <1>1, <2>1, <2>3, <2>5, <2>6, <2>7, LocalKeeps
<1> QED
  BY <1>2, <1>3

\* Steps that change the user's row and no session.
LEMMA RowKeeps ==
  ASSUME IInv, NEW r \in Requests, NEW p \in Places, NEW l \in Locals,
         Moves(r, p, l), Fits(p, l, user'.version),
         at[r] # "drop", p \notin {"drop", "adminCommit"},
         p \in Creating /\ l.sid # 0 => Claims(r) /\ l.sid = my[r].sid,
         user' \in UserRow, user.version <= user'.version,
         holder' \in Requests \cup {None},
         \A q \in Requests \ {r} :
           holder = q => holder' = q /\ user'.version = user.version,
         newest' \in Passwords \cup {None},
         UNCHANGED <<sessions, created, cache, lost, link>>
  PROVE  IInv'
<1>1. TypeOK
  BY DEF IInv
<1>2. /\ at' \in [Requests -> Places]
      /\ my' \in [Requests -> Locals]
      /\ at'[r] = p
      /\ my'[r] = l
      /\ \A q \in Requests \ {r} : at'[q] = at[q] /\ my'[q] = my[q]
  BY <1>1, MovesEffect
<1>3. TypeOK'
  BY <1>1, <1>2 DEF TypeOK
<1>4. CallSound(r)'
  BY <1>2 DEF CallSound, Fits
<1>5. Turn(r)
  BY <1>2, <1>4 DEF Turn, Claims, Where, CommitSound
<1> QED
  BY <1>3, <1>5, TurnKeeps

LEMMA RehashKeeps ==
  ASSUME IInv, NEW r \in Requests, Rehash(r)
  PROVE  IInv'
<1> DEFINE p == Admitted(r)
<1>1. /\ at[r] = "rehash" /\ Go(r, p) /\ UNCHANGED my
      /\ UNCHANGED <<holder, sessions, created, cache, lost, link, newest>>
  BY DEF Rehash
<1>2. my[r].sid = 0
  BY <1>1 DEF IInv, CallSound, Signing
<1>3. p \in {"temp", "count"}
  BY DEF Admitted
<1> HIDE DEF p
<1>4. p \in Places /\ p \notin Holding \cup Signing \cup {"drop", "adminCommit"}
  BY <1>3 DEF Places, Holding, Signing
<1>5. CASE UNCHANGED user
  <2>1. cache \in CacheType
    BY TypesOf
  <2> QED
    BY <1>1, <1>2, <1>4, <1>5, <2>1, GoKeeps
<1>6. CASE user' = [user EXCEPT !.hash = my[r].pw, !.low = FALSE] /\ Free
  <2>1. my[r] \in Locals /\ my \in [Requests -> Locals]
    BY TypesOf DEF TypeOK
  <2>2. Moves(r, p, my[r])
    BY <1>1, <2>1 DEF Go, Moves
  <2>3. my[r].pw \in Passwords \cup {None}
    BY <2>1 DEF Locals
  <2>4. /\ user' \in UserRow /\ user'.version = user.version
        /\ user.version \in Nat /\ newest \in Passwords \cup {None}
        /\ holder \in Requests \cup {None}
    BY <1>6, <2>3, TypesOf DEF UserRow
  <2>5. Fits(p, my[r], user'.version)
    BY <1>1, <1>2, <1>4, <2>4 DEF IInv, CallSound, Fits
  <2> QED
    BY <1>1, <1>2, <1>4, <2>1, <2>2, <2>4, <2>5, RowKeeps
<1> QED
  BY <1>5, <1>6 DEF Rehash

-----------------------------------------------------------------------------
LEMMA LiveFinite ==
  ASSUME IInv
  PROVE  /\ Live \subseteq Ids
         /\ Cardinality(Live) \in Nat
         /\ \A listed \in SUBSET Ids : Cardinality(listed) \in Nat
<1>1. Live \subseteq Ids
  BY TypesOf DEF Live, Alive
<1>2. IsFiniteSet(Ids)
  BY ConstantsAssumption, FS_Interval DEF Ids
<1> QED
  BY <1>1, <1>2, FS_Subset, FS_CardinalityType

LEMMA CountKeeps ==
  ASSUME IInv, NEW r \in Requests, CountSessions(r)
  PROVE  IInv'
<1>1. PICK n \in {cache.count, Cardinality(Live)} \ {None} :
        /\ \/ UNCHANGED cache
           \/ n = Cardinality(Live) /\ cache' = [cache EXCEPT !.count = n]
        /\ Go(r, IF n < maxConcurrentSessions THEN "insert" ELSE "list")
  BY DEF CountSessions
<1>2. cache' \in CacheType /\ cache'.access = cache.access
  BY <1>1, TypesOf, LiveFinite DEF CacheType
<1>3. /\ at[r] = "count" /\ UNCHANGED my
      /\ UNCHANGED <<user, holder, sessions, created, lost, link, newest>>
  BY DEF CountSessions
<1>4. PICK p \in {"insert", "list"} : Go(r, p)
  BY <1>1
<1>5. p \in Places /\ p \notin Holding \cup Signing \cup {"drop", "adminCommit"}
  BY DEF Places, Holding, Signing
<1>6. at[r] \in Creating /\ at[r] # "drop"
  BY <1>3 DEF Creating
<1> QED
  BY <1>2, <1>3, <1>4, <1>5, <1>6, GoKeeps

LEMMA ListKeeps ==
  ASSUME IInv, NEW r \in Requests, ListSessions(r)
  PROVE  IInv'
<1>1. PICK listed \in {cache.list, Live} \ {None} :
        /\ \/ UNCHANGED cache
           \/ listed = Live /\ cache' = [cache EXCEPT !.list = listed]
        /\ Set(r, [my[r] EXCEPT !.size = Cardinality(listed), !.todo = Excess(listed)])
  BY DEF ListSessions
<1>2. listed \in SUBSET Ids
  BY TypesOf, LiveFinite DEF CacheType
<1>3. cache' \in CacheType /\ cache'.access = cache.access
  BY <1>1, <1>2, TypesOf DEF CacheType
<1> DEFINE l == [my[r] EXCEPT !.size = Cardinality(listed), !.todo = Excess(listed)]
           p == IF my'[r].todo = {} THEN "insert" ELSE "evict"
<1>4. /\ at[r] = "list" /\ Moves(r, p, l)
      /\ UNCHANGED <<user, holder, sessions, created, lost, link, newest>>
  BY <1>1 DEF ListSessions, Go, Set, Moves
<1>5. Excess(listed) \in SUBSET Ids /\ Cardinality(listed) \in Nat
  BY <1>2, LiveFinite DEF Excess
<1>6. /\ l \in Locals /\ l.sid = my[r].sid /\ l.cv = my[r].cv
      /\ l.checked = my[r].checked /\ l.next = my[r].next
  BY <1>5, TypesOf DEF Locals
<1>7. p \in {"insert", "evict"}
  OBVIOUS
<1> HIDE DEF l, p
<1>8. p \in Places /\ p \notin Holding \cup Signing \cup {"drop", "adminCommit"}
  BY <1>7 DEF Places, Holding, Signing
<1>9. Fits(p, l, user.version)
  BY <1>4, <1>6, <1>8 DEF IInv, CallSound, Fits
<1>10. Where(r) \in Creating
  BY <1>4 DEF Where, Creating
<1> QED
  BY <1>3, <1>4, <1>6, <1>8, <1>9, <1>10, LocalKeeps DEF Claims

LEMMA EvictKeeps ==
  ASSUME IInv, NEW r \in Requests, EvictOldest(r)
  PROVE  IInv'
<1>1. PICK s \in my[r].todo :
        RevokeThen(r, s, IF my[r].todo = {s} THEN "insert" ELSE "evict",
                   [my[r] EXCEPT !.todo = @ \ {s}])
  BY DEF EvictOldest
<1> DEFINE l == [my[r] EXCEPT !.todo = @ \ {s}]
           p == IF my[r].todo = {s} THEN "insert" ELSE "evict"
<1>2. my[r] \in Locals
  BY TypesOf
<1>3. /\ l \in Locals /\ l.sid = my[r].sid /\ l.cv = my[r].cv
      /\ l.checked = my[r].checked /\ l.next = my[r].next /\ s \in Ids
  BY <1>2 DEF Locals
<1>4. /\ at[r] = "evict"
      /\ UNCHANGED <<user, holder, created, cache, lost, link, newest>>
  BY DEF EvictOldest
<1>5. p \in {"insert", "evict"} /\ RevokeThen(r, s, p, l)
  BY <1>1
<1> HIDE DEF l, p
<1>6. p \in Afters \ {"adminCommit"} /\ p \notin Holding \cup Signing
  BY <1>5 DEF Afters, Holding, Signing
<1>7. Fits(p, l, user.version)
  BY <1>3, <1>4, <1>6 DEF IInv, CallSound, Fits
<1>8. Where(r) \in Creating
  BY <1>4 DEF Where, Creating
<1> QED
  BY <1>3, <1>4, <1>5, <1>6, <1>7, <1>8, RevokeKeeps DEF Claims

LEMMA RefusedKeeps ==
  ASSUME IInv, NEW r \in Requests, NEW s \in Ids, Refused(r, s), at[r] # "drop",
         UNCHANGED <<user, holder, created, cache, lost, link, newest>>
  PROVE  IInv'
<1>1. TypeOK /\ user.version \in Nat
  BY TypesOf
<1>2. Blank \in Locals /\ Fits("idle", Blank, user.version)
  BY <1>1, BlankFits DEF Places, Holding
<1>3. "idle" \in Afters \ {"adminCommit"} /\ "idle" \notin Creating
  BY DEF Afters, Creating
<1> QED
  BY <1>2, <1>3, RevokeKeeps DEF Refused

\* A live session, as validateSession found it, for a refresh or a logout.
LEMMA ValidatedKeeps ==
  ASSUME IInv, NEW r \in Requests, NEW s \in 1..created,
         NEW p \in Holding \cup {"logoutAll"}, NEW l \in Locals, Validated(r, s, p, l),
         at[r] = "idle", l.sid = s, l.next = "idle",
         l.cv <= l.checked, l.checked <= user.version, l.cv <= user.version,
         UNCHANGED <<user, holder, created, cache, lost, link, newest>>
  PROVE  IInv'
<1>1. Moves(r, p, l) /\ UNCHANGED sessions
  BY DEF Validated, Go, Set, Moves
<1>2. s <= created /\ s # 0
  BY TypesOf
<1>3. /\ p \in Places
      /\ p \notin Creating \cup Signing \cup {"drop", "adminCommit"}
  BY DEF Places, Creating, Signing, Holding
<1>4. Fits(p, l, user.version)
  BY <1>2, <1>3 DEF Fits, Afters
<1> QED
  BY <1>1, <1>3, <1>4, TypesOf, LocalKeeps

LEMMA RefreshKeeps ==
  ASSUME IInv, NEW r \in Requests, NEW s \in 1..created, Refresh(r, s)
  PROVE  IInv'
<1> DEFINE l == [Blank EXCEPT !.sid = s, !.cv = sessions[s].cv,
                              !.checked = sessions[s].checked]
<1>1. /\ at[r] = "idle"
      /\ UNCHANGED <<user, holder, created, cache, lost, link, newest>>
  BY DEF Refresh
<1>2. s \in Ids /\ sessions[s] \in SessionRow /\ TypeOK /\ RowSound(s)
  BY TypesOf DEF IInv
<1>3. CASE Refused(r, s)
  BY <1>1, <1>2, <1>3, RefusedKeeps
<1>4. CASE Validated(r, s, "owner", l)
  <2>1. Blank \in Locals
    BY <1>2, BlankFits, ConstantsAssumption DEF Places, Holding
  <2>2. /\ sessions[s].cv \in Versions /\ sessions[s].checked \in Versions
        /\ s \in 0..MaxSessions
    BY <1>2, ConstantsAssumption DEF SessionRow, Ids
  <2>3. /\ l \in Locals /\ l.sid = s /\ l.next = "idle"
        /\ l.cv = sessions[s].cv /\ l.checked = sessions[s].checked
    BY <2>1, <2>2 DEF Locals, Blank
  <2> HIDE DEF l
  <2>4. /\ l.cv <= l.checked /\ l.checked <= user.version /\ l.cv <= user.version
    BY <1>2, <2>2, <2>3, TypesOf, ConstantsAssumption DEF RowSound, Versions
  <2> QED
    BY <1>1, <1>4, <2>3, <2>4, ValidatedKeeps DEF Holding
<1> QED
  BY <1>3, <1>4 DEF Refresh

LEMMA LogoutKeeps ==
  ASSUME IInv, NEW r \in Requests, NEW s \in 1..created, Logout(r, s)
  PROVE  IInv'
<1> DEFINE l == [Blank EXCEPT !.sid = s]
<1>1. /\ at[r] = "idle"
      /\ UNCHANGED <<user, holder, created, cache, lost, link, newest>>
  BY DEF Logout
<1>2. s \in Ids /\ TypeOK
  BY TypesOf
<1>3. CASE Refused(r, s)
  BY <1>1, <1>2, <1>3, RefusedKeeps
<1>4. CASE \E place \in {"logout", "logoutAll"} : Validated(r, s, place, l)
  <2>1. Blank \in Locals
    BY <1>2, BlankFits, ConstantsAssumption DEF Places, Holding
  <2>2. s \in 0..MaxSessions
    BY <1>2, ConstantsAssumption DEF Ids
  <2>3. l \in Locals /\ l.sid = s /\ l.next = "idle" /\ l.cv = 0 /\ l.checked = 0
    BY <2>1, <2>2 DEF Locals, Blank
  <2> HIDE DEF l
  <2>4. 0 <= user.version
    BY TypesOf
  <2> QED
    BY <1>1, <1>4, <2>3, <2>4, ValidatedKeeps DEF Holding
<1> QED
  BY <1>3, <1>4 DEF Logout

\* The session a request works on is a row.
LEMMA SidOf ==
  ASSUME IInv, NEW r \in Requests, at[r] \in Holding
  PROVE  my[r] \in Locals /\ my[r].sid \in Ids /\ my[r].sid # 0
  BY TypesOf, ConstantsAssumption DEF IInv, CallSound, Locals, Ids

LEMMA CheckOwnerKeeps ==
  ASSUME IInv, NEW r \in Requests, CheckOwner(r)
  PROVE  IInv'
<1>1. /\ at[r] = "owner"
      /\ UNCHANGED <<user, holder, created, cache, lost, link, newest>>
  BY DEF CheckOwner
<1>2. my[r].sid \in Ids /\ my[r].sid # 0
  BY <1>1, SidOf DEF Holding
<1>3. CASE Refused(r, my[r].sid)
  BY <1>1, <1>2, <1>3, RefusedKeeps
<1>4. CASE Go(r, "recheck") /\ UNCHANGED <<sessions, my>>
  <2>1. /\ "recheck" \in Places
        /\ "recheck" \notin Creating \cup Signing \cup {"drop", "adminCommit"}
    BY DEF Places, Creating, Signing
  <2> QED
    BY <1>1, <1>2, <1>4, <2>1, TypesOf, GoKeeps
<1> QED
  BY <1>3, <1>4 DEF CheckOwner

LEMMA RecheckKeeps ==
  ASSUME IInv, NEW r \in Requests, Recheck(r)
  PROVE  IInv'
<1>1. /\ at[r] = "recheck"
      /\ UNCHANGED <<user, holder, created, cache, lost, link, newest>>
  BY DEF Recheck
<1>2. my[r].sid \in Ids /\ my[r].sid # 0
  BY <1>1, SidOf DEF Holding
<1>3. CASE Refused(r, my[r].sid)
  BY <1>1, <1>2, <1>3, RefusedKeeps
<1>4. CASE Go(r, "rotate") /\ UNCHANGED <<sessions, my>>
  <2>1. /\ "rotate" \in Places
        /\ "rotate" \notin Creating \cup Signing \cup {"drop", "adminCommit"}
    BY DEF Places, Creating, Signing
  <2> QED
    BY <1>1, <1>2, <1>4, <2>1, TypesOf, GoKeeps
<1>5. CASE Leave(r) /\ UNCHANGED sessions
  BY <1>1, <1>5, LeaveKeeps
<1> QED
  BY <1>3, <1>4, <1>5 DEF Recheck

LEMMA RotateKeeps ==
  ASSUME IInv, NEW r \in Requests, Rotate(r)
  PROVE  IInv'
<1>1. /\ at[r] = "rotate"
      /\ UNCHANGED <<user, holder, created, cache, lost, link, newest>>
  BY DEF Rotate
<1>2. my[r] \in Locals /\ my[r].sid \in Ids /\ my[r].sid # 0
  BY <1>1, SidOf DEF Holding
<1>3. CASE sessions[my[r].sid].live /\ RevokeThen(r, my[r].sid, "count", my[r])
  <2>1. /\ "count" \in Afters \ {"adminCommit"}
        /\ "count" \notin Holding \cup Signing
    BY DEF Afters, Holding, Signing
  <2>2. Fits("count", my[r], user.version)
    BY <1>1, <2>1 DEF IInv, CallSound, Fits
  <2> QED
    BY <1>1, <1>2, <1>3, <2>1, <2>2, RevokeKeeps
<1>4. CASE Leave(r) /\ UNCHANGED sessions
  BY <1>1, <1>4, LeaveKeeps
<1> QED
  BY <1>3, <1>4 DEF Rotate

LEMMA LogoutSessionKeeps ==
  ASSUME IInv, NEW r \in Requests, LogoutSession(r)
  PROVE  IInv'
<1>1. /\ at[r] = "logout"
      /\ UNCHANGED <<user, holder, created, cache, lost, link, newest>>
  BY DEF LogoutSession
<1>2. my[r].sid \in Ids
  BY <1>1, SidOf DEF Holding
<1> QED
  BY <1>1, <1>2, RefusedKeeps DEF LogoutSession, Refused


LEMMA RevokeAllKeeps ==
  ASSUME IInv, NEW r \in Requests, RevokeAll(r)
  PROVE  IInv'
<1>1. /\ at[r] # "drop" /\ sessions' = Ended(Alive) /\ DropThen(r, "idle", Blank)
      /\ UNCHANGED <<user, holder, created, cache, lost, link, newest>>
  BY DEF RevokeAll
<1>2. /\ TypeOK /\ user \in UserRow /\ user.version \in Nat /\ Alive \in SUBSET Ids
      /\ holder \in Requests \cup {None} /\ newest \in Passwords \cup {None}
      /\ link \in [Links -> {"unsent", "sent", "expired", "used"}]
  BY TypesOf DEF Alive
<1>3. Blank \in Locals /\ Fits("drop", Blank, user.version)
  BY <1>2, BlankFits DEF Places, Holding
<1>4. "idle" \in Afters /\ "idle" \notin Creating /\ user.version <= user.version
  BY <1>2 DEF Afters, Creating
<1> QED
  BY <1>1, <1>2, <1>3, <1>4, EndKeeps

-----------------------------------------------------------------------------
\* The start of a change of credentials: only the local variables are set.
LEMMA StartKeeps ==
  ASSUME IInv, NEW r \in Requests, NEW p \in {"reset", "change", "adminRevoke"},
         NEW l \in Locals, Moves(r, p, l), at[r] # "drop", l.next = "idle",
         l.sid <= created, l.cv = 0, l.checked = 0,
         UNCHANGED <<user, holder, sessions, created, cache, lost, link, newest>>
  PROVE  IInv'
<1>1. p \in Places /\ p \notin Holding \cup Signing \cup Creating \cup {"drop", "adminCommit"}
  BY DEF Places, Holding, Signing, Creating
<1>2. user.version \in Nat /\ cache \in CacheType
  BY TypesOf
<1>3. Fits(p, l, user.version)
  BY <1>1, <1>2 DEF Fits, Afters
<1> QED
  BY <1>1, <1>2, <1>3, LocalKeeps

LEMMA BlankType == ASSUME IInv PROVE Blank \in Locals /\ 0 <= created
  BY TypesOf, BlankFits, ConstantsAssumption DEF Places, Holding

LEMMA StartResetKeeps ==
  ASSUME IInv, NEW r \in Requests, StartReset(r)
  PROVE  IInv'
<1>1. PICK k \in Links, pw \in Passwords \ {user.hash} :
        Moves(r, "reset", [Blank EXCEPT !.link = k, !.pw = pw])
  BY DEF StartReset, Set, Go, Moves
<1> DEFINE l == [Blank EXCEPT !.link = k, !.pw = pw]
<1>2. /\ l \in Locals /\ l.next = "idle" /\ l.sid = 0 /\ l.cv = 0 /\ l.checked = 0
  BY BlankType DEF Locals, Blank
<1>3. Moves(r, "reset", l)
  BY <1>1
<1> HIDE DEF l
<1> QED
  BY <1>2, <1>3, BlankType, StartKeeps DEF StartReset

LEMMA StartChangeKeeps ==
  ASSUME IInv, NEW r \in Requests, StartChange(r)
  PROVE  IInv'
<1>1. PICK s \in 0..created, pw \in Passwords \ {user.hash} :
        /\ at[r] # "drop"
        /\ Moves(r, "change", [Blank EXCEPT !.sid = s, !.pw = pw])
  BY DEF StartChange, Set, Go, Moves
<1> DEFINE l == [Blank EXCEPT !.sid = s, !.pw = pw]
<1>2. s \in 0..MaxSessions /\ s <= created
  BY TypesOf, ConstantsAssumption
<1>3. /\ l \in Locals /\ l.next = "idle" /\ l.sid = s /\ l.cv = 0 /\ l.checked = 0
  BY <1>2, BlankType DEF Locals, Blank
<1>4. Moves(r, "change", l)
  BY <1>1
<1> HIDE DEF l
<1> QED
  BY <1>1, <1>2, <1>3, <1>4, StartKeeps DEF StartChange

LEMMA StartAdminResetKeeps ==
  ASSUME IInv, NEW r \in Requests, StartAdminReset(r)
  PROVE  IInv'
<1>1. PICK pw \in Passwords, force \in BOOLEAN :
        Moves(r, "adminRevoke", [Blank EXCEPT !.pw = pw, !.force = force])
  BY DEF StartAdminReset, Set, Go, Moves
<1> DEFINE l == [Blank EXCEPT !.pw = pw, !.force = force]
<1>2. /\ l \in Locals /\ l.next = "idle" /\ l.sid = 0 /\ l.cv = 0 /\ l.checked = 0
  BY BlankType DEF Locals, Blank
<1>3. Moves(r, "adminRevoke", l)
  BY <1>1
<1> HIDE DEF l
<1> QED
  BY <1>2, <1>3, BlankType, StartKeeps DEF StartAdminReset

\* The version of the row, kept or raised.
LEMMA VersionOf ==
  ASSUME IInv
  PROVE  /\ user \in UserRow
         /\ user.version \in Nat /\ user.version <= user.version
         /\ user.version < MaxVersion =>
              /\ user.version + 1 \in Versions
              /\ user.version + 1 \in Nat
              /\ user.version <= user.version + 1
<1>1. user \in UserRow /\ user.version \in Nat
  BY TypesOf
<1> QED
  BY <1>1, ConstantsAssumption DEF Versions

LEMMA ResetPasswordKeeps ==
  ASSUME IInv, NEW r \in Requests, ResetPassword(r)
  PROVE  IInv'
<1>1. /\ at[r] = "reset" /\ holder = None
      /\ UNCHANGED <<holder, created, cache, lost>>
  BY DEF ResetPassword, Free
<1>2. CASE link[my[r].link] = "used"
  BY <1>1, <1>2, LeaveKeeps DEF ResetPassword
<1>3. CASE link[my[r].link] # "used"
  <2>1. /\ user.version < MaxVersion
        /\ link' = [link EXCEPT ![my[r].link] = "used"]
        /\ user' = [user EXCEPT !.hash = my[r].pw, !.low = FALSE, !.version = @ + 1]
        /\ newest' = my[r].pw
        /\ sessions' = Ended(Alive)
        /\ DropThen(r, "idle", Blank)
    BY <1>3 DEF ResetPassword
  <2>2. my[r].pw \in Passwords \cup {None}
    BY TypesOf DEF Locals
  <2>3. /\ user' \in UserRow /\ user'.version = user.version + 1
        /\ user'.version \in Nat /\ user.version <= user'.version
    BY <2>1, <2>2, VersionOf DEF UserRow
  <2>4. link' \in [Links -> {"unsent", "sent", "expired", "used"}]
    BY <2>1, TypesOf
  <2>5. Alive \in SUBSET Ids /\ TypeOK /\ holder \in Requests \cup {None}
    BY TypesOf DEF Alive
  <2>6. Blank \in Locals /\ Fits("drop", Blank, user'.version)
    BY <2>3, <2>5, BlankFits DEF Places, Holding
  <2>7. "idle" \in Afters /\ "idle" \notin Creating
    BY DEF Afters, Creating
  <2>8. \A q \in Requests \ {r} : holder # q
    BY <1>1, ConstantsAssumption
  <2> QED
    BY <1>1, <2>1, <2>2, <2>3, <2>4, <2>5, <2>6, <2>7, <2>8, EndKeeps
<1> QED
  BY <1>2, <1>3

LEMMA ChangePasswordKeeps ==
  ASSUME IInv, NEW r \in Requests, ChangePassword(r)
  PROVE  IInv'
<1>1. /\ at[r] = "change" /\ holder = None
      /\ user' = [user EXCEPT !.hash = my[r].pw, !.low = FALSE, !.force = FALSE]
      /\ newest' = my[r].pw
      /\ UNCHANGED <<holder, created, cache, lost, link>>
  BY DEF ChangePassword, Free
<1>2. my[r].pw \in Passwords \cup {None}
  BY TypesOf DEF Locals
<1>3. /\ user' \in UserRow /\ user'.version = user.version
      /\ user'.version \in Nat /\ user.version <= user'.version
  BY <1>1, <1>2, VersionOf DEF UserRow
<1>4. /\ Alive \ {my[r].sid} \in SUBSET Ids /\ TypeOK /\ holder \in Requests \cup {None}
      /\ link \in [Links -> {"unsent", "sent", "expired", "used"}]
  BY TypesOf DEF Alive
<1>5. Blank \in Locals /\ Fits("drop", Blank, user'.version) /\ Fits("idle", Blank, user'.version)
  BY <1>3, <1>4, BlankFits DEF Places, Holding
<1>6. "idle" \in Afters /\ "idle" \notin Creating /\ "idle" \in Places
  BY DEF Afters, Creating, Places
<1>7. \A q \in Requests \ {r} : holder # q
  BY <1>1, ConstantsAssumption
<1>8. CASE sessions' = Ended(Alive \ {my[r].sid}) /\ DropThen(r, "idle", Blank)
  BY <1>1, <1>2, <1>3, <1>4, <1>5, <1>6, <1>7, <1>8, EndKeeps
<1>9. CASE Leave(r) /\ UNCHANGED sessions
  <2>1. Moves(r, "idle", Blank)
    BY <1>9 DEF Leave, Moves
  <2> QED
    BY <1>1, <1>2, <1>3, <1>4, <1>5, <1>6, <1>7, <1>9, <2>1, RowKeeps
<1> QED
  BY <1>8, <1>9 DEF ChangePassword

-----------------------------------------------------------------------------
LEMMA AdminRevokeKeeps ==
  ASSUME IInv, NEW r \in Requests, AdminRevoke(r)
  PROVE  IInv'
<1>1. /\ at[r] = "adminRevoke" /\ holder = None /\ holder' = r
      /\ user.version < MaxVersion
      /\ sessions' = Ended(Alive) /\ DropThen(r, "adminCommit", my[r])
      /\ UNCHANGED <<user, created, cache, lost, link, newest>>
  BY DEF AdminRevoke, Free
<1>2. /\ user \in UserRow /\ user.version \in Nat /\ Alive \in SUBSET Ids
      /\ my[r] \in Locals /\ newest \in Passwords \cup {None}
      /\ link \in [Links -> {"unsent", "sent", "expired", "used"}]
  BY TypesOf DEF Alive
<1>3. Fits("drop", my[r], user.version)
  BY <1>1 DEF IInv, CallSound, Fits, Holding, Signing
<1>4. "adminCommit" \in Afters /\ "adminCommit" \notin Creating
      /\ user.version <= user.version
  BY <1>2 DEF Afters, Creating
<1>5. \A q \in Requests \ {r} : holder # q
  BY <1>1, ConstantsAssumption
<1> QED
  BY <1>1, <1>2, <1>3, <1>4, <1>5, EndKeeps

LEMMA AdminCommitKeeps ==
  ASSUME IInv, NEW r \in Requests, AdminCommit(r)
  PROVE  IInv'
<1>1. /\ at[r] = "adminCommit"
      /\ user' = [user EXCEPT !.hash = my[r].pw, !.low = FALSE, !.force = my[r].force,
                              !.version = @ + 1]
      /\ newest' = my[r].pw /\ holder' = None /\ Leave(r)
      /\ UNCHANGED <<sessions, created, cache, lost, link>>
  BY DEF AdminCommit
<1>2. holder = r /\ user.version < MaxVersion
  BY <1>1 DEF IInv, CommitSound, Where
<1>3. my[r].pw \in Passwords \cup {None} /\ my[r].force \in BOOLEAN
  BY TypesOf DEF Locals
<1>4. /\ user' \in UserRow /\ user'.version = user.version + 1
      /\ user'.version \in Nat /\ user.version <= user'.version
  BY <1>1, <1>2, <1>3, VersionOf DEF UserRow
<1>5. Blank \in Locals /\ Fits("idle", Blank, user'.version)
  BY <1>4, TypesOf, BlankFits DEF Places, Holding
<1>6. Moves(r, "idle", Blank)
  BY <1>1 DEF Leave, Moves
<1>7. "idle" \in Places /\ "idle" \notin Creating
  BY DEF Places, Creating
<1> QED
  BY <1>1, <1>2, <1>3, <1>4, <1>5, <1>6, <1>7, RowKeeps

LEMMA SuspendKeeps ==
  ASSUME IInv, NEW r \in Requests, Suspend(r)
  PROVE  IInv'
<1>1. /\ at[r] = "idle" /\ holder = None /\ Go(r, "suspended")
      /\ UNCHANGED <<holder, sessions, created, cache, lost, link, my, newest>>
  BY DEF Suspend, Free
<1>2. /\ user' \in UserRow /\ user'.version = user.version
      /\ user'.version \in Nat /\ user.version <= user'.version
  BY VersionOf DEF Suspend, UserRow
<1>3. my[r] \in Locals /\ my \in [Requests -> Locals]
      /\ holder \in Requests \cup {None} /\ newest \in Passwords \cup {None}
  BY TypesOf DEF TypeOK
<1>4. Moves(r, "suspended", my[r])
  BY <1>1, <1>3 DEF Go, Moves
<1>5. /\ "suspended" \in Places
      /\ "suspended" \notin Creating \cup Holding \cup Signing \cup {"drop", "adminCommit"}
  BY DEF Places, Creating, Holding, Signing
<1>6. Fits("suspended", my[r], user'.version)
  BY <1>1, <1>2, <1>5 DEF IInv, CallSound, Fits
<1>7. \A q \in Requests \ {r} : holder # q
  BY <1>1, ConstantsAssumption
<1> QED
  BY <1>1, <1>2, <1>3, <1>4, <1>5, <1>6, <1>7, RowKeeps

-----------------------------------------------------------------------------
\* The invalidation, sent or lost: the request goes on.
LEMMA ProceedKeeps ==
  ASSUME IInv, NEW r \in Requests, at[r] = "drop", Proceed(r),
         cache' \in CacheType, lost' \in BOOLEAN,
         cache'.access # {} => cache'.access = cache.access /\ lost',
         UNCHANGED <<user, holder, sessions, created, link, newest>>
  PROVE  IInv'
<1> DEFINE p == my[r].next
           l == IF my[r].next = "idle" THEN Blank ELSE my[r]
<1>1. /\ TypeOK /\ user.version \in Nat /\ user.version <= user.version
      /\ my[r] \in Locals /\ my \in [Requests -> Locals]
  BY TypesOf, VersionOf DEF TypeOK
<1>2. Moves(r, p, l)
  BY <1>1 DEF Proceed, Leave, Go, Moves
<1>3. p \in Afters /\ my[r].sid <= created
      /\ my[r].cv <= user.version /\ my[r].checked <= user.version
      /\ my[r].cv <= my[r].checked
  BY <1>1 DEF IInv, CallSound
<1>4. Blank \in Locals /\ Fits("idle", Blank, user.version)
  BY <1>1, BlankFits DEF Places, Holding
<1>5. p \in Places /\ p \notin Holding \cup Signing \cup {"drop"}
  BY <1>3 DEF Afters, Places, Holding, Signing
<1>6. l \in Locals /\ Fits(p, l, user.version)
  BY <1>1, <1>3, <1>4, <1>5 DEF Fits
<1>7. p \in Creating => l = my[r]
  BY DEF Creating
<1>8. Where(r) = p
  BY DEF Where
<1> HIDE DEF p, l
<1>9. /\ at' \in [Requests -> Places]
      /\ my' \in [Requests -> Locals]
      /\ at'[r] = p
      /\ my'[r] = l
      /\ \A q \in Requests \ {r} : at'[q] = at[q] /\ my'[q] = my[q]
  BY <1>1, <1>2, <1>5, <1>6, MovesEffect
<1>10. TypeOK'
  BY <1>1, <1>9 DEF TypeOK
<1>11. CallSound(r)'
  BY <1>6, <1>9 DEF CallSound, Fits
<1>12. Where(r)' = p
  BY <1>5, <1>9 DEF Where
<1>13. CommitSound(r)'
  BY <1>8, <1>12 DEF IInv, CommitSound
<1>14. Claims(r)' => Claims(r) /\ my'[r].sid = my[r].sid
  BY <1>7, <1>8, <1>9, <1>12 DEF Claims
<1>15. Turn(r)
  BY <1>1, <1>9, <1>11, <1>13, <1>14 DEF Turn
<1> QED
  BY <1>10, <1>15, TurnKeeps

LEMMA DropKeeps ==
  ASSUME IInv, NEW r \in Requests, Drop(r) \/ DropLost(r)
  PROVE  IInv'
<1>1. /\ at[r] = "drop" /\ Proceed(r)
      /\ UNCHANGED <<user, holder, sessions, created, link, newest>>
  BY DEF Drop, DropLost
<1>2. NoCache \in CacheType /\ NoCache.access = {}
  BY DEF NoCache, CacheType
<1>3. cache' \in CacheType /\ lost' \in BOOLEAN
  BY <1>2, TypesOf DEF Drop, DropLost
<1>4. cache'.access # {} => cache'.access = cache.access /\ lost'
  BY <1>2 DEF Drop, DropLost
<1> QED
  BY <1>1, <1>3, <1>4, ProceedKeeps

LEMMA DieKeeps ==
  ASSUME IInv, NEW r \in Requests, Die(r)
  PROVE  IInv'
<1>1. /\ Leave(r)
      /\ lost' = (lost \/ (at[r] = "drop" /\ cache # NoCache))
      /\ holder' = (IF holder = r THEN None ELSE holder)
      /\ UNCHANGED <<user, sessions, created, cache, link, newest>>
  BY DEF Die
<1>2. /\ TypeOK /\ user.version \in Nat /\ user.version <= user.version
      /\ holder \in Requests \cup {None} /\ lost \in BOOLEAN
  BY TypesOf, VersionOf
<1>3. Blank \in Locals /\ Fits("idle", Blank, user.version)
  BY <1>2, BlankFits DEF Places, Holding
<1>4. Moves(r, "idle", Blank) /\ "idle" \in Places
  BY <1>1 DEF Leave, Moves, Places
<1>5. /\ at' \in [Requests -> Places]
      /\ my' \in [Requests -> Locals]
      /\ at'[r] = "idle"
      /\ my'[r] = Blank
      /\ \A q \in Requests \ {r} : at'[q] = at[q] /\ my'[q] = my[q]
  BY <1>2, <1>3, <1>4, MovesEffect
<1>6. TypeOK'
  BY <1>1, <1>2, <1>5 DEF TypeOK
<1>7. CallSound(r)' /\ CommitSound(r)' /\ ~Claims(r)'
  BY <1>1, <1>3, <1>5 DEF CallSound, Fits, CommitSound, Claims, Where, Creating
<1>8. cache'.access # {} => /\ cache'.access = cache.access
                            /\ lost \/ at[r] = "drop" => lost'
  <2>1. cache'.access = cache.access
    BY <1>1
  <2>2. cache.access # {} => cache # NoCache
    BY DEF NoCache
  <2>3. cache # NoCache => (lost \/ at[r] = "drop" => lost')
    BY <1>1, Zenon
  <2> QED
    BY <2>1, <2>2, <2>3
<1>9. \A q \in Requests \ {r} : holder = q => holder' = q /\ user'.version = user.version
  BY <1>1
<1>10. Turn(r)
  BY <1>1, <1>2, <1>5, <1>7, <1>8, <1>9 DEF Turn
<1> QED
  BY <1>6, <1>10, TurnKeeps

-----------------------------------------------------------------------------
LEMMA InsertKeeps ==
  ASSUME IInv, NEW r \in Requests, InsertSession(r)
  PROVE  IInv'
<1> DEFINE n == created + 1
           l == [Blank EXCEPT !.next = "idle"]
           row == NewRow(r)
<1>1. /\ at[r] = "insert" /\ created < MaxSessions /\ created' = n
      /\ sessions' = [sessions EXCEPT ![n] = row]
      /\ Moves(r, "drop", l)
      /\ UNCHANGED <<user, holder, cache, lost, link, newest>>
  BY DEF InsertSession, DropThen, Go, Set, Moves
<1>2. /\ TypeOK /\ user.version \in Nat /\ my[r] \in Locals
      /\ created \in Nat /\ n \in Nat /\ n \in Ids /\ n \in 0..MaxSessions
      /\ created <= n /\ created # n /\ ~(n <= created)
  BY <1>1, TypesOf, ConstantsAssumption DEF Ids
<1>3. Blank \in Locals /\ 0 <= created
  BY BlankType
<1>4. l \in Locals /\ l.next = "idle" /\ l.sid = 0 /\ l.cv = 0 /\ l.checked = 0
  BY <1>3 DEF Locals, Blank, Places
<1>5. /\ my[r].sid \in 0..MaxSessions /\ my[r].sid \in Nat
      /\ my[r].cv \in Versions /\ my[r].checked \in Versions
  BY <1>2, ConstantsAssumption DEF Locals
<1>6. /\ row \in SessionRow /\ row.live /\ row.cv = my[r].cv
      /\ row.checked = my[r].checked /\ row.from = my[r].sid
  BY <1>5 DEF NewRow, SessionRow
<1>7. /\ my[r].sid <= created /\ my[r].checked <= user.version
      /\ my[r].cv <= my[r].checked
  BY <1>1 DEF IInv, CallSound
<1>8. "drop" \in Places
  BY DEF Places
<1> HIDE DEF n, l, row
<1>9. /\ at' \in [Requests -> Places]
      /\ my' \in [Requests -> Locals]
      /\ at'[r] = "drop"
      /\ my'[r] = l
      /\ \A q \in Requests \ {r} : at'[q] = at[q] /\ my'[q] = my[q]
  BY <1>1, <1>2, <1>4, <1>8, MovesEffect
<1>10. sessions \in [Ids -> SessionRow]
  BY <1>2 DEF TypeOK
<1>11. /\ sessions' \in [Ids -> SessionRow]
       /\ sessions'[n] = row
       /\ \A s \in Ids \ {n} : sessions'[s] = sessions[s]
  BY <1>1, <1>2, <1>6, <1>10
<1>12. TypeOK'
  BY <1>1, <1>2, <1>9, <1>11 DEF TypeOK
<1>13. ClaimSound(r) /\ (my[r].sid # 0 => Claims(r))
  BY <1>1 DEF IInv, Claims, Where, Creating
<1>14. ASSUME NEW q \in Requests PROVE CallSound(q)' /\ CommitSound(q)'
  <2>1. CASE q = r
    BY <1>1, <1>2, <1>3, <1>4, <1>9, <2>1
    DEF CallSound, CommitSound, Where, Afters, Holding, Signing
  <2>2. CASE q # r
    <3>1. my[q].sid \in Nat
      BY TypesOf, ConstantsAssumption DEF Locals
    <3>2. CallSound(q) /\ CommitSound(q)
      BY DEF IInv
    <3> QED
      BY <1>1, <1>2, <1>9, <2>2, <3>1, <3>2 DEF CallSound, CommitSound, Where
  <2> QED
    BY <2>1, <2>2
<1>15. ASSUME NEW s \in Ids PROVE RowSound(s)'
  BY <1>1, <1>6, <1>7, <1>11 DEF IInv, RowSound
<1>16. ASSUME NEW s \in Ids PROVE FromSound(s)'
  <2> SUFFICES ASSUME sessions'[s].from # 0
               PROVE  /\ sessions'[s].from <= created'
                      /\ ~sessions'[sessions'[s].from].live
    BY DEF FromSound
  <2>1. CASE s = n
    <3>1. sessions'[s].from = my[r].sid
      BY <1>6, <1>11, <2>1
    <3>2. /\ my[r].sid \in Ids /\ my[r].sid # n /\ my[r].sid <= n
      BY <1>2, <1>5, <1>7, <3>1, ConstantsAssumption DEF Ids
    <3>3. ~sessions[my[r].sid].live
      BY <1>13, <3>1 DEF ClaimSound
    <3> QED
      BY <1>1, <1>11, <3>1, <3>2, <3>3
  <2>2. CASE s # n
    <3>1. sessions'[s].from = sessions[s].from
      BY <1>11, <2>2
    <3>2. sessions[s].from <= created /\ ~sessions[sessions[s].from].live
      BY <3>1 DEF IInv, FromSound
    <3>3. sessions[s].from \in 0..MaxSessions
      BY TypesOf DEF SessionRow
    <3>4. sessions[s].from \in Ids /\ sessions[s].from # n /\ sessions[s].from <= n
      BY <1>2, <3>1, <3>2, <3>3, ConstantsAssumption DEF Ids
    <3> QED
      BY <1>1, <1>11, <3>1, <3>2, <3>4
  <2> QED
    BY <2>1, <2>2
<1>17. ASSUME NEW s \in Ids, NEW t \in Ids,
              sessions'[s].from = sessions'[t].from, sessions'[s].from # 0
       PROVE  s = t
  <2>1. CASE s = n /\ t # n
    BY <1>6, <1>11, <1>13, <1>17, <2>1 DEF ClaimSound
  <2>2. CASE s # n /\ t = n
    BY <1>6, <1>11, <1>13, <1>17, <2>2 DEF ClaimSound
  <2>3. CASE s # n /\ t # n
    BY <1>11, <1>17, <2>3 DEF IInv, Unique
  <2> QED
    BY <2>1, <2>2, <2>3
<1>18. Unique'
  BY <1>17 DEF Unique
<1>19. ASSUME NEW q \in Requests PROVE ClaimSound(q)'
  <2> SUFFICES ASSUME Claims(q)'
               PROVE  /\ ~sessions'[my'[q].sid].live
                      /\ \A s \in Ids : sessions'[s].from # my'[q].sid
                      /\ \A p \in Requests : Claims(p)' /\ my'[p].sid = my'[q].sid => p = q
    BY DEF ClaimSound
  <2>1. ASSUME NEW p \in Requests, Claims(p)'
        PROVE  p # r /\ Claims(p) /\ my'[p].sid = my[p].sid
    BY <1>4, <1>9, <2>1 DEF Claims, Where
  <2>2. q # r /\ Claims(q) /\ my'[q].sid = my[q].sid
    BY <2>1
  <2>3. /\ ~sessions[my[q].sid].live
        /\ \A s \in Ids : sessions[s].from # my[q].sid
        /\ \A p \in Requests : Claims(p) /\ my[p].sid = my[q].sid => p = q
    BY <2>2 DEF IInv, ClaimSound
  <2>4. /\ my[q].sid \in Ids /\ my[q].sid # n /\ my[q].sid # 0
    <3>1. my[q].sid \in 0..MaxSessions /\ my[q].sid <= created /\ my[q].sid # 0
      BY <2>2, TypesOf DEF IInv, CallSound, Claims, Locals
    <3> QED
      BY <1>2, <3>1, ConstantsAssumption DEF Ids
  <2>5. my[r].sid # my[q].sid
    BY <1>13, <2>2, <2>3, <2>4
  <2>6. \A s \in Ids : sessions'[s].from # my[q].sid
    BY <1>6, <1>11, <2>3, <2>5
  <2> QED
    BY <1>11, <2>1, <2>2, <2>3, <2>4, <2>6
<1>20. TokenSound'
  BY <1>9 DEF TokenSound
<1> QED
  BY <1>12, <1>14, <1>15, <1>16, <1>18, <1>19, <1>20 DEF IInv

-----------------------------------------------------------------------------
\* Steps of no request: none of what the invariant relates changes, but the
\* statuses of live sessions that are cached.
LEMMA RestKeeps ==
  ASSUME IInv, TypeOK',
         \A s \in Ids : /\ sessions'[s].live = sessions[s].live
                        /\ sessions'[s].cv = sessions[s].cv
                        /\ sessions'[s].checked = sessions[s].checked
                        /\ sessions'[s].from = sessions[s].from,
         user'.version = user.version,
         \A s \in cache'.access : s \in cache.access \/ sessions[s].live,
         UNCHANGED <<holder, created, lost, at, my>>
  PROVE  IInv'
<1>1. ASSUME NEW q \in Requests PROVE CallSound(q)' /\ CommitSound(q)'
  <2>1. CallSound(q) /\ CommitSound(q)
    BY DEF IInv
  <2> QED
    BY <2>1 DEF CallSound, CommitSound, Where
<1>2. ASSUME NEW s \in Ids PROVE RowSound(s)'
  BY DEF IInv, RowSound
<1>3. ASSUME NEW s \in Ids PROVE FromSound(s)'
  <2>1. sessions[s].from # 0 => sessions[s].from \in Ids
    BY TypesOf, ConstantsAssumption DEF SessionRow, Ids
  <2>2. FromSound(s)
    BY DEF IInv
  <2> QED
    BY <2>1, <2>2 DEF FromSound
<1>4. Unique'
  BY DEF IInv, Unique
<1>5. ASSUME NEW q \in Requests PROVE ClaimSound(q)'
  <2>1. \A p \in Requests : Claims(p)' <=> Claims(p)
    BY DEF Claims, Where
  <2>2. my[q].sid # 0 => my[q].sid \in Ids
    BY TypesOf, ConstantsAssumption DEF Locals, Ids
  <2>3. ClaimSound(q)
    BY DEF IInv
  <2> QED
    BY <2>1, <2>2, <2>3 DEF ClaimSound, Claims
<1>6. TokenSound'
  <2>1. \A s \in cache'.access : s \in Ids
    BY DEF TypeOK, CacheType
  <2> QED
    BY <2>1 DEF IInv, TokenSound
<1> QED
  BY <1>1, <1>2, <1>3, <1>4, <1>5, <1>6 DEF IInv

LEMMA ExpireKeeps ==
  ASSUME IInv, NEW s \in 1..created, Expire(s)
  PROVE  IInv'
<1>1. /\ sessions' = [sessions EXCEPT ![s].expired = TRUE]
      /\ UNCHANGED <<user, holder, created, cache, lost, link, at, my, newest>>
  BY DEF Expire
<1>2. TypeOK /\ sessions \in [Ids -> SessionRow]
  BY TypesOf DEF TypeOK
<1>3. /\ sessions' \in [Ids -> SessionRow]
      /\ \A t \in Ids : /\ sessions'[t].live = sessions[t].live
                        /\ sessions'[t].cv = sessions[t].cv
                        /\ sessions'[t].checked = sessions[t].checked
                        /\ sessions'[t].from = sessions[t].from
  BY <1>1, <1>2 DEF SessionRow
<1>4. TypeOK'
  BY <1>1, <1>2, <1>3 DEF TypeOK
<1> QED
  BY <1>1, <1>3, <1>4, RestKeeps

LEMMA UseTokenKeeps ==
  ASSUME IInv, NEW s \in 1..created, UseToken(s)
  PROVE  IInv'
<1>1. /\ sessions[s].live
      /\ cache' = [cache EXCEPT !.access = @ \cup {s}]
      /\ UNCHANGED <<user, holder, sessions, created, lost, link, at, my, newest>>
  BY DEF UseToken
<1>2. TypeOK /\ s \in Ids /\ cache \in CacheType
  BY TypesOf
<1>3. cache' \in CacheType /\ cache'.access = cache.access \cup {s}
  BY <1>1, <1>2 DEF CacheType
<1>4. TypeOK'
  BY <1>1, <1>2, <1>3 DEF TypeOK
<1> QED
  BY <1>1, <1>3, <1>4, RestKeeps

LEMMA SendLinkKeeps ==
  ASSUME IInv, NEW l \in Links, SendLink(l)
  PROVE  IInv'
<1>1. UNCHANGED <<user, holder, sessions, created, cache, lost, at, my, newest>>
  BY DEF SendLink
<1>2. link' \in [Links -> {"unsent", "sent", "expired", "used"}]
  BY TypesOf DEF SendLink
<1>3. TypeOK /\ TypeOK'
  BY <1>1, <1>2, TypesOf DEF TypeOK
<1> QED
  BY <1>1, <1>3, RestKeeps

LEMMA ReinstateKeeps ==
  ASSUME IInv, Reinstate
  PROVE  IInv'
<1>1. UNCHANGED <<holder, sessions, created, cache, lost, link, at, my, newest>>
  BY DEF Reinstate
<1>2. user' \in UserRow /\ user'.version = user.version
  BY VersionOf DEF Reinstate, UserRow
<1>3. TypeOK /\ TypeOK'
  BY <1>1, <1>2, TypesOf DEF TypeOK
<1> QED
  BY <1>1, <1>2, <1>3, RestKeeps

-----------------------------------------------------------------------------
LEMMA InitIInv == Init => IInv
<1> SUFFICES ASSUME Init PROVE IInv
  OBVIOUS
<1>1. 0 \in Versions /\ 0 \in 0..MaxSessions /\ Opened \in 0..MaxSessions
  BY ConstantsAssumption DEF Versions
<1>2. Blank \in Locals
  BY <1>1 DEF Blank, Locals, Places
<1>3. user \in UserRow /\ user.version = 0 /\ user.hash \in Passwords
  BY <1>1 DEF Init, UserRow
<1>4. sessions \in [Ids -> SessionRow]
  BY <1>1 DEF Init, SessionRow
<1>5. NoCache \in CacheType /\ NoCache.access = {}
  BY DEF NoCache, CacheType
<1>6. "idle" \in Places
  BY DEF Places
<1>7. TypeOK
  BY <1>1, <1>2, <1>3, <1>4, <1>5, <1>6 DEF Init, TypeOK
<1>8. ASSUME NEW r \in Requests PROVE CallSound(r) /\ ClaimSound(r) /\ CommitSound(r)
  <2>1. at[r] = "idle" /\ my[r] = Blank /\ 0 <= created
    BY <1>1 DEF Init
  <2> QED
    BY <1>3, <2>1 DEF CallSound, ClaimSound, Claims, CommitSound, Where, Creating, Holding,
                      Signing, Afters, Blank
<1>9. ASSUME NEW s \in Ids PROVE RowSound(s) /\ FromSound(s)
  BY <1>3 DEF Init, RowSound, FromSound
<1>10. Unique
  BY DEF Init, Unique
<1>11. TokenSound
  BY <1>5 DEF Init, TokenSound
<1> QED
  BY <1>7, <1>8, <1>9, <1>10, <1>11 DEF IInv

LEMMA NextIInv == IInv /\ [Next]_vars => IInv'
<1> SUFFICES ASSUME IInv, [Next]_vars PROVE IInv'
  OBVIOUS
<1>1. ASSUME NEW r \in Requests,
             \/ Login(r) \/ CheckLock(r) \/ Verify(r) \/ Rehash(r)
             \/ CountSessions(r) \/ ListSessions(r) \/ EvictOldest(r) \/ InsertSession(r)
      PROVE  IInv'
  BY <1>1, LoginKeeps, CheckLockKeeps, VerifyKeeps, RehashKeeps, CountKeeps, ListKeeps,
     EvictKeeps, InsertKeeps
<1>2. ASSUME NEW r \in Requests, Drop(r) \/ DropLost(r) \/ Die(r)
      PROVE  IInv'
  BY <1>2, DropKeeps, DieKeeps
<1>3. ASSUME NEW r \in Requests, NEW s \in 1..created, Refresh(r, s) \/ Logout(r, s)
      PROVE  IInv'
  BY <1>3, RefreshKeeps, LogoutKeeps
<1>4. ASSUME NEW r \in Requests,
             \/ CheckOwner(r) \/ Recheck(r) \/ Rotate(r)
             \/ LogoutSession(r) \/ RevokeAll(r)
      PROVE  IInv'
  BY <1>4, CheckOwnerKeeps, RecheckKeeps, RotateKeeps, LogoutSessionKeeps, RevokeAllKeeps
<1>5. ASSUME NEW r \in Requests,
             \/ StartReset(r) \/ ResetPassword(r) \/ StartChange(r) \/ ChangePassword(r)
             \/ StartAdminReset(r) \/ AdminRevoke(r) \/ AdminCommit(r) \/ Suspend(r)
      PROVE  IInv'
  BY <1>5, StartResetKeeps, ResetPasswordKeeps, StartChangeKeeps, ChangePasswordKeeps,
     StartAdminResetKeeps, AdminRevokeKeeps, AdminCommitKeeps, SuspendKeeps
<1>6. ASSUME NEW s \in 1..created, Expire(s) \/ UseToken(s)
      PROVE  IInv'
  BY <1>6, ExpireKeeps, UseTokenKeeps
<1>7. ASSUME NEW l \in Links, SendLink(l)
      PROVE  IInv'
  BY <1>7, SendLinkKeeps
<1>8. CASE UNCHANGED vars
  <2>1. UNCHANGED <<user, holder, sessions, created, cache, lost, link, at, my, newest>>
    BY <1>8 DEF vars
  <2>2. TypeOK'
    BY <2>1 DEF IInv, TypeOK
  <2> QED
    BY <2>1, <2>2, RestKeeps
<1> QED
  BY <1>1, <1>2, <1>3, <1>4, <1>5, <1>6, <1>7, <1>8, ReinstateKeeps DEF Next

\* IInv holds in every reachable state.
THEOREM Invariance == Spec => []IInv
  BY InitIInv, NextIInv, PTL DEF Spec

-----------------------------------------------------------------------------
(* Every variable keeps its type, sessions.service.ts and auth.service.ts. *)
THEOREM TypeCorrect == Spec => []TypeOK
<1>1. IInv => TypeOK
  BY DEF IInv
<1> QED
  BY <1>1, Invariance, PTL

(* A reset of the credentials voids every session whose password was       *)
(* verified before it, those still being opened included.                  *)
THEOREM ResetEndsSessions == Spec => []ResetVoids
<1>1. IInv => ResetVoids
  <2> SUFFICES ASSUME IInv, NEW s \in 1..created, Accepted(s)
               PROVE  sessions[s].checked = user.version
    BY DEF ResetVoids
  <2>1. s \in Ids /\ sessions[s].checked \in Nat /\ user.version \in Nat
    BY TypesOf, ConstantsAssumption DEF SessionRow, Versions
  <2>2. /\ sessions[s].cv <= sessions[s].checked
        /\ sessions[s].checked <= user.version
    BY <2>1 DEF IInv, RowSound
  <2>3. sessions[s].cv = user.version
    BY DEF Accepted
  <2> QED
    BY <2>1, <2>2, <2>3
<1> QED
  BY <1>1, Invariance, PTL

(* However many refreshes present the same token, one session at most      *)
(* succeeds it (refreshSession).                                           *)
THEOREM RotatedOnce == Spec => []OneSuccessor
<1>1. IInv => OneSuccessor
  BY TypesOf DEF IInv, Unique, OneSuccessor
<1> QED
  BY <1>1, Invariance, PTL

(* A session has ended when its successor exists (refreshSession).         *)
THEOREM RotationEnds == Spec => []RotatedIsOver
<1>1. IInv => RotatedIsOver
  BY TypesOf DEF IInv, FromSound, RotatedIsOver
<1> QED
  BY <1>1, Invariance, PTL

(* The access token of an ended session passes only while an invalidation  *)
(* is on its way or was lost (session.repository.ts).                      *)
THEOREM TokensDie == Spec => []TokenDiesWithSession
<1>1. IInv => TokenDiesWithSession
  BY DEF IInv, TokenSound, TokenDiesWithSession
<1> QED
  BY <1>1, Invariance, PTL
=============================================================================
