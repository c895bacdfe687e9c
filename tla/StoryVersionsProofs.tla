------------------------- MODULE StoryVersionsProofs -------------------------
(***************************************************************************)
(* Theorems about the stories and their history, for any users, stories,   *)
(* versions and requests: rows keep their types and references, an edit is *)
(* written over what its author saw, only editors publish, versions are    *)
(* numbered in order, and a prune cuts no history.                         *)
(***************************************************************************)
EXTENDS StoryVersions, FiniteSetTheorems, TLAPS

-----------------------------------------------------------------------------
(* The inductive invariant. *)

StoryPlaces == {"parent", "labels", "write", "publish", "record"}

Replaces == {"update", "rollback", "remove", "restore", "status", "links", "image"}

IsRequest(l) ==
  /\ l = [op |-> l.op, user |-> l.user, id |-> l.id, seen |-> l.seen, body |-> l.body,
          tags |-> l.tags, categories |-> l.categories]
  /\ l.op \in Replaces \cup {"create"} /\ l.user \in Users
  /\ l.tags \subseteq TagIds /\ l.categories \subseteq CategoryIds

\* A version that is about to be made, of no merge.
Fresh == {v \in StoryVersion : v.mergedFrom = None}

\* What an edit that takes a story back to an old version asks for.
IsRollback(b) ==
  /\ b.title \in Titles /\ b.fromTime \in Times \cup {None}
  /\ b.version = None /\ b.status = None /\ b.parent = None
  /\ b.names = {} /\ b.tagIds \cup b.categoryIds = {}
  /\ b.record \in Fresh

BodyOK(l) ==
  /\ l.op = "create" => l.body \in NewStories
  /\ l.op \in Replaces => l.id \in StoryIds /\ l.seen \in Story
  /\ l.op = "update" => l.body \in Edits
  /\ l.op = "rollback" => IsRollback(l.body)
  /\ l.op = "status" => l.body.status \in StatusesAsked
  /\ l.op = "links" => l.body \in LinkChanges
  /\ l.op = "image" => l.body.file \in Files \cup {None}

PlaceOK(place, l) ==
  /\ place = "parent" => l.op \in {"create", "update"}
  /\ place = "labels" => l.op \in {"create", "update", "links"}
  /\ place = "publish" => l.op = "image" /\ l.body.file \in Files
  /\ place = "record" => l.op \in {"update", "rollback"}

\* A request for an editorial status was checked.
Allowed(l) ==
  /\ l.op = "create" => MaySet(l.user, l.body.status, [userId |-> l.user])
  /\ l.op = "update" => \/ l.body.status \in {None, l.seen.status}
                        \/ MaySet(l.user, l.body.status, l.seen)
  /\ l.op = "status" => Can(l.user, "publish", l.seen)

\* The story is a later version of what was read, or the same.
SeenBefore(seen, id) ==
  /\ stories[id] # None
  /\ id \in Rows(stories) =>
       /\ stories[id].userId = seen.userId
       /\ seen.version <= stories[id].version
       /\ stories[id].version = seen.version => SameVersion(seen, stories[id])

\* What a version is made from was there, and is of its story if it still is.
Founded(new) ==
  \A v \in {new.parent, new.mergedFrom} \ {None} :
    versions[v] # None /\ (v \in Rows(versions) => versions[v].story = new.story)

VersionOK(place, l) ==
  /\ place \in {"latest", "insert"} => l = [op |-> "version", version |-> l.version]
  /\ place = "latest" => l.version \in Fresh
  /\ place = "insert" => l.version \in StoryVersion /\ Founded(l.version)
  /\ place = "tag" => l.version \in VersionIds /\ l.tag \in VersionTags

\* What a request at a place may hold.
Holds(place, l) ==
  /\ place \in StoryPlaces => /\ IsRequest(l) /\ BodyOK(l) /\ PlaceOK(place, l) /\ Allowed(l)
                              /\ l.op \in Replaces => SeenBefore(l.seen, l.id)
  /\ VersionOK(place, l)

Requested ==
  my = [r \in Requests |-> my[r]] /\ \A r \in Requests : Holds(at[r], my[r])

\* Whom the prune gives another parent still has the one that goes.
Repointed ==
  /\ \A v \in DOMAIN prune.repointed : v \in VersionIds /\ versions[v] # None
  /\ \A v \in DOMAIN prune.repointed \cap Rows(versions) :
       /\ versions[v].parent \in prune.doomed
       /\ prune.repointed[v] = KeptAncestor(versions[v].parent, prune.doomed)

IInv == TypeOK /\ NumberedInOrder /\ Requested /\ Repointed

-----------------------------------------------------------------------------
(* Greatest elements. *)

\* A finite set of natural numbers that has a member has a greatest one: else the
\* smallest of its parts without one would lose an element and have one.
LEMMA GreatestOfFinite ==
  ASSUME NEW S, IsFiniteSet(S), S \subseteq Nat, S # {}
  PROVE  \E x \in S : \A y \in S : x >= y
<1> DEFINE Has(T) == \E x \in T : \A y \in T : x >= y
<1> DEFINE Bad == {T \in FiniteSubsetsOf(S) : T # {} /\ ~Has(T)}
<1>1. SUFFICES ASSUME ~Has(S) PROVE FALSE
  OBVIOUS
<1>2. Bad \subseteq FiniteSubsetsOf(S) /\ S \in Bad
  BY <1>1 DEF FiniteSubsetsOf
<1>3. \E T \in Bad : \A U \in Bad : ~(<<U, T>> \in StrictSubsetOrdering(S))
  <2> HIDE DEF Bad
  <2> QED
    BY <1>2, FS_StrictSubsetOrderingWellFounded, WFMin
<1>4. PICK T \in Bad : \A U \in Bad : ~(<<U, T>> \in StrictSubsetOrdering(S))
  BY <1>3
<1>5. T \subseteq S /\ IsFiniteSet(T) /\ T # {} /\ ~Has(T)
  BY <1>4 DEF FiniteSubsetsOf
<1>6. PICK x \in T : TRUE
  BY <1>5
<1>7. T \ {x} \in FiniteSubsetsOf(S) /\ <<T \ {x}, T>> \in StrictSubsetOrdering(S)
  BY <1>5, <1>6, FS_RemoveElement DEF FiniteSubsetsOf, StrictSubsetOrdering
<1>8. T \ {x} = {} \/ Has(T \ {x})
  BY <1>4, <1>7
<1>9. CASE T \ {x} = {}
  BY <1>5, <1>6, <1>9
<1>10. CASE Has(T \ {x})
  <2>1. PICK m \in T \ {x} : \A y \in T \ {x} : m >= y
    BY <1>10
  <2>2. \A y \in T : y \in Nat
    BY <1>5
  <2>3. CASE m >= x
    BY <2>1, <2>3, <1>5
  <2>4. CASE x >= m
    BY <2>1, <2>2, <2>4, <1>5, <1>6
  <2> QED
    BY <2>1, <2>2, <2>3, <2>4, <1>6
<1> QED
  BY <1>8, <1>9, <1>10

LEMMA MaxOfFinite ==
  ASSUME NEW S, IsFiniteSet(S), S \subseteq Nat, S # {}
  PROVE  Max(S) \in S /\ \A y \in S : Max(S) >= y
BY GreatestOfFinite DEF Max

\* A set of natural numbers that has a member has a least one.
LEMMA LeastMember ==
  ASSUME NEW T, T \subseteq Nat, T # {}
  PROVE  \E x \in T : \A y \in T : ~(y < x)
<1>1. \E x \in T : \A y \in T : ~(<<y, x>> \in OpToRel(<, Nat))
  BY WFMin, NatLessThanWellFounded
<1>2. \A x, y \in T : y < x => <<y, x>> \in OpToRel(<, Nat)
  BY DEF OpToRel
<1> QED
  BY <1>1, <1>2

-----------------------------------------------------------------------------
(* A version and those above it. *)

WithParents(table, S) == S \cup {table[w].parent : w \in S \cap Rows(table)}

\* The recursion of Chain, as far as n: a function that goes so far can go one further.
ChainTo(table, v, n, f) ==
  f = [i \in 0..n |-> IF i = 0 THEN {v} ELSE WithParents(table, f[i - 1])]

LEMMA ChainSteps ==
  ASSUME NEW table, NEW v, NEW n \in Nat
  PROVE  \E f : ChainTo(table, v, n, f)
<1> DEFINE Bad == {k \in Nat : ~ \E f : ChainTo(table, v, k, f)}
<1>1. SUFFICES ASSUME Bad # {} PROVE FALSE
  OBVIOUS
<1>2. Bad \subseteq Nat
  OBVIOUS
<1>3. PICK m \in Bad : \A k \in Bad : ~(k < m)
  <2> HIDE DEF Bad
  <2> QED
    BY <1>1, <1>2, LeastMember
<1>4. m # 0
  <2> DEFINE f == [i \in 0..0 |-> {v}]
  <2>1. ChainTo(table, v, 0, f)
    BY DEF ChainTo
  <2> QED
    BY <2>1, <1>3
<1>5. m - 1 \in Nat /\ m - 1 \notin Bad
  BY <1>3, <1>4
<1>6. PICK g : ChainTo(table, v, m - 1, g)
  BY <1>5
<1> DEFINE f == [i \in 0..m |-> IF i = m THEN WithParents(table, g[m - 1]) ELSE g[i]]
<1>7. \A i \in 0..m : f[i] = IF i = 0 THEN {v} ELSE WithParents(table, f[i - 1])
  <2> TAKE i \in 0..m
  <2>1. \A j \in 0..(m - 1) : g[j] = IF j = 0 THEN {v} ELSE WithParents(table, g[j - 1])
    BY <1>6, <1>5 DEF ChainTo
  <2>2. CASE i = m
    BY <2>2, <1>4, <1>5
  <2>3. CASE i # m
    <3>1. i \in 0..(m - 1) /\ f[i] = g[i]
      BY <2>3, <1>5
    <3>2. i # 0 => i - 1 \in 0..m /\ i - 1 # m
      BY <1>5
    <3>3. i # 0 => f[i - 1] = g[i - 1]
      BY <3>2
    <3> QED
      BY <2>1, <3>1, <3>3
  <2> QED
    BY <2>2, <2>3
<1>8. ChainTo(table, v, m, f)
  <2> DEFINE h == [i \in 0..m |-> IF i = 0 THEN {v} ELSE WithParents(table, f[i - 1])]
  <2>1. DOMAIN f = 0..m /\ DOMAIN h = 0..m /\ \A i \in 0..m : f[i] = h[i]
    BY <1>7
  <2>2. f = h
    BY <2>1
  <2> QED
    BY <2>2 DEF ChainTo
<1> QED
  BY <1>8, <1>3

LEMMA ChainIsIterated ==
  ASSUME NEW table, NEW v
  PROVE  \E f : /\ ChainTo(table, v, Cardinality(VersionIds), f)
                /\ Chain(table, v) = f[Cardinality(VersionIds)] \cap Rows(table)
<1>1. Cardinality(VersionIds) \in Nat
  BY StoriesAssumption, FS_CardinalityType
<1>2. \E f : ChainTo(table, v, Cardinality(VersionIds), f)
  BY <1>1, ChainSteps
<1> QED
  BY <1>2 DEF ChainTo, WithParents, Chain

LEMMA ChainTable ==
  ASSUME NEW table, NEW v, NEW n \in Nat, NEW f, ChainTo(table, v, n, f)
  PROVE  /\ f[0] = {v}
         /\ \A i \in 0..n : i # 0 => f[i] = WithParents(table, f[i - 1])
<1>1. \A i \in 0..n : f[i] = IF i = 0 THEN {v} ELSE WithParents(table, f[i - 1])
  BY DEF ChainTo
<1>2. 0 \in 0..n
  OBVIOUS
<1> QED
  BY <1>1, <1>2

\* Chain is the least set with the version and, of those that are rows, the parents.
LEMMA ChainLeast ==
  ASSUME NEW table, NEW v, NEW X, v \in X,
         \A x \in X \cap Rows(table) : table[x].parent \in Rows(table) => table[x].parent \in X
  PROVE  Chain(table, v) \subseteq X
<1> DEFINE N == Cardinality(VersionIds)
<1>1. N \in Nat
  BY StoriesAssumption, FS_CardinalityType
<1>2. PICK f : ChainTo(table, v, N, f) /\ Chain(table, v) = f[N] \cap Rows(table)
  BY ChainIsIterated
<1> HIDE DEF N
<1>2a. ChainTo(table, v, N, f)
  BY <1>2
<1>3. f[0] = {v} /\ \A i \in 0..N : i # 0 => f[i] = WithParents(table, f[i - 1])
  BY ONLY <1>1, <1>2a, ChainTable
<1> DEFINE Bad == {k \in 0..N : ~(f[k] \cap Rows(table) \subseteq X)}
<1>4. SUFFICES ASSUME Bad # {} PROVE FALSE
  BY <1>1, <1>2
<1>5. Bad \subseteq Nat
  BY <1>1
<1>6. PICK m \in Bad : \A k \in Bad : ~(k < m)
  <2> HIDE DEF Bad
  <2> QED
    BY <1>4, <1>5, LeastMember
<1>7. m # 0
  BY <1>3, <1>6
<1>8. m - 1 \in 0..N /\ m - 1 \notin Bad
  BY <1>1, <1>6, <1>7
<1>9. f[m - 1] \cap Rows(table) \subseteq X
  BY <1>8
<1>10. f[m] = WithParents(table, f[m - 1])
  BY <1>3, <1>6, <1>7
<1> QED
  BY <1>6, <1>9, <1>10 DEF WithParents

\* As long as a step of the iteration finds a new row, the rows found are more than steps.
LEMMA ChainGrows ==
  ASSUME NEW table, DOMAIN table = VersionIds, NEW v \in Rows(table),
         NEW n \in Nat, NEW f, ChainTo(table, v, n, f)
  PROVE  \A k \in 0..n :
           LET S == f[k] \cap Rows(table)
           IN  \/ \A w \in S : table[w].parent \in Rows(table) => table[w].parent \in S
               \/ Cardinality(S) > k
<1> DEFINE S(k) == f[k] \cap Rows(table)
<1> DEFINE Closed(k) == \A w \in S(k) : table[w].parent \in Rows(table) => table[w].parent \in S(k)
<1> DEFINE Bad == {k \in 0..n : ~(Closed(k) \/ Cardinality(S(k)) > k)}
<1>1. SUFFICES ASSUME Bad # {} PROVE FALSE
  OBVIOUS
<1>2. PICK m \in Bad : \A k \in Bad : ~(k < m)
  <2>1. Bad \subseteq Nat
    OBVIOUS
  <2> HIDE DEF Bad
  <2> QED
    BY <1>1, <2>1, LeastMember
<1>3. f[0] = {v} /\ \A i \in 0..n : i # 0 => f[i] = WithParents(table, f[i - 1])
  BY ChainTable
<1>4. \A k : IsFiniteSet(S(k)) /\ Cardinality(S(k)) \in Nat
  <2> TAKE k
  <2>1. S(k) \subseteq VersionIds
    BY DEF Rows
  <2> HIDE DEF S
  <2> QED
    BY <2>1, StoriesAssumption, FS_Subset, FS_CardinalityType
<1>5. m # 0
  <2>1. S(0) = {v}
    BY <1>3
  <2>2. Cardinality(S(0)) = 1
    BY <2>1, FS_Singleton
  <2> QED
    BY <2>2, <1>2
<1>6. m - 1 \in 0..n /\ m - 1 \notin Bad
  BY <1>2, <1>5
<1>7. f[m] = WithParents(table, f[m - 1])
  BY <1>2, <1>3, <1>5
<1>8. CASE Closed(m - 1)
  <2>1. S(m) = S(m - 1)
    BY <1>7, <1>8 DEF WithParents
  <2>2. Closed(m)
    BY <1>8, <2>1
  <2> QED
    BY <2>2, <1>2
<1> DEFINE T == S(m - 1)
<1>10. IsFiniteSet(T) /\ IsFiniteSet(S(m))
  <2> HIDE DEF S
  <2> QED
    BY <1>4
<1>11. m \in Nat /\ Cardinality(T) \in Nat /\ Cardinality(S(m)) \in Nat
  BY <1>2, <1>10, FS_CardinalityType
<1>9. CASE ~Closed(m - 1) /\ Cardinality(S(m - 1)) > m - 1
  <2>1. PICK w \in S(m - 1) : /\ table[w].parent \in Rows(table)
                              /\ table[w].parent \notin S(m - 1)
    BY <1>9
  <2> DEFINE p == table[w].parent
  <2>2. T \cup {p} \subseteq S(m) /\ p \notin T
    BY <1>7, <2>1 DEF WithParents
  <2>3. Cardinality(T) > m - 1
    BY <1>9
  <2> HIDE DEF T, p
  <2>4. Cardinality(T \cup {p}) = Cardinality(T) + 1
    BY <1>10, <2>2, FS_AddElement
  <2>5. Cardinality(T \cup {p}) <= Cardinality(S(m))
    <3> HIDE DEF S
    <3> QED
      BY <1>10, <2>2, FS_Subset
  <2>6. Cardinality(S(m)) > m
    <3> HIDE DEF S
    <3> QED
      BY <1>11, <2>3, <2>4, <2>5
  <2> QED
    BY <2>6, <1>2
<1> QED
  BY <1>6, <1>8, <1>9

\* A version's chain has the version and all its ancestors.
LEMMA ChainClosed ==
  ASSUME NEW table, DOMAIN table = VersionIds, NEW v \in Rows(table)
  PROVE  /\ v \in Chain(table, v) /\ Chain(table, v) \subseteq Rows(table)
         /\ \A w \in Chain(table, v) :
              table[w].parent \in Rows(table) => table[w].parent \in Chain(table, v)
<1> DEFINE N == Cardinality(VersionIds)
<1>1. N \in Nat /\ IsFiniteSet(VersionIds)
  BY StoriesAssumption, FS_CardinalityType
<1>2. PICK f : ChainTo(table, v, N, f) /\ Chain(table, v) = f[N] \cap Rows(table)
  BY ChainIsIterated
<1>3. Cardinality(f[N] \cap Rows(table)) <= N
  BY <1>1, FS_Subset DEF Rows
<1>4. IsFiniteSet(f[N] \cap Rows(table))
  BY <1>1, FS_Subset DEF Rows
<1>5. Cardinality(f[N] \cap Rows(table)) \in Nat
  BY <1>4, FS_CardinalityType
<1> HIDE DEF N
<1>6. \A w \in Chain(table, v) :
        table[w].parent \in Rows(table) => table[w].parent \in Chain(table, v)
  BY <1>1, <1>2, <1>3, <1>5, ChainGrows
<1>7. \A k \in 0..N : v \in f[k]
  <2> DEFINE Bad == {k \in 0..N : v \notin f[k]}
  <2>1. SUFFICES ASSUME Bad # {} PROVE FALSE
    OBVIOUS
  <2>2. Bad \subseteq Nat
    BY <1>1
  <2>3. PICK m \in Bad : \A k \in Bad : ~(k < m)
    <3> HIDE DEF Bad
    <3> QED
      BY <2>1, <2>2, LeastMember
  <2>4. f[0] = {v} /\ \A i \in 0..N : i # 0 => f[i] = WithParents(table, f[i - 1])
    BY <1>1, <1>2, ChainTable
  <2>5. m # 0
    BY <2>3, <2>4
  <2>6. m - 1 \in 0..N /\ m - 1 \notin Bad
    BY <1>1, <2>3, <2>5
  <2> QED
    BY <2>3, <2>4, <2>5, <2>6 DEF WithParents
<1> QED
  BY <1>1, <1>2, <1>6, <1>7

-----------------------------------------------------------------------------
(* Histories: rows made within their stories, in order. *)

History(table) ==
  /\ table \in [VersionIds -> StoryVersion \cup {None, Gone}]
  /\ MadeWithinStory(table) /\ InOrder(table)

LEMMA RowFields ==
  ASSUME NEW table \in [VersionIds -> StoryVersion \cup {None, Gone}], NEW v \in Rows(table)
  PROVE  /\ v \in VersionIds /\ v # None /\ table[v] \in StoryVersion
         /\ table[v].number \in Nat /\ table[v].parent \in VersionIds \cup {None}
         /\ table[v].mergedFrom \in VersionIds \cup {None}
<1>1. v \in VersionIds /\ table[v] \in StoryVersion
  BY DEF Rows
<1> QED
  BY <1>1, StoriesAssumption DEF StoryVersion

\* A version was made from a row, or from none.
LEMMA ParentIsRow ==
  ASSUME NEW table, History(table), NEW v \in Rows(table)
  PROVE  /\ table[v].parent # None <=> table[v].parent \in Rows(table)
         /\ table[v].parent # None =>
              /\ table[table[v].parent].story = table[v].story
              /\ table[table[v].parent].number < table[v].number
<1>1. None \notin Rows(table)
  BY StoriesAssumption DEF Rows, History
<1> QED
  BY <1>1 DEF History, MadeWithinStory, InOrder

\* Those above a version are older, and of its story.
LEMMA ChainIsOlder ==
  ASSUME NEW table, History(table), NEW v \in Rows(table), NEW x \in Chain(table, v)
  PROVE  /\ x = v \/ table[x].number < table[v].number
         /\ table[x].story = table[v].story
<1> DEFINE X == {y \in Rows(table) : /\ y = v \/ table[y].number < table[v].number
                                     /\ table[y].story = table[v].story}
<1>1. v \in X
  OBVIOUS
<1>2. ASSUME NEW y \in X, table[y].parent \in Rows(table) PROVE table[y].parent \in X
  <2>1. /\ table[y].parent # None
        /\ table[table[y].parent].story = table[y].story
        /\ table[table[y].parent].number < table[y].number
    BY <1>2, ParentIsRow
  <2>2. /\ table[y].number \in Nat /\ table[v].number \in Nat
        /\ table[table[y].parent].number \in Nat
    BY <1>2, RowFields DEF History
  <2> QED
    BY <1>2, <2>1, <2>2
<1>3. Chain(table, v) \subseteq X
  <2> HIDE DEF X
  <2> QED
    BY <1>1, <1>2, ChainLeast
<1> QED
  BY <1>3

LEMMA ChainInChain ==
  ASSUME NEW table, History(table), NEW v \in Rows(table), NEW x \in Chain(table, v)
  PROVE  Chain(table, x) \subseteq Chain(table, v)
<1>1. DOMAIN table = VersionIds
  BY DEF History
<1> QED
  BY <1>1, ChainClosed, ChainLeast

LEMMA ChainStep ==
  ASSUME NEW table, History(table), NEW v \in Rows(table)
  PROVE  Chain(table, v) = {v} \cup (IF table[v].parent = None THEN {}
                                     ELSE Chain(table, table[v].parent))
<1>1. DOMAIN table = VersionIds
  BY DEF History
<1>2. v \in Chain(table, v)
  BY <1>1, ChainClosed
<1>3. CASE table[v].parent = None
  <2>1. table[v].parent \notin Rows(table)
    BY <1>3, ParentIsRow
  <2>2. Chain(table, v) \subseteq {v}
    BY <2>1, ChainLeast
  <2> QED
    BY <1>2, <1>3, <2>2
<1>4. CASE table[v].parent # None
  <2> DEFINE p == table[v].parent
  <2>1. p \in Rows(table)
    BY <1>4, ParentIsRow
  <2>2. p \in Chain(table, v)
    BY <1>1, <1>2, <2>1, ChainClosed
  <2>3. Chain(table, p) \subseteq Chain(table, v)
    BY <2>2, ChainInChain
  <2>4. p \in Chain(table, p) /\ \A w \in Chain(table, p) :
          table[w].parent \in Rows(table) => table[w].parent \in Chain(table, p)
    BY <1>1, <2>1, ChainClosed
  <2>5. Chain(table, v) \subseteq {v} \cup Chain(table, p)
    <3> DEFINE X == {v} \cup Chain(table, p)
    <3>1. v \in X /\ \A x \in X \cap Rows(table) :
            table[x].parent \in Rows(table) => table[x].parent \in X
      BY <2>4
    <3> HIDE DEF X
    <3>2. Chain(table, v) \subseteq X
      BY <3>1, ChainLeast
    <3> QED
      BY <3>2 DEF X
  <2> QED
    BY <1>2, <1>4, <2>3, <2>5
<1> QED
  BY <1>3, <1>4

\* A chain of rows whose parents do not change does not change.
LEMMA ChainKept ==
  ASSUME NEW table, History(table), NEW after, DOMAIN after = VersionIds,
         NEW v \in Rows(table), v \in Rows(after),
         \A x \in Chain(table, v) \cap Rows(after) :
           /\ after[x].parent = table[x].parent
           /\ table[x].parent \in Rows(table) <=> table[x].parent \in Rows(after)
  PROVE  Chain(after, v) = Chain(table, v)
<1>1. DOMAIN table = VersionIds
  BY DEF History
<1>2. v \in Chain(table, v) /\ \A w \in Chain(table, v) :
        table[w].parent \in Rows(table) => table[w].parent \in Chain(table, v)
  BY <1>1, ChainClosed
<1>3. Chain(after, v) \subseteq Chain(table, v)
  BY <1>2, ChainLeast
<1>4. /\ v \in Chain(after, v) /\ Chain(after, v) \subseteq Rows(after)
      /\ \A w \in Chain(after, v) :
           after[w].parent \in Rows(after) => after[w].parent \in Chain(after, v)
  BY ChainClosed
<1>5. Chain(table, v) \subseteq Chain(after, v)
  <2>1. \A w \in Chain(after, v) :
          table[w].parent \in Rows(table) => table[w].parent \in Chain(after, v)
    BY <1>3, <1>4
  <2> QED
    BY <1>4, <2>1, ChainLeast
<1> QED
  BY <1>3, <1>5

-----------------------------------------------------------------------------
(* Pruning. *)

\* KeptAncestor, of any history.
Nearest(table, v, doomed) ==
  LET kept == Chain(table, v) \ doomed
  IN  Only({a \in kept : \A b \in kept : b \in Chain(table, a)})

LEMMA OnlyOf ==
  ASSUME NEW set
  PROVE  Only(set) \in set \cup {None} /\ (set # {} => Only(set) \in set)
BY DEF Only

LEMMA NearestIsKept ==
  ASSUME NEW table, NEW v, NEW doomed
  PROVE  Nearest(table, v, doomed) \in (Chain(table, v) \ doomed) \cup {None}
<1> DEFINE kept == Chain(table, v) \ doomed
<1> DEFINE set == {a \in kept : \A b \in kept : b \in Chain(table, a)}
<1>1. Nearest(table, v, doomed) = Only(set)
  BY DEF Nearest
<1>2. Only(set) \in set \cup {None}
  BY OnlyOf
<1> QED
  BY <1>1, <1>2

\* Two rows that are in each other's chain are one.
LEMMA ChainAntisymmetric ==
  ASSUME NEW table, History(table), NEW v \in Rows(table), NEW x \in Chain(table, v),
         v \in Chain(table, x)
  PROVE  x = v
<1>1. x \in Rows(table)
  <2>1. DOMAIN table = VersionIds
    BY DEF History
  <2> QED
    BY <2>1, ChainClosed
<1>2. x = v \/ table[x].number < table[v].number
  BY ChainIsOlder
<1>3. v = x \/ table[v].number < table[x].number
  BY <1>1, ChainIsOlder
<1>4. table[x].number \in Nat /\ table[v].number \in Nat
  BY <1>1, RowFields DEF History
<1> QED
  BY <1>2, <1>3, <1>4

\* The nearest kept one of a row that is deleted is its parent, or the parent's.
LEMMA NearestStep ==
  ASSUME NEW table, History(table), NEW doomed, NEW v \in Rows(table), v \in doomed,
         table[v].parent # None
  PROVE  LET p == table[v].parent
         IN  Nearest(table, v, doomed) = IF p \in doomed THEN Nearest(table, p, doomed) ELSE p
<1> DEFINE p == table[v].parent
<1>1. p \in Rows(table) /\ DOMAIN table = VersionIds
  BY ParentIsRow DEF History
<1>2. Chain(table, v) = {v} \cup Chain(table, p)
  BY ChainStep
<1>3. Chain(table, v) \ doomed = Chain(table, p) \ doomed
  BY <1>2
<1>4. Nearest(table, v, doomed) = Nearest(table, p, doomed)
  BY <1>3 DEF Nearest
<1>5. CASE p \notin doomed
  <2> DEFINE kept == Chain(table, p) \ doomed
  <2> DEFINE set == {a \in kept : \A b \in kept : b \in Chain(table, a)}
  <2>1. p \in kept
    BY <1>1, <1>5, ChainClosed
  <2>2. p \in set
    BY <2>1
  <2>3. \A a \in set : a = p
    BY <1>1, <2>1, ChainAntisymmetric
  <2>4. Only(set) \in set
    <3> HIDE DEF set
    <3> QED
      BY <2>2, OnlyOf
  <2>5. Nearest(table, p, doomed) = Only(set)
    BY DEF Nearest
  <2> QED
    BY <1>4, <1>5, <2>3, <2>4, <2>5
<1> QED
  BY <1>4, <1>5

\* The table a prune leaves: PruneCommit.
Pruned(table, doomed, repointed) ==
  LET Kept(v) == IF v \in doomed THEN None ELSE v
  IN  [v \in VersionIds |->
         IF v \notin Rows(table) THEN table[v]
         ELSE IF v \in doomed THEN Gone
         ELSE [table[v] EXCEPT
                 !.parent = Kept(IF v \in DOMAIN repointed THEN repointed[v] ELSE @),
                 !.mergedFrom = Kept(@)]]

\* What it gives to rows below deleted ones.
RepointedIn(table, doomed, repointed) ==
  \A v \in DOMAIN repointed \cap Rows(table) :
    /\ table[v].parent \in doomed
    /\ repointed[v] = Nearest(table, table[v].parent, doomed)

Orphaned(v, doomed) == IF v \in doomed THEN None ELSE v

LEMMA RepointedType ==
  ASSUME NEW table, History(table), NEW doomed, NEW repointed,
         RepointedIn(table, doomed, repointed),
         NEW v \in DOMAIN repointed \cap Rows(table)
  PROVE  /\ repointed[v] \in (Rows(table) \ doomed) \cup {None}
         /\ repointed[v] # None => /\ table[repointed[v]].story = table[v].story
                                   /\ table[repointed[v]].number < table[v].number
                                   /\ repointed[v] \in Chain(table, v)
<1> DEFINE p == table[v].parent
<1>1. p \in doomed /\ repointed[v] = Nearest(table, p, doomed)
  BY DEF RepointedIn
<1>2. repointed[v] \in (Chain(table, p) \ doomed) \cup {None}
  BY <1>1, NearestIsKept
<1>3. CASE p \in Rows(table)
  <2>1. p # None
    BY <1>3, RowFields DEF History
  <2>2. table[p].story = table[v].story /\ table[p].number < table[v].number
    BY <2>1, ParentIsRow
  <2>3. Chain(table, p) \subseteq Rows(table)
    BY <1>3, ChainClosed DEF History
  <2>4. \A x \in Chain(table, p) : /\ table[x].story = table[p].story
                                   /\ x = p \/ table[x].number < table[p].number
    BY <1>3, ChainIsOlder
  <2>5. \A x \in Rows(table) : table[x].number \in Nat
    BY RowFields DEF History
  <2>6. Chain(table, p) \subseteq Chain(table, v)
    BY <2>1, ChainStep
  <2> QED
    BY <1>2, <1>3, <2>2, <2>3, <2>4, <2>5, <2>6
<1>4. CASE p \notin Rows(table)
  <2>1. Chain(table, p) \subseteq {p}
    <3>1. {p} \cap Rows(table) = {}
      BY <1>4
    <3> HIDE DEF p
    <3> QED
      BY <3>1, ChainLeast
  <2>2. Chain(table, p) \subseteq Rows(table)
    BY ChainIsIterated
  <2> QED
    BY <1>2, <1>4, <2>1, <2>2
<1> QED
  BY <1>3, <1>4

LEMMA PrunedRows ==
  ASSUME NEW table, History(table), NEW doomed, NEW repointed,
         RepointedIn(table, doomed, repointed)
  PROVE  LET after == Pruned(table, doomed, repointed)
         IN  /\ after \in [VersionIds -> StoryVersion \cup {None, Gone}]
             /\ Rows(after) = Rows(table) \ doomed
             /\ \A v \in Rows(after) :
                  /\ after[v].story = table[v].story /\ after[v].number = table[v].number
                  /\ after[v].mergedFrom = Orphaned(table[v].mergedFrom, doomed)
                  /\ after[v].parent =
                       Orphaned(IF v \in DOMAIN repointed THEN repointed[v]
                                                          ELSE table[v].parent, doomed)
<1> DEFINE after == Pruned(table, doomed, repointed)
<1>1. DOMAIN after = VersionIds
  BY DEF Pruned
<1>2. ASSUME NEW v \in VersionIds, v \notin Rows(table)
      PROVE  after[v] = table[v] /\ after[v] \in {None, Gone}
  BY <1>2 DEF Pruned, Rows, History
<1>3. ASSUME NEW v \in Rows(table) \cap doomed PROVE v \in VersionIds /\ after[v] = Gone
  BY <1>3, RowFields DEF Pruned, History
<1>4. ASSUME NEW v \in Rows(table) \ doomed
      PROVE  /\ v \in VersionIds /\ after[v] \in StoryVersion
             /\ after[v].story = table[v].story /\ after[v].number = table[v].number
             /\ after[v].mergedFrom = Orphaned(table[v].mergedFrom, doomed)
             /\ after[v].parent =
                  Orphaned(IF v \in DOMAIN repointed THEN repointed[v]
                                                     ELSE table[v].parent, doomed)
  <2> DEFINE parent == Orphaned(IF v \in DOMAIN repointed THEN repointed[v]
                                                          ELSE table[v].parent, doomed)
  <2> DEFINE source == Orphaned(table[v].mergedFrom, doomed)
  <2>1. /\ v \in VersionIds /\ table[v] \in StoryVersion
        /\ table[v].parent \in VersionIds \cup {None}
        /\ table[v].mergedFrom \in VersionIds \cup {None}
    BY RowFields DEF History
  <2>2. v \in DOMAIN repointed => repointed[v] \in VersionIds \cup {None}
    BY RepointedType, RowFields DEF History
  <2>3. parent \in VersionIds \cup {None} /\ source \in VersionIds \cup {None}
    BY <2>1, <2>2 DEF Orphaned
  <2>4. after[v] = [table[v] EXCEPT !.parent = parent, !.mergedFrom = source]
    BY <1>4, <2>1 DEF Pruned, Orphaned
  <2> HIDE DEF parent, source, after
  <2>5. after[v] \in StoryVersion
    BY <2>1, <2>3, <2>4 DEF StoryVersion
  <2>6. /\ after[v].story = table[v].story /\ after[v].number = table[v].number
        /\ after[v].mergedFrom = source /\ after[v].parent = parent
    BY <2>1, <2>4 DEF StoryVersion
  <2> QED
    BY <2>1, <2>5, <2>6 DEF parent, source
<1>5. None \notin StoryVersion /\ Gone \notin StoryVersion
  BY StoriesAssumption
<1> HIDE DEF after
<1>6. after \in [VersionIds -> StoryVersion \cup {None, Gone}]
  <2>1. after = [v \in VersionIds |-> after[v]]
    BY DEF after, Pruned
  <2>2. \A v \in VersionIds : after[v] \in StoryVersion \cup {None, Gone}
    BY <1>2, <1>3, <1>4
  <2> QED
    BY <2>1, <2>2
<1>7. Rows(after) = Rows(table) \ doomed
  <2>1. \A v \in Rows(table) : v \in VersionIds
    BY RowFields DEF History
  <2> QED
    BY <1>1, <1>2, <1>3, <1>4, <1>5, <2>1 DEF Rows
<1> QED
  BY <1>4, <1>6, <1>7 DEF after

\* Of a chain that no row made from a deleted one cuts, a prune leaves what it keeps.
LEMMA PruneKeepsChain ==
  ASSUME NEW table, History(table), NEW doomed \in SUBSET Rows(table), NEW repointed,
         RepointedIn(table, doomed, repointed),
         NEW v \in Rows(table) \ doomed,
         \A w \in Chain(table, v) \ doomed :
           w \in DOMAIN repointed \/ table[w].parent \notin doomed
  PROVE  Chain(Pruned(table, doomed, repointed), v) = Chain(table, v) \ doomed
<1> DEFINE after == Pruned(table, doomed, repointed)
<1>1. /\ after \in [VersionIds -> StoryVersion \cup {None, Gone}]
      /\ Rows(after) = Rows(table) \ doomed
      /\ \A w \in Rows(after) :
           after[w].parent =
             Orphaned(IF w \in DOMAIN repointed THEN repointed[w] ELSE table[w].parent, doomed)
  BY PrunedRows
<1>2. DOMAIN after = VersionIds /\ DOMAIN table = VersionIds
  BY <1>1 DEF History
<1> HIDE DEF after
<1>3. /\ v \in Chain(table, v) /\ Chain(table, v) \subseteq Rows(table)
      /\ \A w \in Chain(table, v) :
           table[w].parent \in Rows(table) => table[w].parent \in Chain(table, v)
  BY <1>2, ChainClosed
<1>4. /\ v \in Chain(after, v) /\ Chain(after, v) \subseteq Rows(after)
      /\ \A w \in Chain(after, v) :
           after[w].parent \in Rows(after) => after[w].parent \in Chain(after, v)
  BY <1>1, <1>2, ChainClosed
\* The new parent of a row of the chain.
<1>5. ASSUME NEW w \in Chain(table, v) \ doomed
      PROVE  /\ table[w].parent \notin doomed => after[w].parent = table[w].parent
             /\ table[w].parent \in doomed =>
                  /\ after[w].parent = Nearest(table, table[w].parent, doomed)
                  /\ after[w].parent \in (Chain(table, w) \ doomed) \cup {None}
  <2>1. w \in Rows(table) \ doomed
    BY <1>3
  <2>2. CASE w \in DOMAIN repointed
    <3>1. /\ table[w].parent \in doomed
          /\ repointed[w] = Nearest(table, table[w].parent, doomed)
      BY <2>1, <2>2 DEF RepointedIn
    <3>2. repointed[w] \in (Chain(table, w) \ doomed) \cup {None}
      BY <2>1, <2>2, RepointedType
    <3>3. None \notin doomed
      BY StoriesAssumption DEF Rows, History
    <3> QED
      BY <1>1, <2>1, <2>2, <3>1, <3>2, <3>3 DEF Orphaned
  <2>3. CASE w \notin DOMAIN repointed
    BY <1>1, <2>1, <2>3 DEF Orphaned
  <2> QED
    BY <2>2, <2>3
<1>6. Chain(after, v) \subseteq Chain(table, v) \ doomed
  <2> DEFINE X == Chain(table, v) \ doomed
  <2>1. ASSUME NEW w \in X, after[w].parent \in Rows(after) PROVE after[w].parent \in X
    <3>1. Chain(table, w) \subseteq Chain(table, v)
      BY ChainInChain
    <3>2. None \notin Rows(after)
      BY <1>2, StoriesAssumption DEF Rows
    <3> QED
      BY <1>1, <1>3, <1>5, <2>1, <3>1, <3>2
  <2> HIDE DEF X
  <2>2. v \in X
    BY <1>3 DEF X
  <2>3. Chain(after, v) \subseteq X
    BY <2>1, <2>2, ChainLeast
  <2> QED
    BY <2>3 DEF X
<1>7. Chain(table, v) \ doomed \subseteq Chain(after, v)
  <2> DEFINE Y == Chain(after, v)
  <2> DEFINE X == Y \cup {d \in Chain(table, v) \cap doomed :
                            Nearest(table, d, doomed) \in Y \cup {None}}
  <2>1. None \notin Rows(table)
    BY <1>2, StoriesAssumption DEF Rows
  <2>2. ASSUME NEW w \in Y, table[w].parent \in Rows(table) PROVE table[w].parent \in X
    <3>1. w \in Chain(table, v) \ doomed
      BY <1>6
    <3>2. CASE table[w].parent \in doomed
      <4>1. Nearest(table, table[w].parent, doomed) \in Y \cup {None}
        <5>1. after[w].parent = Nearest(table, table[w].parent, doomed)
          BY <1>5, <3>1, <3>2
        <5>2. after[w].parent \in Rows(after) \cup {None}
          <6>1. Chain(table, w) \subseteq Rows(table)
            BY <1>2, <1>3, <3>1, ChainClosed
          <6> QED
            BY <1>1, <1>5, <3>1, <3>2, <6>1
        <5> QED
          BY <1>4, <5>1, <5>2
      <4> QED
        BY <1>3, <2>2, <3>1, <3>2, <4>1
    <3>3. CASE table[w].parent \notin doomed
      <4>1. after[w].parent = table[w].parent
        BY <1>5, <3>1, <3>3
      <4> QED
        BY <1>1, <1>4, <2>2, <3>3, <4>1
    <3> QED
      BY <3>2, <3>3
  <2>3. ASSUME NEW d \in X \ Y, table[d].parent \in Rows(table) PROVE table[d].parent \in X
    <3>1. d \in Rows(table) \cap doomed /\ d \in Chain(table, v)
      BY <1>3
    <3>2. table[d].parent # None /\ table[d].parent \in Chain(table, v)
      BY <1>3, <2>1, <2>3, <3>1
    <3>3. Nearest(table, d, doomed) =
            IF table[d].parent \in doomed THEN Nearest(table, table[d].parent, doomed)
                                          ELSE table[d].parent
      BY <3>1, <3>2, NearestStep
    <3> QED
      BY <2>3, <3>2, <3>3
  <2>4. v \in X
    BY <1>4
  <2> HIDE DEF X
  <2>5. Chain(table, v) \subseteq X
    <3>1. \A x \in X \cap Rows(table) :
            table[x].parent \in Rows(table) => table[x].parent \in X
      BY <2>2, <2>3
    <3> QED
      BY <2>4, <3>1, ChainLeast
  <2> QED
    BY <2>5 DEF X
<1> QED
  BY <1>6, <1>7 DEF after

-----------------------------------------------------------------------------
(* The requests: what each may hold where it goes. *)

Places == StoryPlaces \cup {"idle", "latest", "insert", "tag"}

\* The request goes to a place with these locals.
Turn(r, place, l) ==
  at' = [at EXCEPT ![r] = place] /\ my' = [my EXCEPT ![r] = l]

Turns(r) == \E place \in Places : \E l : Turn(r, place, l) /\ Holds(place, l)

LEMMA RequestFields ==
  ASSUME NEW op \in Replaces \cup {"create"}, NEW u \in Users, NEW id, NEW seen, NEW body
  PROVE  LET l == Request(op, u, id, seen, body)
         IN  /\ IsRequest(l) /\ l.op = op /\ l.user = u /\ l.id = id
             /\ l.seen = seen /\ l.body = body
BY DEF Request, IsRequest

LEMMA StoryRow ==
  ASSUME TypeOK, NEW id \in Rows(stories)
  PROVE  id \in StoryIds /\ stories[id] \in Story /\ SeenBefore(stories[id], id)
<1>1. id \in StoryIds /\ stories[id] \in Story /\ stories[id] # None
  BY DEF TypeOK, Rows
<1>2. stories[id].version \in Nat
  BY <1>1 DEF Story
<1>3. SameVersion(stories[id], stories[id])
  BY <1>1 DEF SameVersion, Story
<1> QED
  BY <1>1, <1>2, <1>3 DEF SeenBefore

LEMMA CreateTurns ==
  ASSUME NEW r, NEW u \in Users, NEW body \in NewStories, Create(r, u, body)
  PROVE  Turns(r)
<1> DEFINE l == Request("create", u, None, None, body)
<1> DEFINE place == IF body.parent # None THEN "parent"
                    ELSE IF NeedsLabels(body) THEN "labels" ELSE "write"
<1>1. Turn(r, place, l)
  BY DEF Create, Start, Go, Turn
<1>2. /\ IsRequest(l) /\ l.op = "create" /\ l.user = u /\ l.body = body
  BY RequestFields
<1>3. MaySet(u, body.status, [userId |-> u])
  BY DEF Create
<1>4. place \in {"parent", "labels", "write"}
  OBVIOUS
<1> HIDE DEF l, place
<1>5. Holds(place, l)
  BY <1>2, <1>3, <1>4 DEF Holds, BodyOK, PlaceOK, Allowed, VersionOK, Replaces
<1> QED
  BY <1>1, <1>4, <1>5 DEF Turns, Places, StoryPlaces

\* An edit, also a rollback's.
LEMMA EditTurns ==
  ASSUME TypeOK, NEW r, NEW u \in Users, NEW id \in StoryIds, NEW body, NEW op,
         Edit(r, u, id, body, op),
         \/ op = "update" /\ body \in Edits
         \/ op = "rollback" /\ IsRollback(body)
  PROVE  Turns(r)
<1> DEFINE l == Request(op, u, id, stories[id], body)
<1> DEFINE place == IF body.parent \in StoryIds \ {stories[id].parent} THEN "parent"
                    ELSE IF NeedsLabels(body) THEN "labels" ELSE "write"
<1>1. Turn(r, place, l)
  BY DEF Edit, Start, Go, Turn
<1>2. op \in Replaces
  BY DEF Replaces
<1>3. /\ IsRequest(l) /\ l.op = op /\ l.user = u /\ l.id = id /\ l.seen = stories[id]
      /\ l.body = body
  BY <1>2, RequestFields
<1>4. id \in Rows(stories)
  BY DEF Edit, Live
<1>5. stories[id] \in Story /\ SeenBefore(stories[id], id)
  BY <1>4, StoryRow
<1>6. body.status \in {None, stories[id].status} \/ MaySet(u, body.status, stories[id])
  BY DEF Edit
<1>7. place \in {"parent", "labels", "write"}
  OBVIOUS
<1>8. op = "rollback" => place = "write"
  BY StoriesAssumption DEF IsRollback, NeedsLabels
<1> HIDE DEF l, place
<1>9. BodyOK(l) /\ PlaceOK(place, l) /\ Allowed(l)
  BY <1>3, <1>5, <1>6, <1>7, <1>8 DEF BodyOK, PlaceOK, Allowed, Replaces
<1>10. Holds(place, l)
  BY <1>3, <1>5, <1>7, <1>9 DEF Holds, VersionOK
<1> QED
  BY <1>1, <1>7, <1>10 DEF Turns, Places, StoryPlaces

\* The other routes that read a story first.
LEMMA ReadTurns ==
  ASSUME TypeOK, NEW r, NEW u \in Users, NEW id \in Rows(stories), NEW body, NEW op \in Replaces,
         NEW place \in {"labels", "write", "publish"},
         Start(r, Request(op, u, id, stories[id], body), place),
         op \notin {"update", "rollback"},
         op = "status" => body.status \in StatusesAsked /\ Can(u, "publish", stories[id]),
         op = "links" => body \in LinkChanges,
         op = "image" => body.file \in Files \cup {None},
         place = "labels" => op = "links",
         place = "publish" => op = "image" /\ body.file \in Files
  PROVE  Turns(r)
<1> DEFINE l == Request(op, u, id, stories[id], body)
<1>1. Turn(r, place, l)
  BY DEF Start, Go, Turn
<1>2. /\ IsRequest(l) /\ l.op = op /\ l.user = u /\ l.id = id /\ l.seen = stories[id]
      /\ l.body = body
  BY RequestFields
<1>3. id \in StoryIds /\ stories[id] \in Story /\ SeenBefore(stories[id], id)
  BY StoryRow
<1> HIDE DEF l
<1>4. BodyOK(l) /\ PlaceOK(place, l) /\ Allowed(l)
  BY <1>2, <1>3 DEF BodyOK, PlaceOK, Allowed, Replaces
<1>5. Holds(place, l)
  BY <1>2, <1>3, <1>4 DEF Holds, VersionOK
<1> QED
  BY <1>1, <1>5 DEF Turns, Places, StoryPlaces

LEMMA RouteTurns ==
  ASSUME TypeOK, NEW r, NEW u \in Users, NEW id \in StoryIds,
         \/ Remove(r, u, id) \/ Restore(r, u, id)
         \/ \E s \in StatusesAsked : SetStatus(r, u, id, s)
         \/ \E body \in LinkChanges : ChangeLinks(r, u, id, body)
         \/ \E f \in Files \cup {None} : SetImage(r, u, id, f)
  PROVE  Turns(r)
<1>1. CASE Remove(r, u, id)
  BY <1>1, ReadTurns DEF Remove, Live, Replaces
<1>2. CASE Restore(r, u, id)
  BY <1>2, ReadTurns DEF Restore, Replaces
<1>3. ASSUME NEW s \in StatusesAsked, SetStatus(r, u, id, s) PROVE Turns(r)
  <2>1. [status |-> s].status \in StatusesAsked
    OBVIOUS
  <2> QED
    BY <1>3, <2>1, ReadTurns DEF SetStatus, Live, CanChange, Replaces
<1>4. ASSUME NEW body \in LinkChanges, ChangeLinks(r, u, id, body) PROVE Turns(r)
  BY <1>4, ReadTurns DEF ChangeLinks, Live, Replaces
<1>5. ASSUME NEW f \in Files \cup {None}, SetImage(r, u, id, f) PROVE Turns(r)
  <2>1. [file |-> f].file = f
    OBVIOUS
  <2> QED
    BY <1>5, <2>1, ReadTurns DEF SetImage, Live, Replaces
<1> QED
  BY <1>1, <1>2, <1>3, <1>4, <1>5

\* A request that goes on with what it has.
LEMMA SameTurns ==
  ASSUME Requested, NEW r \in Requests, NEW place \in StoryPlaces,
         at[r] \in StoryPlaces, Go(r, place), my' = my, PlaceOK(place, my[r])
  PROVE  Turns(r)
<1>1. Holds(at[r], my[r])
  BY DEF Requested
<1>2. Holds(place, my[r])
  <2>1. VersionOK(place, my[r])
    BY DEF VersionOK, StoryPlaces
  <2> QED
    BY <1>1, <2>1 DEF Holds
<1>3. my' = [my EXCEPT ![r] = my[r]]
  BY DEF Requested
<1> QED
  BY <1>2, <1>3 DEF Turns, Turn, Go, Places

LEMMA ParentTurns ==
  ASSUME Requested, NEW r \in Requests, CheckParent(r)
  PROVE  Turns(r)
<1>1. at[r] = "parent" /\ PlaceOK(at[r], my[r])
  BY DEF CheckParent, Requested, Holds, StoryPlaces
<1>2. PlaceOK("labels", my[r]) /\ PlaceOK("write", my[r])
  BY <1>1 DEF PlaceOK
<1> QED
  BY <1>1, <1>2, SameTurns DEF CheckParent, StoryPlaces

LEMMA SaveTurns ==
  ASSUME Requested, NEW r \in Requests, Save(r, {"update", "rollback"}, "record")
  PROVE  Turns(r)
<1>1. PlaceOK("record", my[r])
  BY DEF Save, PlaceOK
<1> QED
  BY <1>1, SameTurns DEF Save, StoryPlaces

LEMMA PublishTurns ==
  ASSUME Requested, NEW r \in Requests, PublishImage(r)
  PROVE  Turns(r)
<1>1. PlaceOK("write", my[r])
  BY DEF PlaceOK
<1> QED
  BY <1>1, SameTurns DEF PublishImage, StoryPlaces

LEMMA LeaveTurns ==
  ASSUME NEW r, Leave(r)
  PROVE  Turns(r)
<1>1. Holds("idle", Blank)
  BY DEF Holds, VersionOK, StoryPlaces
<1> QED
  BY <1>1 DEF Turns, Turn, Leave, Places

\* Labels are resolved to rows there are, or new ones.
LEMMA LabelsTurn ==
  ASSUME TypeOK, Requested, NEW r \in Requests, ResolveLabels(r)
  PROVE  Turns(r)
<1> DEFINE l == my[r]
<1>1. /\ at[r] = "labels" /\ IsRequest(l) /\ BodyOK(l) /\ PlaceOK("labels", l) /\ Allowed(l)
      /\ l.op \in Replaces => SeenBefore(l.seen, l.id)
  BY DEF ResolveLabels, Requested, Holds, StoryPlaces
<1>2. PICK ts, cs : /\ my' = [my EXCEPT ![r].categories = cs, ![r].tags = ts]
                    /\ ts \subseteq TagIds /\ cs \subseteq CategoryIds
  <2> DEFINE body == l.body
  <2> DEFINE missing == body.names \ {tags[t].name : t \in LiveTags}
  <2> DEFINE unused == TagIds \ {t \in TagIds : tags[t] # None}
  <2>1. LiveTags \subseteq TagIds /\ LiveCategories \subseteq CategoryIds
    BY DEF LiveTags, LiveCategories, Rows, TypeOK
  <2>2. /\ body.categoryIds \subseteq LiveCategories /\ body.tagIds \subseteq LiveTags
        /\ TagsNamed(body.names) \subseteq LiveTags
    BY DEF ResolveLabels, TagsNamed
  <2>3. PICK made \in [missing -> unused] :
          my' = [my EXCEPT ![r].categories = body.categoryIds,
                           ![r].tags = body.tagIds \cup TagsNamed(body.names)
                                         \cup {made[n] : n \in missing}]
    BY DEF ResolveLabels
  <2> DEFINE ts == body.tagIds \cup TagsNamed(body.names) \cup {made[n] : n \in missing}
  <2>4. my' = [my EXCEPT ![r].categories = body.categoryIds, ![r].tags = ts]
    BY <2>3
  <2>5. {made[n] : n \in missing} \subseteq TagIds
    OBVIOUS
  <2>6. ts \subseteq TagIds /\ body.categoryIds \subseteq CategoryIds
    BY <2>1, <2>2, <2>5
  <2> HIDE DEF ts, body
  <2> QED
    BY <2>4, <2>6
<1> DEFINE new == [l EXCEPT !.categories = cs, !.tags = ts]
<1>3. my' = [my EXCEPT ![r] = new]
  BY <1>2 DEF Requested
<1>4. new = [op |-> l.op, user |-> l.user, id |-> l.id, seen |-> l.seen, body |-> l.body,
             tags |-> ts, categories |-> cs]
  <2> DEFINE old == [op |-> l.op, user |-> l.user, id |-> l.id, seen |-> l.seen,
                     body |-> l.body, tags |-> l.tags, categories |-> l.categories]
  <2>1. new = [old EXCEPT !.categories = cs, !.tags = ts]
    BY <1>1, Zenon DEF IsRequest
  <2>2. [old EXCEPT !.categories = cs, !.tags = ts] =
          [op |-> l.op, user |-> l.user, id |-> l.id, seen |-> l.seen, body |-> l.body,
           tags |-> ts, categories |-> cs]
    <3> DEFINE mid == [op |-> l.op, user |-> l.user, id |-> l.id, seen |-> l.seen,
                       body |-> l.body, tags |-> l.tags, categories |-> cs]
    <3> HIDE DEF l
    <3>1. [old EXCEPT !.categories = cs, !.tags = ts]
            = [[old EXCEPT !.categories = cs] EXCEPT !.tags = ts]
      OBVIOUS
    <3>2. [old EXCEPT !.categories = cs] = mid
      OBVIOUS
    <3>3. [mid EXCEPT !.tags = ts] =
            [op |-> l.op, user |-> l.user, id |-> l.id, seen |-> l.seen, body |-> l.body,
             tags |-> ts, categories |-> cs]
      OBVIOUS
    <3> HIDE DEF old, mid
    <3> QED
      BY <3>1, <3>2, <3>3
  <2> QED
    BY <2>1, <2>2
<1> HIDE DEF new
<1>5. /\ new.op = l.op /\ new.user = l.user /\ new.id = l.id /\ new.seen = l.seen
      /\ new.body = l.body /\ new.tags = ts /\ new.categories = cs
  BY <1>4
<1> HIDE DEF l
<1>6. IsRequest(new)
  BY <1>1, <1>2, <1>4, <1>5 DEF IsRequest
<1>7. BodyOK(new) /\ PlaceOK("write", new) /\ Allowed(new)
  BY <1>1, <1>5 DEF BodyOK, PlaceOK, Allowed
<1>8. Holds("write", new)
  BY <1>1, <1>5, <1>6, <1>7 DEF Holds, VersionOK
<1>9. Turn(r, "write", new)
  BY <1>3 DEF ResolveLabels, Go, Turn
<1> QED
  BY <1>8, <1>9 DEF Turns, Places, StoryPlaces

LEMMA StoryStepTurns ==
  ASSUME TypeOK, Requested, NEW r \in Requests, StoryStep(r)
  PROVE  Turns(r)
<1>1. ASSUME NEW u \in Users, NEW body \in NewStories, Create(r, u, body) PROVE Turns(r)
  BY <1>1, CreateTurns
<1>2. ASSUME NEW u \in Users, NEW id \in StoryIds, NEW body \in Edits,
             Edit(r, u, id, body, "update")
      PROVE  Turns(r)
  BY <1>2, EditTurns
<1>3. ASSUME NEW u \in Users, NEW id \in StoryIds,
             \/ Remove(r, u, id) \/ Restore(r, u, id)
             \/ \E s \in StatusesAsked : SetStatus(r, u, id, s)
             \/ \E body \in LinkChanges : ChangeLinks(r, u, id, body)
             \/ \E f \in Files \cup {None} : SetImage(r, u, id, f)
      PROVE  Turns(r)
  BY <1>3, RouteTurns
<1>4. CASE \/ CheckParent(r) \/ ResolveLabels(r)
           \/ Save(r, {"update", "rollback"}, "record") \/ PublishImage(r)
  BY <1>4, ParentTurns, LabelsTurn, SaveTurns, PublishTurns
<1>5. CASE \/ Insert(r) \/ SetDeleted(r) \/ WriteStatus(r) \/ WriteLinks(r)
           \/ WriteImage(r) \/ End(r)
  <2>1. Leave(r)
    BY <1>5 DEF Insert, SetDeleted, WriteStatus, WriteLinks, WriteImage, UpdateIfVersion, End
  <2> QED
    BY <2>1, LeaveTurns
<1> QED
  BY <1>1, <1>2, <1>3, <1>4, <1>5 DEF StoryStep

\* Versions as the operations make them.
LEMMA SnapshotOfRow ==
  ASSUME NEW row \in Story
  PROVE  SnapshotOfStory(row) \in Snapshot
<1>1. /\ row.title \in Titles /\ row.fromTime \in Times \cup {None}
      /\ row.status \in StoryStatus /\ row.tags \subseteq TagIds
      /\ row.categories \subseteq CategoryIds /\ row.image \in Files \cup {None}
  BY DEF Story
<1>2. /\ row.tags \cap LiveTags \subseteq TagIds
      /\ row.categories \cap LiveCategories \subseteq CategoryIds
  BY <1>1
<1> QED
  BY <1>1, <1>2 DEF SnapshotOfStory, Snapshot

LEMMA NewVersion ==
  ASSUME NEW id \in StoryIds, NEW branch \in Branches,
         NEW type \in {"AUTO", "MANUAL", "ROLLBACK", "BRANCH", "MERGE"},
         NEW parent \in VersionIds \cup {None}, NEW content \in Snapshot
  PROVE  LET v == Version(id, branch, type, parent, content)
         IN  /\ v \in StoryVersion /\ v.story = id
             /\ v.parent = parent /\ v.mergedFrom = None
BY DEF Version, StoryVersion

LEMMA VersionTurns ==
  ASSUME NEW r, NEW place \in {"latest", "insert"}, NEW new,
         Turn(r, place, [op |-> "version", version |-> new]),
         place = "latest" => new \in Fresh,
         place = "insert" => new \in StoryVersion /\ Founded(new)
  PROVE  Turns(r)
<1> DEFINE l == [op |-> "version", version |-> new]
<1>1. l = [op |-> "version", version |-> l.version] /\ l.version = new
  OBVIOUS
<1> HIDE DEF l
<1>2. Holds(place, l)
  BY <1>1 DEF Holds, VersionOK, StoryPlaces
<1> QED
  BY <1>2 DEF Turns, Places, l

LEMMA OfRow ==
  ASSUME TypeOK, NEW id, NEW v \in Of(id)
  PROVE  /\ v \in VersionIds /\ v \in Rows(versions) /\ versions[v] \in StoryVersion
         /\ versions[v].story = id /\ versions[v].content \in Snapshot
<1>1. v \in Rows(versions) /\ versions[v].story = id
  BY DEF Of
<1>2. v \in VersionIds /\ versions[v] \in StoryVersion
  BY <1>1, RowFields DEF TypeOK
<1> QED
  BY <1>1, <1>2 DEF StoryVersion

LEMMA CreateVersionTurns ==
  ASSUME TypeOK, NEW r, NEW u, NEW id \in StoryIds, NEW body \in Snapshots,
         CreateVersion(r, u, id, body)
  PROVE  Turns(r)
<1> DEFINE v == Version(id, body.branch, body.type, None, SnapshotOfStory(stories[id]))
<1> DEFINE new == [v EXCEPT !.tag = body.tag, !.pinned = body.pinned]
<1>1. /\ body.branch \in Branches /\ body.type \in {"AUTO", "MANUAL"}
      /\ body.tag \in VersionTags \cup {None} /\ body.pinned \in BOOLEAN
  BY StoriesAssumption DEF VersionBody
<1>2. SnapshotOfStory(stories[id]) \in Snapshot
  <2>1. stories[id] \in Story
    BY StoryRow DEF CreateVersion, Editable, Live
  <2> QED
    BY <2>1, SnapshotOfRow
<1>3. v \in StoryVersion /\ v.mergedFrom = None
  BY <1>1, <1>2, NewVersion
<1>4. new \in Fresh
  <2> HIDE DEF v
  <2> QED
    BY <1>1, <1>3 DEF StoryVersion, Fresh
<1>5. Turn(r, "latest", [op |-> "version", version |-> new])
  BY DEF CreateVersion, StartVersion, Start, Go, Turn
<1> HIDE DEF new
<1> QED
  BY <1>4, <1>5, VersionTurns

LEMMA RollbackTurns ==
  ASSUME TypeOK, NEW r, NEW u \in Users, NEW id \in StoryIds, NEW b \in Rollbacks,
         Rollback(r, u, id, b.number, b.branch)
  PROVE  Turns(r)
<1> DEFINE target == Only(Numbered(id, b.number))
<1> DEFINE old == versions[target].content
<1> DEFINE v == Version(id, Given(b.branch, "main"), "ROLLBACK", None, old)
<1> DEFINE record == [v EXCEPT !.rolledBackFrom = target]
<1> DEFINE body == [version |-> None, title |-> old.title, fromTime |-> old.fromTime,
                    status |-> None, parent |-> None, tagIds |-> {}, names |-> {},
                    categoryIds |-> {}, record |-> record]
<1>1. Given(b.branch, "main") \in Branches
  BY StoriesAssumption DEF RollbackBody, Given
<1>2. target # None
  BY DEF Rollback
<1>3. target \in Of(id)
  BY <1>2, OnlyOf DEF Numbered
<1>4. target \in VersionIds /\ old \in Snapshot
  BY <1>3, OfRow
<1>5. v \in StoryVersion /\ v.mergedFrom = None
  BY <1>1, <1>4, NewVersion
<1>6. record \in Fresh
  <2> HIDE DEF v, target
  <2> QED
    BY <1>4, <1>5 DEF StoryVersion, Fresh
<1>7. old.title \in Titles /\ old.fromTime \in Times \cup {None}
  <2> HIDE DEF old
  <2> QED
    BY <1>4 DEF Snapshot
<1>8. CASE b.branch = None
  <2>1. Edit(r, u, id, body, "rollback")
    BY <1>8 DEF Rollback
  <2>2. IsRollback(body)
    <3> HIDE DEF old, record
    <3> QED
      BY <1>6, <1>7 DEF IsRollback
  <2> HIDE DEF body
  <2> QED
    BY <2>1, <2>2, EditTurns
<1>9. CASE b.branch # None
  <2>1. Turn(r, "latest", [op |-> "version", version |-> record])
    BY <1>9 DEF Rollback, StartVersion, Start, Go, Turn
  <2> HIDE DEF record
  <2> QED
    BY <1>6, <2>1, VersionTurns
<1> QED
  BY <1>8, <1>9

LEMMA CreateBranchTurns ==
  ASSUME TypeOK, NEW r, NEW u, NEW id \in StoryIds, NEW b \in NewBranches,
         CreateBranch(r, u, id, b.branch, b.number)
  PROVE  Turns(r)
<1> DEFINE source == Only(IF b.number = None THEN Latest(id, "main")
                                             ELSE Numbered(id, b.number))
<1> DEFINE new == Version(id, b.branch, "BRANCH", source, versions[source].content)
<1>1. source # None /\ b.branch \in Branches
  BY StoriesAssumption DEF CreateBranch, BranchBody
<1>2. source \in Of(id)
  BY <1>1, OnlyOf DEF Latest, Numbered, OnBranch
<1>3. Turn(r, "insert", [op |-> "version", version |-> new])
  BY DEF CreateBranch, StartVersion, Start, Go, Turn
<1> HIDE DEF source
<1>4. /\ source \in VersionIds /\ source \in Rows(versions) /\ versions[source].story = id
      /\ versions[source].content \in Snapshot
  BY <1>2, OfRow
<1>5. new \in StoryVersion /\ new.story = id /\ new.parent = source /\ new.mergedFrom = None
  BY <1>1, <1>4, NewVersion
<1> HIDE DEF new
<1>6. Founded(new)
  BY <1>4, <1>5 DEF Founded, Rows
<1> QED
  BY <1>3, <1>5, <1>6, VersionTurns

\* What a merge makes is content, whatever was resolved.
LEMMA MergedContent ==
  ASSUME NEW content \in Snapshot, NEW resolved \in {<<>>} \cup [title : Titles]
  PROVE  [f \in DOMAIN content |-> IF f \in DOMAIN resolved THEN resolved[f] ELSE content[f]]
           \in Snapshot
<1> DEFINE merged == [f \in DOMAIN content |->
                        IF f \in DOMAIN resolved THEN resolved[f] ELSE content[f]]
<1>1. DOMAIN content = {"title", "fromTime", "status", "tags", "categories", "image"}
  BY DEF Snapshot
<1>2. DOMAIN resolved \in {{}, {"title"}}
  BY DEF Snapshot
<1>3. "title" \in DOMAIN resolved => resolved["title"] \in Titles
  <2>1. CASE resolved \in [title : Titles]
    <3>1. resolved["title"] = resolved.title
      OBVIOUS
    <3> QED
      BY <2>1, <3>1
  <2>2. CASE resolved = <<>>
    <3>1. DOMAIN resolved = {}
      BY <2>2
    <3> QED
      BY <3>1
  <2> QED
    BY <2>1, <2>2
<1>4. /\ content["title"] \in Titles /\ content["fromTime"] \in Times \cup {None}
      /\ content["status"] \in StoryStatus /\ content["tags"] \in SUBSET TagIds
      /\ content["categories"] \in SUBSET CategoryIds
      /\ content["image"] \in Files \cup {None}
  BY DEF Snapshot
<1>5. /\ merged["title"] \in Titles /\ merged["fromTime"] \in Times \cup {None}
      /\ merged["status"] \in StoryStatus /\ merged["tags"] \in SUBSET TagIds
      /\ merged["categories"] \in SUBSET CategoryIds
      /\ merged["image"] \in Files \cup {None}
  BY <1>1, <1>2, <1>3, <1>4
<1>6. merged = [title |-> merged["title"], fromTime |-> merged["fromTime"],
                status |-> merged["status"], tags |-> merged["tags"],
                categories |-> merged["categories"], image |-> merged["image"]]
  BY <1>1
<1> HIDE DEF merged
<1>7. merged \in Snapshot
  BY <1>5, <1>6 DEF Snapshot
<1> QED
  BY <1>7 DEF merged

LEMMA MergeTurns ==
  ASSUME TypeOK, NEW r, NEW u, NEW id \in StoryIds, NEW body \in Merges, Merge(r, u, id, body)
  PROVE  Turns(r)
<1> DEFINE source == Only(Numbered(id, body.number) \cap OnBranch(id, body.from))
<1> DEFINE target == Only(Latest(id, body.into))
<1> DEFINE merged == [f \in DOMAIN versions[source].content |->
                        IF f \in DOMAIN body.resolved THEN body.resolved[f]
                        ELSE versions[source].content[f]]
<1> DEFINE v == Version(id, body.into, "MERGE", target, merged)
<1> DEFINE new == [v EXCEPT !.mergedFrom = source]
<1>1. /\ source # None /\ target # None
      /\ Turn(r, "insert", [op |-> "version", version |-> new])
  BY DEF Merge, StartVersion, Start, Go, Turn
<1>2. body.into \in Branches /\ body.resolved \in {<<>>} \cup [title : Titles]
  BY StoriesAssumption DEF MergeBody
<1>3. source \in Of(id) /\ target \in Of(id)
  BY <1>1, OnlyOf DEF Latest, Numbered, OnBranch
<1> HIDE DEF source, target
<1>4. /\ source \in VersionIds /\ source \in Rows(versions) /\ versions[source].story = id
      /\ target \in VersionIds /\ target \in Rows(versions) /\ versions[target].story = id
      /\ versions[source].content \in Snapshot
  BY <1>3, OfRow
<1>5. merged \in Snapshot
  BY <1>2, <1>4, MergedContent
<1> HIDE DEF merged
<1>6. v \in StoryVersion /\ v.story = id /\ v.parent = target
  BY <1>2, <1>4, <1>5, NewVersion
<1> HIDE DEF v
<1>7. /\ new \in StoryVersion
      /\ new.story = id /\ new.parent = target /\ new.mergedFrom = source
  BY <1>4, <1>6 DEF StoryVersion
<1> HIDE DEF new
<1>8. Founded(new)
  BY <1>4, <1>7 DEF Founded, Rows
<1> QED
  BY <1>1, <1>7, <1>8, VersionTurns

LEMMA TagTurns ==
  ASSUME TypeOK, NEW r, NEW u, NEW id \in StoryIds, NEW n, NEW tag \in VersionTags,
         TagVersion(r, u, id, n, tag)
  PROVE  Turns(r)
<1> DEFINE v == Only(Numbered(id, n))
<1> DEFINE l == [op |-> "tag", version |-> v, tag |-> tag]
<1>1. v # None /\ Turn(r, "tag", l)
  BY DEF TagVersion, Start, Go, Turn
<1>2. v \in VersionIds
  <2>1. v \in Of(id)
    BY <1>1, OnlyOf DEF Numbered
  <2> QED
    BY <2>1, OfRow
<1>3. l.version = v /\ l.tag = tag
  OBVIOUS
<1> HIDE DEF l, v
<1>4. Holds("tag", l)
  BY <1>2, <1>3 DEF Holds, VersionOK, StoryPlaces
<1> QED
  BY <1>1, <1>4 DEF Turns, Places

LEMMA ReadBackTurns ==
  ASSUME TypeOK, NEW r, ReadBack(r)
  PROVE  Turns(r)
<1> DEFINE new == Version(my[r].id, "main", "AUTO", None, SnapshotOfStory(On(r)))
<1>1. my[r].id \in StoryIds /\ SnapshotOfStory(On(r)) \in Snapshot
  BY StoryRow, SnapshotOfRow DEF ReadBack, Live, On
<1>2. new \in Fresh
  <2>1. "main" \in Branches
    BY StoriesAssumption
  <2>2. new \in StoryVersion /\ new.mergedFrom = None
    BY <1>1, <2>1, NewVersion
  <2> QED
    BY <2>2 DEF Fresh
<1>3. Turn(r, "latest", [op |-> "version", version |-> new])
  BY DEF ReadBack, Go, Turn
<1> HIDE DEF new
<1> QED
  BY <1>2, <1>3, VersionTurns

LEMMA RecordRollbackTurns ==
  ASSUME Requested, NEW r \in Requests, RecordRollback(r)
  PROVE  Turns(r)
<1>1. my[r].body.record \in Fresh
  BY DEF Requested, RecordRollback, Holds, StoryPlaces, BodyOK, IsRollback
<1>2. Turn(r, "latest", [op |-> "version", version |-> my[r].body.record])
  BY DEF RecordRollback, Go, Turn
<1> QED
  BY <1>1, <1>2, VersionTurns

LEMMA CompareTurns ==
  ASSUME TypeOK, Requested, NEW r \in Requests, CompareWithLatest(r)
  PROVE  Turns(r)
<1> DEFINE old == my[r].version
<1> DEFINE latest == Only(Latest(old.story, old.branch))
<1> DEFINE new == [old EXCEPT !.parent = latest]
<1>1. old \in Fresh
  BY DEF Requested, CompareWithLatest, Holds, VersionOK
<1>2. Turn(r, "insert", [op |-> "version", version |-> new])
  BY DEF CompareWithLatest, ToInsert, Go, Turn
<1>3. latest \in Of(old.story) \cup {None}
  BY OnlyOf DEF Latest, OnBranch
<1> HIDE DEF latest, old
<1>4. latest # None => latest \in VersionIds /\ latest \in Rows(versions)
                       /\ versions[latest].story = old.story
  BY <1>3, OfRow
<1>5. /\ new \in StoryVersion
      /\ new.story = old.story /\ new.parent = latest /\ new.mergedFrom = None
  BY <1>1, <1>3, <1>4 DEF Fresh, StoryVersion
<1> HIDE DEF new
<1>6. Founded(new)
  BY <1>4, <1>5 DEF Founded, Rows
<1> QED
  BY <1>2, <1>5, <1>6, VersionTurns

LEMMA VersionStepTurns ==
  ASSUME TypeOK, Requested, NEW r \in Requests, VersionStep(r)
  PROVE  Turns(r)
<1>1. ASSUME NEW u \in Users, NEW id \in StoryIds,
             \/ \E body \in Snapshots : CreateVersion(r, u, id, body)
             \/ \E b \in Rollbacks : Rollback(r, u, id, b.number, b.branch)
             \/ \E b \in NewBranches : CreateBranch(r, u, id, b.branch, b.number)
             \/ \E b \in Merges : Merge(r, u, id, b)
             \/ \E n \in NumbersTagged, t \in VersionTags : TagVersion(r, u, id, n, t)
      PROVE  Turns(r)
  BY <1>1, CreateVersionTurns, RollbackTurns, CreateBranchTurns, MergeTurns, TagTurns
<1>2. CASE ReadBack(r) \/ RecordRollback(r) \/ CompareWithLatest(r)
  BY <1>2, ReadBackTurns, RecordRollbackTurns, CompareTurns
<1>3. CASE InsertVersion(r) \/ WriteTag(r)
  BY <1>3, LeaveTurns DEF InsertVersion, WriteTag
<1> QED
  BY <1>1, <1>2, <1>3 DEF VersionStep

-----------------------------------------------------------------------------
(* The stories: every write leaves a row of the type that is a later one.   *)

Later(old, row) ==
  /\ row.userId = old.userId
  /\ old.version <= row.version
  /\ row.version = old.version => SameVersion(old, row)

\* A story is made or replaced.
Written ==
  \E id \in StoryIds, row \in Story :
    /\ SetStory(id, row)
    /\ stories[id] = None \/ (id \in Rows(stories) /\ Later(stories[id], row))

LEMMA InsertWrites ==
  ASSUME TypeOK, Requested, NEW r \in Requests, Insert(r)
  PROVE  Written
<1> DEFINE l == my[r]
<1> DEFINE b == l.body
<1> DEFINE row == [userId |-> l.user, title |-> b.title, fromTime |-> b.fromTime,
                   status |-> b.status, deleted |-> FALSE, parent |-> b.parent,
                   tags |-> l.tags, categories |-> l.categories,
                   files |-> {}, image |-> None, version |-> 1]
<1>1. l.user \in Users /\ b \in NewStories
      /\ l.tags \subseteq TagIds /\ l.categories \subseteq CategoryIds
  BY DEF Insert, Requested, Holds, StoryPlaces, BodyOK, IsRequest
<1>2. b.title \in Titles /\ b.fromTime \in Times \cup {None} /\ b.status \in StoryStatus
  BY <1>1, StoriesAssumption DEF StoryBody
<1>3. PICK id \in StoryIds : stories[id] = None /\ SetStory(id, row)
  BY DEF Insert
<1>4. b.parent \in StoryIds \cup {None}
  <2>1. Refers(row)
    BY <1>3 DEF SetStory
  <2>2. row.parent \in Rows(stories) \cup {None}
    BY <2>1 DEF Refers
  <2> QED
    BY <2>2 DEF Rows, TypeOK
<1>5. row \in Story
  <2> HIDE DEF b, l
  <2> QED
    BY <1>1, <1>2, <1>4 DEF Story
<1> HIDE DEF row
<1> QED
  BY <1>3, <1>5 DEF Written

\* What an edit's body may ask for.
LEMMA EditBody ==
  ASSUME Requested, NEW r \in Requests, at[r] = "write", my[r].op \in {"update", "rollback"}
  PROVE  LET b == my[r].body
         IN  /\ b.title \in Titles \cup {None} /\ b.fromTime \in Times \cup {None}
             /\ b.status \in StoryStatus \cup {None}
             /\ my[r].op = "rollback" => b.status = None /\ b.version = None
<1>1. CASE my[r].op = "update"
  <2>1. my[r].body \in StoryBody
    BY <1>1, StoriesAssumption DEF Requested, Holds, StoryPlaces, BodyOK
  <2> QED
    BY <1>1, <2>1 DEF StoryBody
<1>2. CASE my[r].op = "rollback"
  BY <1>2 DEF Requested, Holds, StoryPlaces, BodyOK, IsRollback
<1> QED
  BY <1>1, <1>2

\* The story an edit makes, with its references there.
LEMMA EditedRow ==
  ASSUME TypeOK, Requested, NEW r \in Requests, at[r] = "write",
         my[r].op \in {"update", "rollback"}, NEW row \in Story, NEW dropped \in BOOLEAN,
         Refers(Edited(r, row, dropped))
  PROVE  LET new == Edited(r, row, dropped)
         IN  /\ new \in Story
             /\ new.userId = row.userId /\ new.version = row.version + 1
             /\ new.status = Given(my[r].body.status, row.status)
<1> DEFINE b == my[r].body
<1> DEFINE title == Given(b.title, row.title)
<1> DEFINE fromTime == Given(b.fromTime, row.fromTime)
<1> DEFINE status == Given(b.status, row.status)
<1> DEFINE parent == IF b.parent = Null THEN None ELSE Given(b.parent, row.parent)
<1> DEFINE Loaded(links, live) == IF dropped THEN links \cap live ELSE links
<1> DEFINE labels == Chosen(my[r].tags, Loaded(row.tags, LiveTags))
<1> DEFINE kinds == Chosen(my[r].categories, Loaded(row.categories, LiveCategories))
<1> DEFINE new == [row EXCEPT !.title = title, !.fromTime = fromTime, !.status = status,
                              !.parent = parent, !.tags = labels, !.categories = kinds,
                              !.version = @ + 1]
<1>1. Edited(r, row, dropped) = new
  BY DEF Edited
<1>2. /\ row.title \in Titles /\ row.fromTime \in Times \cup {None}
      /\ row.status \in StoryStatus /\ row.tags \subseteq TagIds
      /\ row.categories \subseteq CategoryIds
  BY DEF Story
<1>3. /\ title \in Titles /\ fromTime \in Times \cup {None} /\ status \in StoryStatus
  BY <1>2, EditBody DEF Given
<1>4. labels \subseteq TagIds /\ kinds \subseteq CategoryIds
  <2>1. my[r].tags \subseteq TagIds /\ my[r].categories \subseteq CategoryIds
    BY DEF Requested, Holds, StoryPlaces, IsRequest
  <2> QED
    BY <1>2, <2>1 DEF Chosen
<1> HIDE DEF title, fromTime, status, parent, labels, kinds
<1>5. parent \in StoryIds \cup {None}
  <2>1. new.parent = parent
    BY DEF Story
  <2>2. new.parent \in Rows(stories) \cup {None}
    BY <1>1 DEF Refers
  <2> QED
    BY <2>1, <2>2 DEF Rows, TypeOK
<1>6. new \in Story
  <2>1. row.version + 1 \in Nat
    BY DEF Story
  <2> HIDE DEF b, Loaded
  <2> QED
    BY ONLY <1>3, <1>4, <1>5, <2>1, row \in Story DEF Story
<1>7. new.userId = row.userId /\ new.version = row.version + 1 /\ new.status = status
  BY DEF Story
<1> QED
  BY <1>1, <1>6, <1>7 DEF status

LEMMA SaveWrites ==
  ASSUME TypeOK, Requested, NEW r \in Requests, Save(r, {"update", "rollback"}, "record")
  PROVE  Written
<1>1. /\ my[r].id \in Rows(stories) /\ my[r].id \in StoryIds /\ On(r) \in Story
      /\ On(r) = stories[my[r].id]
  BY StoryRow DEF Save, Lock, Live, On
<1>2. PICK dropped \in BOOLEAN : SetStory(my[r].id, Edited(r, On(r), dropped))
  BY DEF Save
<1> DEFINE new == Edited(r, On(r), dropped)
<1>3. new \in Story /\ new.userId = On(r).userId /\ new.version = On(r).version + 1
  BY <1>1, <1>2, EditedRow DEF Save, SetStory
<1>4. On(r).version \in Nat
  BY <1>1 DEF Story
<1> HIDE DEF new
<1>5. Later(stories[my[r].id], new)
  BY <1>1, <1>3, <1>4 DEF Later
<1> QED
  BY <1>1, <1>2, <1>3, <1>5 DEF Written, new

LEMMA SetDeletedWrites ==
  ASSUME TypeOK, Requested, NEW r \in Requests, SetDeleted(r)
  PROVE  Written
<1> DEFINE row == On(r)
<1> DEFINE deleted == my[r].op = "remove"
<1> DEFINE new == [row EXCEPT !.deleted = deleted,
                              !.status = IF deleted THEN "DELETED" ELSE "DRAFT"]
<1>1. /\ my[r].id \in Rows(stories) /\ my[r].id \in StoryIds /\ row \in Story
      /\ row = stories[my[r].id] /\ SetStory(my[r].id, new)
  BY StoryRow DEF SetDeleted, Present, On
<1>2. {"DELETED", "DRAFT"} \subseteq StoryStatus
  BY DEF StoryStatus, AUTHOR_STATUSES
<1> HIDE DEF row
<1>3. /\ new \in Story
      /\ new.userId = row.userId /\ new.version = row.version
      /\ new.status \in {"DELETED", "DRAFT"} /\ new.title = row.title
      /\ new.fromTime = row.fromTime /\ new.files = row.files /\ new.image = row.image
      /\ new.parent = row.parent /\ new.tags = row.tags /\ new.categories = row.categories
  BY <1>1, <1>2 DEF Story
<1>4. row.version \in Nat
  BY <1>1 DEF Story
<1> HIDE DEF new
<1>5. Later(row, new)
  BY <1>3, <1>4 DEF Later, SameVersion
<1> QED
  BY <1>1, <1>3, <1>5 DEF Written

\* A row with one field changed and its version moved on.
LEMMA NextVersionWrites ==
  ASSUME TypeOK, NEW id \in Rows(stories), NEW changed \in Story,
         changed.userId = stories[id].userId, changed.version = stories[id].version,
         SetStory(id, [changed EXCEPT !.version = @ + 1])
  PROVE  Written
<1> DEFINE new == [changed EXCEPT !.version = @ + 1]
<1>1. id \in StoryIds /\ stories[id] \in Story
  BY StoryRow
<1>2. new \in Story /\ new.userId = changed.userId /\ new.version = changed.version + 1
  BY DEF Story
<1>3. changed.version \in Nat
  BY DEF Story
<1> HIDE DEF new
<1>4. Later(stories[id], new)
  BY <1>2, <1>3 DEF Later
<1> QED
  BY <1>1, <1>2, <1>4 DEF Written, new

LEMMA StatusWrites ==
  ASSUME TypeOK, Requested, NEW r \in Requests, WriteStatus(r)
  PROVE  Written
<1> DEFINE changed == [On(r) EXCEPT !.status = my[r].body.status]
<1>1. /\ my[r].id \in Rows(stories) /\ On(r) \in Story /\ On(r) = stories[my[r].id]
      /\ SetStory(my[r].id, [changed EXCEPT !.version = @ + 1])
  BY StoryRow DEF WriteStatus, UpdateIfVersion, Present, On
<1>2. my[r].body.status \in StoryStatus
  BY StoriesAssumption DEF WriteStatus, Requested, Holds, StoryPlaces, BodyOK
<1>3. /\ changed \in Story
      /\ changed.userId = On(r).userId /\ changed.version = On(r).version
  BY <1>1, <1>2 DEF Story
<1> HIDE DEF changed
<1> QED
  BY <1>1, <1>3, NextVersionWrites

LEMMA ImageWrites ==
  ASSUME TypeOK, Requested, NEW r \in Requests, WriteImage(r)
  PROVE  Written
<1> DEFINE changed == [On(r) EXCEPT !.image = my[r].body.file]
<1>1. /\ my[r].id \in Rows(stories) /\ On(r) \in Story /\ On(r) = stories[my[r].id]
      /\ SetStory(my[r].id, [changed EXCEPT !.version = @ + 1])
  BY StoryRow DEF WriteImage, UpdateIfVersion, Present, On
<1>2. my[r].body.file \in Files \cup {None}
  BY DEF WriteImage, Requested, Holds, StoryPlaces, BodyOK
<1>3. /\ changed \in Story
      /\ changed.userId = On(r).userId /\ changed.version = On(r).version
  BY <1>1, <1>2 DEF Story
<1> HIDE DEF changed
<1> QED
  BY <1>1, <1>3, NextVersionWrites

LEMMA LinksWrites ==
  ASSUME TypeOK, Requested, NEW r \in Requests, WriteLinks(r)
  PROVE  Written
<1> DEFINE b == my[r].body
<1> DEFINE row == On(r)
<1> DEFINE attached == [row EXCEPT !.tags = @ \cup my[r].tags,
                                   !.categories = @ \cup my[r].categories,
                                   !.files = @ \cup b.files]
<1> DEFINE detached == [row EXCEPT !.tags = @ \ (b.tagIds \cup TagsNamed(b.names)),
                                   !.categories = @ \ b.categoryIds,
                                   !.files = @ \ b.files]
<1> DEFINE changed == IF b.add THEN attached ELSE detached
<1>1. /\ my[r].id \in Rows(stories) /\ row \in Story /\ row = stories[my[r].id]
      /\ SetStory(my[r].id, Linked(row, changed))
  BY StoryRow DEF WriteLinks, Present, On
<1>2. /\ my[r].tags \subseteq TagIds /\ my[r].categories \subseteq CategoryIds
      /\ b \in LinkChanges
  BY DEF WriteLinks, Requested, Holds, StoryPlaces, BodyOK, IsRequest
<1>3. b.files \subseteq Files
  BY <1>2, StoriesAssumption DEF LinkBody
<1>4. row.tags \subseteq TagIds /\ row.categories \subseteq CategoryIds /\ row.files \subseteq Files
  BY <1>1 DEF Story
<1> HIDE DEF row, b
<1>5. /\ attached \in Story
      /\ attached.userId = row.userId /\ attached.version = row.version
  BY <1>1, <1>2, <1>3, <1>4 DEF Story
<1>6. /\ detached \in Story
      /\ detached.userId = row.userId /\ detached.version = row.version
  BY <1>1, <1>2, <1>3, <1>4 DEF Story
<1> HIDE DEF attached, detached
<1>7. /\ changed \in Story
      /\ changed.userId = row.userId /\ changed.version = row.version
  BY <1>5, <1>6
<1> HIDE DEF changed
<1>8. CASE changed # row
  <2>1. SetStory(my[r].id, [changed EXCEPT !.version = @ + 1])
    BY <1>1, <1>8 DEF Linked
  <2> QED
    BY <1>1, <1>7, <2>1, NextVersionWrites
<1>9. CASE changed = row
  <2>1. SetStory(my[r].id, row)
    BY <1>1, <1>9 DEF Linked
  <2>2. SameVersion(row, row) /\ row.version \in Nat
    BY <1>1 DEF SameVersion, Story
  <2>3. Later(row, row)
    BY <2>2 DEF Later
  <2>4. my[r].id \in StoryIds
    BY <1>1, StoryRow
  <2> QED
    BY <1>1, <2>1, <2>3, <2>4 DEF Written
<1> QED
  BY <1>8, <1>9

-----------------------------------------------------------------------------
(* The rows of the stories and their labels after a step. *)

LabelsOK == /\ tags \in [TagIds -> Tag \cup {None, Gone}]
            /\ categories \in [CategoryIds -> Category \cup {None, Gone}]

StoriesOK == /\ stories \in [StoryIds -> Story \cup {None, Gone}]
             /\ \A id \in Rows(stories) : Refers(stories[id])

CountsOK == public \subseteq Files /\ served \in 0..MaxServed

\* What was a row is one still, or deleted for good, and never another's.
StoriesKept ==
  \A id \in StoryIds : stories[id] # None =>
    /\ stories'[id] # None
    /\ id \in Rows(stories') => id \in Rows(stories) /\ Later(stories[id], stories'[id])

LEMMA LaterSelf ==
  ASSUME NEW row \in Story
  PROVE  Later(row, row)
BY DEF Later, SameVersion, Story

LEMMA SameStoriesKept ==
  ASSUME TypeOK, stories' = stories
  PROVE  StoriesKept
BY LaterSelf DEF StoriesKept, Rows, TypeOK

LEMMA WrittenKeeps ==
  ASSUME TypeOK, Written
  PROVE  /\ StoriesOK' /\ StoriesKept /\ Rows(stories) \subseteq Rows(stories')
         /\ UNCHANGED <<tags, categories, public, served>>
<1>1. PICK id \in StoryIds, row \in Story :
        /\ SetStory(id, row)
        /\ stories[id] = None \/ (id \in Rows(stories) /\ Later(stories[id], row))
  BY DEF Written
<1>2. /\ Refers(row) /\ stories' = [stories EXCEPT ![id] = row]
      /\ UNCHANGED <<tags, categories, public, served>>
  BY <1>1 DEF SetStory
<1>3. row \notin {None, Gone} /\ stories \in [StoryIds -> Story \cup {None, Gone}]
  BY StoriesAssumption DEF TypeOK
<1>4. stories' \in [StoryIds -> Story \cup {None, Gone}]
  BY <1>2, <1>3
<1>5. Rows(stories') = Rows(stories) \cup {id}
  BY <1>2, <1>3 DEF Rows
<1>6. \A i \in Rows(stories') : Refers(stories'[i])
  BY <1>2, <1>3, <1>5 DEF TypeOK, Rows
<1>7. StoriesOK'
  <2>1. ASSUME NEW i \in Rows(stories') PROVE Refers(stories[i])'
    <3>1. Refers(stories'[i])
      BY <1>6
    <3> QED
      BY <1>2, <1>5, <3>1 DEF Refers
  <2> QED
    BY <1>4, <2>1 DEF StoriesOK
<1>8. StoriesKept
  <2> SUFFICES ASSUME NEW i \in StoryIds, stories[i] # None
               PROVE  /\ stories'[i] # None
                      /\ i \in Rows(stories') =>
                           i \in Rows(stories) /\ Later(stories[i], stories'[i])
    BY DEF StoriesKept
  <2>1. CASE i = id
    BY <1>1, <1>2, <1>3, <2>1
  <2>2. CASE i # id
    <3>1. stories'[i] = stories[i] /\ (i \in Rows(stories') => i \in Rows(stories))
      BY <1>2, <1>3, <1>5, <2>2
    <3>2. i \in Rows(stories) => stories[i] \in Story
      BY StoryRow
    <3> QED
      BY <3>1, <3>2, LaterSelf
  <2> QED
    BY <2>1, <2>2
<1> QED
  BY <1>2, <1>5, <1>7, <1>8

\* Tags that are missing are made, where there was no row.
LEMMA LabelsMade ==
  ASSUME TypeOK, Requested, NEW r \in Requests, ResolveLabels(r)
  PROVE  LabelsOK' /\ StoriesOK'
<1> DEFINE body == my[r].body
<1> DEFINE missing == body.names \ {tags[t].name : t \in LiveTags}
<1> DEFINE unused == TagIds \ {t \in TagIds : tags[t] # None}
<1>1. body.names \subseteq Names
  <2>1. PlaceOK("labels", my[r]) /\ BodyOK(my[r])
    BY DEF ResolveLabels, Requested, Holds, StoryPlaces
  <2>2. my[r].op \in {"create", "update", "links"}
    BY <2>1 DEF PlaceOK
  <2>3. body \in StoryBody \/ body \in LinkBody
    <3>1. body \in NewStories \/ body \in Edits \/ body \in LinkChanges
      BY <2>1, <2>2 DEF BodyOK
    <3>2. /\ NewStories \subseteq StoryBody /\ Edits \subseteq StoryBody
          /\ LinkChanges \subseteq LinkBody
      BY StoriesAssumption
    <3> HIDE DEF body
    <3> QED
      BY <3>1, <3>2
  <2> HIDE DEF body
  <2> QED
    BY <2>3 DEF StoryBody, LinkBody
<1>2. /\ UNCHANGED <<stories, categories>>
      /\ tags' \in [TagIds -> Tag \cup {None, Gone}]
      /\ \A t \in TagIds : tags[t] # None => tags'[t] = tags[t]
  <2>1. PICK made \in [missing -> unused] :
          LET new == {made[n] : n \in missing}
              NameOf(t) == CHOOSE n \in missing : made[n] = t
          IN  tags' = [t \in TagIds |->
                         IF t \in new THEN [name |-> NameOf(t), isSystem |-> FALSE,
                                            deleted |-> FALSE]
                         ELSE tags[t]]
    BY DEF ResolveLabels
  <2> DEFINE new == {made[n] : n \in missing}
  <2> DEFINE NameOf(t) == CHOOSE n \in missing : made[n] = t
  <2>2. ASSUME NEW t \in new PROVE NameOf(t) \in Names
    BY <1>1
  <2>3. new \subseteq unused
    OBVIOUS
  <2> HIDE DEF new, NameOf
  <2>4. tags' = [t \in TagIds |->
                   IF t \in new THEN [name |-> NameOf(t), isSystem |-> FALSE,
                                      deleted |-> FALSE]
                   ELSE tags[t]]
    BY <2>1 DEF new, NameOf
  <2>5. ASSUME NEW t \in TagIds PROVE tags'[t] \in Tag \cup {None, Gone}
    <3>1. CASE t \in new
      BY <2>2, <2>4, <3>1 DEF Tag
    <3>2. CASE t \notin new
      BY <2>4, <3>2 DEF TypeOK
    <3> QED
      BY <3>1, <3>2
  <2>6. UNCHANGED <<stories, categories>>
    BY DEF ResolveLabels
  <2> QED
    BY <2>3, <2>4, <2>5, <2>6
<1>3. Rows(tags) \subseteq Rows(tags')
  BY <1>2 DEF Rows, TypeOK
<1> QED
  BY <1>2, <1>3 DEF LabelsOK, StoriesOK, Refers, TypeOK

\* What a request's step leaves of the tables of stories and labels.
TablesStep ==
  /\ LabelsOK' /\ StoriesOK' /\ CountsOK'
  /\ StoriesKept /\ Rows(stories) \subseteq Rows(stories')

LEMMA SameTables ==
  ASSUME TypeOK, UNCHANGED <<tags, categories, stories>>, CountsOK'
  PROVE  TablesStep
<1>1. LabelsOK' /\ StoriesOK'
  BY DEF TypeOK, LabelsOK, StoriesOK, Refers
<1> QED
  BY <1>1, SameStoriesKept DEF TablesStep

LEMMA StartTables ==
  ASSUME TypeOK, NEW r, NEW request, NEW place, Start(r, request, place)
  PROVE  TablesStep
<1>1. UNCHANGED <<tags, categories, stories, public>> /\ served < MaxServed /\ served' = served + 1
  BY DEF Start, MayStart
<1>2. CountsOK'
  BY <1>1, StoriesAssumption DEF TypeOK, CountsOK
<1> QED
  BY <1>1, <1>2, SameTables

LEMMA StoryStepTables ==
  ASSUME TypeOK, Requested, NEW r \in Requests, StoryStep(r)
  PROVE  TablesStep /\ UNCHANGED <<versions, prune>>
<1>. SUFFICES TablesStep
  BY DEF StoryStep
<1>1. CASE \E request, place : Start(r, request, place)
  BY <1>1, StartTables
<1>2. CASE CheckParent(r) \/ End(r)
  <2>1. UNCHANGED <<tags, categories, stories, public, served>>
    BY <1>2 DEF CheckParent, End
  <2> QED
    BY <2>1, SameTables DEF TypeOK, CountsOK
<1>3. CASE ResolveLabels(r)
  <2>1. LabelsOK' /\ StoriesOK'
    BY <1>3, LabelsMade
  <2>2. UNCHANGED <<stories, public, served>>
    BY <1>3 DEF ResolveLabels
  <2> QED
    BY <2>1, <2>2, SameStoriesKept DEF TablesStep, TypeOK, CountsOK
<1>4. CASE \/ Insert(r) \/ Save(r, {"update", "rollback"}, "record") \/ SetDeleted(r)
           \/ WriteStatus(r) \/ WriteLinks(r) \/ WriteImage(r)
  <2>1. Written
    BY <1>4, InsertWrites, SaveWrites, SetDeletedWrites, StatusWrites, LinksWrites, ImageWrites
  <2>2. LabelsOK' /\ CountsOK'
    BY <2>1, WrittenKeeps DEF TypeOK, LabelsOK, CountsOK
  <2> QED
    BY <2>1, <2>2, WrittenKeeps DEF TablesStep
<1>5. CASE PublishImage(r)
  <2>1. my[r].body.file \in Files
    BY <1>5 DEF PublishImage, Requested, Holds, StoryPlaces, PlaceOK
  <2>2. CountsOK' /\ UNCHANGED <<tags, categories, stories>>
    BY <1>5, <2>1 DEF PublishImage, TypeOK, CountsOK
  <2> QED
    BY <2>2, SameTables
<1> QED
  BY <1>1, <1>2, <1>3, <1>4, <1>5
     DEF StoryStep, Create, Edit, Remove, Restore, SetStatus, ChangeLinks, SetImage

LEMMA VersionStepTables ==
  ASSUME TypeOK, Requested, NEW r \in Requests, VersionStep(r)
  PROVE  TablesStep /\ prune' = prune
<1>1. CASE \E request, place : Start(r, request, place) /\ UNCHANGED <<versions, prune>>
  BY <1>1, StartTables
<1>2. CASE UNCHANGED <<Others, served, prune>>
  <2>1. UNCHANGED <<tags, categories, stories, public, served, prune>>
    BY <1>2 DEF Others
  <2> QED
    BY <2>1, SameTables DEF TypeOK, CountsOK
<1>3. ASSUME NEW u \in Users, NEW id \in StoryIds,
             \/ \E body \in Snapshots : CreateVersion(r, u, id, body)
             \/ \E c \in Rollbacks : Rollback(r, u, id, c.number, c.branch)
             \/ \E c \in NewBranches : CreateBranch(r, u, id, c.branch, c.number)
             \/ \E c \in Merges : Merge(r, u, id, c)
             \/ \E n \in NumbersTagged, t \in VersionTags : TagVersion(r, u, id, n, t)
      PROVE  \E request, place : Start(r, request, place) /\ UNCHANGED <<versions, prune>>
  BY <1>3 DEF CreateVersion, Rollback, CreateBranch, Merge, TagVersion, StartVersion, Edit
<1>4. CASE ReadBack(r) \/ RecordRollback(r) \/ CompareWithLatest(r) \/ InsertVersion(r)
             \/ WriteTag(r)
  <2>1. UNCHANGED <<Others, served, prune>>
    BY <1>4 DEF ReadBack, RecordRollback, CompareWithLatest, InsertVersion, WriteTag
  <2> QED
    BY <1>2, <2>1
<1> QED
  BY <1>1, <1>3, <1>4 DEF VersionStep

-----------------------------------------------------------------------------
(* Deletions for good, and the labels' own routes.                          *)

LEMMA HardDeleteTables ==
  ASSUME TypeOK, NEW u, NEW id \in StoryIds, HardDelete(u, id)
  PROVE  /\ LabelsOK' /\ StoriesOK' /\ CountsOK' /\ StoriesKept
         /\ Rows(stories') = Rows(stories) \ {id}
         /\ \A i \in Rows(stories') : stories'[i].status = stories[i].status
<1>1. /\ UNCHANGED <<public, tags, categories>> /\ served < MaxServed /\ served' = served + 1
      /\ stories' = [i \in StoryIds |->
                       IF i = id THEN Gone
                       ELSE IF i \in Rows(stories) /\ stories[i].parent = id
                       THEN [stories[i] EXCEPT !.parent = None] ELSE stories[i]]
  BY DEF HardDelete
<1>2. LabelsOK' /\ CountsOK'
  BY <1>1, StoriesAssumption DEF LabelsOK, CountsOK, TypeOK
<1>3. ASSUME NEW i \in Rows(stories) \ {id}
      PROVE  /\ stories'[i] \in Story /\ Later(stories[i], stories'[i])
             /\ stories'[i].status = stories[i].status
             /\ stories'[i].parent = (IF stories[i].parent = id THEN None ELSE stories[i].parent)
             /\ stories'[i].tags = stories[i].tags
             /\ stories'[i].categories = stories[i].categories
  <2>1. i \in StoryIds /\ stories[i] \in Story
    BY StoryRow
  <2>2. CASE stories[i].parent = id
    <3> DEFINE new == [stories[i] EXCEPT !.parent = None]
    <3>1. stories'[i] = new
      BY <1>1, <1>3, <2>1, <2>2
    <3>2. /\ new \in Story /\ new.parent = None /\ new.userId = stories[i].userId
          /\ new.version = stories[i].version /\ new.title = stories[i].title
          /\ new.fromTime = stories[i].fromTime /\ new.files = stories[i].files
          /\ new.image = stories[i].image /\ new.tags = stories[i].tags
          /\ new.categories = stories[i].categories /\ new.status = stories[i].status
          /\ stories[i].version \in Nat
      BY <2>1 DEF Story
    <3> HIDE DEF new
    <3> QED
      BY <2>2, <3>1, <3>2 DEF Later, SameVersion
  <2>3. CASE stories[i].parent # id
    BY <1>1, <1>3, <2>1, <2>3, LaterSelf
  <2> QED
    BY <2>2, <2>3
<1>4. \A i \in StoryIds \ Rows(stories) : stories'[i] \in {stories[i], Gone}
  BY <1>1
<1>5. stories'[id] = Gone /\ DOMAIN stories' = StoryIds /\ DOMAIN stories = StoryIds
  BY <1>1 DEF TypeOK
<1>6. None \notin Story /\ Gone \notin Story
  BY StoriesAssumption
<1>7. \A i \in StoryIds \ Rows(stories) : stories[i] \in {None, Gone}
  BY <1>5 DEF Rows
<1>8. stories' \in [StoryIds -> Story \cup {None, Gone}]
  <2>1. stories' = [i \in StoryIds |-> stories'[i]]
    BY <1>1
  <2>2. \A i \in StoryIds : stories'[i] \in Story \cup {None, Gone}
    BY <1>3, <1>4, <1>5, <1>7
  <2> QED
    BY <2>1, <2>2
<1>9. Rows(stories') = Rows(stories) \ {id}
  <2>1. \A i \in Rows(stories) \ {id} : i \in Rows(stories')
    BY <1>3, <1>5, <1>6 DEF Rows
  <2>2. \A i \in Rows(stories') : i \in Rows(stories) \ {id}
    BY <1>4, <1>5, <1>7 DEF Rows
  <2> QED
    BY <2>1, <2>2
<1>10. StoriesOK'
  <2>1. ASSUME NEW i \in Rows(stories') PROVE Refers(stories[i])'
    <3>1. i \in Rows(stories) \ {id} /\ Refers(stories[i])
      BY <1>9, <2>1 DEF TypeOK
    <3>2. Rows(stories)' = Rows(stories) \ {id} /\ UNCHANGED <<Rows(tags), Rows(categories)>>
      BY <1>1, <1>9
    <3>3. stories'[i].parent \in Rows(stories)' \cup {None}
      BY <1>3, <3>1, <3>2 DEF Refers
    <3> QED
      BY <1>3, <3>1, <3>2, <3>3 DEF Refers
  <2> QED
    BY <1>8, <2>1 DEF StoriesOK
<1>11. StoriesKept
  <2> SUFFICES ASSUME NEW i \in StoryIds, stories[i] # None
               PROVE  /\ stories'[i] # None
                      /\ i \in Rows(stories') =>
                           i \in Rows(stories) /\ Later(stories[i], stories'[i])
    BY DEF StoriesKept
  <2> QED
    BY <1>3, <1>4, <1>5, <1>6, <1>7, <1>9, StoriesAssumption
<1> QED
  BY <1>2, <1>3, <1>9, <1>10, <1>11

LabelsKept == /\ \A t \in Rows(tags) : tags'[t] # None
              /\ \A c \in Rows(categories) : categories'[c] # None

LEMMA TagWritten ==
  ASSUME TypeOK, NEW t \in TagIds, NEW row \in Tag \cup {Gone}, SetTag(t, row)
  PROVE  LabelsOK' /\ LabelsKept
<1>1. row # None
  BY StoriesAssumption
<1>2. tags' = [tags EXCEPT ![t] = row] /\ categories' = categories
  BY DEF SetTag
<1>3. LabelsOK'
  BY <1>2 DEF LabelsOK, TypeOK
<1> QED
  BY <1>1, <1>2, <1>3 DEF LabelsKept, Rows, TypeOK

LEMMA CategoryWritten ==
  ASSUME TypeOK, NEW c \in CategoryIds, NEW row \in Category \cup {Gone}, SetCategory(c, row)
  PROVE  LabelsOK' /\ LabelsKept
<1>1. row # None
  BY StoriesAssumption
<1>2. categories' = [categories EXCEPT ![c] = row] /\ tags' = tags
  BY DEF SetCategory
<1>3. LabelsOK'
  BY <1>2 DEF LabelsOK, TypeOK
<1> QED
  BY <1>1, <1>2, <1>3 DEF LabelsKept, Rows, TypeOK

LEMMA TagRow ==
  ASSUME TypeOK, NEW t \in Rows(tags)
  PROVE  t \in TagIds /\ tags[t] \in Tag
BY DEF TypeOK, Rows

LEMMA CategoryRow ==
  ASSUME TypeOK, NEW c \in Rows(categories)
  PROVE  c \in CategoryIds /\ categories[c] \in Category
BY DEF TypeOK, Rows

LEMMA ChangeTagsKeeps ==
  ASSUME TypeOK, NEW u, ChangeTags(u)
  PROVE  LabelsOK' /\ LabelsKept
<1>1. ASSUME NEW n \in Names, NEW s \in BOOLEAN, NEW m, CreateTag(n, s, m)
      PROVE  LabelsOK' /\ LabelsKept
  <2>1. [name |-> n, isSystem |-> s, deleted |-> FALSE] \in Tag
    BY DEF Tag
  <2> QED
    BY <1>1, <2>1, TagWritten DEF CreateTag
<1>2. ASSUME NEW t \in TagIds, NEW n \in Names, NEW s \in BOOLEAN, NEW m, UpdateTag(t, n, s, m)
      PROVE  LabelsOK' /\ LabelsKept
  <2>1. tags[t] \in Tag
    BY <1>2, TagRow DEF UpdateTag, LiveTags
  <2>2. [tags[t] EXCEPT !.name = n, !.isSystem = s] \in Tag
    BY <2>1 DEF Tag
  <2> QED
    BY <1>2, <2>2, TagWritten DEF UpdateTag
<1>3. ASSUME NEW t \in TagIds, NEW m, RemoveTag(t, m)
      PROVE  LabelsOK' /\ LabelsKept
  <2>1. tags[t] \in Tag
    BY <1>3, TagRow DEF RemoveTag, LiveTags
  <2>2. [tags[t] EXCEPT !.deleted = TRUE] \in Tag
    BY <2>1 DEF Tag
  <2> QED
    BY <1>3, <2>2, TagWritten DEF RemoveTag
<1>4. ASSUME NEW t \in TagIds, NEW m, HardDeleteTag(t, m)
      PROVE  LabelsOK' /\ LabelsKept
  BY <1>4, TagWritten DEF HardDeleteTag
<1> QED
  BY <1>1, <1>2, <1>3, <1>4 DEF ChangeTags

LEMMA ChangeCategoriesKeeps ==
  ASSUME TypeOK, NEW u, ChangeCategories(u)
  PROVE  LabelsOK' /\ LabelsKept
<1>1. ASSUME NEW n \in Names, CreateCategory(n) PROVE LabelsOK' /\ LabelsKept
  <2>1. [slug |-> n, isActive |-> TRUE, deleted |-> FALSE] \in Category
    BY DEF Category
  <2> QED
    BY <1>1, <2>1, CategoryWritten DEF CreateCategory
<1>2. ASSUME NEW c \in CategoryIds, NEW n \in Names, NEW a \in BOOLEAN, UpdateCategory(c, n, a)
      PROVE  LabelsOK' /\ LabelsKept
  <2>1. categories[c] \in Category
    BY <1>2, CategoryRow DEF UpdateCategory, LiveCategories
  <2>2. [categories[c] EXCEPT !.slug = n, !.isActive = a] \in Category
    BY <2>1 DEF Category
  <2> QED
    BY <1>2, <2>2, CategoryWritten DEF UpdateCategory
<1>3. ASSUME NEW c \in CategoryIds, RemoveCategory(c) \/ RestoreCategory(c)
      PROVE  LabelsOK' /\ LabelsKept
  <2>1. categories[c] \in Category
    BY <1>3, CategoryRow DEF RemoveCategory, RestoreCategory, LiveCategories
  <2>2. /\ [categories[c] EXCEPT !.deleted = TRUE] \in Category
        /\ [categories[c] EXCEPT !.deleted = FALSE] \in Category
    BY <2>1 DEF Category
  <2> QED
    BY <1>3, <2>2, CategoryWritten DEF RemoveCategory, RestoreCategory
<1>4. ASSUME NEW c \in CategoryIds, HardDeleteCategory(c) PROVE LabelsOK' /\ LabelsKept
  BY <1>4, CategoryWritten DEF HardDeleteCategory
<1> QED
  BY <1>1, <1>2, <1>3, <1>4 DEF ChangeCategories

LEMMA ChangeLabelsTables ==
  ASSUME TypeOK, NEW u, ChangeLabels(u)
  PROVE  /\ TablesStep /\ Rows(stories') = Rows(stories)
         /\ \A i \in Rows(stories') : stories'[i].status = stories[i].status
<1>1. LabelsOK' /\ LabelsKept
  BY ChangeTagsKeeps, ChangeCategoriesKeeps DEF ChangeLabels
<1>2. /\ public' = public /\ served < MaxServed /\ served' = served + 1
      /\ stories' = [i \in StoryIds |->
           IF i \in Rows(stories)
           THEN [stories[i] EXCEPT !.tags = {t \in @ : tags'[t] # Gone},
                                   !.categories = {c \in @ : categories'[c] # Gone}]
           ELSE stories[i]]
  BY DEF ChangeLabels, Unlinked
<1>3. CountsOK'
  <2>1. public' = public /\ served < MaxServed /\ served' = served + 1
    BY <1>2
  <2> QED
    BY ONLY TypeOK, <2>1, StoriesAssumption DEF CountsOK, TypeOK
<1>4. ASSUME NEW i \in Rows(stories)
      PROVE  /\ stories'[i] \in Story /\ Later(stories[i], stories'[i])
             /\ stories'[i].status = stories[i].status
             /\ stories'[i].parent = stories[i].parent
             /\ stories'[i].tags = {t \in stories[i].tags : tags'[t] # Gone}
             /\ stories'[i].categories = {c \in stories[i].categories : categories'[c] # Gone}
  <2> DEFINE ts == {t \in stories[i].tags : tags'[t] # Gone}
  <2> DEFINE cs == {c \in stories[i].categories : categories'[c] # Gone}
  <2> DEFINE new == [stories[i] EXCEPT !.tags = ts, !.categories = cs]
  <2>1. i \in StoryIds /\ stories[i] \in Story
    BY StoryRow
  <2>2. stories'[i] = new
    BY <1>2, <2>1
  <2>3. ts \subseteq stories[i].tags /\ cs \subseteq stories[i].categories
    OBVIOUS
  <2>4. /\ stories[i].tags \subseteq TagIds /\ stories[i].categories \subseteq CategoryIds
        /\ stories[i].version \in Nat
    BY <2>1 DEF Story
  <2> HIDE DEF ts, cs
  <2>5. /\ new \in Story /\ new.parent = stories[i].parent /\ new.userId = stories[i].userId
        /\ new.version = stories[i].version /\ new.title = stories[i].title
        /\ new.fromTime = stories[i].fromTime /\ new.files = stories[i].files
        /\ new.image = stories[i].image /\ new.tags = ts
        /\ new.categories = cs /\ new.status = stories[i].status
    BY <2>1, <2>3, <2>4 DEF Story
  <2> HIDE DEF new
  <2> QED
    BY <2>2, <2>3, <2>4, <2>5 DEF Later, SameVersion, ts, cs
<1>5. /\ stories' = [i \in StoryIds |-> stories'[i]]
      /\ \A i \in StoryIds \ Rows(stories) : stories'[i] = stories[i] /\ stories[i] \in {None, Gone}
  BY <1>2 DEF Rows, TypeOK
<1>6. None \notin Story /\ Gone \notin Story
  BY StoriesAssumption
<1>7. stories' \in [StoryIds -> Story \cup {None, Gone}]
  <2>1. \A i \in StoryIds : stories'[i] \in Story \cup {None, Gone}
    BY <1>4, <1>5
  <2> QED
    BY <1>5, <2>1
<1>8. Rows(stories') = Rows(stories)
  <2>1. \A i \in Rows(stories) : i \in Rows(stories')
    BY <1>4, <1>6, <1>7, StoryRow DEF Rows
  <2>2. \A i \in Rows(stories') : i \in Rows(stories)
    BY <1>5, <1>7 DEF Rows
  <2> QED
    BY <2>1, <2>2
<1>9. ASSUME NEW i \in Rows(stories') PROVE Refers(stories[i])'
  <2>1. i \in Rows(stories) /\ Refers(stories[i])
    BY <1>8, <1>9 DEF TypeOK
  <2>2. stories[i].tags \subseteq Rows(tags) /\ stories[i].categories \subseteq Rows(categories)
    BY <2>1 DEF Refers
  <2>3. \A t \in Rows(tags) : tags'[t] # Gone => t \in Rows(tags')
    BY <1>1 DEF LabelsKept, LabelsOK, Rows, TypeOK
  <2>4. \A c \in Rows(categories) : categories'[c] # Gone => c \in Rows(categories')
    BY <1>1 DEF LabelsKept, LabelsOK, Rows, TypeOK
  <2>5. /\ stories'[i].parent \in Rows(stories') \cup {None}
        /\ stories'[i].tags \subseteq Rows(tags')
        /\ stories'[i].categories \subseteq Rows(categories')
    BY <1>4, <1>8, <2>1, <2>2, <2>3, <2>4 DEF Refers
  <2> QED
    BY <2>5 DEF Refers
<1>10. StoriesOK'
  BY <1>7, <1>9 DEF StoriesOK
<1>11. StoriesKept
  <2> SUFFICES ASSUME NEW i \in StoryIds, stories[i] # None
               PROVE  /\ stories'[i] # None
                      /\ i \in Rows(stories') =>
                           i \in Rows(stories) /\ Later(stories[i], stories'[i])
    BY DEF StoriesKept
  <2> QED
    BY <1>4, <1>5, <1>6, <1>8
<1> QED
  BY <1>1, <1>3, <1>4, <1>8, <1>10, <1>11 DEF TablesStep

-----------------------------------------------------------------------------
(* The history after a step. *)

\* What is numbered next has a higher number than what the story has.
LEMMA NextIsHigher ==
  ASSUME TypeOK, NEW id
  PROVE  NextNumber(id) \in Nat /\ \A v \in Of(id) : versions[v].number < NextNumber(id)
<1> DEFINE T == {versions[v].number : v \in Of(id)}
<1>1. Of(id) \subseteq VersionIds /\ \A v \in Of(id) : versions[v].number \in Nat
  BY OfRow, RowFields DEF TypeOK
<1>2. IsFiniteSet(Of(id))
  BY <1>1, FS_Subset, StoriesAssumption
<1>3. IsFiniteSet(T)
  <2> DEFINE f == [v \in Of(id) |-> versions[v].number]
  <2>1. f \in Surjection(Of(id), T)
    BY DEF Surjection
  <2> HIDE DEF f, T
  <2> QED
    BY <1>2, <2>1, FS_Surjection
<1>4. IsFiniteSet(T \cup {0}) /\ T \cup {0} \subseteq Nat /\ T \cup {0} # {}
  <2>1. T \subseteq Nat
    BY <1>1
  <2> HIDE DEF T
  <2> QED
    BY <1>3, <2>1, FS_AddElement
<1>5. {0} \cup T = T \cup {0}
  OBVIOUS
<1>6. Max({0} \cup T) \in T \cup {0} /\ \A n \in T : Max({0} \cup T) >= n
  <2> HIDE DEF T
  <2> QED
    BY <1>4, <1>5, MaxOfFinite
<1> DEFINE m == Max({0} \cup T)
<1>7. NextNumber(id) = 1 + m
  BY DEF NextNumber
<1>8. m \in Nat
  <2> HIDE DEF T
  <2> QED
    BY <1>4, <1>6
<1>9. \A v \in Of(id) : m >= versions[v].number
  BY <1>6
<1> HIDE DEF m, T
<1> QED
  BY <1>1, <1>7, <1>8, <1>9

\* A row that is made from rows of its story, and newer than all of them.
Continues(row, table) ==
  /\ \A p \in {row.parent, row.mergedFrom} \ {None} :
       p \in Rows(table) /\ table[p].story = row.story
  /\ \A w \in Rows(table) : table[w].story = row.story => table[w].number < row.number

LEMMA InsertedHistory ==
  ASSUME NEW table, History(table), NEW v \in VersionIds, table[v] = None,
         NEW row \in StoryVersion, Continues(row, table),
         NEW after \in [VersionIds -> StoryVersion \cup {None, Gone}],
         after[v] = row, \A w \in VersionIds \ {v} : after[w] = table[w]
  PROVE  /\ History(after) /\ v \notin Rows(table) /\ Rows(after) = Rows(table) \cup {v}
         /\ \A w \in Rows(table) : after[w] = table[w]
<1>1. table \in [VersionIds -> StoryVersion \cup {None, Gone}]
  BY DEF History
<1>2. row \notin {None, Gone}
  BY StoriesAssumption
<1>3. v \notin Rows(table) /\ Rows(after) = Rows(table) \cup {v}
  BY <1>1, <1>2 DEF Rows
<1>4. after[v] = row /\ \A w \in Rows(table) : after[w] = table[w]
  BY <1>1, <1>3 DEF Rows
<1>5. MadeWithinStory(after)
  BY <1>3, <1>4 DEF MadeWithinStory, History, Continues
<1>6. ASSUME NEW w \in Rows(table) PROVE table[w].parent # v /\ table[w].number \in Nat
  <2>1. v # None
    BY StoriesAssumption
  <2>2. table[w].parent # None => table[w].parent \in Rows(table)
    BY ParentIsRow
  <2> QED
    BY <1>1, <1>3, <2>1, <2>2, RowFields
<1>7. row.number \in Nat /\ v # None /\ row.parent # v
  BY <1>3, StoriesAssumption DEF StoryVersion, Continues
<1>8. InOrder(after)
  <2> SUFFICES ASSUME NEW x \in Rows(after), NEW w \in Rows(after)
               PROVE  /\ x # w /\ after[x].story = after[w].story
                           => after[x].number # after[w].number
                      /\ after[w].parent = x => after[x].number < after[w].number
    BY DEF InOrder
  <2>1. CASE x # v /\ w # v
    BY <1>3, <1>4, <2>1 DEF History, InOrder
  <2>2. CASE x = v /\ w # v
    BY <1>3, <1>4, <1>6, <1>7, <2>2 DEF Continues
  <2>3. CASE x # v /\ w = v
    <3>1. x \in Rows(table) /\ after[x] = table[x] /\ after[w] = row
      BY <1>3, <1>4, <2>3
    <3>2. row.parent = x => table[x].story = row.story
      BY <3>1, RowFields, <1>1 DEF Continues
    <3> QED
      BY <1>6, <1>7, <3>1, <3>2 DEF Continues
  <2>4. CASE x = v /\ w = v
    BY <1>4, <1>7, <2>4
  <2> QED
    BY <2>1, <2>2, <2>3, <2>4
<1> QED
  BY <1>3, <1>4, <1>5, <1>8 DEF History

\* Rows with the same links are a history as they were.
LEMMA SameHistory ==
  ASSUME NEW table, History(table),
         NEW after \in [VersionIds -> StoryVersion \cup {None, Gone}],
         Rows(after) \subseteq Rows(table),
         \A v \in Rows(after) : /\ after[v].story = table[v].story
                                /\ after[v].number = table[v].number
                                /\ after[v].parent = table[v].parent
                                /\ after[v].mergedFrom = table[v].mergedFrom,
         \A v \in Rows(after) : \A p \in {table[v].parent, table[v].mergedFrom} \ {None} :
           p \in Rows(after)
  PROVE  History(after)
<1>1. MadeWithinStory(after)
  BY DEF History, MadeWithinStory
<1>2. InOrder(after)
  BY DEF History, InOrder
<1> QED
  BY <1>1, <1>2 DEF History

LEMMA PrunedHistory ==
  ASSUME NEW table, History(table), NEW doomed, NEW repointed,
         RepointedIn(table, doomed, repointed)
  PROVE  History(Pruned(table, doomed, repointed))
<1> DEFINE after == Pruned(table, doomed, repointed)
<1>1. /\ after \in [VersionIds -> StoryVersion \cup {None, Gone}]
      /\ Rows(after) = Rows(table) \ doomed
      /\ \A v \in Rows(after) :
           /\ after[v].story = table[v].story /\ after[v].number = table[v].number
           /\ after[v].mergedFrom = Orphaned(table[v].mergedFrom, doomed)
           /\ after[v].parent =
                Orphaned(IF v \in DOMAIN repointed THEN repointed[v]
                                                   ELSE table[v].parent, doomed)
  BY PrunedRows
<1> HIDE DEF after
<1>2. ASSUME NEW v \in Rows(after), after[v].parent # None
      PROVE  /\ after[v].parent \in Rows(after)
             /\ after[after[v].parent].story = after[v].story
             /\ after[after[v].parent].number < after[v].number
  <2>1. v \in Rows(table)
    BY <1>1
  <2>2. CASE v \in DOMAIN repointed
    <3>1. after[v].parent = repointed[v]
      BY <1>1, <1>2, <2>2 DEF Orphaned
    <3>2. /\ repointed[v] \in Rows(table) \ doomed
          /\ table[repointed[v]].story = table[v].story
          /\ table[repointed[v]].number < table[v].number
      BY <1>2, <2>1, <2>2, <3>1, RepointedType
    <3> QED
      BY <1>1, <3>1, <3>2
  <2>3. CASE v \notin DOMAIN repointed
    <3>1. after[v].parent = table[v].parent /\ table[v].parent \notin doomed
      BY <1>1, <1>2, <2>3 DEF Orphaned
    <3>2. /\ table[v].parent \in Rows(table)
          /\ table[table[v].parent].story = table[v].story
          /\ table[table[v].parent].number < table[v].number
      BY <1>2, <2>1, <3>1, ParentIsRow
    <3> QED
      BY <1>1, <3>1, <3>2
  <2> QED
    BY <2>2, <2>3
<1>3. ASSUME NEW v \in Rows(after), after[v].mergedFrom # None
      PROVE  /\ after[v].mergedFrom \in Rows(after)
             /\ after[after[v].mergedFrom].story = after[v].story
  <2>1. v \in Rows(table) /\ after[v].mergedFrom = table[v].mergedFrom
        /\ table[v].mergedFrom \notin doomed
    BY <1>1, <1>3 DEF Orphaned
  <2>2. /\ table[v].mergedFrom \in Rows(table)
        /\ table[table[v].mergedFrom].story = table[v].story
    BY <1>3, <2>1 DEF History, MadeWithinStory
  <2> QED
    BY <1>1, <2>1, <2>2
<1>4. MadeWithinStory(after)
  BY <1>2, <1>3 DEF MadeWithinStory
<1>5. InOrder(after)
  <2>1. ASSUME NEW v \in Rows(after), NEW w \in Rows(after), v # w,
               after[v].story = after[w].story
        PROVE  after[v].number # after[w].number
    BY <1>1, <2>1 DEF History, InOrder
  <2>2. ASSUME NEW v \in Rows(after), NEW w \in Rows(after), after[w].parent = v
        PROVE  after[v].number < after[w].number
    <3>1. v # None
      <4>1. None \notin VersionIds /\ DOMAIN after = VersionIds
        BY <1>1, StoriesAssumption
      <4> QED
        BY <4>1 DEF Rows
    <3> QED
      BY <1>2, <2>2, <3>1
  <2> QED
    BY <2>1, <2>2 DEF InOrder
<1> QED
  BY <1>1, <1>4, <1>5 DEF History, after

\* The nearest kept one stays, where its chain does.
LEMMA NearestKept ==
  ASSUME NEW table, History(table), NEW after, DOMAIN after = VersionIds,
         NEW p \in Rows(table), NEW doomed,
         \A x \in Chain(table, p) :
           /\ x \in Rows(after) /\ after[x].parent = table[x].parent
           /\ table[x].parent \in Rows(table) <=> table[x].parent \in Rows(after)
  PROVE  Nearest(after, p, doomed) = Nearest(table, p, doomed)
<1>1. p \in Chain(table, p) /\ Chain(table, p) \subseteq Rows(table)
  BY ChainClosed DEF History
<1>2. ASSUME NEW a \in Chain(table, p) PROVE Chain(after, a) = Chain(table, a)
  <2>1. Chain(table, a) \subseteq Chain(table, p)
    BY ChainInChain
  <2>2. a \in Rows(table) /\ a \in Rows(after)
    BY <1>1
  <2>3. \A x \in Chain(table, a) \cap Rows(after) :
          /\ after[x].parent = table[x].parent
          /\ table[x].parent \in Rows(table) <=> table[x].parent \in Rows(after)
    BY <2>1
  <2> QED
    BY <2>2, <2>3, ChainKept
<1> DEFINE kept == Chain(table, p) \ doomed
<1>3. Chain(after, p) \ doomed = kept
  BY <1>1, <1>2
<1>4. {a \in kept : \A b \in kept : b \in Chain(after, a)}
        = {a \in kept : \A b \in kept : b \in Chain(table, a)}
  BY <1>2
<1> HIDE DEF kept
<1>5. Nearest(after, p, doomed) = Only({a \in kept : \A b \in kept : b \in Chain(after, a)})
  BY <1>3 DEF Nearest
<1>6. Nearest(table, p, doomed) = Only({a \in kept : \A b \in kept : b \in Chain(table, a)})
  BY DEF Nearest, kept
<1> QED
  BY <1>4, <1>5, <1>6

\* What was a version is one still, of its story, or gone.
VersionsKept ==
  \A v \in VersionIds : versions[v] # None =>
    /\ versions'[v] # None
    /\ v \in Rows(versions') =>
         v \in Rows(versions) /\ versions'[v].story = versions[v].story

HistoryOK == /\ History(versions)
             /\ \A v \in Rows(versions) : versions[v].story \in Rows(stories)
             /\ prune.doomed \subseteq Rows(versions)

LEMMA TypedHistory ==
  ASSUME TypeOK, NumberedInOrder
  PROVE  HistoryOK
BY DEF TypeOK, NumberedInOrder, History, HistoryOK

\* The parents a prune gives, while it runs: what it works on stays as it was.
LEMMA RepointedStays ==
  ASSUME HistoryOK, Repointed, prune' = prune, VersionsKept,
         versions' \in [VersionIds -> StoryVersion \cup {None, Gone}],
         \A v \in Rows(versions) \cap Rows(versions') :
           /\ versions'[v].parent = versions[v].parent
           /\ \A x \in Chain(versions, v) :
                x \in Rows(versions') /\ versions'[x].parent = versions[x].parent
  PROVE  Repointed'
<1>1. \A v \in DOMAIN prune'.repointed : v \in VersionIds /\ versions'[v] # None
  BY DEF Repointed, VersionsKept
<1>2. ASSUME NEW v \in DOMAIN prune'.repointed \cap Rows(versions')
      PROVE  /\ versions'[v].parent \in prune'.doomed
             /\ prune'.repointed[v] = Nearest(versions', versions'[v].parent, prune'.doomed)
  <2> DEFINE p == versions[v].parent
  <2>1. v \in Rows(versions)
    BY <1>2 DEF Repointed, VersionsKept
  <2>2. /\ p \in prune.doomed
        /\ prune.repointed[v] = Nearest(versions, p, prune.doomed)
    BY <1>2, <2>1 DEF Repointed, KeptAncestor, Nearest
  <2>3. p \in Rows(versions) /\ History(versions) /\ p # None
    BY <2>2, RowFields DEF HistoryOK, History
  <2>4. versions'[v].parent = p
    BY <1>2, <2>1
  <2>5. Chain(versions, p) \subseteq Chain(versions, v)
    BY <2>1, <2>3, ChainStep
  <2>6. ASSUME NEW x \in Chain(versions, p)
        PROVE  /\ x \in Rows(versions') /\ versions'[x].parent = versions[x].parent
               /\ versions[x].parent \in Rows(versions) <=> versions[x].parent \in Rows(versions')
    <3>1. /\ x \in Rows(versions') /\ versions'[x].parent = versions[x].parent
          /\ x \in Chain(versions, v)
      BY <1>2, <2>1, <2>5
    <3>2. x \in Rows(versions)
      BY <2>1, <3>1, ChainClosed DEF HistoryOK, History
    <3>3. CASE versions[x].parent \in Rows(versions)
      <4>1. versions[x].parent \in Chain(versions, v)
        BY <2>1, <3>1, <3>3, ChainClosed DEF HistoryOK, History
      <4> QED
        BY <1>2, <2>1, <3>1, <3>3, <4>1
    <3>4. CASE versions[x].parent \notin Rows(versions)
      <4>1. versions[x].parent = None
        BY <2>3, <3>2, <3>4, ParentIsRow
      <4>2. None \notin Rows(versions')
        BY StoriesAssumption DEF Rows
      <4> QED
        BY <3>1, <3>4, <4>1, <4>2
    <3> QED
      BY <3>3, <3>4
  <2>7. Nearest(versions', p, prune.doomed) = Nearest(versions, p, prune.doomed)
    <3>1. DOMAIN versions' = VersionIds
      OBVIOUS
    <3> HIDE DEF p
    <3> QED
      BY <2>3, <2>6, <3>1, NearestKept
  <2> QED
    BY <2>2, <2>4, <2>7
<1> QED
  BY <1>1, <1>2 DEF Repointed, KeptAncestor, Nearest

HistoryStep == HistoryOK' /\ Repointed' /\ VersionsKept

LEMMA SameVersionsKept ==
  ASSUME HistoryOK, UNCHANGED <<versions, prune>>, Repointed, Rows(stories) \subseteq Rows(stories')
  PROVE  HistoryStep
<1>1. HistoryOK'
  BY DEF HistoryOK
<1>2. VersionsKept
  BY DEF VersionsKept
<1>3. Repointed'
  BY DEF Repointed, KeptAncestor
<1> QED
  BY <1>1, <1>2, <1>3 DEF HistoryStep

\* A version that is inserted: its references are rows of its story, and its number is
\* the next.
LEMMA InsertKeepsHistory ==
  ASSUME TypeOK, NumberedInOrder, Requested, Repointed, NEW r \in Requests, InsertVersion(r)
  PROVE  HistoryStep
<1> DEFINE new == my[r].version
<1> DEFINE row == [new EXCEPT !.number = NextNumber(new.story)]
<1>1. new \in StoryVersion /\ Founded(new)
  BY DEF InsertVersion, Requested, Holds, VersionOK
<1>2. PICK v \in VersionIds : versions[v] = None /\ versions' = [versions EXCEPT ![v] = row]
  BY DEF InsertVersion
<1>3. /\ new.story \in Rows(stories) /\ UNCHANGED <<stories, prune>>
      /\ {new.parent, new.mergedFrom} \subseteq Rows(versions) \cup {None}
  BY DEF InsertVersion, Others
<1>4. /\ NextNumber(new.story) \in Nat
      /\ \A w \in Of(new.story) : versions[w].number < NextNumber(new.story)
  BY NextIsHigher
<1>5. /\ row \in StoryVersion /\ row.number = NextNumber(new.story) /\ row.story = new.story
      /\ row.parent = new.parent /\ row.mergedFrom = new.mergedFrom
  <2> DEFINE n == NextNumber(new.story)
  <2>1. n \in Nat
    BY <1>4
  <2> HIDE DEF n, new
  <2>2. LET made == [new EXCEPT !.number = n]
        IN  /\ made \in StoryVersion /\ made.number = n /\ made.story = new.story
            /\ made.parent = new.parent /\ made.mergedFrom = new.mergedFrom
    BY ONLY <1>1, <2>1 DEF StoryVersion
  <2> QED
    BY <2>2 DEF n
<1> HIDE DEF row
<1>6. \A p \in {row.parent, row.mergedFrom} \ {None} :
        p \in Rows(versions) /\ versions[p].story = row.story
  BY <1>1, <1>3, <1>5 DEF Founded
<1>7. Continues(row, versions)
  BY <1>4, <1>5, <1>6 DEF Of, Continues
<1>8. HistoryOK
  BY TypedHistory
<1>9. /\ History(versions') /\ v \notin Rows(versions)
      /\ Rows(versions') = Rows(versions) \cup {v}
      /\ \A w \in Rows(versions) : versions'[w] = versions[w]
  <2>1. v \in VersionIds /\ History(versions) /\ versions[v] = None /\ row \in StoryVersion
    BY <1>2, <1>5, <1>8 DEF HistoryOK
  <2>2. /\ versions' \in [VersionIds -> StoryVersion \cup {None, Gone}]
        /\ versions'[v] = row /\ \A w \in VersionIds \ {v} : versions'[w] = versions[w]
    BY <1>2, <2>1 DEF TypeOK
  <2> QED
    BY ONLY <1>7, <2>1, <2>2, InsertedHistory
<1>10. versions'[v] = row
  BY <1>2 DEF TypeOK
<1>11. HistoryOK'
  BY <1>3, <1>5, <1>8, <1>9, <1>10 DEF HistoryOK
<1>12. VersionsKept
  BY <1>2, <1>9 DEF VersionsKept, TypeOK
<1>13. Repointed'
  <2>1. ASSUME NEW w \in Rows(versions), NEW x \in Chain(versions, w)
        PROVE  x \in Rows(versions') /\ versions'[x].parent = versions[x].parent
    <3>1. x \in Rows(versions)
      BY <1>8, ChainClosed DEF HistoryOK, History
    <3> QED
      BY <1>9, <3>1
  <2> QED
    BY <1>3, <1>8, <1>9, <1>12, <2>1, RepointedStays DEF History
<1> QED
  BY <1>11, <1>12, <1>13 DEF HistoryStep

LEMMA TagKeepsHistory ==
  ASSUME TypeOK, NumberedInOrder, Requested, Repointed, NEW r \in Requests, WriteTag(r)
  PROVE  HistoryStep
<1> DEFINE v == my[r].version
<1> DEFINE row == [versions[v] EXCEPT !.tag = my[r].tag]
<1>1. v \in VersionIds /\ my[r].tag \in VersionTags
  BY DEF WriteTag, Requested, Holds, VersionOK
<1>2. /\ v \in Rows(versions) /\ UNCHANGED <<stories, prune>>
      /\ versions' = [versions EXCEPT ![v] = row]
  BY DEF WriteTag, Others
<1>3. versions[v] \in StoryVersion
  BY <1>2, RowFields DEF TypeOK
<1>4. /\ row \in StoryVersion /\ row.number = versions[v].number /\ row.story = versions[v].story
      /\ row.parent = versions[v].parent /\ row.mergedFrom = versions[v].mergedFrom
  <2> HIDE DEF v
  <2> QED
    BY <1>1, <1>3 DEF StoryVersion
<1> HIDE DEF row, v
<1>5. row \notin {None, Gone} /\ versions \in [VersionIds -> StoryVersion \cup {None, Gone}]
  BY <1>4, StoriesAssumption DEF TypeOK
<1>6. versions' \in [VersionIds -> StoryVersion \cup {None, Gone}]
  BY <1>2, <1>4, <1>5
<1>7. Rows(versions') = Rows(versions)
  BY <1>1, <1>2, <1>5 DEF Rows
<1>8. \A w \in Rows(versions) : /\ versions'[w].story = versions[w].story
                                /\ versions'[w].number = versions[w].number
                                /\ versions'[w].parent = versions[w].parent
                                /\ versions'[w].mergedFrom = versions[w].mergedFrom
  BY <1>1, <1>2, <1>4, <1>5 DEF Rows
<1>9. HistoryOK
  BY TypedHistory
<1>10. History(versions')
  <2>1. \A w \in Rows(versions) : \A p \in {versions[w].parent, versions[w].mergedFrom} \ {None} :
           p \in Rows(versions)
    BY DEF TypeOK, MadeWithinStory
  <2> QED
    BY <1>6, <1>7, <1>8, <1>9, <2>1, SameHistory DEF HistoryOK
<1>11. HistoryOK'
  BY <1>2, <1>7, <1>8, <1>9, <1>10 DEF HistoryOK
<1>12. VersionsKept
  BY <1>1, <1>2, <1>5, <1>7, <1>8 DEF VersionsKept
<1>13. Repointed'
  <2>1. ASSUME NEW w \in Rows(versions), NEW x \in Chain(versions, w)
        PROVE  x \in Rows(versions') /\ versions'[x].parent = versions[x].parent
    <3>1. x \in Rows(versions)
      BY <1>9, ChainClosed DEF HistoryOK, History
    <3> QED
      BY <1>7, <1>8, <3>1
  <2> QED
    BY <1>2, <1>6, <1>7, <1>8, <1>9, <1>12, <2>1, RepointedStays
<1> QED
  BY <1>11, <1>12, <1>13 DEF HistoryStep

\* The cascade takes a story's versions, and those of others were never made from them.
LEMMA HardDeleteKeepsHistory ==
  ASSUME TypeOK, NumberedInOrder, Repointed, NEW u, NEW id \in StoryIds, HardDeleteStory(u, id)
  PROVE  HistoryStep
<1>1. /\ HardDelete(u, id) /\ prune.doomed \cap Of(id) = {} /\ prune' = prune
      /\ versions' = [v \in VersionIds |-> IF v \in Of(id) THEN Gone ELSE versions[v]]
  BY DEF HardDeleteStory
<1>2. Rows(stories') = Rows(stories) \ {id}
  BY <1>1, HardDeleteTables
<1>3. HistoryOK /\ versions \in [VersionIds -> StoryVersion \cup {None, Gone}]
  BY TypedHistory DEF TypeOK
<1>4. versions' \in [VersionIds -> StoryVersion \cup {None, Gone}]
  BY <1>1, <1>3
<1>5. /\ Rows(versions') = Rows(versions) \ Of(id)
      /\ \A w \in Rows(versions) \ Of(id) : versions'[w] = versions[w]
  BY <1>1, <1>3 DEF Rows
<1>6. \A w \in Rows(versions) \ Of(id) : versions[w].story \in Rows(stories) \ {id}
  BY <1>3 DEF HistoryOK, Of
<1>7. \A w \in Rows(versions) \ Of(id) :
        \A p \in {versions[w].parent, versions[w].mergedFrom} \ {None} :
          p \in Rows(versions) \ Of(id)
  BY DEF TypeOK, MadeWithinStory, Of
<1>8. History(versions')
  BY <1>3, <1>4, <1>5, <1>7, SameHistory DEF HistoryOK
<1>9. HistoryOK'
  BY <1>1, <1>2, <1>3, <1>5, <1>6, <1>8 DEF HistoryOK
<1>10. VersionsKept
  BY <1>1, <1>5, StoriesAssumption DEF VersionsKept
<1>11. Repointed'
  <2>1. ASSUME NEW w \in Rows(versions) \ Of(id), NEW x \in Chain(versions, w)
        PROVE  x \in Rows(versions') /\ versions'[x].parent = versions[x].parent
    <3>1. x \in Rows(versions)
      BY <1>3, ChainClosed DEF HistoryOK, History
    <3>2. versions[x].story = versions[w].story
      BY <1>3, ChainIsOlder DEF HistoryOK
    <3>3. x \notin Of(id)
      BY <3>2 DEF Of
    <3> QED
      BY <1>5, <3>1, <3>3
  <2> QED
    BY <1>1, <1>3, <1>4, <1>5, <1>10, <2>1, RepointedStays
<1> QED
  BY <1>9, <1>10, <1>11 DEF HistoryStep

LEMMA SelectKeepsHistory ==
  ASSUME TypeOK, NumberedInOrder, PruneSelect
  PROVE  HistoryStep
<1>1. UNCHANGED <<stories, versions>>
  BY DEF PruneSelect, Others
<1>2. PICK doomed \in Batches(Doomed) :
        prune' = [doomed |-> doomed,
                  repointed |-> [v \in {w \in Rows(versions) \ doomed :
                                          versions[w].parent \in doomed} |->
                                   KeptAncestor(versions[v].parent, doomed)]]
  BY DEF PruneSelect
<1>3. doomed \subseteq Doomed /\ Doomed \subseteq Rows(versions)
  BY DEF Batches, kSubset, Doomed
<1>4. HistoryOK
  BY TypedHistory
<1>5. HistoryOK'
  BY <1>1, <1>2, <1>3, <1>4 DEF HistoryOK
<1>6. VersionsKept
  BY <1>1 DEF VersionsKept
<1> DEFINE set == {w \in Rows(versions) \ doomed : versions[w].parent \in doomed}
<1>7. /\ DOMAIN prune'.repointed = set /\ prune'.doomed = doomed
      /\ \A v \in set : prune'.repointed[v] = KeptAncestor(versions[v].parent, doomed)
  BY <1>2
<1>8. Rows(versions) \subseteq VersionIds /\ \A w \in Rows(versions) : versions[w] # None
  BY DEF Rows, TypeOK
<1>9. Repointed'
  <2>1. \A v \in set : v \in VersionIds /\ versions[v] # None /\ versions[v].parent \in doomed
    BY <1>8
  <2> HIDE DEF set
  <2> QED
    BY <1>1, <1>7, <2>1 DEF Repointed, KeptAncestor
<1> QED
  BY <1>5, <1>6, <1>9 DEF HistoryStep

LEMMA IdleRepointed ==
  ASSUME prune' = Idle
  PROVE  Repointed' /\ prune'.doomed = {}
<1>1. DOMAIN prune'.repointed = {} /\ prune'.doomed = {}
  BY DEF Idle
<1> QED
  BY <1>1 DEF Repointed

LEMMA RepointedNow ==
  ASSUME Repointed
  PROVE  RepointedIn(versions, prune.doomed, prune.repointed)
BY DEF Repointed, RepointedIn, KeptAncestor, Nearest

LEMMA CommitIsPruned ==
  ASSUME PruneCommit
  PROVE  versions' = Pruned(versions, prune.doomed, prune.repointed)
BY DEF PruneCommit, Pruned

LEMMA CommitKeepsHistory ==
  ASSUME TypeOK, NumberedInOrder, Repointed, PruneCommit
  PROVE  HistoryStep
<1>1. prune' = Idle /\ stories' = stories
  BY DEF PruneCommit, Others
<1>2. HistoryOK
  BY TypedHistory
<1>3. versions' = Pruned(versions, prune.doomed, prune.repointed)
  BY CommitIsPruned
<1>4. RepointedIn(versions, prune.doomed, prune.repointed)
  BY RepointedNow
<1>5. History(versions')
  BY <1>2, <1>3, <1>4, PrunedHistory DEF HistoryOK
<1>6. /\ Rows(versions') = Rows(versions) \ prune.doomed
      /\ \A v \in Rows(versions') : versions'[v].story = versions[v].story
  BY <1>2, <1>3, <1>4, PrunedRows DEF HistoryOK
<1>7. HistoryOK'
  BY <1>1, <1>2, <1>5, <1>6, IdleRepointed DEF HistoryOK
<1>8. VersionsKept
  <2>1. ASSUME NEW v \in VersionIds, versions[v] # None, versions'[v] = None PROVE FALSE
    <3>1. v \notin Rows(versions')
      BY <2>1 DEF Rows
    <3>2. v \notin Rows(versions) => versions'[v] = versions[v]
      BY <1>3 DEF Pruned
    <3>3. v \in prune.doomed /\ v \in Rows(versions)
      BY <1>6, <2>1, <3>1, <3>2
    <3>4. versions'[v] = Gone
      BY <1>3, <3>3 DEF Pruned
    <3> QED
      BY <2>1, <3>4, StoriesAssumption
  <2> QED
    BY <1>6, <2>1 DEF VersionsKept
<1> QED
  BY <1>1, <1>7, <1>8, IdleRepointed DEF HistoryStep

-----------------------------------------------------------------------------
(* The invariant. *)

LEMMA SeenStays ==
  ASSUME TypeOK, StoriesOK', StoriesKept, NEW seen \in Story, NEW id \in StoryIds,
         SeenBefore(seen, id)
  PROVE  SeenBefore(seen, id)'
<1>1. stories[id] # None /\ stories'[id] # None
  BY DEF SeenBefore, StoriesKept
<1>2. ASSUME id \in Rows(stories')
      PROVE  /\ stories'[id].userId = seen.userId
             /\ seen.version <= stories'[id].version
             /\ stories'[id].version = seen.version => SameVersion(seen, stories'[id])
  <2>1. id \in Rows(stories) /\ Later(stories[id], stories'[id])
    BY <1>1, <1>2 DEF StoriesKept
  <2>2. /\ stories[id].userId = seen.userId /\ seen.version <= stories[id].version
        /\ stories[id].version = seen.version => SameVersion(seen, stories[id])
    BY <2>1 DEF SeenBefore
  <2>3. stories[id] \in Story /\ stories'[id] \in Story
    BY <1>2, <2>1, StoryRow DEF StoriesOK, Rows
  <2>4. seen.version \in Nat /\ stories[id].version \in Nat /\ stories'[id].version \in Nat
    BY <2>3 DEF Story
  <2>5. ASSUME stories'[id].version = seen.version PROVE SameVersion(seen, stories'[id])
    <3>1. SameVersion(seen, stories[id]) /\ SameVersion(stories[id], stories'[id])
      BY <2>1, <2>2, <2>4, <2>5 DEF Later
    <3> QED
      BY <3>1 DEF SameVersion
  <2> QED
    BY <2>1, <2>2, <2>4, <2>5 DEF Later
<1> QED
  BY <1>1, <1>2 DEF SeenBefore

LEMMA FoundedStays ==
  ASSUME VersionsKept, NEW new \in StoryVersion, Founded(new)
  PROVE  Founded(new)'
<1>1. {new.parent, new.mergedFrom} \ {None} \subseteq VersionIds
  BY DEF StoryVersion
<1> QED
  BY <1>1 DEF Founded, VersionsKept

LEMMA HoldsStays ==
  ASSUME TypeOK, StoriesOK', StoriesKept, VersionsKept, NEW place, NEW l, Holds(place, l)
  PROVE  Holds(place, l)'
<1>1. ASSUME place \in StoryPlaces
      PROVE  /\ IsRequest(l) /\ BodyOK(l) /\ PlaceOK(place, l) /\ Allowed(l)
             /\ l.op \in Replaces => SeenBefore(l.seen, l.id)'
  <2>1. /\ IsRequest(l) /\ BodyOK(l) /\ PlaceOK(place, l) /\ Allowed(l)
        /\ l.op \in Replaces => SeenBefore(l.seen, l.id)
    BY <1>1 DEF Holds
  <2>2. l.op \in Replaces => l.id \in StoryIds /\ l.seen \in Story
    BY <2>1 DEF BodyOK
  <2> QED
    BY <2>1, <2>2, SeenStays
<1>2. VersionOK(place, l)'
  <2>1. VersionOK(place, l)
    BY DEF Holds
  <2>2. ASSUME place = "insert" PROVE l.version \in StoryVersion /\ Founded(l.version)'
    BY <2>1, <2>2, FoundedStays DEF VersionOK
  <2> QED
    BY <2>1, <2>2 DEF VersionOK
<1> QED
  BY <1>1, <1>2 DEF Holds

LEMMA TurnKeepsRequested ==
  ASSUME TypeOK, Requested, StoriesOK', StoriesKept, VersionsKept, NEW r \in Requests, Turns(r)
  PROVE  Requested' /\ at' \in [Requests -> Places]
<1>0. PICK place \in Places : \E l : Turn(r, place, l) /\ Holds(place, l)
  BY DEF Turns
<1>1. PICK l : place \in Places /\ Turn(r, place, l) /\ Holds(place, l)
  BY <1>0
<1>2. /\ at' = [at EXCEPT ![r] = place] /\ at \in [Requests -> Places]
      /\ my' = [my EXCEPT ![r] = l] /\ my = [q \in Requests |-> my[q]]
  <2>1. Places = {"idle", "parent", "labels", "write", "publish", "record", "latest",
                  "insert", "tag"}
    BY DEF Places, StoryPlaces
  <2> QED
    BY <1>1, <2>1 DEF Turn, Requested, TypeOK
<1>3. my' = [q \in Requests |-> my'[q]] /\ at' \in [Requests -> Places]
  BY <1>1, <1>2
<1>4. ASSUME NEW q \in Requests PROVE Holds(at[q], my[q])'
  <2>1. CASE q = r
    <3>1. Holds(place, l)' /\ at'[q] = place /\ my'[q] = l
      BY <1>1, <1>2, <2>1, HoldsStays
    <3> QED
      BY <3>1
  <2>2. CASE q # r
    <3>1. at'[q] = at[q] /\ my'[q] = my[q] /\ Holds(at[q], my[q])
      BY <1>2, <2>2 DEF Requested
    <3>2. PICK p, k : p = at[q] /\ k = my[q]
      OBVIOUS
    <3>3. Holds(p, k)
      BY <3>1, <3>2
    <3>4. Holds(p, k)'
      BY <3>3, HoldsStays
    <3> QED
      BY <3>1, <3>2, <3>4
  <2> QED
    BY <2>1, <2>2
<1> QED
  BY <1>3, <1>4 DEF Requested

LEMMA SameRequested ==
  ASSUME TypeOK, Requested, StoriesOK', StoriesKept, VersionsKept, UNCHANGED <<at, my>>
  PROVE  Requested' /\ at' \in [Requests -> Places]
<1>1. ASSUME NEW q \in Requests PROVE Holds(at[q], my[q])'
  <2>1. PICK p, k : p = at[q] /\ k = my[q]
    OBVIOUS
  <2>2. Holds(p, k)
    BY <2>1 DEF Requested
  <2>3. Holds(p, k)'
    BY <2>2, HoldsStays
  <2> QED
    BY <2>1, <2>3
<1> QED
  BY <1>1 DEF Requested, TypeOK, Places, StoryPlaces

LEMMA TypedAfter ==
  ASSUME LabelsOK', StoriesOK', CountsOK', HistoryOK', at' \in [Requests -> Places]
  PROVE  TypeOK' /\ NumberedInOrder'
BY DEF LabelsOK, StoriesOK, CountsOK, HistoryOK, History, TypeOK, NumberedInOrder,
       Places, StoryPlaces

LEMMA Initial ==
  ASSUME Init
  PROVE  IInv
<1>1. /\ tags = FirstTags /\ categories = FirstCategories
      /\ stories \in FirstStories /\ versions \in FirstVersions
      /\ public = {} /\ served = 0 /\ prune = Idle
      /\ at = [r \in Requests |-> "idle"] /\ my = [r \in Requests |-> Blank]
  BY DEF Init
<1>2. /\ tags \in [TagIds -> Tag \cup {None, Gone}]
      /\ categories \in [CategoryIds -> Category \cup {None, Gone}]
      /\ stories \in [StoryIds -> Story \cup {None, Gone}]
      /\ versions \in [VersionIds -> StoryVersion \cup {None, Gone}]
  BY <1>1, FirstAssumption
<1>3. \A id \in Rows(stories) : Refers(stories[id])
  BY <1>1, FirstAssumption DEF Refers
<1>4. /\ \A v \in Rows(versions) : versions[v].story \in Rows(stories)
      /\ MadeWithinStory(versions) /\ InOrder(versions)
  BY <1>1, FirstAssumption
<1>5. DOMAIN prune.repointed = {} /\ prune.doomed = {}
  BY <1>1 DEF Idle
<1>6. TypeOK
  <2>1. public \subseteq Files /\ served \in 0..MaxServed
    BY <1>1, StoriesAssumption
  <2>2. at \in [Requests -> {"idle", "parent", "labels", "write", "publish", "record",
                             "latest", "insert", "tag"}]
    BY <1>1
  <2> QED
    BY <1>2, <1>3, <1>4, <1>5, <2>1, <2>2 DEF TypeOK
<1>7. Requested
  <2>1. \A r \in Requests : at[r] = "idle"
    BY <1>1
  <2>2. my = [r \in Requests |-> my[r]]
    BY <1>1
  <2> QED
    BY <2>1, <2>2 DEF Requested, Holds, VersionOK, StoryPlaces
<1>8. Repointed
  BY <1>5 DEF Repointed
<1> QED
  BY <1>4, <1>6, <1>7, <1>8 DEF IInv, NumberedInOrder

LEMMA StoryStepKeeps ==
  ASSUME IInv, NEW r \in Requests, StoryStep(r)
  PROVE  IInv'
<1>1. TypeOK /\ NumberedInOrder /\ Requested /\ Repointed
  BY DEF IInv
<1>2. TablesStep /\ UNCHANGED <<versions, prune>>
  BY <1>1, StoryStepTables
<1>3. HistoryStep
  BY <1>1, <1>2, TypedHistory, SameVersionsKept DEF TablesStep
<1>4. Requested' /\ at' \in [Requests -> Places]
  BY <1>1, <1>2, <1>3, StoryStepTurns, TurnKeepsRequested DEF TablesStep, HistoryStep
<1> QED
  BY <1>2, <1>3, <1>4, TypedAfter DEF TablesStep, HistoryStep, IInv

LEMMA VersionStepKeeps ==
  ASSUME IInv, NEW r \in Requests, VersionStep(r)
  PROVE  IInv'
<1>1. TypeOK /\ NumberedInOrder /\ Requested /\ Repointed
  BY DEF IInv
<1>2. TablesStep /\ prune' = prune
  BY <1>1, VersionStepTables
<1>3. HistoryStep
  <2>1. CASE versions' = versions
    BY <1>1, <1>2, <2>1, TypedHistory, SameVersionsKept DEF TablesStep
  <2>2. CASE InsertVersion(r) \/ WriteTag(r)
    BY <1>1, <2>2, InsertKeepsHistory, TagKeepsHistory
  <2>3. ASSUME ~InsertVersion(r), ~WriteTag(r) PROVE versions' = versions
    <3>1. ASSUME NEW u \in Users, NEW id \in StoryIds,
                 \/ \E body \in Snapshots : CreateVersion(r, u, id, body)
                 \/ \E c \in Rollbacks : Rollback(r, u, id, c.number, c.branch)
                 \/ \E c \in NewBranches : CreateBranch(r, u, id, c.branch, c.number)
                 \/ \E c \in Merges : Merge(r, u, id, c)
                 \/ \E n \in NumbersTagged, t \in VersionTags : TagVersion(r, u, id, n, t)
          PROVE  versions' = versions
      BY <3>1 DEF CreateVersion, Rollback, CreateBranch, Merge, TagVersion, StartVersion
    <3>2. CASE ReadBack(r) \/ RecordRollback(r) \/ CompareWithLatest(r)
      BY <3>2 DEF ReadBack, RecordRollback, CompareWithLatest
    <3> QED
      BY <2>3, <3>1, <3>2 DEF VersionStep
  <2> QED
    BY <2>1, <2>2, <2>3
<1>4. Requested' /\ at' \in [Requests -> Places]
  BY <1>1, <1>2, <1>3, VersionStepTurns, TurnKeepsRequested DEF TablesStep, HistoryStep
<1> QED
  BY <1>2, <1>3, <1>4, TypedAfter DEF TablesStep, HistoryStep, IInv

LEMMA HardDeleteKeeps ==
  ASSUME IInv, NEW u \in Users, NEW id \in StoryIds, HardDeleteStory(u, id)
  PROVE  IInv'
<1>1. TypeOK /\ NumberedInOrder /\ Requested /\ Repointed
  BY DEF IInv
<1>2. LabelsOK' /\ StoriesOK' /\ CountsOK' /\ StoriesKept /\ UNCHANGED <<at, my>>
  BY <1>1, HardDeleteTables DEF HardDeleteStory, HardDelete
<1>3. HistoryStep
  BY <1>1, HardDeleteKeepsHistory
<1>4. Requested' /\ at' \in [Requests -> Places]
  BY <1>1, <1>2, <1>3, SameRequested DEF HistoryStep
<1> QED
  BY <1>2, <1>3, <1>4, TypedAfter DEF HistoryStep, IInv

LEMMA ChangeLabelsKeeps ==
  ASSUME IInv, NEW u \in Users, ChangeLabels(u), UNCHANGED <<versions, prune>>
  PROVE  IInv'
<1>1. TypeOK /\ NumberedInOrder /\ Requested /\ Repointed
  BY DEF IInv
<1>2. TablesStep /\ UNCHANGED <<at, my>>
  BY <1>1, ChangeLabelsTables DEF ChangeLabels
<1>3. HistoryStep
  BY <1>1, <1>2, TypedHistory, SameVersionsKept DEF TablesStep
<1>4. Requested' /\ at' \in [Requests -> Places]
  BY <1>1, <1>2, <1>3, SameRequested DEF TablesStep, HistoryStep
<1> QED
  BY <1>2, <1>3, <1>4, TypedAfter DEF TablesStep, HistoryStep, IInv

LEMMA PruneKeeps ==
  ASSUME IInv, PruneSelect \/ PruneCommit \/ PruneFails
  PROVE  IInv'
<1>1. TypeOK /\ NumberedInOrder /\ Requested /\ Repointed
  BY DEF IInv
<1>2. UNCHANGED <<tags, categories, stories, public, served, at, my>>
  BY DEF PruneSelect, PruneCommit, PruneFails, Others
<1>3. TablesStep
  BY <1>1, <1>2, SameTables DEF TypeOK, CountsOK
<1>4. HistoryStep
  <2>1. CASE PruneFails
    <3>1. HistoryOK /\ prune' = Idle /\ UNCHANGED <<versions, stories>>
      BY <1>1, <2>1, TypedHistory DEF PruneFails, Others
    <3>2. HistoryOK' /\ VersionsKept
      BY <3>1, IdleRepointed DEF HistoryOK, VersionsKept
    <3> QED
      BY <3>1, <3>2, IdleRepointed DEF HistoryStep
  <2> QED
    BY <1>1, <2>1, SelectKeepsHistory, CommitKeepsHistory
<1>5. Requested' /\ at' \in [Requests -> Places]
  BY <1>1, <1>2, <1>3, <1>4, SameRequested DEF TablesStep, HistoryStep
<1> QED
  BY <1>3, <1>4, <1>5, TypedAfter DEF TablesStep, HistoryStep, IInv

LEMMA StutterKeeps ==
  ASSUME IInv, UNCHANGED vars
  PROVE  IInv'
<1>1. TypeOK /\ NumberedInOrder /\ Requested /\ Repointed
  BY DEF IInv
<1>2. UNCHANGED <<tags, categories, stories, public, served, at, my, versions, prune>>
  BY DEF vars
<1>3. TablesStep
  BY <1>1, <1>2, SameTables DEF TypeOK, CountsOK
<1>4. HistoryStep
  BY <1>1, <1>2, <1>3, TypedHistory, SameVersionsKept DEF TablesStep
<1>5. Requested' /\ at' \in [Requests -> Places]
  BY <1>1, <1>2, <1>3, <1>4, SameRequested DEF TablesStep, HistoryStep
<1> QED
  BY <1>3, <1>4, <1>5, TypedAfter DEF TablesStep, HistoryStep, IInv

LEMMA Inductive ==
  ASSUME IInv, [Next]_vars
  PROVE  IInv'
BY StoryStepKeeps, VersionStepKeeps, HardDeleteKeeps, ChangeLabelsKeeps, PruneKeeps,
   StutterKeeps DEF Next

LEMMA Invariant == Spec => []IInv
<1>1. Init => IInv
  BY Initial
<1>2. IInv /\ [Next]_vars => IInv'
  BY Inductive
<1> QED
  BY <1>1, <1>2, PTL DEF Spec

-----------------------------------------------------------------------------
(* The theorems. *)

\* Rows of their types, and no reference to a row that is gone (the foreign keys of
\* stories and story_versions), whatever requests, deletions and prunes do.
THEOREM StoriesTypeCorrect == Spec => []TypeOK
<1>1. IInv => TypeOK
  BY DEF IInv
<1> QED
  BY Invariant, <1>1, PTL

\* The versions of a story have different numbers, and a version a higher one than it was
\* made from (StoryVersionRepository.insertNumbered).
THEOREM VersionsNumberedInOrder == Spec => []NumberedInOrder
<1>1. IInv => NumberedInOrder
  BY DEF IInv
<1> QED
  BY Invariant, <1>1, PTL

\* A step on a history starts a request, or leaves the stories and labels alone.
LEMMA VersionStepCases ==
  ASSUME NEW r, VersionStep(r)
  PROVE  (\E request, place : Start(r, request, place)) \/ UNCHANGED Others
<1>1. ASSUME NEW u \in Users, NEW id \in StoryIds,
             \/ \E body \in Snapshots : CreateVersion(r, u, id, body)
             \/ \E c \in Rollbacks : Rollback(r, u, id, c.number, c.branch)
             \/ \E c \in NewBranches : CreateBranch(r, u, id, c.branch, c.number)
             \/ \E c \in Merges : Merge(r, u, id, c)
             \/ \E n \in NumbersTagged, t \in VersionTags : TagVersion(r, u, id, n, t)
      PROVE  \E request, place : Start(r, request, place)
  BY <1>1 DEF CreateVersion, Rollback, CreateBranch, Merge, TagVersion, StartVersion, Edit
<1>2. ASSUME ReadBack(r) \/ RecordRollback(r) \/ CompareWithLatest(r) \/ InsertVersion(r)
             \/ WriteTag(r)
      PROVE  UNCHANGED Others
  BY <1>2 DEF ReadBack, RecordRollback, CompareWithLatest, InsertVersion, WriteTag
<1> QED
  BY <1>1, <1>2 DEF VersionStep

\* Whoever leaves the place where stories are written took the step.
LEMMA WriterStepped ==
  ASSUME IInv, [Next]_vars, NEW r \in Requests, Wrote(r)
  PROVE  StoryStep(r)
<1>1. TypeOK /\ Requested /\ at \in [Requests -> Places]
  BY DEF IInv, TypeOK, Places, StoryPlaces
<1>2. at[r] = "write" /\ at'[r] # "write" /\ stories' # stories
  BY DEF Wrote
<1>3. ASSUME NEW q \in Requests, StoryStep(q) \/ VersionStep(q) PROVE q = r
  <2>1. Turns(q)
    BY <1>1, <1>3, StoryStepTurns, VersionStepTurns
  <2> QED
    BY <1>1, <1>2, <2>1 DEF Turns, Turn
<1>4. at' # at
  BY <1>2
<1>5. StoryStep(r) \/ VersionStep(r)
  BY <1>3, <1>4 DEF Next, vars, HardDeleteStory, HardDelete, ChangeLabels, PruneSelect,
                    PruneCommit, PruneFails
<1>6. ~VersionStep(r)
  BY <1>2, VersionStepCases DEF Start, Others
<1> QED
  BY <1>5, <1>6

\* The writes of stories, each by its operation.
LEMMA Writes ==
  ASSUME NEW r, StoryStep(r), stories' # stories
  PROVE  \/ Insert(r) /\ my[r].op = "create"
         \/ Save(r, {"update", "rollback"}, "record") /\ my[r].op \in {"update", "rollback"}
         \/ SetDeleted(r) /\ my[r].op \in {"remove", "restore"}
         \/ WriteStatus(r) /\ my[r].op = "status"
         \/ WriteLinks(r) /\ my[r].op = "links"
         \/ WriteImage(r) /\ my[r].op = "image"
<1>1. ASSUME NEW request, NEW place, Start(r, request, place) PROVE FALSE
  BY <1>1 DEF Start
<1>2. ~CheckParent(r) /\ ~ResolveLabels(r) /\ ~PublishImage(r) /\ ~End(r)
  BY DEF CheckParent, ResolveLabels, PublishImage, End
<1>3. ASSUME NEW u \in Users,
             \/ \E body \in NewStories : Create(r, u, body)
             \/ \E id \in StoryIds :
                  \/ \E body \in Edits : Edit(r, u, id, body, "update")
                  \/ Remove(r, u, id)
                  \/ Restore(r, u, id)
                  \/ \E s \in StatusesAsked : SetStatus(r, u, id, s)
                  \/ \E body \in LinkChanges : ChangeLinks(r, u, id, body)
                  \/ \E f \in Files \cup {None} : SetImage(r, u, id, f)
      PROVE  \E request, place : Start(r, request, place)
  BY <1>3 DEF Create, Edit, Remove, Restore, SetStatus, ChangeLinks, SetImage
<1>4. \/ Insert(r) \/ Save(r, {"update", "rollback"}, "record") \/ SetDeleted(r)
      \/ WriteStatus(r) \/ WriteLinks(r) \/ WriteImage(r)
  BY <1>1, <1>2, <1>3 DEF StoryStep
<1> QED
  BY <1>4 DEF Insert, Save, SetDeleted, WriteStatus, WriteLinks, WriteImage

\* An edit, a rollback, a status or an image is written over the story as it was read
\* (updateIfVersion and the version column of TypeORM): no other write is lost.
THEOREM StoryEditsApplyToWhatWasRead == Spec => EditsApplyToWhatWasRead
<1>1. ASSUME IInv, [Next]_vars, NEW r \in Requests, Wrote(r),
             my[r].op \in {"update", "rollback", "status", "image"},
             my[r].op = "update" => Expected(r) = my[r].seen.version
      PROVE  SameVersion(my[r].seen, stories[my[r].id])
  <2>1. StoryStep(r) /\ stories' # stories
    BY <1>1, WriterStepped DEF Wrote
  <2>2. \/ Save(r, {"update", "rollback"}, "record") /\ my[r].op \in {"update", "rollback"}
        \/ WriteStatus(r) \/ WriteImage(r)
    BY <1>1, <2>1, Writes
  <2>3. /\ at[r] \in StoryPlaces /\ my[r].op \in Replaces /\ Requested
    BY <1>1 DEF Wrote, StoryPlaces, Replaces, IInv
  <2>4. SeenBefore(my[r].seen, my[r].id) /\ BodyOK(my[r])
    BY <2>3 DEF Requested, Holds
  <2>5. my[r].op = "rollback" => Expected(r) = my[r].seen.version
    BY <2>3, <2>4 DEF BodyOK, IsRollback, Expected, Given
  <2>6. my[r].id \in Rows(stories) /\ stories[my[r].id].version = my[r].seen.version
    BY <1>1, <2>2, <2>5
       DEF Save, Lock, Live, On, WriteStatus, WriteImage, UpdateIfVersion, Present
  <2> QED
    BY <2>4, <2>6 DEF SeenBefore
<1>2. IInv /\ [Next]_vars =>
        [\A r \in Requests :
           /\ Wrote(r) /\ my[r].op \in {"update", "rollback", "status", "image"}
           /\ my[r].op = "update" => Expected(r) = my[r].seen.version
           => SameVersion(my[r].seen, stories[my[r].id])]_vars
  BY <1>1
<1> QED
  BY <1>2, Invariant, PTL DEF Spec, EditsApplyToWhatWasRead

\* What may be published is decided by whose story it is.
LEMMA PublishByAuthor ==
  ASSUME NEW u \in Users, NEW row, NEW other, Can(u, "publish", row),
         "userId" \in DOMAIN row, "userId" \in DOMAIN other, row.userId = other.userId
  PROVE  Can(u, "publish", other)
<1> DEFINE rules == Rules[u]["publish"]["Story"]
<1>1. \A i \in DOMAIN rules : DOMAIN rules[i].conditions \subseteq {"userId"}
  BY PublishingAssumption
<1>2. CanRecord(rules, row)
  BY DEF Can, MayOn
<1> HIDE DEF rules
<1>3. ASSUME NEW i \in DOMAIN rules
      PROVE  Matches(rules[i].conditions, row) <=> Matches(rules[i].conditions, other)
  BY <1>1 DEF Matches
<1>4. CanRecord(rules, other)
  BY <1>2, <1>3 DEF CanRecord, Above
<1> QED
  BY <1>4 DEF rules, Can, MayOn

\* An editorial status is new on a story only where someone may publish it wrote it.
LEMMA StatusWritten ==
  ASSUME IInv, [Next]_vars, NEW id \in StoryIds, stories'[id] \notin {None, Gone},
         stories'[id].status \notin AUTHOR_STATUSES \cup {"DELETED"},
         id \in Rows(stories) => stories[id].status # stories'[id].status
  PROVE  \E r \in Requests :
           /\ StoryStep(r) /\ stories' # stories
           /\ id \in Rows(stories')
<1>1. TypeOK /\ Requested
  BY DEF IInv
<1>2. stories' # stories
  BY <1>1 DEF TypeOK, Rows
<1>3. DOMAIN stories' = StoryIds
  BY Inductive DEF IInv, TypeOK
<1>4. id \in Rows(stories')
  BY <1>3 DEF Rows
<1>5. ASSUME NEW u \in Users, NEW i \in StoryIds, HardDeleteStory(u, i) PROVE FALSE
  <2>1. HardDelete(u, i)
    BY <1>5 DEF HardDeleteStory
  <2>2. id \in Rows(stories) /\ stories'[id].status = stories[id].status
    BY <1>1, <1>4, <2>1, HardDeleteTables
  <2> QED
    BY <2>2
<1>6. ASSUME NEW u \in Users, ChangeLabels(u) PROVE FALSE
  <2>1. id \in Rows(stories) /\ stories'[id].status = stories[id].status
    BY <1>1, <1>4, <1>6, ChangeLabelsTables
  <2> QED
    BY <2>1
<1>7. ~PruneSelect /\ ~PruneCommit /\ ~PruneFails /\ ~UNCHANGED vars
  BY <1>2 DEF PruneSelect, PruneCommit, PruneFails, Others, vars
<1>8. ASSUME NEW r \in Requests, VersionStep(r) PROVE FALSE
  <2>1. ASSUME NEW request, NEW place, Start(r, request, place) PROVE FALSE
    BY <1>2, <2>1 DEF Start
  <2>2. ASSUME UNCHANGED Others PROVE FALSE
    BY <1>2, <2>2 DEF Others
  <2> QED
    BY <1>8, <2>1, <2>2, VersionStepCases
<1> QED
  BY <1>2, <1>4, <1>5, <1>6, <1>7, <1>8 DEF Next

\* The story that has a new status is the one that was written.
LEMMA WrittenStory ==
  ASSUME TypeOK, NEW id \in StoryIds, NEW i, NEW row, SetStory(i, row), id \in Rows(stories'),
         id \in Rows(stories) => stories[id].status # stories'[id].status
  PROVE  i = id /\ stories'[id] = row
<1>1. stories' = [stories EXCEPT ![i] = row] /\ DOMAIN stories = StoryIds
  BY DEF SetStory, TypeOK
<1>2. CASE i # id
  <2>1. stories'[id] = stories[id]
    BY <1>1, <1>2
  <2>2. id \in Rows(stories)
    BY <1>1, <2>1 DEF Rows
  <2> QED
    BY <2>1, <2>2
<1> QED
  BY <1>1, <1>2

LEMMA WriterLeaves ==
  ASSUME TypeOK, NEW r \in Requests, stories' # stories,
         \/ Insert(r) \/ Save(r, {"update", "rollback"}, "record") \/ SetDeleted(r)
         \/ WriteStatus(r) \/ WriteLinks(r) \/ WriteImage(r)
  PROVE  Wrote(r)
<1>1. at[r] = "write" /\ (Leave(r) \/ Go(r, "record"))
  BY DEF Insert, Save, SetDeleted, WriteStatus, WriteLinks, WriteImage, UpdateIfVersion
<1>2. at'[r] # "write"
  BY <1>1 DEF Leave, Go, TypeOK
<1> QED
  BY <1>1, <1>2 DEF Wrote

\* Attaching and detaching change no status.
LEMMA LinkedStatus ==
  ASSUME NEW r, WriteLinks(r), On(r) \in Story
  PROVE  \E row : SetStory(my[r].id, row) /\ row.status = On(r).status
<1> DEFINE b == my[r].body
<1> DEFINE row == On(r)
<1> DEFINE attached == [row EXCEPT !.tags = @ \cup my[r].tags,
                                   !.categories = @ \cup my[r].categories,
                                   !.files = @ \cup b.files]
<1> DEFINE detached == [row EXCEPT !.tags = @ \ (b.tagIds \cup TagsNamed(b.names)),
                                   !.categories = @ \ b.categoryIds,
                                   !.files = @ \ b.files]
<1> DEFINE changed == IF b.add THEN attached ELSE detached
<1>1. SetStory(my[r].id, Linked(row, changed))
  BY DEF WriteLinks
<1> HIDE DEF row, b
<1>2. /\ attached.status = row.status /\ "status" \in DOMAIN attached
      /\ detached.status = row.status /\ "status" \in DOMAIN detached
  BY DEF Story, row
<1> HIDE DEF attached, detached
<1>3. changed.status = row.status
  BY <1>2
<1> HIDE DEF changed
<1>4. Linked(row, changed).status = row.status
  BY <1>3 DEF Linked
<1> QED
  BY <1>1, <1>4 DEF row

\* An author's story is published, or given any other editorial status, only by someone
\* who may publish it (StoryAccessPolicy.assertCanSetStatus).
THEOREM StoriesPublishedByEditors == Spec => PublishedByEditors
<1>1. ASSUME IInv, [Next]_vars, NEW id \in StoryIds, stories'[id] \notin {None, Gone},
             stories'[id].status \notin AUTHOR_STATUSES \cup {"DELETED"},
             id \in Rows(stories) => stories[id].status # stories'[id].status
      PROVE  \E r \in Requests :
               /\ Wrote(r)
               /\ \/ Can(my[r].user, "publish", stories'[id])
                  \/ my[r].op = "update" /\ my[r].seen.status = stories'[id].status
  <2>1. PICK r \in Requests : StoryStep(r) /\ stories' # stories /\ id \in Rows(stories')
    BY <1>1, StatusWritten
  <2>2. TypeOK /\ Requested /\ TypeOK'
    BY <1>1, Inductive DEF IInv
  <2>3. stories'[id] \in Story
    BY <1>1, <2>2 DEF TypeOK
  <2>4. "userId" \in DOMAIN stories'[id] /\ (\A row \in Story : "userId" \in DOMAIN row)
    BY <2>3 DEF Story
  <2> DEFINE l == my[r]
  <2> DEFINE status == stories'[id].status
  <2>5. at[r] = "write" =>
          /\ IsRequest(l) /\ BodyOK(l) /\ Allowed(l)
          /\ l.op \in Replaces => SeenBefore(l.seen, l.id)
    BY <2>2 DEF Requested, Holds, StoryPlaces
  <2>6. CASE Insert(r) /\ l.op = "create"
    <3>1. PICK i \in StoryIds :
            SetStory(i, [userId |-> l.user, title |-> l.body.title,
                         fromTime |-> l.body.fromTime, status |-> l.body.status,
                         deleted |-> FALSE, parent |-> l.body.parent, tags |-> l.tags,
                         categories |-> l.categories, files |-> {}, image |-> None,
                         version |-> 1])
      BY <2>6 DEF Insert
    <3>2. stories'[id].userId = l.user /\ status = l.body.status
      <4> DEFINE row == [userId |-> l.user, title |-> l.body.title,
                         fromTime |-> l.body.fromTime, status |-> l.body.status,
                         deleted |-> FALSE, parent |-> l.body.parent, tags |-> l.tags,
                         categories |-> l.categories, files |-> {}, image |-> None,
                         version |-> 1]
      <4>1. row.userId = l.user /\ row.status = l.body.status
        OBVIOUS
      <4>2. SetStory(i, row)
        BY <3>1
      <4> HIDE DEF row, l
      <4> QED
        BY <1>1, <2>1, <2>2, <4>1, <4>2, WrittenStory
    <3>3. l.user \in Users /\ MaySet(l.user, l.body.status, [userId |-> l.user])
      BY <2>5, <2>6 DEF Insert, IsRequest, Allowed
    <3>4. Can(l.user, "publish", [userId |-> l.user])
      BY <1>1, <3>2, <3>3 DEF MaySet
    <3>5. Can(l.user, "publish", stories'[id])
      <4> DEFINE row == [userId |-> l.user]
      <4>1. "userId" \in DOMAIN row /\ row.userId = l.user
        OBVIOUS
      <4>2. Can(l.user, "publish", row)
        BY <3>4
      <4> HIDE DEF row, l
      <4> QED
        BY <2>4, <3>2, <3>3, <4>1, <4>2, PublishByAuthor
    <3> QED
      BY <2>1, <2>2, <2>6, <3>5, WriterLeaves
  <2>7. CASE Save(r, {"update", "rollback"}, "record") /\ l.op \in {"update", "rollback"}
    <3>1. l.id \in Rows(stories) /\ l.id \in StoryIds /\ On(r) \in Story /\ On(r) = stories[l.id]
      BY <2>2, <2>7, StoryRow DEF Save, Lock, Live, On
    <3>2. PICK dropped \in BOOLEAN : SetStory(l.id, Edited(r, On(r), dropped))
      BY <2>7 DEF Save
    <3>3. l.id = id /\ stories'[id] = Edited(r, On(r), dropped)
      BY <1>1, <2>1, <2>2, <3>2, WrittenStory
    <3>4. /\ stories'[id].userId = On(r).userId
          /\ status = Given(l.body.status, On(r).status)
      BY <2>2, <2>7, <3>1, <3>2, <3>3, EditedRow DEF Save, SetStory
    <3>5. l.body.status # None /\ status = l.body.status
      BY <1>1, <3>1, <3>3, <3>4 DEF Given
    <3>6. at[r] = "write" /\ l.op \in Replaces
      BY <2>7 DEF Save, Replaces
    <3>7. l.op = "update"
      BY <2>5, <2>7, <3>5, <3>6 DEF BodyOK, IsRollback
    <3>8. l.body.status = l.seen.status \/ Can(l.user, "publish", l.seen)
      BY <1>1, <2>5, <3>5, <3>6, <3>7 DEF Allowed, MaySet
    <3>9. ASSUME Can(l.user, "publish", l.seen) PROVE Can(l.user, "publish", stories'[id])
      <4>1. l.seen \in Story /\ stories[l.id].userId = l.seen.userId /\ l.user \in Users
        BY <2>5, <3>1, <3>6 DEF BodyOK, SeenBefore, IsRequest
      <4> HIDE DEF l
      <4> QED
        BY <2>4, <3>1, <3>4, <3>9, <4>1, PublishByAuthor
    <3> QED
      BY <2>1, <2>2, <2>7, <3>5, <3>7, <3>8, <3>9, WriterLeaves
  <2>8. CASE WriteStatus(r) /\ l.op = "status"
    <3>1. l.id \in Rows(stories) /\ l.id \in StoryIds /\ On(r) \in Story /\ On(r) = stories[l.id]
      BY <2>2, <2>8, StoryRow DEF WriteStatus, UpdateIfVersion, Present, On
    <3> DEFINE changed == [On(r) EXCEPT !.status = l.body.status]
    <3>2. SetStory(l.id, [changed EXCEPT !.version = @ + 1])
      BY <2>8 DEF WriteStatus, UpdateIfVersion
    <3>3. l.id = id /\ stories'[id] = [changed EXCEPT !.version = @ + 1]
      BY <1>1, <2>1, <2>2, <3>2, WrittenStory
    <3>4. stories'[id].userId = On(r).userId
      BY <3>1, <3>3 DEF Story
    <3>5. at[r] = "write" /\ l.op \in Replaces
      BY <2>8 DEF WriteStatus, Replaces
    <3>6. /\ l.seen \in Story /\ stories[l.id].userId = l.seen.userId /\ l.user \in Users
          /\ Can(l.user, "publish", l.seen)
      BY <2>5, <2>8, <3>1, <3>5 DEF BodyOK, SeenBefore, IsRequest, Allowed
    <3>7. Can(l.user, "publish", stories'[id])
      <4> HIDE DEF l
      <4> QED
        BY <2>4, <3>1, <3>4, <3>6, PublishByAuthor
    <3> QED
      BY <2>1, <2>2, <2>8, <3>7, WriterLeaves
  <2>9. CASE SetDeleted(r)
    <3> DEFINE to == IF l.op = "remove" THEN "DELETED" ELSE "DRAFT"
    <3> DEFINE row == [On(r) EXCEPT !.deleted = (l.op = "remove"), !.status = to]
    <3>1. /\ l.id \in Rows(stories) /\ On(r) \in Story /\ SetStory(l.id, row)
      BY <2>2, <2>9, StoryRow DEF SetDeleted, Present, On
    <3>2. row.status \in AUTHOR_STATUSES \cup {"DELETED"}
      <4> HIDE DEF l
      <4> QED
        BY <3>1 DEF Story, AUTHOR_STATUSES
    <3> HIDE DEF row
    <3> QED
      BY <1>1, <2>1, <2>2, <3>1, <3>2, WrittenStory
  <2>10. CASE WriteLinks(r) \/ WriteImage(r)
    <3>1. PICK row : SetStory(l.id, row) /\ l.id \in Rows(stories) /\ row.status = On(r).status
      <4>1. l.id \in Rows(stories) /\ On(r) \in Story
        BY <2>2, <2>10, StoryRow DEF WriteLinks, WriteImage, UpdateIfVersion, Present, On
      <4>2. CASE WriteLinks(r)
        BY <4>1, <4>2, LinkedStatus
      <4>3. CASE WriteImage(r)
        <5> DEFINE changed == [On(r) EXCEPT !.image = l.body.file]
        <5>1. SetStory(l.id, [changed EXCEPT !.version = @ + 1])
          BY <4>3 DEF WriteImage, UpdateIfVersion
        <5>2. [changed EXCEPT !.version = @ + 1].status = On(r).status
          BY <4>1 DEF Story
        <5> QED
          BY <4>1, <5>1, <5>2
      <4> QED
        BY <2>10, <4>2, <4>3
    <3>2. l.id = id /\ stories'[id] = row
      BY <1>1, <2>1, <2>2, <3>1, WrittenStory
    <3> QED
      BY <1>1, <3>1, <3>2 DEF On
  <2> QED
    BY <2>1, <2>6, <2>7, <2>8, <2>9, <2>10, Writes
<1>2. IInv /\ [Next]_vars =>
        [\A id \in StoryIds :
           /\ stories'[id] \notin {None, Gone}
           /\ stories'[id].status \notin AUTHOR_STATUSES \cup {"DELETED"}
           /\ id \in Rows(stories) => stories[id].status # stories'[id].status
           => \E r \in Requests :
                /\ Wrote(r)
                /\ \/ Can(my[r].user, "publish", stories'[id])
                   \/ my[r].op = "update" /\ my[r].seen.status = stories'[id].status]_vars
  BY <1>1
<1> QED
  BY <1>2, Invariant, PTL DEF Spec, PublishedByEditors

\* A prune leaves of the versions above a version all that it keeps, unless one of them
\* was made from a deleted one while it ran (VersionCleanupProcessor).
THEOREM StoryPruningKeepsAncestors == Spec => PruningKeepsAncestors
<1>1. ASSUME IInv, [Next]_vars, prune # Idle, prune' = Idle, versions' # versions,
             NEW v \in Rows(versions) \ prune.doomed,
             Chain(versions, v) \cap
               ({w \in Rows(versions) \ DOMAIN prune.repointed :
                   versions[w].parent \in prune.doomed} \ prune.doomed) = {}
      PROVE  Chain(versions', v) = Chain(versions, v) \ prune.doomed
  <2>1. TypeOK /\ NumberedInOrder /\ Requested /\ Repointed
    BY <1>1 DEF IInv
  <2>2. PruneCommit
    <3>1. \A r \in Requests : ~StoryStep(r) /\ ~VersionStep(r)
      BY <1>1, <2>1, StoryStepTables, VersionStepTables
    <3>2. ~PruneFails /\ ~PruneSelect /\ ~UNCHANGED vars
      BY <1>1 DEF PruneFails, PruneSelect, vars
    <3> QED
      BY <1>1, <3>1, <3>2 DEF Next, HardDeleteStory
  <2>3. versions' = Pruned(versions, prune.doomed, prune.repointed)
    BY <2>2, CommitIsPruned
  <2>4. /\ History(versions) /\ prune.doomed \in SUBSET Rows(versions)
        /\ RepointedIn(versions, prune.doomed, prune.repointed)
    BY <2>1, TypedHistory, RepointedNow DEF HistoryOK
  <2>5. Chain(versions, v) \subseteq Rows(versions)
    BY <1>1, <2>4, ChainClosed DEF History
  <2>6. \A w \in Chain(versions, v) \ prune.doomed :
          w \in DOMAIN prune.repointed \/ versions[w].parent \notin prune.doomed
    BY <1>1, <2>5
  <2> QED
    BY <1>1, <2>3, <2>4, <2>6, PruneKeepsChain
<1>2. IInv /\ [Next]_vars =>
        [prune # Idle /\ prune' = Idle /\ versions' # versions =>
           LET late == {v \in Rows(versions) \ DOMAIN prune.repointed :
                          versions[v].parent \in prune.doomed}
           IN  \A v \in Rows(versions) \ prune.doomed :
                 Chain(versions, v) \cap (late \ prune.doomed) = {} =>
                   Chain(versions', v) = Chain(versions, v) \ prune.doomed]_vars
  BY <1>1
<1> QED
  BY <1>2, Invariant, PTL DEF Spec, PruningKeepsAncestors
=============================================================================
