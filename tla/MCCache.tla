------------------------------ MODULE MCCache ------------------------------
(* Instances of Cache for TLC. *)
EXTENDS Cache, FiniteSets, TLC

TtlOfEntries == [e \in Entries |-> IF e = "list" THEN 2 ELSE 1]

Symmetry == Permutations(Fills)

(* A fill that can no longer send anything. *)
Doomed(f) ==
  \/ stage[f] \in {"fenced", "loaded"} /\ age[f] > MaxAge
  \/ stage[f] = "loaded" /\ ~Cacheable(key[f], loaded[f])

(* Fence numbers matter only where they beat the fence of a running fill: once it *)
(* has loaded, the youngest of those of its value's tags.                          *)
Ahead(f, tags) == {t \in tags : fence[t] > since[f]}

Refusal(f) ==
  IF stage[f] = "fenced" THEN {<<t, fenceAge[t]>> : t \in Ahead(f, Tags)}
  ELSE LET ages == {fenceAge[t] : t \in Ahead(f, TagsOf(key[f], loaded[f]))}
       IN  {a \in ages : \A b \in ages : a <= b}

(* A command's caller stops waiting at the next tick, so the age says who is overdue. *)
Canonical ==
  <<database, stored, left, sets, setLeft, overdue, owed, lostTags, writes,
    [f \in Fills |->
       IF stage[f] = "idle" THEN <<>>
       ELSE <<stage[f], key[f], age[f], loaded[f], Refusal(f)>>]>>

(* Bounds: states with two entries, with an overdue entry, where a command that is   *)
(* overdue meets another fill, where a fill can only give up (and could before), or  *)
(* where one invalidation is lost and another not sent yet (as late as the lost one) *)
(* are checked, but not left.                                                        *)
OneCached ==
  /\ Cardinality({e \in Entries : Cached(e)}) <= 1
  /\ overdue = {}
  /\ \A f, g \in Fills : Overdue(f) /\ f # g => stage[g] = "idle"
  /\ \A f \in Fills : ~Doomed(f)
  /\ lostTags # {} => \A w \in Writers : owed[w] = {}
=============================================================================
