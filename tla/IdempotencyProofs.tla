------------------------- MODULE IdempotencyProofs -------------------------
(* Proofs about Idempotency, for every set of requests and keys, every     *)
(* lease and every TTL.                                                    *)
EXTENDS Idempotency, TLAPS

\* The request has claimed nothing yet, nor has its id been used.
Fresh(r) == pc[r] \in {"idle"} \cup Beginning

\* A row id and a lockId are drawn once.
IdsUnique ==
  \A r \in Requests :
    Fresh(r) =>
      /\ \A k \in Keys : rows[k] # NoRow => rows[k].id # r /\ rows[k].lockId # r
      /\ \A s \in Requests \ {r} : id[s] # r
      /\ pc[r] \in {"expire", "takeover"} => id[r] # r
      /\ r \notin stored

\* What a request read of a row before its next statement, and may still use.
ReadsStable ==
  \A r \in Requests :
    (RowOf(r) # NoRow /\ RowOf(r).id = id[r]) =>
      /\ pc[r] = "expire" => Expired(RowOf(r))
      /\ pc[r] = "takeover" => SameRequest(r)

\* A lock belongs to a request for this key and fingerprint; while it runs,
\* the row's ages are the ones its own history gives.
LockCoherent ==
  \A k \in Keys :
    rows[k] # NoRow =>
      LET r == rows[k].lockId IN
      /\ call[r] = [key |-> k, hash |-> rows[k].hash]
      /\ (pc[r] \in Live /\ id[r] = rows[k].id) =>
           rows[k].lockAge = beatAge[r] /\ rows[k].life = rowLife[r]

\* A running request has lost its key only by lapsing.
LapseOnly == HolderUnlessLapsed

\* A completed row carries the outcome of a request with its key and hash.
OutcomeOwned ==
  /\ \A k \in Keys :
       (rows[k] # NoRow /\ rows[k].status = "completed") =>
         /\ rows[k].outcome \in stored
         /\ call[rows[k].outcome] = [key |-> k, hash |-> rows[k].hash]
  /\ \A r \in stored :
       /\ pc[r] \in {"store", "answered", "dead"}
       /\ pc[r] = "answered" => answer[r] = [kind |-> "ran", by |-> r]

\* OutcomeKept, with the age of the row that makes it inductive.
OutcomeAged ==
  \A r \in stored :
    \/ rowLife[r] >= Ttl
    \/ /\ RowOf(r) # NoRow
       /\ RowOf(r).status = "completed"
       /\ RowOf(r).outcome = r
       /\ RowOf(r).life = rowLife[r]

IInv ==
  /\ TypeOK
  /\ IdsUnique
  /\ ReadsStable
  /\ LockCoherent
  /\ LapseOnly
  /\ OutcomeOwned
  /\ OutcomeAged
  /\ ReplayFaithful

-----------------------------------------------------------------------------
\* Ages never decrease, and stay natural numbers.
LEMMA OlderType ==
  ASSUME NEW age \in Nat, NEW limit \in Nat
  PROVE  Older(age, limit) \in Nat /\ Older(age, limit) >= age
BY DEF Older

Table == [Keys -> Row \cup {NoRow}]

\* What a request refers to is in the table, and is a row where there is one.
LEMMA RowType ==
  ASSUME TypeOK, NEW r \in Requests
  PROVE  /\ K(r) \in Keys
         /\ call[r].hash \in Hashes
         /\ RowOf(r) \in Row \cup {NoRow}
         /\ RowOf(r) # NoRow => RowOf(r) \in Row
<1>1. call[r] \in [key : Keys, hash : Hashes]
  BY DEF TypeOK
<1> QED
  BY <1>1 DEF TypeOK, K, RowOf

LEMMA NewRowType ==
  ASSUME TypeOK, NEW r \in Requests
  PROVE  NewRow(r) \in Row
BY RowType DEF NewRow, Row

\* Every statement maps a table to a table.
LEMMA TableOps ==
  ASSUME TypeOK, NEW r \in Requests
  PROVE  /\ Inserted(r) \in Table
         /\ DeletedExpired(r) \in Table
         /\ TakenOver(r) \in Table
         /\ Completed(r) \in Table
         /\ Released(r) \in Table
         /\ Holds(r) => [rows EXCEPT ![K(r)].lockAge = 0] \in Table
<1>1. rows \in Table
  BY DEF TypeOK, Table
<1>2. Inserted(r) \in Table
  BY <1>1, RowType, NewRowType DEF Inserted, Table
<1>3. DeletedExpired(r) \in Table /\ Released(r) \in Table
  BY <1>1, RowType DEF DeletedExpired, Released, Table
<1>4. ASSUME RowOf(r) # NoRow
      PROVE  /\ [RowOf(r) EXCEPT !.lockAge = 0, !.lockId = r] \in Row
             /\ [RowOf(r) EXCEPT !.status = "completed", !.outcome = r] \in Row
             /\ [RowOf(r) EXCEPT !.lockAge = 0] \in Row
  BY <1>4, RowType DEF Row
<1>5. TakenOver(r) \in Table
  BY <1>1, <1>4, RowType DEF TakenOver, CanTakeOver, Table, RowOf
<1>6. Completed(r) \in Table
  BY <1>1, <1>4, RowType DEF Completed, Holds, Table, RowOf
<1>7. Holds(r) => [rows EXCEPT ![K(r)].lockAge = 0] \in Table
  BY <1>1, <1>4, RowType DEF Holds, Table, RowOf
<1> QED
  BY <1>2, <1>3, <1>5, <1>6, <1>7

LEMMA StandsNames ==
  /\ "answered" \in Stands /\ "dead" \in Stands /\ "idle" \in Stands
  /\ "insert" \in Stands /\ "look" \in Stands /\ "expire" \in Stands
  /\ "takeover" \in Stands /\ "running" \in Stands /\ "store" \in Stands
  /\ "record" \in Stands /\ "release" \in Stands
BY DEF Stands, Beginning, Live

LEMMA AnswerTypes ==
  ASSUME TypeOK, NEW r \in Requests, NEW by \in Requests \cup {Nobody},
         NEW kind \in {"conflict", "mismatch", "error", "replay", "ran"},
         Answer(r, kind, by)
  PROVE  /\ pc' \in [Requests -> Stands]
         /\ answer' \in [Requests -> Answers]
<1>1. [kind |-> kind, by |-> by] \in Answers
  BY DEF Answers
<1> QED
  BY <1>1, StandsNames DEF Answer, TypeOK

LEMMA StartTypes ==
  ASSUME TypeOK, NEW r \in Requests, NEW row \in Row, Start(r, row)
  PROVE  /\ pc' \in [Requests -> Stands]
         /\ tries' \in [Requests -> Nat]
         /\ beatAge' \in [Requests -> Nat]
         /\ rowLife' \in [Requests -> Nat]
         /\ id' \in [Requests -> Requests]
         /\ answer' = answer
<1>1. row.life \in Nat /\ row.id \in Requests
  BY DEF Row
<1> QED
  BY <1>1, StandsNames DEF Start, TypeOK

LEMMA AgainTypes ==
  ASSUME TypeOK, NEW r \in Requests, Again(r)
  PROVE  /\ pc' \in [Requests -> Stands]
         /\ tries' \in [Requests -> Nat]
         /\ answer' \in [Requests -> Answers]
         /\ UNCHANGED <<id, beatAge, rowLife>>
<1>1. CASE tries[r] = 0
  BY <1>1, StandsNames DEF Again, TypeOK
<1>2. CASE tries[r] # 0
  BY <1>2, AnswerTypes DEF Again, TypeOK
<1> QED
  BY <1>1, <1>2

\* Every variable keeps its type, whatever the number of requests and keys.
LEMMA TypeInit == Init => TypeOK
BY ConstantsAssumption, StandsNames DEF Init, TypeOK, Answers

LEMMA TypeStep == TypeOK /\ [Next]_vars => TypeOK'
<1> SUFFICES ASSUME TypeOK, [Next]_vars PROVE TypeOK'
  OBVIOUS
<1> USE StandsNames DEF Table
<1>1. ASSUME NEW r \in Requests, Arrive(r) PROVE TypeOK'
  BY <1>1 DEF Arrive, TypeOK
<1>2. ASSUME NEW r \in Requests, Insert(r) PROVE TypeOK'
  <2>1. CASE RowOf(r) = NoRow
    <3>1. Start(r, NewRow(r)) /\ UNCHANGED <<call, stored>>
      BY <1>2, <2>1 DEF Insert
    <3>2. rows' \in Table
      BY <1>2, TableOps DEF Insert
    <3> QED
      BY <3>1, <3>2, StartTypes, NewRowType DEF TypeOK
  <2>2. CASE RowOf(r) # NoRow
    <3>1. rows' \in Table
      BY <1>2, TableOps DEF Insert
    <3>2. /\ pc' = [pc EXCEPT ![r] = "look"]
          /\ UNCHANGED <<call, tries, id, answer, stored, beatAge, rowLife>>
      BY <1>2, <2>2 DEF Insert
    <3> QED
      BY <3>1, <3>2 DEF TypeOK
  <2> QED
    BY <2>1, <2>2
<1>3. ASSUME NEW r \in Requests, Look(r) PROVE TypeOK'
  <2>1. CASE RowOf(r) = NoRow
    BY <1>3, <2>1, AgainTypes DEF Look, TypeOK
  <2>2. CASE RowOf(r) # NoRow
    <3>1. /\ RowOf(r).id \in Requests
          /\ RowOf(r).outcome \in Requests \cup {Nobody}
      BY <2>2, RowType DEF Row
    <3>2. id' \in [Requests -> Requests]
      BY <1>3, <2>2, <3>1 DEF Look, TypeOK
    <3>3. UNCHANGED <<rows, call, stored, tries, beatAge, rowLife>>
      BY <1>3, <2>2 DEF Look
    <3>4. CASE /\ UNCHANGED answer
               /\ \/ pc' = [pc EXCEPT ![r] = "expire"]
                  \/ pc' = [pc EXCEPT ![r] = "takeover"]
      <4>1. pc' \in [Requests -> Stands]
        BY <3>4 DEF TypeOK
      <4> QED
        BY <3>2, <3>3, <3>4, <4>1 DEF TypeOK
    <3>5. CASE \/ Answer(r, "mismatch", Nobody)
               \/ Answer(r, "replay", RowOf(r).outcome)
      BY <3>1, <3>2, <3>3, <3>5, AnswerTypes DEF TypeOK
    <3> QED
      BY <1>3, <2>2, <3>4, <3>5 DEF Look
  <2> QED
    BY <2>1, <2>2
<1>4. ASSUME NEW r \in Requests, DeleteExpired(r) PROVE TypeOK'
  BY <1>4, TableOps, AgainTypes DEF DeleteExpired, TypeOK
<1>5. ASSUME NEW r \in Requests, TakeOverAbandoned(r) PROVE TypeOK'
  <2>1. rows' \in Table /\ UNCHANGED <<call, stored>>
    BY <1>5, TableOps DEF TakeOverAbandoned
  <2>2. CASE CanTakeOver(r)
    <3>1. RowOf(r) \in Row /\ Start(r, RowOf(r))
      BY <1>5, <2>2, RowType DEF TakeOverAbandoned, CanTakeOver
    <3> QED
      BY <2>1, <3>1, StartTypes DEF TypeOK
  <2>3. CASE ~CanTakeOver(r)
    BY <1>5, <2>1, <2>3, AnswerTypes DEF TakeOverAbandoned, TypeOK
  <2> QED
    BY <2>2, <2>3
<1>6. ASSUME NEW r \in Requests, BeginFails(r) PROVE TypeOK'
  <2>1. rows' \in Table
    BY <1>6, TableOps DEF BeginFails, TypeOK
  <2> QED
    BY <1>6, <2>1, AnswerTypes DEF BeginFails, TypeOK
<1>7. ASSUME NEW r \in Requests, Beat(r) PROVE TypeOK'
  BY <1>7, TableOps DEF Beat, TypeOK
<1>8. ASSUME NEW r \in Requests, Finish(r) PROVE TypeOK'
  BY <1>8 DEF Finish, TypeOK
<1>9. ASSUME NEW r \in Requests, Store(r) PROVE TypeOK'
  <2>1. rows' \in Table /\ stored' \in SUBSET Requests
    <3>1. Complete(r) \/ UNCHANGED <<rows, stored>>
      BY <1>9 DEF Store
    <3> QED
      BY <3>1, TableOps DEF Complete, TypeOK
  <2>2. /\ tries' \in [Requests -> Nat]
        /\ UNCHANGED <<call, id, beatAge, rowLife>>
    BY <1>9 DEF Store, TypeOK
  <2>3. Answer(r, "ran", r) \/ UNCHANGED <<pc, answer>>
    BY <1>9 DEF Store
  <2> QED
    BY <2>1, <2>2, <2>3, AnswerTypes DEF TypeOK
<1>10. ASSUME NEW r \in Requests, Record(r) PROVE TypeOK'
  <2>1. rows' \in Table /\ stored' \in SUBSET Requests
    BY <1>10, TableOps DEF Record, Complete, TypeOK
  <2> QED
    BY <1>10, <2>1, AnswerTypes DEF Record, TypeOK
<1>11. ASSUME NEW r \in Requests, Release(r) PROVE TypeOK'
  <2>1. rows' \in Table
    BY <1>11, TableOps DEF Release, TypeOK
  <2> QED
    BY <1>11, <2>1, AnswerTypes DEF Release, TypeOK
<1>12. ASSUME NEW r \in Requests, Die(r) PROVE TypeOK'
  BY <1>12 DEF Die, TypeOK
<1>13. CASE PruneExpired
  BY <1>13 DEF PruneExpired, TypeOK
<1>14. CASE Tick
  <2>1. ASSUME NEW k \in Keys, rows[k] # NoRow
        PROVE  [rows[k] EXCEPT !.lockAge = Older(@, Lease),
                               !.life = Older(@, Ttl)] \in Row
    <3>1. rows[k] \in Row
      BY <2>1 DEF TypeOK
    <3>2. /\ Older(rows[k].lockAge, Lease) \in Nat
          /\ Older(rows[k].life, Ttl) \in Nat
      BY <3>1, OlderType, ConstantsAssumption DEF Row
    <3> QED
      BY <3>1, <3>2 DEF Row
  <2>2. rows' \in Table
    BY <1>14, <2>1 DEF Tick
  <2>3. /\ beatAge' \in [Requests -> Nat]
        /\ rowLife' \in [Requests -> Nat]
    BY <1>14, OlderType, ConstantsAssumption DEF Tick, TypeOK
  <2> QED
    BY <1>14, <2>2, <2>3 DEF Tick, TypeOK
<1>15. CASE UNCHANGED vars
  BY <1>15 DEF vars, TypeOK
<1> QED
  BY <1>1, <1>2, <1>3, <1>4, <1>5, <1>6, <1>7, <1>8, <1>9, <1>10, <1>11,
     <1>12, <1>13, <1>14, <1>15 DEF Next

(* Every statement of begin, renew, complete, release and pruneExpired     *)
(* leaves the table and the requests well typed.                           *)
THEOREM TypeCorrect == Spec => []TypeOK
<1>1. QED
  BY TypeInit, TypeStep, PTL DEF Spec
-----------------------------------------------------------------------------
(* What each statement does to the row of a key, field by field.           *)

\* Two rows are the same but for the fields in which a takeover differs.
SameClaim(new, old) ==
  /\ new # NoRow /\ old # NoRow
  /\ new.id = old.id /\ new.hash = old.hash

LEMMA InsertEffect ==
  ASSUME TypeOK, NEW q \in Requests, rows' = Inserted(q), NEW k \in Keys
  PROVE  \/ rows'[k] = rows[k]
         \/ k = K(q) /\ rows[k] = NoRow /\ rows'[k] = NewRow(q)
BY RowType DEF Inserted, TypeOK, RowOf

LEMMA DeleteEffect ==
  ASSUME TypeOK, NEW q \in Requests, rows' = DeletedExpired(q), NEW k \in Keys
  PROVE  \/ rows'[k] = rows[k]
         \/ /\ k = K(q) /\ rows[k] # NoRow /\ rows[k].id = id[q]
            /\ rows'[k] = NoRow
BY RowType DEF DeletedExpired, TypeOK, RowOf

LEMMA TakeOverEffect ==
  ASSUME TypeOK, NEW q \in Requests, rows' = TakenOver(q), NEW k \in Keys
  PROVE  \/ rows'[k] = rows[k]
         \/ /\ k = K(q) /\ CanTakeOver(q) /\ SameClaim(rows'[k], rows[k])
            /\ rows[k].id = id[q]
            /\ rows[k].status = "in_progress" /\ rows[k].lockAge > Lease
            /\ rows'[k].status = "in_progress"
            /\ rows'[k].outcome = rows[k].outcome
            /\ rows'[k].life = rows[k].life
            /\ rows'[k].lockAge = 0 /\ rows'[k].lockId = q
<1>1. CASE ~CanTakeOver(q) \/ k # K(q)
  BY <1>1, RowType DEF TakenOver, TypeOK
<1>2. CASE CanTakeOver(q) /\ k = K(q)
  <2>1. rows[k] \in Row /\ rows[k] = RowOf(q)
    BY <1>2, RowType DEF CanTakeOver, RowOf
  <2>2. rows'[k] = [rows[k] EXCEPT !.lockAge = 0, !.lockId = q]
    BY <1>2, RowType DEF TakenOver, TypeOK
  <2>3. rows'[k] # NoRow
    <3>1. [rows[k] EXCEPT !.lockAge = 0, !.lockId = q] \in Row
      BY <2>1 DEF Row
    <3> QED
      BY <2>2, <3>1, ConstantsAssumption
  <2> QED
    BY <1>2, <2>1, <2>2, <2>3, ConstantsAssumption
    DEF CanTakeOver, Abandoned, Row, SameClaim
<1> QED
  BY <1>1, <1>2

LEMMA CompleteEffect ==
  ASSUME TypeOK, NEW q \in Requests, Complete(q), NEW k \in Keys
  PROVE  \/ rows'[k] = rows[k] /\ ~(Holds(q) /\ k = K(q))
         \/ /\ k = K(q) /\ Holds(q) /\ SameClaim(rows'[k], rows[k])
            /\ rows[k].id = id[q] /\ rows[k].lockId = q
            /\ rows[k].status = "in_progress"
            /\ rows'[k].status = "completed" /\ rows'[k].outcome = q
            /\ rows'[k].life = rows[k].life
            /\ rows'[k].lockAge = rows[k].lockAge
            /\ rows'[k].lockId = rows[k].lockId
<1>1. CASE ~Holds(q) \/ k # K(q)
  BY <1>1, RowType DEF Complete, Completed, TypeOK
<1>2. CASE Holds(q) /\ k = K(q)
  <2>1. rows[k] \in Row /\ rows[k] = RowOf(q)
    BY <1>2, RowType DEF Holds, RowOf
  <2>2. rows'[k] = [rows[k] EXCEPT !.status = "completed", !.outcome = q]
    BY <1>2, RowType DEF Complete, Completed, TypeOK
  <2>3. rows'[k] # NoRow
    <3>1. rows'[k] \in Row
      BY <2>1, <2>2 DEF Row
    <3> QED
      BY <3>1, ConstantsAssumption
  <2> QED
    BY <1>2, <2>1, <2>2, <2>3 DEF Holds, Row, SameClaim
<1> QED
  BY <1>1, <1>2

LEMMA BeatEffect ==
  ASSUME TypeOK, NEW q \in Requests, Beat(q), NEW k \in Keys
  PROVE  \/ rows'[k] = rows[k] /\ k # K(q)
         \/ /\ k = K(q) /\ Holds(q) /\ SameClaim(rows'[k], rows[k])
            /\ rows[k].id = id[q] /\ rows[k].lockId = q
            /\ rows'[k].status = rows[k].status
            /\ rows'[k].outcome = rows[k].outcome
            /\ rows'[k].life = rows[k].life
            /\ rows'[k].lockAge = 0
            /\ rows'[k].lockId = rows[k].lockId
<1>1. CASE k # K(q)
  BY <1>1, RowType DEF Beat, TypeOK
<1>2. CASE k = K(q)
  <2>1. rows[k] \in Row /\ rows[k] = RowOf(q)
    BY <1>2, RowType DEF Beat, Holds, RowOf
  <2>2. rows'[k] = [rows[k] EXCEPT !.lockAge = 0]
    BY <1>2, RowType DEF Beat, TypeOK
  <2>3. rows'[k] # NoRow
    <3>1. rows'[k] \in Row
      BY <2>1, <2>2 DEF Row
    <3> QED
      BY <3>1, ConstantsAssumption
  <2> QED
    BY <1>2, <2>1, <2>2, <2>3 DEF Beat, Holds, Row, SameClaim
<1> QED
  BY <1>1, <1>2

LEMMA TickEffect ==
  ASSUME TypeOK, Tick, NEW k \in Keys
  PROVE  \/ rows'[k] = NoRow /\ rows[k] = NoRow
         \/ /\ SameClaim(rows'[k], rows[k])
            /\ rows'[k].status = rows[k].status
            /\ rows'[k].outcome = rows[k].outcome
            /\ rows'[k].lockId = rows[k].lockId
            /\ rows'[k].lockAge = Older(rows[k].lockAge, Lease)
            /\ rows'[k].life = Older(rows[k].life, Ttl)
            /\ rows'[k].life >= rows[k].life
<1>1. CASE rows[k] = NoRow
  BY <1>1 DEF Tick
<1>2. CASE rows[k] # NoRow
  <2>1. rows[k] \in Row
    BY <1>2 DEF TypeOK
  <2>2. rows'[k] = [rows[k] EXCEPT !.lockAge = Older(@, Lease),
                                   !.life = Older(@, Ttl)]
    BY <1>2 DEF Tick
  <2>3. rows'[k] # NoRow
    <3>1. /\ Older(rows[k].lockAge, Lease) \in Nat
          /\ Older(rows[k].life, Ttl) \in Nat
      BY <2>1, OlderType, ConstantsAssumption DEF Row
    <3>2. rows'[k] \in Row
      BY <2>1, <2>2, <3>1 DEF Row
    <3> QED
      BY <3>2, ConstantsAssumption
  <2> QED
    BY <1>2, <2>1, <2>2, <2>3, OlderType, ConstantsAssumption DEF Row, SameClaim
<1> QED
  BY <1>1, <1>2

LEMMA TickAges ==
  ASSUME TypeOK, Tick, NEW r \in Requests
  PROVE  /\ beatAge'[r] = Older(beatAge[r], Lease)
         /\ rowLife'[r] = Older(rowLife[r], Ttl)
         /\ beatAge'[r] >= beatAge[r] /\ rowLife'[r] >= rowLife[r]
BY OlderType, ConstantsAssumption DEF Tick, TypeOK
(* A statement by the holder of a lock, and the clock, leave a row's ids.   *)
ClaimKept(k) ==
  rows'[k] # NoRow =>
    rows[k] # NoRow /\ SameClaim(rows'[k], rows[k])
    /\ rows'[k].lockId = rows[k].lockId

LEMMA ClaimsKept ==
  ASSUME TypeOK, NEW k \in Keys,
         \/ Tick
         \/ \E q \in Requests : Beat(q) \/ Store(q) \/ Record(q) \/ Release(q)
  PROVE  ClaimKept(k)
<1>1. CASE Tick
  BY <1>1, TickEffect DEF ClaimKept, SameClaim
<1>2. ASSUME NEW q \in Requests, Beat(q) PROVE ClaimKept(k)
  BY <1>2, BeatEffect DEF ClaimKept, SameClaim
<1>3. ASSUME NEW q \in Requests, Store(q) \/ Record(q) PROVE ClaimKept(k)
  <2>1. Complete(q) \/ rows' = rows
    BY <1>3 DEF Store, Record
  <2> QED
    BY <2>1, CompleteEffect DEF ClaimKept, SameClaim
<1>4. ASSUME NEW q \in Requests, Release(q) PROVE ClaimKept(k)
  BY <1>4, RowType DEF Release, Released, ClaimKept, SameClaim, TypeOK
<1> QED
  BY <1>1, <1>2, <1>3, <1>4

LEMMA IdsUniqueStep == IInv /\ TypeOK' /\ [Next]_vars => IdsUnique'
<1> SUFFICES ASSUME IInv, TypeOK', [Next]_vars PROVE IdsUnique'
  OBVIOUS
<1>1. ASSUME NEW q \in Requests, Arrive(q) PROVE IdsUnique'
  BY <1>1, ConstantsAssumption DEF IInv, TypeOK, Row, Stands, Beginning,
     Live, K, RowOf, IdsUnique, Fresh, Arrive
<1>2. ASSUME NEW q \in Requests, Insert(q) PROVE IdsUnique'
  BY <1>2, ConstantsAssumption DEF IInv, TypeOK, Row, Stands, Beginning,
     Live, K, RowOf, IdsUnique, Fresh, Insert, Inserted, Start, NewRow
<1>3. ASSUME NEW q \in Requests, Look(q) PROVE IdsUnique'
  BY <1>3, ConstantsAssumption DEF IInv, TypeOK, Row, Stands, Beginning,
     Live, K, RowOf, IdsUnique, Fresh, Look, Again, Answer
<1>4. ASSUME NEW q \in Requests, DeleteExpired(q) PROVE IdsUnique'
  BY <1>4, ConstantsAssumption DEF IInv, TypeOK, Row, Stands, Beginning,
     Live, K, RowOf, IdsUnique, Fresh, DeleteExpired, DeletedExpired, Again,
     Answer
<1>5. ASSUME NEW q \in Requests, TakeOverAbandoned(q) PROVE IdsUnique'
  <2>1. /\ pc' \in [Requests -> Stands] /\ stored' = stored /\ ~Fresh(q)'
        /\ \A r \in Requests : Fresh(r)' => Fresh(r) /\ pc'[r] = pc[r] /\ r # q
    BY <1>5 DEF TakeOverAbandoned, Start, Answer, Fresh, Beginning, IInv, TypeOK
  <2>2. \A r \in Requests : id'[r] = id[r]
    BY <1>5 DEF TakeOverAbandoned, CanTakeOver, Start, IInv, TypeOK
  <2>3. ASSUME NEW k \in Keys, rows'[k] # NoRow
        PROVE  /\ rows[k] # NoRow /\ rows'[k].id = rows[k].id
               /\ rows'[k].lockId \in {rows[k].lockId, q}
    BY <1>5, <2>3, TakeOverEffect DEF TakeOverAbandoned, SameClaim, IInv
  <2> QED
    BY <2>1, <2>2, <2>3 DEF IInv, IdsUnique
<1>6. ASSUME NEW q \in Requests, BeginFails(q) PROVE IdsUnique'
  <2>1. /\ stored' = stored /\ id' = id
        /\ \A r \in Requests : Fresh(r)' => Fresh(r) /\ pc'[r] = pc[r] /\ r # q
    BY <1>6 DEF BeginFails, Answer, Fresh, Beginning, IInv, TypeOK
  <2>2. ASSUME NEW k \in Keys, rows'[k] # NoRow
        PROVE  \/ rows'[k].id = q /\ rows'[k].lockId = q
               \/ /\ rows[k] # NoRow /\ rows'[k].id = rows[k].id
                  /\ rows'[k].lockId \in {rows[k].lockId, q}
    <3>1. \/ rows' = rows \/ rows' = Inserted(q)
          \/ rows' = DeletedExpired(q) \/ rows' = TakenOver(q)
      BY <1>6 DEF BeginFails
    <3>2. CASE rows' = Inserted(q)
      <4>1. \/ rows'[k] = rows[k] \/ rows'[k] = NewRow(q)
        BY <3>2, InsertEffect DEF IInv
      <4> QED
        BY <2>2, <4>1 DEF NewRow
    <3>3. CASE rows' = DeletedExpired(q)
      BY <2>2, <3>3, DeleteEffect DEF IInv
    <3>4. CASE rows' = TakenOver(q)
      BY <2>2, <3>4, TakeOverEffect DEF SameClaim, IInv
    <3> QED
      BY <2>2, <3>1, <3>2, <3>3, <3>4
  <2> QED
    BY <2>1, <2>2 DEF IInv, IdsUnique
<1>7. ASSUME NEW q \in Requests, Beat(q) PROVE IdsUnique'
  BY <1>7, ConstantsAssumption DEF IInv, TypeOK, Row, Stands, Beginning,
     Live, K, RowOf, IdsUnique, Fresh, Beat, Holds
<1>8. ASSUME NEW q \in Requests, Finish(q) PROVE IdsUnique'
  BY <1>8, ConstantsAssumption DEF IInv, TypeOK, Row, Stands, Beginning,
     Live, K, RowOf, IdsUnique, Fresh, Finish
<1>9. ASSUME NEW q \in Requests, Store(q) PROVE IdsUnique'
  <2>1. \A k \in Keys : ClaimKept(k)
    BY <1>9, ClaimsKept DEF IInv
  <2>2. /\ id' = id
        /\ \A r \in Requests : Fresh(r)' => Fresh(r) /\ pc'[r] = pc[r]
    BY <1>9 DEF Store, Answer, Fresh, Beginning, IInv, TypeOK
  <2>3. \A r \in Requests : Fresh(r) => r \notin stored'
    BY <1>9 DEF Store, Complete, Holds, Fresh, Beginning, IInv, IdsUnique, TypeOK
  <2> QED
    BY <2>1, <2>2, <2>3 DEF ClaimKept, SameClaim, IInv, IdsUnique
<1>10. ASSUME NEW q \in Requests, Record(q) PROVE IdsUnique'
  <2>1. \A k \in Keys : ClaimKept(k)
    BY <1>10, ClaimsKept DEF IInv
  <2>2. /\ id' = id
        /\ \A r \in Requests : Fresh(r)' => Fresh(r) /\ pc'[r] = pc[r]
    BY <1>10 DEF Record, Answer, Fresh, Beginning, IInv, TypeOK
  <2>3. \A r \in Requests : Fresh(r) => r \notin stored'
    BY <1>10 DEF Record, Complete, Holds, Fresh, Beginning, IInv, IdsUnique, TypeOK
  <2> QED
    BY <2>1, <2>2, <2>3 DEF ClaimKept, SameClaim, IInv, IdsUnique
<1>11. ASSUME NEW q \in Requests, Release(q) PROVE IdsUnique'
  <2>1. \A k \in Keys : ClaimKept(k)
    BY <1>11, ClaimsKept DEF IInv
  <2>2. /\ id' = id
        /\ \A r \in Requests : Fresh(r)' => Fresh(r) /\ pc'[r] = pc[r]
    BY <1>11 DEF Release, Answer, Fresh, Beginning, IInv, TypeOK
  <2>3. \A r \in Requests : Fresh(r) => r \notin stored'
    BY <1>11 DEF Release, Complete, Holds, Fresh, Beginning, IInv, IdsUnique, TypeOK
  <2> QED
    BY <2>1, <2>2, <2>3 DEF ClaimKept, SameClaim, IInv, IdsUnique
<1>12. ASSUME NEW q \in Requests, Die(q) PROVE IdsUnique'
  BY <1>12, ConstantsAssumption DEF IInv, TypeOK, Row, Stands, Beginning,
     Live, K, RowOf, IdsUnique, Fresh, Die
<1>13. CASE PruneExpired
  BY <1>13, ConstantsAssumption DEF IInv, TypeOK, Row, Stands, Beginning, Live,
     K, RowOf, IdsUnique, Fresh, PruneExpired, Prunable
<1>14. CASE Tick
  <2>1. \A k \in Keys : ClaimKept(k)
    BY <1>14, ClaimsKept DEF IInv
  <2>2. /\ id' = id
        /\ \A r \in Requests : Fresh(r)' => Fresh(r) /\ pc'[r] = pc[r]
    BY <1>14 DEF Tick, Answer, Fresh, Beginning, IInv, TypeOK
  <2>3. \A r \in Requests : Fresh(r) => r \notin stored'
    BY <1>14 DEF Tick, Complete, Holds, Fresh, Beginning, IInv, IdsUnique, TypeOK
  <2> QED
    BY <2>1, <2>2, <2>3 DEF ClaimKept, SameClaim, IInv, IdsUnique
<1>15. CASE UNCHANGED vars
  BY <1>15, ConstantsAssumption DEF IInv, TypeOK, Row, Stands, Beginning, Live,
     K, RowOf, IdsUnique, Fresh, vars
<1> QED
  BY <1>1, <1>2, <1>3, <1>4, <1>5, <1>6, <1>7, <1>8, <1>9, <1>10, <1>11,
     <1>12, <1>13, <1>14, <1>15 DEF Next

LEMMA ReadsStableStep == IInv /\ TypeOK' /\ [Next]_vars => ReadsStable'
<1> SUFFICES ASSUME IInv, TypeOK', [Next]_vars PROVE ReadsStable'
  OBVIOUS
<1>1. ASSUME NEW q \in Requests, Arrive(q) PROVE ReadsStable'
  BY <1>1, ConstantsAssumption DEF IInv, TypeOK, Row, Stands, Beginning,
     Live, K, RowOf, ReadsStable, IdsUnique, Fresh, Expired, SameRequest,
     Arrive
<1>2. ASSUME NEW q \in Requests, Insert(q) PROVE ReadsStable'
  BY <1>2, ConstantsAssumption DEF IInv, TypeOK, Row, Stands, Beginning,
     Live, K, RowOf, ReadsStable, IdsUnique, Fresh, Expired, SameRequest,
     Insert, Inserted, Start, NewRow
<1>3. ASSUME NEW q \in Requests, Look(q) PROVE ReadsStable'
  BY <1>3, ConstantsAssumption DEF IInv, TypeOK, Row, Stands, Beginning,
     Live, K, RowOf, ReadsStable, IdsUnique, Fresh, Expired, SameRequest,
     Look, Again, Answer
<1>4. ASSUME NEW q \in Requests, DeleteExpired(q) PROVE ReadsStable'
  BY <1>4, ConstantsAssumption DEF IInv, TypeOK, Row, Stands, Beginning,
     Live, K, RowOf, ReadsStable, IdsUnique, Fresh, Expired, SameRequest,
     DeleteExpired, DeletedExpired, Again, Answer
<1>5. ASSUME NEW q \in Requests, TakeOverAbandoned(q) PROVE ReadsStable'
  BY <1>5, ConstantsAssumption DEF IInv, TypeOK, Row, Stands, Beginning,
     Live, K, RowOf, ReadsStable, IdsUnique, Fresh, Expired, SameRequest,
     TakeOverAbandoned, TakenOver, CanTakeOver, Start, Answer
<1>6. ASSUME NEW q \in Requests, BeginFails(q) PROVE ReadsStable'
  BY <1>6, ConstantsAssumption DEF IInv, TypeOK, Row, Stands, Beginning,
     Live, K, RowOf, ReadsStable, IdsUnique, Fresh, Expired, SameRequest,
     BeginFails, Inserted, NewRow, DeletedExpired, TakenOver, CanTakeOver,
     Answer
<1>7. ASSUME NEW q \in Requests, Beat(q) PROVE ReadsStable'
  BY <1>7, ConstantsAssumption DEF IInv, TypeOK, Row, Stands, Beginning,
     Live, K, RowOf, ReadsStable, IdsUnique, Fresh, Expired, SameRequest,
     Beat, Holds
<1>8. ASSUME NEW q \in Requests, Finish(q) PROVE ReadsStable'
  BY <1>8, ConstantsAssumption DEF IInv, TypeOK, Row, Stands, Beginning,
     Live, K, RowOf, ReadsStable, IdsUnique, Fresh, Expired, SameRequest,
     Finish
<1>9. ASSUME NEW q \in Requests, Store(q) \/ Record(q) PROVE ReadsStable'
  <2>1. ASSUME NEW r \in Requests, RowOf(r)' # NoRow, RowOf(r)'.id = id'[r]
        PROVE  /\ (pc[r] = "expire")' => Expired(RowOf(r))'
               /\ (pc[r] = "takeover")' => SameRequest(r)'
    <3>1. /\ K(r) \in Keys /\ RowOf(r)' = rows'[K(r)] /\ RowOf(r) = rows[K(r)]
          /\ call' = call /\ id' = id
      BY <1>9, RowType DEF Store, Record, K, RowOf, IInv
    <3>2. ClaimKept(K(r))
      BY <1>9, <3>1, ClaimsKept DEF IInv
    <3>3. RowOf(r) # NoRow /\ SameClaim(RowOf(r)', RowOf(r))
      BY <2>1, <3>1, <3>2 DEF ClaimKept
    <3>4. pc'[r] \in {"expire", "takeover"} => pc'[r] = pc[r]
      BY <1>9 DEF Store, Record, Answer, IInv, TypeOK
    <3>5. RowOf(r)'.life >= RowOf(r).life
      <4>1. Complete(q) \/ rows' = rows
        BY <1>9 DEF Store, Record
      <4>2. RowOf(r)'.life = RowOf(r).life
        BY <3>1, <4>1, CompleteEffect DEF IInv
      <4> QED
        BY <2>1, <3>1, <3>3, <4>2 DEF IInv, TypeOK, Row
    <3>6. RowOf(r).life \in Nat /\ RowOf(r)'.life \in Nat
      BY <2>1, <3>1, <3>3 DEF IInv, TypeOK, Row
    <3> QED
      BY <2>1, <3>1, <3>3, <3>4, <3>5, <3>6, ConstantsAssumption
      DEF IInv, ReadsStable, SameClaim, Expired, SameRequest
  <2> QED
    BY <2>1 DEF ReadsStable
<1>10. ASSUME NEW q \in Requests, Release(q) PROVE ReadsStable'
  BY <1>10, ConstantsAssumption DEF IInv, TypeOK, Row, Stands, Beginning,
     Live, K, RowOf, ReadsStable, IdsUnique, Fresh, Expired, SameRequest,
     Release, Released, Holds, Answer
<1>11. ASSUME NEW q \in Requests, Die(q) PROVE ReadsStable'
  BY <1>11, ConstantsAssumption DEF IInv, TypeOK, Row, Stands, Beginning,
     Live, K, RowOf, ReadsStable, IdsUnique, Fresh, Expired, SameRequest,
     Die
<1>12. CASE PruneExpired
  BY <1>12, ConstantsAssumption DEF IInv, TypeOK, Row, Stands, Beginning, Live,
     K, RowOf, ReadsStable, IdsUnique, Fresh, Expired, SameRequest,
     PruneExpired, Prunable
<1>13. CASE Tick
  <2>1. ASSUME NEW r \in Requests, RowOf(r)' # NoRow, RowOf(r)'.id = id'[r]
        PROVE  /\ (pc[r] = "expire")' => Expired(RowOf(r))'
               /\ (pc[r] = "takeover")' => SameRequest(r)'
    <3>1. /\ K(r) \in Keys /\ RowOf(r)' = rows'[K(r)] /\ RowOf(r) = rows[K(r)]
          /\ call' = call /\ id' = id
      BY <1>13, RowType DEF Tick, K, RowOf, IInv
    <3>2. ClaimKept(K(r))
      BY <1>13, <3>1, ClaimsKept DEF IInv
    <3>3. RowOf(r) # NoRow /\ SameClaim(RowOf(r)', RowOf(r))
      BY <2>1, <3>1, <3>2 DEF ClaimKept
    <3>4. pc'[r] \in {"expire", "takeover"} => pc'[r] = pc[r]
      BY <1>13 DEF Tick, Answer, IInv, TypeOK
    <3>5. RowOf(r)'.life >= RowOf(r).life
      BY <1>13, <2>1, <3>1, <3>3, TickEffect DEF IInv
    <3>6. RowOf(r).life \in Nat /\ RowOf(r)'.life \in Nat
      BY <2>1, <3>1, <3>3 DEF IInv, TypeOK, Row
    <3> QED
      BY <2>1, <3>1, <3>3, <3>4, <3>5, <3>6, ConstantsAssumption
      DEF IInv, ReadsStable, SameClaim, Expired, SameRequest
  <2> QED
    BY <2>1 DEF ReadsStable
<1>14. CASE UNCHANGED vars
  BY <1>14, ConstantsAssumption DEF IInv, TypeOK, Row, Stands, Beginning, Live,
     K, RowOf, ReadsStable, IdsUnique, Fresh, Expired, SameRequest, vars
<1> QED
  BY <1>1, <1>2, <1>3, <1>4, <1>5, <1>6, <1>7, <1>8, <1>9, <1>10,
     <1>11, <1>12, <1>13, <1>14 DEF Next

(* A request changes its own locals only.                                  *)
Step(q) ==
  \/ Arrive(q) \/ Insert(q) \/ Look(q) \/ DeleteExpired(q)
  \/ TakeOverAbandoned(q) \/ BeginFails(q) \/ Beat(q) \/ Finish(q)
  \/ Store(q) \/ Record(q) \/ Release(q) \/ Die(q)

LEMMA OthersKept ==
  ASSUME TypeOK, NEW q \in Requests, Step(q), NEW r \in Requests \ {q}
  PROVE  /\ pc'[r] = pc[r] /\ id'[r] = id[r] /\ answer'[r] = answer[r]
         /\ beatAge'[r] = beatAge[r] /\ rowLife'[r] = rowLife[r]
         /\ call' = call /\ K(r)' = K(r)
<1> USE DEF TypeOK, K
<1>1. CASE Arrive(q) \/ Finish(q) \/ Die(q) \/ Beat(q)
  BY <1>1 DEF Arrive, Finish, Die, Beat
<1>2. CASE Insert(q) \/ TakeOverAbandoned(q)
  BY <1>2 DEF Insert, TakeOverAbandoned, Start, Answer
<1>3. CASE Look(q) \/ DeleteExpired(q)
  BY <1>3 DEF Look, DeleteExpired, Again, Answer
<1>4. CASE BeginFails(q) \/ Store(q) \/ Record(q) \/ Release(q)
  BY <1>4 DEF BeginFails, Store, Record, Release, Answer
<1> QED
  BY <1>1, <1>2, <1>3, <1>4 DEF Step

\* LockCoherent, for one key.
LockOf(k) ==
  rows[k] # NoRow =>
    LET r == rows[k].lockId IN
    /\ call[r] = [key |-> k, hash |-> rows[k].hash]
    /\ (pc[r] \in Live /\ id[r] = rows[k].id) =>
         rows[k].lockAge = beatAge[r] /\ rows[k].life = rowLife[r]

LEMMA LockIn ==
  ASSUME TypeOK, NEW k \in Keys, rows[k] # NoRow
  PROVE  rows[k] \in Row /\ rows[k].lockId \in Requests /\ rows[k].id \in Requests
BY DEF TypeOK, Row

\* A step of q that leaves the row of k, and whose lock is not q's, keeps LockOf(k).
LEMMA LockOfOthers ==
  ASSUME TypeOK, NEW q \in Requests, Step(q), NEW k \in Keys, LockOf(k),
         rows'[k] = rows[k], rows[k] # NoRow => rows[k].lockId # q
  PROVE  LockOf(k)'
<1>1. CASE rows[k] = NoRow
  BY <1>1 DEF LockOf
<1>2. CASE rows[k] # NoRow
  <2> DEFINE r == rows[k].lockId
  <2>1. r \in Requests \ {q}
    BY <1>2, LockIn
  <2>2. /\ pc'[r] = pc[r] /\ id'[r] = id[r] /\ call' = call
        /\ beatAge'[r] = beatAge[r] /\ rowLife'[r] = rowLife[r]
    BY <2>1, OthersKept
  <2> QED
    BY <1>2, <2>2 DEF LockOf
<1> QED
  BY <1>1, <1>2

LEMMA CallIs ==
  ASSUME TypeOK, NEW r \in Requests
  PROVE  call[r] = [key |-> K(r), hash |-> call[r].hash]
<1>1. call[r] \in [key : Keys, hash : Hashes]
  BY DEF TypeOK
<1> QED
  BY <1>1 DEF K

LEMMA LockCoherentStep == IInv /\ TypeOK' /\ [Next]_vars => LockCoherent'
<1> SUFFICES ASSUME IInv, TypeOK', [Next]_vars PROVE LockCoherent'
  OBVIOUS
<1>1. ASSUME NEW q \in Requests, Arrive(q) PROVE LockCoherent'
  BY <1>1, ConstantsAssumption DEF IInv, TypeOK, Row, Stands, Beginning,
     Live, K, RowOf, LockCoherent, ReadsStable, IdsUnique, Fresh,
     SameRequest, Arrive
<1>2. ASSUME NEW q \in Requests, Insert(q) PROVE LockCoherent'
  <2> SUFFICES ASSUME NEW k \in Keys PROVE LockOf(k)'
    BY DEF LockCoherent, LockOf
  <2>1. TypeOK /\ LockOf(k) /\ Step(q) /\ rows' = Inserted(q)
    BY <1>2 DEF IInv, LockCoherent, LockOf, Step, Insert
  <2>2. rows[k] # NoRow => rows[k].lockId # q /\ rows[k].id # q
    BY <1>2 DEF Insert, IInv, IdsUnique, Fresh, Beginning
  <2>3. CASE rows'[k] = rows[k]
    BY <2>1, <2>2, <2>3, LockOfOthers
  <2>4. CASE k = K(q) /\ rows[k] = NoRow /\ rows'[k] = NewRow(q)
    <3>1. RowOf(q) = NoRow /\ Start(q, NewRow(q)) /\ call' = call
      BY <1>2, <2>4 DEF Insert, RowOf
    <3>2. /\ beatAge'[q] = 0 /\ rowLife'[q] = 0
          /\ call'[q] = [key |-> k, hash |-> NewRow(q).hash]
      BY <2>1, <2>4, <3>1, CallIs DEF Start, NewRow, TypeOK
    <3> QED
      BY <2>4, <3>2 DEF LockOf, NewRow
  <2> QED
    BY <2>1, <2>3, <2>4, InsertEffect
<1>3. ASSUME NEW q \in Requests, Look(q) PROVE LockCoherent'
  BY <1>3, ConstantsAssumption DEF IInv, TypeOK, Row, Stands, Beginning,
     Live, K, RowOf, LockCoherent, ReadsStable, IdsUnique, Fresh,
     SameRequest, Look, Again, Answer
<1>4. ASSUME NEW q \in Requests, DeleteExpired(q) PROVE LockCoherent'
  BY <1>4, ConstantsAssumption DEF IInv, TypeOK, Row, Stands, Beginning,
     Live, K, RowOf, LockCoherent, ReadsStable, IdsUnique, Fresh,
     SameRequest, DeleteExpired, DeletedExpired, Again, Answer
<1>5. ASSUME NEW q \in Requests, TakeOverAbandoned(q) PROVE LockCoherent'
  <2> SUFFICES ASSUME NEW k \in Keys PROVE LockOf(k)'
    BY DEF LockCoherent, LockOf
  <2>1. /\ TypeOK /\ LockOf(k) /\ Step(q) /\ rows' = TakenOver(q)
        /\ Fresh(q) /\ pc[q] = "takeover"
    BY <1>5 DEF IInv, LockCoherent, LockOf, Step, TakeOverAbandoned, Fresh, Beginning
  <2>2. rows[k] # NoRow => rows[k].lockId # q /\ rows[k].id # q
    BY <2>1 DEF IInv, IdsUnique
  <2>3. CASE rows'[k] = rows[k]
    BY <2>1, <2>2, <2>3, LockOfOthers
  <2>4. CASE rows'[k] # rows[k]
    <3>1. /\ k = K(q) /\ CanTakeOver(q) /\ SameClaim(rows'[k], rows[k])
          /\ rows'[k].life = rows[k].life
          /\ rows'[k].lockAge = 0 /\ rows'[k].lockId = q
      BY <2>1, <2>4, TakeOverEffect
    <3>2. Start(q, rows[k]) /\ call' = call
      BY <1>5, <3>1 DEF TakeOverAbandoned, RowOf
    <3>3. beatAge'[q] = 0 /\ rowLife'[q] = rows[k].life
      BY <2>1, <3>2 DEF Start, TypeOK
    <3>4. call[q].hash = rows[k].hash
      BY <2>1, <3>1 DEF IInv, ReadsStable, CanTakeOver, SameRequest, RowOf
    <3>5. call'[q] = [key |-> k, hash |-> rows'[k].hash]
      BY <2>1, <3>1, <3>2, <3>4, CallIs DEF SameClaim
    <3> QED
      BY <3>1, <3>3, <3>5 DEF LockOf
  <2> QED
    BY <2>3, <2>4
<1>6. ASSUME NEW q \in Requests, BeginFails(q) PROVE LockCoherent'
  <2> SUFFICES ASSUME NEW k \in Keys PROVE LockOf(k)'
    BY DEF LockCoherent, LockOf
  <2>1. /\ TypeOK /\ LockOf(k) /\ Step(q) /\ Fresh(q) /\ pc'[q] = "answered"
        /\ call' = call
    BY <1>6 DEF IInv, LockCoherent, LockOf, Step, BeginFails, Fresh, Answer, TypeOK
  <2>2. rows[k] # NoRow => rows[k].lockId # q /\ rows[k].id # q
    BY <2>1 DEF IInv, IdsUnique
  <2>3. CASE rows'[k] = rows[k]
    BY <2>1, <2>2, <2>3, LockOfOthers
  <2>4. CASE k = K(q) /\ rows'[k] = NewRow(q)
    BY <2>1, <2>4, CallIs DEF LockOf, NewRow, Live
  <2>5. CASE rows'[k] = NoRow
    BY <2>5 DEF LockOf
  <2>6. CASE /\ pc[q] = "takeover" /\ rows' = TakenOver(q)
             /\ rows'[k] # rows[k]
    <3>1. /\ k = K(q) /\ CanTakeOver(q) /\ SameClaim(rows'[k], rows[k])
          /\ rows'[k].lockId = q
      BY <2>1, <2>6, TakeOverEffect
    <3>4. call[q].hash = rows[k].hash
      BY <2>1, <2>6, <3>1 DEF IInv, ReadsStable, CanTakeOver, SameRequest, RowOf
    <3> QED
      BY <2>1, <3>1, <3>4, CallIs DEF LockOf, Live, SameClaim
  <2> QED
    BY <1>6, <2>1, <2>3, <2>4, <2>5, <2>6, InsertEffect, DeleteEffect, TakeOverEffect
    DEF BeginFails
<1>7. ASSUME NEW q \in Requests, Beat(q) PROVE LockCoherent'
  <2> SUFFICES ASSUME NEW k \in Keys PROVE LockOf(k)'
    BY DEF LockCoherent, LockOf
  <2>1. TypeOK /\ LockOf(k) /\ Step(q) /\ call' = call /\ id' = id /\ pc' = pc
    BY <1>7 DEF IInv, LockCoherent, LockOf, Step, Beat
  <2>2. CASE k # K(q)
    <3>1. rows'[k] = rows[k]
      BY <1>7, <2>1, <2>2, BeatEffect
    <3>2. rows[k] # NoRow => rows[k].lockId # q
      BY <2>1, <2>2 DEF LockOf, K
    <3> QED
      BY <2>1, <3>1, <3>2, LockOfOthers
  <2>3. CASE k = K(q)
    <3>1. /\ SameClaim(rows'[k], rows[k]) /\ rows[k].lockId = q
          /\ rows[k].id = id[q]
          /\ rows'[k].life = rows[k].life /\ rows'[k].lockAge = 0
          /\ rows'[k].lockId = q
      BY <1>7, <2>1, <2>3, BeatEffect
    <3>2. beatAge'[q] = 0 /\ rowLife'[q] = rowLife[q] /\ pc[q] \in Live
      BY <1>7, <2>1 DEF Beat, TypeOK
    <3> QED
      BY <2>1, <3>1, <3>2 DEF LockOf, SameClaim
  <2> QED
    BY <2>2, <2>3
<1>8. ASSUME NEW q \in Requests, Finish(q) PROVE LockCoherent'
  BY <1>8, ConstantsAssumption DEF IInv, TypeOK, Row, Stands, Beginning,
     Live, K, RowOf, LockCoherent, ReadsStable, IdsUnique, Fresh,
     SameRequest, Finish
<1>9. ASSUME NEW q \in Requests, Store(q) PROVE LockCoherent'
  <2> SUFFICES ASSUME NEW k \in Keys PROVE LockOf(k)'
    BY DEF LockCoherent, LockOf
  <2>1. TypeOK /\ LockOf(k) /\ Step(q) /\ call' = call /\ id' = id
    BY <1>9 DEF IInv, LockCoherent, LockOf, Step, Store
  <2>2. CASE rows'[k] = NoRow
    BY <2>2 DEF LockOf
  <2>3. CASE rows'[k] # NoRow /\ rows[k].lockId # q
    <3>1. /\ rows'[k] = rows[k]
      BY <1>9, <2>1, <2>3, CompleteEffect DEF Store
    <3> QED
      BY <2>1, <2>3, <3>1, LockOfOthers
  <2>4. CASE rows'[k] # NoRow /\ rows[k].lockId = q
    <3>1. /\ rows[k] # NoRow /\ SameClaim(rows'[k], rows[k])
          /\ rows'[k].lockId = q /\ rows'[k].life = rows[k].life
          /\ rows'[k].lockAge = rows[k].lockAge
      BY <1>9, <2>1, <2>4, CompleteEffect, ClaimsKept DEF ClaimKept, Store, SameClaim
    <3>2. /\ beatAge'[q] = beatAge[q] /\ rowLife'[q] = rowLife[q]
          /\ pc'[q] \in Live => pc[q] \in Live
      BY <1>9, <2>1 DEF Store, Answer, Live, TypeOK
    <3> QED
      BY <2>1, <2>4, <3>1, <3>2 DEF LockOf, SameClaim
  <2> QED
    BY <2>2, <2>3, <2>4
<1>10. ASSUME NEW q \in Requests, Record(q) PROVE LockCoherent'
  <2> SUFFICES ASSUME NEW k \in Keys PROVE LockOf(k)'
    BY DEF LockCoherent, LockOf
  <2>1. TypeOK /\ LockOf(k) /\ Step(q) /\ call' = call /\ id' = id
    BY <1>10 DEF IInv, LockCoherent, LockOf, Step, Record
  <2>2. CASE rows'[k] = NoRow
    BY <2>2 DEF LockOf
  <2>3. CASE rows'[k] # NoRow /\ rows[k].lockId # q
    <3>1. /\ rows'[k] = rows[k]
      BY <1>10, <2>1, <2>3, CompleteEffect DEF Record
    <3> QED
      BY <2>1, <2>3, <3>1, LockOfOthers
  <2>4. CASE rows'[k] # NoRow /\ rows[k].lockId = q
    <3>1. /\ rows[k] # NoRow /\ SameClaim(rows'[k], rows[k])
          /\ rows'[k].lockId = q /\ rows'[k].life = rows[k].life
          /\ rows'[k].lockAge = rows[k].lockAge
      BY <1>10, <2>1, <2>4, CompleteEffect, ClaimsKept DEF ClaimKept, Record, SameClaim
    <3>2. /\ beatAge'[q] = beatAge[q] /\ rowLife'[q] = rowLife[q]
          /\ pc'[q] \in Live => pc[q] \in Live
      BY <1>10, <2>1 DEF Record, Answer, Live, TypeOK
    <3> QED
      BY <2>1, <2>4, <3>1, <3>2 DEF LockOf, SameClaim
  <2> QED
    BY <2>2, <2>3, <2>4
<1>11. ASSUME NEW q \in Requests, Release(q) PROVE LockCoherent'
  BY <1>11, ConstantsAssumption DEF IInv, TypeOK, Row, Stands, Beginning,
     Live, K, RowOf, LockCoherent, ReadsStable, IdsUnique, Fresh,
     SameRequest, Release, Released, Holds, Answer
<1>12. ASSUME NEW q \in Requests, Die(q) PROVE LockCoherent'
  BY <1>12, ConstantsAssumption DEF IInv, TypeOK, Row, Stands, Beginning,
     Live, K, RowOf, LockCoherent, ReadsStable, IdsUnique, Fresh,
     SameRequest, Die
<1>13. CASE PruneExpired
  BY <1>13, ConstantsAssumption DEF IInv, TypeOK, Row, Stands, Beginning, Live,
     K, RowOf, LockCoherent, ReadsStable, IdsUnique, Fresh, SameRequest,
     PruneExpired, Prunable
<1>14. CASE Tick
  <2> SUFFICES ASSUME NEW k \in Keys, rows'[k] # NoRow PROVE LockOf(k)'
    BY DEF LockCoherent, LockOf
  <2>1. TypeOK /\ LockOf(k) /\ call' = call /\ id' = id /\ pc' = pc
    BY <1>14 DEF IInv, LockCoherent, LockOf, Tick
  <2>2. /\ SameClaim(rows'[k], rows[k]) /\ rows'[k].lockId = rows[k].lockId
        /\ rows'[k].lockAge = Older(rows[k].lockAge, Lease)
        /\ rows'[k].life = Older(rows[k].life, Ttl)
    BY <1>14, <2>1, TickEffect
  <2>3. rows[k].lockId \in Requests
    BY <2>1, <2>2, LockIn DEF SameClaim
  <2>4. /\ beatAge'[rows[k].lockId] = Older(beatAge[rows[k].lockId], Lease)
        /\ rowLife'[rows[k].lockId] = Older(rowLife[rows[k].lockId], Ttl)
    BY <1>14, <2>1, <2>3, TickAges
  <2> QED
    BY <2>1, <2>2, <2>4 DEF LockOf, SameClaim
<1>15. CASE UNCHANGED vars
  BY <1>15, ConstantsAssumption DEF IInv, TypeOK, Row, Stands, Beginning, Live,
     K, RowOf, LockCoherent, ReadsStable, IdsUnique, Fresh, SameRequest,
     vars
<1> QED
  BY <1>1, <1>2, <1>3, <1>4, <1>5, <1>6, <1>7, <1>8, <1>9, <1>10, <1>11,
     <1>12, <1>13, <1>14, <1>15 DEF Next

(* LapseOnly, for one request.                                            *)
Unlapsed(r) ==
  pc[r] = "running" => Holds(r) \/ beatAge[r] > Lease \/ rowLife[r] >= Ttl

LEMMA HeldAges ==
  ASSUME IInv, NEW r \in Requests, Holds(r), pc[r] = "running"
  PROVE  /\ K(r) \in Keys /\ rows[K(r)] # NoRow /\ rows[K(r)] = RowOf(r)
         /\ rows[K(r)].lockAge = beatAge[r] /\ rows[K(r)].life = rowLife[r]
         /\ rows[K(r)].id = id[r] /\ rows[K(r)].lockId = r
         /\ rows[K(r)].status = "in_progress"
<1>1. TypeOK
  BY DEF IInv
<1> QED
  BY <1>1, RowType DEF IInv, LockCoherent, Holds, RowOf, Live

\* A step of q that does not take r's key from it keeps Unlapsed(r).
LEMMA UnlapsedOthers ==
  ASSUME TypeOK, NEW q \in Requests, Step(q), NEW r \in Requests \ {q},
         Unlapsed(r),
         (Holds(r) /\ pc[r] = "running") =>
            rows'[K(r)] = rows[K(r)] \/ beatAge[r] > Lease \/ rowLife[r] >= Ttl
  PROVE  Unlapsed(r)'
<1>1. /\ pc'[r] = pc[r] /\ id'[r] = id[r] /\ K(r)' = K(r)
      /\ beatAge'[r] = beatAge[r] /\ rowLife'[r] = rowLife[r]
  BY OthersKept
<1> QED
  BY <1>1 DEF Unlapsed, Holds, RowOf

LEMMA LapseOnlyStep == IInv /\ TypeOK' /\ [Next]_vars => LapseOnly'
<1> SUFFICES ASSUME IInv, TypeOK', [Next]_vars PROVE LapseOnly'
  OBVIOUS
<1>1. ASSUME NEW q \in Requests, Arrive(q) PROVE LapseOnly'
  BY <1>1, ConstantsAssumption DEF IInv, TypeOK, Row, Stands, Beginning,
     Live, K, RowOf, LapseOnly, HolderUnlessLapsed, LockCoherent,
     ReadsStable, Abandoned, Expired, Holds, Arrive
<1>2. ASSUME NEW q \in Requests, Insert(q) PROVE LapseOnly'
  BY <1>2, ConstantsAssumption DEF IInv, TypeOK, Row, Stands, Beginning,
     Live, K, RowOf, LapseOnly, HolderUnlessLapsed, LockCoherent,
     ReadsStable, Abandoned, Expired, Holds, Insert, Inserted, Start, NewRow
<1>3. ASSUME NEW q \in Requests, Look(q) PROVE LapseOnly'
  BY <1>3, ConstantsAssumption DEF IInv, TypeOK, Row, Stands, Beginning,
     Live, K, RowOf, LapseOnly, HolderUnlessLapsed, LockCoherent,
     ReadsStable, Abandoned, Expired, Holds, Look, Again, Answer
<1>4. ASSUME NEW q \in Requests, DeleteExpired(q) PROVE LapseOnly'
  <2> SUFFICES ASSUME NEW r \in Requests PROVE Unlapsed(r)'
    BY DEF LapseOnly, HolderUnlessLapsed, Unlapsed
  <2>1. TypeOK /\ Unlapsed(r) /\ Step(q)
    BY <1>4 DEF IInv, LapseOnly, HolderUnlessLapsed, Unlapsed, Step
  <2>2. CASE r = q
    BY <1>4, <2>2 DEF DeleteExpired, Again, Answer, Unlapsed, IInv, TypeOK
  <2>3. CASE r # q
    <3>1. ASSUME Holds(r), pc[r] = "running", rows'[K(r)] # rows[K(r)]
          PROVE  beatAge[r] > Lease \/ rowLife[r] >= Ttl
      <4>1. /\ K(r) \in Keys /\ rows[K(r)] = RowOf(r) /\ rows[K(r)] # NoRow
            /\ rows[K(r)].lockAge = beatAge[r] /\ rows[K(r)].life = rowLife[r]
        BY <3>1, HeldAges
      <4>2. K(r) = K(q) /\ RowOf(q).id = id[q] /\ RowOf(q) = rows[K(r)]
        BY <1>4, <2>1, <3>1, <4>1, DeleteEffect DEF DeleteExpired, RowOf
      <4> QED
        BY <1>4, <4>1, <4>2 DEF DeleteExpired, IInv, ReadsStable, Expired
    <3> QED
      BY <2>1, <2>3, <3>1, UnlapsedOthers
  <2> QED
    BY <2>2, <2>3
<1>5. ASSUME NEW q \in Requests, TakeOverAbandoned(q) PROVE LapseOnly'
  <2> SUFFICES ASSUME NEW r \in Requests PROVE Unlapsed(r)'
    BY DEF LapseOnly, HolderUnlessLapsed, Unlapsed
  <2>1. TypeOK /\ Unlapsed(r) /\ Step(q)
    BY <1>5 DEF IInv, LapseOnly, HolderUnlessLapsed, Unlapsed, Step
  <2>2. CASE r = q
    <3>1. CASE CanTakeOver(q)
      <4>1. /\ K(q) \in Keys /\ rows[K(q)] # NoRow /\ rows[K(q)] = RowOf(q)
            /\ RowOf(q) \in Row
        BY <2>1, <3>1, RowType DEF CanTakeOver, RowOf
      <4>2. rows'[K(q)] # rows[K(q)]
        <5>1. rows[K(q)].lockId # q
          BY <1>5, <4>1 DEF TakeOverAbandoned, IInv, IdsUnique, Fresh, Beginning
        <5>2. rows'[K(q)] = [rows[K(q)] EXCEPT !.lockAge = 0, !.lockId = q]
          BY <1>5, <2>1, <3>1, <4>1 DEF TakeOverAbandoned, TakenOver, TypeOK
        <5>3. rows'[K(q)].lockId = q
          BY <4>1, <5>2 DEF Row
        <5> QED
          BY <5>1, <5>3
      <4>3. /\ SameClaim(rows'[K(q)], rows[K(q)])
            /\ rows'[K(q)].status = "in_progress" /\ rows'[K(q)].lockId = q
        BY <1>5, <2>1, <4>1, <4>2, TakeOverEffect DEF TakeOverAbandoned
      <4>4. id'[q] = rows[K(q)].id /\ K(q)' = K(q)
        BY <1>5, <2>1, <3>1, <4>1 DEF TakeOverAbandoned, Start, TypeOK, K
      <4> QED
        BY <2>2, <4>3, <4>4 DEF Unlapsed, Holds, RowOf, SameClaim
    <3>2. CASE ~CanTakeOver(q)
      BY <1>5, <2>1, <2>2, <3>2 DEF TakeOverAbandoned, Answer, Unlapsed, TypeOK
    <3> QED
      BY <3>1, <3>2
  <2>3. CASE r # q
    <3>1. ASSUME Holds(r), pc[r] = "running", rows'[K(r)] # rows[K(r)]
          PROVE  beatAge[r] > Lease \/ rowLife[r] >= Ttl
      <4>1. /\ K(r) \in Keys /\ rows[K(r)].lockAge = beatAge[r]
        BY <3>1, HeldAges
      <4> QED
        BY <1>5, <2>1, <3>1, <4>1, TakeOverEffect DEF TakeOverAbandoned
    <3> QED
      BY <2>1, <2>3, <3>1, UnlapsedOthers
  <2> QED
    BY <2>2, <2>3
<1>6. ASSUME NEW q \in Requests, BeginFails(q) PROVE LapseOnly'
  <2> SUFFICES ASSUME NEW r \in Requests PROVE Unlapsed(r)'
    BY DEF LapseOnly, HolderUnlessLapsed, Unlapsed
  <2>1. TypeOK /\ Unlapsed(r) /\ Step(q)
    BY <1>6 DEF IInv, LapseOnly, HolderUnlessLapsed, Unlapsed, Step
  <2>2. CASE r = q
    BY <1>6, <2>2 DEF BeginFails, Again, Answer, Unlapsed, IInv, TypeOK
  <2>3. CASE r # q
    <3>1. ASSUME Holds(r), pc[r] = "running", rows'[K(r)] # rows[K(r)]
          PROVE  beatAge[r] > Lease \/ rowLife[r] >= Ttl
      <4>1. /\ K(r) \in Keys /\ rows[K(r)] = RowOf(r) /\ rows[K(r)] # NoRow
            /\ rows[K(r)].lockAge = beatAge[r] /\ rows[K(r)].life = rowLife[r]
        BY <3>1, HeldAges
      <4>2. CASE pc[q] = "insert" /\ rows' = Inserted(q)
        BY <2>1, <3>1, <4>1, <4>2, InsertEffect
      <4>3. CASE pc[q] = "expire" /\ rows' = DeletedExpired(q)
        <5>1. K(r) = K(q) /\ RowOf(q).id = id[q] /\ RowOf(q) = rows[K(r)]
          BY <2>1, <3>1, <4>1, <4>3, DeleteEffect DEF RowOf
        <5> QED
          BY <4>1, <4>3, <5>1 DEF IInv, ReadsStable, Expired
      <4>4. CASE rows' = TakenOver(q)
        BY <2>1, <3>1, <4>1, <4>4, TakeOverEffect
      <4> QED
        BY <1>6, <3>1, <4>2, <4>3, <4>4 DEF BeginFails
    <3> QED
      BY <2>1, <2>3, <3>1, UnlapsedOthers
  <2> QED
    BY <2>2, <2>3
<1>7. ASSUME NEW q \in Requests, Beat(q) PROVE LapseOnly'
  <2> SUFFICES ASSUME NEW r \in Requests PROVE Unlapsed(r)'
    BY DEF LapseOnly, HolderUnlessLapsed, Unlapsed
  <2>1. TypeOK /\ Unlapsed(r) /\ Step(q)
    BY <1>7 DEF IInv, LapseOnly, HolderUnlessLapsed, Unlapsed, Step
  <2>2. CASE r = q
    <3>1. /\ K(q) \in Keys /\ Holds(q) /\ id' = id /\ K(q)' = K(q)
      BY <1>7, <2>1, RowType DEF Beat, K
    <3>2. /\ SameClaim(rows'[K(q)], rows[K(q)]) /\ rows[K(q)].id = id[q]
          /\ rows'[K(q)].lockId = rows[K(q)].lockId /\ rows[K(q)].lockId = q
          /\ rows'[K(q)].status = rows[K(q)].status
      BY <1>7, <2>1, <3>1, BeatEffect
    <3> QED
      BY <2>2, <3>1, <3>2 DEF Unlapsed, Holds, RowOf, SameClaim
  <2>3. CASE r # q
    <3>1. ASSUME Holds(r), pc[r] = "running", rows'[K(r)] # rows[K(r)]
          PROVE  beatAge[r] > Lease \/ rowLife[r] >= Ttl
      <4>1. K(r) \in Keys /\ rows[K(r)].lockId = r
        BY <3>1, HeldAges
      <4> QED
        BY <1>7, <2>1, <2>3, <3>1, <4>1, BeatEffect
    <3> QED
      BY <2>1, <2>3, <3>1, UnlapsedOthers
  <2> QED
    BY <2>2, <2>3
<1>8. ASSUME NEW q \in Requests, Finish(q) PROVE LapseOnly'
  BY <1>8, ConstantsAssumption DEF IInv, TypeOK, Row, Stands, Beginning,
     Live, K, RowOf, LapseOnly, HolderUnlessLapsed, LockCoherent,
     ReadsStable, Abandoned, Expired, Holds, Finish
<1>9. ASSUME NEW q \in Requests, Store(q) PROVE LapseOnly'
  BY <1>9, ConstantsAssumption DEF IInv, TypeOK, Row, Stands, Beginning,
     Live, K, RowOf, LapseOnly, HolderUnlessLapsed, LockCoherent,
     ReadsStable, Abandoned, Expired, Holds, Store, Complete, Completed,
     Holds, Answer
<1>10. ASSUME NEW q \in Requests, Record(q) PROVE LapseOnly'
  BY <1>10, ConstantsAssumption DEF IInv, TypeOK, Row, Stands, Beginning,
     Live, K, RowOf, LapseOnly, HolderUnlessLapsed, LockCoherent,
     ReadsStable, Abandoned, Expired, Holds, Record, Complete, Completed,
     Holds, Answer
<1>11. ASSUME NEW q \in Requests, Release(q) PROVE LapseOnly'
  BY <1>11, ConstantsAssumption DEF IInv, TypeOK, Row, Stands, Beginning,
     Live, K, RowOf, LapseOnly, HolderUnlessLapsed, LockCoherent,
     ReadsStable, Abandoned, Expired, Holds, Release, Released, Holds,
     Answer
<1>12. ASSUME NEW q \in Requests, Die(q) PROVE LapseOnly'
  BY <1>12, ConstantsAssumption DEF IInv, TypeOK, Row, Stands, Beginning,
     Live, K, RowOf, LapseOnly, HolderUnlessLapsed, LockCoherent,
     ReadsStable, Abandoned, Expired, Holds, Die
<1>13. CASE PruneExpired
  <2> SUFFICES ASSUME NEW r \in Requests PROVE Unlapsed(r)'
    BY DEF LapseOnly, HolderUnlessLapsed, Unlapsed
  <2>1. TypeOK /\ Unlapsed(r) /\ pc' = pc /\ id' = id /\ K(r)' = K(r)
    BY <1>13 DEF IInv, LapseOnly, HolderUnlessLapsed, Unlapsed, PruneExpired, K
  <2>2. /\ beatAge[r] > Lease => beatAge'[r] > Lease
        /\ rowLife[r] >= Ttl => rowLife'[r] >= Ttl
    BY <1>13 DEF PruneExpired
  <2>3. CASE Holds(r) /\ pc[r] = "running"
    <3>1. /\ K(r) \in Keys /\ rows[K(r)].id = id[r] /\ rows[K(r)].lockId = r
          /\ rows[K(r)].status = "in_progress" /\ rows[K(r)] # NoRow
          /\ rows[K(r)].life = rowLife[r]
      BY <2>3, HeldAges
    <3>2. rows[K(r)] \in Row
      BY <2>1, <3>1 DEF TypeOK
    <3>3. CASE Prunable(rows[K(r)])
      BY <2>2, <3>1, <3>2, <3>3, ConstantsAssumption DEF Prunable, Row, Unlapsed
    <3>4. CASE ~Prunable(rows[K(r)])
      <4>1. rows'[K(r)] = rows[K(r)]
        BY <1>13, <3>1, <3>4 DEF PruneExpired
      <4> QED
        BY <2>1, <3>1, <4>1 DEF Unlapsed, Holds, RowOf
    <3> QED
      BY <3>3, <3>4
  <2> QED
    BY <2>1, <2>2, <2>3 DEF Unlapsed
<1>14. CASE Tick
  <2> SUFFICES ASSUME NEW r \in Requests PROVE Unlapsed(r)'
    BY DEF LapseOnly, HolderUnlessLapsed, Unlapsed
  <2>1. TypeOK /\ Unlapsed(r) /\ pc' = pc /\ id' = id /\ K(r)' = K(r)
    BY <1>14 DEF IInv, LapseOnly, HolderUnlessLapsed, Unlapsed, Tick, K
  <2>2. /\ beatAge[r] > Lease => beatAge'[r] > Lease
        /\ rowLife[r] >= Ttl => rowLife'[r] >= Ttl
    <3>1. /\ beatAge[r] \in Nat /\ beatAge'[r] \in Nat
          /\ rowLife[r] \in Nat /\ rowLife'[r] \in Nat
      BY <2>1 DEF TypeOK
    <3> QED
      BY <1>14, <2>1, <3>1, TickAges, ConstantsAssumption
  <2>3. CASE Holds(r) /\ pc[r] = "running"
    <3>1. /\ K(r) \in Keys /\ rows[K(r)].id = id[r] /\ rows[K(r)].lockId = r
          /\ rows[K(r)].status = "in_progress" /\ rows[K(r)] # NoRow
          /\ rows[K(r)].life = rowLife[r]
      BY <2>3, HeldAges
    <3>2. /\ SameClaim(rows'[K(r)], rows[K(r)])
          /\ rows'[K(r)].status = "in_progress" /\ rows'[K(r)].lockId = r
      BY <1>14, <2>1, <3>1, TickEffect
    <3> QED
      BY <2>1, <3>1, <3>2 DEF Unlapsed, Holds, RowOf, SameClaim
  <2> QED
    BY <2>1, <2>2, <2>3 DEF Unlapsed
<1>15. CASE UNCHANGED vars
  BY <1>15, ConstantsAssumption DEF IInv, TypeOK, Row, Stands, Beginning, Live,
     K, RowOf, LapseOnly, HolderUnlessLapsed, LockCoherent, ReadsStable,
     Abandoned, Expired, Holds, vars
<1> QED
  BY <1>1, <1>2, <1>3, <1>4, <1>5, <1>6, <1>7, <1>8, <1>9, <1>10, <1>11,
     <1>12, <1>13, <1>14, <1>15 DEF Next

(* OutcomeOwned, for one row and for one stored request.                   *)
CompletedBy(k) ==
  (rows[k] # NoRow /\ rows[k].status = "completed") =>
    /\ rows[k].outcome \in stored
    /\ call[rows[k].outcome] = [key |-> k, hash |-> rows[k].hash]

StoredAnswers(r) ==
  r \in stored =>
    /\ pc[r] \in {"store", "answered", "dead"}
    /\ pc[r] = "answered" => answer[r] = [kind |-> "ran", by |-> r]

LEMMA OutcomeOwnedStep == IInv /\ TypeOK' /\ [Next]_vars => OutcomeOwned'
<1> SUFFICES ASSUME IInv, TypeOK', [Next]_vars PROVE OutcomeOwned'
  OBVIOUS
<1>1. ASSUME NEW q \in Requests, Arrive(q) PROVE OutcomeOwned'
  BY <1>1, ConstantsAssumption DEF IInv, TypeOK, Row, Stands, Beginning,
     Live, K, RowOf, OutcomeOwned, LockCoherent, IdsUnique, Fresh, Arrive
<1>2. ASSUME NEW q \in Requests, Insert(q) PROVE OutcomeOwned'
  BY <1>2, ConstantsAssumption DEF IInv, TypeOK, Row, Stands, Beginning,
     Live, K, RowOf, OutcomeOwned, LockCoherent, IdsUnique, Fresh, Insert,
     Inserted, Start, NewRow
<1>3. ASSUME NEW q \in Requests, Look(q) PROVE OutcomeOwned'
  BY <1>3, ConstantsAssumption DEF IInv, TypeOK, Row, Stands, Beginning,
     Live, K, RowOf, OutcomeOwned, LockCoherent, IdsUnique, Fresh, Look,
     Again, Answer
<1>4. ASSUME NEW q \in Requests, DeleteExpired(q) PROVE OutcomeOwned'
  BY <1>4, ConstantsAssumption DEF IInv, TypeOK, Row, Stands, Beginning,
     Live, K, RowOf, OutcomeOwned, LockCoherent, IdsUnique, Fresh,
     DeleteExpired, DeletedExpired, Again, Answer
<1>5. ASSUME NEW q \in Requests, TakeOverAbandoned(q) PROVE OutcomeOwned'
  <2>1. /\ TypeOK /\ call' = call
        /\ \A k \in Keys : CompletedBy(k)
        /\ \A r \in Requests : StoredAnswers(r)
    BY <1>5 DEF IInv, OutcomeOwned, CompletedBy, StoredAnswers, TypeOK, TakeOverAbandoned
  <2>2. ASSUME NEW k \in Keys PROVE CompletedBy(k)'
    <3>1. rows' = TakenOver(q) /\ stored' = stored
      BY <1>5 DEF TakeOverAbandoned
    <3> QED
      BY <2>1, <3>1, TakeOverEffect DEF CompletedBy
  <2>3. ASSUME NEW r \in Requests PROVE StoredAnswers(r)'
    BY <1>5, <2>1 DEF TakeOverAbandoned, Start, Answer, StoredAnswers, TypeOK
  <2> QED
    BY <2>2, <2>3 DEF OutcomeOwned, CompletedBy, StoredAnswers, TypeOK, IInv
<1>6. ASSUME NEW q \in Requests, BeginFails(q) PROVE OutcomeOwned'
  <2>1. /\ TypeOK /\ call' = call
        /\ \A k \in Keys : CompletedBy(k)
        /\ \A r \in Requests : StoredAnswers(r)
    BY <1>6 DEF IInv, OutcomeOwned, CompletedBy, StoredAnswers, TypeOK, BeginFails
  <2>2. ASSUME NEW k \in Keys PROVE CompletedBy(k)'
    <3>1. /\ stored' = stored
          /\ \/ rows' = rows \/ rows' = Inserted(q)
             \/ rows' = DeletedExpired(q) \/ rows' = TakenOver(q)
      BY <1>6 DEF BeginFails
    <3>2. CASE rows' = Inserted(q)
      <4>1. rows'[k] = rows[k] \/ rows'[k] = NewRow(q)
        BY <2>1, <3>2, InsertEffect
      <4> QED
        BY <2>1, <3>1, <4>1 DEF CompletedBy, NewRow
    <3>3. CASE rows' = DeletedExpired(q) \/ rows' = rows
      BY <2>1, <3>1, <3>3, DeleteEffect DEF CompletedBy
    <3>4. CASE rows' = TakenOver(q)
      BY <2>1, <3>1, <3>4, TakeOverEffect DEF CompletedBy
    <3> QED
      BY <3>1, <3>2, <3>3, <3>4
  <2>3. ASSUME NEW r \in Requests PROVE StoredAnswers(r)'
    BY <1>6, <2>1 DEF BeginFails, Beginning, Answer, StoredAnswers, TypeOK
  <2> QED
    BY <2>2, <2>3 DEF OutcomeOwned, CompletedBy, StoredAnswers, TypeOK, IInv
<1>7. ASSUME NEW q \in Requests, Beat(q) PROVE OutcomeOwned'
  BY <1>7, ConstantsAssumption DEF IInv, TypeOK, Row, Stands, Beginning,
     Live, K, RowOf, OutcomeOwned, LockCoherent, IdsUnique, Fresh, Beat,
     Holds
<1>8. ASSUME NEW q \in Requests, Finish(q) PROVE OutcomeOwned'
  BY <1>8, ConstantsAssumption DEF IInv, TypeOK, Row, Stands, Beginning,
     Live, K, RowOf, OutcomeOwned, LockCoherent, IdsUnique, Fresh, Finish
<1>9. ASSUME NEW q \in Requests, Store(q) PROVE OutcomeOwned'
  <2>1. /\ TypeOK /\ call' = call
        /\ \A k \in Keys : CompletedBy(k)
        /\ \A r \in Requests : StoredAnswers(r)
    BY <1>9 DEF IInv, OutcomeOwned, CompletedBy, StoredAnswers, TypeOK, Store
  <2>2. ASSUME NEW k \in Keys PROVE CompletedBy(k)'
    <3>1. CASE rows' = rows /\ stored' = stored
      BY <2>1, <3>1 DEF CompletedBy
    <3>2. CASE Complete(q)
      <4>1. CASE rows'[k] = rows[k]
        BY <2>1, <3>2, <4>1 DEF CompletedBy, Complete
      <4>2. CASE rows'[k] # rows[k]
        <5>1. /\ k = K(q) /\ Holds(q) /\ SameClaim(rows'[k], rows[k])
              /\ rows[k].lockId = q /\ rows'[k].outcome = q
          BY <2>1, <3>2, <4>2, CompleteEffect
        <5>2. q \in stored'
          BY <3>2, <5>1 DEF Complete
        <5>3. call[q] = [key |-> k, hash |-> rows[k].hash]
          BY <5>1 DEF IInv, LockCoherent, SameClaim
        <5> QED
          BY <2>1, <5>1, <5>2, <5>3 DEF CompletedBy, SameClaim
      <4> QED
        BY <4>1, <4>2
    <3> QED
      BY <1>9, <3>1, <3>2 DEF Store
  <2>3. ASSUME NEW r \in Requests PROVE StoredAnswers(r)'
    <3>1. CASE r = q
      BY <1>9, <2>1, <3>1 DEF Store, Complete, Answer, StoredAnswers, TypeOK
    <3>2. CASE r # q
      <4>1. (r \in stored)' => r \in stored
        BY <1>9, <3>2 DEF Store, Complete
      <4>2. pc'[r] = pc[r] /\ answer'[r] = answer[r]
        BY <1>9, <2>1, <3>2, OthersKept DEF Step
      <4> QED
        BY <2>1, <4>1, <4>2 DEF StoredAnswers
    <3> QED
      BY <3>1, <3>2
  <2> QED
    BY <2>2, <2>3 DEF OutcomeOwned, CompletedBy, StoredAnswers, TypeOK, IInv
<1>10. ASSUME NEW q \in Requests, Record(q) PROVE OutcomeOwned'
  <2>1. /\ TypeOK /\ call' = call
        /\ \A k \in Keys : CompletedBy(k)
        /\ \A r \in Requests : StoredAnswers(r)
    BY <1>10 DEF IInv, OutcomeOwned, CompletedBy, StoredAnswers, TypeOK, Record
  <2>2. ASSUME NEW k \in Keys PROVE CompletedBy(k)'
    <3>1. CASE rows' = rows /\ stored' = stored
      BY <2>1, <3>1 DEF CompletedBy
    <3>2. CASE Complete(q)
      <4>1. CASE rows'[k] = rows[k]
        BY <2>1, <3>2, <4>1 DEF CompletedBy, Complete
      <4>2. CASE rows'[k] # rows[k]
        <5>1. /\ k = K(q) /\ Holds(q) /\ SameClaim(rows'[k], rows[k])
              /\ rows[k].lockId = q /\ rows'[k].outcome = q
          BY <2>1, <3>2, <4>2, CompleteEffect
        <5>2. q \in stored'
          BY <3>2, <5>1 DEF Complete
        <5>3. call[q] = [key |-> k, hash |-> rows[k].hash]
          BY <5>1 DEF IInv, LockCoherent, SameClaim
        <5> QED
          BY <2>1, <5>1, <5>2, <5>3 DEF CompletedBy, SameClaim
      <4> QED
        BY <4>1, <4>2
    <3> QED
      BY <1>10, <3>1, <3>2 DEF Record
  <2>3. ASSUME NEW r \in Requests PROVE StoredAnswers(r)'
    <3>1. CASE r = q
      BY <1>10, <2>1, <3>1 DEF Record, Complete, Answer, StoredAnswers, TypeOK
    <3>2. CASE r # q
      <4>1. (r \in stored)' => r \in stored
        BY <1>10, <3>2 DEF Record, Complete
      <4>2. pc'[r] = pc[r] /\ answer'[r] = answer[r]
        BY <1>10, <2>1, <3>2, OthersKept DEF Step
      <4> QED
        BY <2>1, <4>1, <4>2 DEF StoredAnswers
    <3> QED
      BY <3>1, <3>2
  <2> QED
    BY <2>2, <2>3 DEF OutcomeOwned, CompletedBy, StoredAnswers, TypeOK, IInv
<1>11. ASSUME NEW q \in Requests, Release(q) PROVE OutcomeOwned'
  BY <1>11, ConstantsAssumption DEF IInv, TypeOK, Row, Stands, Beginning,
     Live, K, RowOf, OutcomeOwned, LockCoherent, IdsUnique, Fresh, Release,
     Released, Holds, Answer
<1>12. ASSUME NEW q \in Requests, Die(q) PROVE OutcomeOwned'
  BY <1>12, ConstantsAssumption DEF IInv, TypeOK, Row, Stands, Beginning,
     Live, K, RowOf, OutcomeOwned, LockCoherent, IdsUnique, Fresh, Die
<1>13. CASE PruneExpired
  BY <1>13, ConstantsAssumption DEF IInv, TypeOK, Row, Stands, Beginning, Live,
     K, RowOf, OutcomeOwned, LockCoherent, IdsUnique, Fresh, PruneExpired,
     Prunable
<1>14. CASE Tick
  <2>1. /\ TypeOK /\ call' = call
        /\ \A k \in Keys : CompletedBy(k)
        /\ \A r \in Requests : StoredAnswers(r)
    BY <1>14 DEF IInv, OutcomeOwned, CompletedBy, StoredAnswers, TypeOK, Tick
  <2>2. ASSUME NEW k \in Keys PROVE CompletedBy(k)'
    <3>1. stored' = stored
      BY <1>14 DEF Tick
    <3> QED
      BY <1>14, <2>1, <3>1, TickEffect DEF CompletedBy, SameClaim
  <2>3. ASSUME NEW r \in Requests PROVE StoredAnswers(r)'
    BY <1>14, <2>1 DEF Tick, StoredAnswers
  <2> QED
    BY <2>2, <2>3 DEF OutcomeOwned, CompletedBy, StoredAnswers, TypeOK, IInv
<1>15. CASE UNCHANGED vars
  BY <1>15, ConstantsAssumption DEF IInv, TypeOK, Row, Stands, Beginning, Live,
     K, RowOf, OutcomeOwned, LockCoherent, IdsUnique, Fresh, vars
<1> QED
  BY <1>1, <1>2, <1>3, <1>4, <1>5, <1>6, <1>7, <1>8, <1>9, <1>10, <1>11,
     <1>12, <1>13, <1>14, <1>15 DEF Next

(* OutcomeAged, for one request.                                           *)
Aged(r) ==
  r \in stored =>
    \/ rowLife[r] >= Ttl
    \/ /\ RowOf(r) # NoRow
       /\ RowOf(r).status = "completed"
       /\ RowOf(r).outcome = r
       /\ RowOf(r).life = rowLife[r]

\* Complete stores q's outcome in the row it holds, and leaves completed rows.
LEMMA AgedComplete ==
  ASSUME IInv, NEW q \in Requests, pc[q] \in Live, Complete(q),
         call' = call, rowLife' = rowLife, NEW r \in Requests, Aged(r)
  PROVE  Aged(r)'
<1>1. /\ TypeOK /\ K(r) \in Keys /\ K(r)' = K(r) /\ RowOf(r) = rows[K(r)]
      /\ RowOf(r)' = rows'[K(r)]
  BY RowType DEF IInv, K, RowOf
<1>2. CASE Holds(q) /\ K(r) = K(q)
  <2>1. /\ SameClaim(rows'[K(r)], rows[K(r)]) /\ rows[K(r)].status = "in_progress"
        /\ rows[K(r)].id = id[q] /\ rows[K(r)].lockId = q
        /\ rows'[K(r)].status = "completed" /\ rows'[K(r)].outcome = q
        /\ rows'[K(r)].life = rows[K(r)].life
    BY <1>1, <1>2, CompleteEffect
  <2>2. rows[K(r)].life = rowLife[q]
    BY <1>1, <2>1 DEF IInv, LockCoherent, SameClaim
  <2>3. CASE r = q
    BY <1>1, <2>1, <2>2, <2>3 DEF Aged, SameClaim
  <2>4. CASE r # q
    BY <1>1, <2>1, <2>4 DEF Aged, Complete
  <2> QED
    BY <2>3, <2>4
<1>3. CASE ~(Holds(q) /\ K(r) = K(q))
  <2>1. rows'[K(r)] = rows[K(r)]
    BY <1>1, <1>3, CompleteEffect
  <2>2. (r \in stored)' => r \in stored
    BY <1>3 DEF Complete
  <2> QED
    BY <1>1, <2>1, <2>2 DEF Aged
<1> QED
  BY <1>2, <1>3

LEMMA OutcomeAgedStep == IInv /\ TypeOK' /\ [Next]_vars => OutcomeAged'
<1> SUFFICES ASSUME IInv, TypeOK', [Next]_vars PROVE OutcomeAged'
  OBVIOUS
<1>1. ASSUME NEW q \in Requests, Arrive(q) PROVE OutcomeAged'
  BY <1>1, ConstantsAssumption DEF IInv, TypeOK, Row, Stands, Beginning,
     Live, K, RowOf, OutcomeAged, LockCoherent, ReadsStable, OutcomeOwned,
     Expired, Arrive
<1>2. ASSUME NEW q \in Requests, Insert(q) PROVE OutcomeAged'
  <2> SUFFICES ASSUME NEW r \in Requests PROVE Aged(r)'
    BY DEF OutcomeAged, Aged, IInv, TypeOK
  <2>1. /\ TypeOK /\ Aged(r) /\ K(r) \in Keys /\ RowOf(r) = rows[K(r)]
    BY RowType DEF IInv, OutcomeAged, Aged, RowOf
  <2>2. call' = call /\ K(r)' = K(r) /\ RowOf(r)' = rows'[K(r)]
    BY <1>2 DEF Insert, K, RowOf
  <2>3. stored' = stored
    BY <1>2 DEF Insert
  <2>4. CASE r \in stored
    <3>1. r # q
      BY <1>2, <2>4 DEF Insert, IInv, IdsUnique, Fresh, Beginning
    <3>2. rowLife'[r] = rowLife[r]
      BY <1>2, <2>1, <3>1, OthersKept DEF Step
    <3>3. CASE RowOf(r) # NoRow /\ RowOf(r).status = "completed"
      <4>1. rows'[K(r)] = rows[K(r)]
        BY <1>2, <2>1, <3>3, InsertEffect DEF Insert
      <4> QED
        BY <2>1, <2>2, <2>3, <3>2, <4>1 DEF Aged
    <3> QED
      BY <2>1, <2>2, <2>3, <3>2, <3>3 DEF Aged
  <2> QED
    BY <2>3, <2>4 DEF Aged
<1>3. ASSUME NEW q \in Requests, Look(q) PROVE OutcomeAged'
  BY <1>3, ConstantsAssumption DEF IInv, TypeOK, Row, Stands, Beginning,
     Live, K, RowOf, OutcomeAged, LockCoherent, ReadsStable, OutcomeOwned,
     Expired, Look, Again, Answer
<1>4. ASSUME NEW q \in Requests, DeleteExpired(q) PROVE OutcomeAged'
  BY <1>4, ConstantsAssumption DEF IInv, TypeOK, Row, Stands, Beginning,
     Live, K, RowOf, OutcomeAged, LockCoherent, ReadsStable, OutcomeOwned,
     Expired, DeleteExpired, DeletedExpired, Again, Answer
<1>5. ASSUME NEW q \in Requests, TakeOverAbandoned(q) PROVE OutcomeAged'
  <2> SUFFICES ASSUME NEW r \in Requests PROVE Aged(r)'
    BY DEF OutcomeAged, Aged, IInv, TypeOK
  <2>1. /\ TypeOK /\ Aged(r) /\ K(r) \in Keys /\ RowOf(r) = rows[K(r)]
    BY RowType DEF IInv, OutcomeAged, Aged, RowOf
  <2>2. call' = call /\ K(r)' = K(r) /\ RowOf(r)' = rows'[K(r)]
    BY <1>5 DEF TakeOverAbandoned, K, RowOf
  <2>3. stored' = stored
    BY <1>5 DEF TakeOverAbandoned
  <2>4. CASE r \in stored
    <3>1. r # q
      BY <1>5, <2>4 DEF TakeOverAbandoned, IInv, IdsUnique, Fresh, Beginning
    <3>2. rowLife'[r] = rowLife[r]
      BY <1>5, <2>1, <3>1, OthersKept DEF Step
    <3>3. CASE RowOf(r) # NoRow /\ RowOf(r).status = "completed"
      <4>1. rows'[K(r)] = rows[K(r)]
        BY <1>5, <2>1, <3>3, TakeOverEffect DEF TakeOverAbandoned
      <4> QED
        BY <2>1, <2>2, <2>3, <3>2, <4>1 DEF Aged
    <3> QED
      BY <2>1, <2>2, <2>3, <3>2, <3>3 DEF Aged
  <2> QED
    BY <2>3, <2>4 DEF Aged
<1>6. ASSUME NEW q \in Requests, BeginFails(q) PROVE OutcomeAged'
  BY <1>6, ConstantsAssumption DEF IInv, TypeOK, Row, Stands, Beginning,
     Live, K, RowOf, OutcomeAged, LockCoherent, ReadsStable, OutcomeOwned,
     Expired, BeginFails, Inserted, NewRow, DeletedExpired, TakenOver,
     CanTakeOver, Answer
<1>7. ASSUME NEW q \in Requests, Beat(q) PROVE OutcomeAged'
  BY <1>7, ConstantsAssumption DEF IInv, TypeOK, Row, Stands, Beginning,
     Live, K, RowOf, OutcomeAged, LockCoherent, ReadsStable, OutcomeOwned,
     Expired, Beat, Holds
<1>8. ASSUME NEW q \in Requests, Finish(q) PROVE OutcomeAged'
  BY <1>8, ConstantsAssumption DEF IInv, TypeOK, Row, Stands, Beginning,
     Live, K, RowOf, OutcomeAged, LockCoherent, ReadsStable, OutcomeOwned,
     Expired, Finish
<1>9. ASSUME NEW q \in Requests, Store(q) PROVE OutcomeAged'
  <2> SUFFICES ASSUME NEW r \in Requests PROVE Aged(r)'
    BY DEF OutcomeAged, Aged, IInv, TypeOK
  <2>1. /\ TypeOK /\ Aged(r) /\ K(r) \in Keys /\ RowOf(r) = rows[K(r)]
    BY RowType DEF IInv, OutcomeAged, Aged, RowOf
  <2>2. call' = call /\ K(r)' = K(r) /\ RowOf(r)' = rows'[K(r)]
    BY <1>9 DEF Store, K, RowOf
  <2>3. rowLife' = rowLife /\ pc[q] \in Live
    BY <1>9 DEF Store, Live
  <2>4. Complete(q) \/ (rows' = rows /\ stored' = stored)
    BY <1>9 DEF Store
  <2> QED
    BY <2>1, <2>2, <2>3, <2>4, AgedComplete DEF Aged
<1>10. ASSUME NEW q \in Requests, Record(q) PROVE OutcomeAged'
  <2> SUFFICES ASSUME NEW r \in Requests PROVE Aged(r)'
    BY DEF OutcomeAged, Aged, IInv, TypeOK
  <2>1. /\ TypeOK /\ Aged(r) /\ K(r) \in Keys /\ RowOf(r) = rows[K(r)]
    BY RowType DEF IInv, OutcomeAged, Aged, RowOf
  <2>2. call' = call /\ K(r)' = K(r) /\ RowOf(r)' = rows'[K(r)]
    BY <1>10 DEF Record, K, RowOf
  <2>3. rowLife' = rowLife /\ pc[q] \in Live
    BY <1>10 DEF Record, Live
  <2>4. Complete(q) \/ (rows' = rows /\ stored' = stored)
    BY <1>10 DEF Record
  <2> QED
    BY <2>1, <2>2, <2>3, <2>4, AgedComplete DEF Aged
<1>11. ASSUME NEW q \in Requests, Release(q) PROVE OutcomeAged'
  BY <1>11, ConstantsAssumption DEF IInv, TypeOK, Row, Stands, Beginning,
     Live, K, RowOf, OutcomeAged, LockCoherent, ReadsStable, OutcomeOwned,
     Expired, Release, Released, Holds, Answer
<1>12. ASSUME NEW q \in Requests, Die(q) PROVE OutcomeAged'
  BY <1>12, ConstantsAssumption DEF IInv, TypeOK, Row, Stands, Beginning,
     Live, K, RowOf, OutcomeAged, LockCoherent, ReadsStable, OutcomeOwned,
     Expired, Die
<1>13. CASE PruneExpired
  BY <1>13, ConstantsAssumption DEF IInv, TypeOK, Row, Stands, Beginning, Live,
     K, RowOf, OutcomeAged, LockCoherent, ReadsStable, OutcomeOwned,
     Expired, PruneExpired, Prunable
<1>14. CASE Tick
  <2> SUFFICES ASSUME NEW r \in Requests PROVE Aged(r)'
    BY DEF OutcomeAged, Aged, IInv, TypeOK
  <2>1. /\ TypeOK /\ Aged(r) /\ K(r) \in Keys /\ RowOf(r) = rows[K(r)]
    BY RowType DEF IInv, OutcomeAged, Aged, RowOf
  <2>2. call' = call /\ K(r)' = K(r) /\ RowOf(r)' = rows'[K(r)]
    BY <1>14 DEF Tick, K, RowOf
  <2>3. stored' = stored /\ rowLife'[r] = Older(rowLife[r], Ttl)
    BY <1>14, <2>1, TickAges DEF Tick
  <2>4. rowLife[r] >= Ttl => rowLife'[r] >= Ttl
    <3>1. rowLife[r] \in Nat /\ rowLife'[r] \in Nat
      BY <2>1 DEF TypeOK
    <3> QED
      BY <1>14, <2>1, <3>1, TickAges, ConstantsAssumption
  <2>5. CASE rows[K(r)] # NoRow
    BY <1>14, <2>1, <2>2, <2>3, <2>4, <2>5, TickEffect DEF Aged, SameClaim
  <2>6. CASE rows[K(r)] = NoRow
    BY <2>1, <2>3, <2>4, <2>6 DEF Aged
  <2> QED
    BY <2>5, <2>6
<1>15. CASE UNCHANGED vars
  BY <1>15, ConstantsAssumption DEF IInv, TypeOK, Row, Stands, Beginning, Live,
     K, RowOf, OutcomeAged, LockCoherent, ReadsStable, OutcomeOwned,
     Expired, vars
<1> QED
  BY <1>1, <1>2, <1>3, <1>4, <1>5, <1>6, <1>7, <1>8, <1>9, <1>10, <1>11,
     <1>12, <1>13, <1>14, <1>15 DEF Next

(* ReplayFaithful, given OutcomeOwned, is this of every request.           *)
Replays(r) ==
  answer[r].kind = "replay" =>
    /\ answer[r].by \in stored
    /\ answer[r].by # r
    /\ call[answer[r].by] = call[r]

LEMMA StoredGrows ==
  ASSUME TypeOK, [Next]_vars
  PROVE  stored \in SUBSET stored' /\ call' = call
<1>1. ASSUME NEW q \in Requests, Step(q) PROVE stored \in SUBSET stored' /\ call' = call
  BY <1>1 DEF Step, Arrive, Insert, Look, DeleteExpired, TakeOverAbandoned,
     BeginFails, Beat, Finish, Store, Record, Release, Die, Complete
<1>2. CASE PruneExpired \/ Tick \/ UNCHANGED vars
  BY <1>2 DEF PruneExpired, Tick, vars
<1> QED
  BY <1>1, <1>2 DEF Next, Step

\* Only Look answers with a replay.
LEMMA NoOtherReplay ==
  ASSUME TypeOK, [Next]_vars, NEW r \in Requests, ~Look(r)
  PROVE  answer'[r] = answer[r] \/ answer'[r].kind # "replay"
<1>1. CASE PruneExpired \/ Tick \/ UNCHANGED vars
  BY <1>1 DEF PruneExpired, Tick, vars
<1>2. ASSUME NEW q \in Requests \ {r}, Step(q) PROVE answer'[r] = answer[r]
  BY <1>2, OthersKept
<1>3. CASE Insert(r) \/ TakeOverAbandoned(r)
  BY <1>3 DEF Insert, TakeOverAbandoned, Start, Answer, TypeOK
<1>4. CASE DeleteExpired(r) \/ BeginFails(r)
  BY <1>4 DEF DeleteExpired, BeginFails, Again, Answer, TypeOK
<1>5. CASE Store(r) \/ Record(r) \/ Release(r)
  BY <1>5 DEF Store, Record, Release, Answer, TypeOK
<1>6. CASE Arrive(r) \/ Beat(r) \/ Finish(r) \/ Die(r)
  BY <1>6 DEF Arrive, Beat, Finish, Die
<1> QED
  BY <1>1, <1>2, <1>3, <1>4, <1>5, <1>6 DEF Next, Step

LEMMA ReplayFaithfulStep ==
  IInv /\ OutcomeOwned' /\ [Next]_vars => ReplayFaithful'
<1> SUFFICES ASSUME IInv, OutcomeOwned', [Next]_vars, NEW r \in Requests
             PROVE  Replays(r)'
  BY DEF Replays, ReplayFaithful, OutcomeOwned
<1>1. TypeOK /\ Replays(r) /\ stored \in SUBSET stored' /\ call' = call
  BY StoredGrows DEF IInv, ReplayFaithful, Replays
<1>2. CASE ~Look(r)
  BY <1>1, <1>2, NoOtherReplay DEF Replays
<1>3. CASE Look(r)
  <2>1. r \notin stored /\ K(r) \in Keys /\ RowOf(r) = rows[K(r)]
    BY <1>1, <1>3, RowType DEF Look, IInv, IdsUnique, Fresh, Beginning, RowOf
  <2>2. CASE answer'[r] = answer[r] \/ answer'[r].kind # "replay"
    BY <1>1, <2>2 DEF Replays
  <2>3. CASE /\ Answer(r, "replay", RowOf(r).outcome)
             /\ RowOf(r) # NoRow /\ RowOf(r).status = "completed" /\ SameRequest(r)
    <3>1. answer'[r].by = RowOf(r).outcome
      BY <1>1, <2>3 DEF Answer, TypeOK
    <3>2. /\ RowOf(r).outcome \in stored
          /\ call[RowOf(r).outcome] = [key |-> K(r), hash |-> call[r].hash]
      BY <2>1, <2>3 DEF IInv, OutcomeOwned, SameRequest
    <3> QED
      BY <1>1, <2>1, <3>1, <3>2, CallIs DEF Replays
  <2> QED
    BY <1>1, <1>3, <2>2, <2>3 DEF Look, Again, Answer, TypeOK
<1> QED
  BY <1>2, <1>3

LEMMA IInvInit == Init => IInv
<1> SUFFICES ASSUME Init PROVE IInv
  OBVIOUS
<1>1. TypeOK
  BY TypeInit
<1> QED
  BY <1>1 DEF Init, IInv, IdsUnique, Fresh, Beginning, ReadsStable, RowOf, K,
     LockCoherent, LapseOnly, HolderUnlessLapsed, OutcomeOwned, OutcomeAged,
     ReplayFaithful, TypeOK

LEMMA IInvStep == IInv /\ [Next]_vars => IInv'
<1> SUFFICES ASSUME IInv, [Next]_vars PROVE IInv'
  OBVIOUS
<1>1. TypeOK'
  BY TypeStep DEF IInv
<1> QED
  BY <1>1, IdsUniqueStep, ReadsStableStep, LockCoherentStep, LapseOnlyStep,
     OutcomeOwnedStep, OutcomeAgedStep, ReplayFaithfulStep DEF IInv

LEMMA Inductive == Spec => []IInv
BY IInvInit, IInvStep, PTL DEF Spec

-----------------------------------------------------------------------------
(* A handler that beats in time, on a row within its TTL, is never joined  *)
(* by a second one (begin, takeOverAbandoned, pruneExpired).               *)
THEOREM HolderSafe == Spec => []HolderUnlessLapsed
<1>1. IInv => HolderUnlessLapsed
  BY DEF IInv, LapseOnly
<1> QED
  BY <1>1, Inductive, PTL

(* A stored outcome is not lost or replaced within its TTL (complete,      *)
(* release, renew and delete, however late they are executed).             *)
THEOREM OutcomeSafe == Spec => []OutcomeKept
<1>1. IInv => OutcomeKept
  BY DEF IInv, OutcomeAged, OutcomeKept
<1> QED
  BY <1>1, Inductive, PTL

(* What is replayed is the stored response of a request with the same key  *)
(* and fingerprint (begin's decisions, and complete).                      *)
THEOREM ReplaySafe == Spec => []ReplayFaithful
<1>1. IInv => ReplayFaithful
  BY DEF IInv
<1> QED
  BY <1>1, Inductive, PTL

(* No handler starts under a key with a stored outcome younger than the    *)
(* TTL: neither begin's insert nor takeOverAbandoned can.                  *)
THEOREM RunOnce == Spec => NeverRunAgain
<1> DEFINE Starts(r, s) ==
             (s \in stored /\ K(s) = K(r) /\ rowLife[s] < Ttl)
               => ~(pc[r] # "running" /\ pc'[r] = "running")
<1>1. ASSUME IInv, [Next]_vars, NEW r \in Requests, NEW s \in Requests
      PROVE  Starts(r, s)
  <2> SUFFICES ASSUME s \in stored, K(s) = K(r), rowLife[s] < Ttl,
                      pc[r] # "running", pc'[r] = "running"
               PROVE  FALSE
    OBVIOUS
  <2>1. TypeOK /\ RowOf(r) = RowOf(s)
    BY <1>1 DEF IInv, RowOf
  <2>2. RowOf(s) # NoRow /\ RowOf(s).status = "completed"
    <3>1. rowLife[s] \in Nat
      BY <2>1 DEF TypeOK
    <3> QED
      BY <1>1, <3>1, ConstantsAssumption DEF IInv, OutcomeAged
  <2>3. Insert(r) \/ TakeOverAbandoned(r)
    <3>1. CASE PruneExpired \/ Tick \/ UNCHANGED vars
      BY <3>1 DEF PruneExpired, Tick, vars
    <3>2. ASSUME NEW q \in Requests \ {r}, Step(q) PROVE FALSE
      BY <2>1, <3>2, OthersKept
    <3>3. CASE Look(r) \/ DeleteExpired(r) \/ BeginFails(r)
      BY <2>1, <3>3 DEF Look, DeleteExpired, BeginFails, Again, Answer, TypeOK
    <3>4. CASE Store(r) \/ Record(r) \/ Release(r)
      BY <2>1, <3>4 DEF Store, Record, Release, Answer, TypeOK
    <3>5. CASE Arrive(r) \/ Beat(r) \/ Finish(r) \/ Die(r)
      BY <2>1, <3>5 DEF Arrive, Beat, Finish, Die, TypeOK
    <3> QED
      BY <1>1, <3>1, <3>2, <3>3, <3>4, <3>5 DEF Next, Step
  <2> QED
    BY <2>1, <2>2, <2>3
    DEF Insert, TakeOverAbandoned, CanTakeOver, Answer, TypeOK
<1>2. IInv /\ [Next]_vars =>
        [\A r, s \in Requests :
           /\ s \in stored
           /\ K(s) = K(r)
           /\ rowLife[s] < Ttl
           => ~(pc[r] # "running" /\ pc'[r] = "running")]_vars
  BY <1>1
<1> QED
  BY <1>2, Inductive, PTL DEF Spec, NeverRunAgain
=============================================================================
