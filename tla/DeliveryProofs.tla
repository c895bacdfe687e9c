--------------------------- MODULE DeliveryProofs ---------------------------
(***************************************************************************)
(* Theorems about what is delivered in the background.  Of Outbox, for     *)
(* every set of messages and of relays, every batch size and every limit   *)
(* on attempts and faults: a committed change becomes a job, with its      *)
(* data.  Of the circuit breaker, for any number of calls and any options, *)
(* and of Mail: its steps are steps of the circuit breaker, or leave it    *)
(* alone, so that what is proved of the breaker holds of it; a completed   *)
(* email was accepted, and a job failed for good is reported.              *)
(***************************************************************************)
EXTENDS Outbox, Mail, FiniteSetTheorems, TLAPS

-----------------------------------------------------------------------------
(* The outbox. *)


\* A row exists from its insert on; only a dispatched row has lost its
\* payload; its attempts are calls of add.
RowSound ==
  \A m \in Messages :
    /\ change[m] = "none" => rows[m] = NoRow
    /\ change[m] = "open" => Pending(m)
    /\ Exists(m) /\ rows[m].status # "dispatched" => rows[m].payload = TRUE
    /\ Exists(m) /\ rows[m].status = "failed" => rows[m].attempts >= MaxAttempts
    /\ Exists(m) => rows[m].attempts <= tries[m]
    /\ jobs[m] # "absent" => queued[m] > 0

\* A relay has claimed pending rows of committed changes, and marks only these.
ClaimSound ==
  \A w \in Relays :
    /\ stage[w] \in {"idle", "down"} => Batch(w) = {}
    /\ sent[w] \subseteq Batch(w)
    /\ missed[w] \subseteq Batch(w)
    /\ \A m \in Batch(w) :
         /\ Visible(m)
         /\ copy[w][m].status = "pending"
         /\ copy[w][m].payload = TRUE
         /\ copy[w][m].attempts <= tries[m]
         /\ m \in missed[w] => copy[w][m].attempts < tries[m]
         /\ m \in sent[w] => queued[m] > 0

\* An add that was given up on carries the data of a committed message.
LateSound ==
  \A w \in Relays : \A l \in late[w] : Visible(l[1]) /\ l[2] = TRUE

\* While a relay's transaction lives, the rows it has locked do not change.
LocksKeep ==
  \A w \in Relays : \A m \in Locks(w) : rows[m] = copy[w][m]

IInv ==
  /\ TypeOK
  /\ RowSound
  /\ ClaimSound
  /\ LateSound
  /\ OneRelay
  /\ LocksKeep
  /\ JobOnlyIfCommitted
  /\ HandedOver
  /\ DataKept

Called(w, m) == Dispatch(w, m) \/ DispatchFails(w, m) \/ DispatchTimesOut(w, m)

-----------------------------------------------------------------------------
(* What single definitions do, with Row kept opaque.                       *)

LEMMA RowFields ==
  ASSUME NEW row \in Row
  PROVE  /\ row.status \in {"pending", "dispatched", "failed"}
         /\ row.attempts \in Nat
         /\ row.payload \in BOOLEAN
         /\ row # NoRow
BY ConstantsAssumption DEF Row

LEMMA NewRowFields ==
  /\ NewRow \in Row
  /\ NewRow.status = "pending"
  /\ NewRow.attempts = 0
  /\ NewRow.payload = TRUE
BY DEF NewRow, Row

LEMMA DispatchedFields ==
  ASSUME NEW row \in Row
  PROVE  /\ Dispatched(row) \in Row
         /\ Dispatched(row).status = "dispatched"
         /\ Dispatched(row).attempts = row.attempts
BY DEF Dispatched, Row

LEMMA MissedFields ==
  ASSUME NEW row \in Row
  PROVE  /\ Missed(row) \in Row
         /\ Missed(row).status \in {row.status, "failed"}
         /\ Missed(row).status = "failed" =>
              row.status = "failed" \/ row.attempts + 1 >= MaxAttempts
         /\ Missed(row).attempts = row.attempts + 1
         /\ Missed(row).payload = row.payload
<1> DEFINE last == row.attempts + 1 >= MaxAttempts
           next == IF last THEN "failed" ELSE row.status
<1>1. Missed(row) = [row EXCEPT !.attempts = row.attempts + 1, !.status = next]
  BY DEF Missed
<1>2. next \in {row.status, "failed"} /\ (next = "failed" => row.status = "failed" \/ last)
  OBVIOUS
<1> HIDE DEF next, last
<1>3. /\ Missed(row).status = next
      /\ Missed(row).attempts = row.attempts + 1
      /\ Missed(row).payload = row.payload
  BY <1>1 DEF Row
<1>4. Missed(row) \in Row
  <2>1. row.attempts + 1 \in Nat /\ next \in {"pending", "dispatched", "failed"}
    BY <1>2, RowFields
  <2> QED
    BY <1>1, <2>1 DEF Row
<1> QED
  BY <1>2, <1>3, <1>4 DEF last

LEMMA FirstOfSubset ==
  ASSUME NEW set
  PROVE  FirstOf(set) \subseteq set
BY DEF FirstOf

\* Whatever add does, the job with the message's id has been queued by then.
LEMMA AddEffect ==
  ASSUME TypeOK, NEW m \in Messages, NEW data,
         Add(m, data),
         jobs[m] # "absent" => queued[m] > 0
  PROVE  /\ jobs' \in [Messages -> {"absent", "waiting", "finished"}]
         /\ queued' \in [Messages -> Nat]
         /\ blank' \in SUBSET Messages
         /\ queued'[m] > 0
         /\ queued'[m] >= queued[m]
         /\ \A n \in Messages \ {m} : queued'[n] = queued[n] /\ jobs'[n] = jobs[n]
         /\ data = TRUE => blank' = blank
<1>1. /\ jobs \in [Messages -> {"absent", "waiting", "finished"}]
      /\ queued \in [Messages -> Nat]
      /\ blank \in SUBSET Messages
  BY DEF TypeOK
<1>2. CASE jobs[m] # "absent"
  <2>1. jobs' = jobs /\ queued' = queued /\ blank' = blank
    BY <1>2 DEF Add, redis
  <2> QED
    BY <1>1, <1>2, <2>1
<1>3. CASE jobs[m] = "absent"
  <2>1. /\ jobs' = [jobs EXCEPT ![m] = "waiting"]
        /\ queued' = [queued EXCEPT ![m] = queued[m] + 1]
        /\ blank' = IF data THEN blank ELSE blank \cup {m}
    BY <1>3 DEF Add
  <2>2. blank' \in SUBSET Messages /\ (data = TRUE => blank' = blank)
    BY <1>1, <2>1
  <2>3. jobs' \in [Messages -> {"absent", "waiting", "finished"}]
    BY <1>1, <2>1
  <2>4. queued[m] \in Nat /\ queued[m] + 1 \in Nat
    BY <1>1
  <2>5. queued' \in [Messages -> Nat] /\ queued'[m] = queued[m] + 1
    BY <1>1, <2>1, <2>4
  <2>6. \A n \in Messages \ {m} : queued'[n] = queued[n] /\ jobs'[n] = jobs[n]
    BY <1>1, <2>1
  <2> QED
    BY <2>2, <2>3, <2>4, <2>5, <2>6
<1> QED
  BY <1>2, <1>3

\* A dispatch concerns a row of the relay's batch.
LEMMA CalledEffect ==
  ASSUME IInv, NEW w \in Relays, NEW m \in Messages, Called(w, m)
  PROVE  /\ m \in Batch(w)
         /\ stage[w] = "dispatching"
         /\ Visible(m)
         /\ copy[w][m].payload = TRUE
         /\ UNCHANGED <<change, rows, due, ahead, copy, lost, orphans, faults>>
         /\ UNCHANGED redis \/ Add(m, copy[w][m].payload)
         /\ tries' = [tries EXCEPT ![m] = @ + 1]
         /\ \/ /\ sent' = [sent EXCEPT ![w] = @ \cup {m}]
               /\ Add(m, copy[w][m].payload)
               /\ UNCHANGED missed
            \/ /\ missed' = [missed EXCEPT ![w] = @ \cup {m}]
               /\ UNCHANGED sent
         /\ stage' \in {stage, [stage EXCEPT ![w] = "saving"]}
         /\ late' \in {late, [late EXCEPT ![w] = @ \cup {<<m, copy[w][m].payload>>}]}
<1>1. m \in Batch(w) /\ stage[w] = "dispatching"
  BY DEF Called, Dispatch, DispatchFails, DispatchTimesOut, NextOf, Left
<1>2. Visible(m) /\ copy[w][m].payload = TRUE
  BY <1>1 DEF IInv, ClaimSound
<1>3. CASE Dispatch(w, m)
  BY <1>1, <1>2, <1>3 DEF Dispatch, table
<1>4. CASE DispatchFails(w, m)
  BY <1>1, <1>2, <1>4 DEF DispatchFails, table
<1>5. CASE DispatchTimesOut(w, m)
  BY <1>1, <1>2, <1>5 DEF DispatchTimesOut, table
<1> QED
  BY <1>3, <1>4, <1>5 DEF Called

\* The end of a relay's transaction empties its batch and leaves the others.
LEMMA EndBatchEffect ==
  ASSUME TypeOK, NEW w \in Relays, NEW next \in {"idle", "down"},
         EndBatch(w, next)
  PROVE  /\ stage' \in [Relays -> {"idle", "dispatching", "saving", "down"}]
         /\ copy' \in [Relays -> [Messages -> Row \cup {NoRow}]]
         /\ sent' \in [Relays -> SUBSET Messages]
         /\ missed' \in [Relays -> SUBSET Messages]
         /\ lost' = lost \ {w}
         /\ Batch(w)' = {} /\ sent'[w] = {} /\ missed'[w] = {}
         /\ \A v \in Relays \ {w} :
              /\ stage'[v] = stage[v]
              /\ copy'[v] = copy[v]
              /\ Batch(v)' = Batch(v)
              /\ sent'[v] = sent[v]
              /\ missed'[v] = missed[v]
BY DEF EndBatch, TypeOK, Batch

\* A claim reads the rows it locks, and none that another relay holds.
LEMMA ClaimEffect ==
  ASSUME TypeOK, NEW w \in Relays, Claim(w)
  PROVE  /\ copy' \in [Relays -> [Messages -> Row \cup {NoRow}]]
         /\ stage' = [stage EXCEPT ![w] = "dispatching"]
         /\ stage[w] = "idle"
         /\ Batch(w)' \subseteq Claimable
         /\ \A m \in Batch(w)' : copy'[w][m] = rows[m]
         /\ \A v \in Relays \ {w} : copy'[v] = copy[v] /\ Batch(v)' = Batch(v)
         /\ UNCHANGED <<change, rows, due, ahead, sent, missed, lost, late,
                        orphans, jobs, queued, blank, tries, faults>>
<1>1. copy' = [copy EXCEPT ![w] = [m \in Messages |->
                 IF m \in FirstOf(Claimable) THEN rows[m] ELSE NoRow]]
  BY DEF Claim
<1>2. copy' \in [Relays -> [Messages -> Row \cup {NoRow}]]
  BY <1>1 DEF TypeOK
<1>3. copy'[w] = [m \in Messages |->
                    IF m \in FirstOf(Claimable) THEN rows[m] ELSE NoRow]
  BY <1>1 DEF TypeOK
<1>4. \A v \in Relays \ {w} : copy'[v] = copy[v] /\ Batch(v)' = Batch(v)
  BY <1>1 DEF TypeOK, Batch
<1>5. /\ Batch(w)' \subseteq Claimable
      /\ \A m \in Batch(w)' : copy'[w][m] = rows[m]
  BY <1>3, FirstOfSubset DEF Batch
<1> QED
  BY <1>2, <1>4, <1>5 DEF Claim, table, redis

-----------------------------------------------------------------------------
(* What a step does to one group of variables, whichever action it is.     *)

\* Each action in turn, in the order of Next.
LEMMA Steps ==
  ASSUME [Next]_vars
  PROVE  \/ \E m \in Messages : Enqueue(m)
         \/ \E m \in Messages : Commit(m)
         \/ \E m \in Messages : Rollback(m)
         \/ \E m \in Messages : BecomeDue(m)
         \/ \E w \in Relays : Claim(w)
         \/ \E w \in Relays, m \in Messages : Called(w, m)
         \/ \E w \in Relays : Save(w)
         \/ \E w \in Relays : LoseTransaction(w)
         \/ \E w \in Relays : SaveFails(w)
         \/ \E w \in Relays, m \in Messages : LateAdd(w, m)
         \/ \E w \in Relays : Crash(w)
         \/ \E w \in Relays : Restart(w)
         \/ DropConnection
         \/ \E w \in Relays : Prune(w)
         \/ \E m \in Messages : Run(m)
         \/ \E m \in Messages : Remove(m)
         \/ UNCHANGED vars
BY DEF Next, Called

\* A commit is final.
LEMMA ChangeStep ==
  ASSUME IInv, [Next]_vars
  PROVE  /\ change' \in [Messages -> {"none", "open", "committed", "rolled back"}]
         /\ \A m \in Messages : Visible(m) => Visible(m)'
<1> change \in [Messages -> {"none", "open", "committed", "rolled back"}]
  BY DEF IInv, TypeOK
<1>1. CASE UNCHANGED change
  BY <1>1 DEF Visible
<1>2. ASSUME NEW m \in Messages, Enqueue(m) \/ Commit(m) \/ Rollback(m)
      PROVE  /\ change' \in [Messages -> {"none", "open", "committed", "rolled back"}]
             /\ \A n \in Messages : Visible(n) => Visible(n)'
  BY <1>2 DEF Enqueue, Commit, Rollback, Visible
<1> QED
  BY <1>1, <1>2, Steps, CalledEffect
     DEF vars, table, relay, redis, BecomeDue, Claim, Save, LoseTransaction, SaveFails,
         LateAdd, Crash, Restart, DropConnection, Prune, Run, Remove

\* Calls of add are only counted up.
LEMMA TriesStep ==
  ASSUME IInv, [Next]_vars
  PROVE  /\ tries' \in [Messages -> Nat]
         /\ \A m \in Messages : tries'[m] >= tries[m]
<1>0. tries \in [Messages -> Nat]
  BY DEF IInv, TypeOK
<1>1. CASE UNCHANGED tries
  BY <1>0, <1>1
<1>2. ASSUME NEW w \in Relays, NEW m \in Messages, Called(w, m)
      PROVE  /\ tries' \in [Messages -> Nat]
             /\ \A n \in Messages : tries'[n] >= tries[n]
  <2>1. tries' = [tries EXCEPT ![m] = tries[m] + 1]
    BY <1>2, CalledEffect
  <2>2. tries[m] \in Nat /\ tries[m] + 1 \in Nat /\ tries[m] + 1 >= tries[m]
    BY <1>0
  <2> QED
    BY <1>0, <2>1, <2>2
<1> QED
  BY <1>1, <1>2, Steps
     DEF vars, table, relay, redis, Enqueue, Commit, Rollback, BecomeDue, Claim, Save,
         LoseTransaction, SaveFails, LateAdd, Crash, Restart, DropConnection, Prune, Run, Remove

RedisSound ==
  /\ jobs' \in [Messages -> {"absent", "waiting", "finished"}]
  /\ queued' \in [Messages -> Nat]
  /\ blank' = blank
  /\ \A n \in Messages :
       /\ queued'[n] >= queued[n]
       /\ queued'[n] # queued[n] => Visible(n)
       /\ jobs'[n] # "absent" => queued'[n] > 0

\* Jobs are only queued for committed messages, with their data.
LEMMA RedisStep ==
  ASSUME IInv, [Next]_vars
  PROVE  RedisSound
<1>0. /\ jobs \in [Messages -> {"absent", "waiting", "finished"}]
      /\ queued \in [Messages -> Nat]
      /\ \A n \in Messages : jobs[n] # "absent" => queued[n] > 0
  BY DEF IInv, TypeOK, RowSound
<1>1. CASE UNCHANGED redis
  BY <1>0, <1>1 DEF redis, RedisSound
<1>2. ASSUME NEW m \in Messages, NEW data, Add(m, data), data = TRUE, Visible(m)
      PROVE  RedisSound
  <2>1. /\ jobs' \in [Messages -> {"absent", "waiting", "finished"}]
        /\ queued' \in [Messages -> Nat]
        /\ queued'[m] > 0
        /\ queued'[m] >= queued[m]
        /\ \A n \in Messages \ {m} : queued'[n] = queued[n] /\ jobs'[n] = jobs[n]
        /\ data = TRUE => blank' = blank
    BY <1>0, <1>2, AddEffect DEF IInv
  <2> QED
    BY <1>0, <1>2, <2>1 DEF RedisSound
<1>3. ASSUME NEW w \in Relays, NEW m \in Messages, Called(w, m)
      PROVE  RedisSound
  <2>1. /\ UNCHANGED redis \/ Add(m, copy[w][m].payload)
        /\ copy[w][m].payload = TRUE
        /\ Visible(m)
    BY <1>3, CalledEffect
  <2> QED
    BY <1>1, <1>2, <2>1
<1>4. ASSUME NEW w \in Relays, NEW m \in Messages, LateAdd(w, m)
      PROVE  RedisSound
  <2>1. PICK data \in BOOLEAN : <<m, data>> \in late[w] /\ (Add(m, data) \/ UNCHANGED redis)
    BY <1>4 DEF LateAdd
  <2>2. Visible(<<m, data>>[1]) /\ <<m, data>>[2] = TRUE
    BY <2>1 DEF IInv, LateSound
  <2> QED
    BY <1>1, <1>2, <2>1, <2>2
<1>5. ASSUME NEW m \in Messages, Run(m) \/ Remove(m)
      PROVE  RedisSound
  <2>1. /\ \/ jobs[m] = "waiting" /\ jobs' = [jobs EXCEPT ![m] = "finished"]
           \/ jobs[m] = "finished" /\ jobs' = [jobs EXCEPT ![m] = "absent"]
        /\ queued' = queued /\ blank' = blank
    BY <1>5 DEF Run, Remove
  <2> QED
    BY <1>0, <2>1 DEF RedisSound
<1> QED
  BY <1>1, <1>3, <1>4, <1>5, Steps
     DEF vars, table, relay, redis, Enqueue, Commit, Rollback, BecomeDue, Claim, Save,
         LoseTransaction, SaveFails, Crash, Restart, DropConnection, Prune

\* A relay keeps its batch, or its transaction ends, or it claims a new one.
BatchKept(v) ==
  /\ copy'[v] = copy[v]
  /\ Batch(v)' = Batch(v)
  /\ v \in lost => v \in lost'
  /\ stage'[v] \in {"idle", "down"} => stage[v] \in {"idle", "down"}
  /\ \/ sent'[v] = sent[v] /\ missed'[v] = missed[v]
     \/ \E m \in Batch(v) :
          /\ sent'[v] = sent[v] \cup {m}
          /\ queued'[m] > 0
          /\ missed'[v] = missed[v]
     \/ \E m \in Batch(v) :
          /\ missed'[v] = missed[v] \cup {m}
          /\ tries'[m] = tries[m] + 1
          /\ sent'[v] = sent[v]

BatchEnded(v) == Batch(v)' = {} /\ sent'[v] = {} /\ missed'[v] = {}

LEMMA BatchStep ==
  ASSUME IInv, [Next]_vars, NEW v \in Relays
  PROVE  BatchKept(v) \/ BatchEnded(v) \/ Claim(v)
<1>0. TypeOK
  BY DEF IInv
<1>1. CASE UNCHANGED relay
  BY <1>1 DEF relay, Batch, BatchKept
<1>2. ASSUME NEW w \in Relays, Claim(w), w # v
      PROVE  BatchKept(v)
  <2>0. /\ stage' = [stage EXCEPT ![w] = "dispatching"]
        /\ \A u \in Relays \ {w} : copy'[u] = copy[u] /\ Batch(u)' = Batch(u)
        /\ sent' = sent /\ missed' = missed /\ lost' = lost
    BY <1>0, <1>2, ClaimEffect
  <2>1. copy'[v] = copy[v] /\ Batch(v)' = Batch(v)
    BY <1>2, <2>0
  <2>2. stage'[v] = stage[v]
    BY <1>0, <1>2, <2>0 DEF TypeOK
  <2> QED
    BY <2>0, <2>1, <2>2 DEF BatchKept
<1>3. ASSUME NEW w \in Relays, NEW m \in Messages, Called(w, m)
      PROVE  BatchKept(v)
  <2>1. copy' = copy /\ lost' = lost /\ Batch(v)' = Batch(v) /\ m \in Batch(w)
    BY <1>3, CalledEffect DEF Batch
  <2>2. stage'[v] \in {"idle", "down"} => stage[v] \in {"idle", "down"}
    BY <1>0, <1>3, CalledEffect DEF TypeOK
  <2>3. jobs[m] # "absent" => queued[m] > 0
    BY DEF IInv, RowSound
  <2>4. CASE /\ sent' = [sent EXCEPT ![w] = @ \cup {m}]
             /\ Add(m, copy[w][m].payload)
             /\ UNCHANGED missed
    <3>1. queued'[m] > 0
      BY <1>0, <2>3, <2>4, AddEffect
    <3>2. sent'[v] = IF v = w THEN sent[v] \cup {m} ELSE sent[v]
      BY <1>0, <2>4 DEF TypeOK
    <3> QED
      BY <2>1, <2>2, <2>4, <3>1, <3>2 DEF BatchKept
  <2>5. CASE missed' = [missed EXCEPT ![w] = @ \cup {m}] /\ UNCHANGED sent
    <3>1. tries'[m] = tries[m] + 1
      <4>1. tries' = [tries EXCEPT ![m] = tries[m] + 1]
        BY <1>3, CalledEffect
      <4>2. tries \in [Messages -> Nat]
        BY <1>0 DEF TypeOK
      <4> QED
        BY <4>1, <4>2
    <3>2. missed'[v] = IF v = w THEN missed[v] \cup {m} ELSE missed[v]
      BY <1>0, <2>5 DEF TypeOK
    <3> QED
      BY <2>1, <2>2, <2>5, <3>1, <3>2 DEF BatchKept
  <2> QED
    BY <1>3, <2>4, <2>5, CalledEffect
<1>4. ASSUME NEW w \in Relays, NEW next \in {"idle", "down"}, EndBatch(w, next)
      PROVE  BatchKept(v) \/ BatchEnded(v)
  <2>1. CASE v = w
    BY <1>0, <1>4, <2>1, EndBatchEffect DEF BatchEnded
  <2>2. CASE v # w
    BY <1>0, <1>4, <2>2, EndBatchEffect DEF BatchKept
  <2> QED
    BY <2>1, <2>2
<1>5. ASSUME NEW w \in Relays, LoseTransaction(w)
      PROVE  BatchKept(v)
  BY <1>5 DEF LoseTransaction, BatchKept, Batch
<1>6. ASSUME NEW w \in Relays, Restart(w)
      PROVE  BatchKept(v)
  BY <1>0, <1>6 DEF Restart, BatchKept, Batch, TypeOK
<1>7. ASSUME NEW w \in Relays, Save(w) \/ SaveFails(w) \/ Crash(w)
      PROVE  EndBatch(w, "idle") \/ EndBatch(w, "down")
  BY <1>7 DEF Save, SaveFails, Crash
<1> QED
  BY <1>1, <1>2, <1>3, <1>4, <1>5, <1>6, <1>7, Steps
     DEF vars, relay, Enqueue, Commit, Rollback, BecomeDue, LateAdd, DropConnection,
         Prune, Run, Remove

-----------------------------------------------------------------------------
(* The conjuncts of the invariant, one by one.                             *)

LEMMA IInvInit == Init => IInv
<1> SUFFICES ASSUME Init PROVE IInv
  OBVIOUS
<1>1. /\ \A m \in Messages : rows[m] = NoRow /\ change[m] = "none" /\ queued[m] = 0
      /\ \A m \in Messages : jobs[m] = "absent"
      /\ \A w \in Relays : Batch(w) = {} /\ sent[w] = {} /\ missed[w] = {} /\ late[w] = {}
      /\ blank = {} /\ orphans = {}
  BY DEF Init, Batch
<1>2. TypeOK
  BY DEF Init, TypeOK
<1>3. RowSound
  BY <1>1 DEF RowSound, Exists
<1>4. ClaimSound /\ LateSound
  BY <1>1 DEF ClaimSound, LateSound
<1>5. OneRelay /\ LocksKeep
  BY <1>1 DEF OneRelay, LocksKeep, Locks
<1>6. JobOnlyIfCommitted /\ HandedOver /\ DataKept
  BY <1>1 DEF JobOnlyIfCommitted, HandedOver, DataKept
<1> QED
  BY <1>2, <1>3, <1>4, <1>5, <1>6 DEF IInv

\* What a save writes: only rows it marked, typed, with the status of the mark.
LEMMA SaveEffect ==
  ASSUME IInv, NEW w \in Relays, Save(w)
  PROVE  /\ rows' \in [Messages -> Row \cup {NoRow}]
         /\ \A m \in Messages \ (sent[w] \cup missed[w]) : rows'[m] = rows[m]
         /\ \A m \in sent[w] \cup missed[w] :
              /\ rows[m] = copy[w][m]
              /\ rows[m] \in Row
              /\ rows[m].status = "pending"
              /\ Visible(m)
              /\ m \in Locks(w)
              /\ rows'[m] \in Row
         /\ \A m \in sent[w] :
              /\ rows'[m].status = "dispatched"
              /\ rows'[m].attempts = rows[m].attempts
              /\ queued[m] > 0
         /\ \A m \in missed[w] \ sent[w] :
              /\ rows'[m].status \in {"pending", "failed"}
              /\ rows'[m].status = "failed" => rows'[m].attempts >= MaxAttempts
              /\ rows'[m].attempts = rows[m].attempts + 1
              /\ rows'[m].payload = TRUE
              /\ rows[m].attempts < tries[m]
         /\ UNCHANGED <<change, ahead, late, orphans, jobs, queued, blank, tries, faults>>
<1>1. /\ rows \in [Messages -> Row \cup {NoRow}]
      /\ copy[w] \in [Messages -> Row \cup {NoRow}]
      /\ sent[w] \subseteq Messages /\ missed[w] \subseteq Messages
  BY DEF IInv, TypeOK
<1>2. rows' = [m \in Messages |-> 
               IF m \in sent[w] THEN Dispatched(copy[w][m])
               ELSE IF m \in missed[w] THEN Missed(copy[w][m]) ELSE rows[m]]
  BY DEF Save
<1>3. ASSUME NEW m \in sent[w] \cup missed[w]
      PROVE  /\ m \in Messages
             /\ rows[m] = copy[w][m] /\ copy[w][m] \in Row
             /\ copy[w][m].status = "pending"
             /\ copy[w][m].payload = TRUE
             /\ Visible(m)
             /\ m \in Locks(w)
             /\ m \in sent[w] => queued[m] > 0
             /\ m \in missed[w] => copy[w][m].attempts < tries[m]
  <2>1. m \in Batch(w)
    BY DEF IInv, ClaimSound
  <2>2. m \in Locks(w)
    BY <2>1 DEF Locks, Save
  <2>3. rows[m] = copy[w][m]
    BY <2>2 DEF IInv, LocksKeep
  <2>4. copy[w][m] \in Row
    BY <1>1, <2>1 DEF Batch
  <2> QED
    BY <1>1, <2>1, <2>2, <2>3, <2>4 DEF IInv, ClaimSound
<1>4. ASSUME NEW m \in sent[w]
      PROVE  /\ rows'[m] \in Row
             /\ rows'[m].status = "dispatched"
             /\ rows'[m].attempts = rows[m].attempts
  <2>1. rows'[m] = Dispatched(copy[w][m])
    BY <1>1, <1>2
  <2>2. rows[m] = copy[w][m] /\ copy[w][m] \in Row
    BY <1>3
  <2> QED
    BY <2>1, <2>2, DispatchedFields
<1>5. ASSUME NEW m \in missed[w] \ sent[w]
      PROVE  /\ rows'[m] \in Row
             /\ rows'[m].status \in {"pending", "failed"}
             /\ rows'[m].status = "failed" => rows'[m].attempts >= MaxAttempts
             /\ rows'[m].attempts = rows[m].attempts + 1
             /\ rows'[m].payload = TRUE
  <2>1. rows'[m] = Missed(copy[w][m])
    BY <1>1, <1>2
  <2>2. /\ rows[m] = copy[w][m] /\ copy[w][m] \in Row
        /\ copy[w][m].status = "pending" /\ copy[w][m].payload = TRUE
    BY <1>3
  <2>3. copy[w][m].attempts \in Nat
    BY <2>2, RowFields
  <2>4. /\ Missed(copy[w][m]) \in Row
        /\ Missed(copy[w][m]).status \in {copy[w][m].status, "failed"}
        /\ Missed(copy[w][m]).status = "failed" =>
              copy[w][m].status = "failed" \/ copy[w][m].attempts + 1 >= MaxAttempts
        /\ Missed(copy[w][m]).attempts = copy[w][m].attempts + 1
        /\ Missed(copy[w][m]).payload = copy[w][m].payload
    BY <2>2, MissedFields
  <2> QED
    BY <2>1, <2>2, <2>4
<1>6. rows' \in [Messages -> Row \cup {NoRow}]
  <2> SUFFICES ASSUME NEW m \in Messages PROVE rows'[m] \in Row \cup {NoRow}
    BY <1>2
  <2> QED
    BY <1>1, <1>2, <1>4, <1>5
<1>7. \A m \in Messages \ (sent[w] \cup missed[w]) : rows'[m] = rows[m]
  BY <1>2
<1>8. UNCHANGED <<change, ahead, late, orphans, jobs, queued, blank, tries, faults>>
  BY DEF Save, redis
<1>9. ASSUME NEW m \in sent[w] \cup missed[w]
      PROVE  /\ rows[m] = copy[w][m]
             /\ rows[m] \in Row
             /\ rows[m].status = "pending"
             /\ Visible(m)
             /\ m \in Locks(w)
             /\ rows'[m] \in Row
  BY <1>3, <1>4, <1>5
<1>10. ASSUME NEW m \in sent[w]
       PROVE  queued[m] > 0
  BY <1>3
<1>11. ASSUME NEW m \in missed[w] \ sent[w]
       PROVE  rows[m].attempts < tries[m]
  BY <1>3
<1> QED
  BY <1>4, <1>5, <1>6, <1>7, <1>8, <1>9, <1>10, <1>11

LEMMA TypeStep ==
  ASSUME IInv, [Next]_vars
  PROVE  TypeOK'
<1>0. TypeOK
  BY DEF IInv
<1>1. ASSUME NEW m \in Messages, Enqueue(m) \/ Commit(m) \/ Rollback(m)
      PROVE  TypeOK'
  <2>1. change' \in [Messages -> {"none", "open", "committed", "rolled back"}]
    BY ChangeStep
  <2>2. rows' \in [Messages -> Row \cup {NoRow}] /\ due' \in SUBSET Messages
    <3>1. rows \in [Messages -> Row \cup {NoRow}] /\ due \in SUBSET Messages
      BY <1>0 DEF TypeOK
    <3>2. rows' \in {rows, [rows EXCEPT ![m] = NewRow], [rows EXCEPT ![m] = NoRow]}
      BY <1>1 DEF Enqueue, Commit, Rollback
    <3>3. due' \in {due, due \ {m}}
      BY <1>1 DEF Enqueue, Commit, Rollback
    <3>4. NewRow \in Row
      BY NewRowFields
    <3>5. rows' \in [Messages -> Row \cup {NoRow}]
      BY <3>1, <3>2, <3>4
    <3> QED
      BY <3>1, <3>3, <3>5
  <2> QED
    BY <1>0, <1>1, <2>1, <2>2 DEF Enqueue, Commit, Rollback, relay, redis, TypeOK
<1>2. ASSUME NEW m \in Messages, BecomeDue(m)
      PROVE  TypeOK'
  BY <1>0, <1>2 DEF BecomeDue, relay, redis, TypeOK
<1>3. ASSUME NEW w \in Relays, Claim(w)
      PROVE  TypeOK'
  BY <1>0, <1>3, ClaimEffect DEF TypeOK
<1>4. ASSUME NEW w \in Relays, NEW m \in Messages, Called(w, m)
      PROVE  TypeOK'
  <2>0. /\ late \in [Relays -> SUBSET (Messages \X BOOLEAN)]
        /\ stage \in [Relays -> {"idle", "dispatching", "saving", "down"}]
        /\ sent \in [Relays -> SUBSET Messages]
        /\ missed \in [Relays -> SUBSET Messages]
    BY <1>0 DEF TypeOK
  <2>1. /\ jobs' \in [Messages -> {"absent", "waiting", "finished"}]
        /\ queued' \in [Messages -> Nat]
        /\ blank' = blank
        /\ tries' \in [Messages -> Nat]
    BY RedisStep, TriesStep DEF RedisSound
  <2>2. late' \in [Relays -> SUBSET (Messages \X BOOLEAN)]
    <3>1. <<m, copy[w][m].payload>> \in Messages \X BOOLEAN
      BY <1>4, CalledEffect
    <3>2. late' \in {late, [late EXCEPT ![w] = @ \cup {<<m, copy[w][m].payload>>}]}
      BY <1>4, CalledEffect
    <3> QED
      BY <2>0, <3>1, <3>2
  <2>3. stage' \in [Relays -> {"idle", "dispatching", "saving", "down"}]
    BY <1>4, <2>0, CalledEffect
  <2>4. /\ sent' \in [Relays -> SUBSET Messages]
        /\ missed' \in [Relays -> SUBSET Messages]
    <3>1. \/ sent' = [sent EXCEPT ![w] = @ \cup {m}] /\ missed' = missed
          \/ missed' = [missed EXCEPT ![w] = @ \cup {m}] /\ sent' = sent
      BY <1>4, CalledEffect
    <3> QED
      BY <2>0, <3>1
  <2> QED
    BY <1>0, <1>4, <2>1, <2>2, <2>3, <2>4, CalledEffect DEF TypeOK
<1>5. ASSUME NEW w \in Relays, Save(w)
      PROVE  TypeOK'
  <2>0. due \in SUBSET Messages
    BY <1>0 DEF TypeOK
  <2>1. due' \in SUBSET Messages
    BY <1>5, <2>0 DEF Save
  <2>3. rows' \in [Messages -> Row \cup {NoRow}]
    BY <1>5, SaveEffect
  <2>2. EndBatch(w, "idle")
    BY <1>5 DEF Save
  <2>4. /\ stage' \in [Relays -> {"idle", "dispatching", "saving", "down"}]
        /\ copy' \in [Relays -> [Messages -> Row \cup {NoRow}]]
        /\ sent' \in [Relays -> SUBSET Messages]
        /\ missed' \in [Relays -> SUBSET Messages]
        /\ lost' = lost \ {w}
    BY <1>0, <2>2, EndBatchEffect
  <2> QED
    BY <1>0, <1>5, <2>1, <2>3, <2>4 DEF Save, redis, TypeOK
<1>6. ASSUME NEW w \in Relays, LoseTransaction(w)
      PROVE  TypeOK'
  <2>0. faults \in Nat /\ lost \in SUBSET Relays
    BY <1>0 DEF TypeOK
  <2>1. faults' \in Nat /\ lost' \in SUBSET Relays
    BY <1>6, <2>0 DEF LoseTransaction
  <2> QED
    BY <1>0, <1>6, <2>1 DEF LoseTransaction, table, redis, TypeOK
<1>7. ASSUME NEW w \in Relays, SaveFails(w)
      PROVE  TypeOK'
  <2>1. EndBatch(w, "idle")
    BY <1>7 DEF SaveFails
  <2>2. /\ stage' \in [Relays -> {"idle", "dispatching", "saving", "down"}]
        /\ copy' \in [Relays -> [Messages -> Row \cup {NoRow}]]
        /\ sent' \in [Relays -> SUBSET Messages]
        /\ missed' \in [Relays -> SUBSET Messages]
        /\ lost' = lost \ {w}
    BY <1>0, <2>1, EndBatchEffect
  <2> QED
    BY <1>0, <1>7, <2>2 DEF SaveFails, table, redis, TypeOK
<1>8. ASSUME NEW w \in Relays, NEW m \in Messages, LateAdd(w, m)
      PROVE  TypeOK'
  <2>1. /\ jobs' \in [Messages -> {"absent", "waiting", "finished"}]
        /\ queued' \in [Messages -> Nat]
        /\ blank' = blank
    BY RedisStep DEF RedisSound
  <2>2. late' \in [Relays -> SUBSET (Messages \X BOOLEAN)]
    <3>1. late \in [Relays -> SUBSET (Messages \X BOOLEAN)]
      BY <1>0 DEF TypeOK
    <3>2. PICK data \in BOOLEAN : late' = [late EXCEPT ![w] = @ \ {<<m, data>>}]
      BY <1>8 DEF LateAdd
    <3> QED
      BY <3>1, <3>2
  <2>3. UNCHANGED <<table, relay, orphans, tries, faults>>
    BY <1>8 DEF LateAdd
  <2> QED
    BY <1>0, <2>1, <2>2, <2>3 DEF table, relay, TypeOK
<1>9. ASSUME NEW w \in Relays, Crash(w)
      PROVE  TypeOK'
  <2>1. EndBatch(w, "down")
    BY <1>9 DEF Crash
  <2>2. /\ stage' \in [Relays -> {"idle", "dispatching", "saving", "down"}]
        /\ copy' \in [Relays -> [Messages -> Row \cup {NoRow}]]
        /\ sent' \in [Relays -> SUBSET Messages]
        /\ missed' \in [Relays -> SUBSET Messages]
        /\ lost' = lost \ {w}
    BY <1>0, <2>1, EndBatchEffect
  <2>3. orphans' \in SUBSET Messages
    BY <1>0, <1>9 DEF Crash, Locks, Batch, TypeOK
  <2>4. faults' \in Nat /\ late' \in [Relays -> SUBSET (Messages \X BOOLEAN)]
    <3>1. faults \in Nat /\ late \in [Relays -> SUBSET (Messages \X BOOLEAN)]
      BY <1>0 DEF TypeOK
    <3>2. faults' = faults + 1 /\ late' = [late EXCEPT ![w] = {}]
      BY <1>9 DEF Crash
    <3> QED
      BY <3>1, <3>2
  <2> QED
    BY <1>0, <1>9, <2>2, <2>3, <2>4 DEF Crash, table, redis, TypeOK
<1>14. ASSUME NEW w \in Relays, Restart(w)
      PROVE  TypeOK'
  BY <1>0, <1>14 DEF Restart, table, redis, TypeOK
<1>10. CASE DropConnection
  BY <1>0, <1>10 DEF DropConnection, table, relay, redis, TypeOK
<1>11. ASSUME NEW w \in Relays, Prune(w)
       PROVE  TypeOK'
  BY <1>0, <1>11 DEF Prune, relay, redis, TypeOK
<1>12. ASSUME NEW m \in Messages, Run(m) \/ Remove(m)
       PROVE  TypeOK'
  <2>1. /\ jobs' \in [Messages -> {"absent", "waiting", "finished"}]
        /\ queued' \in [Messages -> Nat]
        /\ blank' = blank
    BY RedisStep DEF RedisSound
  <2> QED
    BY <1>0, <1>12, <2>1 DEF Run, Remove, table, relay, TypeOK
<1>13. CASE UNCHANGED vars
  BY <1>0, <1>13 DEF vars, TypeOK
<1> QED
  BY <1>1, <1>2, <1>3, <1>4, <1>5, <1>6, <1>7, <1>8, <1>9, <1>10, <1>11,
     <1>12, <1>13, <1>14, Steps

\* What a step does to the row of a message.
RowKept(m) == rows'[m] = rows[m]
RowSaved(m) ==
  /\ rows[m] \in Row /\ rows[m].status = "pending" /\ Visible(m)
  /\ rows'[m] \in Row
  /\ \/ /\ rows'[m].status = "dispatched"
        /\ rows'[m].attempts = rows[m].attempts
        /\ queued[m] > 0
     \/ /\ rows'[m].status \in {"pending", "failed"}
        /\ rows'[m].status = "failed" => rows'[m].attempts >= MaxAttempts
        /\ rows'[m].attempts = rows[m].attempts + 1
        /\ rows[m].attempts < tries[m]
        /\ rows'[m].payload = TRUE

LEMMA RowStep ==
  ASSUME IInv, [Next]_vars, NEW m \in Messages
  PROVE  \/ RowKept(m) /\ change'[m] = change[m]
         \/ RowKept(m) /\ change[m] = "open" /\ change'[m] = "committed"
         \/ change[m] = "none" /\ change'[m] = "open" /\ rows'[m] = NewRow
         \/ change[m] = "open" /\ change'[m] = "rolled back" /\ rows'[m] = NoRow
         \/ RowSaved(m) /\ change'[m] = change[m]
         \/ /\ Exists(m) /\ rows[m].status = "dispatched"
            /\ rows'[m] = NoRow /\ change'[m] = change[m]
<1>0. /\ rows \in [Messages -> Row \cup {NoRow}]
      /\ change \in [Messages -> {"none", "open", "committed", "rolled back"}]
  BY DEF IInv, TypeOK
<1>1. CASE UNCHANGED <<rows, change>>
  BY <1>1 DEF RowKept
<1>2. ASSUME NEW n \in Messages, Enqueue(n) \/ Commit(n) \/ Rollback(n)
      PROVE  \/ RowKept(m) /\ change'[m] = change[m]
             \/ RowKept(m) /\ change[m] = "open" /\ change'[m] = "committed"
             \/ change[m] = "none" /\ change'[m] = "open" /\ rows'[m] = NewRow
             \/ change[m] = "open" /\ change'[m] = "rolled back" /\ rows'[m] = NoRow
  BY <1>0, <1>2 DEF Enqueue, Commit, Rollback, RowKept
<1>3. ASSUME NEW w \in Relays, Save(w)
      PROVE  (RowKept(m) \/ RowSaved(m)) /\ change'[m] = change[m]
  <2>0. change' = change
    BY <1>3, SaveEffect
  <2>1. CASE m \in sent[w]
    BY <1>3, <2>0, <2>1, SaveEffect DEF RowSaved
  <2>2. CASE m \in missed[w] \ sent[w]
    <3>1. /\ rows[m] \in Row
          /\ rows[m].status = "pending"
          /\ Visible(m)
          /\ rows'[m] \in Row
      BY <1>3, <2>2, SaveEffect
    <3>2. /\ rows'[m].status \in {"pending", "failed"}
          /\ rows'[m].status = "failed" => rows'[m].attempts >= MaxAttempts
          /\ rows'[m].attempts = rows[m].attempts + 1
          /\ rows'[m].payload = TRUE
          /\ rows[m].attempts < tries[m]
      BY <1>3, <2>2, SaveEffect
    <3> QED
      BY <2>0, <3>1, <3>2 DEF RowSaved
  <2>3. CASE m \notin sent[w] \cup missed[w]
    <3>1. \A n \in Messages \ (sent[w] \cup missed[w]) : rows'[n] = rows[n]
      BY <1>3, SaveEffect
    <3> QED
      BY <2>0, <2>3, <3>1 DEF RowKept
  <2> QED
    BY <2>1, <2>2, <2>3
<1>4. ASSUME NEW w \in Relays, Prune(w)
      PROVE  \/ RowKept(m) /\ change'[m] = change[m]
             \/ /\ Exists(m) /\ rows[m].status = "dispatched"
                /\ rows'[m] = NoRow /\ change'[m] = change[m]
  <2>1. PICK old \in SUBSET {n \in Messages : Exists(n) /\ rows[n].status = "dispatched"} :
          rows' = [n \in Messages |-> IF n \in old THEN NoRow ELSE rows[n]]
    BY <1>4 DEF Prune
  <2> QED
    BY <1>4, <2>1 DEF Prune, RowKept
<1>5. ASSUME NEW w \in Relays, NEW n \in Messages, Called(w, n)
      PROVE  UNCHANGED <<rows, change>>
  BY <1>5, CalledEffect
<1> QED
  BY <1>1, <1>2, <1>3, <1>4, <1>5, Steps
     DEF vars, table, BecomeDue, Claim, LoseTransaction, SaveFails, LateAdd, Crash,
         Restart, DropConnection, Run, Remove

LEMMA RowSoundStep ==
  ASSUME IInv, [Next]_vars
  PROVE  RowSound'
<1> SUFFICES ASSUME NEW m \in Messages
             PROVE  /\ change'[m] = "none" => rows'[m] = NoRow
                    /\ change'[m] = "open" => Pending(m)'
                    /\ Exists(m)' /\ rows'[m].status # "dispatched" => rows'[m].payload = TRUE
                    /\ Exists(m)' /\ rows'[m].status = "failed" =>
                         rows'[m].attempts >= MaxAttempts
                    /\ Exists(m)' => rows'[m].attempts <= tries'[m]
                    /\ jobs'[m] # "absent" => queued'[m] > 0
  BY DEF RowSound
<1>1. /\ change[m] = "none" => rows[m] = NoRow
      /\ change[m] = "open" => Pending(m)
      /\ Exists(m) /\ rows[m].status # "dispatched" => rows[m].payload = TRUE
      /\ Exists(m) /\ rows[m].status = "failed" => rows[m].attempts >= MaxAttempts
      /\ Exists(m) => rows[m].attempts <= tries[m]
      /\ Exists(m) => rows[m] \in Row
      /\ tries[m] \in Nat
  BY DEF IInv, RowSound, TypeOK, Exists
<1>2. Exists(m) => rows[m].attempts \in Nat
  BY <1>1, RowFields
<1>3. tries'[m] \in Nat /\ tries'[m] >= tries[m]
  BY TriesStep
<1>4. jobs'[m] # "absent" => queued'[m] > 0
  BY RedisStep DEF RedisSound
<1>5. CASE RowKept(m) /\ (change'[m] = change[m] \/ change'[m] = "committed")
  BY <1>1, <1>2, <1>3, <1>4, <1>5 DEF RowKept, Exists, Pending
<1>6. CASE change'[m] = "open" /\ rows'[m] = NewRow
  <2>1. NewRow # NoRow /\ NewRow.attempts <= tries'[m]
    BY <1>3, NewRowFields, RowFields
  <2> QED
    BY <1>4, <1>6, <2>1, NewRowFields DEF Exists, Pending
<1>7. CASE rows'[m] = NoRow /\ change'[m] # "open"
  BY <1>4, <1>7 DEF Exists
<1>8. CASE RowSaved(m) /\ change'[m] = change[m]
  <2>1. Exists(m) /\ change'[m] = "committed"
    BY <1>8, RowFields DEF RowSaved, Exists, Visible
  <2>2. rows'[m].attempts <= tries'[m]
    BY <1>1, <1>2, <1>3, <1>8, <2>1 DEF RowSaved
  <2> QED
    BY <1>4, <1>8, <2>1, <2>2 DEF RowSaved
<1>9. Exists(m) /\ rows[m].status = "dispatched" => change[m] # "open"
  BY <1>1 DEF Pending
<1> QED
  BY <1>5, <1>6, <1>7, <1>8, <1>9, RowStep

LEMMA ClaimSoundStep ==
  ASSUME IInv, [Next]_vars
  PROVE  ClaimSound'
<1> SUFFICES ASSUME NEW v \in Relays
             PROVE  /\ stage'[v] \in {"idle", "down"} => Batch(v)' = {}
                    /\ sent'[v] \subseteq Batch(v)'
                    /\ missed'[v] \subseteq Batch(v)'
                    /\ \A m \in Batch(v)' :
                         /\ Visible(m)'
                         /\ copy'[v][m].status = "pending"
                         /\ copy'[v][m].payload = TRUE
                         /\ copy'[v][m].attempts <= tries'[m]
                         /\ m \in missed'[v] => copy'[v][m].attempts < tries'[m]
                         /\ m \in sent'[v] => queued'[m] > 0
  BY DEF ClaimSound
<1>1. /\ stage[v] \in {"idle", "down"} => Batch(v) = {}
      /\ sent[v] \subseteq Batch(v)
      /\ missed[v] \subseteq Batch(v)
      /\ \A m \in Batch(v) :
           /\ Visible(m)
           /\ copy[v][m].status = "pending"
           /\ copy[v][m].payload = TRUE
           /\ copy[v][m].attempts <= tries[m]
           /\ m \in missed[v] => copy[v][m].attempts < tries[m]
           /\ m \in sent[v] => queued[m] > 0
  BY DEF IInv, ClaimSound
<1>2. /\ \A m \in Messages : Visible(m) => Visible(m)'
      /\ \A m \in Messages : tries[m] \in Nat /\ tries'[m] \in Nat /\ tries'[m] >= tries[m]
      /\ \A m \in Messages : queued[m] \in Nat /\ queued'[m] \in Nat /\ queued'[m] >= queued[m]
  BY ChangeStep, TriesStep, RedisStep DEF IInv, TypeOK, RedisSound
<1>3. CASE BatchKept(v)
  <2>0. copy'[v] = copy[v] /\ Batch(v)' = Batch(v)
    BY <1>3 DEF BatchKept
  <2>1. sent'[v] \subseteq Batch(v)' /\ missed'[v] \subseteq Batch(v)'
    BY <1>1, <1>3 DEF BatchKept
  <2>2. stage'[v] \in {"idle", "down"} => Batch(v)' = {}
    BY <1>1, <1>3 DEF BatchKept
  <2>3. ASSUME NEW m \in Batch(v)
        PROVE  /\ m \in Messages
               /\ copy[v][m].attempts \in Nat
               /\ Visible(m)'
               /\ copy[v][m].attempts <= tries'[m]
    <3>0. m \in Messages /\ copy[v][m] # NoRow
      BY DEF Batch
    <3>1. m \in Messages /\ copy[v][m] \in Row
      <4>1. copy \in [Relays -> [Messages -> Row \cup {NoRow}]]
        BY DEF IInv, TypeOK
      <4> QED
        BY <3>0, <4>1
    <3>2. copy[v][m].attempts \in Nat
      BY <3>1, RowFields
    <3> QED
      BY <1>1, <1>2, <3>1, <3>2
  <2>4. ASSUME NEW m \in Batch(v), m \in missed'[v]
        PROVE  copy[v][m].attempts < tries'[m]
    <3>1. m \in missed[v] \/ tries'[m] = tries[m] + 1
      BY <1>3, <2>4 DEF BatchKept
    <3> QED
      BY <1>1, <1>2, <2>3, <3>1
  <2>5. ASSUME NEW m \in Batch(v), m \in sent'[v]
        PROVE  queued'[m] > 0
    <3>1. m \in sent[v] \/ queued'[m] > 0
      BY <1>3, <2>5 DEF BatchKept
    <3> QED
      BY <1>1, <1>2, <2>3, <3>1
  <2> QED
    BY <1>1, <2>0, <2>1, <2>2, <2>3, <2>4, <2>5
<1>4. CASE BatchEnded(v)
  BY <1>4 DEF BatchEnded
<1>5. CASE Claim(v)
  <2>0. TypeOK
    BY DEF IInv
  <2>1. /\ stage' = [stage EXCEPT ![v] = "dispatching"]
        /\ stage[v] = "idle"
        /\ Batch(v)' \subseteq Claimable
        /\ \A m \in Batch(v)' : copy'[v][m] = rows[m]
        /\ sent' = sent /\ missed' = missed
    BY <1>5, <2>0, ClaimEffect
  <2>2. stage'[v] = "dispatching" /\ sent'[v] = {} /\ missed'[v] = {}
    BY <1>1, <2>0, <2>1 DEF TypeOK
  <2>3. ASSUME NEW m \in Batch(v)'
        PROVE  /\ Visible(m)'
               /\ copy'[v][m].status = "pending"
               /\ copy'[v][m].payload = TRUE
               /\ copy'[v][m].attempts <= tries'[m]
    <3>1. m \in Messages /\ Visible(m) /\ Pending(m) /\ copy'[v][m] = rows[m]
      BY <2>0, <2>1 DEF Claimable, TypeOK
    <3>2. rows[m].payload = TRUE /\ rows[m].attempts <= tries[m]
      BY <3>1 DEF IInv, RowSound, Pending
    <3>3. rows[m].attempts \in Nat
      BY <2>0, <3>1, RowFields DEF TypeOK, Pending, Exists
    <3> QED
      BY <1>2, <3>1, <3>2, <3>3 DEF Pending
  <2> QED
    BY <2>2, <2>3
<1> QED
  BY <1>3, <1>4, <1>5, BatchStep

LEMMA LateSoundStep ==
  ASSUME IInv, [Next]_vars
  PROVE  LateSound'
<1> SUFFICES ASSUME NEW v \in Relays, NEW l \in late'[v]
             PROVE  Visible(l[1])' /\ l[2] = TRUE
  BY DEF LateSound
<1>0. late \in [Relays -> SUBSET (Messages \X BOOLEAN)]
  BY DEF IInv, TypeOK
<1>1. ASSUME NEW k \in late[v]
      PROVE  Visible(k[1])' /\ k[2] = TRUE
  <2>1. Visible(k[1]) /\ k[2] = TRUE
    BY DEF IInv, LateSound
  <2>2. k[1] \in Messages
    BY <1>0
  <2> QED
    BY <2>1, <2>2, ChangeStep
<1>2. CASE UNCHANGED late
  BY <1>1, <1>2
<1>3. ASSUME NEW w \in Relays, NEW m \in Messages, Called(w, m)
      PROVE  Visible(l[1])' /\ l[2] = TRUE
  <2>1. /\ late' \in {late, [late EXCEPT ![w] = @ \cup {<<m, copy[w][m].payload>>}]}
        /\ copy[w][m].payload = TRUE
        /\ Visible(m)
    BY <1>3, CalledEffect
  <2>2. late'[v] = late[v] \/ late'[v] = late[v] \cup {<<m, TRUE>>}
    BY <1>0, <2>1
  <2>3. Visible(m)'
    BY <2>1, ChangeStep
  <2>4. CASE l \in late[v]
    BY <1>1, <2>4
  <2>5. CASE l = <<m, TRUE>>
    BY <2>3, <2>5
  <2> QED
    BY <2>2, <2>4, <2>5
<1>4. ASSUME NEW w \in Relays, NEW m \in Messages, LateAdd(w, m)
      PROVE  l \in late[v]
  <2>1. PICK data \in BOOLEAN : late' = [late EXCEPT ![w] = @ \ {<<m, data>>}]
    BY <1>4 DEF LateAdd
  <2> QED
    BY <1>0, <2>1
<1>5. ASSUME NEW w \in Relays, Crash(w)
      PROVE  l \in late[v]
  <2>1. late' = [late EXCEPT ![w] = {}]
    BY <1>5 DEF Crash
  <2> QED
    BY <1>0, <2>1
<1> QED
  BY <1>1, <1>2, <1>3, <1>4, <1>5, Steps
     DEF vars, table, relay, redis, Enqueue, Commit, Rollback, BecomeDue, Claim, Save,
         LoseTransaction, SaveFails, Restart, DropConnection, Prune, Run, Remove

\* Locks are only taken by a claim; they are left to the server by a crash.
LEMMA LocksStep ==
  ASSUME IInv, [Next]_vars, NEW v \in Relays, ~Claim(v)
  PROVE  /\ Locks(v)' \subseteq Locks(v)
         /\ \A m \in Locks(v)' : copy'[v][m] = copy[v][m]
<1>1. CASE BatchKept(v)
  BY <1>1 DEF BatchKept, Locks
<1>2. CASE BatchEnded(v)
  BY <1>2 DEF BatchEnded, Locks
<1> QED
  BY <1>1, <1>2, BatchStep

LEMMA OrphansStep ==
  ASSUME IInv, [Next]_vars
  PROVE  \/ orphans' \subseteq orphans
         \/ \E w \in Relays :
              orphans' = orphans \cup Locks(w) /\ Locks(w)' = {} /\ Crash(w)
<1>1. CASE UNCHANGED orphans
  BY <1>1
<1>2. CASE DropConnection
  BY <1>2 DEF DropConnection
<1>3. ASSUME NEW w \in Relays, Crash(w)
      PROVE  orphans' = orphans \cup Locks(w) /\ Locks(w)' = {}
  <2>1. EndBatch(w, "down") /\ orphans' = orphans \cup Locks(w)
    BY <1>3 DEF Crash
  <2>2. Batch(w)' = {}
    BY <2>1, EndBatchEffect DEF IInv
  <2> QED
    BY <2>1, <2>2 DEF Locks
<1>4. ASSUME NEW w \in Relays, NEW m \in Messages, Called(w, m)
      PROVE  UNCHANGED orphans
  BY <1>4, CalledEffect
<1> QED
  BY <1>1, <1>2, <1>3, <1>4, Steps
     DEF vars, table, relay, redis, Enqueue, Commit, Rollback, BecomeDue, Claim, Save,
         LoseTransaction, SaveFails, LateAdd, Restart, Prune, Run, Remove

\* What a claim locks was locked by nobody, and is as it was read.
LEMMA ClaimLocks ==
  ASSUME IInv, NEW v \in Relays, Claim(v)
  PROVE  /\ \A m \in Locks(v)' :
              /\ m \notin orphans
              /\ \A w \in Relays : m \notin Locks(w)
              /\ copy'[v][m] = rows[m]
         /\ \A w \in Relays \ {v} : Locks(w)' = Locks(w)
         /\ rows' = rows /\ orphans' = orphans
<1>0. TypeOK
  BY DEF IInv
<1>1. /\ Batch(v)' \subseteq Claimable
      /\ \A m \in Batch(v)' : copy'[v][m] = rows[m]
      /\ \A w \in Relays \ {v} : Batch(w)' = Batch(w)
      /\ rows' = rows /\ orphans' = orphans /\ lost' = lost
  BY <1>0, ClaimEffect
<1>2. \A m \in Claimable : m \notin orphans /\ \A w \in Relays : m \notin Locks(w)
  BY DEF Claimable, Locked
<1>3. Locks(v)' \subseteq Batch(v)'
  BY DEF Locks
<1>4. \A w \in Relays \ {v} : Locks(w)' = Locks(w)
  BY <1>1 DEF Locks
<1> QED
  BY <1>1, <1>2, <1>3, <1>4

LEMMA OneRelayStep ==
  ASSUME IInv, [Next]_vars
  PROVE  OneRelay'
<1> SUFFICES ASSUME NEW v \in Relays
             PROVE  /\ Locks(v)' \cap orphans' = {}
                    /\ \A w \in Relays : v # w => Locks(v)' \cap Locks(w)' = {}
  BY DEF OneRelay
<1>1. \A u \in Relays :
        /\ Locks(u) \cap orphans = {}
        /\ \A w \in Relays : u # w => Locks(u) \cap Locks(w) = {}
  BY DEF IInv, OneRelay
<1>2. ASSUME NEW u \in Relays, Claim(u)
      PROVE  /\ Locks(v)' \cap orphans' = {}
             /\ \A w \in Relays : v # w => Locks(v)' \cap Locks(w)' = {}
  <2>1. /\ \A m \in Locks(u)' : m \notin orphans /\ \A w \in Relays : m \notin Locks(w)
        /\ \A w \in Relays \ {u} : Locks(w)' = Locks(w)
        /\ orphans' = orphans
    BY <1>2, ClaimLocks
  <2> QED
    BY <1>1, <2>1
<1>3. ASSUME \A u \in Relays : ~Claim(u)
      PROVE  /\ Locks(v)' \cap orphans' = {}
             /\ \A w \in Relays : v # w => Locks(v)' \cap Locks(w)' = {}
  <2>1. \A u \in Relays : Locks(u)' \subseteq Locks(u)
    BY <1>3, LocksStep
  <2>2. Locks(v)' \cap orphans' = {}
    BY <1>1, <2>1, OrphansStep
  <2> QED
    BY <1>1, <2>1, <2>2
<1> QED
  BY <1>2, <1>3

\* Of a committed, pending message only a save changes the row.
LEMMA SavedRow ==
  ASSUME IInv, [Next]_vars, NEW m \in Messages,
         Visible(m), rows[m].status = "pending", rows'[m] # rows[m]
  PROVE  \E w \in Relays : Save(w) /\ m \in sent[w] \cup missed[w]
<1>0. rows \in [Messages -> Row \cup {NoRow}]
  BY DEF IInv, TypeOK
<1>1. rows' # rows
  OBVIOUS
<1>2. ASSUME NEW n \in Messages, Enqueue(n) \/ Rollback(n)
      PROVE  FALSE
  <2>1. n # m
    BY <1>2 DEF Enqueue, Rollback, Visible
  <2>2. rows'[m] = rows[m]
    BY <1>0, <1>2, <2>1 DEF Enqueue, Rollback
  <2> QED
    BY <2>2
<1>3. ASSUME NEW w \in Relays, Prune(w)
      PROVE  FALSE
  <2>1. PICK old \in SUBSET {n \in Messages : Exists(n) /\ rows[n].status = "dispatched"} :
          rows' = [n \in Messages |-> IF n \in old THEN NoRow ELSE rows[n]]
    BY <1>3 DEF Prune
  <2> QED
    BY <2>1
<1>4. ASSUME NEW w \in Relays, Save(w)
      PROVE  m \in sent[w] \cup missed[w]
  <2>1. \A n \in Messages \ (sent[w] \cup missed[w]) : rows'[n] = rows[n]
    BY <1>4, SaveEffect
  <2> QED
    BY <2>1
<1>5. ASSUME NEW w \in Relays, NEW n \in Messages, Called(w, n)
      PROVE  rows' = rows
  BY <1>5, CalledEffect
<1> QED
  BY <1>1, <1>2, <1>3, <1>4, <1>5, Steps
     DEF vars, table, Commit, BecomeDue, Claim, LoseTransaction, SaveFails, LateAdd,
         Crash, Restart, DropConnection, Run, Remove

LEMMA LocksKeepStep ==
  ASSUME IInv, [Next]_vars
  PROVE  LocksKeep'
<1> SUFFICES ASSUME NEW v \in Relays, NEW m \in Locks(v)'
             PROVE  rows'[m] = copy'[v][m]
  BY DEF LocksKeep
<1>1. CASE Claim(v)
  BY <1>1, ClaimLocks
<1>2. CASE ~Claim(v)
  <2>1. m \in Locks(v) /\ copy'[v][m] = copy[v][m] /\ rows[m] = copy[v][m]
    BY <1>2, LocksStep DEF IInv, LocksKeep
  <2>2. m \in Batch(v) /\ m \in Messages
    BY <2>1 DEF Locks, Batch
  <2>3. Visible(m) /\ rows[m].status = "pending"
    BY <2>1, <2>2 DEF IInv, ClaimSound
  <2>4. CASE RowSaved(m)
    <3>1. PICK w \in Relays : Save(w) /\ m \in sent[w] \cup missed[w]
      <4>1. rows'[m] # rows[m]
        BY <2>3, <2>4, RowFields DEF RowSaved
      <4> QED
        BY <2>2, <2>3, <4>1, SavedRow
    <3>2. m \in Locks(w)
      BY <3>1, SaveEffect
    <3>3. w = v
      BY <2>1, <3>2 DEF IInv, OneRelay
    <3>4. EndBatch(v, "idle")
      BY <3>1, <3>3 DEF Save
    <3>5. Batch(v)' = {}
      BY <3>4, EndBatchEffect DEF IInv
    <3> QED
      BY <3>5 DEF Locks
  <2>5. CASE RowKept(m)
    BY <2>1, <2>5 DEF RowKept
  <2> QED
    BY <2>2, <2>3, <2>4, <2>5, RowStep DEF Visible
<1> QED
  BY <1>1, <1>2

LEMMA JobsStep ==
  ASSUME IInv, [Next]_vars
  PROVE  JobOnlyIfCommitted' /\ DataKept'
<1>1. DataKept'
  BY RedisStep DEF IInv, DataKept, RedisSound
<1>2. ASSUME NEW m \in Messages, queued'[m] > 0
      PROVE  change'[m] = "committed"
  <2>1. queued[m] > 0 \/ queued'[m] # queued[m]
    BY <1>2
  <2>2. Visible(m)
    BY <2>1, RedisStep DEF IInv, JobOnlyIfCommitted, RedisSound, Visible
  <2> QED
    BY <2>2, ChangeStep DEF Visible
<1> QED
  BY <1>1, <1>2 DEF JobOnlyIfCommitted

LEMMA HandedOverStep ==
  ASSUME IInv, [Next]_vars
  PROVE  HandedOver'
<1> SUFFICES ASSUME NEW m \in Messages, change'[m] = "committed",
                    Exists(m)' => rows'[m].status = "dispatched"
             PROVE  queued'[m] > 0
  BY DEF HandedOver
<1>1. queued[m] > 0 => queued'[m] > 0
  <2>1. queued[m] \in Nat
    BY DEF IInv, TypeOK
  <2>2. queued'[m] \in Nat /\ queued'[m] >= queued[m]
    BY RedisStep DEF RedisSound
  <2> QED
    BY <2>1, <2>2
<1>2. /\ change[m] = "committed" /\ (Exists(m) => rows[m].status = "dispatched")
           => queued[m] > 0
      /\ change[m] = "open" => Pending(m)
  BY DEF IInv, HandedOver, RowSound
<1>3. CASE RowKept(m)
  <2>1. Exists(m)' <=> Exists(m)
    BY <1>3 DEF RowKept, Exists
  <2> QED
    BY <1>1, <1>2, <1>3, <2>1, RowStep DEF RowKept, Pending
<1>4. CASE RowSaved(m)
  BY <1>1, <1>4, RowFields DEF RowSaved, Exists
<1>5. CASE Exists(m) /\ rows[m].status = "dispatched" /\ change'[m] = change[m]
  BY <1>1, <1>2, <1>5
<1> QED
  BY <1>3, <1>4, <1>5, RowStep

LEMMA IInvStep == IInv /\ [Next]_vars => IInv'
BY TypeStep, RowSoundStep, ClaimSoundStep, LateSoundStep, OneRelayStep, LocksKeepStep,
   JobsStep, HandedOverStep DEF IInv

LEMMA Inductive == Spec => []IInv
BY IInvInit, IInvStep, PTL DEF Spec

-----------------------------------------------------------------------------
(* No relay action leaves the table, the claims or the jobs ill typed.     *)
THEOREM TypeCorrect == Spec => []TypeOK
<1>1. IInv => TypeOK
  BY DEF IInv
<1> QED
  BY <1>1, Inductive, PTL

(* A job is queued only for a change whose transaction has committed,      *)
(* whichever relay adds it and however late (enqueue, dispatch).           *)
THEOREM JobsCommitted == Spec => []JobOnlyIfCommitted
<1>1. IInv => JobOnlyIfCommitted
  BY DEF IInv
<1> QED
  BY <1>1, Inductive, PTL

(* A committed message is marked dispatched, or pruned, only once its job  *)
(* has been queued, through crashes, lost transactions and timeouts        *)
(* (dispatch, relayBatch, prune).                                          *)
THEOREM NeverDropped == Spec => []HandedOver
<1>1. IInv => HandedOver
  BY DEF IInv
<1> QED
  BY <1>1, Inductive, PTL

(* Every job is queued with its data, although dispatch overwrites the     *)
(* payload of the row.                                                     *)
THEOREM DataSafe == Spec => []DataKept
<1>1. IInv => DataKept
  BY DEF IInv
<1> QED
  BY <1>1, Inductive, PTL

(* FOR UPDATE SKIP LOCKED hands a message to one live transaction at a     *)
(* time, counting those of dead workers (relayBatch).                      *)
THEOREM Exclusive == Spec => []OneRelay
<1>1. IInv => OneRelay
  BY DEF IInv
<1> QED
  BY <1>1, Inductive, PTL

(* The attempts of a row never exceed the calls of add for it, so a        *)
(* message is parked no earlier than after MaxAttempts calls (dispatch).   *)
THEOREM ChargesFair == Spec => []ChargedForTries
<1>1. ASSUME IInv, NEW m \in Messages, Exists(m)
      PROVE  /\ rows[m].attempts <= tries[m]
             /\ rows[m].status = "failed" => tries[m] >= MaxAttempts
  <2>1. rows[m] \in Row /\ tries[m] \in Nat
    BY <1>1 DEF IInv, TypeOK, Exists
  <2>2. rows[m].attempts \in Nat
    BY <2>1, RowFields
  <2>3. /\ rows[m].attempts <= tries[m]
        /\ rows[m].status = "failed" => rows[m].attempts >= MaxAttempts
    BY <1>1 DEF IInv, RowSound
  <2> QED
    BY <2>1, <2>2, <2>3, ConstantsAssumption
<1>2. IInv => ChargedForTries
  BY <1>1 DEF ChargedForTries
<1> QED
  BY <1>2, Inductive, PTL

(* A dispatched or parked row is not written again: no save of a relay     *)
(* that read it earlier undoes what another one saved (relayBatch).        *)
THEOREM SettledForGood == Spec => Settled
<1>1. ASSUME IInv, [Next]_vars, NEW m \in Messages,
             Exists(m), rows[m].status # "pending"
      PROVE  rows'[m] = NoRow \/ rows'[m] = rows[m]
  <2>1. change[m] # "none"
    BY <1>1 DEF IInv, RowSound, Exists
  <2> QED
    BY <1>1, <2>1, RowStep DEF RowKept, RowSaved
<1>2. IInv /\ [Next]_vars =>
        [\A m \in Messages :
           Exists(m) /\ rows[m].status # "pending"
             => rows'[m] = NoRow \/ rows'[m] = rows[m]]_vars
  BY <1>1
<1> QED
  BY <1>2, Inductive, PTL DEF Spec, Settled

-----------------------------------------------------------------------------
(* The relay implements Delivery, step by step.                            *)

LEMMA PromiseInit == Init => Promise!Init
<1> SUFFICES ASSUME Init PROVE Promise!Init
  OBVIOUS
<1>1. \A m \in Messages : Outcome(m) = "undecided" /\ Recorded(m) = "open"
  BY DEF Init, Outcome, Recorded
<1>2. {m \in Messages : queued[m] > 0} = {}
  BY DEF Init
<1> QED
  BY <1>1, <1>2 DEF Promise!Init

\* Nothing a user sees has changed.
LEMMA Stutter ==
  ASSUME \A m \in Messages : Outcome(m)' = Outcome(m) /\ Recorded(m)' = Recorded(m),
         {m \in Messages : queued'[m] > 0} = {m \in Messages : queued[m] > 0}
  PROVE  UNCHANGED Promise!dvars
BY DEF Promise!dvars

\* Of a message, a step shows its decision or its settlement, or nothing.
LEMMA ShownStep ==
  ASSUME IInv, [Next]_vars, NEW m \in Messages
  PROVE  \/ Outcome(m)' = Outcome(m) /\ Recorded(m)' = Recorded(m)
         \/ /\ Outcome(m) = "undecided" /\ change[m] = "open"
            /\ Outcome(m)' \in {"committed", "abandoned"}
            /\ Recorded(m)' = Recorded(m)
         \/ /\ Outcome(m)' = Outcome(m) /\ Outcome(m) = "committed"
            /\ Recorded(m) = "open" /\ RowSaved(m)
            /\ \/ Recorded(m)' = "dispatched" /\ queued[m] > 0
               \/ Recorded(m)' = "parked"
<1>1. /\ change[m] = "none" => rows[m] = NoRow
      /\ change[m] = "open" => Pending(m)
  BY DEF IInv, RowSound
<1>2. CASE RowKept(m) /\ change'[m] = change[m]
  BY <1>2 DEF RowKept, Outcome, Recorded, Pending, Exists
<1>3. CASE RowKept(m) /\ change[m] = "open" /\ change'[m] = "committed"
  BY <1>1, <1>3 DEF RowKept, Outcome, Recorded, Pending, Exists
<1>4. CASE change[m] = "none" /\ change'[m] = "open" /\ rows'[m] = NewRow
  BY <1>4 DEF Outcome, Recorded
<1>5. CASE change[m] = "open" /\ change'[m] = "rolled back" /\ rows'[m] = NoRow
  BY <1>5 DEF Outcome, Recorded
<1>6. CASE RowSaved(m) /\ change'[m] = change[m]
  <2>1. Exists(m) /\ Exists(m)' /\ change[m] = "committed" /\ Pending(m)
    BY <1>6, RowFields DEF RowSaved, Exists, Visible, Pending
  <2>2. Outcome(m) = "committed" /\ Outcome(m)' = "committed" /\ Recorded(m) = "open"
    BY <1>6, <2>1 DEF Outcome, Recorded
  <2>3. CASE rows'[m].status = "dispatched" /\ queued[m] > 0
    BY <1>6, <2>1, <2>2, <2>3 DEF Recorded, Pending
  <2>4. CASE rows'[m].status = "failed"
    BY <1>6, <2>1, <2>2, <2>4 DEF Recorded, Pending
  <2>5. CASE rows'[m].status = "pending"
    BY <1>6, <2>1, <2>2, <2>5 DEF Recorded, Pending
  <2> QED
    BY <1>6, <2>3, <2>4, <2>5 DEF RowSaved
<1>7. CASE /\ Exists(m) /\ rows[m].status = "dispatched"
           /\ rows'[m] = NoRow /\ change'[m] = change[m]
  BY <1>7 DEF Outcome, Recorded, Pending, Exists
<1> QED
  BY <1>2, <1>3, <1>4, <1>5, <1>6, <1>7, RowStep

\* Only one transaction of a change ends in a step, and only saves settle.
LEMMA OneDecision ==
  ASSUME IInv, [Next]_vars, NEW m \in Messages, change'[m] # change[m]
  PROVE  /\ \A n \in Messages \ {m} : change'[n] = change[n] /\ ~RowSaved(n)
         /\ queued' = queued
<1>0. /\ change \in [Messages -> {"none", "open", "committed", "rolled back"}]
      /\ rows \in [Messages -> Row \cup {NoRow}]
  BY DEF IInv, TypeOK
<1>1. PICK n \in Messages : Enqueue(n) \/ Commit(n) \/ Rollback(n)
  BY Steps, CalledEffect
     DEF vars, table, BecomeDue, Claim, Save, LoseTransaction, SaveFails, LateAdd,
         Crash, Restart, DropConnection, Prune, Run, Remove
<1>2. n = m /\ queued' = queued
  BY <1>0, <1>1 DEF Enqueue, Commit, Rollback, redis
<1>3. ASSUME NEW k \in Messages \ {m}
      PROVE  change'[k] = change[k] /\ rows'[k] = rows[k]
  BY <1>0, <1>1, <1>2 DEF Enqueue, Commit, Rollback
<1>4. ASSUME NEW k \in Messages \ {m}, RowSaved(k)
      PROVE  FALSE
  BY <1>3, <1>4, RowFields DEF RowSaved
<1> QED
  BY <1>2, <1>3, <1>4

Handed == {m \in Messages : queued[m] > 0}

\* A step hands over one committed message, or one again, or none.
LEMMA OneHand ==
  ASSUME IInv, [Next]_vars
  PROVE  \/ Handed' = Handed
         \/ \E m \in Messages : Visible(m) /\ Handed' = Handed \cup {m}
<1>1. CASE queued' = queued
  BY <1>1 DEF Handed
<1>2. ASSUME NEW m \in Messages, NEW data, Add(m, data), Visible(m)
      PROVE  \E n \in Messages : Visible(n) /\ Handed' = Handed \cup {n}
  <2>1. jobs[m] # "absent" => queued[m] > 0
    BY DEF IInv, RowSound
  <2>2. queued'[m] > 0 /\ \A n \in Messages \ {m} : queued'[n] = queued[n]
    BY <1>2, <2>1, AddEffect DEF IInv
  <2>3. Handed' = Handed \cup {m}
    BY <2>2 DEF Handed
  <2> QED
    BY <1>2, <2>3
<1>3. ASSUME NEW w \in Relays, NEW m \in Messages, Called(w, m)
      PROVE  queued' = queued \/ \E n \in Messages : Visible(n) /\ Handed' = Handed \cup {n}
  <2>1. UNCHANGED redis \/ Add(m, copy[w][m].payload)
    BY <1>3, CalledEffect
  <2>2. Visible(m)
    BY <1>3, CalledEffect
  <2> QED
    BY <1>2, <2>1, <2>2 DEF redis
<1>4. ASSUME NEW w \in Relays, NEW m \in Messages, LateAdd(w, m)
      PROVE  queued' = queued \/ \E n \in Messages : Visible(n) /\ Handed' = Handed \cup {n}
  <2>1. PICK data \in BOOLEAN : <<m, data>> \in late[w] /\ (Add(m, data) \/ UNCHANGED redis)
    BY <1>4 DEF LateAdd
  <2>2. Visible(<<m, data>>[1])
    BY <2>1 DEF IInv, LateSound
  <2> QED
    BY <1>2, <2>1, <2>2 DEF redis
<1> QED
  BY <1>1, <1>3, <1>4, Steps
     DEF vars, table, relay, redis, Enqueue, Commit, Rollback, BecomeDue, Claim, Save,
         LoseTransaction, SaveFails, Crash, Restart, DropConnection, Prune, Run, Remove

LEMMA SettlingIsSave ==
  ASSUME IInv, [Next]_vars, NEW m \in Messages, RowSaved(m)
  PROVE  Handed' = Handed
<1>1. rows'[m] # rows[m]
  BY RowFields DEF RowSaved
<1>2. PICK w \in Relays : Save(w)
  BY <1>1, SavedRow DEF RowSaved
<1>3. queued' = queued
  BY <1>2 DEF Save, redis
<1> QED
  BY <1>3 DEF Handed

LEMMA PromiseStep ==
  ASSUME IInv, [Next]_vars
  PROVE  [Promise!Next]_Promise!dvars
<1> DEFINE outcome == [m \in Messages |-> Outcome(m)]
           record  == [m \in Messages |-> Recorded(m)]
<1>0. /\ \A m \in Messages : outcome[m] = Outcome(m) /\ outcome'[m] = Outcome(m)'
      /\ \A m \in Messages : record[m] = Recorded(m) /\ record'[m] = Recorded(m)'
  OBVIOUS
<1>1. ASSUME NEW m \in Messages, Outcome(m)' # Outcome(m)
      PROVE  Promise!Decide(m)
  <2>1. /\ Outcome(m) = "undecided" /\ Outcome(m)' \in {"committed", "abandoned"}
        /\ Recorded(m)' = Recorded(m)
    BY <1>1, ShownStep
  <2>2. change'[m] # change[m]
    BY <1>1 DEF Outcome
  <2>3. ASSUME NEW n \in Messages \ {m}
        PROVE  Outcome(n)' = Outcome(n) /\ Recorded(n)' = Recorded(n)
    <3>1. ~RowSaved(n) /\ change'[n] = change[n]
      BY <2>2, OneDecision
    <3>2. Outcome(n)' = Outcome(n)
      BY <3>1 DEF Outcome
    <3>3. Outcome(n) = "undecided" => Outcome(n)' \notin {"committed", "abandoned"}
      BY <3>2
    <3> QED
      BY <3>1, <3>2, <3>3, ShownStep
  <2>4. queued' = queued
    BY <2>2, OneDecision
  <2>5. outcome' = [outcome EXCEPT ![m] = Outcome(m)']
    BY <1>0, <2>3
  <2>6. record' = record
    BY <2>1, <2>3
  <2> QED
    BY <2>1, <2>4, <2>5, <2>6 DEF Promise!Decide
<1>2. ASSUME \A m \in Messages : Outcome(m)' = Outcome(m),
             NEW m \in Messages, Recorded(m)' # Recorded(m)
      PROVE  Promise!SettleOf(m)
  <2> DEFINE D == {n \in Messages : Recorded(n)' # Recorded(n) /\ Recorded(n)' = "dispatched"}
             P == {n \in Messages : Recorded(n)' # Recorded(n) /\ Recorded(n)' = "parked"}
  <2>1. ASSUME NEW n \in Messages, Recorded(n)' # Recorded(n)
        PROVE  /\ Outcome(n) = "committed" /\ Recorded(n) = "open" /\ RowSaved(n)
               /\ \/ Recorded(n)' = "dispatched" /\ queued[n] > 0
                  \/ Recorded(n)' = "parked"
    BY <1>2, <2>1, ShownStep
  <2>2. Handed' = Handed
    BY <1>2, <2>1, SettlingIsSave
  <2>3. m \in D \cup P
    BY <1>2, <2>1
  <2>4. /\ D \subseteq {n \in Messages : outcome[n] = "committed" /\ record[n] = "open"} \cap Handed
        /\ P \subseteq {n \in Messages : outcome[n] = "committed" /\ record[n] = "open"} \ D
    BY <2>1 DEF Handed
  <2>5. record' = [n \in Messages |-> IF n \in D THEN "dispatched"
                                     ELSE IF n \in P THEN "parked" ELSE record[n]]
    BY <2>1
  <2>6. outcome' = outcome
    BY <1>2
  <2>7. Promise!Settle(D, P)
    BY <2>2, <2>4, <2>5, <2>6 DEF Promise!Settle, Promise!Open, Handed
  <2> QED
    BY <2>3, <2>7 DEF Promise!SettleOf
<1>3. ASSUME \A m \in Messages : Outcome(m)' = Outcome(m) /\ Recorded(m)' = Recorded(m)
      PROVE  [Promise!Next]_Promise!dvars
  <2>1. CASE Handed' = Handed
    BY <1>3, <2>1, Stutter DEF Handed
  <2>2. ASSUME NEW m \in Messages, Visible(m), Handed' = Handed \cup {m}
        PROVE  Promise!Hand(m)
    <3>1. outcome[m] = "committed"
      BY <2>2 DEF Outcome, Visible
    <3>2. outcome' = outcome /\ record' = record
      BY <1>3
    <3> QED
      BY <2>2, <3>1, <3>2 DEF Promise!Hand, Handed
  <2> QED
    BY <2>1, <2>2, OneHand DEF Promise!Next
<1> QED
  BY <1>1, <1>2, <1>3 DEF Promise!Next

(* The relay, with its locks, batches, marks, retries, timeouts, crashes   *)
(* and lost transactions, implements the delivery the outbox promises:     *)
(* handed over before it is recorded as dispatched, nothing handed over    *)
(* for a change that did not commit, settled once.                         *)
THEOREM DeliversAsPromised == Spec => Promise!Spec
<1>1. IInv /\ [Next]_vars => [Promise!Next]_Promise!dvars
  BY PromiseStep
<1> QED
  BY <1>1, PromiseInit, Inductive, PTL DEF Spec, Promise!Spec


-----------------------------------------------------------------------------
(* The breaker: nothing here is about the jobs of Mail. *)

\* No call is of a generation to come.
NoneAhead == \A c \in Callers : calls[c] # NoCall => calls[c].generation <= breaker.generation

\* A probe of the current generation is one of a half-open circuit.
ProbesOfHalfOpen ==
  \A c \in Callers : Current(c) /\ calls[c].probing => breaker.state = "HALF_OPEN"

\* Calls of a half-open circuit began since it opened, and those that count have passed.
PassedSince ==
  breaker.state = "HALF_OPEN" =>
    /\ breaker.successes <= passed
    /\ \A c \in Callers : Current(c) => calls[c].opened = opened

Accounted == breaker.probes = Cardinality(Probing) /\ breaker.probes <= halfOpenMaxProbes

BInv == BreakerTypeOK /\ NoneAhead /\ ProbesOfHalfOpen /\ Accounted /\ PassedSince

-----------------------------------------------------------------------------
LEMMA EnterFields ==
  ASSUME NEW b \in Breaker, NEW s \in CircuitState
  PROVE  /\ Enter(b, s) \in Breaker /\ Enter(b, s).state = s
         /\ Enter(b, s).generation = b.generation + 1
         /\ Enter(b, s).probes = 0 /\ Enter(b, s).successes = 0
BY OptionsAssumption DEF Enter, Breaker, CircuitState

\* A success changes the state only of a half-open circuit, which it closes.
LEMMA SuccessFields ==
  ASSUME NEW b \in Breaker
  PROVE  /\ OnSuccess(b) \in Breaker
         /\ \/ /\ OnSuccess(b).state = b.state /\ OnSuccess(b).generation = b.generation
               /\ OnSuccess(b).probes = b.probes
               /\ OnSuccess(b).successes <= b.successes + 1
            \/ /\ OnSuccess(b).state = "CLOSED" /\ b.state = "HALF_OPEN"
               /\ OnSuccess(b).generation = b.generation + 1 /\ OnSuccess(b).probes = 0
               /\ b.successes + 1 >= halfOpenSuccesses
<1>1. CASE b.state # "HALF_OPEN"
  BY <1>1 DEF OnSuccess, Breaker
<1>2. CASE b.state = "HALF_OPEN" /\ b.successes + 1 >= halfOpenSuccesses
  BY <1>2, EnterFields DEF OnSuccess, CircuitState
<1>3. CASE b.state = "HALF_OPEN" /\ ~(b.successes + 1 >= halfOpenSuccesses)
  <2> DEFINE r == OnSuccess(b)
  <2>1. r = [b EXCEPT !.failures = 0, !.successes = b.successes + 1]
    BY <1>3 DEF OnSuccess
  <2>2. b.successes \in Nat /\ b.successes + 1 \in Nat
    BY DEF Breaker
  <2> HIDE DEF r
  <2>3. r \in Breaker
    BY <2>1, <2>2 DEF Breaker
  <2>4. r.state = b.state /\ r.generation = b.generation /\ r.probes = b.probes
    BY <2>1 DEF Breaker
  <2>5. r.successes = b.successes + 1
    BY <2>1 DEF Breaker
  <2>6. QED BY <2>2, <2>3, <2>4, <2>5 DEF r
<1>4. QED BY <1>1, <1>2, <1>3

\* A failure is counted, or opens the circuit.
LEMMA FailureFields ==
  ASSUME NEW b \in Breaker
  PROVE  /\ OnFailure(b) \in Breaker
         /\ \/ /\ OnFailure(b).state = b.state /\ OnFailure(b).generation = b.generation
               /\ OnFailure(b).probes = b.probes /\ OnFailure(b).successes = b.successes
            \/ /\ OnFailure(b).state = "OPEN"
               /\ OnFailure(b).generation = b.generation + 1 /\ OnFailure(b).probes = 0
<1> DEFINE f == [b EXCEPT !.failures = @ + 1]
<1>1. f \in Breaker /\ f.generation = b.generation
  BY DEF Breaker
<1>2. CASE b.state = "HALF_OPEN" \/ b.failures + 1 >= failureThreshold
  <2>1. OnFailure(b) = Enter(f, "OPEN")
    BY <1>2 DEF OnFailure
  <2>2. "OPEN" \in CircuitState
    BY DEF CircuitState
  <2> HIDE DEF f
  <2>3. QED BY <1>1, <2>1, <2>2, EnterFields
<1>3. CASE ~(b.state = "HALF_OPEN" \/ b.failures + 1 >= failureThreshold)
  BY <1>3 DEF OnFailure, Breaker
<1>4. QED BY <1>2, <1>3

\* A call that is made finds the breaker as it was, or half open in a new generation.
LEMMA FoundFields ==
  ASSUME breaker \in Breaker
  PROVE  /\ Found \in Breaker
         /\ \/ Found = breaker
            \/ /\ Found.state = "HALF_OPEN" /\ breaker.state = "OPEN"
               /\ Found.generation = breaker.generation + 1
               /\ Found.probes = 0 /\ Found.successes = 0
BY EnterFields DEF Found, CircuitState

LEMMA FiniteProbing == IsFiniteSet(Probing)
BY CallersAssumption, FS_Subset DEF Probing

\* A call that is let through leaves the invariant true, and the state as it found it.
LEMMA BeginPreserves ==
  ASSUME BInv, NEW c \in Callers, Begin(c)
  PROVE  BInv' /\ (breaker'.state = "CLOSED" => breaker.state = "CLOSED")
<1> DEFINE call == [generation |-> Found.generation, probing |-> Found.state = "HALF_OPEN",
                    opened |-> opened]
<1>1. /\ breaker \in Breaker /\ calls \in [Callers -> Call \cup {NoCall}]
      /\ opened \in Nat /\ passed \in Nat
  BY DEF BInv, BreakerTypeOK
<1>2. /\ Found \in Breaker
      /\ \/ Found = breaker
         \/ /\ Found.state = "HALF_OPEN" /\ breaker.state = "OPEN"
            /\ Found.generation = breaker.generation + 1
            /\ Found.probes = 0 /\ Found.successes = 0
  BY <1>1, FoundFields
<1>3. /\ Found.generation \in Nat /\ Found.probes \in Nat /\ Found.successes \in Nat
      /\ breaker.generation \in Nat
  BY <1>1, <1>2 DEF Breaker
<1>4. /\ breaker' \in Breaker
      /\ breaker'.state = Found.state /\ breaker'.generation = Found.generation
      /\ breaker'.successes = Found.successes
      /\ breaker'.probes = IF Found.state = "HALF_OPEN" THEN Found.probes + 1 ELSE Found.probes
      /\ Found.state = "HALF_OPEN" => Found.probes < halfOpenMaxProbes
  <2>1. CASE Found.state = "HALF_OPEN"
    <3>1. breaker' = [Found EXCEPT !.probes = Found.probes + 1]
      BY <2>1 DEF Begin
    <3>2. Found.probes < halfOpenMaxProbes
      BY <2>1, <1>3, OptionsAssumption DEF Begin, Refused
    <3>3. QED BY <1>2, <1>3, <2>1, <3>1, <3>2 DEF Breaker
  <2>2. CASE Found.state # "HALF_OPEN"
    BY <1>2, <2>2 DEF Begin
  <2>3. QED BY <2>1, <2>2
<1>5. /\ calls[c] = NoCall /\ calls' = [calls EXCEPT ![c] = call]
      /\ opened' = opened /\ passed' = passed
  BY DEF Begin
<1>6. /\ call \in Call /\ call # NoCall
      /\ call.generation = Found.generation /\ call.opened = opened
      /\ call.probing <=> Found.state = "HALF_OPEN"
  <2>1. (Found.state = "HALF_OPEN") \in BOOLEAN
    OBVIOUS
  <2>2. call \in Call
    BY <1>1, <1>3, <2>1 DEF Call
  <2>3. QED BY <2>2, NoCallAssumption
<1> HIDE DEF call
<1>7. calls' \in [Callers -> Call \cup {NoCall}] /\ calls'[c] = call
      /\ \A d \in Callers \ {c} : calls'[d] = calls[d]
  BY <1>1, <1>5, <1>6
<1>8. BreakerTypeOK'
  BY <1>1, <1>4, <1>5, <1>7 DEF BreakerTypeOK
<1>9. NoneAhead'
  <2>1. breaker.generation <= breaker'.generation
    BY <1>2, <1>3, <1>4
  <2>2. ASSUME NEW d \in Callers, d # c, calls'[d] # NoCall
        PROVE  calls'[d].generation <= breaker'.generation
    <3>1. calls[d] \in Call /\ calls[d].generation <= breaker.generation /\ calls'[d] = calls[d]
      BY <1>1, <1>7, <2>2 DEF BInv, NoneAhead
    <3>2. calls[d].generation \in Nat /\ breaker'.generation \in Nat
      BY <1>3, <1>4, <3>1 DEF Call
    <3>3. QED BY <1>3, <2>1, <3>1, <3>2
  <2>3. calls'[c].generation <= breaker'.generation
    BY <1>3, <1>4, <1>6, <1>7
  <2>4. QED BY <2>2, <2>3 DEF NoneAhead
<1>10. CASE Found = breaker
  <2>1. \A d \in Callers \ {c} : Current(d)' <=> Current(d)
    BY <1>4, <1>7, <1>10 DEF Current
  <2>2. Current(c)' /\ ~Current(c)
    BY <1>4, <1>5, <1>6, <1>7 DEF Current
  <2>3. ProbesOfHalfOpen'
    BY <1>4, <1>6, <1>7, <1>10, <2>1 DEF BInv, ProbesOfHalfOpen
  <2>4. PassedSince'
    BY <1>4, <1>5, <1>6, <1>7, <1>10, <2>1 DEF BInv, PassedSince
  <2>5. c \notin Probing
    BY <2>2 DEF Probing
  <2>6. CASE Found.state = "HALF_OPEN"
    <3>1. Probing' = Probing \cup {c}
      BY <1>6, <1>7, <2>1, <2>2, <2>6 DEF Probing
    <3>2. Cardinality(Probing') = Cardinality(Probing) + 1
      BY <2>5, <3>1, FiniteProbing, FS_AddElement
    <3>3. QED BY <1>3, <1>4, <1>8, <1>9, <1>10, <2>3, <2>4, <2>6, <3>2, OptionsAssumption
              DEF BInv, Accounted
  <2>7. CASE Found.state # "HALF_OPEN"
    <3>1. Probing' = Probing
      BY <1>6, <1>7, <2>1, <2>5, <2>7 DEF Probing
    <3>2. QED BY <1>4, <1>8, <1>9, <1>10, <2>3, <2>4, <2>7, <3>1 DEF BInv, Accounted
  <2>8. QED BY <1>4, <1>10, <2>6, <2>7
<1>11. CASE Found # breaker
  <2>1. /\ Found.state = "HALF_OPEN" /\ Found.generation = breaker.generation + 1
        /\ Found.probes = 0 /\ Found.successes = 0
    BY <1>2, <1>11
  <2>2. ASSUME NEW d \in Callers \ {c} PROVE ~Current(d)'
    <3>1. calls[d] # NoCall => /\ calls[d].generation <= breaker.generation
                               /\ calls[d].generation \in Nat
      BY <1>1 DEF BInv, NoneAhead, Call
    <3>2. QED BY <1>3, <1>4, <1>7, <2>1, <3>1 DEF Current
  <2>3. Current(c)' /\ calls'[c].probing
    BY <1>4, <1>6, <1>7, <2>1 DEF Current
  <2>4. Probing' = {c}
    BY <2>2, <2>3 DEF Probing
  <2>5. Cardinality(Probing') = 1
    BY <2>4, FS_Singleton
  <2>6. Accounted'
    BY <1>4, <2>1, <2>5, OptionsAssumption DEF Accounted
  <2>7. ProbesOfHalfOpen'
    BY <1>4, <2>1 DEF ProbesOfHalfOpen
  <2>8. PassedSince'
    BY <1>1, <1>4, <1>5, <1>6, <1>7, <2>1, <2>2 DEF PassedSince
  <2>9. QED BY <1>4, <1>8, <1>9, <2>1, <2>6, <2>7, <2>8 DEF BInv
<1>12. QED BY <1>10, <1>11

\* What the end of a call makes of the breaker, before the place of a probe is given back.
LEMMA NowFields ==
  ASSUME breaker \in Breaker, NEW c \in Callers, NEW ok \in BOOLEAN, NEW now,
         now = IF ~Counts(c) THEN breaker
               ELSE IF ok THEN OnSuccess(breaker) ELSE OnFailure(breaker)
  PROVE  /\ now \in Breaker
         /\ \/ /\ now.state = breaker.state /\ now.generation = breaker.generation
               /\ now.probes = breaker.probes
               /\ \/ now.successes <= breaker.successes
                  \/ ok /\ Counts(c) /\ now.successes <= breaker.successes + 1
            \/ /\ now.generation = breaker.generation + 1 /\ now.probes = 0
               /\ Counts(c)
               /\ \/ now.state = "OPEN"
                  \/ /\ now.state = "CLOSED" /\ breaker.state = "HALF_OPEN" /\ ok
                     /\ breaker.successes + 1 >= halfOpenSuccesses
<1>1. breaker.successes \in Nat
  BY DEF Breaker
<1>2. CASE ~Counts(c)
  BY <1>1, <1>2
<1>3. CASE Counts(c) /\ ok
  BY <1>3, SuccessFields
<1>4. CASE Counts(c) /\ ~ok
  BY <1>1, <1>4, FailureFields
<1>5. QED BY <1>2, <1>3, <1>4

\* The end of a call leaves the invariant true; it closes an open circuit only after
\* successes enough.
LEMMA EndPreserves ==
  ASSUME BInv, NEW c \in Callers, NEW ok \in BOOLEAN, End(c, ok)
  PROVE  /\ BInv'
         /\ breaker.state # "CLOSED" /\ breaker'.state = "CLOSED" => passed' >= halfOpenSuccesses
<1> DEFINE now == IF ~Counts(c) THEN breaker
                  ELSE IF ok THEN OnSuccess(breaker) ELSE OnFailure(breaker)
           opens == now.state = "OPEN" /\ breaker.state # "OPEN"
           back == calls[c].probing /\ calls[c].generation = now.generation
<1>1. /\ breaker \in Breaker /\ calls \in [Callers -> Call \cup {NoCall}]
      /\ opened \in Nat /\ passed \in Nat
  BY DEF BInv, BreakerTypeOK
<1>2. /\ calls[c] # NoCall /\ calls' = [calls EXCEPT ![c] = NoCall]
      /\ breaker' = IF back THEN [now EXCEPT !.probes = @ - 1] ELSE now
      /\ opened' = IF opens THEN opened + 1 ELSE opened
      /\ passed' = IF opens THEN 0
                   ELSE IF ok /\ calls[c].opened = opened THEN passed + 1 ELSE passed
  BY DEF End, Released
<1>3. /\ now \in Breaker
      /\ \/ /\ now.state = breaker.state /\ now.generation = breaker.generation
            /\ now.probes = breaker.probes
            /\ \/ now.successes <= breaker.successes
               \/ ok /\ Counts(c) /\ now.successes <= breaker.successes + 1
         \/ /\ now.generation = breaker.generation + 1 /\ now.probes = 0
            /\ Counts(c)
            /\ \/ now.state = "OPEN"
               \/ /\ now.state = "CLOSED" /\ breaker.state = "HALF_OPEN" /\ ok
                  /\ breaker.successes + 1 >= halfOpenSuccesses
  BY <1>1, NowFields
<1>4. Counts(c) <=> Current(c)
  BY <1>2 DEF Counts, Current
<1> HIDE DEF now
<1>5. /\ now.generation \in Nat /\ now.probes \in Nat /\ now.successes \in Nat
      /\ breaker.generation \in Nat /\ breaker.successes \in Nat /\ breaker.probes \in Nat
      /\ calls[c] \in Call /\ calls[c].generation \in Nat
  BY <1>1, <1>2, <1>3 DEF Breaker, Call
<1>6. /\ \A d \in Callers \ {c} : calls'[d] = calls[d]
      /\ calls'[c] = NoCall /\ calls' \in [Callers -> Call \cup {NoCall}]
  BY <1>1, <1>2
<1>7. opened' \in Nat /\ passed' \in Nat
  BY <1>1, <1>2
<1>8. ASSUME breaker' \in Breaker, breaker'.generation >= breaker.generation
      PROVE  BreakerTypeOK' /\ NoneAhead'
  <2>1. BreakerTypeOK'
    BY <1>6, <1>7, <1>8 DEF BreakerTypeOK
  <2>2. ASSUME NEW d \in Callers, calls'[d] # NoCall
        PROVE  calls'[d].generation <= breaker'.generation
    <3>1. d # c /\ calls'[d] = calls[d]
      BY <1>6, <2>2
    <3>2. calls[d] \in Call /\ calls[d].generation <= breaker.generation
      BY <1>1, <2>2, <3>1 DEF BInv, NoneAhead
    <3>3. calls[d].generation \in Nat /\ breaker'.generation \in Nat
      BY <1>8, <3>2 DEF Call, Breaker
    <3>4. QED BY <1>5, <1>8, <3>1, <3>2, <3>3
  <2>3. QED BY <2>1, <2>2 DEF NoneAhead
<1>9. CASE now.generation = breaker.generation + 1
  <2>1. calls[c].generation = breaker.generation
    BY <1>3, <1>5, <1>9 DEF Counts
  <2>2. breaker' = now
    BY <1>2, <1>5, <1>9, <2>1
  <2>3. BreakerTypeOK' /\ NoneAhead'
    BY <1>3, <1>5, <1>8, <1>9, <2>2
  <2>4. ASSUME NEW d \in Callers PROVE ~Current(d)'
    <3>1. CASE d = c
      BY <1>6, <3>1 DEF Current
    <3>2. CASE d # c
      <4>1. calls[d] # NoCall => /\ calls[d].generation <= breaker.generation
                                 /\ calls[d].generation \in Nat
        BY <1>1 DEF BInv, NoneAhead, Call
      <4>2. QED BY <1>5, <1>6, <1>9, <2>2, <3>2, <4>1 DEF Current
    <3>3. QED BY <3>1, <3>2
  <2>5. Probing' = {}
    BY <2>4 DEF Probing
  <2>6. now.probes = 0 /\ now.state # "HALF_OPEN"
    BY <1>3, <1>5, <1>9
  <2>7. Accounted'
    BY <2>2, <2>5, <2>6, FS_EmptySet, OptionsAssumption DEF Accounted
  <2>8. ProbesOfHalfOpen' /\ PassedSince'
    BY <2>2, <2>4, <2>6 DEF ProbesOfHalfOpen, PassedSince
  <2>9. ASSUME breaker'.state = "CLOSED" PROVE passed' >= halfOpenSuccesses
    <3>1. /\ breaker.state = "HALF_OPEN" /\ ok /\ breaker.successes + 1 >= halfOpenSuccesses
          /\ Current(c) /\ now.state = "CLOSED"
      BY <1>3, <1>4, <1>5, <1>9, <2>2, <2>9
    <3>2. breaker.successes <= passed /\ calls[c].opened = opened
      BY <3>1 DEF BInv, PassedSince
    <3>3. passed' = passed + 1
      BY <1>2, <3>1, <3>2
    <3>4. QED BY <1>1, <1>5, <3>1, <3>2, <3>3, OptionsAssumption
  <2>10. QED BY <2>3, <2>7, <2>8, <2>9 DEF BInv
<1>10. CASE now.generation = breaker.generation
  <2>1. /\ now.state = breaker.state /\ now.probes = breaker.probes
        /\ \/ now.successes <= breaker.successes
           \/ ok /\ Current(c) /\ now.successes <= breaker.successes + 1
    BY <1>3, <1>4, <1>5, <1>10
  <2>2. back <=> c \in Probing
    BY <1>2, <1>10 DEF Probing, Current
  <2>3. back => now.probes # 0
    BY <2>1, <2>2, FiniteProbing, FS_EmptySet DEF BInv, Accounted
  <2>4. /\ breaker' \in Breaker /\ breaker'.state = breaker.state
        /\ breaker'.generation = breaker.generation /\ breaker'.successes = now.successes
        /\ breaker'.probes = IF back THEN breaker.probes - 1 ELSE breaker.probes
    <3> HIDE DEF back
    <3>1. CASE back
      <4>1. now.probes - 1 \in Nat /\ breaker' = [now EXCEPT !.probes = now.probes - 1]
        BY <1>2, <1>5, <2>3, <3>1
      <4>2. QED BY <1>3, <1>10, <2>1, <3>1, <4>1 DEF Breaker
    <3>2. CASE ~back
      BY <1>2, <1>3, <1>10, <2>1, <3>2
    <3>3. QED BY <3>1, <3>2
  <2>5. BreakerTypeOK' /\ NoneAhead'
    BY <1>5, <1>8, <2>4
  <2>6. /\ ~Current(c)'
        /\ \A d \in Callers \ {c} : Current(d)' <=> Current(d)
    BY <1>6, <2>4 DEF Current
  <2>7. Probing' = Probing \ {c}
    BY <1>6, <2>6 DEF Probing
  <2>8. Accounted'
    <3>1. CASE back
      <4>1. Cardinality(Probing') = Cardinality(Probing) - 1
        BY <2>2, <2>7, <3>1, FiniteProbing, FS_RemoveElement
      <4>2. QED BY <1>5, <2>4, <3>1, <4>1, OptionsAssumption DEF BInv, Accounted
    <3>2. CASE ~back
      BY <2>2, <2>4, <2>7, <3>2 DEF BInv, Accounted
    <3>3. QED BY <3>1, <3>2
  <2>9. ProbesOfHalfOpen'
    BY <1>6, <2>4, <2>6 DEF BInv, ProbesOfHalfOpen
  <2>10. PassedSince'
    <3>1. SUFFICES ASSUME breaker.state = "HALF_OPEN"
                   PROVE  /\ now.successes <= passed'
                          /\ \A d \in Callers : Current(d)' => calls'[d].opened = opened'
      BY <2>4 DEF PassedSince
    <3>2. ~opens
      BY <2>1, <3>1
    <3>3. opened' = opened /\ passed' >= passed
          /\ (ok /\ calls[c].opened = opened => passed' = passed + 1)
      BY <1>1, <1>2, <3>2
    <3>4. /\ breaker.successes <= passed
          /\ \A d \in Callers : Current(d) => calls[d].opened = opened
      BY <3>1 DEF BInv, PassedSince
    <3>5. now.successes <= passed'
      BY <1>1, <1>5, <1>7, <2>1, <3>3, <3>4
    <3>6. QED BY <1>6, <2>6, <3>3, <3>4, <3>5
  <2>11. QED BY <2>4, <2>5, <2>8, <2>9, <2>10 DEF BInv
<1>11. QED BY <1>3, <1>9, <1>10

LEMMA NewIsInv ==
  ASSUME breaker = New, calls = Idle, opened = 0, passed = 0
  PROVE  BInv
<1>1. /\ breaker \in Breaker /\ breaker.state = "CLOSED" /\ breaker.probes = 0
  BY DEF New, Breaker, CircuitState
<1>2. \A c \in Callers : calls[c] = NoCall
  BY DEF Idle
<1>3. Probing = {}
  BY <1>2 DEF Probing, Current
<1>4. Accounted
  BY <1>1, <1>3, FS_EmptySet, OptionsAssumption DEF Accounted
<1>5. BreakerTypeOK /\ NoneAhead /\ ProbesOfHalfOpen /\ PassedSince
  BY <1>1, <1>2 DEF BreakerTypeOK, Idle, NoneAhead, ProbesOfHalfOpen, Current, PassedSince
<1>6. QED BY <1>4, <1>5 DEF BInv

LEMMA RenewPreserves == Renew => BInv'
<1>1. ASSUME Renew PROVE BInv'
  <2>1. /\ breaker' \in Breaker /\ breaker'.state = "CLOSED" /\ breaker'.probes = 0
    BY <1>1 DEF Renew, New, Breaker, CircuitState
  <2>2. \A c \in Callers : calls'[c] = NoCall
    BY <1>1 DEF Renew, Idle
  <2>3. Probing' = {}
    BY <2>2 DEF Probing, Current
  <2>4. Accounted'
    BY <2>1, <2>3, FS_EmptySet, OptionsAssumption DEF Accounted
  <2>5. BreakerTypeOK' /\ NoneAhead' /\ ProbesOfHalfOpen' /\ PassedSince'
    BY <1>1, <2>1, <2>2
    DEF Renew, BreakerTypeOK, Idle, NoneAhead, ProbesOfHalfOpen, Current, PassedSince
  <2>6. QED BY <2>4, <2>5 DEF BInv
<1>2. QED BY <1>1

LEMMA TimePreserves ==
  ASSUME BInv, PassTime
  PROVE  BInv' /\ breaker'.state = breaker.state
<1>1. breaker \in Breaker /\ breaker.left > 0 /\ UNCHANGED <<calls, opened, passed>>
  BY DEF BInv, BreakerTypeOK, PassTime
<1>2. breaker' = [breaker EXCEPT !.left = breaker.left - 1] /\ breaker.left - 1 \in Nat
  BY <1>1 DEF PassTime, Breaker
<1>3. /\ breaker' \in Breaker /\ breaker'.state = breaker.state
      /\ breaker'.generation = breaker.generation /\ breaker'.probes = breaker.probes
      /\ breaker'.successes = breaker.successes
  BY <1>1, <1>2 DEF Breaker
<1>4. (\A c \in Callers : Current(c)' <=> Current(c)) /\ Probing' = Probing
  BY <1>1, <1>3 DEF Current, Probing
<1>5. QED BY <1>1, <1>3, <1>4
          DEF BInv, BreakerTypeOK, NoneAhead, ProbesOfHalfOpen, PassedSince, Accounted

LEMMA StutterPreserves ==
  ASSUME BInv, UNCHANGED bvars
  PROVE  BInv' /\ breaker'.state = breaker.state
BY DEF BInv, bvars, BreakerTypeOK, NoneAhead, ProbesOfHalfOpen, PassedSince, Accounted,
       Probing, Current

LEMMA StepPreserves ==
  ASSUME BInv, [BreakerNext]_bvars
  PROVE  /\ BInv'
         /\ breaker.state # "CLOSED" /\ breaker'.state = "CLOSED" /\ breaker' # New
            => passed' >= halfOpenSuccesses
<1>1. CASE \E c \in Callers : Begin(c)
  BY <1>1, BeginPreserves
<1>2. CASE \E c \in Callers, ok \in BOOLEAN : End(c, ok)
  BY <1>2, EndPreserves
<1>3. CASE PassTime
  BY <1>3, TimePreserves
<1>4. CASE Renew
  BY <1>4, RenewPreserves DEF Renew
<1>5. CASE UNCHANGED bvars
  BY <1>5, StutterPreserves
<1>6. QED BY <1>1, <1>2, <1>3, <1>4, <1>5 DEF BreakerNext

\* The inductive invariant of the breaker: how generations, probes and successes of
\* src/shared/utils/resilience.ts hang together.
THEOREM BreakerInvariant == BreakerSpec => []BInv
<1>1. BreakerInit => BInv
  BY NewIsInv DEF BreakerInit
<1>2. BInv /\ [BreakerNext]_bvars => BInv'
  BY StepPreserves
<1>3. QED BY <1>1, <1>2, PTL DEF BreakerSpec

\* The breaker's variables keep their types (src/shared/utils/resilience.ts).
THEOREM BreakerTypes == BreakerSpec => []BreakerTypeOK
<1>1. BInv => BreakerTypeOK
  BY DEF BInv
<1>2. QED BY <1>1, BreakerInvariant, PTL

\* The probes in flight are those the breaker counts, never more than it may let through,
\* whatever calls of other generations end meanwhile.
THEOREM ProbesAreAccounted == BreakerSpec => []ProbesAccounted
<1>1. BInv => ProbesAccounted
  BY DEF BInv, ProbesOfHalfOpen, Accounted, ProbesAccounted, Probing
<1>2. QED BY <1>1, BreakerInvariant, PTL

\* The circuit closes only after halfOpenSuccesses calls begun since it opened ended well.
THEOREM ClosesAfterProbes == BreakerSpec => ClosesOnProbes
<1>1. BInv /\ [BreakerNext]_bvars
      => [breaker.state # "CLOSED" /\ breaker'.state = "CLOSED" /\ breaker' # New
          => passed' >= halfOpenSuccesses]_bvars
  BY StepPreserves
<1>2. QED BY <1>1, BreakerInvariant, PTL DEF BreakerSpec, ClosesOnProbes

-----------------------------------------------------------------------------
(* The jobs. *)

\* What was sent is not forgotten before the job completes.
SentBeforeDone(j) == run[j] = "done" \/ queue[j].state = "completed" => j \in accepted

\* A failed event is about an attempt that is counted.
ReportsCounted(j) == \A m \in Nat : <<j, m>> \in reports => m <= queue[j].made

\* A job fails for good when its attempts are used up, or stalls.
FailedAtLast(j) ==
  queue[j].state = "failed" => /\ queue[j].made >= attempts \/ j \in unreported
                               /\ \/ j \in dead \cup unreported
                                  \/ <<j, queue[j].made>> \in reports

DeadAtLast(j) == j \in dead => queue[j].made >= attempts

Good(j) == SentBeforeDone(j) /\ ReportsCounted(j) /\ FailedAtLast(j) /\ DeadAtLast(j)

MailInv == JobsTypeOK /\ \A j \in Jobs : Good(j)

-----------------------------------------------------------------------------
\* Each step of Mail is a step of its breaker, or none.
LEMMA BreakerStep == [MailNext]_mailVars => [BreakerNext]_bvars
<1> SUFFICES ASSUME [MailNext]_mailVars PROVE [BreakerNext]_bvars
  OBVIOUS
<1> USE DEF BreakerNext
<1>1. ASSUME NEW j \in Jobs, Send(j) PROVE [BreakerNext]_bvars
  BY <1>1, JobsAssumption DEF Send
<1>2. ASSUME NEW j \in Jobs, SendEnds(j) PROVE [BreakerNext]_bvars
  BY <1>2, JobsAssumption DEF SendEnds
<1>3. ASSUME NEW j \in Jobs, \/ QueueEmail(j) \/ Take(j) \/ RenderFails(j) \/ Complete(j)
                             \/ Fail(j) \/ BackoffEnds(j) \/ RetryJob(j) \/ Clean(j) \/ Stall(j)
      PROVE  UNCHANGED bvars
  BY <1>3 DEF QueueEmail, Take, RenderFails, Complete, Fail, BackoffEnds, RetryJob, Clean, Stall
<1>4. ASSUME NEW r \in reports, OnFailed(r[1], r[2]) PROVE UNCHANGED bvars
  BY <1>4 DEF OnFailed
<1>5. CASE WorkerCrash
  BY <1>5 DEF WorkerCrash
<1>6. CASE WorkerRestart
  BY <1>6, JobsAssumption DEF WorkerRestart
<1>7. CASE Verified
  BY <1>7, JobsAssumption DEF Verified
<1>8. CASE Tick
  BY <1>8 DEF Tick
<1>9. CASE UNCHANGED mailVars
  BY <1>9 DEF mailVars
<1>10. QED BY <1>1, <1>2, <1>3, <1>4, <1>5, <1>6, <1>7, <1>8, <1>9 DEF MailNext

\* The calls of SMTP go through the circuit breaker and through nothing else: Mail implements
\* the breaker's specification (executeWithResilience of email.service.ts).
THEOREM MailImplementsBreaker == MailSpec => BreakerSpec
<1>1. MailInit => BreakerInit
  BY DEF MailInit, BreakerInit
<1>2. QED BY <1>1, BreakerStep, PTL DEF MailSpec, BreakerSpec

\* The SMTP breaker accounts for its probes, through crashes of the worker too.
THEOREM MailProbes == MailSpec => []ProbesAccounted
BY MailImplementsBreaker, ProbesAreAccounted, PTL

\* The SMTP circuit closes only after successes of calls begun since it opened.
THEOREM MailCloses == MailSpec => ClosesOnProbes
BY MailImplementsBreaker, ClosesAfterProbes, PTL

-----------------------------------------------------------------------------
LEMMA SetFields ==
  ASSUME queue \in [Jobs -> Job], NEW j \in Jobs, NEW s \in JobState, Set(j, s)
  PROVE  /\ queue' \in [Jobs -> Job]
         /\ queue'[j].state = s /\ queue'[j].made = queue[j].made
         /\ \A i \in Jobs \ {j} : queue'[i] = queue[i]
<1> DEFINE q == [queue[j] EXCEPT !.state = s]
<1>1. queue' = [queue EXCEPT ![j] = q]
  BY DEF Set
<1>2. q \in Job /\ q.state = s /\ q.made = queue[j].made
  BY DEF Job
<1> HIDE DEF q
<1>3. QED BY <1>1, <1>2

LEMMA GoFields ==
  ASSUME run \in [Jobs -> Place], NEW j \in Jobs, NEW p \in Place, Go(j, p)
  PROVE  /\ run' \in [Jobs -> Place] /\ run'[j] = p
         /\ \A i \in Jobs \ {j} : run'[i] = run[i]
BY DEF Go

LEMMA Types ==
  ASSUME MailInv
  PROVE  /\ queue \in [Jobs -> Job] /\ run \in [Jobs -> Place] /\ reports \subseteq Jobs \X Nat
         /\ \A j \in Jobs : queue[j].made \in Nat /\ Good(j)
<1>1. queue \in [Jobs -> Job] /\ run \in [Jobs -> Place] /\ reports \subseteq Jobs \X Nat
  BY DEF MailInv, JobsTypeOK
<1>2. \A j \in Jobs : queue[j].made \in Nat
  BY <1>1 DEF Job
<1>3. QED BY <1>1, <1>2 DEF MailInv

\* Where a step leaves a job's own state, and what is said of it, it stays good.
LEMMA Untouched ==
  ASSUME NEW i \in Jobs, Good(i), queue'[i] = queue[i],
         run'[i] = run[i] \/ run'[i] # "done",
         accepted \subseteq accepted', unreported \subseteq unreported',
         i \in dead <=> i \in dead',
         \A m \in Nat : <<i, m>> \in reports' <=> <<i, m>> \in reports,
         queue[i].made \in Nat
  PROVE  Good(i)'
BY DEF Good, SentBeforeDone, ReportsCounted, FailedAtLast, DeadAtLast

\* Each action of one job leaves the other jobs alone, and its own good.
LEMMA QueueSteps ==
  ASSUME MailInv, NEW j \in Jobs,
         QueueEmail(j) \/ Take(j) \/ BackoffEnds(j) \/ RetryJob(j) \/ Clean(j) \/ Complete(j)
  PROVE  MailInv'
<1>1. /\ queue \in [Jobs -> Job] /\ run \in [Jobs -> Place]
      /\ \A i \in Jobs : queue[i].made \in Nat /\ Good(i)
  BY Types
<1>2. /\ UNCHANGED <<dead, reports, accepted, unreported>>
      /\ up' \in BOOLEAN /\ mailFaults' \in 0..MaxMailFaults
  BY JobsAssumption
  DEF MailInv, JobsTypeOK, QueueEmail, Take, BackoffEnds, RetryJob, Clean, Complete
<1>3. \/ (\E s \in {"waiting", "active", "removed"} : Set(j, s))
      \/ Set(j, "completed") /\ run[j] = "done"
  BY DEF QueueEmail, Take, BackoffEnds, RetryJob, Clean, Complete
<1>4. run' = run \/ Go(j, "rendering") \/ Go(j, "idle")
  BY DEF QueueEmail, Take, BackoffEnds, RetryJob, Clean, Complete
<1>5. /\ run' \in [Jobs -> Place] /\ \A i \in Jobs : run'[i] = run[i] \/ run'[i] # "done"
  BY <1>1, <1>4, GoFields DEF Place
<1>6. /\ queue' \in [Jobs -> Job]
      /\ \/ queue'[j].state \in {"waiting", "active", "removed"}
         \/ queue'[j].state = "completed" /\ run[j] = "done"
      /\ queue'[j].made = queue[j].made
      /\ \A i \in Jobs \ {j} : queue'[i] = queue[i]
  BY <1>1, <1>3, SetFields DEF JobState
<1>7. JobsTypeOK'
  BY <1>2, <1>5, <1>6 DEF MailInv, JobsTypeOK
<1>8. Good(j)'
  BY <1>1, <1>2, <1>5, <1>6 DEF Good, SentBeforeDone, ReportsCounted, FailedAtLast, DeadAtLast
<1>9. \A i \in Jobs \ {j} : Good(i)'
  BY <1>1, <1>2, <1>5, <1>6, Untouched
<1>10. QED BY <1>7, <1>8, <1>9 DEF MailInv

LEMMA WorkerSteps ==
  ASSUME MailInv, NEW j \in Jobs, RenderFails(j) \/ Send(j) \/ SendEnds(j)
  PROVE  MailInv'
<1>1. /\ queue \in [Jobs -> Job] /\ run \in [Jobs -> Place]
      /\ \A i \in Jobs : queue[i].made \in Nat /\ Good(i)
  BY Types
<1>2. /\ UNCHANGED <<queue, dead, reports, unreported, up, mailFaults>>
      /\ \/ accepted' = accepted /\ (Go(j, "sending") \/ Go(j, "threw"))
         \/ accepted' = accepted \cup {j} /\ (Go(j, "done") \/ Go(j, "threw"))
  BY DEF RenderFails, Send, SendEnds, Accept, FailLoudly
<1>3. /\ run' \in [Jobs -> Place] /\ \A i \in Jobs \ {j} : run'[i] = run[i]
      /\ run'[j] = "done" => j \in accepted'
  BY <1>1, <1>2, GoFields DEF Place
<1>4. JobsTypeOK'
  BY <1>2, <1>3 DEF MailInv, JobsTypeOK
<1>5. Good(j)'
  BY <1>1, <1>2, <1>3 DEF Good, SentBeforeDone, ReportsCounted, FailedAtLast, DeadAtLast
<1>6. \A i \in Jobs \ {j} : Good(i)'
  BY <1>1, <1>2, <1>3, Untouched
<1>7. QED BY <1>4, <1>5, <1>6 DEF MailInv

\* The attempt is counted, and reported as counted.
LEMMA FailSteps ==
  ASSUME MailInv, NEW j \in Jobs, Fail(j)
  PROVE  MailInv'
<1> DEFINE made == queue[j].made + 1
           q == [queue[j] EXCEPT !.made = made,
                                 !.state = IF made >= attempts THEN "failed" ELSE "delayed"]
<1>1. /\ queue \in [Jobs -> Job] /\ run \in [Jobs -> Place] /\ reports \subseteq Jobs \X Nat
      /\ \A i \in Jobs : queue[i].made \in Nat /\ Good(i)
  BY Types
<1>2. /\ UNCHANGED <<dead, accepted, unreported, up, mailFaults>> /\ Go(j, "idle")
      /\ queue' = [queue EXCEPT ![j] = q]
      /\ reports' = reports \cup {<<j, made>>}
  BY DEF Fail
<1>3. /\ made \in Nat /\ q \in Job /\ q.made = made
      /\ q.state = IF made >= attempts THEN "failed" ELSE "delayed"
  <2> DEFINE s == IF made >= attempts THEN "failed" ELSE "delayed"
  <2>1. made \in Nat /\ queue[j] \in Job /\ s \in JobState
    BY <1>1 DEF JobState
  <2>2. q = [queue[j] EXCEPT !.made = made, !.state = s]
    OBVIOUS
  <2> HIDE DEF q, made, s
  <2>3. q \in Job /\ q.made = made /\ q.state = s
    BY <2>1, <2>2 DEF Job
  <2>4. QED BY <2>1, <2>3 DEF s
<1> HIDE DEF q
<1>4. /\ run' \in [Jobs -> Place] /\ run'[j] = "idle"
      /\ \A i \in Jobs \ {j} : run'[i] = run[i]
  BY <1>1, <1>2, GoFields DEF Place
<1>5. /\ queue' \in [Jobs -> Job] /\ queue'[j] = q
      /\ \A i \in Jobs \ {j} : queue'[i] = queue[i]
  BY <1>1, <1>2, <1>3
<1>6. JobsTypeOK'
  BY <1>1, <1>2, <1>3, <1>4, <1>5 DEF MailInv, JobsTypeOK
<1>7. Good(j)'
  <2>1. SentBeforeDone(j)'
    BY <1>3, <1>4, <1>5 DEF SentBeforeDone
  <2>2. ReportsCounted(j)'
    BY <1>1, <1>2, <1>3, <1>5 DEF Good, ReportsCounted
  <2>3. FailedAtLast(j)'
    BY <1>2, <1>3, <1>5 DEF FailedAtLast
  <2>4. DeadAtLast(j)'
    BY <1>1, <1>2, <1>3, <1>5, JobsAssumption DEF Good, DeadAtLast
  <2>5. QED BY <2>1, <2>2, <2>3, <2>4 DEF Good
<1>8. \A i \in Jobs \ {j} : Good(i)'
  BY <1>1, <1>2, <1>4, <1>5, Untouched
<1>9. QED BY <1>6, <1>7, <1>8 DEF MailInv

LEMMA OnFailedSteps ==
  ASSUME MailInv, NEW r \in reports, OnFailed(r[1], r[2])
  PROVE  MailInv'
<1> DEFINE j == r[1]
           made == r[2]
<1>1. /\ queue \in [Jobs -> Job] /\ run \in [Jobs -> Place] /\ reports \subseteq Jobs \X Nat
      /\ \A i \in Jobs : queue[i].made \in Nat /\ Good(i)
  BY Types
<1>2. j \in Jobs /\ made \in Nat /\ <<j, made>> \in reports
  BY <1>1
<1>3. /\ UNCHANGED <<queue, run, accepted, up, mailFaults>>
      /\ reports' = reports \ {<<j, made>>}
      /\ \/ Final(made) /\ dead' = dead \cup {j} /\ UNCHANGED unreported
         \/ Final(made) /\ unreported' = unreported \cup {j} /\ UNCHANGED dead
         \/ ~Final(made) /\ UNCHANGED <<dead, unreported>>
  BY DEF OnFailed
<1> HIDE DEF j, made
<1>4. JobsTypeOK'
  BY <1>1, <1>2, <1>3 DEF MailInv, JobsTypeOK
<1>5. made <= queue[j].made
  BY <1>1, <1>2 DEF Good, ReportsCounted
<1>6. Good(j)'
  <2>1. SentBeforeDone(j)' /\ ReportsCounted(j)'
    BY <1>1, <1>2, <1>3 DEF Good, SentBeforeDone, ReportsCounted
  <2>2. DeadAtLast(j)'
    BY <1>1, <1>2, <1>3, <1>5, JobsAssumption DEF Good, DeadAtLast, Final
  <2>3. FailedAtLast(j)'
    BY <1>1, <1>2, <1>3, <1>5 DEF Good, FailedAtLast, Final
  <2>4. QED BY <2>1, <2>2, <2>3 DEF Good
<1>7. \A i \in Jobs \ {j} : Good(i)'
  BY <1>1, <1>2, <1>3, Untouched
<1>8. QED BY <1>2, <1>4, <1>6, <1>7 DEF MailInv

LEMMA StallSteps ==
  ASSUME MailInv, NEW j \in Jobs, Stall(j)
  PROVE  MailInv'
<1>1. /\ queue \in [Jobs -> Job] /\ run \in [Jobs -> Place] /\ reports \subseteq Jobs \X Nat
      /\ \A i \in Jobs : queue[i].made \in Nat /\ Good(i)
  BY Types
<1>2. /\ UNCHANGED <<dead, accepted, up, run, mailFaults>>
      /\ \/ /\ queue' = [queue EXCEPT ![j] = [queue[j] EXCEPT !.state = "waiting",
                                                            !.stalled = @ + 1]]
            /\ UNCHANGED <<reports, unreported>>
         \/ /\ queue' = [queue EXCEPT ![j] = [queue[j] EXCEPT !.state = "failed"]]
            /\ reports' = reports \cup {<<j, queue[j].made>>}
            /\ unreported' = unreported \cup {j}
  BY DEF Stall
<1>3. PICK q : /\ queue' = [queue EXCEPT ![j] = q] /\ q \in Job /\ q.made = queue[j].made
               /\ \/ q.state = "waiting" /\ UNCHANGED <<reports, unreported>>
                  \/ /\ q.state = "failed"
                     /\ reports' = reports \cup {<<j, queue[j].made>>}
                     /\ unreported' = unreported \cup {j}
  <2>1. CASE /\ queue' = [queue EXCEPT ![j] = [queue[j] EXCEPT !.state = "waiting",
                                                              !.stalled = @ + 1]]
             /\ UNCHANGED <<reports, unreported>>
    <3> DEFINE n == queue[j].stalled + 1
               q == [queue[j] EXCEPT !.state = "waiting", !.stalled = n]
    <3>1. queue[j] \in Job /\ n \in Nat /\ "waiting" \in JobState
      BY <1>1 DEF Job, JobState
    <3>2. queue' = [queue EXCEPT ![j] = q]
      BY <2>1
    <3>3. q = [queue[j] EXCEPT !.state = "waiting", !.stalled = n]
      OBVIOUS
    <3> HIDE DEF q, n
    <3>4. q \in Job /\ q.state = "waiting" /\ q.made = queue[j].made
      BY <3>1, <3>3 DEF Job
    <3>5. QED BY <2>1, <3>2, <3>4
  <2>2. CASE /\ queue' = [queue EXCEPT ![j] = [queue[j] EXCEPT !.state = "failed"]]
             /\ reports' = reports \cup {<<j, queue[j].made>>}
             /\ unreported' = unreported \cup {j}
    <3> DEFINE q == [queue[j] EXCEPT !.state = "failed"]
    <3>1. queue[j] \in Job
      BY <1>1
    <3>2. q \in Job /\ q.state = "failed" /\ q.made = queue[j].made
      BY <3>1 DEF Job, JobState
    <3> HIDE DEF q
    <3>3. queue' = [queue EXCEPT ![j] = q]
      BY <2>2 DEF q
    <3>4. QED BY <2>2, <3>2, <3>3
  <2>3. QED BY <1>2, <2>1, <2>2
<1>4. /\ queue' \in [Jobs -> Job] /\ queue'[j] = q
      /\ \A i \in Jobs \ {j} : queue'[i] = queue[i]
  BY <1>1, <1>3
<1>5. JobsTypeOK'
  BY <1>1, <1>2, <1>3, <1>4 DEF MailInv, JobsTypeOK
<1>6. Good(j)'
  <2>1. SentBeforeDone(j)' /\ ReportsCounted(j)' /\ DeadAtLast(j)'
    BY <1>1, <1>2, <1>3, <1>4 DEF Good, SentBeforeDone, ReportsCounted, DeadAtLast
  <2>2. FailedAtLast(j)'
    BY <1>3, <1>4 DEF FailedAtLast
  <2>3. QED BY <2>1, <2>2 DEF Good
<1>7. \A i \in Jobs \ {j} : Good(i)'
  BY <1>1, <1>2, <1>3, <1>4, Untouched
<1>8. QED BY <1>5, <1>6, <1>7 DEF MailInv

LEMMA CrashSteps == ASSUME MailInv, WorkerCrash PROVE MailInv'
<1>1. /\ reports \subseteq Jobs \X Nat
      /\ \A i \in Jobs : queue[i].made \in Nat /\ Good(i)
  BY Types
<1>2. /\ UNCHANGED <<queue, dead>> /\ up' = FALSE /\ mailFaults' \in 0..MaxMailFaults
      /\ run' = [j \in Jobs |-> "idle"] /\ reports' = {}
      /\ unreported' = unreported \cup {r[1] : r \in reports}
      /\ accepted \subseteq accepted' /\ accepted' \subseteq accepted \cup Jobs
  BY JobsAssumption DEF WorkerCrash, MailInv, JobsTypeOK
<1>3. JobsTypeOK'
  BY <1>1, <1>2 DEF MailInv, JobsTypeOK, Place
<1>4. ASSUME NEW i \in Jobs PROVE Good(i)'
  <2>1. SentBeforeDone(i)' /\ ReportsCounted(i)' /\ DeadAtLast(i)'
    BY <1>1, <1>2 DEF Good, SentBeforeDone, ReportsCounted, DeadAtLast
  <2>2. \A m \in Nat : <<i, m>> \in reports => i \in unreported'
    BY <1>2
  <2>3. FailedAtLast(i)'
    BY <1>1, <1>2, <2>2 DEF Good, FailedAtLast
  <2>4. QED BY <2>1, <2>3 DEF Good
<1>5. QED BY <1>3, <1>4 DEF MailInv

LEMMA OtherSteps ==
  ASSUME MailInv, WorkerRestart \/ Verified \/ Tick \/ UNCHANGED mailVars
  PROVE  MailInv'
<1>1. /\ UNCHANGED <<queue, dead, run, reports, accepted, unreported, mailFaults>>
      /\ up' \in BOOLEAN
  BY DEF WorkerRestart, Verified, Tick, mail, mailVars, MailInv, JobsTypeOK
<1>2. JobsTypeOK'
  BY <1>1 DEF MailInv, JobsTypeOK
<1>3. QED BY <1>1, <1>2
          DEF MailInv, Good, SentBeforeDone, ReportsCounted, FailedAtLast, DeadAtLast

\* The inductive invariant: what was sent, counted and reported of each job.
THEOREM MailInvariant == MailSpec => []MailInv
<1>1. MailInit => MailInv
  <2> SUFFICES ASSUME MailInit PROVE MailInv
    OBVIOUS
  <2>1. /\ queue = [j \in Jobs |-> [state |-> "none", made |-> 0, stalled |-> 0]]
        /\ dead = {} /\ up = FALSE /\ run = [j \in Jobs |-> "idle"] /\ reports = {}
        /\ accepted = {} /\ unreported = {} /\ mailFaults = 0
    BY DEF MailInit
  <2>2. JobsTypeOK
    <3>1. [state |-> "none", made |-> 0, stalled |-> 0] \in Job
      BY DEF Job, JobState
    <3>2. queue \in [Jobs -> Job] /\ run \in [Jobs -> Place]
      BY <2>1, <3>1 DEF Place
    <3>3. accepted \cup dead \cup unreported \subseteq Jobs /\ reports \subseteq Jobs \X Nat
      BY <2>1
    <3>4. mailFaults \in 0..MaxMailFaults
      BY <2>1, JobsAssumption
    <3>5. up \in BOOLEAN
      BY <2>1
    <3>6. QED BY <3>2, <3>3, <3>4, <3>5 DEF JobsTypeOK
  <2>3. \A j \in Jobs : Good(j)
    BY <2>1 DEF Good, SentBeforeDone, ReportsCounted, FailedAtLast, DeadAtLast
  <2>4. QED BY <2>2, <2>3 DEF MailInv
<1>2. MailInv /\ [MailNext]_mailVars => MailInv'
  <2> SUFFICES ASSUME MailInv, [MailNext]_mailVars PROVE MailInv'
    OBVIOUS
  <2>1. CASE \E j \in Jobs : \/ QueueEmail(j) \/ Take(j) \/ BackoffEnds(j) \/ RetryJob(j)
                             \/ Clean(j) \/ Complete(j)
    BY <2>1, QueueSteps
  <2>2. CASE \E j \in Jobs : RenderFails(j) \/ Send(j) \/ SendEnds(j)
    BY <2>2, WorkerSteps
  <2>3. CASE \E j \in Jobs : Fail(j) \/ Stall(j)
    BY <2>3, FailSteps, StallSteps
  <2>4. CASE \E r \in reports : OnFailed(r[1], r[2])
    BY <2>4, OnFailedSteps
  <2>5. CASE WorkerCrash
    BY <2>5, CrashSteps
  <2>6. CASE WorkerRestart \/ Verified \/ Tick \/ UNCHANGED mailVars
    BY <2>6, OtherSteps
  <2>7. QED BY <2>1, <2>2, <2>3, <2>4, <2>5, <2>6 DEF MailNext
<1>3. QED BY <1>1, <1>2, PTL DEF MailSpec

\* The types of the mail system's variables, the breaker's among them.
THEOREM MailTypes == MailSpec => []MailTypeOK
<1>1. MailInv /\ BreakerTypeOK => MailTypeOK
  BY DEF MailInv, MailTypeOK
<1>2. QED BY <1>1, MailInvariant, MailImplementsBreaker, BreakerTypes, PTL

\* An email whose job is completed was accepted by SMTP, however often it was refused, lost
\* or retried (email.processor.ts rethrows, email.service.ts too).
THEOREM CompletedEmailsWereSent == MailSpec => []CompletedWasSent
<1>1. MailInv => CompletedWasSent
  BY DEF MailInv, Good, SentBeforeDone, CompletedWasSent
<1>2. QED BY <1>1, MailInvariant, PTL

\* A job that failed for good has its dead letter, or is one whose report was lost; a dead
\* letter is about a job that used up its attempts (base.processor.ts, onFailed).
THEOREM FailedJobsAreReported == MailSpec => []DeadLettered
<1>1. MailInv => DeadLettered
  BY DEF MailInv, Good, FailedAtLast, DeadAtLast, DeadLettered
<1>2. QED BY <1>1, MailInvariant, PTL
=============================================================================
