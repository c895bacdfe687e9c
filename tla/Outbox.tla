------------------------------- MODULE Outbox -------------------------------
(***************************************************************************)
(* The transactional outbox (src/core/outbox).  A change that causes a job *)
(* inserts a row of outbox_messages in its own transaction; the relay of   *)
(* every worker process claims due rows with FOR UPDATE SKIP LOCKED, adds  *)
(* each to its BullMQ queue under the row's id, and marks the rows.  The   *)
(* marks and the row locks end with the relay's transaction, the adds take *)
(* effect in Redis at once: a crash, a failed commit or a late answer      *)
(* leaves the two apart.                                                   *)
(*                                                                         *)
(* Time is abstracted: a pending row whose availableAt passes joins `due`, *)
(* and `ahead` keeps the order in which the rows became due, which is the  *)
(* order of their availableAt.  Old rows may be pruned, old jobs removed.  *)
(***************************************************************************)
EXTENDS Naturals, FiniteSets

CONSTANTS Messages,    \* outbox messages, by id
          Relays,      \* worker processes, each with one OutboxRelay
          BatchSize,   \* BATCH_SIZE
          MaxAttempts, \* MAX_DISPATCH_ATTEMPTS
          MaxFaults,   \* bound: crashes and transactions that fail
          NoRow        \* the message has no row

VARIABLES change,  \* the transaction of the change that causes the message
          rows,    \* the table outbox_messages
          due,     \* pending rows with availableAt <= now()
          ahead,   \* which messages were due before this one
          stage,   \* what each relay does
          copy,    \* the rows it claimed, as it read them
          sent,    \* of these, the ones it marked dispatched in memory
          missed,  \* and the ones whose dispatch it counted as failed
          lost,    \* relays whose transaction the database has rolled back
          late,    \* adds a relay no longer waits for, held by its client
          orphans, \* rows locked by connections of dead processes
          jobs,    \* Redis: the job with the message's id
          queued,  \* history: how often an add created the job
          blank,   \* history: messages that were queued without their data
          tries,   \* history: how often the message's add was called
          faults

table == <<change, rows, due, ahead>>
relay == <<stage, copy, sent, missed, lost>>
redis == <<jobs, queued, blank>>
vars == <<change, rows, due, ahead, stage, copy, sent, missed, lost, late,
          orphans, jobs, queued, blank, tries, faults>>

Row == [status   : {"pending", "dispatched", "failed"},
        attempts : Nat,
        payload  : BOOLEAN]   \* FALSE once it is overwritten with {}

ASSUME ConstantsAssumption ==
  /\ BatchSize \in Nat \ {0}
  /\ MaxAttempts \in Nat \ {0}
  /\ MaxFaults \in Nat
  /\ NoRow \notin Row

-----------------------------------------------------------------------------
NewRow == [status |-> "pending", attempts |-> 0, payload |-> TRUE]

Exists(m) == rows[m] # NoRow
Pending(m) == Exists(m) /\ rows[m].status = "pending"
\* Mutants: the row is saved outside the change's transaction; the transaction of
\* the claim ends before the dispatches.
VisibleAtOnce(m) == TRUE
LocksOfClaim(w) == {}

Visible(m) == change[m] = "committed"
Batch(w) == {m \in Messages : copy[w][m] # NoRow}
Locks(w) == IF w \in lost THEN {} ELSE Batch(w)
Locked(m) == m \in orphans \/ \E w \in Relays : m \in Locks(w)

\* Rows the claiming SELECT may return.
Claimable == {m \in due : Visible(m) /\ Pending(m) /\ ~Locked(m)}

\* ORDER BY availableAt LIMIT BatchSize.
FirstOf(set) ==
  {m \in set : Cardinality({n \in set : n \in ahead[m]}) < BatchSize}

Left(w) == Batch(w) \ (sent[w] \cup missed[w])

\* The rows of a batch are dispatched in the order they were read.
NextOf(w, m) == m \in Left(w) /\ \A n \in Left(w) : n \notin ahead[m]

\* Queue.add with jobId = m: nothing, if Redis has a job with that id.
Add(m, data) ==
  IF jobs[m] # "absent" THEN UNCHANGED redis
  ELSE /\ jobs' = [jobs EXCEPT ![m] = "waiting"]
       /\ queued' = [queued EXCEPT ![m] = @ + 1]
       /\ blank' = IF data THEN blank ELSE blank \cup {m}

\* Mutants of a failed dispatch: it gives up with the wrong status, or clears
\* the payload as a successful one does.
MissedAsSent(row) ==
  [row EXCEPT !.attempts = @ + 1,
              !.status = IF row.attempts + 1 >= MaxAttempts THEN "dispatched" ELSE @]
MissedCleared(row) ==
  [row EXCEPT !.attempts = @ + 1, !.payload = FALSE,
              !.status = IF row.attempts + 1 >= MaxAttempts THEN "failed" ELSE @]

\* The marks of a dispatch that succeeded and of one that failed.
Dispatched(row) == [row EXCEPT !.status = "dispatched", !.payload = FALSE]
Missed(row) ==
  [row EXCEPT !.attempts = @ + 1,
              !.status = IF row.attempts + 1 >= MaxAttempts THEN "failed" ELSE @]

-----------------------------------------------------------------------------
Init ==
  /\ change = [m \in Messages |-> "none"]
  /\ rows = [m \in Messages |-> NoRow]
  /\ due = {}
  /\ ahead = [m \in Messages |-> {}]
  /\ stage = [w \in Relays |-> "idle"]
  /\ copy = [w \in Relays |-> [m \in Messages |-> NoRow]]
  /\ sent = [w \in Relays |-> {}]
  /\ missed = [w \in Relays |-> {}]
  /\ lost = {}
  /\ late = [w \in Relays |-> {}]
  /\ orphans = {}
  /\ jobs = [m \in Messages |-> "absent"]
  /\ queued = [m \in Messages |-> 0]
  /\ blank = {}
  /\ tries = [m \in Messages |-> 0]
  /\ faults = 0

\* enqueue(job, manager): the row is part of the caller's transaction.
Enqueue(m) ==
  /\ change[m] = "none"
  /\ change' = [change EXCEPT ![m] = "open"]
  /\ rows' = [rows EXCEPT ![m] = NewRow]
  /\ UNCHANGED <<due, ahead, relay, late, orphans, redis, tries, faults>>

Commit(m) ==
  /\ change[m] = "open"
  /\ change' = [change EXCEPT ![m] = "committed"]
  /\ UNCHANGED <<rows, due, ahead, relay, late, orphans, redis, tries, faults>>

Rollback(m) ==
  /\ change[m] = "open"
  /\ change' = [change EXCEPT ![m] = "rolled back"]
  /\ rows' = [rows EXCEPT ![m] = NoRow]
  /\ due' = due \ {m}
  /\ UNCHANGED <<ahead, relay, late, orphans, redis, tries, faults>>

\* Its availableAt (now, a delay or a backoff after it was set) passes.
BecomeDue(m) ==
  /\ Pending(m)
  /\ m \notin due
  /\ due' = due \cup {m}
  /\ ahead' = [n \in Messages |-> IF n = m THEN due ELSE ahead[n] \ {m}]
  /\ UNCHANGED <<change, rows, relay, late, orphans, redis, tries, faults>>

\* relayBatch opens its transaction and claims rows.
Claim(w) ==
  /\ stage[w] = "idle"
  /\ Claimable # {}
  /\ stage' = [stage EXCEPT ![w] = "dispatching"]
  /\ copy' = [copy EXCEPT ![w] = [m \in Messages |->
               IF m \in FirstOf(Claimable) THEN rows[m] ELSE NoRow]]
  /\ UNCHANGED <<table, sent, missed, lost, late, orphans, redis, tries, faults>>

\* dispatch: the add succeeds within its time.
Dispatch(w, m) ==
  /\ stage[w] = "dispatching"
  /\ NextOf(w, m)
  /\ Add(m, copy[w][m].payload)
  /\ sent' = [sent EXCEPT ![w] = @ \cup {m}]
  /\ tries' = [tries EXCEPT ![m] = @ + 1]
  /\ UNCHANGED <<table, stage, copy, missed, lost, late, orphans, faults>>

\* dispatch: the add rejects, executed by Redis or not; the batch goes on.
DispatchFails(w, m) ==
  /\ stage[w] = "dispatching"
  /\ NextOf(w, m)
  /\ Add(m, copy[w][m].payload) \/ UNCHANGED redis
  /\ missed' = [missed EXCEPT ![w] = @ \cup {m}]
  /\ tries' = [tries EXCEPT ![m] = @ + 1]
  /\ UNCHANGED <<table, stage, copy, sent, lost, late, orphans, faults>>

\* Mutant: the rest of the batch counts as failed, too.
BatchTimesOut(w, m) ==
  /\ stage[w] = "dispatching"
  /\ NextOf(w, m)
  /\ missed' = [missed EXCEPT ![w] = @ \cup Left(w)]
  /\ stage' = [stage EXCEPT ![w] = "saving"]
  /\ tries' = [tries EXCEPT ![m] = @ + 1]
  /\ UNCHANGED <<table, copy, sent, lost, late, orphans, redis, faults>>

\* dispatch: no answer in time.  The client still holds the command, or Redis
\* has executed it.  The rest of the batch is left alone.
DispatchTimesOut(w, m) ==
  /\ stage[w] = "dispatching"
  /\ NextOf(w, m)
  /\ \/ Add(m, copy[w][m].payload) /\ UNCHANGED late
     \/ /\ late' = [late EXCEPT ![w] = @ \cup {<<m, copy[w][m].payload>>}]
        /\ UNCHANGED redis
  /\ missed' = [missed EXCEPT ![w] = @ \cup {m}]
  /\ stage' = [stage EXCEPT ![w] = "saving"]
  /\ tries' = [tries EXCEPT ![m] = @ + 1]
  /\ UNCHANGED <<table, copy, sent, lost, orphans, faults>>

Done(w) == stage[w] = "saving" \/ (stage[w] = "dispatching" /\ Left(w) = {})

\* The relay's transaction is over: its locks are released.
EndBatch(w, next) ==
  /\ stage' = [stage EXCEPT ![w] = next]
  /\ copy' = [copy EXCEPT ![w] = [m \in Messages |-> NoRow]]
  /\ lost' = lost \ {w}
  /\ sent' = [sent EXCEPT ![w] = {}]
  /\ missed' = [missed EXCEPT ![w] = {}]

\* manager.save(messages) and the commit, which write the rows as the relay
\* has them.  A failed dispatch that is not the last delays availableAt.
Save(w) ==
  /\ Done(w)
  /\ w \notin lost
  /\ rows' = [m \in Messages |->
               IF m \in sent[w] THEN Dispatched(copy[w][m])
               ELSE IF m \in missed[w] THEN Missed(copy[w][m]) ELSE rows[m]]
  /\ due' = due \ (sent[w] \cup missed[w])
  /\ EndBatch(w, "idle")
  /\ UNCHANGED <<change, ahead, late, orphans, redis, tries, faults>>

\* The database rolls the relay's transaction back (its connection broke, the
\* server restarted): other relays may have the rows, this one dispatches on.
LoseTransaction(w) ==
  /\ stage[w] \in {"dispatching", "saving"}
  /\ w \notin lost
  /\ faults < MaxFaults
  /\ faults' = faults + 1
  /\ lost' = lost \cup {w}
  /\ UNCHANGED <<table, stage, copy, sent, missed, late, orphans, redis, tries>>

\* Mutant: tick does not reset `running` when the save throws.
SaveFailsForGood(w) ==
  /\ Done(w)
  /\ w \in lost
  /\ EndBatch(w, "running")
  /\ UNCHANGED <<table, late, orphans, redis, tries, faults>>

\* The save fails then, and every mark of the batch is dropped.
SaveFails(w) ==
  /\ Done(w)
  /\ w \in lost
  /\ EndBatch(w, "idle")
  /\ UNCHANGED <<table, late, orphans, redis, tries, faults>>

\* A command the relay gave up on reaches Redis after all (with the payload of
\* the row as it had claimed it), or is rejected.
LateAdd(w, m) ==
  \E data \in BOOLEAN :
  /\ <<m, data>> \in late[w]
  /\ late' = [late EXCEPT ![w] = @ \ {<<m, data>>}]
  /\ Add(m, data) \/ UNCHANGED redis
  /\ UNCHANGED <<table, relay, orphans, tries, faults>>

\* The worker process dies.  PostgreSQL keeps the locks of its transaction
\* until it notices that the connection is gone.
Crash(w) ==
  /\ stage[w] # "down"
  /\ faults < MaxFaults
  /\ faults' = faults + 1
  /\ EndBatch(w, "down")
  /\ late' = [late EXCEPT ![w] = {}]
  /\ orphans' = orphans \cup Locks(w)
  /\ UNCHANGED <<table, redis, tries>>

Restart(w) ==
  /\ stage[w] = "down"
  /\ stage' = [stage EXCEPT ![w] = "idle"]
  /\ UNCHANGED <<table, copy, sent, missed, lost, late, orphans, redis, tries, faults>>

\* PostgreSQL rolls back the transactions of dead connections.
DropConnection ==
  /\ orphans # {}
  /\ \E rest \in SUBSET orphans : rest # orphans /\ orphans' = rest
  /\ UNCHANGED <<table, relay, late, redis, tries, faults>>

\* prune, between two batches: dispatched rows, once they are old.
Prune(w) ==
  /\ stage[w] = "idle"
  /\ \E old \in SUBSET {m \in Messages : Exists(m) /\ rows[m].status = "dispatched"} :
       /\ old # {}
       /\ rows' = [m \in Messages |-> IF m \in old THEN NoRow ELSE rows[m]]
  /\ UNCHANGED <<change, due, ahead, relay, late, orphans, redis, tries, faults>>

\* A queue processor finishes the job; BullMQ removes it some time later.
Run(m) ==
  /\ jobs[m] = "waiting"
  /\ jobs' = [jobs EXCEPT ![m] = "finished"]
  /\ UNCHANGED <<table, relay, late, orphans, queued, blank, tries, faults>>

Remove(m) ==
  /\ jobs[m] = "finished"
  /\ jobs' = [jobs EXCEPT ![m] = "absent"]
  /\ UNCHANGED <<table, relay, late, orphans, queued, blank, tries, faults>>

Relaying(w) ==
  \/ Claim(w)
  \/ Save(w)
  \/ SaveFails(w)
  \/ \E m \in Messages :
       Dispatch(w, m) \/ DispatchFails(w, m) \/ DispatchTimesOut(w, m)

Next ==
  \/ \E m \in Messages : Enqueue(m)
  \/ \E m \in Messages : Commit(m)
  \/ \E m \in Messages : Rollback(m)
  \/ \E m \in Messages : BecomeDue(m)
  \/ \E w \in Relays : Claim(w)
  \/ \E w \in Relays, m \in Messages : Dispatch(w, m)
  \/ \E w \in Relays, m \in Messages : DispatchFails(w, m)
  \/ \E w \in Relays, m \in Messages : DispatchTimesOut(w, m)
  \/ \E w \in Relays : Save(w)
  \/ \E w \in Relays : LoseTransaction(w)
  \/ \E w \in Relays : SaveFails(w)
  \/ \E w \in Relays, m \in Messages : LateAdd(w, m)
  \/ \E w \in Relays : Crash(w)
  \/ \E w \in Relays : Restart(w)
  \/ DropConnection
  \/ \E w \in Relays : Prune(w)
  \/ \E m \in Messages : Run(m)
  \/ \E m \in Messages : Remove(m)

Spec == Init /\ [][Next]_vars

\* A live relay polls every second, and its statements and dispatches end
\* (withTimeout); backoffs pass; a dead worker is restarted and its connection
\* dropped.  Nothing is assumed of Redis: every dispatch may fail.
Fairness ==
  /\ \A w \in Relays : WF_vars(Relaying(w)) /\ WF_vars(Restart(w))
  /\ \A m \in Messages : WF_vars(BecomeDue(m))
  /\ WF_vars(DropConnection)

FairSpec == Spec /\ Fairness

-----------------------------------------------------------------------------
\* Every variable has its type.
TypeOK ==
  /\ change \in [Messages -> {"none", "open", "committed", "rolled back"}]
  /\ rows \in [Messages -> Row \cup {NoRow}]
  /\ due \in SUBSET Messages
  /\ ahead \in [Messages -> SUBSET Messages]
  /\ stage \in [Relays -> {"idle", "dispatching", "saving", "down"}]
  /\ copy \in [Relays -> [Messages -> Row \cup {NoRow}]]
  /\ sent \in [Relays -> SUBSET Messages]
  /\ missed \in [Relays -> SUBSET Messages]
  /\ lost \in SUBSET Relays
  /\ late \in [Relays -> SUBSET (Messages \X BOOLEAN)]
  /\ orphans \in SUBSET Messages
  /\ jobs \in [Messages -> {"absent", "waiting", "finished"}]
  /\ queued \in [Messages -> Nat]
  /\ blank \in SUBSET Messages
  /\ tries \in [Messages -> Nat]
  /\ faults \in Nat

(* "The job then exists if and only if that transaction commits", the only *)
(* if: no job was ever queued for a change that is open or rolled back.    *)
JobOnlyIfCommitted ==
  \A m \in Messages : queued[m] > 0 => change[m] = "committed"

(* The row of a committed change is marked dispatched, or pruned, only     *)
(* when its job has been in Redis: no failure between the adds and the     *)
(* commit of their marks loses a job silently.                             *)
HandedOver ==
  \A m \in Messages :
    (change[m] = "committed" /\ (Exists(m) => rows[m].status = "dispatched"))
      => queued[m] > 0

(* No retry, second relay or late add queues a job without its data,       *)
(* although the row's payload is overwritten as soon as it is dispatched.  *)
DataKept == blank = {}

(* A message is only charged for adds that were called: the part of a      *)
(* batch that a timeout leaves alone spends no attempt, and a message is   *)
(* parked after MaxAttempts calls at the earliest.                         *)
ChargedForTries ==
  \A m \in Messages :
    Exists(m) => /\ rows[m].attempts <= tries[m]
                 /\ rows[m].status = "failed" => tries[m] >= MaxAttempts

(* No two transactions of relays, dead ones included, hold one message:    *)
(* "never hands the same message to two relays running in parallel".       *)
OneRelay ==
  \A v \in Relays :
    /\ Locks(v) \cap orphans = {}
    /\ \A w \in Relays : v # w => Locks(v) \cap Locks(w) = {}

(* A row that left `pending` never returns to it: a relay that read it     *)
(* earlier does not write its old state back over a newer one.             *)
Settled ==
  [][\A m \in Messages :
       Exists(m) /\ rows[m].status # "pending"
         => rows'[m] = NoRow \/ rows'[m] = rows[m]]_vars

(* Every committed message is dispatched or parked in the end, whatever    *)
(* Redis answers and however the other messages fare.                      *)
EventuallySettled ==
  \A m \in Messages : change[m] = "committed" ~> ~Pending(m)

-----------------------------------------------------------------------------
\* What a user of the outbox sees.
Outcome(m) == IF change[m] = "committed" THEN "committed"
              ELSE IF change[m] = "rolled back" THEN "abandoned" ELSE "undecided"

Recorded(m) == IF change[m] # "committed" \/ Pending(m) THEN "open"
               ELSE IF Exists(m) /\ rows[m].status = "failed" THEN "parked"
               ELSE "dispatched"

Promise == INSTANCE Delivery WITH
  outcome <- [m \in Messages |-> Outcome(m)],
  handed  <- {m \in Messages : queued[m] > 0},
  record  <- [m \in Messages |-> Recorded(m)]

(* The relay with its batches, marks, retries and faults is an outbox that *)
(* hands a message over before it records it as dispatched, never touches  *)
(* a settled message again, and settles every committed one.               *)
PromiseKept == Promise!FairSpec

(* outbox-message.entity.ts: "re-dispatching the same message cannot queue *)
(* it twice" (and ADR 0004).  The code breaks it: the id is known to Redis *)
(* only until BullMQ removes the finished job (ten minutes for an email),  *)
(* and the row may be dispatched again after that.                         *)
QueuedOnce == \A m \in Messages : queued[m] <= 1
=============================================================================
