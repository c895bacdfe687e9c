---------------------------- MODULE Idempotency ----------------------------
(***************************************************************************)
(* Idempotency keys (src/core/idempotency).  A mutating request that       *)
(* carries an Idempotency-Key first claims a row of idempotency_keys,      *)
(* unique per (scope, key); runs its handler under a lock it renews with a *)
(* heartbeat; and then stores its outcome for replay, or releases the key. *)
(*                                                                         *)
(* One step is one SQL statement, with the code up to the next await.      *)
(* Requests run in any number of API processes, so their steps interleave; *)
(* a process may die between any two steps; a statement may fail, before   *)
(* or after the database has applied it.                                   *)
(*                                                                         *)
(* Time is kept as ages, which stop one past the largest value the code    *)
(* compares them with: the state space is finite without a bound on time.  *)
(***************************************************************************)
EXTENDS Naturals

CONSTANTS Requests,      \* HTTP requests, a retry being a request of its own
          Keys,          \* (scope, key) pairs
          Hashes,        \* fingerprints of query, body and files
          Lease,         \* IDEMPOTENCY_LEASE_MS, in ticks
          Ttl,           \* IDEMPOTENCY_TTL_MS, in ticks
          StoreAttempts, \* STORE_ATTEMPTS
          NoRow,         \* the key has no row
          Nobody         \* no request

VARIABLES rows,     \* the table idempotency_keys, by its unique index
          pc,       \* where each request stands
          call,     \* its key and fingerprint
          tries,    \* rounds of begin's loop, then attempts to store
          id,       \* the id of the row it read or claimed
          answer,   \* what its client received
          stored,   \* history: requests whose outcome is or was in the table
          beatAge,  \* history: ticks since the request last wrote its lock
          rowLife   \* history: age of the row it claimed, deleted or not

vars == <<rows, pc, call, tries, id, answer, stored, beatAge, rowLife>>

(* randomUUID() is abstracted to the request that draws it.  A request     *)
(* draws a row id and a lockId once at most, so the ids are distinct.      *)
Row == [id      : Requests,
        hash    : Hashes,
        status  : {"in_progress", "completed"},
        outcome : Requests \cup {Nobody},  \* whose response is stored
        lockAge : Nat,                     \* now() - lockedAt
        lockId  : Requests,
        life    : Nat]                     \* TTL - (expiresAt - now)

ASSUME ConstantsAssumption ==
  /\ Lease \in Nat
  /\ Ttl \in Nat \ {0}
  /\ StoreAttempts \in Nat \ {0}
  /\ NoRow \notin Row
  /\ Nobody \notin Requests

-----------------------------------------------------------------------------
Beginning == {"insert", "look", "expire", "takeover"}
Live == {"running", "store", "record", "release"}  \* the heartbeat is on
Stands == {"idle", "answered", "dead"} \cup Beginning \cup Live
Answers == [kind : {"none", "conflict", "mismatch", "error", "replay", "ran"},
            by   : Requests \cup {Nobody}]

K(r) == call[r].key
RowOf(r) == rows[K(r)]

\* The WHERE clause of renew, complete and release: this attempt's lock.
Holds(r) ==
  /\ RowOf(r) # NoRow
  /\ RowOf(r).id = id[r]
  /\ RowOf(r).lockId = r
  /\ RowOf(r).status = "in_progress"

\* Mutants: the cron job spares running requests; the lease is a tick short;
\* a retry is recognised by its key alone.
PrunableCompleted(row) == row.life > Ttl /\ row.status = "completed"
AbandonedEarly(row) == row.lockAge >= Lease
SameKey(r) == TRUE

Expired(row) == row.life >= Ttl          \* expiresAt <= now
Prunable(row) == row.life > Ttl          \* expiresAt < now
Abandoned(row) == row.lockAge > Lease    \* lockedAt < now() - lease
SameRequest(r) == RowOf(r).hash = call[r].hash

NewRow(r) == [id |-> r, hash |-> call[r].hash, status |-> "in_progress",
              outcome |-> Nobody, lockAge |-> 0, lockId |-> r, life |-> 0]

\* Mutants: an expired row is deleted by its key and not by its id; a takeover
\* does not check that the row is still in progress, or issues no lockId.
DeletedByKey(r) == [rows EXCEPT ![K(r)] = NoRow]
CanTakeOverAny(r) ==
  /\ RowOf(r) # NoRow
  /\ RowOf(r).id = id[r]
  /\ Abandoned(RowOf(r))

\* What the statement a request is about to execute does to the table.
Inserted(r) ==
  IF RowOf(r) = NoRow THEN [rows EXCEPT ![K(r)] = NewRow(r)] ELSE rows

DeletedExpired(r) ==
  IF RowOf(r) # NoRow /\ RowOf(r).id = id[r]
  THEN [rows EXCEPT ![K(r)] = NoRow] ELSE rows

CanTakeOver(r) ==
  /\ RowOf(r) # NoRow
  /\ RowOf(r).id = id[r]
  /\ RowOf(r).status = "in_progress"
  /\ Abandoned(RowOf(r))

TakenOver(r) ==
  IF CanTakeOver(r)
  THEN [rows EXCEPT ![K(r)].lockAge = 0, ![K(r)].lockId = r] ELSE rows

Completed(r) ==
  IF Holds(r)
  THEN [rows EXCEPT ![K(r)].status = "completed", ![K(r)].outcome = r]
  ELSE rows

Released(r) == IF Holds(r) THEN [rows EXCEPT ![K(r)] = NoRow] ELSE rows

-----------------------------------------------------------------------------
Init ==
  /\ rows = [k \in Keys |-> NoRow]
  /\ pc = [r \in Requests |-> "idle"]
  /\ call \in [Requests -> [key : Keys, hash : Hashes]]
  /\ tries = [r \in Requests |-> 0]
  /\ id = [r \in Requests |-> r]
  /\ answer = [r \in Requests |-> [kind |-> "none", by |-> Nobody]]
  /\ stored = {}
  /\ beatAge = [r \in Requests |-> 0]
  /\ rowLife = [r \in Requests |-> 0]

\* The request ends, its client receiving kind (and the response of `by`).
Answer(r, kind, by) ==
  /\ pc' = [pc EXCEPT ![r] = "answered"]
  /\ answer' = [answer EXCEPT ![r] = [kind |-> kind, by |-> by]]

\* begin returned "started": the heartbeat starts and the handler is called.
Start(r, row) ==
  /\ pc' = [pc EXCEPT ![r] = "running"]
  /\ tries' = [tries EXCEPT ![r] = 0]
  /\ beatAge' = [beatAge EXCEPT ![r] = 0]
  /\ rowLife' = [rowLife EXCEPT ![r] = row.life]
  /\ id' = [id EXCEPT ![r] = row.id]
  /\ UNCHANGED answer

\* `continue` in begin's loop of two rounds; after it, in_progress.
Again(r) ==
  /\ \/ /\ tries[r] = 0
        /\ tries' = [tries EXCEPT ![r] = 1]
        /\ pc' = [pc EXCEPT ![r] = "insert"]
        /\ UNCHANGED answer
     \/ /\ tries[r] = 1
        /\ Answer(r, "conflict", Nobody)
        /\ UNCHANGED tries
  /\ UNCHANGED <<id, beatAge, rowLife>>

Arrive(r) ==
  /\ pc[r] = "idle"
  /\ pc' = [pc EXCEPT ![r] = "insert"]
  /\ UNCHANGED <<rows, call, tries, id, answer, stored, beatAge, rowLife>>

\* repository.save: the unique index lets one request in.
Insert(r) ==
  /\ pc[r] = "insert"
  /\ rows' = Inserted(r)
  /\ \/ /\ RowOf(r) = NoRow
        /\ Start(r, NewRow(r))
     \/ /\ RowOf(r) # NoRow
        /\ pc' = [pc EXCEPT ![r] = "look"]
        /\ UNCHANGED <<tries, id, answer, beatAge, rowLife>>
  /\ UNCHANGED <<call, stored>>

\* findOneBy, and what begin decides from the row it read.
Look(r) ==
  /\ pc[r] = "look"
  /\ \/ /\ RowOf(r) = NoRow
        /\ Again(r)
     \/ /\ RowOf(r) # NoRow
        /\ id' = [id EXCEPT ![r] = RowOf(r).id]
        /\ \/ /\ Expired(RowOf(r))
              /\ pc' = [pc EXCEPT ![r] = "expire"]
              /\ UNCHANGED answer
           \/ /\ ~Expired(RowOf(r))
              /\ \/ /\ ~SameRequest(r)
                    /\ Answer(r, "mismatch", Nobody)
                 \/ /\ SameRequest(r)
                    /\ RowOf(r).status = "in_progress"
                    /\ pc' = [pc EXCEPT ![r] = "takeover"]
                    /\ UNCHANGED answer
                 \/ /\ SameRequest(r)
                    /\ RowOf(r).status = "completed"
                    /\ Answer(r, "replay", RowOf(r).outcome)
        /\ UNCHANGED <<tries, beatAge, rowLife>>
  /\ UNCHANGED <<rows, call, stored>>

\* delete({ id }) of the expired row it read, then the next round.
DeleteExpired(r) ==
  /\ pc[r] = "expire"
  /\ rows' = DeletedExpired(r)
  /\ Again(r)
  /\ UNCHANGED <<call, stored>>

TakeOverAbandoned(r) ==
  /\ pc[r] = "takeover"
  /\ rows' = TakenOver(r)
  /\ \/ /\ CanTakeOver(r)
        /\ Start(r, RowOf(r))
     \/ /\ ~CanTakeOver(r)
        /\ Answer(r, "conflict", Nobody)
        /\ UNCHANGED <<tries, id, beatAge, rowLife>>
  /\ UNCHANGED <<call, stored>>

\* A statement of begin throws: the client gets a 5xx.  The database may have
\* applied it (the reply was lost), and nothing then undoes that.
BeginFails(r) ==
  /\ pc[r] \in Beginning
  /\ \/ UNCHANGED rows
     \/ pc[r] = "insert" /\ rows' = Inserted(r)
     \/ pc[r] = "expire" /\ rows' = DeletedExpired(r)
     \/ pc[r] = "takeover" /\ rows' = TakenOver(r)
  /\ Answer(r, "error", Nobody)
  /\ UNCHANGED <<call, tries, id, stored, beatAge, rowLife>>

\* renew, every IDEMPOTENCY_HEARTBEAT_MS while the handler or the storing of
\* its outcome runs.  Without the lock it only stops the timer.
Beat(r) ==
  /\ pc[r] \in Live
  /\ Holds(r)
  /\ rows' = [rows EXCEPT ![K(r)].lockAge = 0]
  /\ beatAge' = [beatAge EXCEPT ![r] = 0]
  /\ UNCHANGED <<pc, call, tries, id, answer, stored, rowLife>>

\* The handler returns (store), rejects with a 4xx (record) or fails (release).
Finish(r) ==
  /\ pc[r] = "running"
  /\ \E next \in {"store", "record", "release"} : pc' = [pc EXCEPT ![r] = next]
  /\ UNCHANGED <<rows, call, tries, id, answer, stored, beatAge, rowLife>>

\* complete: the statement, applied to the table.
Complete(r) ==
  /\ rows' = Completed(r)
  /\ stored' = IF Holds(r) THEN stored \cup {r} ELSE stored

\* The interceptor's store: up to StoreAttempts attempts to complete.
Store(r) ==
  /\ pc[r] = "store"
  /\ \/ /\ Complete(r)
        /\ Answer(r, "ran", r)
        /\ UNCHANGED tries
     \/ /\ Complete(r) \/ UNCHANGED <<rows, stored>>  \* this attempt throws
        /\ tries' = [tries EXCEPT ![r] = @ + 1]
        /\ IF tries[r] + 1 = StoreAttempts THEN Answer(r, "ran", r)
                                           ELSE UNCHANGED <<pc, answer>>
  /\ UNCHANGED <<call, id, beatAge, rowLife>>

\* A 4xx is stored as an outcome, once; a failure to store it is swallowed.
Record(r) ==
  /\ pc[r] = "record"
  /\ Complete(r) \/ UNCHANGED <<rows, stored>>
  /\ Answer(r, "ran", r)
  /\ UNCHANGED <<call, tries, id, beatAge, rowLife>>

\* A 5xx gives the key up; a failure to do so is swallowed.
Release(r) ==
  /\ pc[r] = "release"
  /\ rows' = Released(r) \/ UNCHANGED rows
  /\ Answer(r, "ran", r)
  /\ UNCHANGED <<call, tries, id, stored, beatAge, rowLife>>

\* The process of a request dies.
Die(r) ==
  /\ pc[r] \in Beginning \cup Live
  /\ pc' = [pc EXCEPT ![r] = "dead"]
  /\ UNCHANGED <<rows, call, tries, id, answer, stored, beatAge, rowLife>>

\* The hourly cron job: one DELETE over the table.
PruneExpired ==
  /\ \E k \in Keys : rows[k] # NoRow /\ Prunable(rows[k])
  /\ rows' = [k \in Keys |-> IF rows[k] # NoRow /\ Prunable(rows[k])
                             THEN NoRow ELSE rows[k]]
  /\ UNCHANGED <<pc, call, tries, id, answer, stored, beatAge, rowLife>>

Older(age, limit) == IF age <= limit THEN age + 1 ELSE age

Tick ==
  /\ rows' = [k \in Keys |->
               IF rows[k] = NoRow THEN NoRow
               ELSE [rows[k] EXCEPT !.lockAge = Older(@, Lease),
                                    !.life = Older(@, Ttl)]]
  /\ beatAge' = [r \in Requests |-> Older(beatAge[r], Lease)]
  /\ rowLife' = [r \in Requests |-> Older(rowLife[r], Ttl)]
  /\ UNCHANGED <<pc, call, tries, id, answer, stored>>

Begin(r) == Insert(r) \/ Look(r) \/ DeleteExpired(r) \/ TakeOverAbandoned(r)
Conclude(r) == Store(r) \/ Record(r) \/ Release(r)

Next ==
  \/ \E r \in Requests : Arrive(r)
  \/ \E r \in Requests : Insert(r)
  \/ \E r \in Requests : Look(r)
  \/ \E r \in Requests : DeleteExpired(r)
  \/ \E r \in Requests : TakeOverAbandoned(r)
  \/ \E r \in Requests : BeginFails(r)
  \/ \E r \in Requests : Beat(r)
  \/ \E r \in Requests : Finish(r)
  \/ \E r \in Requests : Store(r)
  \/ \E r \in Requests : Record(r)
  \/ \E r \in Requests : Release(r)
  \/ \E r \in Requests : Die(r)
  \/ PruneExpired
  \/ Tick

Spec == Init /\ [][Next]_vars

\* A live process executes its statements, time passes, and cron runs.  No
\* fairness for arrivals, for handlers that return, for heartbeats or failures.
Fairness ==
  /\ \A r \in Requests : WF_vars(Begin(r)) /\ WF_vars(Conclude(r))
  /\ WF_vars(PruneExpired)
  /\ WF_vars(Tick)

FairSpec == Spec /\ Fairness

-----------------------------------------------------------------------------
\* Every variable has its type.
TypeOK ==
  /\ rows \in [Keys -> Row \cup {NoRow}]
  /\ pc \in [Requests -> Stands]
  /\ call \in [Requests -> [key : Keys, hash : Hashes]]
  /\ tries \in [Requests -> Nat]
  /\ id \in [Requests -> Requests]
  /\ answer \in [Requests -> Answers]
  /\ stored \in SUBSET Requests
  /\ beatAge \in [Requests -> Nat]
  /\ rowLife \in [Requests -> Nat]

(* A request whose handler has not ended loses its key only because it     *)
(* stopped renewing its lock for more than the lease, or because the row   *)
(* outlived its TTL: begin's takeover and the two deletions of expired     *)
(* rows cannot let a second handler in beside one that beats in time.      *)
HolderUnlessLapsed ==
  \A r \in Requests :
    pc[r] = "running" =>
      Holds(r) \/ beatAge[r] > Lease \/ rowLife[r] >= Ttl

(* Once an outcome is stored it stays the answer to its key, whatever late *)
(* or superseded requests do (complete, release and renew with a lost      *)
(* lock, delete with an id read long before), until the TTL has passed.    *)
OutcomeKept ==
  \A r \in stored :
    \/ rowLife[r] >= Ttl
    \/ /\ RowOf(r) # NoRow
       /\ RowOf(r).status = "completed"
       /\ RowOf(r).outcome = r

(* A replayed response is the response of a request with the same key and  *)
(* the same fingerprint, whose handler ended and whose client, if its      *)
(* process lives, gets that response too.                                  *)
ReplayFaithful ==
  \A r \in Requests :
    answer[r].kind = "replay" =>
      LET s == answer[r].by IN
      /\ s \in stored
      /\ s # r
      /\ call[s] = call[r]
      /\ pc[s] \in {"store", "answered", "dead"}
      /\ pc[s] = "answered" => answer[s] = [kind |-> "ran", by |-> s]

(* No handler starts under a key whose stored outcome is younger than the  *)
(* TTL: a completed request is replayed, never run again.                  *)
NeverRunAgain ==
  [][\A r, s \in Requests :
       /\ s \in stored
       /\ K(s) = K(r)
       /\ rowLife[s] < Ttl
       => ~(pc[r] # "running" /\ pc'[r] = "running")]_vars

(* A key left in progress by a request that died, or that could not store  *)
(* its outcome, does not stay so for ever: a retry takes it over, or it    *)
(* expires and is pruned.                                                  *)
AbandonedKeyFreed ==
  \A k \in Keys, r \in Requests :
    (/\ rows[k] # NoRow /\ rows[k].status = "in_progress"
     /\ rows[k].lockId = r /\ pc[r] \in {"dead", "answered"})
    ~> ~(/\ rows[k] # NoRow /\ rows[k].status = "in_progress"
         /\ rows[k].lockId = r)

(* idempotency.interceptor.ts: "a retry while the first is still running   *)
(* is 409".  Of two handlers running under one key, one has missed its     *)
(* heartbeats for longer than the lease.  The code breaks it: expiresAt is *)
(* set when the row is inserted and neither the heartbeat nor a takeover   *)
(* moves it, and begin and pruneExpired delete an expired row even while   *)
(* its handler runs.                                                       *)
NoOverlapWhileBeating ==
  \A r, s \in Requests :
    (r # s /\ K(r) = K(s) /\ pc[r] = "running" /\ pc[s] = "running")
      => beatAge[r] > Lease \/ beatAge[s] > Lease
=============================================================================
