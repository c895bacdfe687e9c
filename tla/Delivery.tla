------------------------------ MODULE Delivery ------------------------------
(***************************************************************************)
(* What the transactional outbox promises to the code that uses it         *)
(* (outbox.service.ts, ADR 0004), without relays, locks, batches, retries  *)
(* or crashes: a message of a committed change is handed to its queue at   *)
(* least once before it is recorded as dispatched, or is parked after its  *)
(* attempts are spent; a change that is rolled back leaves no job behind.  *)
(***************************************************************************)
CONSTANTS Messages

VARIABLES outcome,  \* of the change that causes the message
          handed,   \* messages whose job has been queued
          record    \* what the outbox says of the message

dvars == <<outcome, handed, record>>

Init ==
  /\ outcome = [m \in Messages |-> "undecided"]
  /\ handed = {}
  /\ record = [m \in Messages |-> "open"]

Decide(m) ==
  /\ outcome[m] = "undecided"
  /\ \E end \in {"committed", "abandoned"} : outcome' = [outcome EXCEPT ![m] = end]
  /\ UNCHANGED <<handed, record>>

\* Possibly again, and even after the message was parked.
Hand(m) ==
  /\ outcome[m] = "committed"
  /\ handed' = handed \cup {m}
  /\ UNCHANGED <<outcome, record>>

Open == {m \in Messages : outcome[m] = "committed" /\ record[m] = "open"}

\* Some messages are recorded as dispatched and others as parked, at once.
Settle(dispatched, parked) ==
  /\ dispatched \subseteq Open \cap handed
  /\ parked \subseteq Open \ dispatched
  /\ record' = [m \in Messages |-> IF m \in dispatched THEN "dispatched"
                                   ELSE IF m \in parked THEN "parked"
                                   ELSE record[m]]
  /\ UNCHANGED <<outcome, handed>>

SettleOf(m) ==
  \E dispatched, parked \in SUBSET Messages :
    m \in dispatched \cup parked /\ Settle(dispatched, parked)

Next ==
  \/ \E m \in Messages : Decide(m)
  \/ \E m \in Messages : Hand(m)
  \/ \E m \in Messages : SettleOf(m)

Spec == Init /\ [][Next]_dvars

\* No open message waits for ever.
FairSpec == Spec /\ \A m \in Messages : WF_dvars(SettleOf(m))
=============================================================================
