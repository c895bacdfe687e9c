------------------------------ MODULE MCOutbox ------------------------------
(* Instances of Outbox for TLC. *)
EXTENDS Outbox, TLC
Symmetry == Permutations(Messages) \cup Permutations(Relays)

(* Behaviours of Spec in which no job is removed while a relay has its row *)
(* in a batch: a batch takes seconds, and the job of a sent email stays    *)
(* ten minutes (DEFAULT_EMAIL_JOB_OPTIONS).                                *)
Removed(m) == jobs[m] = "finished" /\ jobs'[m] = "absent"
SlowRemoval == \A m \in Messages : Removed(m) => \A w \in Relays : m \notin Batch(w)
SlowRemovalSpec == Init /\ [][Next /\ SlowRemoval]_vars
=============================================================================
