------------------------------ MODULE Lockout ------------------------------
(***************************************************************************)
(* The lock of one account after failed logins (src/modules/auth): the     *)
(* counter and the lock on the users row, the delayed jobs that end a lock *)
(* and forget failures, the sweep behind them, and the administrator who   *)
(* locks, unlocks and sets the counter.                                    *)
(*                                                                         *)
(* Logins and queue workers run one await at a time and may die between    *)
(* any two.  Times are what is left of them, so that no clock grows: Tick  *)
(* counts every delay down together, and 0 is "over".  One clock serves    *)
(* processes and database.  Emails about locks are left out.               *)
(***************************************************************************)
EXTENDS Integers, FiniteSets

CONSTANTS Requests,              \* login requests
          Workers,               \* workers of the account-security queue
          maxAttempts,
          lockDuration,
          resetAttemptsPeriod,
          GivenCounts,           \* bound: counters an administrator sets
          MaxFailed,             \* bound: the counter
          MaxUnlockJobs,         \* bound: unlock jobs at a time
          None

ASSUME LockoutAssumption ==
  /\ maxAttempts \in Nat \ {0}
  /\ lockDuration \in Nat
  /\ resetAttemptsPeriod \in Nat
  /\ MaxFailed \in Nat
  /\ MaxUnlockJobs \in Nat
  /\ GivenCounts \subseteq 0..MaxFailed
  /\ maxAttempts <= MaxFailed
  /\ Requests \cap Workers = {}
  /\ None \notin Int
  /\ None \notin BOOLEAN

VARIABLES user,       \* the users row
          unlockJobs, \* the delays of the UNLOCK_ACCOUNT jobs
          resetJob,   \* the job reset-attempts-<user>, or None
          at,         \* where each login and each worker is
          my,         \* its local variables
          waived      \* history: the counter stands where it is for another
                      \* reason than failures that were followed to their end

vars == <<user, unlockJobs, resetJob, at, my, waived>>

Actors == Requests \cup Workers
Counts == 0..MaxFailed

\* What is left of a period; a lock by an administrator has no end (None).
Delays == 0..(lockDuration + resetAttemptsPeriod + 1)

UserRow == [failedLoginAttempts : Counts, isLocked : BOOLEAN,
            lockReason : {"FAILED_ATTEMPTS", "ADMIN_LOCK", None},
            lockedUntil : Delays \cup {None}]

\* failedAttempts: the counter when the job was added.  A delayed job with no delay
\* left waits for a worker.
ResetJob == [state : {"delayed", "active", "ran", "failed"},
             delay : Delays, failedAttempts : Counts]

Places == {"idle", "check", "verify", "lock", "schedule", "getJob",
           "remove", "add", "unlock", "unlockWrite"}

\* count: the counter an increment returned; ends: what is left of the lock it took;
\* job: a worker holds an unlock job; back: where it goes once it lifted a lock.
Locals == [count : Counts, ends : Delays, job : BOOLEAN,
           back : {"idle", "verify"}]

Blank == [back |-> "idle", count |-> 0, ends |-> 0, job |-> FALSE]

Go(a, place) == at' = [at EXCEPT ![a] = place]
Leave(a) == at' = [at EXCEPT ![a] = "idle"] /\ my' = [my EXCEPT ![a] = Blank]

Unlocked == [failedLoginAttempts |-> 0, isLocked |-> FALSE,
             lockReason |-> None, lockedUntil |-> None]

\* Mutant: any lock that has no time left, or no end at all.
ExpiredOrEndless == user.isLocked /\ user.lockedUntil \in {0, None}

\* Mutant: the two places that write and read the reason spell it differently.
ExpiredNever == user.isLocked /\ user.lockReason = "ADMIN_LOCK" /\ user.lockedUntil = 0

\* The conditions of unlockIfExpired and of findExpiredLocks.
Expired == /\ user.isLocked
           /\ user.lockReason = "FAILED_ATTEMPTS"
           /\ user.lockedUntil = 0

-----------------------------------------------------------------------------
(* validateUser. *)

Login(r) ==
  /\ at[r] = "idle"
  /\ Go(r, "check")
  /\ UNCHANGED <<user, unlockJobs, resetJob, my, waived>>

\* isAccountLocked: findLockState; a lock that ended is lifted on the way.
CheckLock(r) ==
  /\ at[r] = "check"
  /\ \/ ~user.isLocked /\ Go(r, "verify") /\ UNCHANGED my
     \/ /\ user.isLocked /\ user.lockedUntil = 0
        /\ Go(r, "unlock")
        /\ my' = [my EXCEPT ![r].back = "verify"]
     \/ user.isLocked /\ user.lockedUntil # 0 /\ Leave(r)
  /\ UNCHANGED <<user, unlockJobs, resetJob, waived>>

\* The right password of a user who is active: resetFailedAttempts, locked or not.
Accept(r) ==
  /\ at[r] = "verify"
  /\ \/ user' = [user EXCEPT !.failedLoginAttempts = 0] /\ waived' = FALSE
     \/ UNCHANGED <<user, waived>>   \* isActive was false
  /\ Leave(r)
  /\ UNCHANGED <<unlockJobs, resetJob>>

\* Mutant: only the attempt that reaches the threshold locks.
IncrementExact(r) ==
  /\ at[r] = "verify"
  /\ user.failedLoginAttempts < MaxFailed
  /\ LET count == user.failedLoginAttempts + 1
     IN  /\ user' = [user EXCEPT !.failedLoginAttempts = count]
         /\ my' = [my EXCEPT ![r] = IF count < maxAttempts
                                     THEN [Blank EXCEPT !.count = count] ELSE Blank]
         /\ Go(r, IF count = maxAttempts THEN "lock" ELSE "getJob")
         /\ waived' = (waived /\ count < maxAttempts)
  /\ UNCHANGED <<unlockJobs, resetJob>>

\* A wrong one.  recordFailedAttempt: incrementFailedLoginAttempts, one atomic UPDATE.
Increment(r) ==
  /\ at[r] = "verify"
  /\ user.failedLoginAttempts < MaxFailed
  /\ LET count == user.failedLoginAttempts + 1
     IN  /\ user' = [user EXCEPT !.failedLoginAttempts = count]
         /\ my' = [my EXCEPT ![r] = IF count < maxAttempts
                                     THEN [Blank EXCEPT !.count = count] ELSE Blank]
         /\ Go(r, IF count >= maxAttempts THEN "lock" ELSE "getJob")
         /\ waived' = (waived /\ count < maxAttempts)
  /\ UNCHANGED <<unlockJobs, resetJob>>

\* lockAccount: lockIfUnlocked has one winner, who schedules the unlock.
LockAccount(r) ==
  /\ at[r] = "lock"
  /\ IF user.isLocked
     THEN Leave(r) /\ UNCHANGED user
     ELSE /\ user' = [user EXCEPT !.isLocked = TRUE,
                                  !.lockReason = "FAILED_ATTEMPTS",
                                  !.lockedUntil = lockDuration]
          /\ my' = [my EXCEPT ![r].ends = lockDuration]
          /\ Go(r, "schedule")
  /\ UNCHANGED <<unlockJobs, resetJob, waived>>

\* scheduleUnlock: a tick late, or at once when the lock is over already.
ScheduleUnlock(r) ==
  /\ at[r] = "schedule"
  /\ IF my[r].ends = 0
     THEN Go(r, "unlock") /\ UNCHANGED <<my, unlockJobs>>
     ELSE /\ Cardinality(unlockJobs) < MaxUnlockJobs
          /\ unlockJobs' = unlockJobs \cup {my[r].ends + 1}
          /\ Leave(r)
  /\ UNCHANGED <<user, resetJob, waived>>

-----------------------------------------------------------------------------
(* scheduleResetFailedAttempts. *)

\* getJob and isDelayed, which looks the id up again.
FindPending(r) ==
  /\ at[r] = "getJob"
  /\ Go(r, IF resetJob # None /\ resetJob.state = "delayed" /\ resetJob.delay > 0
           THEN "remove" ELSE "add")
  /\ UNCHANGED <<user, unlockJobs, resetJob, my, waived>>

\* A job a worker holds is not removed: the error is ignored.
RemovePending(r) ==
  /\ at[r] = "remove"
  /\ resetJob' = IF resetJob # None /\ resetJob.state \in {"active", "ran"}
                 THEN resetJob ELSE None
  /\ Go(r, "add")
  /\ UNCHANGED <<user, unlockJobs, my, waived>>

\* BullMQ ignores an add under an id that exists.
AddReset(r) ==
  /\ at[r] = "add"
  /\ resetJob' = IF resetJob # None THEN resetJob
                 ELSE [state |-> "delayed", delay |-> resetAttemptsPeriod,
                       failedAttempts |-> my[r].count]
  /\ Leave(r)
  /\ UNCHANGED <<user, unlockJobs, waived>>

-----------------------------------------------------------------------------
(* unlockAccount('AUTO_UNLOCK'): a fresh read, then a conditional UPDATE.  A   *)
(* login that finds nothing to unlock is answered 423, one that unlocks goes  *)
(* on to the password; one that scheduled, and a worker, are done.            *)

UnlockRead(a) ==
  /\ at[a] = "unlock"
  /\ IF user.isLocked THEN Go(a, "unlockWrite") /\ UNCHANGED my ELSE Leave(a)
  /\ UNCHANGED <<user, unlockJobs, resetJob, waived>>

UnlockWrite(a) ==
  /\ at[a] = "unlockWrite"
  /\ user' = IF Expired THEN Unlocked ELSE user
  /\ waived' = (waived /\ ~Expired)
  /\ IF Expired /\ my[a].back = "verify"
     THEN Go(a, "verify") /\ my' = [my EXCEPT ![a] = Blank]
     ELSE Leave(a)
  /\ UNCHANGED <<unlockJobs, resetJob>>

-----------------------------------------------------------------------------
(* The queue's workers. *)

StartUnlock(w) ==
  /\ at[w] = "idle"
  /\ 0 \in unlockJobs
  /\ unlockJobs' = unlockJobs \ {0}
  /\ my' = [my EXCEPT ![w].job = TRUE]
  /\ Go(w, "unlock")
  /\ UNCHANGED <<user, resetJob, waived>>

\* Every fifteen minutes, CHECK_EXPIRED_LOCKS: findExpiredLocks, then unlockAccount.
StartSweep(w) ==
  /\ at[w] = "idle"
  /\ Expired
  /\ Go(w, "unlock")
  /\ UNCHANGED <<user, unlockJobs, resetJob, my, waived>>

\* An attempt fails, or its worker dies and the job is taken for stalled: it is
\* tried again after a backoff, or it failed for good.
UnlockFails(w) ==
  /\ at[w] \in {"unlock", "unlockWrite"}
  /\ \/ my[w].job /\ unlockJobs' = unlockJobs \cup {1}
     \/ UNCHANGED unlockJobs
  /\ Leave(w)
  /\ UNCHANGED <<user, resetJob, waived>>

StartReset ==
  /\ resetJob # None
  /\ resetJob.state = "delayed"
  /\ resetJob.delay = 0
  /\ resetJob' = [resetJob EXCEPT !.state = "active"]
  /\ UNCHANGED <<user, unlockJobs, at, my, waived>>

\* resetFailedAttemptsIf, one conditional UPDATE.
Unmoved(count) == user.failedLoginAttempts = count /\ ~user.isLocked

ForgetFailures ==
  /\ resetJob # None
  /\ resetJob.state = "active"
  /\ user' = IF Unmoved(resetJob.failedAttempts)
             THEN [user EXCEPT !.failedLoginAttempts = 0] ELSE user
  /\ waived' = (waived /\ user' = user)
  /\ resetJob' = [resetJob EXCEPT !.state = "ran"]
  /\ UNCHANGED <<unlockJobs, at, my>>

\* removeOnComplete.
FinishReset ==
  /\ resetJob # None
  /\ resetJob.state = "ran"
  /\ resetJob' = None
  /\ UNCHANGED <<user, unlockJobs, at, my, waived>>

\* A job that failed its last attempt stays under its id, and in the dead letters.
ResetFails ==
  /\ resetJob # None
  /\ resetJob.state \in {"active", "ran"}
  /\ \/ resetJob' = [resetJob EXCEPT !.state = "delayed", !.delay = 1]
     \/ resetJob' = [resetJob EXCEPT !.state = "failed"]
  /\ UNCHANGED <<user, unlockJobs, at, my, waived>>

\* removeOnFail: kept for days, then gone.
DropFailedReset ==
  /\ resetJob # None
  /\ resetJob.state = "failed"
  /\ resetJob' = None
  /\ UNCHANGED <<user, unlockJobs, at, my, waived>>

-----------------------------------------------------------------------------
(* The administrator, the deaths of logins, and time. *)

\* updateUser: isLocked, lockReason and failedLoginAttempts of the request.
AdminUpdate ==
  /\ \E isLocked \in BOOLEAN \cup {None}, reason \in {"ADMIN_LOCK", "FAILED_ATTEMPTS"},
        count \in GivenCounts \cup {None} :
       LET locked == IF isLocked = None THEN user
                     ELSE IF isLocked
                     THEN [user EXCEPT !.isLocked = TRUE, !.lockReason = reason,
                                       !.lockedUntil = None]
                     ELSE Unlocked
       IN  /\ user' = IF count = None THEN locked
                      ELSE [locked EXCEPT !.failedLoginAttempts = count]
           /\ waived' = IF count # None THEN TRUE
                        ELSE IF isLocked = FALSE THEN FALSE ELSE waived
  /\ UNCHANGED <<unlockJobs, resetJob, at, my>>

Die(r) ==
  /\ at[r] # "idle"
  /\ Leave(r)
  /\ waived' = (waived \/ at[r] \in {"lock", "getJob", "remove", "add"})
  /\ UNCHANGED <<user, unlockJobs, resetJob>>

Less(delay) == IF delay = None \/ delay = 0 THEN delay ELSE delay - 1

Tick ==
  /\ user' = [user EXCEPT !.lockedUntil = Less(@)]
  /\ unlockJobs' = {Less(delay) : delay \in unlockJobs}
  /\ resetJob' = IF resetJob = None THEN None ELSE [resetJob EXCEPT !.delay = Less(@)]
  /\ my' = [a \in Actors |-> [my[a] EXCEPT !.ends = Less(@)]]
  /\ UNCHANGED <<at, waived>>

-----------------------------------------------------------------------------
Init ==
  /\ user = Unlocked
  /\ unlockJobs = {}
  /\ resetJob = None
  /\ at = [a \in Actors |-> "idle"]
  /\ my = [a \in Actors |-> Blank]
  /\ waived = FALSE

LoginStep(r) ==
  \/ Login(r) \/ CheckLock(r) \/ Accept(r) \/ Increment(r)
  \/ LockAccount(r) \/ ScheduleUnlock(r)
  \/ FindPending(r) \/ RemovePending(r) \/ AddReset(r)
  \/ Die(r)

WorkerStep(w) == StartUnlock(w) \/ StartSweep(w) \/ UnlockFails(w)

ResetStep == StartReset \/ ForgetFailures \/ FinishReset
             \/ ResetFails \/ DropFailedReset

Next ==
  \/ \E r \in Requests : LoginStep(r)
  \/ \E w \in Workers : WorkerStep(w)
  \/ \E a \in Actors : UnlockRead(a) \/ UnlockWrite(a)
  \/ ResetStep
  \/ AdminUpdate
  \/ Tick

Spec == Init /\ [][Next]_vars

(* Time passes; a worker goes on with what it holds; the sweep comes round    *)
(* again and again; and the database is not down at every attempt.            *)
Fairness ==
  /\ WF_vars(Tick)
  /\ \A w \in Workers :
       /\ WF_vars(StartUnlock(w))
       /\ SF_vars(StartSweep(w))
       /\ SF_vars(UnlockRead(w))
       /\ SF_vars(UnlockWrite(w))

FairSpec == Spec /\ Fairness

-----------------------------------------------------------------------------
TypeOK ==
  /\ user \in UserRow
  /\ unlockJobs \subseteq Delays
  /\ resetJob \in ResetJob \cup {None}
  /\ at \in [Actors -> Places]
  /\ my \in [Actors -> Locals]
  /\ waived \in BOOLEAN

\* However many failed logins race, the counter never stays at the threshold on an
\* account that is open: it is locked, or a login is about to lock it.  (An
\* administrator may set the counter there, and the login that owed the lock may
\* have died: then the next failure locks.)
LockedAtThreshold ==
  user.failedLoginAttempts >= maxAttempts =>
    \/ user.isLocked
    \/ \E r \in Requests : at[r] = "lock"
    \/ waived

\* No unlock job, sweep or login lifts a lock before its end, nor ever the lock of an
\* administrator, whatever they read before the lock was taken.
LockHolds ==
  [][user.isLocked /\ ~user'.isLocked => user.lockedUntil = 0 \/ AdminUpdate]_vars

\* A lock after failed logins ends, even when its own unlock job was never added, was
\* lost or failed for good: the sweep lifts it.
LocksEnd ==
  user.isLocked /\ user.lockedUntil # None ~> ~user.isLocked \/ user.lockedUntil = None
=============================================================================
