--------------------------- MODULE LockoutProofs ---------------------------
(***************************************************************************)
(* Theorems about Lockout, for any numbers of logins and workers, any      *)
(* threshold and any periods: an account at the threshold is locked, and   *)
(* no login, job or sweep lifts a lock before its end.                     *)
(***************************************************************************)
EXTENDS Lockout, TLAPS

\* What is left of the lock a login took is no more than a lock lasts.
EndsBounded == \A a \in Actors : my[a].ends <= lockDuration

IInv == TypeOK /\ EndsBounded /\ LockedAtThreshold

-----------------------------------------------------------------------------
(* What the helpers give. *)

LEMMA ConstantFacts ==
  /\ maxAttempts \in Nat /\ maxAttempts >= 1 /\ maxAttempts <= MaxFailed
  /\ MaxFailed \in Nat /\ 0 \in Counts
  /\ lockDuration \in Delays /\ lockDuration + 1 \in Delays
  /\ resetAttemptsPeriod \in Delays /\ 0 \in Delays /\ 1 \in Delays
  /\ Delays \subseteq Nat /\ None \notin Delays /\ Counts \subseteq Nat
  /\ Requests \subseteq Actors /\ Workers \subseteq Actors
  /\ None \notin Int
BY LockoutAssumption DEF Delays, Counts, Actors

LEMMA BlankType == Blank \in Locals
BY ConstantFacts DEF Blank, Locals

LEMMA UnlockedType == Unlocked \in UserRow /\ Unlocked.failedLoginAttempts = 0
                      /\ ~Unlocked.isLocked
BY ConstantFacts DEF Unlocked, UserRow

\* A period that is counted down stays a period.
LEMMA LessType == ASSUME NEW d \in Delays PROVE Less(d) \in Delays
BY LockoutAssumption DEF Less, Delays

LEMMA LeaveType ==
  ASSUME TypeOK, NEW a \in Actors, Leave(a)
  PROVE  /\ at' \in [Actors -> Places] /\ my' \in [Actors -> Locals]
         /\ at'[a] = "idle"
         /\ \A b \in Actors \ {a} : at'[b] = at[b]
BY BlankType DEF TypeOK, Leave, Places

\* What the administrator's change may leave behind: a counter the change itself set, a
\* locked account, a cleared one, or the counter and lock as they were.
LEMMA AdminEffect ==
  ASSUME TypeOK, AdminUpdate
  PROVE  /\ user' \in UserRow /\ waived' \in BOOLEAN
         /\ \/ waived' \/ user'.isLocked \/ user'.failedLoginAttempts = 0
            \/ user' = user /\ waived' = waived
<1>1. PICK isLocked \in BOOLEAN \cup {None}, reason \in {"ADMIN_LOCK", "FAILED_ATTEMPTS"},
           count \in GivenCounts \cup {None} :
        LET locked == IF isLocked = None THEN user
                      ELSE IF isLocked
                      THEN [user EXCEPT !.isLocked = TRUE, !.lockReason = reason,
                                        !.lockedUntil = None]
                      ELSE Unlocked
        IN  /\ user' = IF count = None THEN locked
                       ELSE [locked EXCEPT !.failedLoginAttempts = count]
            /\ waived' = IF count # None THEN TRUE
                         ELSE IF isLocked = FALSE THEN FALSE ELSE waived
  BY DEF AdminUpdate
<1> DEFINE locked == IF isLocked = None THEN user
                     ELSE IF isLocked
                     THEN [user EXCEPT !.isLocked = TRUE, !.lockReason = reason,
                                       !.lockedUntil = None]
                     ELSE Unlocked
<1>2. /\ locked \in UserRow
      /\ isLocked = None => locked = user
      /\ isLocked = TRUE => locked.isLocked
      /\ isLocked = FALSE => locked.failedLoginAttempts = 0
  <2>1. CASE isLocked = None
    BY <2>1, LockoutAssumption DEF TypeOK
  <2>2. CASE isLocked = TRUE
    BY <2>2, LockoutAssumption DEF TypeOK, UserRow
  <2>3. CASE isLocked = FALSE
    BY <2>3, LockoutAssumption, UnlockedType
  <2> QED BY <2>1, <2>2, <2>3
<1>3. CASE count = None
  BY <1>1, <1>2, <1>3, LockoutAssumption DEF TypeOK
<1>4. CASE count # None
  <2>1. count \in Counts
    BY <1>4, LockoutAssumption DEF Counts
  <2> QED
    BY <1>1, <1>2, <1>4, <2>1 DEF UserRow
<1> QED BY <1>3, <1>4

-----------------------------------------------------------------------------
\* The variables keep their types.
LEMMA TypeStep == TypeOK /\ EndsBounded /\ [Next]_vars => TypeOK'
<1> SUFFICES ASSUME TypeOK, EndsBounded, [Next]_vars PROVE TypeOK'
  OBVIOUS
<1> USE ConstantFacts
<1>1. ASSUME NEW r \in Requests, Login(r) PROVE TypeOK'
  BY <1>1 DEF TypeOK, Login, Go, Places
<1>2. ASSUME NEW r \in Requests, CheckLock(r) PROVE TypeOK'
  <2>1. CASE Leave(r)
    BY <1>2, <2>1, LeaveType DEF TypeOK, CheckLock
  <2>2. CASE ~Leave(r)
    BY <1>2, <2>2 DEF TypeOK, CheckLock, Go, Places, Locals
  <2> QED BY <2>1, <2>2
<1>3. ASSUME NEW r \in Requests, Accept(r) PROVE TypeOK'
  <2>1. user' \in UserRow /\ waived' \in BOOLEAN
    BY <1>3 DEF TypeOK, Accept, UserRow
  <2> QED
    BY <1>3, <2>1, LeaveType DEF TypeOK, Accept
<1>4. ASSUME NEW r \in Requests, Increment(r) PROVE TypeOK'
  <2> DEFINE count == user.failedLoginAttempts + 1
  <2>1. count \in Counts
    BY <1>4 DEF TypeOK, Increment, UserRow, Counts
  <2>2. user' \in UserRow
    BY <1>4, <2>1 DEF TypeOK, Increment, UserRow
  <2>3. [Blank EXCEPT !.count = count] \in Locals
    BY <2>1 DEF Blank, Locals
  <2>4. my' \in [Actors -> Locals]
    BY <1>4, <2>3, BlankType DEF TypeOK, Increment
  <2> QED
    BY <1>4, <2>2, <2>4 DEF TypeOK, Increment, Go, Places
<1>5. ASSUME NEW r \in Requests, LockAccount(r) PROVE TypeOK'
  <2>1. CASE user.isLocked
    BY <1>5, <2>1, LeaveType DEF TypeOK, LockAccount
  <2>2. CASE ~user.isLocked
    <3>1. user' \in UserRow
      BY <1>5, <2>2 DEF TypeOK, LockAccount, UserRow
    <3>2. my' \in [Actors -> Locals]
      BY <1>5, <2>2 DEF TypeOK, LockAccount, Locals
    <3> QED
      BY <1>5, <2>2, <3>1, <3>2 DEF TypeOK, LockAccount, Go, Places
  <2> QED BY <2>1, <2>2
<1>6. ASSUME NEW r \in Requests, ScheduleUnlock(r) PROVE TypeOK'
  <2>1. CASE my[r].ends = 0
    BY <1>6, <2>1 DEF TypeOK, ScheduleUnlock, Go, Places
  <2>2. CASE my[r].ends # 0
    <3>1. my[r].ends + 1 \in Delays
      BY LockoutAssumption DEF TypeOK, EndsBounded, Locals, Delays
    <3> QED
      BY <1>6, <2>2, <3>1, LeaveType DEF TypeOK, ScheduleUnlock
  <2> QED BY <2>1, <2>2
<1>7. ASSUME NEW r \in Requests, FindPending(r) PROVE TypeOK'
  BY <1>7 DEF TypeOK, FindPending, Go, Places
<1>8. ASSUME NEW r \in Requests, RemovePending(r) PROVE TypeOK'
  BY <1>8 DEF TypeOK, RemovePending, Go, Places
<1>9. ASSUME NEW r \in Requests, AddReset(r) PROVE TypeOK'
  BY <1>9, LeaveType DEF TypeOK, AddReset, ResetJob, Locals
<1>10. ASSUME NEW r \in Requests, Die(r) PROVE TypeOK'
  BY <1>10, LeaveType DEF TypeOK, Die
<1>11. ASSUME NEW w \in Workers, StartUnlock(w) PROVE TypeOK'
  BY <1>11 DEF TypeOK, StartUnlock, Go, Places, Locals
<1>12. ASSUME NEW w \in Workers, StartSweep(w) PROVE TypeOK'
  BY <1>12 DEF TypeOK, StartSweep, Go, Places
<1>13. ASSUME NEW w \in Workers, UnlockFails(w) PROVE TypeOK'
  BY <1>13, LeaveType DEF TypeOK, UnlockFails
<1>14. ASSUME NEW a \in Actors, UnlockRead(a) PROVE TypeOK'
  <2>1. CASE user.isLocked
    BY <1>14, <2>1 DEF TypeOK, UnlockRead, Go, Places
  <2>2. CASE ~user.isLocked
    BY <1>14, <2>2, LeaveType DEF TypeOK, UnlockRead
  <2> QED BY <2>1, <2>2
<1>15. ASSUME NEW a \in Actors, UnlockWrite(a) PROVE TypeOK'
  <2>1. user' \in UserRow /\ waived' \in BOOLEAN
    BY <1>15, UnlockedType DEF TypeOK, UnlockWrite
  <2>2. at' \in [Actors -> Places] /\ my' \in [Actors -> Locals]
    <3>1. CASE Leave(a)
      BY <3>1, LeaveType
    <3>2. CASE ~Leave(a)
      BY <1>15, <3>2, BlankType DEF TypeOK, UnlockWrite, Go, Places
    <3> QED BY <3>1, <3>2
  <2> QED
    BY <1>15, <2>1, <2>2 DEF TypeOK, UnlockWrite
<1>16. CASE StartReset
  BY <1>16 DEF TypeOK, StartReset, ResetJob
<1>17. CASE ForgetFailures
  BY <1>17 DEF TypeOK, ForgetFailures, ResetJob, UserRow
<1>18. CASE FinishReset
  BY <1>18 DEF TypeOK, FinishReset
<1>19. CASE ResetFails
  BY <1>19 DEF TypeOK, ResetFails, ResetJob
<1>20. CASE DropFailedReset
  BY <1>20 DEF TypeOK, DropFailedReset
<1>21. CASE AdminUpdate
  BY <1>21, AdminEffect DEF TypeOK, AdminUpdate
<1>22. CASE Tick
  <2>1. user' \in UserRow
    BY <1>22, LessType DEF TypeOK, Tick, UserRow, Less
  <2>2. unlockJobs' \subseteq Delays
    BY <1>22, LessType DEF TypeOK, Tick
  <2>3. resetJob' \in ResetJob \cup {None}
    BY <1>22, LessType DEF TypeOK, Tick, ResetJob
  <2>4. my' \in [Actors -> Locals]
    BY <1>22, LessType DEF TypeOK, Tick, Locals
  <2> QED
    BY <1>22, <2>1, <2>2, <2>3, <2>4 DEF TypeOK, Tick
<1>23. CASE UNCHANGED vars
  BY <1>23 DEF TypeOK, vars
<1> QED
  BY <1>1, <1>2, <1>3, <1>4, <1>5, <1>6, <1>7, <1>8, <1>9, <1>10, <1>11, <1>12,
     <1>13, <1>14, <1>15, <1>16, <1>17, <1>18, <1>19, <1>20, <1>21, <1>22, <1>23
  DEF Next, LoginStep, WorkerStep, ResetStep

\* What a login has left of the lock it took never grows.
LEMMA EndsStep == TypeOK /\ EndsBounded /\ [Next]_vars => EndsBounded'
<1> SUFFICES ASSUME TypeOK, EndsBounded, [Next]_vars PROVE EndsBounded'
  OBVIOUS
<1>1. CASE my' = my
  BY <1>1 DEF EndsBounded
<1>2. ASSUME NEW a \in Actors, Leave(a) PROVE EndsBounded'
  BY <1>2, LockoutAssumption DEF EndsBounded, TypeOK, Leave, Blank
<1>3. ASSUME NEW a \in Actors, NEW l \in Locals, l.ends <= lockDuration,
             my' = [my EXCEPT ![a] = l]
      PROVE  EndsBounded'
  BY <1>3 DEF EndsBounded, TypeOK
<1>4. Blank.ends <= lockDuration
  BY LockoutAssumption DEF Blank
<1>5. ASSUME NEW r \in Requests, LoginStep(r) PROVE EndsBounded'
  <2> r \in Actors
    BY DEF Actors
  <2>1. CASE CheckLock(r)
    <3> DEFINE l == [my[r] EXCEPT !.back = "verify"]
    <3>1. l \in Locals /\ l.ends <= lockDuration
      BY DEF TypeOK, Locals, EndsBounded
    <3>2. my' = my \/ my' = [my EXCEPT ![r] = l] \/ Leave(r)
      BY <2>1 DEF CheckLock, TypeOK
    <3> HIDE DEF l
    <3> QED
      BY <1>1, <1>2, <1>3, <3>1, <3>2
  <2>2. CASE Increment(r)
    <3> DEFINE l == my'[r]
    <3>1. user.failedLoginAttempts + 1 \in Counts
      BY <2>2, ConstantFacts DEF TypeOK, Increment, UserRow, Counts
    <3>2. my' = [my EXCEPT ![r] = l] /\ l \in Locals /\ l.ends <= lockDuration
      BY <2>2, <3>1, <1>4, ConstantFacts DEF Increment, TypeOK, Blank, Locals
    <3> HIDE DEF l
    <3> QED
      BY <1>3, <3>2
  <2>3. CASE LockAccount(r)
    <3> DEFINE l == [my[r] EXCEPT !.ends = lockDuration]
    <3>1. l \in Locals /\ l.ends <= lockDuration
      BY ConstantFacts, LockoutAssumption DEF TypeOK, Locals
    <3>2. my' = [my EXCEPT ![r] = l] \/ Leave(r)
      BY <2>3 DEF LockAccount, TypeOK
    <3> HIDE DEF l
    <3> QED
      BY <1>2, <1>3, <3>1, <3>2
  <2>4. CASE Login(r) \/ Accept(r) \/ ScheduleUnlock(r) \/ FindPending(r)
             \/ RemovePending(r) \/ AddReset(r) \/ Die(r)
    BY <1>1, <1>2, <2>4
    DEF Login, Accept, ScheduleUnlock, FindPending, RemovePending, AddReset, Die
  <2> QED BY <1>5, <2>1, <2>2, <2>3, <2>4 DEF LoginStep
<1>6. ASSUME NEW w \in Workers, WorkerStep(w) PROVE EndsBounded'
  <2> w \in Actors
    BY DEF Actors
  <2> DEFINE l == [my[w] EXCEPT !.job = TRUE]
  <2>1. l \in Locals /\ l.ends <= lockDuration
    BY DEF TypeOK, Locals, EndsBounded
  <2>2. my' = my \/ my' = [my EXCEPT ![w] = l] \/ Leave(w)
    BY <1>6 DEF WorkerStep, StartUnlock, StartSweep, UnlockFails, TypeOK
  <2> HIDE DEF l
  <2> QED
    BY <1>1, <1>2, <1>3, <2>1, <2>2
<1>7. ASSUME NEW a \in Actors, UnlockRead(a) \/ UnlockWrite(a) PROVE EndsBounded'
  BY <1>1, <1>2, <1>3, <1>4, <1>7, BlankType DEF UnlockRead, UnlockWrite
<1>8. CASE Tick
  <2> SUFFICES ASSUME NEW a \in Actors PROVE my'[a].ends <= lockDuration
    BY DEF EndsBounded
  <2>1. my[a].ends \in Nat /\ my[a].ends <= lockDuration
    BY ConstantFacts DEF TypeOK, Locals, EndsBounded
  <2>2. my'[a].ends = Less(my[a].ends)
    BY <1>8 DEF Tick, TypeOK, Locals
  <2> QED
    BY <2>1, <2>2, LockoutAssumption DEF Less
<1> QED
  BY <1>1, <1>5, <1>6, <1>7, <1>8
  DEF Next, ResetStep, StartReset, ForgetFailures, FinishReset, ResetFails,
      DropFailedReset, AdminUpdate, vars

-----------------------------------------------------------------------------
\* An increment that reaches the threshold sends its login to the lock; who leaves that
\* place leaves a locked account behind, or dies; and what lowers the lock clears the
\* counter.
LEMMA ThresholdStep == IInv /\ [Next]_vars => LockedAtThreshold'
<1> SUFFICES ASSUME TypeOK, LockedAtThreshold, [Next]_vars PROVE LockedAtThreshold'
  BY DEF IInv
<1> USE ConstantFacts
<1>1. ASSUME user' = user, waived => waived',
             \A r \in Requests : at[r] = "lock" => at'[r] = "lock"
      PROVE  LockedAtThreshold'
  BY <1>1 DEF LockedAtThreshold
<1>2. ASSUME user'.failedLoginAttempts = 0 \/ user'.isLocked PROVE LockedAtThreshold'
  BY <1>2 DEF LockedAtThreshold
<1>3. ASSUME NEW a \in Actors, at[a] # "lock", user' = user, waived => waived',
             (\E place \in Places : Go(a, place)) \/ Leave(a)
      PROVE  LockedAtThreshold'
  BY <1>1, <1>3 DEF Go, Leave, TypeOK
<1>4. ASSUME NEW r \in Requests, Accept(r) PROVE LockedAtThreshold'
  BY <1>2, <1>3, <1>4 DEF Accept, TypeOK, UserRow
<1>5. ASSUME NEW r \in Requests, Increment(r) PROVE LockedAtThreshold'
  <2> DEFINE count == user.failedLoginAttempts + 1
  <2>1. user'.failedLoginAttempts = count /\ count \in Nat
        /\ waived' = (waived /\ count < maxAttempts)
    BY <1>5 DEF Increment, TypeOK, UserRow
  <2>2. CASE count >= maxAttempts
    BY <1>5, <2>1, <2>2 DEF Increment, TypeOK, Go, LockedAtThreshold
  <2>3. CASE ~(count >= maxAttempts)
    BY <2>1, <2>3 DEF LockedAtThreshold
  <2> QED BY <2>2, <2>3
<1>6. ASSUME NEW r \in Requests, LockAccount(r) PROVE LockedAtThreshold'
  BY <1>2, <1>6 DEF LockAccount, TypeOK, UserRow
<1>7. ASSUME NEW r \in Requests, Die(r) PROVE LockedAtThreshold'
  <2>1. CASE at[r] = "lock"
    BY <1>7, <2>1 DEF Die, LockedAtThreshold
  <2>2. CASE at[r] # "lock"
    BY <1>3, <1>7, <2>2 DEF Die
  <2> QED BY <2>1, <2>2
<1>8. ASSUME NEW r \in Requests,
             \/ Login(r) \/ CheckLock(r) \/ ScheduleUnlock(r)
             \/ FindPending(r) \/ RemovePending(r) \/ AddReset(r)
      PROVE  LockedAtThreshold'
  BY <1>3, <1>8
  DEF Login, CheckLock, ScheduleUnlock, FindPending, RemovePending, AddReset, Places
<1>9. ASSUME NEW w \in Workers, WorkerStep(w) PROVE LockedAtThreshold'
  BY <1>3, <1>9 DEF WorkerStep, StartUnlock, StartSweep, UnlockFails, Places
<1>10. ASSUME NEW a \in Actors, UnlockRead(a) PROVE LockedAtThreshold'
  BY <1>3, <1>10 DEF UnlockRead, Places
<1>11. ASSUME NEW a \in Actors, UnlockWrite(a) PROVE LockedAtThreshold'
  BY <1>2, <1>3, <1>11, UnlockedType DEF UnlockWrite, Places
<1>12. CASE ForgetFailures
  BY <1>1, <1>2, <1>12 DEF ForgetFailures, TypeOK, UserRow
<1>13. CASE StartReset \/ FinishReset \/ ResetFails \/ DropFailedReset
  BY <1>1, <1>13 DEF StartReset, FinishReset, ResetFails, DropFailedReset
<1>14. CASE AdminUpdate
  <2>1. at' = at
    BY <1>14 DEF AdminUpdate
  <2> QED
    BY <1>1, <1>2, <1>14, <2>1, AdminEffect DEF LockedAtThreshold
<1>15. CASE Tick
  BY <1>15 DEF Tick, TypeOK, UserRow, LockedAtThreshold
<1>16. CASE UNCHANGED vars
  BY <1>1, <1>16 DEF vars
<1> QED
  BY <1>4, <1>5, <1>6, <1>7, <1>8, <1>9, <1>10, <1>11, <1>12, <1>13, <1>14, <1>15,
     <1>16
  DEF Next, LoginStep, ResetStep

THEOREM Invariance == Spec => []IInv
<1>1. Init => IInv
  <2> SUFFICES ASSUME Init PROVE IInv
    OBVIOUS
  <2>1. TypeOK
    BY ConstantFacts, BlankType, UnlockedType DEF Init, TypeOK, Places
  <2>2. EndsBounded
    BY ConstantFacts DEF Init, EndsBounded, Blank
  <2>3. LockedAtThreshold
    BY ConstantFacts, UnlockedType DEF Init, LockedAtThreshold
  <2> QED BY <2>1, <2>2, <2>3 DEF IInv
<1>2. IInv /\ [Next]_vars => IInv'
  BY TypeStep, EndsStep, ThresholdStep DEF IInv
<1> QED BY <1>1, <1>2, PTL DEF Spec

\* The variables of the lockout keep their types, for any numbers of logins and workers.
THEOREM TypeCorrect == Spec => []TypeOK
BY Invariance, PTL DEF IInv

\* However many failed logins race, an account whose counter is at the threshold is locked
\* or about to be (recordFailedAttempt, lockAccount).
THEOREM ThresholdLocks == Spec => []LockedAtThreshold
BY Invariance, PTL DEF IInv

-----------------------------------------------------------------------------
\* Only the conditional UPDATE of unlockAccount and the administrator lift a lock, and
\* that UPDATE only one whose time is over.
LEMMA HoldStep ==
  TypeOK /\ [Next]_vars =>
    (user.isLocked /\ ~user'.isLocked => user.lockedUntil = 0 \/ AdminUpdate)
<1> SUFFICES ASSUME TypeOK, [Next]_vars, user.isLocked, ~user'.isLocked
             PROVE  user.lockedUntil = 0 \/ AdminUpdate
  OBVIOUS
<1>1. \A u : (\E n : u = [user EXCEPT !.failedLoginAttempts = n]) => u.isLocked
  BY DEF TypeOK, UserRow
<1>2. ASSUME NEW r \in Requests PROVE ~LoginStep(r)
  <2>1. ~Accept(r) /\ ~Increment(r)
    BY <1>1 DEF Accept, Increment
  <2>2. ~LockAccount(r)
    BY DEF LockAccount
  <2> QED
    BY <2>1, <2>2
    DEF LoginStep, Login, CheckLock, ScheduleUnlock, FindPending, RemovePending,
        AddReset, Die
<1>3. ASSUME NEW w \in Workers PROVE ~WorkerStep(w)
  BY DEF WorkerStep, StartUnlock, StartSweep, UnlockFails
<1>4. ASSUME NEW a \in Actors, UnlockRead(a) \/ UnlockWrite(a) PROVE user.lockedUntil = 0
  BY <1>4 DEF UnlockRead, UnlockWrite, Expired
<1>5. ~ResetStep
  BY <1>1
  DEF ResetStep, StartReset, ForgetFailures, FinishReset, ResetFails, DropFailedReset
<1>6. ~Tick
  BY DEF Tick, TypeOK, UserRow
<1>7. ~UNCHANGED vars
  BY DEF vars
<1> QED
  BY <1>2, <1>3, <1>4, <1>5, <1>6, <1>7 DEF Next

\* No unlock job, sweep or login lifts a lock before its end, nor ever the lock of an
\* administrator, whatever they read before it was taken.
THEOREM LocksHold == Spec => LockHolds
<1>1. Spec => [][user.isLocked /\ ~user'.isLocked
                   => user.lockedUntil = 0 \/ AdminUpdate]_vars
  BY TypeCorrect, HoldStep, PTL DEF Spec
<1> QED BY <1>1, PTL DEF LockHolds
=============================================================================
