-------------------------------- MODULE Mail --------------------------------
(***************************************************************************)
(* Emails from the queue to SMTP: the jobs of email-queue, the processor   *)
(* that sends them behind a timeout and a circuit breaker, their retries,  *)
(* and the dead-letter queue (src/core/queues, src/infrastructure/email).  *)
(* The outbox, which adds the jobs, is the module Outbox.                  *)
(*                                                                         *)
(* There is one worker process; BullMQ's part - the states of a job, the   *)
(* count of its attempts, what becomes of the jobs of a process that died  *)
(* - is modelled from how the code uses it.                                *)
(***************************************************************************)
EXTENDS CircuitBreaker

CONSTANTS Jobs,
          Verify,         \* the call that verifies the connection when the process starts
          attempts,       \* DEFAULT_EMAIL_JOB_OPTIONS
          concurrency,
          maxStalled,     \* BullMQ's maxStalledCount
          MaxMailFaults   \* bound: crashes and jobs retried by hand

ASSUME JobsAssumption ==
  /\ Callers = Jobs \cup {Verify}
  /\ attempts \in Nat \ {0} /\ concurrency \in Nat \ {0}
  /\ maxStalled \in Nat /\ MaxMailFaults \in Nat

VARIABLES queue,        \* Redis: the jobs
          dead,         \* Redis: the jobs with an entry in the dead-letter queue
          up, run,      \* the process, and what it does with each job
          reports,      \* its failed events that are not handled yet
          accepted,     \* emails that SMTP has accepted
          unreported,   \* jobs whose last failure nobody could report (history)
          mailFaults

mail == <<queue, dead, up, run, reports, accepted, unreported, mailFaults>>
mailVars == <<bvars, mail>>

JobState == {"none", "waiting", "active", "delayed", "completed", "failed", "removed"}
Job == [state : JobState, made : Nat, stalled : Nat]

\* What the worker does with a job.
Place == {"idle", "rendering", "sending", "threw", "done"}

Running == {j \in Jobs : run[j] # "idle"}

Set(j, state) == queue' = [queue EXCEPT ![j].state = state]
Go(j, place) == run' = [run EXCEPT ![j] = place]

QueueEmail(j) ==
  /\ queue[j].state = "none"
  /\ Set(j, "waiting")
  /\ UNCHANGED <<bvars, dead, up, run, reports, accepted, unreported, mailFaults>>

Take(j) ==
  /\ up /\ queue[j].state = "waiting"
  /\ Cardinality(Running) < concurrency
  /\ Set(j, "active") /\ Go(j, "rendering")
  /\ UNCHANGED <<bvars, dead, up, reports, accepted, unreported, mailFaults>>

\* No template, no such type of job: before the breaker is asked.
RenderFails(j) ==
  /\ run[j] = "rendering"
  /\ Go(j, "threw")
  /\ UNCHANGED <<bvars, queue, dead, up, reports, accepted, unreported, mailFaults>>

Send(j) ==
  /\ run[j] = "rendering"
  /\ \/ Begin(j) /\ Go(j, "sending")
     \/ Refused /\ Go(j, "threw") /\ UNCHANGED bvars
  /\ UNCHANGED <<queue, dead, up, reports, accepted, unreported, mailFaults>>

Accept(j) == accepted' = accepted \cup {j}

\* Mutant: sendMail logs the error and returns.
FailQuietly(j) == Go(j, "done")

FailLoudly(j) == Go(j, "threw")

\* SMTP accepts the message in time; or rejects it, or the connection or the patience ends:
\* then it may have accepted it, or accept it yet.
SendEnds(j) ==
  /\ run[j] = "sending"
  /\ \/ End(j, TRUE) /\ Accept(j) /\ Go(j, "done")
     \/ End(j, FALSE) /\ (Accept(j) \/ UNCHANGED accepted) /\ FailLoudly(j)
  /\ UNCHANGED <<queue, dead, up, reports, unreported, mailFaults>>

Complete(j) ==
  /\ run[j] = "done"
  /\ Set(j, "completed") /\ Go(j, "idle")
  /\ UNCHANGED <<bvars, dead, up, reports, accepted, unreported, mailFaults>>

\* BullMQ counts the attempt, and emits the event.
Fail(j) ==
  LET made == queue[j].made + 1
  IN  /\ run[j] = "threw"
      /\ queue' = [queue EXCEPT ![j].made = made,
                                ![j].state = IF made >= attempts THEN "failed" ELSE "delayed"]
      /\ reports' = reports \cup {<<j, made>>}
      /\ Go(j, "idle")
      /\ UNCHANGED <<bvars, dead, up, accepted, unreported, mailFaults>>

\* Mutant: off by one.
FinalIfMore(made) == made > attempts

Final(made) == made >= attempts

\* onFailed; the add may fail, which is logged.
OnFailed(j, made) ==
  /\ <<j, made>> \in reports
  /\ reports' = reports \ {<<j, made>>}
  /\ \/ Final(made) /\ dead' = dead \cup {j} /\ UNCHANGED unreported
     \/ Final(made) /\ unreported' = unreported \cup {j} /\ UNCHANGED dead
     \/ ~Final(made) /\ UNCHANGED <<dead, unreported>>
  /\ UNCHANGED <<bvars, queue, up, run, accepted, mailFaults>>

BackoffEnds(j) ==
  /\ queue[j].state = "delayed"
  /\ Set(j, "waiting")
  /\ UNCHANGED <<bvars, dead, up, run, reports, accepted, unreported, mailFaults>>

\* retryJob: the attempts made stay counted, and so does the dead letter.
RetryJob(j) ==
  /\ queue[j].state = "failed"
  /\ mailFaults < MaxMailFaults /\ mailFaults' = mailFaults + 1
  /\ Set(j, "waiting")
  /\ UNCHANGED <<bvars, dead, up, run, reports, accepted, unreported>>

\* removeOnComplete and removeOnFail, cleanCompletedJobs and cleanFailedJobs; removeJob,
\* which takes any job but an active one.
Clean(j) ==
  /\ queue[j].state \in {"waiting", "delayed", "completed", "failed"}
  /\ Set(j, "removed")
  /\ UNCHANGED <<bvars, dead, up, run, reports, accepted, unreported, mailFaults>>

WorkerCrash ==
  /\ up /\ mailFaults < MaxMailFaults
  /\ mailFaults' = mailFaults + 1
  /\ up' = FALSE /\ Renew
  /\ run' = [j \in Jobs |-> "idle"]
  /\ reports' = {}
  /\ unreported' = unreported \cup {r[1] : r \in reports}
  /\ \E landed \in SUBSET {j \in Jobs : run[j] = "sending"} : accepted' = accepted \cup landed
  /\ UNCHANGED <<queue, dead>>

WorkerRestart ==
  /\ ~up /\ up' = TRUE
  /\ Begin(Verify)
  /\ UNCHANGED <<queue, dead, run, reports, accepted, unreported, mailFaults>>

Verified ==
  /\ \E ok \in BOOLEAN : End(Verify, ok)
  /\ UNCHANGED mail

\* The job of a process that died is found: it waits again, or has stalled too often and
\* fails for good, however many attempts are left.
Stall(j) ==
  /\ up /\ queue[j].state = "active" /\ run[j] = "idle"
  /\ \/ /\ queue[j].stalled < maxStalled
        /\ queue' = [queue EXCEPT ![j].state = "waiting", ![j].stalled = @ + 1]
        /\ UNCHANGED <<reports, unreported>>
     \/ /\ queue[j].stalled >= maxStalled
        /\ queue' = [queue EXCEPT ![j].state = "failed"]
        /\ reports' = reports \cup {<<j, queue[j].made>>}
        /\ unreported' = unreported \cup {j}
  /\ UNCHANGED <<bvars, dead, up, run, accepted, mailFaults>>

Tick == PassTime /\ UNCHANGED mail

-----------------------------------------------------------------------------
MailInit ==
  /\ breaker = New /\ calls = Idle /\ opened = 0 /\ passed = 0
  /\ queue = [j \in Jobs |-> [state |-> "none", made |-> 0, stalled |-> 0]]
  /\ dead = {} /\ up = FALSE /\ run = [j \in Jobs |-> "idle"] /\ reports = {}
  /\ accepted = {} /\ unreported = {} /\ mailFaults = 0

MailNext ==
  \/ \E j \in Jobs :
       \/ QueueEmail(j) \/ Take(j) \/ RenderFails(j) \/ Send(j) \/ SendEnds(j)
       \/ Complete(j) \/ Fail(j) \/ BackoffEnds(j) \/ RetryJob(j) \/ Clean(j) \/ Stall(j)
  \/ \E r \in reports : OnFailed(r[1], r[2])
  \/ WorkerCrash \/ WorkerRestart \/ Verified \/ Tick

MailSpec == MailInit /\ [][MailNext]_mailVars

-----------------------------------------------------------------------------
\* The variables have their types.
JobsTypeOK ==
  /\ queue \in [Jobs -> Job]
  /\ run \in [Jobs -> Place]
  /\ accepted \cup dead \cup unreported \subseteq Jobs /\ reports \subseteq Jobs \X Nat
  /\ up \in BOOLEAN /\ mailFaults \in 0..MaxMailFaults

MailTypeOK == BreakerTypeOK /\ JobsTypeOK

\* An email whose job is completed has been accepted by SMTP - through refusals of the
\* circuit, timeouts, crashes and retries.
CompletedWasSent == \A j \in Jobs : queue[j].state = "completed" => j \in accepted

\* A job that failed for good is in the dead-letter queue, is about to be, or is one that
\* could not be: the process or the add failed after BullMQ had moved it, or it stalled.
\* What is in the dead-letter queue has used up its attempts.
DeadLettered ==
  \A j \in Jobs :
    /\ queue[j].state = "failed" => \/ j \in dead \cup unreported
                                    \/ <<j, queue[j].made>> \in reports
    /\ j \in dead => queue[j].made >= attempts
=============================================================================
