--------------------------- MODULE CircuitBreaker ---------------------------
(***************************************************************************)
(* The circuit breaker around calls of SMTP, S3 and Redis                  *)
(* (src/shared/utils/resilience.ts).  A call is let through or refused,    *)
(* and ends well or not, at any later time: meanwhile the circuit may have *)
(* opened, been probed and closed.  Every change of state begins a new     *)
(* generation, and a call counts only in the one it began in.              *)
(*                                                                         *)
(* The breaker belongs to a process, and is new when that restarts.        *)
(***************************************************************************)
EXTENDS Naturals, FiniteSets

CONSTANTS Callers,            \* calls at a time
          failureThreshold,
          resetTimeout,       \* resetTimeoutMs, in ticks
          halfOpenSuccesses,
          halfOpenMaxProbes,
          NoCall

ASSUME OptionsAssumption ==
  /\ failureThreshold \in Nat \ {0} /\ resetTimeout \in Nat
  /\ halfOpenSuccesses \in Nat \ {0} /\ halfOpenMaxProbes \in Nat \ {0}

ASSUME CallersAssumption == IsFiniteSet(Callers)

VARIABLES breaker, calls,
          opened,   \* how often the circuit has opened (history)
          passed    \* successes of calls that began since then (history)

bvars == <<breaker, calls, opened, passed>>

CircuitState == {"CLOSED", "OPEN", "HALF_OPEN"}

\* left: until the next attempt.
Breaker == [state : CircuitState, generation : Nat, failures : Nat, successes : Nat,
            probes : Nat, left : Nat]

Call == [generation : Nat, probing : BOOLEAN, opened : Nat]

ASSUME NoCallAssumption == NoCall \notin Call

New == [state |-> "CLOSED", generation |-> 0, failures |-> 0, successes |-> 0,
        probes |-> 0, left |-> 0]

Enter(b, state) ==
  [state |-> state, generation |-> b.generation + 1,
   failures |-> IF state = "CLOSED" THEN 0 ELSE b.failures,
   successes |-> 0, probes |-> 0,
   left |-> IF state = "OPEN" THEN resetTimeout ELSE b.left]

OnSuccess(b) ==
  IF b.state # "HALF_OPEN" THEN [b EXCEPT !.failures = 0]
  ELSE IF b.successes + 1 >= halfOpenSuccesses THEN Enter(b, "CLOSED")
  ELSE [b EXCEPT !.failures = 0, !.successes = @ + 1]

OnFailure(b) ==
  IF b.state = "HALF_OPEN" \/ b.failures + 1 >= failureThreshold
  THEN Enter([b EXCEPT !.failures = @ + 1], "OPEN")
  ELSE [b EXCEPT !.failures = @ + 1]

\* A call that is made now finds the breaker in this state.
Found == IF breaker.state = "OPEN" /\ breaker.left = 0 THEN Enter(breaker, "HALF_OPEN")
                                                        ELSE breaker

Refused == \/ Found.state = "OPEN"
           \/ Found.state = "HALF_OPEN" /\ Found.probes >= halfOpenMaxProbes

Begin(c) ==
  LET probing == Found.state = "HALF_OPEN"
  IN  /\ calls[c] = NoCall
      /\ ~Refused
      /\ breaker' = IF probing THEN [Found EXCEPT !.probes = @ + 1] ELSE Found
      /\ calls' = [calls EXCEPT ![c] = [generation |-> Found.generation,
                                        probing |-> probing, opened |-> opened]]
      /\ UNCHANGED <<opened, passed>>

\* Mutant: a call counts whenever it ends.
AlwaysCounts(c) == calls[c] # NoCall

Counts(c) == calls[c].generation = breaker.generation

\* Mutant: the place of a probe is never given back.
Kept(b, c) == b

Released(b, c) ==
  IF calls[c].probing /\ calls[c].generation = b.generation THEN [b EXCEPT !.probes = @ - 1]
                                                            ELSE b

\* The call ends: the last of the changes, in one turn of the event loop.
End(c, ok) ==
  LET now == IF ~Counts(c) THEN breaker
             ELSE IF ok THEN OnSuccess(breaker) ELSE OnFailure(breaker)
      opens == now.state = "OPEN" /\ breaker.state # "OPEN"
  IN  /\ calls[c] # NoCall
      /\ breaker' = Released(now, c)
      /\ calls' = [calls EXCEPT ![c] = NoCall]
      /\ opened' = IF opens THEN opened + 1 ELSE opened
      /\ passed' = IF opens THEN 0
                   ELSE IF ok /\ calls[c].opened = opened THEN passed + 1 ELSE passed

PassTime ==
  /\ breaker.left > 0
  /\ breaker' = [breaker EXCEPT !.left = @ - 1]
  /\ UNCHANGED <<calls, opened, passed>>

Idle == [c \in Callers |-> NoCall]

\* The process ends, and with it its breaker and its calls.
Renew == breaker' = New /\ calls' = Idle /\ opened' = 0 /\ passed' = 0

BreakerInit == breaker = New /\ calls = Idle /\ opened = 0 /\ passed = 0

BreakerNext ==
  \/ \E c \in Callers : Begin(c)
  \/ \E c \in Callers, ok \in BOOLEAN : End(c, ok)
  \/ PassTime
  \/ Renew

BreakerSpec == BreakerInit /\ [][BreakerNext]_bvars

-----------------------------------------------------------------------------
BreakerTypeOK ==
  /\ breaker \in Breaker
  /\ calls \in [Callers -> Call \cup {NoCall}]
  /\ opened \in Nat /\ passed \in Nat

Current(c) == calls[c] # NoCall /\ calls[c].generation = breaker.generation
Probing == {c \in Callers : Current(c) /\ calls[c].probing}

\* The breaker counts the probes that are in flight, and those alone, whatever calls of
\* earlier generations come back in between: it lets no probe too many through, and never
\* refuses all calls for good.
ProbesAccounted ==
  /\ breaker.probes = Cardinality(Probing)
  /\ breaker.probes <= halfOpenMaxProbes
  /\ breaker.state # "HALF_OPEN" => Probing = {}

\* A circuit that has opened closes only after as many calls as halfOpenSuccesses, begun
\* since it opened, have ended well: "a slow success that started before the circuit
\* opened does not change the state".
ClosesOnProbes ==
  [][breaker.state # "CLOSED" /\ breaker'.state = "CLOSED" /\ breaker' # New
     => passed' >= halfOpenSuccesses]_bvars
=============================================================================
