---------------------------- MODULE CircuitBreaker ----------------------------
(***************************************************************************)
(* The circuit breaker of one skill (src/src/engine/circuit-breaker.ts)    *)
(* and the calls that run under it.  executeRecursive calls check() before *)
(* a call starts and recordSuccess() or recordFailure() when it ends; any  *)
(* number of calls of the skill may be in flight between the two, so the   *)
(* state a call is judged under need not be the one it was admitted under. *)
(*                                                                         *)
(* Time is kept as the time elapsed since the last recorded failure,       *)
(* saturated at recoveryTimeMs: check() compares nothing else.  Before the *)
(* first failure lastFailureTime is 0, which Date.now() exceeds by decades.*)
(***************************************************************************)
EXTENDS Integers, FiniteSets

CONSTANTS Callers,             \* the calls of the skill that may be in flight
          FailureThreshold,    \* config.failureThreshold
          RecoveryTime,        \* config.recoveryTimeMs, in ticks
          HalfOpenRequests,    \* config.halfOpenRequests
          RateMinRequests,     \* 20 in the code
          RatePercent,         \* 95 in the code
          MaxRequests,         \* bound of the model: calls recorded in a run
          MaxSlow              \* bound of the model: slow calls among them

ASSUME BreakerConfig ==
  /\ FailureThreshold \in Nat \ {0}
  /\ RecoveryTime \in Nat \ {0}
  /\ HalfOpenRequests \in Nat \ {0}
  /\ RateMinRequests \in Nat \ {0}
  /\ RatePercent \in 0..100
  /\ MaxRequests \in Nat
  /\ MaxSlow \in Nat

VARIABLES
  state,                \* circuit.state
  consecutiveFailures,  \* circuit.consecutiveFailures
  elapsed,              \* min(now - circuit.lastFailureTime, recoveryTimeMs)
  halfOpenSuccesses,    \* circuit.halfOpenSuccesses
  totalRequests,        \* circuit.totalRequests
  totalSuccesses,       \* circuit.totalSuccesses; the rest are totalFailures
  slowCalls,            \* circuit.slowCalls
  call,                 \* per caller: what it is doing (see CallStates)
  okRun                 \* history: successes since the last recorded failure,
                        \* saturated at HalfOpenRequests

circuit == <<state, consecutiveFailures, elapsed, halfOpenSuccesses,
             totalRequests, totalSuccesses, slowCalls>>
vars == <<circuit, call, okRun>>

CircuitStates == {"CLOSED", "OPEN", "HALF_OPEN"}

\* A caller is idle, was refused by check(), or is in flight; one in flight
\* remembers the breaker state that admitted it.
Admitted   == {"CLOSED", "HALF_OPEN"}
CallStates == {"idle", "rejected"} \cup Admitted

InFlight(c) == call[c] \in Admitted

TypeOK ==
  /\ state \in CircuitStates
  /\ consecutiveFailures \in Nat
  /\ elapsed \in 0..RecoveryTime
  /\ halfOpenSuccesses \in Nat
  /\ totalRequests \in Nat
  /\ totalSuccesses \in 0..totalRequests
  /\ slowCalls \in 0..MaxSlow
  /\ call \in [Callers -> CallStates]
  /\ okRun \in 0..HalfOpenRequests

\* getOrCreate() creates the circuit in this state at its first use.
Init ==
  /\ state = "CLOSED"
  /\ consecutiveFailures = 0
  /\ elapsed = RecoveryTime
  /\ halfOpenSuccesses = 0
  /\ totalRequests = 0
  /\ totalSuccesses = 0
  /\ slowCalls = 0
  /\ call = [c \in Callers |-> "idle"]
  /\ okRun = 0

-----------------------------------------------------------------------------
Recovered == elapsed >= RecoveryTime

\* check() throws CircuitOpenError: OPEN and the recovery time has not passed.
CheckRejects(c) ==
  /\ ~InFlight(c)
  /\ state = "OPEN"
  /\ ~Recovered
  /\ call' = [call EXCEPT ![c] = "rejected"]
  /\ UNCHANGED <<circuit, okRun>>

\* Mutant of CheckHalfOpens: the count of probes is not restarted.
CheckHalfOpens_KeepsCount(c) ==
  /\ ~InFlight(c)
  /\ state = "OPEN"
  /\ Recovered
  /\ state' = "HALF_OPEN"
  /\ call' = [call EXCEPT ![c] = "HALF_OPEN"]
  /\ UNCHANGED <<consecutiveFailures, elapsed, halfOpenSuccesses,
                 totalRequests, totalSuccesses, slowCalls, okRun>>

\* check() moves an OPEN circuit whose recovery time has passed to HALF_OPEN
\* and lets this call through.
CheckHalfOpens(c) ==
  /\ ~InFlight(c)
  /\ state = "OPEN"
  /\ Recovered
  /\ state' = "HALF_OPEN"
  /\ halfOpenSuccesses' = 0
  /\ call' = [call EXCEPT ![c] = "HALF_OPEN"]
  /\ UNCHANGED <<consecutiveFailures, elapsed, totalRequests, totalSuccesses,
                 slowCalls, okRun>>

\* check() does nothing in the other two states: the call goes through.
CheckPasses(c) ==
  /\ ~InFlight(c)
  /\ state # "OPEN"
  /\ call' = [call EXCEPT ![c] = state]
  /\ UNCHANGED <<circuit, okRun>>

\* Mutant of RateRecovered: the minimum number of requests is forgotten.
RateRecovered_NoMinimum(successes, requests) ==
  requests > 0 /\ 2 * successes >= requests

\* "Success rate back to an acceptable level": totalSuccesses / totalRequests
\* >= 0.95 and at least 20 requests, read from the counters just incremented.
RateRecovered(successes, requests) ==
  /\ requests >= RateMinRequests
  /\ 100 * successes >= RatePercent * requests

\* What recordSuccess() leaves in state and halfOpenSuccesses.
AfterSuccess ==
  LET recovered == RateRecovered(totalSuccesses + 1, totalRequests + 1)
      quotaMet  == halfOpenSuccesses + 1 >= HalfOpenRequests
  IN \/ /\ \/ state = "CLOSED"
           \/ state = "OPEN" /\ ~recovered
        /\ UNCHANGED <<state, halfOpenSuccesses>>
     \/ /\ state = "HALF_OPEN"
        /\ halfOpenSuccesses' = halfOpenSuccesses + 1
        /\ state' = IF quotaMet THEN "CLOSED" ELSE "HALF_OPEN"
     \/ /\ state = "OPEN"
        /\ recovered
        /\ state' = "HALF_OPEN"
        /\ halfOpenSuccesses' = 0

\* A call slower than slowCallThresholdMs is counted, and nothing more.
CountSlow(slow) ==
  /\ slow => slowCalls < MaxSlow
  /\ slowCalls' = IF slow THEN slowCalls + 1 ELSE slowCalls

\* Mutant of CountSuccess: totalRequests is not counted.
CountSuccess_NotInTotal ==
  totalRequests' = totalRequests /\ totalSuccesses' = totalSuccesses + 1

CountSuccess ==
  totalRequests' = totalRequests + 1 /\ totalSuccesses' = totalSuccesses + 1

RecordSuccess(c, slow) ==
  /\ InFlight(c)
  /\ totalRequests < MaxRequests
  /\ CountSlow(slow)
  /\ CountSuccess
  /\ consecutiveFailures' = 0
  /\ AfterSuccess
  /\ call' = [call EXCEPT ![c] = "idle"]
  /\ okRun' = IF okRun < HalfOpenRequests THEN okRun + 1 ELSE okRun
  /\ UNCHANGED elapsed

\* Mutants of OpensAfterFailure: the threshold is off by one; a failed probe is
\* counted like any failure instead of opening the circuit at once.
OpensAfterFailure_OffByOne ==
  state = "HALF_OPEN" \/ consecutiveFailures >= FailureThreshold

OpensAfterFailure_ProbeCounted ==
  consecutiveFailures + 1 >= FailureThreshold

\* A failure re-opens a half-open circuit at once and opens any other when the
\* threshold is reached; an OPEN circuit stays OPEN but waits anew.
OpensAfterFailure ==
  state = "HALF_OPEN" \/ consecutiveFailures + 1 >= FailureThreshold

RecordFailure(c, slow) ==
  /\ InFlight(c)
  /\ totalRequests < MaxRequests
  /\ CountSlow(slow)
  /\ consecutiveFailures' = consecutiveFailures + 1
  /\ elapsed' = 0
  /\ totalRequests' = totalRequests + 1
  /\ state' = IF OpensAfterFailure THEN "OPEN" ELSE state
  /\ call' = [call EXCEPT ![c] = "idle"]
  /\ okRun' = 0
  /\ UNCHANGED <<halfOpenSuccesses, totalSuccesses>>

\* Time passes.
Tick ==
  /\ elapsed < RecoveryTime
  /\ elapsed' = elapsed + 1
  /\ UNCHANGED <<state, consecutiveFailures, halfOpenSuccesses,
                 totalRequests, totalSuccesses, slowCalls, call, okRun>>

Next ==
  \/ \E c \in Callers : \/ CheckRejects(c)
                        \/ CheckHalfOpens(c)
                        \/ CheckPasses(c)
                        \/ \E slow \in BOOLEAN : \/ RecordSuccess(c, slow)
                                                \/ RecordFailure(c, slow)
  \/ Tick

Spec == Init /\ [][Next]_vars

-----------------------------------------------------------------------------
(* Properties *)

\* Whatever order late answers arrive in, a circuit that lets calls through
\* unconditionally has seen fewer than failureThreshold failures in a row.
ClosedBelowThreshold ==
  state = "CLOSED" => consecutiveFailures < FailureThreshold

\* A half-open circuit is one that is still counting its probes: the count is
\* restarted on both ways into HALF_OPEN, so an old quota never carries over.
HalfOpenBelowQuota ==
  state = "HALF_OPEN" =>
    /\ halfOpenSuccesses < HalfOpenRequests
    /\ halfOpenSuccesses <= okRun

\* There are two ways out of OPEN, the recovery time of check() and the
\* success rate of recordSuccess(); a half-open circuit earned one of them,
\* and has not lost it since.
HalfOpenEarned ==
  state = "HALF_OPEN" =>
    \/ elapsed = RecoveryTime
    \/ /\ totalRequests >= RateMinRequests
       /\ 100 * totalSuccesses >= RatePercent * totalRequests

\* A tripped circuit closes only on halfOpenRequests successes in a row, with
\* no failure between them, whichever calls those successes belong to.
RecloseNeedsQuota ==
  [][state # "CLOSED" /\ state' = "CLOSED" => okRun' = HalfOpenRequests]_vars

\* What types/skill.ts says of slowCallThresholdMs: a call that takes longer is
\* regarded as a failure.  recordSuccess() counts it and goes on as for a success.
SlowCallIsFailure ==
  [][slowCalls' > slowCalls => totalSuccesses' = totalSuccesses]_vars
=============================================================================
