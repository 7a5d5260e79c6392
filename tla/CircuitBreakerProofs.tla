------------------------- MODULE CircuitBreakerProofs -------------------------
(***************************************************************************)
(* The circuit breaker's invariants for every number of callers and every  *)
(* configuration.  The inductive invariant is the conjunction of the       *)
(* invariants themselves: HalfOpenBelowQuota ties the probe count to the   *)
(* run of successes, which is what RecloseNeedsQuota needs at the step     *)
(* that closes the circuit.                                                *)
(***************************************************************************)
EXTENDS CircuitBreaker, TLAPS

IInv == /\ TypeOK
        /\ ClosedBelowThreshold
        /\ HalfOpenBelowQuota
        /\ HalfOpenEarned

\* The rate test survives a success: the percentage is at most 100.
LEMMA RateGrows ==
  ASSUME NEW s \in Nat, NEW r \in Nat,
         100 * s >= RatePercent * r
  PROVE  100 * (s + 1) >= RatePercent * (r + 1)
<1>1. RatePercent \in Nat /\ RatePercent <= 100
  BY BreakerConfig
<1>2. RatePercent * (r + 1) = RatePercent * r + RatePercent
  BY <1>1
<1>3. 100 * (s + 1) = 100 * s + 100
  OBVIOUS
<1>4. RatePercent * r \in Int
  BY <1>1
<1> QED
  BY <1>1, <1>2, <1>3, <1>4

\* The invariant holds when the circuit is created.
LEMMA InitIInv == Init => IInv
BY BreakerConfig DEF Init, IInv, TypeOK, CircuitStates, CallStates,
   ClosedBelowThreshold, HalfOpenBelowQuota, HalfOpenEarned

\* check() preserves the invariant, whichever way it goes.
LEMMA CheckIInv ==
  ASSUME IInv, NEW c \in Callers,
         CheckRejects(c) \/ CheckHalfOpens(c) \/ CheckPasses(c)
  PROVE  IInv'
<1> USE BreakerConfig
<1> USE DEF IInv, TypeOK, ClosedBelowThreshold, HalfOpenBelowQuota, HalfOpenEarned,
        CircuitStates, CallStates, Admitted, circuit
<1>1. CASE CheckRejects(c)
  BY <1>1 DEF CheckRejects
<1>2. CASE CheckHalfOpens(c)
  BY <1>2 DEF CheckHalfOpens, Recovered
<1>3. CASE CheckPasses(c)
  BY <1>3 DEF CheckPasses
<1> QED
  BY <1>1, <1>2, <1>3

\* recordSuccess() preserves the invariant in each of the three states.
LEMMA SuccessIInv ==
  ASSUME IInv, NEW c \in Callers, NEW slow \in BOOLEAN, RecordSuccess(c, slow)
  PROVE  IInv'
<1> USE BreakerConfig
<1> USE DEF RecordSuccess, CountSuccess
<1>1. TypeOK'
  <2>1. /\ consecutiveFailures' \in Nat /\ elapsed' \in 0..RecoveryTime
        /\ totalRequests' \in Nat /\ totalSuccesses' \in 0..totalRequests'
        /\ okRun' \in 0..HalfOpenRequests
    BY DEF IInv, TypeOK
  <2>2. slowCalls' \in 0..MaxSlow
    BY DEF IInv, TypeOK, CountSlow
  <2>3. call' \in [Callers -> CallStates]
    BY DEF IInv, TypeOK, CallStates
  <2>4. state' \in CircuitStates /\ halfOpenSuccesses' \in Nat
    BY DEF IInv, TypeOK, AfterSuccess, CircuitStates
  <2> QED
    BY <2>1, <2>2, <2>3, <2>4 DEF TypeOK
<1>2. ClosedBelowThreshold'
  BY DEF ClosedBelowThreshold
<1>3. HalfOpenBelowQuota' /\ HalfOpenEarned'
  <2>1. CASE state = "CLOSED"
    <3>1. state' = "CLOSED"
      BY <2>1 DEF AfterSuccess
    <3> QED
      BY <3>1 DEF HalfOpenBelowQuota, HalfOpenEarned
  <2>2. CASE state = "HALF_OPEN"
    <3>1. HalfOpenBelowQuota'
      BY <2>2 DEF IInv, TypeOK, AfterSuccess, HalfOpenBelowQuota
    <3>2. CASE elapsed = RecoveryTime
      BY <3>1, <3>2 DEF HalfOpenEarned
    <3>3. CASE elapsed # RecoveryTime
      <4>1. /\ totalRequests >= RateMinRequests
            /\ 100 * totalSuccesses >= RatePercent * totalRequests
        BY <2>2, <3>3 DEF IInv, HalfOpenEarned
      <4>2. 100 * (totalSuccesses + 1) >= RatePercent * (totalRequests + 1)
        <5>1. totalSuccesses \in Nat /\ totalRequests \in Nat
          BY DEF IInv, TypeOK
        <5> QED
          BY <4>1, <5>1, RateGrows
      <4>3. totalRequests + 1 >= RateMinRequests
        BY <4>1 DEF IInv, TypeOK
      <4> QED
        BY <3>1, <4>2, <4>3 DEF HalfOpenEarned
    <3> QED
      BY <3>1, <3>2, <3>3
  <2>3. CASE state = "OPEN"
    BY <2>3 DEF IInv, TypeOK, AfterSuccess, RateRecovered,
       HalfOpenBelowQuota, HalfOpenEarned
  <2> QED
    BY <2>1, <2>2, <2>3 DEF IInv, TypeOK, CircuitStates
<1> QED
  BY <1>1, <1>2, <1>3 DEF IInv

\* recordFailure() preserves the invariant: it never leaves HALF_OPEN behind.
LEMMA FailureIInv ==
  ASSUME IInv, NEW c \in Callers, NEW slow \in BOOLEAN, RecordFailure(c, slow)
  PROVE  IInv'
<1> USE BreakerConfig
<1> USE DEF RecordFailure, OpensAfterFailure
<1>1. TypeOK'
  BY DEF IInv, TypeOK, CountSlow, CircuitStates, CallStates
<1>2. state' # "HALF_OPEN"
  BY DEF IInv, TypeOK, CircuitStates
<1>3. ClosedBelowThreshold'
  BY DEF IInv, TypeOK, ClosedBelowThreshold, CircuitStates
<1> QED
  BY <1>1, <1>2, <1>3 DEF IInv, HalfOpenBelowQuota, HalfOpenEarned

\* The passing of time preserves the invariant.
LEMMA TickIInv == ASSUME IInv, Tick PROVE IInv'
BY BreakerConfig DEF Tick, IInv, TypeOK, ClosedBelowThreshold, HalfOpenBelowQuota,
   HalfOpenEarned

\* Every step preserves the invariant.
LEMMA NextIInv == IInv /\ [Next]_vars => IInv'
<1> SUFFICES ASSUME IInv, [Next]_vars PROVE IInv'
  OBVIOUS
<1>1. ASSUME NEW c \in Callers,
             CheckRejects(c) \/ CheckHalfOpens(c) \/ CheckPasses(c)
      PROVE  IInv'
  BY <1>1, CheckIInv
<1>2. ASSUME NEW c \in Callers, NEW slow \in BOOLEAN, RecordSuccess(c, slow)
      PROVE  IInv'
  BY <1>2, SuccessIInv
<1>3. ASSUME NEW c \in Callers, NEW slow \in BOOLEAN, RecordFailure(c, slow)
      PROVE  IInv'
  BY <1>3, FailureIInv
<1>4. CASE Tick
  BY <1>4, TickIInv
<1>5. CASE UNCHANGED vars
  BY <1>5 DEF vars, circuit, IInv, TypeOK, ClosedBelowThreshold, HalfOpenBelowQuota,
     HalfOpenEarned
<1> QED
  BY <1>1, <1>2, <1>3, <1>4, <1>5 DEF Next

\* The inductive invariant holds of every behaviour of the breaker.
LEMMA SpecIInv == Spec => []IInv
BY InitIInv, NextIInv, PTL DEF Spec

\* Type correctness of the breaker, for any configuration.
THEOREM TypeCorrect == Spec => []TypeOK
<1>1. IInv => TypeOK
  BY DEF IInv
<1> QED
  BY <1>1, SpecIInv, PTL

\* A closed circuit has fewer consecutive failures than the threshold.
THEOREM ClosedIsBelowThreshold == Spec => []ClosedBelowThreshold
<1>1. IInv => ClosedBelowThreshold
  BY DEF IInv
<1> QED
  BY <1>1, SpecIInv, PTL

\* A half-open circuit is still counting probes, all of them since the last failure.
THEOREM HalfOpenIsBelowQuota == Spec => []HalfOpenBelowQuota
<1>1. IInv => HalfOpenBelowQuota
  BY DEF IInv
<1> QED
  BY <1>1, SpecIInv, PTL

\* A half-open circuit waited out the recovery time or has the success rate.
THEOREM HalfOpenIsEarned == Spec => []HalfOpenEarned
<1>1. IInv => HalfOpenEarned
  BY DEF IInv
<1> QED
  BY <1>1, SpecIInv, PTL

\* A tripped circuit closes only on halfOpenRequests successes without a failure.
THEOREM ReclosesOnQuota == Spec => RecloseNeedsQuota
<1>1. IInv /\ [Next]_vars =>
        [state # "CLOSED" /\ state' = "CLOSED" => okRun' = HalfOpenRequests]_vars
  <2> SUFFICES ASSUME IInv, Next, state # "CLOSED", state' = "CLOSED"
               PROVE  okRun' = HalfOpenRequests
    OBVIOUS
  <2> USE DEF IInv, TypeOK, CircuitStates
  <2>1. ASSUME NEW c \in Callers,
               CheckRejects(c) \/ CheckHalfOpens(c) \/ CheckPasses(c)
        PROVE  FALSE
    BY <2>1 DEF CheckRejects, CheckHalfOpens, CheckPasses, circuit
  <2>2. ASSUME NEW c \in Callers, NEW slow \in BOOLEAN, RecordSuccess(c, slow)
        PROVE  okRun' = HalfOpenRequests
    <3>1. state = "HALF_OPEN" /\ halfOpenSuccesses + 1 >= HalfOpenRequests
      BY <2>2 DEF RecordSuccess, AfterSuccess
    <3> QED
      BY <2>2, <3>1, BreakerConfig DEF RecordSuccess, HalfOpenBelowQuota
  <2>3. ASSUME NEW c \in Callers, NEW slow \in BOOLEAN, RecordFailure(c, slow)
        PROVE  FALSE
    BY <2>3 DEF RecordFailure
  <2>4. CASE Tick
    BY <2>4 DEF Tick
  <2> QED
    BY <2>1, <2>2, <2>3, <2>4 DEF Next
<1> QED
  BY <1>1, SpecIInv, PTL DEF Spec, RecloseNeedsQuota
=============================================================================
