------------------------ MODULE CircuitBreakerProofs ------------------------
(***************************************************************************)
(* Proofs about the circuit breaker for every set of callers, failure      *)
(* threshold and number of half-open slots.  The four invariants are       *)
(* inductive together: that the breaker never wedges rests on the type     *)
(* invariant only, because a call that returns while every slot is taken   *)
(* always moves the circuit.                                               *)
(***************************************************************************)
EXTENDS CircuitBreaker, TLAPS

IInv ==
    /\ TypeOK
    /\ NeverWedgedHalfOpen
    /\ ClosedBelowThreshold
    /\ HalfOpenAdmissions

(* A fresh breaker (NewCircuitBreaker) satisfies the invariants.           *)
LEMMA InitInv == Init => IInv
  BY ConfigAssumption
  DEF Init, IInv, TypeOK, NeverWedgedHalfOpen, ClosedBelowThreshold,
      HalfOpenAdmissions, rejects, Closed, HalfOpen, Open

(* allowCall keeps the invariants: the caller it admits is the running     *)
(* call NeverWedgedHalfOpen asks for.                                      *)
LEMMA AllowCallInv == ASSUME IInv, NEW c \in Callers, allowCall(c) PROVE IInv'
<1> USE ConfigAssumption DEF IInv, allowCall, Closed, HalfOpen, Open
<1>1. TypeOK'
  BY DEF TypeOK, takeSlot, transitionToHalfOpen
<1>2. NeverWedgedHalfOpen'
  <2>1. call'[c] # "idle"
    BY <1>1 DEF TypeOK, takeSlot, transitionToHalfOpen
  <2> QED BY <2>1 DEF NeverWedgedHalfOpen
<1>3. ClosedBelowThreshold'
  BY DEF ClosedBelowThreshold, TypeOK, takeSlot, transitionToHalfOpen
<1>4. HalfOpenAdmissions'
  BY DEF HalfOpenAdmissions, TypeOK, takeSlot, transitionToHalfOpen
<1> QED BY <1>1, <1>2, <1>3, <1>4

(* recordResult keeps the invariants: a failure in half-open opens the     *)
(* circuit, and a success with every slot taken closes it, so a circuit    *)
(* that stays half-open still has a free slot.                             *)
LEMMA RecordResultInv == ASSUME IInv, NEW c \in Callers, NEW err \in BOOLEAN, recordResult(c, err)
                         PROVE IInv'
<1> USE ConfigAssumption DEF IInv, recordResult, Closed, HalfOpen, Open
<1>1. TypeOK'
  <2>1. probes' \in Nat /\ call' \in [Callers -> {"idle", Closed, HalfOpen}]
    BY DEF TypeOK
  <2>2. CASE recordFailure
    <3>1. resetDue' \in BOOLEAN
      BY <2>2 DEF recordFailure
    <3>2. failures' \in 0..FailureThreshold
      BY <2>2 DEF recordFailure, TypeOK
    <3>3. state' \in {Closed, HalfOpen, Open} /\ halfOpenCalls' \in 0..HalfOpenMaxCalls
      BY <2>2 DEF recordFailure, transitionToOpen, TypeOK
    <3> QED BY <2>1, <3>1, <3>2, <3>3 DEF TypeOK
  <2>3. CASE recordSuccess
    BY <2>1, <2>3 DEF TypeOK, recordSuccess, transitionToClosed
  <2> QED BY <2>2, <2>3
<1>2. NeverWedgedHalfOpen'
  BY DEF NeverWedgedHalfOpen, rejects, TypeOK, recordFailure, recordSuccess,
         transitionToOpen, transitionToClosed
<1>3. ClosedBelowThreshold'
  BY DEF ClosedBelowThreshold, TypeOK, recordFailure, recordSuccess,
         transitionToOpen, transitionToClosed
<1>4. HalfOpenAdmissions'
  BY DEF HalfOpenAdmissions, TypeOK, recordFailure, recordSuccess,
         transitionToOpen, transitionToClosed
<1> QED BY <1>1, <1>2, <1>3, <1>4

(* Every step of the breaker keeps the invariants.                         *)
LEMMA NextInv == IInv /\ [Next]_vars => IInv'
<1> SUFFICES ASSUME IInv, [Next]_vars PROVE IInv'
  OBVIOUS
<1>1. ASSUME NEW c \in Callers, allowCall(c) PROVE IInv'
  BY <1>1, AllowCallInv
<1>2. ASSUME NEW c \in Callers, NEW err \in BOOLEAN, recordResult(c, err)
                         PROVE IInv'
  BY <1>2, RecordResultInv
<1>3. CASE Reset
  BY <1>3, ConfigAssumption
  DEF IInv, Reset, transitionToClosed, TypeOK, NeverWedgedHalfOpen, rejects,
      ClosedBelowThreshold, HalfOpenAdmissions, Closed, HalfOpen, Open
<1>4. CASE ResetTimeoutElapses
  BY <1>4
  DEF IInv, ResetTimeoutElapses, TypeOK, NeverWedgedHalfOpen, rejects,
      ClosedBelowThreshold, HalfOpenAdmissions, Closed, HalfOpen, Open
<1>5. CASE UNCHANGED vars
  BY <1>5
  DEF IInv, vars, breakerVars, TypeOK, NeverWedgedHalfOpen, rejects,
      ClosedBelowThreshold, HalfOpenAdmissions
<1> QED BY <1>1, <1>2, <1>3, <1>4, <1>5 DEF Next

(* The combined invariant holds in every reachable state.                  *)
THEOREM InvariantHolds == Spec => []IInv
  BY InitInv, NextInv, PTL DEF Spec

(* However many callers share the breaker and however late their results   *)
(* arrive, it never rejects every call with nobody left to move it.        *)
THEOREM NeverWedged == Spec => []NeverWedgedHalfOpen
<1>1. IInv => NeverWedgedHalfOpen
  BY DEF IInv
<1> QED BY <1>1, InvariantHolds, PTL

(* At most HalfOpenMaxCalls + 1 calls reach a provider under test.         *)
THEOREM AdmissionBound == Spec => []HalfOpenAdmissions
<1>1. IInv => HalfOpenAdmissions
  BY DEF IInv
<1> QED BY <1>1, InvariantHolds, PTL

(* A closed circuit is below its failure threshold.                        *)
THEOREM ClosedIsBelowThreshold == Spec => []ClosedBelowThreshold
<1>1. IInv => ClosedBelowThreshold
  BY DEF IInv
<1> QED BY <1>1, InvariantHolds, PTL

(* Late results never close an open circuit, nor one that still has        *)
(* half-open slots to give.                                                *)
THEOREM ClosesOnlyAfterProbingHolds == Spec => ClosesOnlyAfterProbing
<1> DEFINE Closing == (state # Closed /\ state' = Closed)
                        => Reset \/ (state = HalfOpen /\ halfOpenCalls = HalfOpenMaxCalls)
<1>1. IInv /\ [Next]_vars => [Closing]_vars
  <2> SUFFICES ASSUME IInv, Next PROVE Closing
    BY DEF vars
  <2> USE DEF Closed, HalfOpen, Open
  <2>1. ASSUME NEW c \in Callers, allowCall(c) PROVE Closing
    BY <2>1 DEF allowCall, takeSlot, transitionToHalfOpen
  <2>2. ASSUME NEW c \in Callers, NEW err \in BOOLEAN, recordResult(c, err)
                         PROVE Closing
    BY <2>2, ConfigAssumption
    DEF recordResult, recordFailure, recordSuccess, transitionToOpen,
        transitionToClosed, IInv, TypeOK
  <2>3. CASE ResetTimeoutElapses
    BY <2>3 DEF ResetTimeoutElapses
  <2> QED BY <2>1, <2>2, <2>3 DEF Next
<1> QED BY <1>1, InvariantHolds, PTL DEF Spec, ClosesOnlyAfterProbing
=============================================================================
