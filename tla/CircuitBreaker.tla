--------------------------- MODULE CircuitBreaker ---------------------------
(***************************************************************************)
(* The circuit breaker of internal/resilience/circuitbreaker.go.  allowCall *)
(* and recordResult each run under cb.mu, so each is one atomic step; the   *)
(* protected function runs between them without the lock, and any number of *)
(* callers are between the two at once.  lastFailureTime is reduced to      *)
(* whether ResetTimeout has passed since it (resetDue).  failures saturates *)
(* at FailureThreshold: no code path tells larger counts apart.             *)
(***************************************************************************)
EXTENDS Naturals, FiniteSets

CONSTANTS
    Callers,            \* goroutines that use the breaker
    FailureThreshold,   \* Config.FailureThreshold
    HalfOpenMaxCalls    \* Config.HalfOpenMaxCalls

ASSUME ConfigAssumption ==
    /\ FailureThreshold \in Nat \ {0}
    /\ HalfOpenMaxCalls \in Nat \ {0}

VARIABLES
    state,          \* cb.state
    failures,       \* cb.failures, saturated at FailureThreshold
    halfOpenCalls,  \* cb.halfOpenCalls
    resetDue,       \* time.Since(cb.lastFailureTime) > ResetTimeout
    call,           \* caller -> "idle", or the state its running call was admitted in
    probes          \* history: calls admitted since the circuit last went half-open

breakerVars == <<state, failures, halfOpenCalls, resetDue>>
vars == <<breakerVars, call, probes>>

Closed   == "closed"
HalfOpen == "half-open"
Open     == "open"

(* Every variable has its type; in particular halfOpenCalls never exceeds   *)
(* HalfOpenMaxCalls, whatever calls start and end around a reopening.       *)
TypeOK ==
    /\ state \in {Closed, HalfOpen, Open}
    /\ failures \in 0..FailureThreshold
    /\ halfOpenCalls \in 0..HalfOpenMaxCalls
    /\ resetDue \in BOOLEAN
    /\ call \in [Callers -> {"idle", Closed, HalfOpen}]
    /\ probes \in Nat

Init ==
    /\ state = Closed
    /\ failures = 0
    /\ halfOpenCalls = 0
    /\ resetDue = TRUE          \* the zero time.Time is long past
    /\ call = [c \in Callers |-> "idle"]
    /\ probes = 0

-----------------------------------------------------------------------------
transitionToClosed ==
    /\ state' = Closed
    /\ failures' = 0
    /\ halfOpenCalls' = 0

transitionToOpen ==
    /\ state' = Open
    /\ halfOpenCalls' = 0

transitionToHalfOpen ==
    /\ state' = HalfOpen
    /\ halfOpenCalls' = 0

(* allowCall, the half-open case: a free slot is taken.                     *)
takeSlot ==
    /\ halfOpenCalls < HalfOpenMaxCalls
    /\ halfOpenCalls' = halfOpenCalls + 1
    /\ UNCHANGED state

(* allowCall returns true to caller c.  The call that finds the timeout     *)
(* elapsed moves the circuit to half-open and is let through without taking *)
(* one of the HalfOpenMaxCalls slots.                                       *)
allowCall(c) ==
    /\ call[c] = "idle"
    /\ \/ /\ state = Closed
          /\ UNCHANGED <<state, halfOpenCalls, probes>>
       \/ /\ state = Open
          /\ resetDue
          /\ transitionToHalfOpen
          /\ probes' = 1
       \/ /\ state = HalfOpen
          /\ takeSlot
          /\ probes' = probes + 1
    /\ call' = [call EXCEPT ![c] = state']
    /\ UNCHANGED <<failures, resetDue>>

(* allowCall returns false: the circuit is open and the timeout has not     *)
(* elapsed, or every half-open slot is taken.                               *)
rejects ==
    \/ state = Open /\ ~resetDue
    \/ state = HalfOpen /\ halfOpenCalls >= HalfOpenMaxCalls

recordFailure ==
    LET counted == IF failures < FailureThreshold THEN failures + 1 ELSE failures
    IN  /\ failures' = counted
        /\ resetDue' = FALSE
        /\ \/ state = Closed /\ counted >= FailureThreshold /\ transitionToOpen
           \/ state = HalfOpen /\ transitionToOpen
           \/ state = Closed /\ counted < FailureThreshold /\ UNCHANGED <<state, halfOpenCalls>>
           \/ state = Open /\ UNCHANGED <<state, halfOpenCalls>>

(* Mutant of recordSuccess: > for >=, so that a circuit whose slots are all *)
(* used up is never closed.                                                 *)
recordSuccessNeverCloses ==
    /\ \/ state = HalfOpen /\ UNCHANGED <<state, failures, halfOpenCalls>>
       \/ state = Closed /\ failures' = 0 /\ UNCHANGED <<state, halfOpenCalls>>
       \/ state = Open /\ UNCHANGED <<state, failures, halfOpenCalls>>
    /\ UNCHANGED resetDue

recordSuccess ==
    /\ \/ state = HalfOpen /\ halfOpenCalls >= HalfOpenMaxCalls /\ transitionToClosed
       \/ state = HalfOpen /\ halfOpenCalls < HalfOpenMaxCalls /\ UNCHANGED <<state, failures, halfOpenCalls>>
       \/ state = Closed /\ failures' = 0 /\ UNCHANGED <<state, halfOpenCalls>>
       \/ state = Open /\ UNCHANGED <<state, failures, halfOpenCalls>>
    /\ UNCHANGED resetDue

(* fn returns to caller c and its result is recorded, whatever state the    *)
(* circuit has reached since the call was admitted.                         *)
recordResult(c, err) ==
    /\ call[c] # "idle"
    /\ \/ err /\ recordFailure
       \/ ~err /\ recordSuccess
    /\ call' = [call EXCEPT ![c] = "idle"]
    /\ UNCHANGED probes

Reset ==
    /\ transitionToClosed
    /\ UNCHANGED <<resetDue, call, probes>>

(* The clock: ResetTimeout passes with no failure recorded.                 *)
ResetTimeoutElapses ==
    /\ ~resetDue
    /\ resetDue' = TRUE
    /\ UNCHANGED <<state, failures, halfOpenCalls, call, probes>>

Next ==
    \/ \E c \in Callers : allowCall(c)
    \/ \E c \in Callers, err \in BOOLEAN : recordResult(c, err)
    \/ Reset
    \/ ResetTimeoutElapses

Spec == Init /\ [][Next]_vars

-----------------------------------------------------------------------------
(* A circuit that rejects calls in half-open has one of its calls still     *)
(* running, whose result will move it: the breaker cannot wedge with every  *)
(* slot used up and nobody left to report, however late results of calls    *)
(* admitted in earlier states, Reset and reopening interleave.              *)
NeverWedgedHalfOpen ==
    (state = HalfOpen /\ rejects) => \E c \in Callers : call[c] # "idle"

(* A closed circuit is strictly below its failure threshold: no order of    *)
(* late failures, reopenings and closings leaves it closed with a full      *)
(* failure count that the next failure could not trip at the threshold.     *)
ClosedBelowThreshold ==
    state = Closed => failures < FailureThreshold

(* While half-open, the calls let through since the circuit was last open   *)
(* number exactly the slots taken plus the one that moved it there; so at   *)
(* most HalfOpenMaxCalls + 1 calls reach a recovering provider.             *)
HalfOpenAdmissions ==
    state = HalfOpen => probes = halfOpenCalls + 1 /\ probes <= HalfOpenMaxCalls + 1

(* The circuit closes again only through Reset or out of half-open with     *)
(* every slot taken: a late success of a call admitted before the circuit   *)
(* opened never closes an open circuit, nor one still testing the provider. *)
ClosesOnlyAfterProbing ==
    [][(state # Closed /\ state' = Closed)
          => Reset \/ (state = HalfOpen /\ halfOpenCalls = HalfOpenMaxCalls)]_vars
=============================================================================
