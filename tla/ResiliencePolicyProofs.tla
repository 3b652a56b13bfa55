----------------------- MODULE ResiliencePolicyProofs -----------------------
(***************************************************************************)
(* The policy around the circuit breaker: that the shared breaker keeps its *)
(* own specification, that there is one breaker for a key, and that a       *)
(* provider's final answer is final, for any callers, attempts and faults.  *)
(***************************************************************************)
EXTENDS ResiliencePolicy, CircuitBreakerProofs

(* A step of the policy is a step of the breaker or leaves it alone.        *)
LEMMA PolicyStepKeepsTheBreaker ==
    ASSUME [PolicyNext]_policyVars
    PROVE  [Next]_vars
<1>1. ASSUME NEW c \in Callers, CallerStep(c)
      PROVE  [Next]_vars
  <2>1. CASE GetOrCreateReads(c) \/ GetOrCreateWrites(c) \/ Execute(c) \/ CallRejected(c) \/ DelayEnds(c)
    BY <2>1 DEF GetOrCreateReads, GetOrCreateWrites, Execute, CallRejected, DelayEnds
  <2>2. CASE CallBegins(c)
    BY <2>2 DEF CallBegins, Next
  <2>3. CASE CallEnds(c)
    <3>1. UNCHANGED vars \/ \E err \in BOOLEAN : recordResult(c, err)
      BY <2>3 DEF CallEnds, recorded
    <3> QED
      BY <3>1 DEF Next
  <2> QED
    BY <1>1, <2>1, <2>2, <2>3 DEF CallerStep
<1>2. ASSUME NEW c \in Callers, Cancel(c)  PROVE [Next]_vars
  BY <1>2 DEF Cancel
<1>3. CASE RegistryReset
  BY <1>3 DEF RegistryReset, Next
<1>4. CASE ClockAdvances
  BY <1>4 DEF ClockAdvances, Next
<1>5. CASE ProviderChanges
  BY <1>5 DEF ProviderChanges
<1>6. CASE UNCHANGED policyVars
  BY <1>6 DEF policyVars
<1> QED
  BY <1>1, <1>2, <1>3, <1>4, <1>5, <1>6 DEF PolicyNext

(* Retry, Execute and the registry use the breaker only through the steps   *)
(* of its own specification.                                                *)
THEOREM PolicyRefinesTheBreaker == PolicySpec => PolicyKeepsTheBreaker
<1>1. PolicyInit => Init
  BY DEF PolicyInit
<1>2. [PolicyNext]_policyVars => [Next]_vars
  BY PolicyStepKeepsTheBreaker
<1> QED
  BY <1>1, <1>2, PTL DEF PolicySpec, PolicyKeepsTheBreaker, Spec

(* So a breaker shared by retrying callers never wedges either.             *)
THEOREM PolicyNeverWedges == PolicySpec => []NeverWedgedHalfOpen
BY PolicyRefinesTheBreaker, NeverWedged, PTL DEF PolicyKeepsTheBreaker

-----------------------------------------------------------------------------
(* OneBreakerPerKey with the type of held: the registry's entry is written  *)
(* once, by whoever finds it missing under the write lock, and before that  *)
(* nobody holds a breaker.                                                  *)
RegistryInv ==
    /\ DOMAIN held = Callers
    /\ OneBreakerPerKey

LEMMA RegistryStep == ASSUME RegistryInv, [PolicyNext]_policyVars PROVE RegistryInv'
<1> USE DEF RegistryInv, OneBreakerPerKey
<1>1. ASSUME NEW c \in Callers, GetOrCreateReads(c)  PROVE RegistryInv'
  BY <1>1 DEF GetOrCreateReads
<1>2. ASSUME NEW c \in Callers, GetOrCreateWrites(c)  PROVE RegistryInv'
  <2>1. CASE breakers # {}
    BY <1>2, <2>1 DEF GetOrCreateWrites, breakerToStore
  <2>2. CASE breakers = {}
    <3>1. \A d \in Callers : held[d] = {}
      BY <2>2
    <3> QED
      BY <1>2, <3>1 DEF GetOrCreateWrites
  <2> QED
    BY <2>1, <2>2
<1>3. CASE UNCHANGED registryVars
  BY <1>3 DEF registryVars
<1>4. ASSUME NEW c \in Callers, Execute(c) \/ CallBegins(c) \/ CallRejected(c) \/ CallEnds(c)
                                  \/ DelayEnds(c) \/ Cancel(c)
      PROVE  UNCHANGED registryVars
  BY <1>4 DEF Execute, CallBegins, CallRejected, CallEnds, DelayEnds, Cancel
<1>5. ASSUME RegistryReset \/ ClockAdvances \/ ProviderChanges \/ UNCHANGED policyVars
      PROVE  UNCHANGED registryVars
  BY <1>5 DEF RegistryReset, ClockAdvances, ProviderChanges, policyVars
<1> QED
  BY <1>1, <1>2, <1>3, <1>4, <1>5 DEF PolicyNext, CallerStep

(* Callers that look for the breaker of a key at the same time get the same *)
(* one, however GetOrCreate's two locked sections interleave.               *)
THEOREM OneBreaker == PolicySpec => []OneBreakerPerKey
<1>1. PolicyInit => RegistryInv
  BY DEF PolicyInit, RegistryInv, OneBreakerPerKey
<1>2. RegistryInv => OneBreakerPerKey
  BY DEF RegistryInv
<1> QED
  BY <1>1, <1>2, RegistryStep, PTL DEF PolicySpec

-----------------------------------------------------------------------------
(* AnswerDecides with the types it needs, and that Retry has no result      *)
(* while it is still at work.                                               *)
Busy == {"attempt", "running", "delay"}

AnswerInv ==
    /\ phase \in [Callers -> {"idle", "missing"} \cup Busy]
    /\ answer \in [Callers -> Outcomes \cup {"none"}]
    /\ DOMAIN result = Callers
    /\ fault \in Outcomes
    /\ \A c \in Callers : phase[c] \in Busy => result[c] = "none"
    /\ AnswerDecides

(* What the classification at the controller's end calls worth a retry, the *)
(* provider's handler calls worth a retry too.                              *)
LEMMA RetriesAreWanted ==
    ASSUME NEW outcome \in Outcomes, IsRetryable(returned(outcome))
    PROVE  isRetryable(statusCode(outcome))
<1>1. outcome # "ok"
  BY DEF IsRetryable, returned
<1>2. mapGRPCError(statusCode(recoveryUnaryInterceptor(outcome))) = "Retryable"
  BY <1>1 DEF IsRetryable, returned, mapGRPCError, retryableType
<1>3. statusCode(recoveryUnaryInterceptor(outcome)) \in {"Unavailable", "DeadlineExceeded"}
  BY <1>2 DEF mapGRPCError
<1>4. outcome # "panic"
  BY <1>3 DEF recoveryUnaryInterceptor, statusCode, sdkCode
<1> QED
  BY <1>3, <1>4 DEF recoveryUnaryInterceptor, isRetryable

(* Retry after an attempt of caller c that ended with err: it returns err,  *)
(* or goes on when err is worth it.                                         *)
LEMMA RetryEffect ==
    ASSUME AnswerInv, NEW c \in Callers, NEW err, RetryContinues(c, err)
    PROVE  \/ /\ phase' = [phase EXCEPT ![c] = "idle"]
              /\ result' = [result EXCEPT ![c] = err]
           \/ /\ phase' = [phase EXCEPT ![c] = "delay"]
              /\ result' = result
              /\ IsRetryable(err)
BY DEF RetryContinues, Return

LEMMA AnswerStep == ASSUME AnswerInv, [PolicyNext]_policyVars PROVE AnswerInv'
<1> USE DEF AnswerInv, AnswerDecides, Busy
<1>1. ASSUME NEW c \in Callers, GetOrCreateReads(c)  PROVE AnswerInv'
  BY <1>1 DEF GetOrCreateReads, faultVars
<1>2. ASSUME NEW c \in Callers, GetOrCreateWrites(c)  PROVE AnswerInv'
  BY <1>2 DEF GetOrCreateWrites, faultVars
<1>3. ASSUME NEW c \in Callers, Execute(c)  PROVE AnswerInv'
  BY <1>3 DEF Execute, faultVars
<1>4. ASSUME NEW c \in Callers, CallBegins(c)  PROVE AnswerInv'
  BY <1>4 DEF CallBegins, faultVars
<1>5. ASSUME NEW c \in Callers, CallRejected(c)  PROVE AnswerInv'
  <2>1. phase[c] = "attempt" /\ UNCHANGED <<answer, fault>>
    BY <1>5 DEF CallRejected, faultVars
  <2>2. \/ phase' = [phase EXCEPT ![c] = "idle"] /\ result' = [result EXCEPT ![c] = "Unavailable"]
        \/ phase' = [phase EXCEPT ![c] = "delay"] /\ result' = result
    BY <1>5, RetryEffect DEF CallRejected
  <2> QED
    BY <2>1, <2>2
<1>6. ASSUME NEW c \in Callers, CallEnds(c)  PROVE AnswerInv'
  <2>1. PICK outcome \in {"ok", fault} :
            /\ answer' = [answer EXCEPT ![c] = outcome]
            /\ RetryContinues(c, returned(outcome))
    BY <1>6 DEF CallEnds
  <2>2. outcome \in Outcomes /\ UNCHANGED fault /\ phase[c] = "running"
    BY <1>6 DEF CallEnds, faultVars, Outcomes
  <2>3. CASE /\ phase' = [phase EXCEPT ![c] = "idle"]
             /\ result' = [result EXCEPT ![c] = returned(outcome)]
    BY <2>1, <2>2, <2>3
  <2>4. CASE /\ phase' = [phase EXCEPT ![c] = "delay"]
             /\ result' = result
             /\ IsRetryable(returned(outcome))
    BY <2>1, <2>2, <2>4, RetriesAreWanted
  <2> QED
    BY <2>1, <2>3, <2>4, RetryEffect
<1>7. ASSUME NEW c \in Callers, DelayEnds(c)  PROVE AnswerInv'
  BY <1>7 DEF DelayEnds, Delay, Return, faultVars
<1>8. ASSUME NEW c \in Callers, Cancel(c)  PROVE AnswerInv'
  BY <1>8 DEF Cancel, faultVars
<1>9. CASE ProviderChanges
  BY <1>9, FaultsAssumption DEF ProviderChanges, retryVars, Outcomes
<1>10. CASE RegistryReset \/ ClockAdvances \/ UNCHANGED policyVars
  BY <1>10 DEF RegistryReset, ClockAdvances, policyVars, retryVars, faultVars
<1> QED
  BY <1>1, <1>2, <1>3, <1>4, <1>5, <1>6, <1>7, <1>8, <1>9, <1>10 DEF PolicyNext, CallerStep

(* An answer that the provider calls final is never asked for again, and    *)
(* Execute reports what it became: errors keep their meaning through status *)
(* code, client and classification.                                         *)
THEOREM FinalAnswers == PolicySpec => []AnswerDecides
<1>1. PolicyInit => AnswerInv
  BY DEF PolicyInit, AnswerInv, AnswerDecides, Busy, Outcomes
<1>2. AnswerInv => AnswerDecides
  BY DEF AnswerInv
<1> QED
  BY <1>1, <1>2, AnswerStep, PTL DEF PolicySpec
=============================================================================
