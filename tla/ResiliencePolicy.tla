-------------------------- MODULE ResiliencePolicy --------------------------
(***************************************************************************)
(* The resilience policy of internal/resilience/retry.go, over one breaker *)
(* of the registry of circuitbreaker.go.  A caller takes the breaker from   *)
(* the registry, then runs Policy.Execute any number of times: Retry calls  *)
(* the function up to MaxAttempts times, each time through                  *)
(* CircuitBreaker.Call, and waits between the attempts.  The length of a    *)
(* delay is abstracted to "it elapses".  A caller in unprotected has a      *)
(* policy with no breaker.  The function is a call of a provider through    *)
(* the gRPC client: the error made by the handler passes the SDK's          *)
(* interceptor, the status code and the client before Retry sees it.        *)
(***************************************************************************)
EXTENDS CircuitBreaker

CONSTANTS
    Unprotected,    \* the sets of callers whose Policy may have no breaker
    MaxAttempts,    \* RetryConfig.MaxAttempts
    Faults,         \* the ways in which handlers of the provider may fail
    MaxFaults       \* bound: how often the provider changes its condition

ASSUME PolicyAssumption ==
    /\ Unprotected \subseteq SUBSET Callers
    /\ MaxAttempts \in Nat \ {0}
    /\ MaxFaults \in Nat

VARIABLES
    breakers,   \* Registry.breakers: {} or the breaker stored under the key
    made,       \* breakers built so far by NewCircuitBreaker
    held,       \* caller -> {} or the breaker GetOrCreate returned to it
    phase,      \* caller -> where it is in GetOrCreate or in Retry
    attempt,    \* caller -> Retry's loop variable
    cancelled,  \* caller -> its context is done
    answer,     \* caller -> how the handler last ended in this Execute
    result,     \* caller -> what Retry last returned
    fault,      \* how handlers of the provider end: ok, or what may come instead
    faults,     \* changes of that condition so far
    unprotected \* the callers with a nil Policy.circuitBreaker; never changes

registryVars == <<breakers, made, held>>
retryVars == <<phase, attempt, cancelled, answer, result>>
faultVars == <<fault, faults>>
policyVars == <<vars, registryVars, retryVars, faultVars, unprotected>>

(* sdk/provider/errors: the gRPC code of each error a handler makes.        *)
sdkCode ==
    [NewInvalidSpec |-> "InvalidArgument", NewNotFound |-> "NotFound",
     NewAlreadyExists |-> "AlreadyExists", NewPermissionDenied |-> "PermissionDenied",
     NewUnavailable |-> "Unavailable", NewInternal |-> "Internal",
     NewUnimplemented |-> "Unimplemented", NewTimeout |-> "DeadlineExceeded",
     NewRateLimit |-> "ResourceExhausted", NewCanceled |-> "Canceled"]

(* The recovery interceptor turns a panic into an Internal error.           *)
recoveryUnaryInterceptor(outcome) == IF outcome = "panic" THEN "NewInternal" ELSE outcome

(* External: the code gRPC sends, Unknown for an error without a status.    *)
statusCode(outcome) ==
    IF outcome \in DOMAIN sdkCode THEN sdkCode[outcome] ELSE "Unknown"

(* Mutant of mapGRPCError: what is not listed is worth a retry.             *)
retryableByDefault(code) ==
    CASE code = "NotFound"        -> "NotFound"
      [] code = "InvalidArgument" -> "InvalidSpec"
      [] OTHER                    -> "Retryable"

(* The controllers' client: the type of the error a code becomes, plain     *)
(* when it becomes no ProviderError.                                        *)
mapGRPCError(code) ==
    CASE code = "NotFound"                             -> "NotFound"
      [] code = "InvalidArgument"                      -> "InvalidSpec"
      [] code \in {"Unavailable", "DeadlineExceeded"}  -> "Retryable"
      [] OTHER                                         -> "plain"

(* What the function returns when the provider's handler ends in outcome.   *)
returned(outcome) ==
    IF outcome = "ok" THEN "ok" ELSE mapGRPCError(statusCode(recoveryUnaryInterceptor(outcome)))

(* contracts.ProviderError.IsRetryable; no constructor sets Retryable for   *)
(* another type.                                                            *)
retryableType(type) == type \in {"Retryable", "Unavailable", "Timeout", "RateLimit"}

(* resilience.IsRetryable: other errors than a ProviderError are final.     *)
IsRetryable(err) == err \notin {"ok", "plain"} /\ retryableType(err)

(* sdk/provider/errors: what a provider's handler says of its own error.    *)
isRetryable(code) == code \in {"Unavailable", "ResourceExhausted", "DeadlineExceeded"}

Outcomes == DOMAIN sdkCode \cup {"ok", "panic", "error"}
Errors == {"none", "ok", "NotFound", "InvalidSpec", "Retryable", "Unavailable", "plain"}

ASSUME FaultsAssumption == Faults \subseteq Outcomes

(* Every variable has its type: Retry's loop variable stays below           *)
(* MaxAttempts and a call is counted by the breaker only while a protected  *)
(* caller is inside the function.                                           *)
PolicyTypeOK ==
    /\ breakers \subseteq 1..Cardinality(Callers)
    /\ made \in 0..Cardinality(Callers)
    /\ held \in [Callers -> SUBSET (1..Cardinality(Callers))]
    /\ phase \in [Callers -> {"idle", "missing", "attempt", "running", "delay"}]
    /\ attempt \in [Callers -> 0..(MaxAttempts - 1)]
    /\ cancelled \in [Callers -> BOOLEAN]
    /\ answer \in [Callers -> Outcomes \cup {"none"}]
    /\ result \in [Callers -> Errors \cup {"cancelled"}]
    /\ fault \in Faults \cup {"ok"}
    /\ faults \in 0..MaxFaults
    /\ unprotected \in Unprotected
    /\ \A c \in Callers : call[c] # "idle" => phase[c] = "running" /\ c \notin unprotected

PolicyInit ==
    /\ Init
    /\ breakers = {}
    /\ made = 0
    /\ held = [c \in Callers |-> {}]
    /\ phase = [c \in Callers |-> "idle"]
    /\ attempt = [c \in Callers |-> 0]
    /\ cancelled = [c \in Callers |-> FALSE]
    /\ answer = [c \in Callers |-> "none"]
    /\ result = [c \in Callers |-> "none"]
    /\ fault = "ok"
    /\ faults = 0
    /\ unprotected \in Unprotected

-----------------------------------------------------------------------------
(* GetOrCreate under the read lock: a stored breaker is returned.           *)
GetOrCreateReads(c) ==
    /\ phase[c] = "idle"
    /\ c \notin unprotected
    /\ held[c] = {}
    /\ \/ /\ breakers # {}
          /\ held' = [held EXCEPT ![c] = breakers]
          /\ UNCHANGED phase
       \/ /\ breakers = {}
          /\ phase' = [phase EXCEPT ![c] = "missing"]
          /\ UNCHANGED held
    /\ UNCHANGED <<vars, breakers, made, attempt, cancelled, answer, result, faultVars, unprotected>>

(* Mutant of breakerToStore: no second look under the write lock.           *)
alwaysANewBreaker ==
    /\ made' = made + 1
    /\ breakers' = {made + 1}

(* GetOrCreate under the write lock: the double check, then a new breaker.  *)
breakerToStore ==
    \/ /\ breakers # {}
       /\ UNCHANGED <<breakers, made>>
    \/ /\ breakers = {}
       /\ made' = made + 1
       /\ breakers' = {made + 1}

GetOrCreateWrites(c) ==
    /\ phase[c] = "missing"
    /\ breakerToStore
    /\ held' = [held EXCEPT ![c] = breakers']
    /\ phase' = [phase EXCEPT ![c] = "idle"]
    /\ UNCHANGED <<vars, attempt, cancelled, answer, result, faultVars, unprotected>>

(* Registry.Reset resets every stored breaker.                              *)
RegistryReset ==
    /\ breakers # {}
    /\ Reset
    /\ UNCHANGED <<registryVars, retryVars, faultVars, unprotected>>

-----------------------------------------------------------------------------
(* Policy.Execute enters Retry with a fresh context.                        *)
Execute(c) ==
    /\ phase[c] = "idle"
    /\ c \in unprotected \/ held[c] # {}
    /\ phase' = [phase EXCEPT ![c] = "attempt"]
    /\ attempt' = [attempt EXCEPT ![c] = 0]
    /\ cancelled' = [cancelled EXCEPT ![c] = FALSE]
    /\ answer' = [answer EXCEPT ![c] = "none"]
    /\ result' = [result EXCEPT ![c] = "none"]
    /\ UNCHANGED <<vars, registryVars, faultVars, unprotected>>

(* The caller's context is cancelled or its deadline passes.                *)
Cancel(c) ==
    /\ phase[c] \in {"attempt", "running", "delay"}
    /\ ~cancelled[c]
    /\ cancelled' = [cancelled EXCEPT ![c] = TRUE]
    /\ UNCHANGED <<vars, registryVars, phase, attempt, answer, result, faultVars, unprotected>>

(* The function is called: through allowCall, or directly with no breaker.  *)
CallBegins(c) ==
    /\ phase[c] = "attempt"
    /\ \/ c \in unprotected /\ UNCHANGED vars
       \/ c \notin unprotected /\ allowCall(c)
    /\ phase' = [phase EXCEPT ![c] = "running"]
    /\ UNCHANGED <<registryVars, attempt, cancelled, answer, result, faultVars, unprotected>>

Return(c, r) ==
    /\ phase' = [phase EXCEPT ![c] = "idle"]
    /\ result' = [result EXCEPT ![c] = r]

(* Retry, once an attempt has ended with err.                               *)
RetryContinues(c, err) ==
    \/ /\ err = "ok" \/ ~IsRetryable(err) \/ attempt[c] = MaxAttempts - 1
       /\ Return(c, err)
    \/ /\ IsRetryable(err)
       /\ attempt[c] < MaxAttempts - 1
       /\ phase' = [phase EXCEPT ![c] = "delay"]
       /\ UNCHANGED result

(* CircuitBreaker.Call refuses: an Unavailable error, nothing recorded.     *)
CallRejected(c) ==
    /\ phase[c] = "attempt"
    /\ c \notin unprotected
    /\ rejects
    /\ RetryContinues(c, "Unavailable")
    /\ UNCHANGED <<vars, registryVars, attempt, cancelled, answer, faultVars, unprotected>>

(* Mutant of recorded: only errors worth a retry count as failures, and the *)
(* others leave the slot of the call taken.                                 *)
recordedIfRetryable(c, err) ==
    \/ (err = "ok" \/ IsRetryable(err)) /\ recordResult(c, err # "ok")
    \/ err # "ok" /\ ~IsRetryable(err) /\ call' = [call EXCEPT ![c] = "idle"] /\ UNCHANGED <<breakerVars, probes>>

(* CircuitBreaker.Call records every outcome, whatever kind of error it is. *)
recorded(c, err) == recordResult(c, err # "ok")

(* The function returns, the breaker records the outcome, Retry decides.    *)
(* A provider in trouble still serves some calls.                           *)
CallEnds(c) ==
    /\ phase[c] = "running"
    /\ \E outcome \in {"ok", fault} :
          /\ \/ c \in unprotected /\ UNCHANGED vars
             \/ c \notin unprotected /\ recorded(c, returned(outcome))
          /\ answer' = [answer EXCEPT ![c] = outcome]
          /\ RetryContinues(c, returned(outcome))
    /\ UNCHANGED <<registryVars, attempt, cancelled, faultVars, unprotected>>

(* The select of Retry: the context, or the delay of calculateDelay.        *)
Delay(c) ==
    \/ /\ cancelled[c]
       /\ Return(c, "cancelled")
       /\ UNCHANGED attempt
    \/ /\ ~cancelled[c]
       /\ phase' = [phase EXCEPT ![c] = "attempt"]
       /\ attempt' = [attempt EXCEPT ![c] = @ + 1]
       /\ UNCHANGED result

DelayEnds(c) ==
    /\ phase[c] = "delay"
    /\ Delay(c)
    /\ UNCHANGED <<vars, registryVars, cancelled, answer, faultVars, unprotected>>

(* External: the provider fails in one way or another, or recovers.         *)
ProviderChanges ==
    /\ faults < MaxFaults
    /\ \E f \in (Faults \cup {"ok"}) \ {fault} : fault' = f
    /\ faults' = faults + 1
    /\ UNCHANGED <<vars, registryVars, retryVars, unprotected>>

ClockAdvances ==
    /\ ResetTimeoutElapses
    /\ UNCHANGED <<registryVars, retryVars, faultVars, unprotected>>

CallerStep(c) ==
    \/ GetOrCreateReads(c)
    \/ GetOrCreateWrites(c)
    \/ Execute(c)
    \/ CallBegins(c)
    \/ CallRejected(c)
    \/ CallEnds(c)
    \/ DelayEnds(c)

PolicyNext ==
    \/ \E c \in Callers : CallerStep(c) \/ Cancel(c)
    \/ RegistryReset
    \/ ClockAdvances
    \/ ProviderChanges

PolicySpec == PolicyInit /\ [][PolicyNext]_policyVars

(* Callers are goroutines that are scheduled, their functions return (every *)
(* RPC has a deadline) and they go on calling; the clock advances.          *)
PolicyFairSpec ==
    /\ PolicySpec
    /\ \A c \in Callers : WF_policyVars(CallerStep(c))
    /\ WF_policyVars(ClockAdvances)

-----------------------------------------------------------------------------
(* However the callers' retries interleave, the breaker they share takes    *)
(* only the steps of its own specification, so what is proved of it holds   *)
(* under the policy as well.                                                *)
PolicyKeepsTheBreaker == Spec

(* Callers that look for the breaker of one key at the same moment end up   *)
(* with the same one, so that failures met by any of them count for all.    *)
OneBreakerPerKey ==
    \A c \in Callers : held[c] # {} => held[c] = breakers

(* An error that the provider's handler calls final, a panic included, ends *)
(* the Execute: through status code, client and classification the call is  *)
(* never repeated, and Execute reports what the handler's last end became.  *)
AnswerDecides ==
    \A c \in Callers :
        /\ phase[c] \in {"attempt", "running", "delay"} /\ answer[c] # "none"
              => isRetryable(statusCode(answer[c]))
        /\ result[c] \notin {"none", "cancelled", "Unavailable"} => result[c] = returned(answer[c])

(* Once the provider is well for good, the circuit the callers share closes *)
(* and stays closed, whatever probes and slots the outage has used up.      *)
RecoversAfterOutage == <>[](fault = "ok") => <>[](state = Closed)
=============================================================================
