--------------------------- MODULE CircuitBreaker ---------------------------
(***************************************************************************)
(* The circuit breaker of libs/platform/circuit_breaker.py, which guards   *)
(* the Kafka sends and the Mongo inserts of the ingestor.                  *)
(*                                                                         *)
(* A call passes the gate under the breaker's lock, awaits the guarded     *)
(* function WITHOUT the lock, and reports the outcome under the lock       *)
(* again: other calls run between the two, and the outcome is applied to   *)
(* whatever state the breaker is in by then.  No critical section awaits,  *)
(* so each is one step.                                                    *)
(*                                                                         *)
(* Time is the age of the last failure, in units of which RecoveryTimeout  *)
(* is a whole number; past RecoveryTimeout its exact value is never used.  *)
(***************************************************************************)
EXTENDS Integers

CONSTANTS
    Callers,            \* concurrent coroutines that use one breaker
    FailureThreshold,   \* failure_threshold
    RecoveryTimeout,    \* recovery_timeout
    MaxFailures         \* bound on _failure_count

ASSUME BreakerAssumption ==
    /\ FailureThreshold \in Nat \ {0}
    /\ RecoveryTimeout \in Nat \ {0}
    /\ MaxFailures \in Nat

VARIABLES
    state,          \* _state
    failureCount,   \* _failure_count
    failureAge,     \* monotonic() - _last_failure_time; None: no such time
    call            \* where each caller is: not calling, or awaiting func,
                    \* let through by a CLOSED or by a HALF_OPEN breaker

vars == <<state, failureCount, failureAge, call>>

None == -1

-----------------------------------------------------------------------------
Init ==
    /\ state = "CLOSED"
    /\ failureCount = 0
    /\ failureAge = None
    /\ call = [c \in Callers |-> "none"]

\* Time passes.
Tick ==
    /\ failureAge # None
    /\ failureAge < RecoveryTimeout
    /\ failureAge' = failureAge + 1
    /\ UNCHANGED <<state, failureCount, call>>

\* _maybe_transition_to_half_open: the state the gate looks at.  A missing
\* failure time reads as time zero, which is long ago.
NeverHalfOpen == state
HalfOpenAtOnce == IF state = "OPEN" THEN "HALF_OPEN" ELSE state
MaybeHalfOpen ==
    IF state = "OPEN" /\ (failureAge = None \/ failureAge >= RecoveryTimeout)
    THEN "HALF_OPEN"
    ELSE state

\* call(), up to the await: the call is let through ...
AdmitUngated(c) ==
    /\ call[c] = "none"
    /\ state' = MaybeHalfOpen
    /\ call' = [call EXCEPT ![c] = "normal"]
    /\ UNCHANGED <<failureCount, failureAge>>
Admit(c) ==
    /\ call[c] = "none"
    /\ MaybeHalfOpen # "OPEN"
    /\ state' = MaybeHalfOpen
    /\ call' = [call EXCEPT ![c] = IF MaybeHalfOpen = "CLOSED" THEN "normal" ELSE "probe"]
    /\ UNCHANGED <<failureCount, failureAge>>

\* ... or CircuitOpenError is raised, with no effect on the breaker.
Rejected(c) == call[c] = "none" /\ MaybeHalfOpen = "OPEN"

\* _on_success, whatever the state was.
OnSuccess ==
    /\ state' = "CLOSED"
    /\ failureCount' = 0
    /\ failureAge' = None

\* _on_failure, whatever the state was.
OnFailureLate ==
    /\ failureCount' = failureCount + 1
    /\ failureAge' = 0
    /\ state' = IF failureCount' > FailureThreshold \/ state = "HALF_OPEN"
                THEN "OPEN"
                ELSE state
OnFailure ==
    /\ failureCount' = failureCount + 1
    /\ failureAge' = 0
    /\ state' = IF failureCount' >= FailureThreshold \/ state = "HALF_OPEN"
                THEN "OPEN"
                ELSE state

FuncReturns(c) ==
    /\ call[c] # "none"
    /\ OnSuccess
    /\ call' = [call EXCEPT ![c] = "none"]

FuncRaises(c) ==
    /\ call[c] # "none"
    /\ failureCount < MaxFailures
    /\ OnFailure
    /\ call' = [call EXCEPT ![c] = "none"]

\* CancelledError is no Exception: the breaker learns nothing.
FuncCancelled(c) ==
    /\ call[c] # "none"
    /\ call' = [call EXCEPT ![c] = "none"]
    /\ UNCHANGED <<state, failureCount, failureAge>>

Next ==
    \/ Tick
    \/ \E c \in Callers : Admit(c) \/ FuncReturns(c) \/ FuncRaises(c) \/ FuncCancelled(c)

Spec == Init /\ [][Next]_vars

-----------------------------------------------------------------------------
TypeOK ==
    /\ state \in {"CLOSED", "OPEN", "HALF_OPEN"}
    /\ failureCount \in Nat
    /\ failureAge \in -1..RecoveryTimeout
    /\ call \in [Callers -> {"none", "normal", "probe"}]

\* The breaker is tripped exactly when the count has reached the threshold:
\* late outcomes, applied in a state their call never saw, cannot leave it
\* CLOSED with a full count nor OPEN with a low one.
TrippedAtThreshold == state # "CLOSED" <=> failureCount >= FailureThreshold

\* A tripped breaker knows when it failed, so the recovery time counts from
\* the last failure and never from `or 0.0'; a HALF_OPEN one has waited all
\* of it, late failures that restarted the clock included.
ProbeAfterTimeout ==
    /\ state # "CLOSED" => failureAge # None
    /\ state = "HALF_OPEN" => failureAge >= RecoveryTimeout

\* While the breaker is OPEN and its time has not come, calls in flight end
\* and none begins, whoever closed or reopened it in the meantime: "Protects
\* the downstream from a flood of retries while it recovers".
OpenShedsLoad ==
    [][state = "OPEN" /\ failureAge < RecoveryTimeout =>
          \A c \in Callers : call'[c] \in {"none", call[c]}]_vars
=============================================================================
