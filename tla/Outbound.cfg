\* Two requests at a time; two failures trip a breaker, a third one comes late, probes fail.
CONSTANTS
    Callers = {c1, c2}
    FailureThreshold = 2
    RecoveryTimeout = 1
    MaxFailures = 4
    MaxItems = 2
SPECIFICATION OutboundFairSpec
INVARIANTS
    EventBacked
    TrippedAtThreshold
    ProbeAfterTimeout
    FailingSendsBounded
PROPERTIES
    BreakerReopens
\* After shutdown nothing happens any more.
CHECK_DEADLOCK FALSE
