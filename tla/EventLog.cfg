\* One event and two sessions: creates, batches and marks of it overlap, and an
\* outdated copy can be several writes behind.
CONSTANTS
    Sessions = {s1, s2}
    Keys = {k1}
    MaxAttempts = 3
SPECIFICATION Spec
SYMMETRY EventLogSymmetry
INVARIANTS
    CreatedOnce
    AttemptsCounted
    DeadLettersAccounted
