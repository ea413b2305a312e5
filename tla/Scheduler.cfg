\* One job that recurs and one that runs once; the timeout can strike in the
\* first attempt, in a pause and in a retry.
CONSTANTS
    Jobs = {ingest, archive}
    Recurring = {ingest}
    MaxRetries = 1
    Timeout = 2
    MaxRuns = 3
SPECIFICATION FairSpec
INVARIANTS
    RunsAccounted
PROPERTIES
    RunsEnd
\* A scheduler that was stopped rests.
CHECK_DEADLOCK FALSE
