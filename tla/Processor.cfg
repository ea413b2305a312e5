\* One message of each kind; four faults allow one redelivery beyond
\* MaxRetries.
CONSTANTS
    LogLength = 3
    Kind <- AllKinds
    MaxRetries = 3
    StartAttempts = 2
    MaxFaults = 4
    MaxShutdowns = 1
SPECIFICATION FairSpec
INVARIANTS
    CommittedWereDelivered
    DlqBackedByFailures
    SkippedHasACause
PROPERTIES
    QueueDrains
\* An idle consumer waits for the next message.
CHECK_DEADLOCK FALSE
