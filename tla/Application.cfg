\* A history shorter than the queue, which the settings do not exclude.
CONSTANTS
    Workers = {w1, w2}
    QueueSize = 2
    MaxTracked = 1
    HasCallback = TRUE
    MaxTasks = 4
    RawChannels <- MCRawChannels
    Enabled = {"redis", "kafka", "notifications"}
SPECIFICATION AppFairSpec
INVARIANTS
    LossAccounted
    UsersStopFirst
    EverythingReleased
    AlertsInOrder
PROPERTIES
    FailuresAnnounced
    ShutdownEnds
\* A process that has exited rests.
CHECK_DEADLOCK FALSE
