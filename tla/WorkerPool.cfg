\* Two workers, a queue of two and a history of three: the history evicts
\* finished and running tasks while the queue is full.
CONSTANTS
    Workers = {w1, w2}
    QueueSize = 2
    MaxTracked = 3
    HasCallback = TRUE
    MaxTasks = 6
SPECIFICATION FairSpec
INVARIANTS
    ExactlyOnce
    GaugesExact
PROPERTIES
    ImplementsTaskService
    AcceptedTasksFinish
\* A pool that was stopped rests.
CHECK_DEADLOCK FALSE
