----------------------------- MODULE WorkerPool -----------------------------
(***************************************************************************)
(* The in-process background worker pool of the ingestor                   *)
(* (ingestor/core/background_workers.py), driven by the HTTP routes of     *)
(* ingestor/routers/background_processing.py and by the application's      *)
(* lifespan, which starts the pool once and stops it once.                 *)
(*                                                                         *)
(* The pool runs on one asyncio event loop: a step of this module is the   *)
(* code between two awaits.  Tasks are numbered in the order of their      *)
(* submission, which stands for the uuid4 of the code.  A                  *)
(* BackgroundTaskStatus object is shared: a worker keeps writing to it     *)
(* after the pool has dropped it from its dictionary, so `status' holds    *)
(* every object ever made and `tracked' the keys of _statuses.             *)
(*                                                                         *)
(* Left out: the records of a batch (see BatchIngest), the timestamps,     *)
(* the result and error texts, and the log.                                *)
(***************************************************************************)
EXTENDS Integers, Sequences, FiniteSets

\* Operators that differ from the code (their names say how, and each comes
\* just before the operator it varies) are used by no specification: putting
\* one in the place of its neighbour breaks a property, which shows that the
\* property depends on that line of the code.

CONSTANTS
    Workers,        \* the asyncio tasks bg-worker-0 .. bg-worker-(n-1)
    QueueSize,      \* queue_size
    MaxTracked,     \* max_tracked_tasks
    HasCallback,    \* whether on_task_failed was given
    MaxTasks        \* bound: the number of tasks submitted in a behaviour

ASSUME WorkersAssumption == IsFiniteSet(Workers)
ASSUME SizesAssumption ==
    /\ QueueSize \in Nat \ {0}
    /\ MaxTracked \in Nat \ {0}
    /\ MaxTasks \in Nat
    /\ HasCallback \in BOOLEAN

VARIABLES
    phase,          \* life of the pool: _running is phase = "running"
    queue,          \* _queue, the ids of the queued batches
    order,          \* _order
    tracked,        \* the keys of _statuses
    status,         \* the status field of each BackgroundTaskStatus
    pc,             \* where each worker is in _worker_loop
    job,            \* the task each worker holds, 0 for none
    submitted,      \* how many tasks were accepted so far
    unfinished,     \* _queue._unfinished_tasks
    activeGauge,    \* background_jobs_active
    inQueueGauge    \* background_jobs_in_queue

vars == <<phase, queue, order, tracked, status, pc, job, submitted,
          unfinished, activeGauge, inQueueGauge>>

Tasks == 1..MaxTasks
Terminal == {"succeeded", "failed", "cancelled"}
TaskState == {"queued", "running"} \union Terminal

-----------------------------------------------------------------------------
(* What the pool answers without changing anything. *)

Running == phase = "running"
QueueFull == Len(queue) >= QueueSize

\* The HTTP status of POST /background/ingest/batch in the current state.
SubmitReply ==
    IF ~Running THEN 503 ELSE IF QueueFull THEN 429 ELSE 202

\* The HTTP status of GET /background/tasks/{t}.
StatusReply(t) ==
    IF ~Running THEN 503 ELSE IF t \notin tracked THEN 404 ELSE 200

\* The counters of health_summary(): tracked statuses by state.
HealthCounter(s) == Cardinality({t \in tracked : status[t] = s})

-----------------------------------------------------------------------------
Init ==
    /\ phase = "created"
    /\ queue = <<>>
    /\ order = <<>>
    /\ tracked = {}
    /\ status = [t \in Tasks |-> "none"]
    /\ pc = [w \in Workers |-> "absent"]
    /\ job = [w \in Workers |-> 0]
    /\ submitted = 0
    /\ unfinished = 0
    /\ activeGauge = 0
    /\ inQueueGauge = 0

\* start(): the lifespan calls it once, on a new pool.
Start ==
    /\ phase = "created"
    /\ phase' = "running"
    /\ pc' = [w \in Workers |-> "idle"]
    /\ inQueueGauge' = 0
    /\ UNCHANGED <<queue, order, tracked, status, job, submitted, unfinished,
                   activeGauge>>

\* The history after _trim_status_history: the newest MaxTracked ids.
Trim(ord) ==
    IF Len(ord) > MaxTracked
    THEN SubSeq(ord, Len(ord) - MaxTracked + 1, Len(ord))
    ELSE ord

\* The ids that _trim_status_history drops from _statuses.
Dropped(ord) == {ord[i] : i \in 1..(Len(ord) - MaxTracked)}

\* submit_batch_ingest, reached through the route: a rejected submission
\* (SubmitReply) changes nothing.
Submit ==
    /\ SubmitReply = 202
    /\ submitted < MaxTasks
    /\ LET t == submitted + 1
           longer == Append(order, t)
       IN  /\ submitted' = t
           /\ status' = [status EXCEPT ![t] = "queued"]
           /\ order' = Trim(longer)
           /\ tracked' = (tracked \union {t}) \ Dropped(longer)
           /\ queue' = Append(queue, t)
    /\ unfinished' = unfinished + 1
    /\ inQueueGauge' = Len(queue')
    /\ UNCHANGED <<phase, pc, job, activeGauge>>

-----------------------------------------------------------------------------
(* One iteration of _worker_loop. *)

\* An item leaves the queue and its status is found: the task runs.
TakeTracked(w) ==
    /\ job' = [job EXCEPT ![w] = Head(queue)]
    /\ pc' = [pc EXCEPT ![w] = "processing"]
    /\ status' = [status EXCEPT ![Head(queue)] = "running"]
    /\ activeGauge' = activeGauge + 1
    /\ inQueueGauge' = Len(queue')
    /\ UNCHANGED unfinished

TakeUntrackedSurvives(w) ==
    UNCHANGED <<pc, job, status, activeGauge, inQueueGauge, unfinished>>

\* The status was trimmed while the task waited: _statuses[task_id] raises
\* KeyError outside the try block, which ends the worker and loses the item.
TakeUntracked(w) ==
    /\ pc' = [pc EXCEPT ![w] = "dead"]
    /\ UNCHANGED <<job, status, activeGauge, inQueueGauge, unfinished>>

TakeWithoutRemoving(w) ==
    /\ phase = "running"
    /\ pc[w] = "idle"
    /\ queue # <<>>
    /\ UNCHANGED queue
    /\ IF Head(queue) \in tracked THEN TakeTracked(w) ELSE TakeUntracked(w)
    /\ UNCHANGED <<phase, order, tracked, submitted>>

\* queue.get() returns an item to an idle worker.
Take(w) ==
    /\ phase = "running"
    /\ pc[w] = "idle"
    /\ queue # <<>>
    /\ queue' = Tail(queue)
    /\ IF Head(queue) \in tracked THEN TakeTracked(w) ELSE TakeUntracked(w)
    /\ UNCHANGED <<phase, order, tracked, submitted>>

\* The finally block; `next' is where the worker goes from there.
FinallyWithoutDec(w, next) ==
    /\ pc' = [pc EXCEPT ![w] = next]
    /\ job' = [job EXCEPT ![w] = 0]
    /\ unfinished' = unfinished - 1
    /\ UNCHANGED activeGauge
    /\ inQueueGauge' = Len(queue)
Finally(w, next) ==
    /\ pc' = [pc EXCEPT ![w] = next]
    /\ job' = [job EXCEPT ![w] = 0]
    /\ unfinished' = unfinished - 1
    /\ activeGauge' = activeGauge - 1
    /\ inQueueGauge' = Len(queue)

\* The processor returns a result.
ProcessorReturns(w) ==
    /\ phase = "running"
    /\ pc[w] = "processing"
    /\ status' = [status EXCEPT ![job[w]] = "succeeded"]
    /\ Finally(w, "idle")
    /\ UNCHANGED <<phase, queue, order, tracked, submitted>>

\* A worker that lets the processor's exception escape.
ProcessorRaisesUncaught(w) ==
    /\ phase = "running"
    /\ pc[w] = "processing"
    /\ status' = [status EXCEPT ![job[w]] = "failed"]
    /\ Finally(w, "dead")
    /\ UNCHANGED <<phase, queue, order, tracked, submitted>>

\* The processor raises an Exception: the callback, if any, is awaited
\* before the finally block.
ProcessorRaises(w) ==
    /\ phase = "running"
    /\ pc[w] = "processing"
    /\ status' = [status EXCEPT ![job[w]] = "failed"]
    /\ IF HasCallback
       THEN /\ pc' = [pc EXCEPT ![w] = "callback"]
            /\ UNCHANGED <<job, unfinished, activeGauge, inQueueGauge>>
       ELSE Finally(w, "idle")
    /\ UNCHANGED <<phase, queue, order, tracked, submitted>>

\* on_task_failed returns, or raises an Exception that is only logged.
CallbackEnds(w) ==
    /\ phase = "running"
    /\ pc[w] = "callback"
    /\ Finally(w, "idle")
    /\ UNCHANGED <<phase, queue, order, tracked, status, submitted>>

-----------------------------------------------------------------------------
(* stop(): cancel every worker, wait for all of them, clear the list. *)

StopBegins ==
    /\ phase = "running"
    /\ phase' = "stopping"
    /\ UNCHANGED <<queue, order, tracked, status, pc, job, submitted,
                   unfinished, activeGauge, inQueueGauge>>

\* CancelledError is raised at the await where the worker is suspended.
CancelIdle(w) ==
    /\ pc[w] = "idle"
    /\ pc' = [pc EXCEPT ![w] = "dead"]
    /\ UNCHANGED <<status, job, unfinished, activeGauge, inQueueGauge>>

\* Assumed: closing the session on the way out does not raise.  (If it did,
\* that exception would take the place of CancelledError, the task would read
\* "failed" and the worker, cancelled no more, would loop on.)
CancelProcessing(w) ==
    /\ pc[w] = "processing"
    /\ status' = [status EXCEPT ![job[w]] = "cancelled"]
    /\ Finally(w, "dead")

\* The callback's `except Exception' does not catch CancelledError: the
\* finally block runs and the status stays "failed".
CancelCallbackOverwriting(w) ==
    /\ pc[w] = "callback"
    /\ status' = [status EXCEPT ![job[w]] = "cancelled"]
    /\ Finally(w, "dead")
CancelCallback(w) ==
    /\ pc[w] = "callback"
    /\ Finally(w, "dead")
    /\ UNCHANGED status

WorkerCancelledIdleOnly(w) ==
    /\ phase = "stopping"
    /\ CancelIdle(w)
    /\ UNCHANGED <<phase, queue, order, tracked, submitted>>
WorkerCancelled(w) ==
    /\ phase = "stopping"
    /\ CancelIdle(w) \/ CancelProcessing(w) \/ CancelCallback(w)
    /\ UNCHANGED <<phase, queue, order, tracked, submitted>>

\* asyncio.gather returned: every worker task is done.
StopEnds ==
    /\ phase = "stopping"
    /\ \A w \in Workers : pc[w] = "dead"
    /\ phase' = "stopped"
    /\ pc' = [w \in Workers |-> "absent"]
    /\ activeGauge' = 0
    /\ UNCHANGED <<queue, order, tracked, status, job, submitted, unfinished,
                   inQueueGauge>>

-----------------------------------------------------------------------------
WorkerStep(w) ==
    \/ Take(w)
    \/ ProcessorReturns(w)
    \/ ProcessorRaises(w)
    \/ CallbackEnds(w)
    \/ WorkerCancelled(w)

Next ==
    \/ Start
    \/ Submit
    \/ StopBegins
    \/ StopEnds
    \/ \E w \in Workers : WorkerStep(w)

Spec == Init /\ [][Next]_vars

\* The event loop resumes every worker whose await is over, the processor
\* and the callback end in one way or another, and gather returns.  Nobody
\* is bound to submit a task or to stop the pool.
FairSpec ==
    /\ Spec
    /\ WF_vars(StopEnds)
    /\ \A w \in Workers : WF_vars(WorkerStep(w))

-----------------------------------------------------------------------------
(* Properties *)

Busy == {w \in Workers : pc[w] \in {"processing", "callback"}}
Dead == {w \in Workers : pc[w] = "dead"}
QueuedTasks == {queue[i] : i \in 1..Len(queue)}

TypeOK ==
    /\ phase \in {"created", "running", "stopping", "stopped"}
    /\ queue \in Seq(Tasks)
    /\ order \in Seq(Tasks)
    /\ tracked \in SUBSET Tasks
    /\ status \in [Tasks -> TaskState \union {"none"}]
    /\ pc \in [Workers -> {"absent", "idle", "processing", "callback", "dead"}]
    /\ job \in [Workers -> 0..MaxTasks]
    /\ submitted \in 0..MaxTasks
    /\ unfinished \in Int
    /\ activeGauge \in Int
    /\ inQueueGauge \in Nat

\* A task is executed by at most one worker, is never queued and executed at
\* once, and its status says which of the two it is: "queued" exactly while
\* in _queue, "running" exactly while some worker awaits the processor.
\* (_worker_loop, with no loss of a task to a trimmed status.)
ExactlyOnce ==
    /\ \A v, w \in Busy : job[v] = job[w] => v = w
    /\ \A w \in Busy : job[w] \notin QueuedTasks
    /\ \A t \in Tasks :
          /\ status[t] = "queued" <=> t \in QueuedTasks
          /\ status[t] = "running" <=>
                \E w \in Workers : pc[w] = "processing" /\ job[w] = t

\* A history at least as long as the queue keeps the status of every queued
\* task, so _statuses[task_id] never raises KeyError and no worker of a
\* running pool is ever lost (_worker_loop line 169, _trim_status_history).
NoWorkerLost ==
    /\ QueuedTasks \subseteq tracked
    /\ phase = "running" => Dead = {}

\* GET /background/tasks/{id} finds each of the newest MaxTracked tasks, in
\* whatever state they are, and no older one.
RecentTasksFound ==
    Running => \A t \in 1..submitted :
                  StatusReply(t) = 200 <=> t > submitted - MaxTracked

\* The two gauges and the queue's own count of unfinished tasks agree with
\* the queue and the workers at every suspension point, so task_done() is
\* never called once too often (it would raise in the finally block).
GaugesExact ==
    /\ inQueueGauge = Len(queue)
    /\ activeGauge = Cardinality(Busy)
    /\ unfinished = Len(queue) + Cardinality(Busy)

\* A history shorter than the queue costs at most one worker per lost task
\* and one task per lost worker: what the queue counts as unfinished is
\* queued, executed, or died with its worker.  The health endpoint never
\* shows more running tasks than there are busy workers.
LossAccounted ==
    /\ Running => unfinished = Len(queue) + Cardinality(Busy) + Cardinality(Dead)
    /\ HealthCounter("running") <= Cardinality(Busy)

\* When stop() has returned, no worker holds a task and no status still
\* reads "running".
StoppedIsQuiet ==
    phase = "stopped" => /\ Busy = {}
                         /\ \A t \in Tasks : status[t] # "running"

\* A finished task keeps the outcome that was reported for it, whatever
\* happens to its worker: a cancellation during the failure callback does
\* not rewrite "failed".
OutcomeIsFinal ==
    [][\A t \in Tasks : status[t] \in Terminal => status'[t] = status[t]]_vars

\* What the pool shows of the abstract service: a worker serves while it awaits
\* the processor, and a task is pending while it is queued or running.
Door == IF phase = "created" THEN "new" ELSE IF Running THEN "open" ELSE "closed"
Serving == [w \in Workers |-> IF pc[w] = "processing" THEN job[w] ELSE 0]
Outcome ==
    [t \in Tasks |-> IF status[t] \in {"queued", "running"} THEN "pending" ELSE status[t]]

Service == INSTANCE TaskService WITH
    Servers <- Workers, Capacity <- QueueSize,
    door <- Door, waiting <- queue, serving <- Serving, outcome <- Outcome

\* With a history at least as long as the queue, the pool implements the task
\* service: whatever callbacks, cancellations and evictions do in between,
\* tasks are begun in the order of their submission, each by one worker, and
\* end once; a reported outcome is never rewritten (a cancellation during the
\* failure callback leaves "failed"), and a stopping pool begins nothing.
ImplementsTaskService == Service!Spec

\* Every accepted task is executed to an outcome, unless the pool is stopped.
AcceptedTasksFinish ==
    \A t \in Tasks :
        status[t] = "queued" ~> (status[t] \in Terminal \/ ~Running)
=============================================================================
