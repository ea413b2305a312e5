----------------------------- MODULE Scheduler ------------------------------
(***************************************************************************)
(* The job scheduler of the ingestor (core/scheduler.py), the wrapper that *)
(* runs a job's handler (core/handlers.py), the health it keeps            *)
(* (libs/platform/job_types.py) and the back-off decorator around the      *)
(* handlers (libs/platform/retry.py).                                      *)
(*                                                                         *)
(* APScheduler is external: it fires a job with an interval trigger again  *)
(* and again, a job with trigger=None once, as soon as it is started, and  *)
(* skips a firing while the job's last run is still going on.  shutdown    *)
(* cancels the runs.                                                       *)
(*                                                                         *)
(* Left out: run times, durations, Prometheus counters and logs.  The      *)
(* job's own max_retries is stored and never read, so it is left out too.  *)
(***************************************************************************)
EXTENDS Integers

CONSTANTS
    Jobs,           \* the names registered by register_jobs
    Recurring,      \* those with an interval or cron trigger
    MaxRetries,     \* max_retries of the exponential_backoff around a handler
    Timeout,        \* timeout_seconds, in units of time
    MaxRuns         \* bound: runs of a job in a behaviour

ASSUME SchedulerAssumption ==
    /\ Recurring \subseteq Jobs
    /\ MaxRetries \in Nat
    /\ Timeout \in Nat \ {0}
    /\ MaxRuns \in Nat

VARIABLES
    scheduler,  \* the AsyncIOScheduler: created, running, stopped
    armed,      \* the jobs APScheduler has a next fire time for
    stage,      \* where the job's run is
    attempt,    \* the run's attempts so far
    elapsed,    \* how long the run has been going on
    health,     \* success_count, failure_count, and whether last_error is set
    started,    \* ghost: runs begun
    cancelled   \* ghost: runs ended by a cancellation

vars == <<scheduler, armed, stage, attempt, elapsed, health, started, cancelled>>

NewHealth == [ok |-> 0, failed |-> 0, error |-> FALSE]
Active == {j \in Jobs : stage[j] # "idle"}

\* is_healthy, with success_rate >= 0.8 and a rate of 1 when there was no run.
IsHealthy(j) ==
    ~health[j].error /\ 5 * health[j].ok >= 4 * (health[j].ok + health[j].failed)

Init ==
    /\ scheduler = "created"
    /\ armed = {}
    /\ stage = [j \in Jobs |-> "idle"]
    /\ attempt = [j \in Jobs |-> 0]
    /\ elapsed = [j \in Jobs |-> 0]
    /\ health = [j \in Jobs |-> NewHealth]
    /\ started = [j \in Jobs |-> 0]
    /\ cancelled = [j \in Jobs |-> 0]

\* start(): every registered job is wrapped and added, then APScheduler runs.
Start ==
    /\ scheduler = "created"
    /\ scheduler' = "running"
    /\ armed' = Jobs
    /\ UNCHANGED <<stage, attempt, elapsed, health, started, cancelled>>

\* APScheduler fires the job; a firing during a run is dropped.
Fire(j) ==
    /\ scheduler = "running"
    /\ j \in armed
    /\ armed' = IF j \in Recurring THEN armed ELSE armed \ {j}
    /\ IF stage[j] = "idle"
       THEN /\ started[j] < MaxRuns
            /\ stage' = [stage EXCEPT ![j] = "handler"]
            /\ attempt' = [attempt EXCEPT ![j] = 1]
            /\ elapsed' = [elapsed EXCEPT ![j] = 0]
            /\ started' = [started EXCEPT ![j] = @ + 1]
       ELSE UNCHANGED <<stage, attempt, elapsed, started>>
    /\ UNCHANGED <<scheduler, health, cancelled>>

Ended(j) ==
    /\ stage' = [stage EXCEPT ![j] = "idle"]
    /\ UNCHANGED <<scheduler, armed, attempt, elapsed, started>>

\* The try block of wrapped().
HandlerReturns(j) ==
    /\ stage[j] = "handler"
    /\ health' = [health EXCEPT ![j] = [ok |-> @.ok + 1, failed |-> @.failed, error |-> FALSE]]
    /\ Ended(j)
    /\ UNCHANGED cancelled

\* The branches for TimeoutError and Exception record the same.
RecordFailure(j) ==
    health' = [health EXCEPT ![j] = [ok |-> @.ok, failed |-> @.failed + 1, error |-> TRUE]]

\* exponential_backoff: sleep and try again, or raise the last exception.
BacksOff(j) ==
    /\ stage[j] = "handler" /\ attempt[j] <= MaxRetries
    /\ stage' = [stage EXCEPT ![j] = "backoff"]
    /\ UNCHANGED <<scheduler, armed, attempt, elapsed, health, started, cancelled>>

HandlerRaisesEachTime(j) ==
    /\ stage[j] = "handler"
    /\ RecordFailure(j)
    /\ stage' = [stage EXCEPT ![j] = IF attempt[j] > MaxRetries THEN "idle" ELSE "backoff"]
    /\ UNCHANGED <<scheduler, armed, attempt, elapsed, started, cancelled>>
HandlerRaises(j) ==
    \/ BacksOff(j)
    \/ /\ stage[j] = "handler" /\ attempt[j] > MaxRetries
       /\ RecordFailure(j)
       /\ Ended(j)
       /\ UNCHANGED cancelled

BackoffEnds(j) ==
    /\ stage[j] = "backoff"
    /\ stage' = [stage EXCEPT ![j] = "handler"]
    /\ attempt' = [attempt EXCEPT ![j] = @ + 1]
    /\ UNCHANGED <<scheduler, armed, elapsed, health, started, cancelled>>

\* asyncio.wait_for gives up on the handler, in an attempt or between two.
TimeoutDuringAttempts(j) ==
    /\ stage[j] = "handler" /\ attempt[j] > MaxRetries
    /\ elapsed[j] = Timeout
    /\ RecordFailure(j)
    /\ Ended(j)
    /\ UNCHANGED cancelled
TimeoutExpires(j) ==
    /\ stage[j] \in {"handler", "backoff"}
    /\ elapsed[j] = Timeout
    /\ RecordFailure(j)
    /\ Ended(j)
    /\ UNCHANGED cancelled

\* Time passes for the runs; a deadline that is due is served first.
Tick ==
    /\ \E j \in Active : elapsed[j] < Timeout
    /\ \A j \in Active : elapsed[j] < Timeout \/ stage[j] = "cancelling"
    /\ elapsed' = [j \in Jobs |-> IF j \in Active /\ elapsed[j] < Timeout
                                  THEN elapsed[j] + 1 ELSE elapsed[j]]
    /\ UNCHANGED <<scheduler, armed, stage, attempt, health, started, cancelled>>

\* stop(): shutdown(wait=False) cancels the runs; the sleep(0) that follows
\* does not wait until they are over.
Stop ==
    /\ scheduler = "running"
    /\ scheduler' = "stopped"
    /\ armed' = {}
    /\ stage' = [j \in Jobs |-> IF j \in Active THEN "cancelling" ELSE "idle"]
    /\ UNCHANGED <<attempt, elapsed, health, started, cancelled>>

\* CancelledError passes through the wrapper: not a failure.
RunCancelled(j) ==
    /\ stage[j] = "cancelling"
    /\ cancelled' = [cancelled EXCEPT ![j] = @ + 1]
    /\ Ended(j)
    /\ UNCHANGED health

Next ==
    \/ Start \/ Stop \/ Tick
    \/ \E j \in Jobs :
          \/ Fire(j) \/ HandlerReturns(j) \/ HandlerRaises(j) \/ BackoffEnds(j)
          \/ TimeoutExpires(j) \/ RunCancelled(j)

Spec == Init /\ [][Next]_vars

\* Timers go off and cancellations arrive.  A handler is not bound to end.
FairSpec ==
    /\ Spec
    /\ WF_vars(Tick)
    /\ \A j \in Jobs :
          WF_vars(BackoffEnds(j)) /\ WF_vars(TimeoutExpires(j)) /\ WF_vars(RunCancelled(j))

-----------------------------------------------------------------------------
TypeOK ==
    /\ scheduler \in {"created", "running", "stopped"}
    /\ armed \subseteq Jobs
    /\ stage \in [Jobs -> {"idle", "handler", "backoff", "cancelling"}]
    /\ attempt \in [Jobs -> 0..MaxRetries + 1]
    /\ elapsed \in [Jobs -> 0..Timeout]
    /\ health \in [Jobs -> [ok : Nat, failed : Nat, error : BOOLEAN]]
    /\ started \in [Jobs -> Nat]
    /\ cancelled \in [Jobs -> Nat]

\* Every run is counted once: as a success, as a failure (exhausted retries
\* or the timeout, whichever comes first, in an attempt or in a pause), or,
\* when it was cancelled, not at all.
RunsAccounted ==
    \A j \in Jobs :
        started[j] = health[j].ok + health[j].failed + cancelled[j]
                     + (IF stage[j] = "idle" THEN 0 ELSE 1)

\* After stop() nothing begins and the health is final: runs that are still
\* unwinding are neither retried nor recorded.
NothingAfterStop ==
    [][scheduler = "stopped" =>
          /\ health' = health
          /\ \A j \in Jobs : stage'[j] \in {stage[j], "idle"}]_vars

\* No run holds its job's single instance for ever: retries and pauses
\* included, it is over when its timeout is, even if the handler hangs.
RunsEnd == \A j \in Jobs : stage[j] # "idle" ~> stage[j] = "idle"
=============================================================================
