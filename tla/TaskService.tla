---------------------------- MODULE TaskService -----------------------------
(***************************************************************************)
(* What the background worker pool promises to whoever submits a task: a   *)
(* bounded first-come, first-served queue before a fixed set of servers.   *)
(* A task that was let in waits, is served by one server in the order of   *)
(* arrival, and ends once, with a result or a failure; when the service    *)
(* has closed, what is being served is cancelled, what waits goes on       *)
(* waiting, and nothing new is let in or begun.                            *)
(*                                                                         *)
(* There are no statuses, no history, no callback and no gauges here:      *)
(* WorkerPool has them, and is shown to implement this specification.      *)
(***************************************************************************)
EXTENDS Naturals, Sequences

CONSTANTS Servers, Capacity, MaxTasks

VARIABLES
    door,       \* new, open, closed
    waiting,    \* the tasks that were let in and not yet begun
    serving,    \* what each server works on, 0 for nothing
    outcome     \* none (never let in), pending, or how the task ended

serviceVars == <<door, waiting, serving, outcome>>

Init ==
    /\ door = "new"
    /\ waiting = <<>>
    /\ serving = [s \in Servers |-> 0]
    /\ outcome = [t \in 1..MaxTasks |-> "none"]

Open ==
    /\ door = "new"
    /\ door' = "open"
    /\ UNCHANGED <<waiting, serving, outcome>>

Arrive(t) ==
    /\ door = "open"
    /\ outcome[t] = "none"
    /\ Len(waiting) < Capacity
    /\ waiting' = Append(waiting, t)
    /\ outcome' = [outcome EXCEPT ![t] = "pending"]
    /\ UNCHANGED <<door, serving>>

Serve(s) ==
    /\ door = "open"
    /\ serving[s] = 0
    /\ waiting # <<>>
    /\ serving' = [serving EXCEPT ![s] = Head(waiting)]
    /\ waiting' = Tail(waiting)
    /\ UNCHANGED <<door, outcome>>

End(s, how) ==
    /\ serving[s] # 0
    /\ outcome[serving[s]] = "pending"
    /\ outcome' = [outcome EXCEPT ![serving[s]] = how]
    /\ serving' = [serving EXCEPT ![s] = 0]
    /\ UNCHANGED <<door, waiting>>

Finish(s) == door = "open" /\ \E how \in {"succeeded", "failed"} : End(s, how)

Cancel(s) == door = "closed" /\ End(s, "cancelled")

Close ==
    /\ door = "open"
    /\ door' = "closed"
    /\ UNCHANGED <<waiting, serving, outcome>>

Next ==
    \/ Open \/ Close
    \/ \E t \in 1..MaxTasks : Arrive(t)
    \/ \E s \in Servers : Serve(s) \/ Finish(s) \/ Cancel(s)

Spec == Init /\ [][Next]_serviceVars
=============================================================================
