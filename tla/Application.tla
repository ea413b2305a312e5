---------------------------- MODULE Application -----------------------------
(***************************************************************************)
(* The ingestor's process from start to exit: the lifespan of main.py,     *)
(* which brings up the optional services (services_lifecycle.py), the      *)
(* worker pool and the job scheduler, serves requests, and takes all of it *)
(* down again; and the alerts (notifications.py) that the pool's failure   *)
(* callback and POST /notifications/test send out.                         *)
(*                                                                         *)
(* The pool is that of WorkerPool, with the callback that lambda in the    *)
(* lifespan makes: an alert to every default channel, one after the other. *)
(* Requests are served only between startup and shutdown, and the server   *)
(* (uvicorn, external) lets them end before it begins the shutdown.        *)
(*                                                                         *)
(* Left out: what an alert says and which channels took it, tracing,       *)
(* Sentry and the log.                                                     *)
(***************************************************************************)
EXTENDS WorkerPool

CONSTANTS
    Enabled,        \* the optional parts that the settings enable
    RawChannels     \* notification_default_channels, split at the commas

Api == "api"                        \* the sender that is no worker
Senders == Workers \union {Api}
Services == {"redis", "kafka", "mongo"}
ValidChannels == {"slack", "telegram", "webhook", "email"}

ASSUME ApplicationAssumption ==
    /\ RawChannels \in Seq(STRING)
    /\ Api \notin Workers

VARIABLES
    life,       \* what the lifespan does next
    client,     \* _client, _producer, _db and the httpx client: None or set
    stuck,      \* ghost: clients whose own closing failed
    scheduler,  \* APScheduler: stopped, running, or running on since its
                \* own stop() failed (unstopped)
    engine,     \* the connection pool: open until engine.dispose()
    todo,       \* channels a dispatch has still to try
    tried       \* ghost: channels tried for the alert of each task

lifeVars == <<life, client, stuck, scheduler, engine>>
alertVars == <<todo, tried>>
appVars == <<vars, lifeVars, alertVars>>

AppInit ==
    /\ Init
    /\ life = "validate"
    /\ client = [s \in Services \union {"httpx"} |-> "None"]
    /\ stuck = {}
    /\ scheduler = "stopped"
    /\ engine = "open"
    /\ todo = [s \in Senders |-> <<>>]
    /\ tried = [t \in Tasks |-> <<>>]

-----------------------------------------------------------------------------
(* Startup *)

\* _validate_production_security_settings: weak secrets end the process.
Validate ==
    /\ life = "validate"
    /\ life' \in {"redis", "failed"}
    /\ UNCHANGED <<vars, client, stuck, scheduler, engine, alertVars>>

\* connect_cache, connect_producer, connect_mongo: the module's variable is
\* set before the connection is tried, and stays set when that fails, which
\* is only logged.  A service that is not enabled is passed over.
Connect(s, next) ==
    /\ life = s
    /\ life' = next
    /\ client' = IF s \in Enabled THEN [client EXCEPT ![s] = "set"] ELSE client
    /\ UNCHANGED <<vars, stuck, scheduler, engine, alertVars>>

\* The pool is started if the settings enable it.
StartWorkers ==
    /\ life = "workers"
    /\ life' = "jobs"
    /\ Start \/ UNCHANGED vars
    /\ UNCHANGED <<client, stuck, scheduler, engine, alertVars>>

\* A scheduler that cannot be started is only logged.
StartScheduler ==
    /\ life = "jobs"
    /\ life' = "serving"
    /\ scheduler' \in {"running", "stopped"}
    /\ UNCHANGED <<vars, client, stuck, engine, alertVars>>

-----------------------------------------------------------------------------
(* Serving *)

\* get_http_client: the first fetch of a request makes the client.
OpenHttpClient ==
    /\ life = "serving"
    /\ client["httpx"] = "None"
    /\ client' = [client EXCEPT !["httpx"] = "set"]
    /\ UNCHANGED <<vars, life, stuck, scheduler, engine, alertVars>>

\* A batch is submitted through the route.
SubmitBatch ==
    /\ life = "serving"
    /\ Submit
    /\ UNCHANGED <<lifeVars, alertVars>>

\* _parse_channels keeps the known names; Parsed[n] are those of the first n.
Parsed[n \in 0..Len(RawChannels)] ==
    IF n = 0 THEN <<>>
    ELSE IF RawChannels[n] \in ValidChannels
    THEN Append(Parsed[n - 1], RawChannels[n])
    ELSE Parsed[n - 1]
DefaultChannels == Parsed[Len(RawChannels)]

\* dispatch_notification_event begins: disabled, it is over at once; an
\* empty list of channels means the default ones.
Dispatch(s, channels) ==
    todo' = [todo EXCEPT ![s] = IF "notifications" \notin Enabled THEN <<>>
                                ELSE IF channels = <<>> THEN DefaultChannels
                                ELSE channels]

\* POST /notifications/test, for a list of channels of the client's choice.
TestNotification(channels) ==
    /\ life = "serving"
    /\ todo[Api] = <<>>
    /\ Dispatch(Api, channels)
    /\ UNCHANGED <<vars, lifeVars, tried>>

\* One pass of the dispatch loop.  A channel that is not configured raises,
\* and so may one that is; either way the loop notes a result and goes on.
TriedBy(s) ==
    IF s = Api THEN tried
    ELSE [tried EXCEPT ![job[s]] = Append(@, Head(todo[s]))]

SendRetrying(s) ==
    /\ todo[s] # <<>>
    /\ todo' \in {todo, [todo EXCEPT ![s] = Tail(@)]}
    /\ tried' = TriedBy(s)
    /\ UNCHANGED <<vars, lifeVars>>
SendAborting(s) ==
    /\ todo[s] # <<>>
    /\ todo' \in {[todo EXCEPT ![s] = Tail(@)], [todo EXCEPT ![s] = <<>>]}
    /\ tried' = TriedBy(s)
    /\ UNCHANGED <<vars, lifeVars>>
Send(s) ==
    /\ todo[s] # <<>>
    /\ todo' = [todo EXCEPT ![s] = Tail(@)]
    /\ tried' = TriedBy(s)
    /\ UNCHANGED <<vars, lifeVars>>

-----------------------------------------------------------------------------
(* The workers' steps, with the alert for a failed task. *)

TaskFails(w) ==
    /\ ProcessorRaises(w)
    /\ IF pc'[w] = "callback" THEN Dispatch(w, <<>>) ELSE UNCHANGED todo
    /\ UNCHANGED <<lifeVars, tried>>

AlertDone(w) ==
    /\ todo[w] = <<>>
    /\ CallbackEnds(w)
    /\ UNCHANGED <<lifeVars, alertVars>>

\* A cancellation abandons the alert where it is.
CancelWorker(w) ==
    /\ WorkerCancelled(w)
    /\ todo' = [todo EXCEPT ![w] = <<>>]
    /\ UNCHANGED <<lifeVars, tried>>

AppWorkerStep(w) ==
    \/ (Take(w) \/ ProcessorReturns(w)) /\ UNCHANGED <<lifeVars, alertVars>>
    \/ TaskFails(w)
    \/ Send(w)
    \/ AlertDone(w)
    \/ CancelWorker(w)

-----------------------------------------------------------------------------
(* Shutdown *)

\* The server has answered its last request.
Shutdown ==
    /\ life = "serving"
    /\ todo[Api] = <<>>
    /\ life' = "stopJobs"
    /\ UNCHANGED <<vars, client, stuck, scheduler, engine, alertVars>>

\* stop() of a scheduler that runs may raise, which is only logged: then it
\* runs on.  shutdown(wait=False) does not wait for the runs it cancels.
StopScheduler ==
    /\ life = "stopJobs"
    /\ \/ scheduler' = "stopped"
       \/ scheduler = "running" /\ scheduler' = "unstopped"
    /\ life' = "stopWorkers"
    /\ UNCHANGED <<vars, client, stuck, engine, alertVars>>

\* The pool's stop() is awaited; without a pool there is nothing to stop.
StopWorkersUnawaited ==
    /\ life = "stopWorkers"
    /\ life' = "quitKafka"
    /\ StopBegins \/ (phase = "created" /\ UNCHANGED vars)
    /\ UNCHANGED <<client, stuck, scheduler, engine, alertVars>>
StopWorkers ==
    /\ life = "stopWorkers"
    /\ \/ StopBegins /\ life' = "awaitWorkers"
       \/ phase = "created" /\ life' = "quitKafka" /\ UNCHANGED vars
    /\ UNCHANGED <<client, stuck, scheduler, engine, alertVars>>

WorkersStopped ==
    /\ life = "awaitWorkers"
    /\ StopEnds
    /\ life' = "quitKafka"
    /\ UNCHANGED <<client, stuck, scheduler, engine, alertVars>>

\* cleanup_external_services: a client that is set is closed and forgotten;
\* when the closing fails it stays set, which is only logged.  Closing the
\* Mongo client involves nothing that fails.
DisconnectUnguarded(step, s, next) ==
    /\ life = step
    /\ \/ life' = next /\ client' = [client EXCEPT ![s] = "None"] /\ UNCHANGED stuck
       \/ /\ client[s] = "set" /\ s # "mongo"
          /\ life' = "failed"
          /\ stuck' = stuck \union {s}
          /\ UNCHANGED client
    /\ UNCHANGED <<vars, scheduler, engine, alertVars>>
Disconnect(step, s, next) ==
    /\ life = step
    /\ life' = next
    /\ \/ client' = [client EXCEPT ![s] = "None"] /\ UNCHANGED stuck
       \/ /\ client[s] = "set" /\ s # "mongo"
          /\ stuck' = stuck \union {s}
          /\ UNCHANGED client
    /\ UNCHANGED <<vars, scheduler, engine, alertVars>>

\* close_http_client forgets the client before it closes it; an exception
\* other than RuntimeError ends the shutdown there.  The aiohttp session
\* that is closed next is never opened by the application.
CloseHttpClient ==
    /\ life = "quitHttp"
    /\ client' = [client EXCEPT !["httpx"] = "None"]
    /\ \/ life' = "dispose" /\ UNCHANGED stuck
       \/ client["httpx"] = "set" /\ life' = "failed" /\ stuck' = stuck \union {"httpx"}
    /\ UNCHANGED <<vars, scheduler, engine, alertVars>>

Dispose ==
    /\ life = "dispose"
    /\ life' = "exited"
    /\ engine' = "disposed"
    /\ UNCHANGED <<vars, client, stuck, scheduler, alertVars>>

LifeStep ==
    \/ Validate
    \/ Connect("redis", "kafka") \/ Connect("kafka", "mongo") \/ Connect("mongo", "workers")
    \/ StartWorkers \/ StartScheduler
    \/ StopScheduler \/ StopWorkers \/ WorkersStopped
    \/ Disconnect("quitKafka", "kafka", "quitRedis")
    \/ Disconnect("quitRedis", "redis", "quitMongo")
    \/ Disconnect("quitMongo", "mongo", "quitHttp")
    \/ CloseHttpClient \/ Dispose

\* The lists of channels a client may ask for; none stands for the default.
Requested == {<<>>, <<"email">>}

AppNext ==
    \/ LifeStep
    \/ OpenHttpClient \/ SubmitBatch \/ Shutdown
    \/ \E channels \in Requested : TestNotification(channels)
    \/ Send(Api)
    \/ \E w \in Workers : AppWorkerStep(w)

AppSpec == AppInit /\ [][AppNext]_appVars

\* The lifespan goes on (connecting and closing time out), and so do the
\* workers: providers are called with a timeout.
AppFairSpec ==
    /\ AppSpec
    /\ WF_appVars(LifeStep)
    /\ WF_appVars(Send(Api))
    /\ \A w \in Workers : WF_appVars(AppWorkerStep(w))

-----------------------------------------------------------------------------
(* Properties *)

Exit == {"exited", "failed"}

AppTypeOK ==
    /\ TypeOK
    /\ life \in Services \union Exit \union
         {"validate", "workers", "jobs", "serving", "stopJobs", "stopWorkers",
          "awaitWorkers", "quitKafka", "quitRedis", "quitMongo", "quitHttp", "dispose"}
    /\ client \in [Services \union {"httpx"} -> {"None", "set"}]
    /\ stuck \in SUBSET (Services \union {"httpx"})
    /\ scheduler \in {"running", "stopped", "unstopped"}
    /\ engine \in {"open", "disposed"}
    /\ todo \in [Senders -> Seq(ValidChannels)]
    /\ tried \in [Tasks -> Seq(ValidChannels)]

\* Nobody works on what has been taken away: while a worker executes a task
\* or sends an alert, no client has been closed and the engine is open.
UsersStopFirst ==
    Busy # {} => /\ life \in {"serving", "stopJobs", "stopWorkers", "awaitWorkers"}
                 /\ engine = "open" /\ stuck = {}

\* However startup and cleanup fail on the way, when the process exits after
\* serving, no worker is left, the scheduler was stopped or its own stop()
\* failed, each service's client is gone or its own closing failed, and the
\* engine was disposed of, unless closing the HTTP client raised: no failure
\* of one part keeps another from being released.  Runs of jobs that the
\* scheduler has cancelled may still be unwinding.
EverythingReleased ==
    /\ AppTypeOK
    /\ life = "exited" => engine = "disposed"
    /\ life \in Exit =>
          /\ scheduler # "running"
          /\ phase \in {"created", "stopped"}
          /\ \A s \in Services : client[s] = "None" \/ s \in stuck
    /\ life = "failed" /\ phase = "stopped" => "httpx" \in stuck

\* The alert of a failed task goes to the default channels in their order,
\* to each as often as the setting names it and no more, whatever the earlier
\* ones answered; no other task is ever announced.
AlertsInOrder ==
    \A t \in Tasks :
        /\ tried[t] # <<>> => status[t] = "failed"
        /\ Len(tried[t]) <= Len(DefaultChannels)
        /\ tried[t] = SubSeq(DefaultChannels, 1, Len(tried[t]))

\* The alert of every failed task is tried on all default channels, unless
\* the pool is stopped before: neither a failing channel nor a dead worker's
\* lost tasks keep the alert of another one back.  Whether a channel takes
\* the alert is its provider's affair.
FailuresAnnounced ==
    "notifications" \in Enabled =>
        \A t \in Tasks :
            status[t] = "failed" ~> (tried[t] = DefaultChannels \/ ~Running)

\* A shutdown that has begun comes to its end, whatever the workers are
\* doing and whichever of the closings fail.
ShutdownEnds == life = "stopJobs" ~> life \in Exit
=============================================================================
