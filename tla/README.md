# TLA+ models of data-pipeline-async

Models, TLC runs and TLAPS proofs for the services of this repository. Every
module is translated from the Python source; `PROJECT.json` maps each
definition to its lines and lists the components, the runs, the hazards and the
theorems.

Run a model with `tlc -config <Module>.cfg MC<Module>` and check the proofs of
a module `<Name>Proofs` with `tlapm <Name>Proofs.tla`.

## 1. The system

| part | source | state | operations | talks to | module |
|---|---|---|---|---|---|
| background worker pool | `ingestor/core/background_workers.py`, `routers/background_processing.py` | bounded queue, status dictionary and its order, worker tasks, gauges | start, submit, worker loop, failure callback, stop, status, health | runs batch ingestion; started and stopped by the lifespan | WorkerPool, TaskService |
| life cycle | `ingestor/main.py`, `services_lifecycle.py` | which parts are up | start-up, shutdown | all of the others | Application |
| notifications | `ingestor/notifications.py`, `routers/notifications.py` | none | fan-out over channels | Slack, Telegram, webhook, e-mail | Application |
| circuit breaker | `libs/platform/circuit_breaker.py` | state, failure count, time of last failure | call, success, failure | wraps the Kafka and MongoDB calls | CircuitBreaker |
| event producer | `ingestor/events.py` | producer | connect, publish, disconnect | Kafka, a breaker | Outbound |
| document store | `ingestor/storage/mongo.py`, `routers/scraper.py` | database handle | connect, insert | MongoDB, a breaker | Outbound |
| batch ingestion | `ingestor/jobs.py`, `libs/platform/retry.py` | idempotency keys with their times | ingest single / batch, check, mark, clean up | PostgreSQL through `crud.py` | BatchIngest |
| event processor | `services/processor/main.py` | consumer position, retry counts | connect, consume, forward to DLQ, stop | Kafka | Processor |
| event log | `ingestor/storage/events.py` | status, attempts and DLQ flag per event | create, create batch, mark_* | PostgreSQL | EventLog |
| record handlers and cache | `routers/records.py`, `cache.py`, `crud.py` | row, Redis entry | GET, PATCH, process, archive, DELETE | PostgreSQL, Redis | RecordCache |
| idempotent upsert | `routers/records_v2.py`, `crud.py` | rows under a unique constraint | upsert | PostgreSQL | Upsert |
| scheduler and handlers | `core/scheduler.py`, `core/handlers.py`, `libs/platform/job_types.py` | jobs and their health | register, fire, retry, time out, stop | APScheduler | Scheduler |
| rate limiters | `rate_limiting_advanced.py` | bucket, deque of times | consume, is_allowed, Retry-After | v2 routes | RateLimiters |
| listing, pagination | `crud.py`, `routers/records*.py` | none (cursor in the client) | offset page, cursor page | PostgreSQL | Listing |
| vector index | `routers/vector_search.py`, `services/ai_gateway/*` | collection | index, search | Qdrant | VectorIndex |
| enrichment, scrapers | `fetch.py`, `crud.py`, `scrapers/*` | semaphores, seen URLs | enrich, scrape, fetch with retry | external HTTP | Fetching |
| sessions, auth | `auth.py` | sessions | login, verify, role checks | routes | – |
| query API, analytics, dashboard | `services/query_api`, `services/dashboard`, `routers/analytics.py` | none | read-only SQL and pages | PostgreSQL | – |

The hard behaviours are those of asyncio and of external services: a handler is
atomic between two awaits and can be overtaken at each of them; cancellation
arrives at an await; results arrive in a state other than the one the call was
admitted in; PostgreSQL, Redis, Kafka, MongoDB and Qdrant fail, also after
having done what was asked; processes are killed and restarted with empty
memory; bounded histories, queues and times to live expire what is still in
use; a session writes back a copy that others have changed meanwhile. The
`hazards` of `PROJECT.json` name the lines, each with the properties that would
catch it.

## 2. What is modelled

A step of a model is the code between two awaits. Data is abstracted to what
the properties tell apart: a batch is the set of its rows, a message its offset
and its kind, a record its version. Operators whose names say how they differ
from the code (`AdmitUngated`, `FinallyWithoutDec`, ...) stand directly before
the operator they vary and are used by no specification: put in its place, each
breaks a property, which shows that the property depends on that code.

**WorkerPool.** `queue`, `order`, `tracked` and `status` are `_queue`, `_order`,
the keys of `_statuses` and the status objects; `pc` and `job` are where each
worker is and what it holds. `Submit` is `submit_batch_ingest` with its trim.
`Take` has the two outcomes of `_statuses[task_id]`: found, or trimmed away,
which raises `KeyError` outside the `try` and ends the worker. `ProcessorReturns`,
`ProcessorRaises`, `CallbackEnds` and the three cancellations are the paths
through the `try`, each with its `finally`. `StopBegins` and `StopEnds` are the
two halves of `stop()`. One thing is assumed: closing the session does not raise
while its worker is being cancelled. An exception there would take the place of
the cancellation, `except Exception` would note a failure, the worker would loop
on and `stop()` would wait for it.

**TaskService** is what the pool promises: a bounded first-come, first-served
queue before a set of servers; every task that was let in is served by one
server and ends once. It knows no statuses, history, callback or gauges.
`WorkerPool` implements it (`Service == INSTANCE TaskService WITH ...`: the
door is open while `_running`, a server serves the task its worker holds until
the status says how it ended) as long as no worker can lose its task, that is,
when the history is at least as long as the queue.

**Application** extends WorkerPool with the process around it: the lifespan of
`main.py` step by step, each optional service with the failures its connect
tolerates, the scheduler, the engine, and the shutdown in its order, in which a
failing step (`stop()` of the scheduler included) is logged and skipped or, where
the code has no `try`, ends the shutdown. What the scheduler's jobs do is the
matter of Scheduler: here it is only known whether it runs. The pool's failure
callback is the lambda of the lifespan: one alert, sent to each configured
channel in turn; `POST /notifications/test` sends alongside. `Parsed` is `_parse_channels`, the setting's known names in order.

**CircuitBreaker.** `Admit` is the locked part of `call`, `FuncReturns`,
`FuncRaises` and `FuncCancelled` its end; in between other calls run. The lock
protects code without awaits, so it is never contended. Time is the age of the
last failure, in whole units.

**Outbound** composes two breakers with the requests that use them. It extends
CircuitBreaker, whose variables are the breaker around `_mongo_insert_one`, and
instantiates it again for `_send_to_kafka`. `CreateRecord` commits a row and
announces it; `Scrape` inserts its items one after the other, counts those the
store reports as written, and announces the count. The producer is `None`, set
but never started (its `start()` failed after it was published to the module),
or started; sends through one that never started always raise. The ghost `burst`
counts the sends that failed since one succeeded, or since a recovery time passed
without a failure.

**BatchIngest.** `seen` holds the age of each key. Check and mark are one step,
the insert another. The insert may fail, be cancelled, or commit and then fail
or be cancelled. The key of a batch is the date and the *number* of its records.
The ghost `mark` remembers which run marked a key last and how it ended.

**Processor.** The consumer loop over one partition. The position moves when a
message is handed out; automatic commits store it. `retry` is `retry_counts`.
A "bad" message raises an exception the loop catches; an "alien" one (JSON that
is no object) raises one it does not. Faults are lost sessions, failing
connections and DLQ sends, and kills. If the consumer was started and the
producer was not, the next attempt starts the consumer a second time, which
raises and ends the process (`StartTwice`). An orderly shutdown is SIGINT's:
`asyncio.run` installs no handler for SIGTERM, so that `docker stop` is a kill.

**EventLog.** `row` is the table, `view` the copies in each session's identity
map: `session.get` returns a copy the session already holds, however old. The
`mark_*` functions compute the new attributes from that copy and write them
back. Creation is an INSERT that falls back to a SELECT; a batch is one
statement. Ghosts count the answers `(event, True)` and the committed attempts,
and remember which events were written from an outdated copy, which were sent to
the dead letter queue (`buried`) and which of these were marked otherwise
afterwards (`overwritten`). The queries only read: of the dead letters a client
sees the newest 100, and the model says nothing about which.

**RecordCache.** One record, its cache entry, any number of clients. A GET is
hit, or miss, read and fill; a write is load, commit, refresh, and for process
and delete the invalidation. `cause` is a ghost variable: it names the gaps of
the design through which a stale entry came about, and is emptied when the
entry is. `acked`, `floor` and `answer` are ghosts for what clients have been
told. Rows deleted between load and commit follow SQLAlchemy: an UPDATE of no
row raises, a DELETE of no row is only warned about.

**Upsert.** One key, any number of clients: INSERT, commit, refresh, or after a
conflict the SELECT, while rows are archived, deleted and patched by others.
`rows` are all rows, by id, and `holder` is the one that holds the key: a PATCH
of source or timestamp moves it off the key (`PatchAway`) or another one onto it
(`PatchOnto`). An INSERT waits while another one of the same key is undecided.

**Scheduler.** `Fire` is the job wrapper around a handler with its back-off
decorator; attempts, pauses and the timeout race, and `Stop` cancels runs that
then unwind. `health` is the job's `JobHealth`.

**RateLimiters.** One client key. `passed` holds the times of all admitted
requests and `evicted` how many of them the deque has dropped, so the deque is
the rest. The bucket is measured in seconds of refill, which keeps it whole.

**Listing** and **VectorIndex.** The table under inserts, patches (which may
change the timestamp) and archives, and sessions that page through it by cursor
or by offset, with the total and the page as two queries. A page is the set of
its records, chosen by their ranks in the order of the query: the client keeps
what it has seen, what it has seen again, and how many rows it got. VectorIndex extends
it with the requests that read records and send them to the AI gateway, which
may index them after the client's timeout: such a request keeps its documents
until they arrive.

**Fetching.** An enrichment is a set of jobs under one semaphore, each with its
attempts and pauses; a scrape is a single job with its memory of seen URLs,
which the browser scraper fills before the page is complete and which, as a
Bloom filter, may answer "seen" for a new URL. What a scrape returns is the set
of the places on the page that it took. The limit acts where the code has it: in
the request (`_limit`), on the rows of the HTML page, of which those without a
title are skipped, and on the browser's items after all of them were marked as
seen. Only an `httpx.HTTPError` is retried by the HTTP scrapers; without
playwright the browser scraper gives up at once.

External parts (Kafka, PostgreSQL, Redis, MongoDB, Qdrant, APScheduler, clocks,
the container runtime) are modelled from how the code uses them and marked
`external` in the map.

## 3. Runs

One run per module, except that two modules are checked inside the module that
extends them: Listing in `listing` (VectorIndex) and CircuitBreaker in
`outbound`. A run checks safety and, where there is any, liveness together,
under the fair specification.

| run | shows |
|---|---|
| `pool` | with a history at least as long as the queue every accepted task is in one place and runs once, gauges are exact, and the pool implements TaskService; accepted tasks finish unless the pool stops |
| `application` | with a history *shorter* than the queue, which the settings allow, workers die of trimmed statuses while `running` stays true, and every lost task is accounted for by a dead worker; nothing is closed while workers use it; everything is released at the end, unless its own closing failed; alerts are tried on every configured channel, in order; a shutdown ends |
| `outbound` | an event announces what was really stored; breakers trip exactly at the threshold and are probed only after the timeout; a broker that is away, or a producer that never started, costs at most threshold + requests - 1 failing sends per recovery time; the Mongo breaker is probed again as long as it is used |
| `ingest` | overlap of a key only beyond its time to live; a request whose rows are not stored is turned away only while its own run is under way, after a run that failed, or for another request with its key; keys expire however often they are tried |
| `processor` | commits only what was delivered; each DLQ copy backed by MAX_RETRIES failures; a malformed message is passed over without a copy only if it was seen too few times, its count was dropped or the send failed; no message blocks the queue |
| `eventlog` | an event is created once; attempts are never overcounted, and exact unless an outdated copy was written back; a dead letter keeps its flag whatever marks come late, and its status is lost only to such a mark |
| `cache` | every stale entry has a pending invalidation or a known cause; a GET without such a cause shows every write acknowledged before it began; after the last write the cache becomes and stays fresh |
| `upsert` | one 201 per row; 200 and 409 name the active row of the key, 201 the new row, which holds the key unless a PATCH moved it |
| `scheduler` | every run is counted once, as success, failure or cancelled; no run outlasts its timeout even if the handler hangs |
| `limiters` | no window's length sees more than the limit; no burst exceeds the bucket and its refill; waiting as long as Retry-After says suffices, up to the jitter |
| `listing` | cursor pages show every steady record exactly once; offset pages err by at most one record per shift; what was acknowledged as indexed stays findable, and is older only after a race of two requests |
| `fetching` | a successful scrape returns at most `limit` items, none twice, and leaves out only what the filter, a failed browser attempt or the limit hides; every request is answered |

The known causes of staleness in `cache` are recorded by the ghost `cause`: a
fill that overtakes the invalidation, a fault, and PATCH and archive, which
never invalidate. `raced`, `stale`, `overwritten`, `moved`, `mark`, `forgotten`
and `lost` play the same part in VectorIndex, EventLog, Listing and Upsert,
BatchIngest, Processor and Fetching: the property holds exactly up to
the weakness of the design they name, and each of them is raised only at the
step where the weakness bites. The type invariants are proved; in BatchIngest,
Fetching, VectorIndex, Outbound and Application they are the first conjunct of
one of the invariants checked.

**Bounds.** All bounds are CONSTANTS named in the modules.

* `pool`: two workers, a queue of two, a history of three, six tasks: the
  history evicts finished and running tasks while the queue is full and both
  workers are busy.
* `application`: two workers, a queue of two, a history of one, four tasks, and
  three channel names of which one does not exist; Redis, Kafka and the alerts
  are enabled, MongoDB is not (its closing cannot fail).
* `outbound`: two requests at a time, a threshold of two, four failures (one
  more than `FailingSendsBounded` allows): a result of a call admitted before the
  trip comes late; two items, so that a scrape is shed in the middle.
* `ingest`: two overlapping runs, two batches of one size and a single without a
  key, two dates, ages to just beyond the time to live.
* `processor`: one message of each kind, MAX_RETRIES 3 and four faults (one
  redelivery beyond MAX_RETRIES), two start attempts.
* `eventlog`: two sessions, one event, three attempts, so that a copy can be
  several writes behind. A second event multiplies the states beyond reach; all
  three properties are proved for any set of events, batches included.
* `cache`: two clients with three writes, so that a reader meets a writer and
  two writers overtake each other, and one fault. `upsert`: two clients, one row
  under another key and two ids to be drawn, so that a key is inserted again after
  a delete or a PATCH; deletes, archives, PATCHes and faults are not bounded.
* `scheduler`: one recurring job and one that runs once, one retry, a timeout of
  two units, which can strike in an attempt, a pause or a retry; three runs.
* `limiters`: a limit of two per three seconds, a bucket of two and a half
  tokens, a jitter of -1 to 2 seconds, eight seconds.
* `listing`: two sessions, three records at two times, so that times tie, a
  page of one, two writes at any moment.
* `fetching`: requests share nothing, so there is one, with four jobs for two
  slots, or with a page of five items, one untitled and one repeated, and a limit
  of three.

Symmetry of sessions or clients is used in `eventlog`, `listing` and `upsert`
only, which check no liveness.

**Deadlock** is not checked where the system may rest: a pool, an application
or a scheduler that was stopped, a consumer without messages, scans that have
ended.

**Fairness.** Weak fairness of a worker's, client's, job's or loop's own steps
(WorkerPool, Application, Outbound, Processor, RecordCache, Fetching): the event
loop resumes every coroutine whose await is over, and the awaited calls end, by result, exception or timeout. In Scheduler a handler may
hang, so its end has no fairness; only the clock, the pauses, the timeout and
the unwinding do. Time advances (breaker, keys, scheduler), entries expire
(cache; an entry's life is only extended by GETs that had missed before it was
there, a bounded number). In `ingest` nothing else is assumed: that a *given*
batch gets in at last cannot be had, since another one with its date and number
of records may mark the key first every time. One assumption is strong: in
`outbound` a client asks again whenever it can do so again and again, since
`BreakerReopens` is about clients who keep asking. The container runtime
restarts a consumer that died; `docker-compose.yml:266-269` does so at most five
times, so `QueueDrains` holds as long as these last (the run has four faults and
one alien message). No fairness on faults,
submissions, publishing or stopping; in Application the shutdown, once begun,
goes on.

## 4. Proofs

Every safety property that a run checks, invariant or action property, is also
proved, for every value of the constants under the named assumptions of the
modules. The assumptions say that bounds and sizes are natural numbers, positive
where the code needs it, that times are natural numbers, that the setting of the
channels is a list of names, and that names which must differ do (`NoKey` is no
request, `Api` no worker). Some proof modules cover two components or three.

**ApplicationProofs** (WorkerPool and Application)

* The pool rests on `Shape`: the queue and the history are intervals of task
  numbers that end at the newest one, which makes "the newest MaxTracked tasks"
  and "the queued tasks" comparable; `JobsAgree` ties jobs, program counters and
  statuses together; `NothingLost` says that no worker is dead.
  `NoWorkerIsLost`, `TasksRunExactlyOnce`, `GaugesAreExact` and
  `PoolImplementsTaskService` assume `HistoryCoversQueue` (MaxTracked >=
  QueueSize): then every queued task is among the newest MaxTracked. Without it
  they are false, as `application` shows. The refinement needs the same
  invariant: each action of the pool is a step of TaskService or leaves its
  variables alone (`StepSimulation`).
* `LossesAreAccounted` needs no such condition. What it needs is
  `UnfinishedAccounted`: until the pool is stopped, the queue's count of
  unfinished tasks is made up of the queued tasks, the executed ones and those
  that died with a worker.
* `AppRunsThePool`: each step of the application is a step of the pool or leaves
  it alone, so what is proved of the pool holds in the application.
* The lifespan: `LifeAgrees`, `PartsAgree` and `ClientsAgree` say where pool,
  scheduler, engine and clients are at each point of start-up and shutdown.
  `UsersStopFirst` follows since a stopped pool has no busy worker,
  `EverythingReleased` since every other failure is caught where it happens, and
  only a failing close of the HTTP client skips the engine.
* The alerts: `AlertsAgree` says that what was tried and what is still to be
  tried make up the default channels, cut at the length of the former. That
  `Parsed` yields known channels for a setting of any length is shown by the
  least length for which it would not (`LeastNumber`), since induction rules
  cannot be instantiated here.

**OutboundProofs** (CircuitBreaker and Outbound)

* Threshold and timeout properties of a breaker together with its type
  invariant are inductive, for any set of overlapping callers.
* `MongoBreakerRefines` and `KafkaBreakerRefines`: Outbound implements
  CircuitBreaker twice, once by its own variables and once by those of `Kafka`;
  `BothBreakersSound` transfers the two properties.
* `EventsAreBacked` needs that an insert under way is one of the items left
  (`InsertingHasItem`) and that nothing is served before start-up is over
  (`QuietUntilStarted`).
* `DeadBrokerIsSpared` needs `BurstInv`: a closed breaker has counted what
  failed; after a recovery time without a failure nothing counts any more; and an
  open breaker has only the sends under way to fear, which are at most the other
  requests when it opens. So a half-open breaker starts from nothing, and lets at
  most one probe per request through before one of them fails.

**ProcessorProofs.** Delivery, redelivery and DLQ accounting for any log and
any number of faults: everything below the position has been delivered, each
message at most once more than it was rewound. `SkippedMessagesHaveCauses` needs
the exact account of each message whose count was never dropped (`Remembered`):
its failures are the count, MAX_RETRIES for each copy in the DLQ, and the one
that led to the forwarding under way.

**EventLogProofs.** `CreatedOnce` needs that no two sessions are inserting one
key (`ClaimsDisjoint`), which has no row until then (`KeysKnown`), and that
nothing is counted before there is a row (`NothingBeforeRow`).
`AttemptsCounted` and `DeadLettersAccounted` need that a copy is never ahead of
its row, and flagged if its status is dead_letter (`CopiesTrail`): so writing
back an old copy cannot take a flag away, only the status.

**RecordCacheProofs.** `StalenessHasACause` is not inductive: a
`process_record` whose row is deleted fails at its refresh and never
invalidates. `GoneIsCovered` adds that a delete, whose commit came later, is
still on its way to invalidate. `EntryCoversAcknowledged` needs that
acknowledged and committed versions are bounded by the row (`AckedInRow`,
`CommittedInRow`) and that writes which do not invalidate are shown by every
entry without a cause (`UnseenShown`); `GetsCoverAcknowledged` follows it from
the start of a GET to its answer (`ReadCovers`).

**JobsProofs** (Scheduler and BatchIngest)

* `RunsAccounted` with: only a run with retries left pauses
  (`PausesLeaveRetries`), and after `stop()` a run can only unwind
  (`StoppedUnwinds`, `CancelledByStop`).
* `OverlapOnlyAfterTtl` needs `MarkedWhileYoung`: a run that has not outlived
  its time to live is as old as the mark of its key, so a second run would have
  found the mark. `DuplicatesHaveCauses` needs `MarksHaveOwners`: a marked key is
  that of the request that marked it, on the day it did, and the run that did so
  still goes on, has failed, or its rows are stored.

**RecordsV2Proofs** (RateLimiters and Upsert)

* For the window: no time lies in the future, what was evicted is too old for
  good, what is kept is at most the limit; so a newly admitted request and the
  one Limit places before it are a window apart. For the bucket, a potential:
  the level plus what was drawn since any earlier request is at most a full
  bucket plus the refill. `RetryAfterIsEnough` follows from what either limiter
  would answer after the wait.
* At most one INSERT of the key is undecided (`OneInserter`); ids drawn by
  unanswered requests differ, were not yet reported as created and have a row
  from the commit on (`DrawnOnce`), later ids have none (`Undrawn`); and a row
  that waits for its refresh holds the key unless it was deleted or a PATCH moved
  it (`NewRowHolds`).

**CrudProofs** (Listing, VectorIndex and Fetching)

* `CursorPagingIsExact` needs `CursorInv`: a steady record was shown exactly
  when it does not lie beyond the cursor. A page is an initial part of what lies
  beyond it, and all of it when it fits (`FirstRows`); the order of the keys is
  total since ids break the ties of timestamps (`KeyOrder`).
* `OffsetDriftIsBounded` needs a potential, `OffsetInv`: the records that the
  scan would miss, or show again, if nothing moved any more (`Missed`,
  `Repeated`) are at most those that moved. A write changes ranks by at most one
  (`RankAfterAdding`) and ranks differ (`RankInjective`), so at most one record
  crosses the offset or the total; a page hands over exactly what it repeats.
* `AcknowledgedStaysIndexed` needs `VersionInv`: no document is ahead of its
  record, and one on its way that is older than what was acknowledged is already
  marked as having raced.
* `ScrapesAreComplete` needs `BrowserMemory`: what a browser remembers is
  exactly what it returned and what it lost, and contains all it has read. An
  HTTP scrape takes the first of equal items (`FreshItems`). `FirstItemsCut` says
  what `items[:limit]` leaves: as many places as the limit, all before those cut
  off (`CutIsComplete`).

Only model-checked are the nine liveness properties: `AcceptedTasksFinish`,
`FailuresAnnounced`, `ShutdownEnds`, `BreakerReopens`, `KeysExpire`,
`QueueDrains`, `EventuallyFresh`, `RunsEnd` and `RequestsAnswered`. They need
fairness and ENABLED, which are out of the prover's reach. No module declares a
RECURSIVE operator; `Parsed` is a recursive function.

## 5. Where code and documentation disagree

Met while modelling; the models follow the code.

* `libs/platform/circuit_breaker.py:15` ("One probe call is allowed") and
  `docs/design/architecture.md:950` ("1 probe allowed") speak of one probe; the
  gate admits every call that comes while one is in flight. What that costs at
  most is `FailingSendsBounded`.
* `ingestor/events.py:99` says "No-op if producer is not connected". `_producer`
  is set before `start()` is awaited, so that a producer which never connected is
  called by every request the breaker lets through, and raises.
* `ingestor/jobs.py:124` answers "already processed" for a batch whose key, date
  and number of records, was used by another batch, or by one that failed.
* `docs/design/architecture.md:861` and `:903` ("retry 3x → forward to DLQ") and
  `services/processor/main.py:4` say that a failing message goes to the DLQ after
  three retries. The position has moved on after a failure and nothing asks for
  the message again, so that without a fault a malformed message fails once, is
  skipped and never gets to the DLQ (theorem `RedeliveryCostsAFault`, first cause
  of `SkippedHasACause`).
* `services/processor/main.py:16` says that SIGTERM is handled by asyncio's
  cancellation. `asyncio.run` does so for SIGINT only; SIGTERM ends the process
  without the `finally` block. A start attempt after one in which only the
  consumer came up calls `start()` of a started consumer (line 171).
* `ingestor/storage/events.py:253` says "Fetch all events in the dead letter
  queue"; the query has a limit, 100 by default. The `mark_*` functions look at no
  status, so that a late completion or failure takes the status dead_letter away
  while the flag stays.
* `docs/design/decisions.md:139` says that PATCH invalidates the cache; it does
  not. After `process_record` (`routers/records.py:245`) a GET can still fill
  the entry with the state it had read before.
* `ingestor/crud.py:608` asserts that a conflicting row is found. The constraint
  (`models.py:106`) covers archived rows, the SELECT does not, so the assertion
  fails for an archived key without any race.
* The scheduler stores a job's `max_retries` and never uses it; a job with
  `trigger=None`, commented as disabled, runs once at start-up; the scheduled
  ingestion is given `get_db`, an async generator function, as session factory,
  so that its use fails and is swallowed; `stop()` does not wait for cancelled
  runs to unwind.
* `delete_points` of the AI gateway has no caller: archived records stay in the
  vector index.

## 6. Not modelled

* Sessions and authentication: a dictionary whose entries are made, looked up
  and dropped in one step without an await, and stateless token checks.
* Query API, analytics, the date-range query and the N+1 demonstration:
  read-only SQL, evaluated by PostgreSQL. The dashboard forwards requests.
* Search, its filters and the embeddings: they change nothing.
* The slowapi limiter of v1 (a library); `fetch_aiohttp.py` (the retry loop of
  `fetch.py` again, without a caller).
* The work inside the example job handlers, and the health routes.
* Configuration, schemas, metrics, logging and tracing: declarations and
  formatting. Migrations, scripts and infrastructure: no run-time behaviour.

Left to do: action properties of Application and RecordCache (what a step of
the shutdown, or of a handler, may never do), and an abstract specification of
the record store that the handlers, the cache and the pages implement up to the
weaknesses named by their ghosts.
