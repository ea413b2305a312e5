------------------------------ MODULE Outbound ------------------------------
(***************************************************************************)
(* What the requests of the ingestor send to MongoDB and Kafka: POST       *)
(* /scrape/{source} stores documents and announces them, POST /records     *)
(* announces the row it committed (routers/scraper.py, routers/records.py, *)
(* storage/mongo.py, events.py).  Each of the two clients is guarded by a  *)
(* circuit breaker of its own: this module extends CircuitBreaker, whose   *)
(* variables are those of the breaker around _mongo_insert_one, and        *)
(* instantiates it once more for _send_to_kafka.                           *)
(*                                                                         *)
(* Requests are served between startup and shutdown of the application, so *)
(* the clients are connected before the first and disconnected after the   *)
(* last one.                                                               *)
(*                                                                         *)
(* Left out: how a scraper finds its items (see Fetching), the contents of *)
(* documents and events, and find_by_source, which only reads.             *)
(***************************************************************************)
EXTENDS CircuitBreaker, FiniteSets

CONSTANTS MaxItems      \* bound: items found by one scrape

ASSUME MaxItemsAssumption == MaxItems \in Nat
ASSUME CallersAssumption == IsFiniteSet(Callers)

VARIABLES
    kState, kCount, kAge, kCall,    \* the breaker around _send_to_kafka
    producer,   \* _producer: None, set but never started, or started
    db,         \* whether _db is set
    phase,      \* of the application
    req,        \* where each request is
    left,       \* items it has still to insert
    stored,     \* what it will report and announce
    docs,       \* ghost: rows or documents it has really brought to a database
    event,      \* ghost: the count announced by its event, None if none
    burst       \* ghost: sends to Kafka that failed since one succeeded and
                \* since none had failed for a recovery time

Kafka == INSTANCE CircuitBreaker WITH
    state <- kState, failureCount <- kCount, failureAge <- kAge, call <- kCall

kafkaVars == <<kState, kCount, kAge, kCall>>
clientVars == <<producer, db, phase>>
requestVars == <<req, left, stored, docs, event>>
outboundVars == <<vars, kafkaVars, clientVars, requestVars, burst>>

OutboundInit ==
    /\ Init
    /\ Kafka!Init
    /\ producer = "None"
    /\ db = FALSE
    /\ phase = "starting"
    /\ req = [c \in Callers |-> "idle"]
    /\ left = [c \in Callers |-> 0]
    /\ stored = [c \in Callers |-> 0]
    /\ docs = [c \in Callers |-> 0]
    /\ event = [c \in Callers |-> None]
    /\ burst = 0

-----------------------------------------------------------------------------
(* The clients' connections *)

\* connect_producer, if Kafka is enabled: _producer is set before start() is
\* awaited and stays set when start() fails, which is only logged.
ConnectProducer ==
    /\ phase = "starting" /\ producer = "None"
    /\ producer' \in {"unstarted", "started"}
    /\ UNCHANGED <<vars, kafkaVars, db, phase, requestVars, burst>>

\* connect_mongo: _db is set before the ping, whose failure is only logged.
ConnectMongo ==
    /\ phase = "starting" /\ ~db
    /\ db' = TRUE
    /\ UNCHANGED <<vars, kafkaVars, producer, phase, requestVars, burst>>

StartupDone ==
    /\ phase = "starting"
    /\ phase' = "serving"
    /\ UNCHANGED <<vars, kafkaVars, producer, db, requestVars, burst>>

\* disconnect_producer and disconnect_mongo.  A failing stop() is logged and
\* leaves _producer set; close() of the Mongo client does not fail.
Shutdown ==
    /\ phase = "serving"
    /\ \A c \in Callers : req[c] = "idle"
    /\ phase' = "stopped"
    /\ producer' \in {"None", producer}
    /\ db' = FALSE
    /\ UNCHANGED <<vars, kafkaVars, requestVars, burst>>

-----------------------------------------------------------------------------
(* The requests *)

Goto(c, next) == req' = [req EXCEPT ![c] = next]

Begin(c, next, items, rows) ==
    /\ phase = "serving"
    /\ req[c] = "idle"
    /\ Goto(c, next)
    /\ left' = [left EXCEPT ![c] = items]
    /\ stored' = [stored EXCEPT ![c] = rows]
    /\ docs' = [docs EXCEPT ![c] = rows]
    /\ event' = [event EXCEPT ![c] = None]
    /\ UNCHANGED <<vars, kafkaVars, clientVars, burst>>

\* create_record: the row is committed, then the event is published.
CreateRecord(c) == Begin(c, "publish", 0, 1)

\* scrape_source: the scraper returned n items.
Scrape(c, n) == Begin(c, "insert", n, 0)

\* insert_scraped_doc fails at once: not connected, or the breaker is open.
InsertRefused(c) ==
    /\ req[c] = "insert" /\ left[c] > 0
    /\ ~db \/ Rejected(c)
    /\ left' = [left EXCEPT ![c] = @ - 1]
    /\ UNCHANGED <<vars, kafkaVars, clientVars, req, stored, docs, event, burst>>

InsertBegins(c) ==
    /\ req[c] = "insert" /\ left[c] > 0
    /\ db
    /\ Admit(c)
    /\ Goto(c, "inserting")
    /\ UNCHANGED <<kafkaVars, clientVars, left, stored, docs, event, burst>>

InsertReturns(c) ==
    /\ req[c] = "inserting"
    /\ FuncReturns(c)
    /\ Goto(c, "insert")
    /\ left' = [left EXCEPT ![c] = @ - 1]
    /\ stored' = [stored EXCEPT ![c] = @ + 1]
    /\ docs' = [docs EXCEPT ![c] = @ + 1]
    /\ UNCHANGED <<kafkaVars, clientVars, event, burst>>

\* An exception, which the route logs; the document may have been stored.
InsertRaisesCounted(c) ==
    /\ req[c] = "inserting"
    /\ FuncRaises(c)
    /\ Goto(c, "insert")
    /\ left' = [left EXCEPT ![c] = @ - 1]
    /\ docs' \in {docs, [docs EXCEPT ![c] = @ + 1]}
    /\ stored' = [stored EXCEPT ![c] = @ + 1]
    /\ UNCHANGED <<kafkaVars, clientVars, event, burst>>
InsertRaises(c) ==
    /\ req[c] = "inserting"
    /\ FuncRaises(c)
    /\ Goto(c, "insert")
    /\ left' = [left EXCEPT ![c] = @ - 1]
    /\ docs' \in {docs, [docs EXCEPT ![c] = @ + 1]}
    /\ UNCHANGED <<kafkaVars, clientVars, stored, event, burst>>

InsertsDone(c) ==
    /\ req[c] = "insert" /\ left[c] = 0
    /\ Goto(c, "publish")
    /\ UNCHANGED <<vars, kafkaVars, clientVars, left, stored, docs, event, burst>>

\* publish_*: no producer, or an open breaker, is no failure of the request.
PublishSkipped(c) ==
    /\ req[c] = "publish"
    /\ producer = "None" \/ Kafka!Rejected(c)
    /\ Goto(c, "idle")
    /\ UNCHANGED <<vars, kafkaVars, clientVars, left, stored, docs, event, burst>>

PublishBegins(c) ==
    /\ req[c] = "publish"
    /\ producer # "None"
    /\ Kafka!Admit(c)
    /\ Goto(c, "publishing")
    /\ UNCHANGED <<vars, clientVars, left, stored, docs, event, burst>>

\* send_and_wait returns.  External: on a producer whose start() failed it
\* raises.
PublishReturns(c) ==
    /\ req[c] = "publishing"
    /\ producer = "started"
    /\ Kafka!FuncReturns(c)
    /\ event' = [event EXCEPT ![c] = stored[c]]
    /\ burst' = 0
    /\ Goto(c, "idle")
    /\ UNCHANGED <<vars, clientVars, left, stored, docs>>

\* It raises, perhaps after the broker has the message.  KafkaError is
\* logged, another exception ends the request: either way it is over.
PublishRaises(c) ==
    /\ req[c] = "publishing"
    /\ Kafka!FuncRaises(c)
    /\ \/ UNCHANGED event
       \/ producer = "started" /\ event' = [event EXCEPT ![c] = stored[c]]
    /\ burst' = burst + 1
    /\ Goto(c, "idle")
    /\ UNCHANGED <<vars, clientVars, left, stored, docs>>

\* The request is cancelled while it awaits one of the clients.
Cancelled(c) ==
    /\ \/ req[c] = "inserting" /\ FuncCancelled(c) /\ UNCHANGED kafkaVars
       \/ req[c] = "publishing" /\ Kafka!FuncCancelled(c) /\ UNCHANGED vars
    /\ Goto(c, "idle")
    /\ UNCHANGED <<clientVars, left, stored, docs, event, burst>>

\* One unit of time passes for both breakers.
ClockTick ==
    /\ Tick \/ (failureAge \in {None, RecoveryTimeout} /\ UNCHANGED vars)
    /\ Kafka!Tick \/ (kAge \in {None, RecoveryTimeout} /\ UNCHANGED kafkaVars)
    /\ burst' = IF kAge' = RecoveryTimeout THEN 0 ELSE burst
    /\ UNCHANGED <<clientVars, requestVars>>

RequestStep(c) ==
    \/ InsertRefused(c) \/ InsertBegins(c) \/ InsertReturns(c) \/ InsertRaises(c)
    \/ InsertsDone(c)
    \/ PublishSkipped(c) \/ PublishBegins(c) \/ PublishReturns(c) \/ PublishRaises(c)
    \/ Cancelled(c)

OutboundNext ==
    \/ ConnectProducer \/ ConnectMongo \/ StartupDone \/ Shutdown
    \/ ClockTick
    \/ \E c \in Callers :
          \/ CreateRecord(c)
          \/ \E n \in 0..MaxItems : Scrape(c, n)
          \/ RequestStep(c)

OutboundSpec == OutboundInit /\ [][OutboundNext]_outboundVars

\* Time passes, a request that has begun goes on (the clients' timeouts end
\* every call), and somebody keeps asking for scrapes while the application
\* serves.
OutboundFairSpec ==
    /\ OutboundSpec
    /\ WF_outboundVars(ClockTick)
    /\ \A c \in Callers : WF_outboundVars(RequestStep(c))
    /\ SF_outboundVars(\E c \in Callers : Scrape(c, MaxItems))

-----------------------------------------------------------------------------
OutboundTypeOK ==
    /\ TypeOK /\ Kafka!TypeOK
    /\ producer \in {"None", "unstarted", "started"}
    /\ db \in BOOLEAN
    /\ phase \in {"starting", "serving", "stopped"}
    /\ req \in [Callers -> {"idle", "insert", "inserting", "publish", "publishing"}]
    /\ left \in [Callers -> 0..MaxItems]
    /\ stored \in [Callers -> Nat]
    /\ docs \in [Callers -> Nat]
    /\ event \in [Callers -> Nat \union {None}]
    /\ burst \in Nat

\* An event never announces more than its request brought to the database
\* before it was sent: inserts that failed, were refused by the open breaker
\* or whose answer was lost are not counted.
EventBacked ==
    /\ OutboundTypeOK
    /\ \A c \in Callers : /\ stored[c] <= docs[c]
                          /\ event[c] # None => event[c] <= docs[c]

\* What a broker that is away, or a producer whose start() failed and which
\* every request calls all the same, has to bear: until one send succeeds or
\* none has failed for a recovery time, at most the threshold and one for
\* each other request in flight fail.  A half-open breaker may let as many
\* probes through at once as there are requests, but no more than that.
FailingSendsBounded == burst <= FailureThreshold + Cardinality(Callers) - 1

\* The Mongo breaker does not stay OPEN for ever while scrapes are asked
\* for: late failures of calls in flight restart its clock a finite number
\* of times only, and refused inserts do not restart it.
BreakerReopens == state = "OPEN" ~> (state # "OPEN" \/ phase = "stopped")
=============================================================================
