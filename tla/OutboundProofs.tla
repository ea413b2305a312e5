--------------------------- MODULE OutboundProofs ---------------------------
(***************************************************************************)
(* Proofs about CircuitBreaker, for any set of callers, threshold and      *)
(* timeout, and about Outbound, which runs two breakers, for any number of *)
(* items too.                                                              *)
(*                                                                         *)
(* The invariant of the breaker is the pair TrippedAtThreshold and         *)
(* ProbeAfterTimeout, inductive once together: the state and the count     *)
(* change in the same critical sections, so no interleaving of late        *)
(* outcomes can separate them.  Every step of Outbound is a step of each   *)
(* breaker or leaves it alone, so that both inherit what is proved of one. *)
(***************************************************************************)
EXTENDS Outbound, FiniteSetTheorems, TLAPS

BreakerInv == TypeOK /\ TrippedAtThreshold /\ ProbeAfterTimeout

LEMMA BreakerInductive == BreakerInv /\ [Next]_vars => BreakerInv'
<1> SUFFICES ASSUME BreakerInv, [Next]_vars PROVE BreakerInv'
  OBVIOUS
<1> USE BreakerAssumption
       DEF BreakerInv, TypeOK, TrippedAtThreshold, ProbeAfterTimeout, None
<1>1. CASE Tick
  BY <1>1 DEF Tick
<1>2. ASSUME NEW c \in Callers, Admit(c) PROVE BreakerInv'
  BY <1>2 DEF Admit, MaybeHalfOpen
<1>3. ASSUME NEW c \in Callers, FuncReturns(c) PROVE BreakerInv'
  BY <1>3 DEF FuncReturns, OnSuccess
<1>4. ASSUME NEW c \in Callers, FuncRaises(c) PROVE BreakerInv'
  <2>1. /\ failureCount' = failureCount + 1
        /\ failureAge' = 0
        /\ call' = [call EXCEPT ![c] = "none"]
    BY <1>4 DEF FuncRaises, OnFailure
  <2>2. CASE failureCount' >= FailureThreshold
    <3>1. state' = "OPEN"
      BY <1>4, <2>2 DEF FuncRaises, OnFailure
    <3> QED BY <2>1, <2>2, <3>1
  <2>3. CASE ~(failureCount' >= FailureThreshold)
    <3>1. state = "CLOSED"
      BY <2>1, <2>3
    <3>2. state' = "CLOSED"
      BY <1>4, <2>3, <3>1 DEF FuncRaises, OnFailure
    <3> QED BY <2>1, <2>3, <3>2
  <2> QED BY <2>2, <2>3
<1>5. ASSUME NEW c \in Callers, FuncCancelled(c) PROVE BreakerInv'
  BY <1>5 DEF FuncCancelled
<1>6. CASE UNCHANGED vars
  BY <1>6 DEF vars
<1> QED BY <1>1, <1>2, <1>3, <1>4, <1>5, <1>6 DEF Next

LEMMA BreakerInvariant == Spec => []BreakerInv
<1>1. Init => BreakerInv
  BY BreakerAssumption
  DEF Init, BreakerInv, TypeOK, TrippedAtThreshold, ProbeAfterTimeout, None
<1> QED BY <1>1, BreakerInductive, PTL DEF Spec

\* Type correctness of the breaker.
THEOREM BreakerTypeCorrect == Spec => []TypeOK
<1>1. BreakerInv => TypeOK
  BY DEF BreakerInv
<1> QED BY <1>1, BreakerInvariant, PTL

\* The breaker is tripped exactly when the failure count has reached the
\* threshold, for any number of callers whose outcomes arrive in any order;
\* the `or HALF_OPEN' of _on_failure never decides alone.
THEOREM TrippedExactlyAtThreshold == Spec => []TrippedAtThreshold
<1>1. BreakerInv => TrippedAtThreshold
  BY DEF BreakerInv
<1> QED BY <1>1, BreakerInvariant, PTL

\* A probe is only let through when recovery_timeout has elapsed since the
\* last failure of any call.
THEOREM ProbesWaitForTimeout == Spec => []ProbeAfterTimeout
<1>1. BreakerInv => ProbeAfterTimeout
  BY DEF BreakerInv
<1> QED BY <1>1, BreakerInvariant, PTL

\* While the breaker is OPEN and its time has not come, no call begins.
THEOREM OpenBreakerShedsLoad == Spec => OpenShedsLoad
<1> DEFINE Shed == state = "OPEN" /\ failureAge < RecoveryTimeout =>
                       \A c \in Callers : call'[c] \in {"none", call[c]}
<1>1. BreakerInv /\ [Next]_vars => [Shed]_vars
  <2> SUFFICES ASSUME BreakerInv, Next, state = "OPEN", failureAge < RecoveryTimeout,
                      NEW d \in Callers
               PROVE  call'[d] \in {"none", call[d]}
    OBVIOUS
  <2> USE DEF BreakerInv, TypeOK
  <2>1. CASE Tick
    BY <2>1 DEF Tick
  <2>2. ASSUME NEW c \in Callers, Admit(c) PROVE FALSE
    <3>1. MaybeHalfOpen = "OPEN"
      BY BreakerAssumption DEF MaybeHalfOpen, ProbeAfterTimeout, None
    <3> QED BY <2>2, <3>1 DEF Admit
  <2>3. ASSUME NEW c \in Callers,
               FuncReturns(c) \/ FuncRaises(c) \/ FuncCancelled(c)
        PROVE  call'[d] \in {"none", call[d]}
    BY <2>3 DEF FuncReturns, FuncRaises, FuncCancelled
  <2> QED BY <2>1, <2>2, <2>3 DEF Next
<1> QED BY <1>1, BreakerInvariant, PTL DEF Spec, OpenShedsLoad

-----------------------------------------------------------------------------
(* Both breakers of the ingestor *)

\* Every step of Outbound is a step of the Mongo breaker or leaves it alone.
LEMMA MongoBreakerStep == [OutboundNext]_outboundVars => [Next]_vars
<1> SUFFICES ASSUME [OutboundNext]_outboundVars PROVE [Next]_vars
  OBVIOUS
<1>1. CASE ConnectProducer \/ ConnectMongo \/ StartupDone \/ Shutdown
  BY <1>1 DEF ConnectProducer, ConnectMongo, StartupDone, Shutdown
<1>2. CASE ClockTick
  BY <1>2 DEF ClockTick, Next
<1>3. ASSUME NEW c \in Callers, CreateRecord(c) \/ \E n \in 0..MaxItems : Scrape(c, n)
      PROVE  UNCHANGED vars
  BY <1>3 DEF CreateRecord, Scrape, Begin
<1>4. ASSUME NEW c \in Callers, RequestStep(c)
      PROVE  [Next]_vars
  <2>1. CASE InsertRefused(c) \/ InsertsDone(c) \/ PublishSkipped(c) \/ PublishBegins(c)
             \/ PublishReturns(c) \/ PublishRaises(c)
    BY <2>1 DEF InsertRefused, InsertsDone, PublishSkipped, PublishBegins,
       PublishReturns, PublishRaises
  <2>2. CASE InsertBegins(c) \/ InsertReturns(c) \/ InsertRaises(c)
    BY <2>2 DEF InsertBegins, InsertReturns, InsertRaises, Next
  <2>3. CASE Cancelled(c)
    BY <2>3 DEF Cancelled, Next
  <2> QED BY <1>4, <2>1, <2>2, <2>3 DEF RequestStep
<1>5. CASE UNCHANGED outboundVars
  BY <1>5 DEF outboundVars
<1> QED BY <1>1, <1>2, <1>3, <1>4, <1>5 DEF OutboundNext

\* Every step of Outbound is a step of the Kafka breaker or leaves it alone.
LEMMA KafkaBreakerStep == [OutboundNext]_outboundVars => [Kafka!Next]_kafkaVars
<1> SUFFICES ASSUME [OutboundNext]_outboundVars PROVE [Kafka!Next]_kafkaVars
  OBVIOUS
<1>1. CASE ConnectProducer \/ ConnectMongo \/ StartupDone \/ Shutdown
  BY <1>1 DEF ConnectProducer, ConnectMongo, StartupDone, Shutdown
<1>2. CASE ClockTick
  BY <1>2 DEF ClockTick, Kafka!Next
<1>3. ASSUME NEW c \in Callers, CreateRecord(c) \/ \E n \in 0..MaxItems : Scrape(c, n)
      PROVE  UNCHANGED kafkaVars
  BY <1>3 DEF CreateRecord, Scrape, Begin
<1>4. ASSUME NEW c \in Callers, RequestStep(c)
      PROVE  [Kafka!Next]_kafkaVars
  <2>1. CASE InsertRefused(c) \/ InsertsDone(c) \/ PublishSkipped(c) \/ InsertBegins(c)
             \/ InsertReturns(c) \/ InsertRaises(c)
    BY <2>1 DEF InsertRefused, InsertsDone, PublishSkipped, InsertBegins,
       InsertReturns, InsertRaises
  <2>2. CASE PublishBegins(c) \/ PublishReturns(c) \/ PublishRaises(c)
    BY <2>2 DEF PublishBegins, PublishReturns, PublishRaises, Kafka!Next
  <2>3. CASE Cancelled(c)
    BY <2>3 DEF Cancelled, Kafka!Next
  <2> QED BY <1>4, <2>1, <2>2, <2>3 DEF RequestStep
<1>5. CASE UNCHANGED outboundVars
  BY <1>5 DEF outboundVars
<1> QED BY <1>1, <1>2, <1>3, <1>4, <1>5 DEF OutboundNext

\* The breaker around _mongo_insert_one, as the requests drive it, behaves as
\* a circuit breaker: all that is proved of CircuitBreaker holds of it.
THEOREM MongoBreakerRefines == OutboundSpec => Spec
<1>1. OutboundInit => Init
  BY DEF OutboundInit
<1> QED BY <1>1, MongoBreakerStep, PTL DEF OutboundSpec, Spec

\* So does the breaker around _send_to_kafka.
THEOREM KafkaBreakerRefines == OutboundSpec => Kafka!Spec
<1>1. OutboundInit => Kafka!Init
  BY DEF OutboundInit
<1>2. [OutboundNext]_outboundVars => [Kafka!Next]_(Kafka!vars)
  BY KafkaBreakerStep DEF Kafka!vars, kafkaVars
<1> QED BY <1>1, <1>2, PTL DEF OutboundSpec, Kafka!Spec

\* The invariant of the second breaker.
KafkaInv == Kafka!TypeOK /\ Kafka!TrippedAtThreshold /\ Kafka!ProbeAfterTimeout

LEMMA KafkaInductive == KafkaInv /\ [Kafka!Next]_kafkaVars => KafkaInv'
<1> SUFFICES ASSUME KafkaInv, [Kafka!Next]_kafkaVars PROVE KafkaInv'
  OBVIOUS
<1> USE BreakerAssumption
       DEF KafkaInv, Kafka!TypeOK, Kafka!TrippedAtThreshold, Kafka!ProbeAfterTimeout,
           Kafka!None
<1>1. CASE Kafka!Tick
  BY <1>1 DEF Kafka!Tick
<1>2. ASSUME NEW c \in Callers, Kafka!Admit(c) PROVE KafkaInv'
  BY <1>2 DEF Kafka!Admit, Kafka!MaybeHalfOpen
<1>3. ASSUME NEW c \in Callers, Kafka!FuncReturns(c) PROVE KafkaInv'
  BY <1>3 DEF Kafka!FuncReturns, Kafka!OnSuccess
<1>4. ASSUME NEW c \in Callers, Kafka!FuncRaises(c) PROVE KafkaInv'
  <2>1. /\ kCount' = kCount + 1
        /\ kAge' = 0
        /\ kCall' = [kCall EXCEPT ![c] = "none"]
    BY <1>4 DEF Kafka!FuncRaises, Kafka!OnFailure
  <2>2. CASE kCount' >= FailureThreshold
    <3>1. kState' = "OPEN"
      BY <1>4, <2>2 DEF Kafka!FuncRaises, Kafka!OnFailure
    <3> QED BY <2>1, <2>2, <3>1
  <2>3. CASE ~(kCount' >= FailureThreshold)
    <3>1. kState = "CLOSED"
      BY <2>1, <2>3
    <3>2. kState' = "CLOSED"
      BY <1>4, <2>3, <3>1 DEF Kafka!FuncRaises, Kafka!OnFailure
    <3> QED BY <2>1, <2>3, <3>2
  <2> QED BY <2>2, <2>3
<1>5. ASSUME NEW c \in Callers, Kafka!FuncCancelled(c) PROVE KafkaInv'
  BY <1>5 DEF Kafka!FuncCancelled
<1>6. CASE UNCHANGED kafkaVars
  BY <1>6 DEF kafkaVars
<1> QED BY <1>1, <1>2, <1>3, <1>4, <1>5, <1>6 DEF Kafka!Next

\* What the two breakers guarantee while the requests of the ingestor use
\* them side by side.
THEOREM BothBreakersSound ==
    OutboundSpec => [](/\ TrippedAtThreshold /\ ProbeAfterTimeout
                       /\ Kafka!TrippedAtThreshold /\ Kafka!ProbeAfterTimeout)
<1>1. OutboundInit => KafkaInv
  BY BreakerAssumption
  DEF OutboundInit, Kafka!Init, KafkaInv, Kafka!TypeOK, Kafka!TrippedAtThreshold,
      Kafka!ProbeAfterTimeout, Kafka!None
<1>2. OutboundSpec => []KafkaInv
  BY <1>1, KafkaInductive, KafkaBreakerStep, PTL DEF OutboundSpec
<1>3. BreakerInv /\ KafkaInv => /\ TrippedAtThreshold /\ ProbeAfterTimeout
                               /\ Kafka!TrippedAtThreshold /\ Kafka!ProbeAfterTimeout
  BY DEF BreakerInv, KafkaInv
<1> QED BY <1>2, <1>3, MongoBreakerRefines, BreakerInvariant, PTL

-----------------------------------------------------------------------------
(* The requests *)

\* An insert under way is one of the items that are left.
InsertingHasItem == \A c \in Callers : req[c] = "inserting" => left[c] > 0

OutboundInv ==
    /\ BreakerInv /\ KafkaInv
    /\ EventBacked /\ InsertingHasItem

LEMMA OutboundTypeInductive ==
    ASSUME OutboundTypeOK, InsertingHasItem, TypeOK', Kafka!TypeOK',
           [OutboundNext]_outboundVars
    PROVE  OutboundTypeOK'
<1> USE MaxItemsAssumption DEF OutboundTypeOK
<1>0. None = -1 /\ 0 \in Nat /\ 1 \in Nat
  BY DEF None
<1>1. CASE ConnectProducer \/ ConnectMongo \/ StartupDone \/ Shutdown
  BY <1>1 DEF ConnectProducer, ConnectMongo, StartupDone, Shutdown, requestVars
<1>2. CASE ClockTick
  BY <1>2 DEF ClockTick, clientVars, requestVars
<1>3. ASSUME NEW c \in Callers, NEW next \in {"publish", "insert"},
             NEW n \in 0..MaxItems, NEW k \in Nat, Begin(c, next, n, k)
      PROVE  OutboundTypeOK'
  BY <1>3 DEF Begin, Goto, clientVars
<1>4. ASSUME NEW c \in Callers, RequestStep(c)
      PROVE  OutboundTypeOK'
  <2>1. CASE InsertRefused(c)
    BY <2>1 DEF InsertRefused, clientVars
  <2>2. CASE InsertBegins(c)
    BY <2>2 DEF InsertBegins, Goto, clientVars
  <2>3. CASE InsertReturns(c)
    <3>1. left[c] > 0
      BY <2>3 DEF InsertReturns, InsertingHasItem
    <3> QED BY <2>3, <3>1 DEF InsertReturns, Goto, clientVars
  <2>4. CASE InsertRaises(c)
    <3>1. left[c] > 0
      BY <2>4 DEF InsertRaises, InsertingHasItem
    <3> QED BY <2>4, <3>1 DEF InsertRaises, Goto, clientVars
  <2>5. CASE InsertsDone(c)
    BY <2>5 DEF InsertsDone, Goto, clientVars
  <2>6. CASE PublishSkipped(c)
    BY <2>6 DEF PublishSkipped, Goto, clientVars
  <2>7. CASE PublishBegins(c)
    BY <2>7 DEF PublishBegins, Goto, clientVars
  <2>8. CASE PublishReturns(c)
    BY <2>8 DEF PublishReturns, Goto, clientVars
  <2>9. CASE PublishRaises(c)
    BY <2>9 DEF PublishRaises, Goto, clientVars
  <2>10. CASE Cancelled(c)
    BY <2>10 DEF Cancelled, Goto, clientVars
  <2> QED BY <1>4, <2>1, <2>2, <2>3, <2>4, <2>5, <2>6, <2>7, <2>8, <2>9, <2>10
          DEF RequestStep
<1>5. CASE UNCHANGED outboundVars
  BY <1>5 DEF outboundVars, clientVars, requestVars
<1>6. ASSUME NEW c \in Callers, CreateRecord(c) \/ \E n \in 0..MaxItems : Scrape(c, n)
      PROVE  OutboundTypeOK'
  BY <1>0, <1>3, <1>6 DEF CreateRecord, Scrape
<1> QED BY <1>1, <1>2, <1>4, <1>5, <1>6 DEF OutboundNext

\* What a step does to the counts of the requests and to the events.
LEMMA RequestsInductive ==
    ASSUME OutboundTypeOK, OutboundTypeOK', EventBacked, InsertingHasItem,
           [OutboundNext]_outboundVars
    PROVE  EventBacked' /\ InsertingHasItem'
<1> USE DEF OutboundTypeOK, EventBacked, InsertingHasItem
<1>0. None = -1
  BY DEF None
<1>1. CASE ConnectProducer \/ ConnectMongo \/ StartupDone \/ Shutdown
  BY <1>1 DEF ConnectProducer, ConnectMongo, StartupDone, Shutdown, requestVars
<1>2. CASE ClockTick
  BY <1>2 DEF ClockTick, clientVars, requestVars
<1>3. ASSUME NEW c \in Callers, NEW next \in {"publish", "insert"},
             NEW n \in 0..MaxItems, NEW k \in Nat, Begin(c, next, n, k)
      PROVE  EventBacked' /\ InsertingHasItem'
  BY <1>3 DEF Begin, Goto, clientVars
<1>4. ASSUME NEW c \in Callers, RequestStep(c)
      PROVE  EventBacked' /\ InsertingHasItem'
  <2>0. UNCHANGED clientVars
    BY <1>4 DEF RequestStep, InsertRefused, InsertBegins, InsertReturns, InsertRaises,
       InsertsDone, PublishSkipped, PublishBegins, PublishReturns, PublishRaises, Cancelled
  <2>1. CASE InsertRefused(c)
    BY <2>0, <2>1 DEF InsertRefused, clientVars
  <2>2. CASE InsertBegins(c)
    BY <2>0, <2>2 DEF InsertBegins, Goto, clientVars
  <2>3. CASE InsertReturns(c)
    BY <1>0, <2>0, <2>3 DEF InsertReturns, Goto, clientVars
  <2>4. CASE InsertRaises(c)
    BY <1>0, <2>0, <2>4 DEF InsertRaises, Goto, clientVars
  <2>5. CASE InsertsDone(c)
    BY <2>0, <2>5 DEF InsertsDone, Goto, clientVars
  <2>6. CASE PublishSkipped(c)
    BY <2>0, <2>6 DEF PublishSkipped, Goto, clientVars
  <2>7. CASE PublishBegins(c)
    BY <2>0, <2>7 DEF PublishBegins, Goto, clientVars
  <2>8. CASE PublishReturns(c)
    BY <1>0, <2>0, <2>8 DEF PublishReturns, Goto, clientVars
  <2>9. CASE PublishRaises(c)
    BY <1>0, <2>0, <2>9 DEF PublishRaises, Goto, clientVars
  <2>10. CASE Cancelled(c)
    BY <2>0, <2>10 DEF Cancelled, Goto, clientVars
  <2> QED BY <1>4, <2>1, <2>2, <2>3, <2>4, <2>5, <2>6, <2>7, <2>8, <2>9, <2>10
          DEF RequestStep
<1>5. CASE UNCHANGED outboundVars
  BY <1>5 DEF outboundVars, clientVars, requestVars
<1>6. ASSUME NEW c \in Callers, CreateRecord(c) \/ \E n \in 0..MaxItems : Scrape(c, n)
      PROVE  EventBacked' /\ InsertingHasItem'
  BY <1>3, <1>6, MaxItemsAssumption DEF CreateRecord, Scrape
<1> QED BY <1>1, <1>2, <1>4, <1>5, <1>6 DEF OutboundNext

LEMMA OutboundInvHolds == OutboundSpec => []OutboundInv
<1>1. OutboundInit => OutboundInv
  <2> SUFFICES ASSUME OutboundInit PROVE OutboundInv
    OBVIOUS
  <2>1. BreakerInv
    BY BreakerAssumption DEF OutboundInit, Init, BreakerInv, TypeOK, TrippedAtThreshold,
       ProbeAfterTimeout, None
  <2>2. KafkaInv
    BY BreakerAssumption DEF OutboundInit, Kafka!Init, KafkaInv, Kafka!TypeOK,
       Kafka!TrippedAtThreshold, Kafka!ProbeAfterTimeout, Kafka!None
  <2>3. OutboundTypeOK
    <3>1. TypeOK /\ Kafka!TypeOK
      BY <2>1, <2>2 DEF BreakerInv, KafkaInv
    <3>2. db \in BOOLEAN
      BY DEF OutboundInit
    <3>3. /\ producer \in {"None", "unstarted", "started"}
          /\ phase \in {"starting", "serving", "stopped"}
          /\ req \in [Callers -> {"idle", "insert", "inserting", "publish", "publishing"}]
          /\ event \in [Callers -> Nat \union {None}]
      BY DEF OutboundInit
    <3>4. /\ burst \in Nat
          /\ left \in [Callers -> 0..MaxItems]
          /\ stored \in [Callers -> Nat] /\ docs \in [Callers -> Nat]
      BY MaxItemsAssumption DEF OutboundInit
    <3> QED BY <3>1, <3>2, <3>3, <3>4 DEF OutboundTypeOK
  <2>4. EventBacked /\ InsertingHasItem
    BY <2>3 DEF OutboundInit, EventBacked, InsertingHasItem
  <2> QED BY <2>1, <2>2, <2>4 DEF OutboundInv
<1>2. OutboundInv /\ [OutboundNext]_outboundVars => OutboundInv'
  <2> SUFFICES ASSUME OutboundInv, [OutboundNext]_outboundVars PROVE OutboundInv'
    OBVIOUS
  <2>1. BreakerInv' /\ KafkaInv'
    BY MongoBreakerStep, KafkaBreakerStep, BreakerInductive, KafkaInductive DEF OutboundInv
  <2>2. OutboundTypeOK'
    BY <2>1, OutboundTypeInductive DEF OutboundInv, BreakerInv, KafkaInv, EventBacked
  <2> QED BY <2>1, <2>2, RequestsInductive DEF OutboundInv, EventBacked
<1> QED BY <1>1, <1>2, PTL DEF OutboundSpec

\* No event announces more than its request brought to the database before,
\* for any number of items and of requests whose calls fail, are refused or
\* are cancelled in any order; the state of the clients is well typed.
THEOREM EventsAreBacked == OutboundSpec => []EventBacked
<1>1. OutboundInv => EventBacked
  BY DEF OutboundInv
<1> QED BY <1>1, OutboundInvHolds, PTL

\* The sends under way.
InFlight == {c \in Callers : kCall[c] # "none"}

\* A closed breaker has counted what failed; when a recovery time has passed
\* the failures are forgotten, and until then an open one has only the sends
\* under way to fear.
BurstInv ==
    /\ kState = "CLOSED" => burst <= kCount
    /\ kAge = RecoveryTimeout => burst = 0
    /\ kState = "OPEN" =>
          burst + Cardinality(InFlight) <= FailureThreshold + Cardinality(Callers) - 1

LEMMA InFlightFinite ==
    /\ Cardinality(Callers) \in Nat
    /\ IsFiniteSet(InFlight) /\ Cardinality(InFlight) \in Nat
    /\ Cardinality(InFlight) <= Cardinality(Callers)
<1>1. InFlight \subseteq Callers
  BY DEF InFlight
<1> QED BY <1>1, CallersAssumption, FS_Subset, FS_CardinalityType

\* A send that ends is one less under way.
LEMMA InFlightEnds ==
    ASSUME Kafka!TypeOK, NEW c \in Callers, kCall[c] # "none",
           kCall' = [kCall EXCEPT ![c] = "none"]
    PROVE  Cardinality(InFlight)' = Cardinality(InFlight) - 1
<1>1. InFlight' = InFlight \ {c}
  BY DEF InFlight, Kafka!TypeOK
<1>2. c \in InFlight
  BY DEF InFlight
<1>3. Cardinality(InFlight \ {c}) = Cardinality(InFlight) - 1
  BY <1>2, InFlightFinite, FS_RemoveElement
<1> QED BY <1>1, <1>3

LEMMA BurstInductive ==
    ASSUME OutboundInv, BurstInv, [OutboundNext]_outboundVars
    PROVE  BurstInv'
<1>0. /\ Kafka!TypeOK /\ Kafka!TrippedAtThreshold /\ Kafka!ProbeAfterTimeout
      /\ burst \in Nat
  BY DEF OutboundInv, KafkaInv, EventBacked, OutboundTypeOK
<1>1. CASE UNCHANGED <<kafkaVars, burst>>
  BY <1>1 DEF kafkaVars, BurstInv, InFlight
<1>2. CASE ClockTick
  <2>1. kState' = kState /\ kCount' = kCount /\ kCall' = kCall
    BY <1>2 DEF ClockTick, Kafka!Tick, kafkaVars
  <2>2. burst' \in {0, burst} /\ (kAge' = RecoveryTimeout => burst' = 0)
    BY <1>2 DEF ClockTick
  <2>3. Cardinality(InFlight)' = Cardinality(InFlight)
    BY <2>1 DEF InFlight
  <2>4. Cardinality(InFlight) \in Nat /\ Cardinality(Callers) \in Nat
    BY InFlightFinite
  <2> QED BY <1>0, <2>1, <2>2, <2>3, <2>4, BreakerAssumption DEF BurstInv, Kafka!TypeOK
<1>3. ASSUME NEW c \in Callers, PublishBegins(c)
      PROVE  BurstInv'
  <2>1. kState' # "OPEN" /\ (kState' = "CLOSED" => kState = "CLOSED")
    BY <1>3 DEF PublishBegins, Kafka!Admit, Kafka!MaybeHalfOpen
  <2>2. kCount' = kCount /\ kAge' = kAge /\ burst' = burst
    BY <1>3 DEF PublishBegins, Kafka!Admit
  <2> QED BY <2>1, <2>2 DEF BurstInv
<1>4. ASSUME NEW c \in Callers, PublishReturns(c)
      PROVE  BurstInv'
  <2>1. kState' = "CLOSED" /\ kCount' = 0 /\ burst' = 0
    BY <1>4 DEF PublishReturns, Kafka!FuncReturns, Kafka!OnSuccess
  <2> QED BY <2>1 DEF BurstInv
<1>5. ASSUME NEW c \in Callers, PublishRaises(c)
      PROVE  BurstInv'
  <2>1. /\ kCall[c] # "none" /\ kCall' = [kCall EXCEPT ![c] = "none"]
        /\ kCount' = kCount + 1 /\ kAge' = 0 /\ burst' = burst + 1
        /\ kState' = IF kCount + 1 >= FailureThreshold \/ kState = "HALF_OPEN"
                     THEN "OPEN" ELSE kState
    BY <1>5 DEF PublishRaises, Kafka!FuncRaises, Kafka!OnFailure
  <2>2. Cardinality(InFlight)' = Cardinality(InFlight) - 1
    BY <1>0, <2>1, InFlightEnds
  <2>3. /\ Cardinality(InFlight) \in Nat /\ Cardinality(Callers) \in Nat
        /\ Cardinality(InFlight) <= Cardinality(Callers)
    BY InFlightFinite
  <2> DEFINE n == Cardinality(InFlight)
             m == Cardinality(Callers)
  <2>4. n' = n - 1 /\ n \in Nat /\ m \in Nat /\ n <= m /\ m' = m
    BY <2>2, <2>3
  <2>5. kState' = "CLOSED" => burst' <= kCount'
    BY <1>0, <2>1 DEF BurstInv, Kafka!TypeOK
  <2>6. ASSUME kState' = "OPEN"
        PROVE  burst' + n' <= FailureThreshold + m' - 1
    <3>1. CASE kState = "CLOSED"
      <4>1. burst <= kCount /\ kCount < FailureThreshold /\ kCount \in Nat
        BY <1>0, <3>1, BreakerAssumption
           DEF BurstInv, Kafka!TypeOK, Kafka!TrippedAtThreshold
      <4> HIDE DEF n, m
      <4> QED BY <1>0, <2>1, <2>4, <4>1, BreakerAssumption
    <3>2. CASE kState = "HALF_OPEN"
      <4>1. burst = 0
        BY <1>0, <3>2, BreakerAssumption
           DEF BurstInv, Kafka!TypeOK, Kafka!ProbeAfterTimeout
      <4> HIDE DEF n, m
      <4> QED BY <2>1, <2>4, <4>1, BreakerAssumption
    <3>3. CASE kState = "OPEN"
      <4>1. burst + n <= FailureThreshold + m - 1
        BY <3>3 DEF BurstInv
      <4> HIDE DEF n, m
      <4> QED BY <1>0, <2>1, <2>4, <4>1, BreakerAssumption
    <3> QED BY <1>0, <3>1, <3>2, <3>3 DEF Kafka!TypeOK
  <2>7. kAge' # RecoveryTimeout
    BY <2>1, BreakerAssumption
  <2> QED BY <2>5, <2>6, <2>7 DEF BurstInv
<1>6. ASSUME NEW c \in Callers, Cancelled(c), ~UNCHANGED <<kafkaVars, burst>>
      PROVE  BurstInv'
  <2>1. /\ kCall[c] # "none" /\ kCall' = [kCall EXCEPT ![c] = "none"]
        /\ kState' = kState /\ kCount' = kCount /\ kAge' = kAge /\ burst' = burst
    BY <1>6 DEF Cancelled, Kafka!FuncCancelled
  <2>2. Cardinality(InFlight)' = Cardinality(InFlight) - 1
    BY <1>0, <2>1, InFlightEnds
  <2>3. Cardinality(InFlight) \in Nat /\ Cardinality(Callers) \in Nat
    BY InFlightFinite
  <2> QED BY <1>0, <2>1, <2>2, <2>3, BreakerAssumption DEF BurstInv
<1>7. ASSUME NEW c \in Callers, RequestStep(c)
      PROVE  BurstInv'
  BY <1>1, <1>3, <1>4, <1>5, <1>6, <1>7
  DEF RequestStep, InsertRefused, InsertBegins, InsertReturns, InsertRaises,
      InsertsDone, PublishSkipped
<1> QED BY <1>1, <1>2, <1>7 DEF OutboundNext, outboundVars, ConnectProducer, ConnectMongo,
           StartupDone, Shutdown, CreateRecord, Scrape, Begin

\* For any number of requests, threshold and recovery time: a broker that is
\* away, or a producer that never started, sees no more failing sends than
\* the threshold and one for each other request before it is left alone for
\* a recovery time, several probes at once included.
THEOREM DeadBrokerIsSpared == OutboundSpec => []FailingSendsBounded
<1>1. OutboundInit => BurstInv
  BY DEF OutboundInit, Kafka!Init, BurstInv
<1>2. ASSUME OutboundInv, BurstInv PROVE FailingSendsBounded
  <2>1. /\ Kafka!TypeOK /\ Kafka!TrippedAtThreshold /\ Kafka!ProbeAfterTimeout
        /\ burst \in Nat
    BY <1>2 DEF OutboundInv, KafkaInv, EventBacked, OutboundTypeOK
  <2>2. Cardinality(InFlight) \in Nat /\ Cardinality(Callers) \in Nat
    BY InFlightFinite
  <2>3. CASE kState = "CLOSED"
    <3>1. burst <= kCount /\ kCount < FailureThreshold /\ kCount \in Nat
      BY <1>2, <2>1, <2>3, BreakerAssumption
         DEF BurstInv, Kafka!TypeOK, Kafka!TrippedAtThreshold
    <3> QED BY <2>1, <2>2, <3>1, BreakerAssumption DEF FailingSendsBounded
  <2>4. CASE kState = "HALF_OPEN"
    <3>1. burst = 0
      BY <1>2, <2>1, <2>4, BreakerAssumption
         DEF BurstInv, Kafka!TypeOK, Kafka!ProbeAfterTimeout
    <3> QED BY <2>2, <3>1, BreakerAssumption DEF FailingSendsBounded
  <2>5. CASE kState = "OPEN"
    BY <1>2, <2>1, <2>2, <2>5, BreakerAssumption DEF BurstInv, FailingSendsBounded
  <2> QED BY <2>1, <2>3, <2>4, <2>5 DEF Kafka!TypeOK
<1>3. OutboundInv /\ BurstInv /\ [OutboundNext]_outboundVars => BurstInv'
  BY BurstInductive
<1> QED BY <1>1, <1>2, <1>3, OutboundInvHolds, PTL DEF OutboundSpec
=============================================================================
