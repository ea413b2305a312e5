--------------------------- MODULE ProcessorProofs ---------------------------
(***************************************************************************)
(* Proofs about Processor for topics of any length and content, any number *)
(* of faults and shutdowns, and any MAX_RETRIES.                           *)
(*                                                                         *)
(* A running consumer is ahead of the committed offset; a fault throws it  *)
(* back there.  The invariant ties the number of deliveries of a message   *)
(* to the faults so far and to the side of the reading point it is on, the *)
(* reading point being the position of a running consumer and the          *)
(* committed offset otherwise.                                             *)
(***************************************************************************)
EXTENDS Processor, TLAPS

Reading == pc \in {"polling", "forwarding"}

\* Where reading is, or will be after the next Connect.
Point == IF Reading THEN position ELSE committed

Offsets ==
    /\ committed <= Point
    /\ Point <= end + 1
    /\ \A m \in Messages : m < Point => Delivered(m) >= 1

Deliveries ==
    \A m \in Messages : Delivered(m) <= faults + (IF m < Point THEN 1 ELSE 0)

Counts ==
    /\ DlqBackedByFailures
    /\ pc = "forwarding" => current # 0
    /\ pc \notin {"forwarding", "stopped"} => current = 0
    /\ current # 0 =>
          /\ current \in Messages
          /\ MaxRetries * dlq[current] + MaxRetries <= failures[current]

Inv == TypeOK /\ Offsets /\ Deliveries

-----------------------------------------------------------------------------
\* Handing out the message at the position, as a success or as a failure.
LEMMA DeliveryStep ==
    ASSUME Inv, NEW m \in Messages, pc = "polling", m = position, m <= end,
           UNCHANGED <<end, faults>>,
           committed' \in {committed, m + 1},
           \/ /\ processed' = [processed EXCEPT ![m] = @ + 1]
              /\ UNCHANGED failures
           \/ /\ failures' = [failures EXCEPT ![m] = @ + 1]
              /\ UNCHANGED processed,
           Point' = m + 1
    PROVE  Offsets' /\ Deliveries'
<1>0. /\ m \in Nat /\ Messages \subseteq Nat /\ faults \in Nat
      /\ committed \in Nat /\ end \in Nat
      /\ processed \in [Messages -> Nat] /\ failures \in [Messages -> Nat]
      /\ Point = m
  <2>1. /\ faults \in Nat /\ committed \in Nat /\ end \in Nat
        /\ processed \in [Messages -> Nat] /\ failures \in [Messages -> Nat]
    BY ProcessorAssumption DEF Inv, TypeOK
  <2>2. m \in Nat /\ Messages \subseteq Nat
    BY ProcessorAssumption DEF Messages
  <2>3. Point = m
    BY DEF Point, Reading
  <2> QED BY <2>1, <2>2, <2>3
<1>1. /\ Delivered(m)' = Delivered(m) + 1
      /\ Delivered(m) \in Nat
  BY <1>0 DEF Delivered
<1>2. ASSUME NEW n \in Messages, n # m
      PROVE  Delivered(n)' = Delivered(n) /\ Delivered(n) \in Nat /\ n \in Nat
  BY <1>0, <1>2 DEF Delivered
<1>3. Offsets'
  <2>1. ASSUME NEW n \in Messages, n < m + 1 PROVE Delivered(n)' >= 1
    <3>1. CASE n = m
      BY <1>1, <3>1
    <3>2. CASE n # m
      <4>1. n < Point
        BY <1>0, <1>2, <2>1, <3>2
      <4>2. Delivered(n) >= 1
        BY <4>1 DEF Inv, Offsets
      <4> QED BY <1>2, <3>2, <4>2
    <3> QED BY <3>1, <3>2
  <2>2. committed' <= m + 1 /\ m + 1 <= end' + 1
    BY <1>0 DEF Inv, Offsets
  <2> QED BY <2>1, <2>2 DEF Offsets
<1>4. Deliveries'
  <2> SUFFICES ASSUME NEW n \in Messages
               PROVE  Delivered(n)' <= faults + (IF n < m + 1 THEN 1 ELSE 0)
    BY DEF Deliveries
  <2>1. CASE n = m
    <3>1. Delivered(m) <= faults
      BY <1>0 DEF Inv, Deliveries
    <3> QED BY <1>0, <1>1, <2>1, <3>1
  <2>2. CASE n # m
    <3>1. Delivered(n) <= faults + (IF n < m THEN 1 ELSE 0)
      BY <1>0 DEF Inv, Deliveries
    <3> QED BY <1>0, <1>2, <2>2, <3>1
  <2> QED BY <2>1, <2>2
<1> QED BY <1>3, <1>4

\* Handing out a message and, at the price of a fault, falling back to the
\* committed offset in the same step.
LEMMA EscapeStep ==
    ASSUME Inv, NEW m \in Messages, pc = "polling", m = position,
           UNCHANGED <<end, committed, processed>>, faults' = faults + 1,
           failures' = [failures EXCEPT ![m] = @ + 1], Point' = committed
    PROVE  Offsets' /\ Deliveries'
<1>0. /\ faults \in Nat /\ committed \in Nat /\ end \in Nat
      /\ processed \in [Messages -> Nat] /\ failures \in [Messages -> Nat]
  BY ProcessorAssumption DEF Inv, TypeOK
<1>1. m \in Nat /\ Messages \subseteq Nat
  BY ProcessorAssumption DEF Messages
<1>2. Point = m /\ committed <= m /\ m <= end + 1
  BY DEF Point, Reading, Inv, Offsets
<1>3. ASSUME NEW n \in Messages
      PROVE  /\ Delivered(n) \in Nat /\ n \in Nat
             /\ Delivered(n)' = IF n = m THEN Delivered(n) + 1 ELSE Delivered(n)
             /\ n < m => Delivered(n) >= 1
             /\ Delivered(n) <= faults + (IF n < m THEN 1 ELSE 0)
  <2>1. Delivered(n) \in Nat /\ n \in Nat
        /\ Delivered(n)' = IF n = m THEN Delivered(n) + 1 ELSE Delivered(n)
    BY <1>0, <1>1 DEF Delivered
  <2>2. /\ n < m => Delivered(n) >= 1
        /\ Delivered(n) <= faults + (IF n < m THEN 1 ELSE 0)
    BY <1>2 DEF Inv, Offsets, Deliveries
  <2> QED BY <2>1, <2>2
<1>4. ASSUME NEW n \in Messages
      PROVE  /\ n < committed => Delivered(n)' >= 1
             /\ Delivered(n)' <= faults + 1 + (IF n < committed THEN 1 ELSE 0)
  BY <1>0, <1>1, <1>2, <1>3
<1>5. Offsets'
  BY <1>0, <1>1, <1>2, <1>4 DEF Offsets
<1>6. Deliveries'
  BY <1>4 DEF Deliveries
<1> QED BY <1>5, <1>6

\* A step that hands nothing out may move the reading point forward to
\* itself, or, at the price of a fault, back to the committed offset.
LEMMA QuietStep ==
    ASSUME Inv, UNCHANGED <<processed, failures>>, end' \in {end, end + 1},
           committed' \in {committed, Point},
           \/ Point' = Point /\ faults' \in {faults, faults + 1}
           \/ Point' = committed /\ committed' = committed /\ faults' = faults + 1
    PROVE  Offsets' /\ Deliveries'
<1>0. /\ Messages \subseteq Nat /\ faults \in Nat /\ committed \in Nat /\ end \in Nat
      /\ Point \in Nat
      /\ processed \in [Messages -> Nat] /\ failures \in [Messages -> Nat]
  BY ProcessorAssumption DEF Inv, TypeOK, Messages, Point
<1>1. \A m \in Messages : Delivered(m)' = Delivered(m) /\ Delivered(m) \in Nat /\ m \in Nat
  BY <1>0 DEF Delivered
<1>2. /\ committed <= Point /\ Point <= end + 1
      /\ \A m \in Messages : m < Point => Delivered(m) >= 1
      /\ \A m \in Messages : Delivered(m) <= faults + (IF m < Point THEN 1 ELSE 0)
  BY DEF Inv, Offsets, Deliveries
<1>3. Offsets'
  <2>1. committed' <= Point' /\ Point' <= end' + 1 /\ Point' <= Point
    BY <1>0, <1>2
  <2>2. Point' \in Nat
    BY <1>0
  <2>3. ASSUME NEW m \in Messages, m < Point' PROVE Delivered(m)' >= 1
    <3>1. m < Point
      BY <1>0, <1>1, <2>1, <2>2, <2>3
    <3> QED BY <1>1, <1>2, <3>1
  <2> QED BY <2>1, <2>3 DEF Offsets
<1>4. Deliveries'
  <2> SUFFICES ASSUME NEW m \in Messages
               PROVE  Delivered(m)' <= faults' + (IF m < Point' THEN 1 ELSE 0)
    BY DEF Deliveries
  <2>1. Delivered(m) <= faults + (IF m < Point THEN 1 ELSE 0)
    BY <1>2
  <2>2. CASE Point' = Point /\ faults' \in {faults, faults + 1}
    BY <1>0, <1>1, <2>1, <2>2
  <2>3. CASE Point' = committed /\ faults' = faults + 1
    BY <1>0, <1>1, <2>1, <2>3
  <2> QED BY <2>2, <2>3
<1> QED BY <1>3, <1>4

-----------------------------------------------------------------------------
\* Counting one more for a message, or starting its count again.
LEMMA CountType ==
    ASSUME NEW f \in [Messages -> Nat], NEW m
    PROVE  /\ [f EXCEPT ![m] = @ + 1] \in [Messages -> Nat]
           /\ [f EXCEPT ![m] = 0] \in [Messages -> Nat]
<1>1. ASSUME m \in Messages PROVE f[m] + 1 \in Nat
  BY <1>1
<1> QED BY <1>1

\* Every step keeps the types.
LEMMA TypeInductive == TypeOK /\ Offsets /\ [Next]_vars => TypeOK'
<1> SUFFICES ASSUME TypeOK, Offsets, [Next]_vars PROVE TypeOK'
  OBVIOUS
<1> USE ProcessorAssumption DEF TypeOK, broker, tally
<1>1. CASE Publish
  BY <1>1 DEF Publish
<1>2. CASE ConsumerFails \/ ProducerFails \/ StartTwice
  BY <1>2 DEF ConsumerFails, ProducerFails, StartTwice, ConnectFails, Fault
<1>3. CASE Connect
  BY <1>3 DEF Connect
<1>4. ASSUME NEW m \in Messages, Handle(m) PROVE TypeOK'
  <2>1. processed' \in [Messages -> Nat] /\ retry' \in [Messages -> Nat]
    BY <1>4, CountType DEF Handle
  <2> QED BY <1>4, <2>1 DEF Handle, NextMessage
<1>5. ASSUME NEW m \in Messages, CountFailure(m) PROVE TypeOK'
  <2>1. failures' \in [Messages -> Nat] /\ retry' \in [Messages -> Nat]
    BY <1>5, CountType DEF CountFailure
  <2> QED BY <1>5, <2>1 DEF CountFailure, NextMessage
<1>6. ASSUME NEW m \in Messages, LastFailure(m) PROVE TypeOK'
  <2>1. failures' \in [Messages -> Nat]
    BY <1>6, CountType DEF LastFailure
  <2> QED BY <1>6, <2>1 DEF LastFailure, NextMessage
<1>7. ASSUME NEW m \in Messages, Escapes(m) PROVE TypeOK'
  <2>1. failures' \in [Messages -> Nat]
    BY <1>7, CountType DEF Escapes
  <2>2. committed' \in 1..(LogLength + 1) /\ faults' \in 0..MaxFaults
    BY <1>7 DEF Escapes, Fault
  <2> QED BY <1>7, <2>1, <2>2 DEF Escapes
<1>8. CASE ForwardSucceeds
  <2>1. retry' \in [Messages -> Nat] /\ dlq' \in [Messages -> Nat]
    BY <1>8, CountType DEF ForwardSucceeds, Forwarded
  <2> QED BY <1>8, <2>1 DEF ForwardSucceeds, Forwarded
<1>9. CASE ForwardFails
  <2>1. retry' \in [Messages -> Nat] /\ dlq' \in [Messages -> Nat]
    <3>1. retry' = [retry EXCEPT ![current] = 0]
      BY <1>9 DEF ForwardFails, Forwarded
    <3>2. dlq' = dlq \/ dlq' = [dlq EXCEPT ![current] = @ + 1]
      BY <1>9 DEF ForwardFails
    <3>3. retry' \in [Messages -> Nat]
      BY <3>1, CountType
    <3>4. CASE dlq' = dlq
      BY <3>3, <3>4
    <3>5. CASE dlq' = [dlq EXCEPT ![current] = @ + 1]
      BY <3>3, <3>5, CountType
    <3> QED BY <3>2, <3>4, <3>5
  <2>2. faults' \in 0..MaxFaults
    BY <1>9 DEF ForwardFails, Fault
  <2> QED BY <1>9, <2>1, <2>2 DEF ForwardFails, Forwarded
<1>10. CASE AutoCommit
  BY <1>10 DEF AutoCommit
<1>11. CASE Rejoin
  BY <1>11 DEF Rejoin, Fault
<1>12. CASE Shutdown
  BY <1>12 DEF Shutdown
<1>13. CASE Crash
  <2>1. faults' \in 0..MaxFaults
    BY <1>13 DEF Crash, Fault
  <2> QED BY <1>13, <2>1 DEF Crash
<1>14. CASE Restart
  <2>1. dlq' \in [Messages -> Nat]
    <3>1. dlq' = dlq \/ dlq' = [dlq EXCEPT ![current] = @ + 1]
      BY <1>14 DEF Restart
    <3>2. CASE dlq' = dlq
      BY <3>2
    <3>3. CASE dlq' = [dlq EXCEPT ![current] = @ + 1]
      BY <3>3, CountType
    <3> QED BY <3>1, <3>2, <3>3
  <2>2. retry' \in [Messages -> Nat]
    BY <1>14 DEF Restart, NoRetries
  <2>3. forgotten' \subseteq Messages
    BY <1>14 DEF Restart
  <2> QED BY <1>14, <2>1, <2>2, <2>3 DEF Restart
<1>15. CASE UNCHANGED vars
  BY <1>15 DEF vars
<1> QED
  BY <1>1, <1>2, <1>3, <1>4, <1>5, <1>6, <1>7, <1>8, <1>9, <1>10, <1>11,
     <1>12, <1>13, <1>14, <1>15
  DEF Next

\* Every step keeps the offsets and the number of deliveries in step.
LEMMA OffsetsInductive == Inv /\ [Next]_vars => Offsets' /\ Deliveries'
<1> SUFFICES ASSUME Inv, [Next]_vars PROVE Offsets' /\ Deliveries'
  OBVIOUS
<1> USE DEF Point, Reading, broker, tally
<1>1. CASE Publish
  BY <1>1, QuietStep DEF Publish
<1>2. CASE ConsumerFails \/ ProducerFails \/ StartTwice
  BY <1>2, QuietStep DEF ConsumerFails, ProducerFails, StartTwice, ConnectFails, Fault
<1>3. CASE Connect
  BY <1>3, QuietStep DEF Connect
<1>4. ASSUME NEW m \in Messages, Handle(m) PROVE Offsets' /\ Deliveries'
  BY <1>4, DeliveryStep DEF Handle, NextMessage
<1>5. ASSUME NEW m \in Messages, CountFailure(m) PROVE Offsets' /\ Deliveries'
  BY <1>5, DeliveryStep DEF CountFailure, NextMessage
<1>6. ASSUME NEW m \in Messages, LastFailure(m) PROVE Offsets' /\ Deliveries'
  BY <1>6, DeliveryStep DEF LastFailure, NextMessage
<1>8. CASE ForwardSucceeds
  BY <1>8, QuietStep DEF ForwardSucceeds, Forwarded
<1>9. CASE ForwardFails
  BY <1>9, QuietStep DEF ForwardFails, Forwarded, Fault
<1>10. CASE AutoCommit
  BY <1>10, QuietStep DEF AutoCommit
<1>11. CASE Rejoin
  BY <1>11, QuietStep DEF Rejoin, Fault
<1>12. CASE Shutdown
  BY <1>12, QuietStep DEF Shutdown
<1>13. CASE Crash
  BY <1>13, QuietStep DEF Crash, Fault
<1>14. CASE Restart
  BY <1>14, QuietStep DEF Restart
<1>15. CASE UNCHANGED vars
  BY <1>15, QuietStep DEF vars
<1>7. ASSUME NEW m \in Messages, Escapes(m) PROVE Offsets' /\ Deliveries'
  <2>1. /\ pc = "polling" /\ m = position /\ m <= end /\ pc' = "stopped"
        /\ failures' = [failures EXCEPT ![m] = @ + 1]
        /\ UNCHANGED <<end, processed>>
    BY <1>7 DEF Escapes
  <2>2. CASE committed' = m + 1 /\ UNCHANGED faults
    BY <2>1, <2>2, DeliveryStep
  <2>3. CASE Fault /\ UNCHANGED committed
    BY <2>1, <2>3, EscapeStep DEF Fault
  <2> QED BY <1>7, <2>2, <2>3 DEF Escapes
<1> QED
  BY <1>1, <1>2, <1>3, <1>4, <1>5, <1>6, <1>7, <1>8, <1>9, <1>10, <1>11,
     <1>12, <1>13, <1>14, <1>15
  DEF Next

LEMMA ProcessorInvariant == Spec => []Inv
<1>1. Init => Inv
  <2> SUFFICES ASSUME Init PROVE Inv
    OBVIOUS
  <2> USE ProcessorAssumption DEF Init, NoRetries
  <2>1. TypeOK
    BY DEF TypeOK, Messages
  <2>2. Point = 1 /\ \A m \in Messages : Delivered(m) = 0 /\ m >= 1 /\ m \in Nat
    BY DEF Point, Reading, Delivered, Messages
  <2>3. Offsets /\ Deliveries
    BY <2>2 DEF Offsets, Deliveries
  <2> QED BY <2>1, <2>3 DEF Inv
<1>2. Inv /\ [Next]_vars => Inv'
  BY TypeInductive, OffsetsInductive DEF Inv
<1> QED BY <1>1, <1>2, PTL DEF Spec

\* At-least-once delivery, for any crashes, lost sessions and shutdowns.
THEOREM CommittedMessagesWereDelivered == Spec => []CommittedWereDelivered
<1>1. Inv => CommittedWereDelivered
  <2> SUFFICES ASSUME Inv PROVE CommittedWereDelivered
    OBVIOUS
  <2>1. committed \in Nat /\ Point \in Nat /\ end \in Nat /\ Messages \subseteq Nat
    BY ProcessorAssumption DEF Inv, TypeOK, Point, Messages
  <2> QED BY <2>1 DEF Inv, Offsets, CommittedWereDelivered
<1> QED BY <1>1, ProcessorInvariant, PTL

\* The loop itself never redelivers: each delivery after the first costs a
\* fault.  The retries that the comments of the service and the architecture
\* document speak of do not happen by themselves: with MAX_RETRIES = 3 a
\* malformed message reaches the DLQ only after two faults.
THEOREM RedeliveryCostsAFault == Spec => []RedeliveredOnlyByFault
<1>1. Inv => RedeliveredOnlyByFault
  <2> SUFFICES ASSUME Inv, NEW m \in Messages PROVE Delivered(m) <= 1 + faults
    BY DEF RedeliveredOnlyByFault
  <2>1. Delivered(m) \in Nat /\ faults \in Nat
    BY DEF Inv, TypeOK, Delivered
  <2>2. Delivered(m) <= faults + (IF m < Point THEN 1 ELSE 0)
    BY DEF Inv, Deliveries
  <2> QED BY <2>1, <2>2
<1> QED BY <1>1, ProcessorInvariant, PTL

-----------------------------------------------------------------------------
\* Every step keeps the retry counts backed by failures.
LEMMA CountsInductive == TypeOK /\ Counts /\ [Next]_vars => Counts'
<1> SUFFICES ASSUME TypeOK, Counts, [Next]_vars PROVE Counts'
  OBVIOUS
<1>0. /\ MaxRetries \in Nat \ {0}
      /\ retry \in [Messages -> Nat] /\ dlq \in [Messages -> Nat]
      /\ failures \in [Messages -> Nat]
      /\ \A m \in Messages : MaxRetries * dlq[m] \in Nat
  BY ProcessorAssumption DEF TypeOK
<1> USE DEF Counts, DlqBackedByFailures, broker, tally
<1>1. CASE \/ Publish \/ ConsumerFails \/ ProducerFails \/ StartTwice \/ Connect
           \/ AutoCommit \/ Rejoin \/ Shutdown \/ Crash \/ UNCHANGED vars
  BY <1>1 DEF Publish, ConsumerFails, ProducerFails, StartTwice, ConnectFails, Connect,
     AutoCommit, Rejoin, Shutdown, Crash, vars
<1>2. CASE Restart
  <2>1. /\ retry' = NoRetries /\ current' = 0 /\ pc' = "starting" /\ UNCHANGED failures
        /\ \/ dlq' = dlq
           \/ current # 0 /\ dlq' = [dlq EXCEPT ![current] = @ + 1]
    BY <1>2 DEF Restart
  <2>2. ASSUME current # 0
        PROVE  MaxRetries * (dlq[current] + 1) = MaxRetries * dlq[current] + MaxRetries
    BY <1>0, <2>2
  <2> QED BY <1>0, <2>1, <2>2 DEF NoRetries
<1>3. ASSUME NEW m \in Messages, Handle(m) PROVE Counts'
  BY <1>0, <1>3 DEF Handle, NextMessage, Messages
<1>4. ASSUME NEW m \in Messages, CountFailure(m) PROVE Counts'
  BY <1>0, <1>4 DEF CountFailure, LastAttempt, NextMessage
<1>5. ASSUME NEW m \in Messages, LastFailure(m) PROVE Counts'
  BY <1>0, <1>5 DEF LastFailure, LastAttempt, NextMessage, Messages
<1>6. ASSUME NEW m \in Messages, Escapes(m) PROVE Counts'
  BY <1>0, <1>6 DEF Escapes
<1>7. CASE ForwardSucceeds \/ ForwardFails
  <2>1. /\ current \in Messages
        /\ MaxRetries * dlq[current] + MaxRetries <= failures[current]
        /\ retry' = [retry EXCEPT ![current] = 0]
        /\ pc' = "polling" /\ current' = 0 /\ UNCHANGED failures
        /\ dlq' \in {dlq, [dlq EXCEPT ![current] = @ + 1]}
    BY <1>7 DEF ForwardSucceeds, ForwardFails, Forwarded
  <2>2. MaxRetries * (dlq[current] + 1) = MaxRetries * dlq[current] + MaxRetries
    BY <1>0, <2>1
  <2> QED BY <1>0, <2>1, <2>2
<1> QED BY <1>1, <1>2, <1>3, <1>4, <1>5, <1>6, <1>7 DEF Next

\* Every copy in the dead letter queue stands for MAX_RETRIES failures.
THEOREM DlqIsBackedByFailures == Spec => []DlqBackedByFailures
<1>1. Init => Counts
  BY ProcessorAssumption DEF Init, NoRetries, Counts, DlqBackedByFailures
<1>2. Counts => DlqBackedByFailures
  BY DEF Counts
<1>3. Inv => TypeOK
  BY DEF Inv
<1> QED BY <1>1, <1>2, <1>3, CountsInductive, ProcessorInvariant, PTL DEF Spec

-----------------------------------------------------------------------------
\* As long as its count was never dropped, each failure of a malformed message
\* is in the count, behind a copy in the DLQ, or the one that led to the
\* forwarding under way.
Remembered ==
    \A m \in Messages :
        Kind[m] = "bad" /\ m \notin forgotten =>
            failures[m] = retry[m] + MaxRetries * dlq[m] + (IF m = current THEN 1 ELSE 0)
AtLastAttempt == current # 0 => retry[current] + 1 = MaxRetries /\ Kind[current] = "bad"

LEMMA RememberedInductive ==
    ASSUME TypeOK, Counts, Remembered, AtLastAttempt, [Next]_vars
    PROVE  Remembered' /\ AtLastAttempt'
<1>0. /\ MaxRetries \in Nat \ {0} /\ 0 \notin Messages
      /\ retry \in [Messages -> Nat] /\ dlq \in [Messages -> Nat]
      /\ failures \in [Messages -> Nat]
      /\ \A m \in Messages : MaxRetries * dlq[m] \in Nat
      /\ \A m \in Messages : retry[m] < MaxRetries
      /\ pc = "polling" => current = 0
      /\ pc = "forwarding" => current \in Messages
  <2>1. /\ retry \in [Messages -> Nat] /\ dlq \in [Messages -> Nat]
        /\ failures \in [Messages -> Nat] /\ MaxRetries \in Nat \ {0}
    BY ProcessorAssumption DEF TypeOK
  <2>2. 0 \notin Messages
    BY ProcessorAssumption DEF Messages
  <2>3. /\ \A m \in Messages : retry[m] < MaxRetries
        /\ pc = "polling" => current = 0
        /\ pc = "forwarding" => current \in Messages
    BY DEF Counts, DlqBackedByFailures
  <2> QED BY <2>1, <2>2, <2>3
<1> USE DEF Remembered, AtLastAttempt, broker, tally
<1>1. CASE \/ Publish \/ ConsumerFails \/ ProducerFails \/ StartTwice \/ Connect
           \/ AutoCommit \/ Rejoin \/ Shutdown \/ Crash \/ UNCHANGED vars
  BY <1>1 DEF Publish, ConsumerFails, ProducerFails, StartTwice, ConnectFails, Connect,
     AutoCommit, Rejoin, Shutdown, Crash, vars
<1>2. CASE Restart
  <2>1. /\ retry' = NoRetries /\ current' = 0 /\ UNCHANGED failures
        /\ \/ dlq' = dlq
           \/ current # 0 /\ dlq' = [dlq EXCEPT ![current] = @ + 1]
        /\ forgotten' = forgotten \union {m \in Messages : retry[m] > 0 \/ m = current}
    BY <1>2 DEF Restart
  <2>2. ASSUME NEW m \in Messages, Kind[m] = "bad", m \notin forgotten'
        PROVE  failures'[m] = retry'[m] + MaxRetries * dlq'[m]
    <3>1. m # current /\ retry[m] = 0 /\ m \notin forgotten
      BY <1>0, <2>1, <2>2
    <3>2. dlq'[m] = dlq[m] /\ retry'[m] = 0
      BY <1>0, <2>1, <3>1 DEF NoRetries
    <3> QED BY <1>0, <2>1, <2>2, <3>1, <3>2
  <2> QED BY <1>0, <2>1, <2>2
<1>3. ASSUME NEW m \in Messages, Handle(m)
      PROVE  Remembered' /\ AtLastAttempt'
  BY <1>0, <1>3 DEF Handle, NextMessage
<1>4. ASSUME NEW m \in Messages, CountFailure(m)
      PROVE  Remembered' /\ AtLastAttempt'
  BY <1>0, <1>4 DEF CountFailure, NextMessage
<1>5. ASSUME NEW m \in Messages, LastFailure(m)
      PROVE  Remembered' /\ AtLastAttempt'
  BY <1>0, <1>5 DEF LastFailure, LastAttempt, NextMessage
<1>6. ASSUME NEW m \in Messages, Escapes(m)
      PROVE  Remembered' /\ AtLastAttempt'
  BY <1>0, <1>6 DEF Escapes
<1>7. CASE ForwardSucceeds
  <2>1. /\ current \in Messages /\ current' = 0
        /\ retry' = [retry EXCEPT ![current] = 0]
        /\ dlq' = [dlq EXCEPT ![current] = @ + 1]
        /\ UNCHANGED <<failures, forgotten>>
    BY <1>0, <1>7 DEF ForwardSucceeds, Forwarded
  <2>2. MaxRetries * (dlq[current] + 1) = MaxRetries * dlq[current] + MaxRetries
    BY <1>0, <2>1
  <2>3. retry[current] + 1 = MaxRetries
    BY <1>0, <2>1
  <2>4. ASSUME NEW m \in Messages, Kind[m] = "bad", m \notin forgotten'
        PROVE  failures'[m] = retry'[m] + MaxRetries * dlq'[m]
    <3>1. CASE m = current
      <4>1. failures[m] = retry[m] + MaxRetries * dlq[m] + 1
        BY <2>1, <2>4, <3>1
      <4>2. dlq'[m] = dlq[m] + 1 /\ retry'[m] = 0
        BY <1>0, <2>1, <3>1
      <4> QED BY <1>0, <2>1, <2>2, <2>3, <3>1, <4>1, <4>2
    <3>2. CASE m # current
      BY <1>0, <2>1, <2>4, <3>2
    <3> QED BY <3>1, <3>2
  <2> QED BY <1>0, <2>1, <2>4
<1>8. CASE ForwardFails
  <2>1. /\ current \in Messages /\ current' = 0
        /\ retry' = [retry EXCEPT ![current] = 0]
        /\ \A m \in Messages : m # current => dlq'[m] = dlq[m]
        /\ UNCHANGED failures
        /\ forgotten' = forgotten \union {current}
    BY <1>0, <1>8 DEF ForwardFails, Forwarded
  <2>2. ASSUME NEW m \in Messages, Kind[m] = "bad", m \notin forgotten'
        PROVE  failures'[m] = retry'[m] + MaxRetries * dlq'[m]
    BY <1>0, <2>1, <2>2
  <2> QED BY <1>0, <2>1, <2>2
<1> QED BY <1>1, <1>2, <1>3, <1>4, <1>5, <1>6, <1>7, <1>8 DEF Next

\* For any log, faults and MAX_RETRIES, a malformed message that is behind the
\* committed offset and not in the DLQ was handed out too seldom, lost its
\* count to a restart or to a failed send, or is being forwarded.
THEOREM SkippedMessagesHaveCauses == Spec => []SkippedHasACause
<1>1. Init => Counts /\ Remembered /\ AtLastAttempt
  BY ProcessorAssumption DEF Init, NoRetries, Counts, DlqBackedByFailures, Remembered,
     AtLastAttempt, Messages
<1>2. ASSUME TypeOK, Counts, Remembered PROVE SkippedHasACause
  <2> SUFFICES ASSUME NEW m \in Messages, Kind[m] = "bad", dlq[m] = 0,
                      m \notin forgotten, m # current
               PROVE  failures[m] < MaxRetries
    BY DEF SkippedHasACause
  <2>1. failures[m] = retry[m] + MaxRetries * dlq[m] + 0
    BY <1>2 DEF Remembered
  <2>2. MaxRetries * dlq[m] = 0 /\ retry[m] \in Nat /\ retry[m] < MaxRetries
    BY <1>2, ProcessorAssumption DEF TypeOK, Counts, DlqBackedByFailures
  <2> QED BY <2>1, <2>2
<1>3. Inv => TypeOK
  BY DEF Inv
<1>4. TypeOK /\ Counts /\ Remembered /\ AtLastAttempt /\ [Next]_vars
      => (Counts /\ Remembered /\ AtLastAttempt)'
  BY CountsInductive, RememberedInductive
<1> QED BY <1>1, <1>2, <1>3, <1>4, ProcessorInvariant, PTL DEF Spec
=============================================================================
