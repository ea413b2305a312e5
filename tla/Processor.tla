------------------------------ MODULE Processor ------------------------------
(***************************************************************************)
(* The Kafka consumer of services/processor/main.py: startup retries, the  *)
(* consumer loop with its in-memory retry counts, the dead letter queue,   *)
(* shutdown, crash and restart.                                            *)
(*                                                                         *)
(* One partition, whose messages are their offsets.  A message is "good",  *)
(* "bad" (it raises one of the exceptions the loop catches: no JSON, or a  *)
(* missing key), or "alien" (valid JSON that is no object: event.get       *)
(* raises AttributeError, which the loop does not catch).                  *)
(*                                                                         *)
(* Kafka is external and modelled from how the loop uses it.  The consumer *)
(* is created with the default automatic commits, which store the position *)
(* after the last message handed out; a (re)joining consumer continues     *)
(* from the committed offset, or from the earliest message if there is     *)
(* none.  Nothing else ever hands a message out twice.                     *)
(***************************************************************************)
EXTENDS Integers

CONSTANTS
    LogLength,      \* bound: messages published in a behaviour
    Kind,           \* 1..LogLength -> {"good", "bad", "alien"}
    MaxRetries,     \* MAX_RETRIES
    StartAttempts,  \* _RETRY_MAX_ATTEMPTS
    MaxFaults,      \* bound: crashes, lost sessions, outages
    MaxShutdowns    \* bound: orderly shutdowns

ASSUME ProcessorAssumption ==
    /\ LogLength \in Nat /\ MaxFaults \in Nat /\ MaxShutdowns \in Nat
    /\ MaxRetries \in Nat \ {0} /\ StartAttempts \in Nat \ {0}
    /\ Kind \in [1..LogLength -> {"good", "bad", "alien"}]

VARIABLES
    end,            \* Kafka: the number of messages in the topic
    committed,      \* Kafka: the group's offset, the next message to read
    dlq,            \* Kafka: how often each message is in TOPIC_DLQ
    pc,             \* "starting", "half" (only the consumer is started),
                    \* "polling", "forwarding" or "stopped"
    attempt,        \* connection attempts of this process
    position,       \* the consumer's position
    retry,          \* retry_counts, 0 for an absent key
    current,        \* the message being forwarded to the DLQ
    processed,      \* how often _process_message returned for each message
    failures,       \* how often it raised
    forgotten,      \* ghost: messages whose count of failures was dropped by
                    \* a restart or by a DLQ send that failed
    faults,         \* faults so far
    shutdowns       \* orderly shutdowns so far

broker == <<end, committed, dlq>>
tally == <<processed, failures, forgotten, shutdowns>>
vars == <<end, committed, dlq, pc, attempt, position, retry, current,
          processed, failures, forgotten, faults, shutdowns>>

Messages == 1..LogLength
NoRetries == [m \in Messages |-> 0]

-----------------------------------------------------------------------------
Init ==
    /\ end = 0 /\ committed = 1
    /\ dlq = NoRetries
    /\ pc = "starting"
    /\ attempt = 1
    /\ position = 1
    /\ retry = NoRetries
    /\ current = 0
    /\ processed = NoRetries
    /\ failures = NoRetries
    /\ forgotten = {}
    /\ faults = 0
    /\ shutdowns = 0

\* The ingestor publishes an event.
Publish ==
    /\ end < LogLength
    /\ end' = end + 1
    /\ UNCHANGED <<committed, dlq, pc, attempt, position, retry, current, tally, faults>>

Fault ==
    /\ faults < MaxFaults
    /\ faults' = faults + 1

\* consumer.start() raises KafkaError, or producer.start() does when the
\* consumer is already started: after a pause the loop tries again, the last
\* time the exception ends the process.
ConnectFails(next) ==
    /\ pc = "starting"
    /\ Fault
    /\ IF attempt = StartAttempts
       THEN pc' = "stopped" /\ UNCHANGED attempt
       ELSE attempt' = attempt + 1 /\ pc' = next
    /\ UNCHANGED <<broker, position, retry, current, tally>>

ConsumerFails == ConnectFails("starting")
ProducerFails == ConnectFails("half")

\* The next attempt calls start() of a consumer that is started.  External:
\* aiokafka answers with an AssertionError, which the loop does not catch.
StartTwice ==
    /\ pc = "half"
    /\ pc' = "stopped"
    /\ UNCHANGED <<broker, attempt, position, retry, current, tally, faults>>

ConnectLatest ==
    /\ pc = "starting"
    /\ pc' = "polling"
    /\ position' = end + 1
    /\ UNCHANGED <<broker, attempt, retry, current, tally, faults>>
\* Both clients are started: auto_offset_reset = "earliest".
Connect ==
    /\ pc = "starting"
    /\ pc' = "polling"
    /\ position' = committed
    /\ UNCHANGED <<broker, attempt, retry, current, tally, faults>>

-----------------------------------------------------------------------------
(* One message of `async for msg in consumer'. *)

\* The loop gets message m; the position moves on at once.
NextMessage(m) ==
    /\ pc = "polling"
    /\ m = position
    /\ m <= end
    /\ position' = m + 1
    /\ UNCHANGED <<end, committed, dlq, attempt, forgotten, faults, shutdowns>>

Handle(m) ==
    /\ NextMessage(m)
    /\ Kind[m] = "good"
    /\ processed' = [processed EXCEPT ![m] = @ + 1]
    /\ retry' = [retry EXCEPT ![m] = 0]
    /\ UNCHANGED <<pc, current, failures>>

\* attempt >= MAX_RETRIES
LastAttemptLate(m) == retry[m] + 1 > MaxRetries
LastAttempt(m) == retry[m] + 1 >= MaxRetries

\* A failure before the last attempt is only counted.  The loop moves on.
CountFailure(m) ==
    /\ NextMessage(m)
    /\ Kind[m] = "bad"
    /\ ~LastAttempt(m)
    /\ failures' = [failures EXCEPT ![m] = @ + 1]
    /\ retry' = [retry EXCEPT ![m] = @ + 1]
    /\ UNCHANGED <<pc, current, processed>>

\* The last failure: _send_to_dlq is awaited.
LastFailure(m) ==
    /\ NextMessage(m)
    /\ Kind[m] = "bad"
    /\ LastAttempt(m)
    /\ failures' = [failures EXCEPT ![m] = @ + 1]
    /\ pc' = "forwarding"
    /\ current' = m
    /\ UNCHANGED <<retry, processed>>

\* _send_to_dlq returns in any case, and the count is dropped in any case.
ForwardedKeepingCount ==
    /\ retry' = retry
    /\ current' = 0
    /\ pc' = "polling"
    /\ UNCHANGED <<end, committed, attempt, position, processed, failures, shutdowns>>
Forwarded ==
    /\ retry' = [retry EXCEPT ![current] = 0]
    /\ current' = 0
    /\ pc' = "polling"
    /\ UNCHANGED <<end, committed, attempt, position, processed, failures, shutdowns>>

ForwardSucceeds ==
    /\ pc = "forwarding"
    /\ dlq' = [dlq EXCEPT ![current] = @ + 1]
    /\ Forwarded
    /\ UNCHANGED <<forgotten, faults>>

\* KafkaError or the five seconds: logged, not raised.  After a timeout the
\* message may still have been stored.
ForwardFails ==
    /\ pc = "forwarding"
    /\ Fault
    /\ dlq' \in {dlq, [dlq EXCEPT ![current] = @ + 1]}
    /\ forgotten' = forgotten \union {current}
    /\ Forwarded

\* An exception the loop does not catch: the finally block stops both
\* clients, and stopping the consumer commits its position if it can.
Escapes(m) ==
    /\ pc = "polling"
    /\ m = position
    /\ m <= end
    /\ Kind[m] = "alien"
    /\ failures' = [failures EXCEPT ![m] = @ + 1]
    /\ position' = m + 1
    /\ \/ committed' = m + 1 /\ UNCHANGED faults
       \/ Fault /\ UNCHANGED committed
    /\ pc' = "stopped"
    /\ UNCHANGED <<end, dlq, attempt, retry, current, processed, forgotten, shutdowns>>

-----------------------------------------------------------------------------
(* What happens around the loop. *)

\* The timer of the automatic commits, also while the DLQ send is awaited.
AutoCommit ==
    /\ pc \in {"polling", "forwarding"}
    /\ committed # position
    /\ committed' = position
    /\ UNCHANGED <<end, dlq, pc, attempt, position, retry, current, tally, faults>>

\* The session is lost and the group rejoined: reading resumes from the
\* committed offset, the counts in memory survive.
Rejoin ==
    /\ pc \in {"polling", "forwarding"}
    /\ Fault
    /\ position' = committed
    /\ UNCHANGED <<broker, pc, attempt, retry, current, tally>>

\* SIGINT: asyncio.run cancels the task at its await, the DLQ send included;
\* the finally block runs, and stopping the consumer commits its position.
\* asyncio.run takes no notice of SIGTERM, which is a Crash.
Shutdown ==
    /\ pc \in {"polling", "forwarding"}
    /\ shutdowns < MaxShutdowns
    /\ shutdowns' = shutdowns + 1
    /\ committed' = position
    /\ pc' = "stopped"
    /\ UNCHANGED <<end, dlq, attempt, position, retry, current, processed, failures,
                   forgotten, faults>>

\* The process is killed, with no time for the finally block.
Crash ==
    /\ pc # "stopped"
    /\ Fault
    /\ pc' = "stopped"
    /\ UNCHANGED <<broker, attempt, position, retry, current, tally>>

\* The container is started again, with fresh memory.  The broker may by now
\* have stored the message whose forwarding was interrupted.
Restart ==
    /\ pc = "stopped"
    /\ pc' = "starting"
    /\ attempt' = 1
    /\ retry' = NoRetries
    /\ current' = 0
    /\ dlq' \in {dlq} \union {[dlq EXCEPT ![m] = @ + 1] : m \in {current} \ {0}}
    /\ forgotten' = forgotten \union {m \in Messages : retry[m] > 0 \/ m = current}
    /\ UNCHANGED <<end, committed, position, processed, failures, shutdowns, faults>>

Deliver == \E m \in Messages :
              Handle(m) \/ CountFailure(m) \/ LastFailure(m) \/ Escapes(m)

Next ==
    \/ Publish
    \/ ConsumerFails
    \/ ProducerFails
    \/ StartTwice
    \/ Connect
    \/ \E m \in Messages : Handle(m) \/ CountFailure(m) \/ LastFailure(m) \/ Escapes(m)
    \/ ForwardSucceeds
    \/ ForwardFails
    \/ AutoCommit
    \/ Rejoin
    \/ Shutdown
    \/ Crash
    \/ Restart

Spec == Init /\ [][Next]_vars

\* The broker becomes reachable, the loop runs, sends end, the container is
\* restarted.  Faults are finite in number; publishing is not promised.
FairSpec ==
    /\ Spec
    /\ WF_vars(Connect)
    /\ WF_vars(StartTwice)
    /\ WF_vars(Deliver)
    /\ WF_vars(ForwardSucceeds \/ ForwardFails)
    /\ WF_vars(Restart)

-----------------------------------------------------------------------------
Delivered(m) == processed[m] + failures[m]

TypeOK ==
    /\ end \in 0..LogLength
    /\ committed \in 1..(LogLength + 1)
    /\ dlq \in [Messages -> Nat]
    /\ pc \in {"starting", "half", "polling", "forwarding", "stopped"}
    /\ attempt \in 1..StartAttempts
    /\ position \in 1..(LogLength + 1)
    /\ retry \in [Messages -> Nat]
    /\ current \in 0..LogLength
    /\ processed \in [Messages -> Nat]
    /\ failures \in [Messages -> Nat]
    /\ forgotten \subseteq Messages
    /\ faults \in 0..MaxFaults
    /\ shutdowns \in 0..MaxShutdowns

\* At-least-once: an offset is only committed when every message before it
\* has been handed to the loop, whatever crashes and rejoins happen, and the
\* group never commits past the end of the topic.
CommittedWereDelivered ==
    /\ committed <= end + 1
    /\ \A m \in Messages : m < committed => Delivered(m) >= 1

\* Each copy in the DLQ stands for MAX_RETRIES failures of its own, and the
\* count in memory never reaches MAX_RETRIES: dropping a count after a
\* forward or a restart cannot make one failure count twice.
DlqBackedByFailures ==
    \A m \in Messages : /\ MaxRetries * dlq[m] + retry[m] <= failures[m]
                        /\ retry[m] < MaxRetries

\* Nothing in the loop hands a failed message out again: each delivery after
\* the first takes a fault.
RedeliveredOnlyByFault == \A m \in Messages : Delivered(m) <= 1 + faults

\* Why a malformed message can be behind the committed offset and yet not in
\* the DLQ: it has not been handed out MAX_RETRIES times, its count was
\* dropped by a restart or by a DLQ send that failed, or it is just being
\* forwarded.  Whenever one process sees it fail MAX_RETRIES times and the
\* send succeeds, it is in the DLQ.
SkippedHasACause ==
    \A m \in Messages :
        Kind[m] = "bad" /\ m < committed /\ dlq[m] = 0 =>
            failures[m] < MaxRetries \/ m \in forgotten \/ m = current

\* No message, bad or alien, blocks the ones after it.
QueueDrains == \A m \in Messages : end >= m ~> Delivered(m) >= 1
=============================================================================
