-------------------------- MODULE ApplicationProofs --------------------------
(***************************************************************************)
(* Proofs about WorkerPool, for any number of workers and tasks and any    *)
(* queue and history sizes, and about Application, which runs that pool,   *)
(* for any settings and any list of channels too.                          *)
(*                                                                         *)
(* In the pool tasks are numbered by submission, so both the queue and the *)
(* history are intervals of task numbers ending at `submitted'.  That is   *)
(* the strengthening: an interval that reaches back at least as far as     *)
(* another contains it, which is why a history as long as the queue never  *)
(* evicts a queued task.                                                   *)
(*                                                                         *)
(* Every step of the application is a step of the pool or leaves it alone, *)
(* so the pool's invariants are at hand in the proofs about the lifespan   *)
(* and the alerts.                                                         *)
(***************************************************************************)
EXTENDS Application, SequenceTheorems, FiniteSetTheorems, WellFoundedInduction, TLAPS

\* The condition the settings do not enforce.
HistoryCoversQueue == MaxTracked >= QueueSize

\* s lists the numbers up to n, in increasing order and without a gap.
EndsAt(s, n) == \A i \in 1..Len(s) : s[i] = n - Len(s) + i

\* _queue holds the newest tasks, oldest first.
QueueShape ==
    /\ Len(queue) <= QueueSize
    /\ Len(queue) <= submitted
    /\ EndsAt(queue, submitted)

\* _order and _statuses hold the newest MaxTracked tasks.
HistoryShape ==
    /\ Len(order) <= submitted
    /\ Len(order) <= MaxTracked
    /\ submitted > Len(order) => Len(order) = MaxTracked
    /\ EndsAt(order, submitted)
    /\ tracked = {t \in 1..submitted : t > submitted - MaxTracked}

Shape == TypeOK /\ QueueShape /\ HistoryShape

\* The task numbers in _queue, given QueueShape.
InQueue(t) == submitted - Len(queue) < t /\ t <= submitted

\* What the statuses say of the queue and the workers, and conversely.
JobsAgree ==
    /\ \A t \in Tasks : status[t] = "none" <=> t > submitted
    /\ \A t \in Tasks : InQueue(t) => status[t] = "queued"
    /\ \A t \in Tasks : status[t] = "running" =>
          \E w \in Workers : pc[w] = "processing" /\ job[w] = t
    /\ \A w \in Workers : pc[w] = "processing" =>
          job[w] \in Tasks /\ job[w] <= submitted - Len(queue)
          /\ status[job[w]] = "running"
    /\ \A w \in Workers : pc[w] = "callback" =>
          job[w] \in Tasks /\ job[w] <= submitted - Len(queue)
          /\ status[job[w]] = "failed"
    /\ \A v, w \in Workers :
          /\ pc[v] \in {"processing", "callback"}
          /\ pc[w] \in {"processing", "callback"}
          /\ job[v] = job[w]
          => v = w
    /\ phase \in {"created", "stopped"} => \A w \in Workers : pc[w] = "absent"
    /\ phase = "created" => Len(queue) = 0

\* What holds in addition when the history covers the queue.
NothingLost ==
    /\ \A t \in Tasks : status[t] = "queued" => InQueue(t)
    /\ phase = "running" => \A w \in Workers : pc[w] \notin {"dead", "absent"}

-----------------------------------------------------------------------------
\* Appending the next number keeps a sequence an interval.
LEMMA EndsAtAppend ==
    ASSUME NEW S, NEW s \in Seq(S), NEW n \in Nat, n + 1 \in S, EndsAt(s, n)
    PROVE  /\ Append(s, n + 1) \in Seq(S)
           /\ Len(Append(s, n + 1)) = Len(s) + 1
           /\ EndsAt(Append(s, n + 1), n + 1)
<1> DEFINE a == Append(s, n + 1)
<1>1. /\ a \in Seq(S) /\ Len(a) = Len(s) + 1 /\ Len(s) \in Nat
      /\ \A i \in 1..Len(s) : a[i] = s[i]
      /\ a[Len(s) + 1] = n + 1
  BY AppendProperties
<1> HIDE DEF a
<1>2. ASSUME NEW i \in 1..Len(a) PROVE a[i] = (n + 1) - Len(a) + i
  <2>1. CASE i = Len(s) + 1
    BY <1>1, <2>1
  <2>2. CASE i # Len(s) + 1
    <3>1. i \in 1..Len(s)
      BY <1>1, <2>2
    <3>2. s[i] = n - Len(s) + i
      BY <3>1 DEF EndsAt
    <3>3. a[i] = n - Len(s) + i
      BY <1>1, <3>1, <3>2
    <3> QED BY <1>1, <3>3
  <2> QED BY <2>1, <2>2
<1> QED BY <1>1, <1>2 DEF EndsAt, a

\* A suffix of an interval ends where the interval ends.
LEMMA EndsAtSuffix ==
    ASSUME NEW S, NEW s \in Seq(S), NEW n \in Nat, EndsAt(s, n),
           NEW m \in 1..Len(s)
    PROVE  /\ SubSeq(s, m, Len(s)) \in Seq(S)
           /\ Len(SubSeq(s, m, Len(s))) = Len(s) - m + 1
           /\ EndsAt(SubSeq(s, m, Len(s)), n)
<1> DEFINE a == SubSeq(s, m, Len(s))
<1>0. m \in Int /\ Len(s) \in Int /\ m <= Len(s) /\ 1 <= m
  OBVIOUS
<1>1. \A i \in m..Len(s) : s[i] \in S
  BY <1>0
<1>2. /\ a \in Seq(S)
      /\ Len(a) = IF m <= Len(s) THEN Len(s) - m + 1 ELSE 0
      /\ \A i \in 1..(Len(s) - m + 1) : a[i] = s[m + i - 1]
  BY <1>0, <1>1, SubSeqProperties
<1> HIDE DEF a
<1>3. Len(a) = Len(s) - m + 1
  BY <1>0, <1>2
<1>4. ASSUME NEW i \in 1..Len(a) PROVE a[i] = n - Len(a) + i
  <2>1. m + i - 1 \in 1..Len(s) /\ i \in 1..(Len(s) - m + 1)
    BY <1>0, <1>3
  <2>2. a[i] = s[m + i - 1]
    BY <1>2, <2>1
  <2>3. s[m + i - 1] = n - Len(s) + (m + i - 1)
    BY <2>1 DEF EndsAt
  <2> QED BY <1>0, <1>3, <2>2, <2>3
<1> QED BY <1>2, <1>3, <1>4 DEF EndsAt, a

\* The tail of an interval, and what its head is.
LEMMA EndsAtTail ==
    ASSUME NEW S, NEW s \in Seq(S), NEW n \in Nat, EndsAt(s, n), s # <<>>
    PROVE  /\ Head(s) \in S
           /\ Head(s) = n - Len(s) + 1
           /\ Tail(s) \in Seq(S)
           /\ Len(Tail(s)) = Len(s) - 1
           /\ EndsAt(Tail(s), n)
<1> DEFINE a == Tail(s)
<1>1. /\ Head(s) \in S /\ Head(s) = s[1]
      /\ a \in Seq(S) /\ Len(a) = Len(s) - 1 /\ Len(s) \in Nat \ {0}
      /\ \A i \in 1..(Len(s) - 1) : a[i] = s[i + 1]
  OBVIOUS
<1>2. Head(s) = n - Len(s) + 1
  BY <1>1 DEF EndsAt
<1> HIDE DEF a
<1>3. ASSUME NEW i \in 1..Len(a) PROVE a[i] = n - Len(a) + i
  <2>1. i + 1 \in 1..Len(s) /\ i \in 1..(Len(s) - 1)
    BY <1>1
  <2>2. s[i + 1] = n - Len(s) + (i + 1)
    BY <2>1 DEF EndsAt
  <2> QED BY <1>1, <2>1, <2>2
<1> QED BY <1>1, <1>2, <1>3 DEF EndsAt, a

\* What _trim_status_history does to a history that one append made longer.
LEMMA AppendTrim ==
    ASSUME TypeOK, HistoryShape, submitted < MaxTasks,
           NEW longer \in Seq(Tasks), Len(longer) = Len(order) + 1,
           EndsAt(longer, submitted + 1)
    PROVE  /\ Trim(longer) \in Seq(Tasks)
           /\ Len(Trim(longer)) <= submitted + 1
           /\ Len(Trim(longer)) <= MaxTracked
           /\ submitted + 1 > Len(Trim(longer)) => Len(Trim(longer)) = MaxTracked
           /\ EndsAt(Trim(longer), submitted + 1)
           /\ (tracked \union {submitted + 1}) \ Dropped(longer)
                 = {t \in 1..(submitted + 1) : t > submitted + 1 - MaxTracked}
<1>0. /\ submitted \in Nat /\ Len(order) \in Nat
      /\ MaxTracked \in Nat \ {0} /\ order \in Seq(Tasks) /\ submitted + 1 \in Tasks
  BY SizesAssumption DEF TypeOK, Tasks
<1>1. /\ longer \in Seq(Tasks)
      /\ Len(longer) = Len(order) + 1
      /\ EndsAt(longer, submitted + 1)
  OBVIOUS
<1>2. CASE Len(longer) > MaxTracked
  <2>1. Len(order) = MaxTracked /\ Len(longer) = MaxTracked + 1
    BY <1>0, <1>1, <1>2 DEF HistoryShape
  <2>2. Trim(longer) = SubSeq(longer, 2, Len(longer))
    BY <1>0, <1>2, <2>1 DEF Trim
  <2>3. 2 \in 1..Len(longer) /\ submitted + 1 \in Nat /\ Len(longer) - 2 + 1 = MaxTracked
    BY <1>0, <2>1
  <2>4. /\ Trim(longer) \in Seq(Tasks)
        /\ Len(Trim(longer)) = MaxTracked
        /\ EndsAt(Trim(longer), submitted + 1)
    BY <1>1, <2>2, <2>3, EndsAtSuffix
  <2>5. (tracked \union {submitted + 1}) \ Dropped(longer)
           = {t \in 1..(submitted + 1) : t > submitted + 1 - MaxTracked}
    <3>1. Len(longer) - MaxTracked = 1 /\ 1 \in 1..Len(longer)
      BY <1>0, <2>1
    <3>2. Dropped(longer) = {longer[1]}
      BY <3>1 DEF Dropped
    <3>3. longer[1] = submitted + 1 - Len(longer) + 1
      BY <1>0, <1>1, <2>1, <3>1 DEF EndsAt
    <3>4. Dropped(longer) = {submitted + 1 - MaxTracked}
      BY <1>0, <2>1, <3>2, <3>3
    <3> QED BY <1>0, <3>4 DEF HistoryShape
  <2>6. MaxTracked <= submitted + 1
    BY <1>0, <2>1 DEF HistoryShape
  <2> QED BY <1>0, <2>4, <2>5, <2>6
<1>3. CASE ~(Len(longer) > MaxTracked)
  <2>1. Trim(longer) = longer
    BY <1>3 DEF Trim
  <2>2. Dropped(longer) = {}
    BY <1>0, <1>1, <1>3 DEF Dropped
  <2>3. Len(order) = submitted /\ Len(longer) = submitted + 1
    BY <1>0, <1>1, <1>3 DEF HistoryShape
  <2>4. (tracked \union {submitted + 1}) \ Dropped(longer)
           = {t \in 1..(submitted + 1) : t > submitted + 1 - MaxTracked}
    BY <1>0, <1>3, <2>2, <2>3 DEF HistoryShape
  <2>5. /\ Len(longer) <= submitted + 1
        /\ Len(longer) <= MaxTracked
        /\ ~(submitted + 1 > Len(longer))
    BY <1>0, <1>3, <2>3
  <2> QED BY <1>1, <2>1, <2>4, <2>5, Zenon
<1> QED BY <1>2, <1>3

\* A step that leaves the queue and the history alone keeps their shape.
LEMMA ShapeKept ==
    ASSUME QueueShape, HistoryShape, UNCHANGED <<queue, order, tracked, submitted>>
    PROVE  QueueShape' /\ HistoryShape'
BY DEF QueueShape, HistoryShape

\* The finally block keeps the types of what it assigns.
LEMMA FinallyType ==
    ASSUME TypeOK, NEW w \in Workers, NEW next \in {"idle", "dead"}, Finally(w, next)
    PROVE  /\ pc' \in [Workers -> {"absent", "idle", "processing", "callback", "dead"}]
           /\ job' \in [Workers -> 0..MaxTasks]
           /\ unfinished' \in Int
           /\ activeGauge' \in Int
           /\ inQueueGauge' \in Nat
BY SizesAssumption DEF Finally, TypeOK

\* Every step keeps the queue and the history intervals of task numbers.
LEMMA ShapeInductive == Shape /\ [Next]_vars => Shape'
<1> SUFFICES ASSUME Shape, [Next]_vars PROVE Shape'
  OBVIOUS
<1> USE SizesAssumption DEF Shape
<1>1. CASE Start
  BY <1>1 DEF Start, TypeOK, QueueShape, HistoryShape
<1>2. CASE Submit
  <2> DEFINE longer == Append(order, submitted + 1)
  <2>0. submitted < MaxTasks /\ submitted + 1 \in Tasks /\ Len(queue) < QueueSize
    BY <1>2 DEF Submit, SubmitReply, QueueFull, Running, TypeOK, Tasks
  <2>1. HistoryShape' /\ order' \in Seq(Tasks) /\ tracked' \in SUBSET Tasks
    <3>1. /\ submitted' = submitted + 1
          /\ order' = Trim(longer)
          /\ tracked' = (tracked \union {submitted + 1}) \ Dropped(longer)
      BY <1>2 DEF Submit
    <3>2. /\ longer \in Seq(Tasks)
          /\ Len(longer) = Len(order) + 1
          /\ EndsAt(longer, submitted + 1)
      BY <2>0, EndsAtAppend DEF HistoryShape, TypeOK
    <3> HIDE DEF longer
    <3>3. /\ order' \in Seq(Tasks)
          /\ Len(order') <= submitted'
          /\ Len(order') <= MaxTracked
          /\ submitted' > Len(order') => Len(order') = MaxTracked
          /\ EndsAt(order', submitted')
          /\ tracked' = {t \in 1..submitted' : t > submitted' - MaxTracked}
      <4>1. /\ Trim(longer) \in Seq(Tasks)
            /\ Len(Trim(longer)) <= submitted + 1
            /\ Len(Trim(longer)) <= MaxTracked
            /\ submitted + 1 > Len(Trim(longer)) => Len(Trim(longer)) = MaxTracked
            /\ EndsAt(Trim(longer), submitted + 1)
            /\ (tracked \union {submitted + 1}) \ Dropped(longer)
                  = {t \in 1..(submitted + 1) : t > submitted + 1 - MaxTracked}
        BY <2>0, <3>2, AppendTrim
      <4>2. submitted \in Nat
        BY DEF TypeOK
      <4> QED BY <3>1, <4>1, <4>2 DEF EndsAt
    <3>4. tracked' \in SUBSET Tasks
      BY <2>0, <3>1, <3>3 DEF TypeOK, Tasks
    <3> QED BY <3>3, <3>4 DEF HistoryShape
  <2>2. /\ queue' = Append(queue, submitted + 1)
        /\ submitted' = submitted + 1
    BY <1>2 DEF Submit
  <2>3. queue' \in Seq(Tasks) /\ QueueShape'
    <3>1. submitted \in Nat /\ queue \in Seq(Tasks) /\ Len(queue) \in Nat
      BY DEF TypeOK
    <3>2. /\ queue' \in Seq(Tasks)
          /\ Len(queue') = Len(queue) + 1
          /\ EndsAt(queue', submitted')
      BY <2>0, <2>2, <3>1, EndsAtAppend DEF QueueShape
    <3> QED BY <2>0, <2>2, <3>1, <3>2 DEF QueueShape
  <2>4. TypeOK'
    BY <1>2, <2>0, <2>1, <2>2, <2>3 DEF Submit, TypeOK, TaskState, Tasks
  <2> QED BY <2>1, <2>3, <2>4
<1>3. CASE StopBegins
  BY <1>3 DEF StopBegins, TypeOK, QueueShape, HistoryShape
<1>4. CASE StopEnds
  BY <1>4 DEF StopEnds, TypeOK, QueueShape, HistoryShape
<1>5. ASSUME NEW w \in Workers, Take(w) PROVE Shape'
  <2>0. /\ submitted \in Nat /\ queue \in Seq(Tasks) /\ queue # <<>>
        /\ Len(queue) \in Nat
        /\ queue' = Tail(queue) /\ submitted' = submitted
    BY <1>5 DEF Take, TypeOK
  <2>1. /\ Head(queue) \in Tasks
        /\ queue' \in Seq(Tasks)
        /\ Len(queue') = Len(queue) - 1
        /\ EndsAt(queue', submitted')
    BY <2>0, EndsAtTail DEF QueueShape
  <2>2. QueueShape'
    BY <2>0, <2>1 DEF QueueShape
  <2>3. HistoryShape'
    BY <1>5 DEF Take, HistoryShape
  <2>4. TypeOK'
    <3>1. CASE TakeTracked(w)
      BY <1>5, <2>1, <3>1 DEF Take, TakeTracked, TypeOK, TaskState, Tasks
    <3>2. CASE TakeUntracked(w)
      BY <1>5, <2>1, <3>2 DEF Take, TakeUntracked, TypeOK
    <3> QED BY <1>5, <3>1, <3>2 DEF Take
  <2> QED BY <2>2, <2>3, <2>4
<1>6. ASSUME NEW w \in Workers, ProcessorReturns(w) PROVE Shape'
  <2>1. TypeOK'
    BY <1>6, FinallyType DEF ProcessorReturns, TypeOK, TaskState, Terminal
  <2> QED BY <1>6, <2>1, ShapeKept DEF ProcessorReturns
<1>7. ASSUME NEW w \in Workers, ProcessorRaises(w) PROVE Shape'
  <2>1. CASE HasCallback
    BY <1>7, <2>1, ShapeKept DEF ProcessorRaises, TypeOK, TaskState, Terminal
  <2>2. CASE ~HasCallback
    <3>1. TypeOK'
      BY <1>7, <2>2, FinallyType DEF ProcessorRaises, TypeOK, TaskState, Terminal
    <3> QED BY <1>7, <3>1, ShapeKept DEF ProcessorRaises
  <2> QED BY <2>1, <2>2
<1>8. ASSUME NEW w \in Workers, CallbackEnds(w) PROVE Shape'
  <2>1. TypeOK'
    BY <1>8, FinallyType DEF CallbackEnds, TypeOK
  <2> QED BY <1>8, <2>1, ShapeKept DEF CallbackEnds
<1>9. ASSUME NEW w \in Workers, WorkerCancelled(w) PROVE Shape'
  <2>0. UNCHANGED <<phase, queue, order, tracked, submitted>>
    BY <1>9 DEF WorkerCancelled
  <2>1. CASE CancelIdle(w)
    BY <2>0, <2>1, ShapeKept DEF CancelIdle, TypeOK
  <2>2. CASE CancelProcessing(w)
    <3>1. TypeOK'
      BY <2>0, <2>2, FinallyType DEF CancelProcessing, TypeOK, TaskState, Terminal
    <3> QED BY <2>0, <3>1, ShapeKept
  <2>3. CASE CancelCallback(w)
    <3>1. TypeOK'
      BY <2>0, <2>3, FinallyType DEF CancelCallback, TypeOK
    <3> QED BY <2>0, <3>1, ShapeKept
  <2> QED BY <1>9, <2>1, <2>2, <2>3 DEF WorkerCancelled
<1>10. CASE UNCHANGED vars
  BY <1>10 DEF vars, TypeOK, QueueShape, HistoryShape
<1> QED
  BY <1>1, <1>2, <1>3, <1>4, <1>5, <1>6, <1>7, <1>8, <1>9, <1>10
  DEF Next, WorkerStep

LEMMA ShapeInvariant == Spec => []Shape
<1>1. Init => Shape
  <2> SUFFICES ASSUME Init PROVE Shape
    OBVIOUS
  <2> USE SizesAssumption DEF Init
  <2>1. TypeOK
    BY DEF TypeOK
  <2>2. QueueShape
    BY DEF QueueShape, EndsAt
  <2>3. HistoryShape
    BY DEF HistoryShape, EndsAt
  <2> QED BY <2>1, <2>2, <2>3 DEF Shape
<1> QED BY <1>1, ShapeInductive, PTL DEF Spec

-----------------------------------------------------------------------------
\* Type correctness of the pool, for every configuration.
THEOREM TypeCorrect == Spec => []TypeOK
<1>1. Shape => TypeOK
  BY DEF Shape
<1> QED BY <1>1, ShapeInvariant, PTL

\* The status route finds exactly the newest MaxTracked tasks, for every
\* configuration, the ones whose history is too short included.
THEOREM RecentTasksAreFound == Spec => []RecentTasksFound
<1>1. Shape => RecentTasksFound
  BY DEF Shape, HistoryShape, RecentTasksFound, StatusReply
<1> QED BY <1>1, ShapeInvariant, PTL

-----------------------------------------------------------------------------
LEMMA JobsInductive == Shape /\ Shape' /\ JobsAgree /\ [Next]_vars => JobsAgree'
<1> SUFFICES ASSUME Shape, Shape', JobsAgree, [Next]_vars PROVE JobsAgree'
  OBVIOUS
<1>0. /\ submitted \in Nat /\ Len(queue) \in Nat /\ Len(queue) <= submitted
      /\ status \in [Tasks -> TaskState \union {"none"}]
      /\ pc \in [Workers -> {"absent", "idle", "processing", "callback", "dead"}]
      /\ job \in [Workers -> 0..MaxTasks]
      /\ Tasks \in SUBSET Nat
  BY DEF Shape, TypeOK, QueueShape, Tasks
<1>1. CASE Start
  BY <1>0, <1>1 DEF Start, JobsAgree, InQueue
<1>2. CASE Submit
  <2>1. /\ submitted' = submitted + 1
        /\ submitted + 1 \in Tasks
        /\ status' = [status EXCEPT ![submitted + 1] = "queued"]
        /\ Len(queue') = Len(queue) + 1
        /\ UNCHANGED <<phase, pc, job>>
        /\ phase = "running"
    BY <1>0, <1>2 DEF Submit, SubmitReply, Running, Tasks, Shape, TypeOK
  <2> QED BY <1>0, <2>1 DEF JobsAgree, InQueue
<1>3. CASE StopBegins
  BY <1>3 DEF StopBegins, JobsAgree, InQueue
<1>4. CASE StopEnds
  BY <1>0, <1>4 DEF StopEnds, JobsAgree, InQueue
<1>5. ASSUME NEW w \in Workers, Take(w) PROVE JobsAgree'
  <2>1. /\ Len(queue') = Len(queue) - 1
        /\ Head(queue) \in Tasks
        /\ Head(queue) = submitted - Len(queue) + 1
        /\ UNCHANGED <<phase, submitted>>
        /\ phase = "running" /\ pc[w] = "idle" /\ Len(queue) > 0
    <3>1. /\ queue \in Seq(Tasks) /\ queue # <<>> /\ EndsAt(queue, submitted)
          /\ queue' = Tail(queue)
          /\ UNCHANGED <<phase, submitted>>
          /\ phase = "running" /\ pc[w] = "idle"
      BY <1>5 DEF Take, Shape, TypeOK, QueueShape
    <3>2. /\ Len(queue') = Len(queue) - 1
          /\ Head(queue) \in Tasks
          /\ Head(queue) = submitted - Len(queue) + 1
      BY <1>0, <3>1, EndsAtTail
    <3>3. Len(queue) > 0
      BY <3>1
    <3> QED BY <3>1, <3>2, <3>3
  <2>2. CASE TakeTracked(w)
    BY <1>0, <2>1, <2>2 DEF TakeTracked, JobsAgree, InQueue
  <2>3. CASE TakeUntracked(w)
    BY <1>0, <2>1, <2>3 DEF TakeUntracked, JobsAgree, InQueue
  <2> QED BY <1>5, <2>2, <2>3 DEF Take
<1>6. ASSUME NEW w \in Workers, ProcessorReturns(w) PROVE JobsAgree'
  BY <1>0, <1>6 DEF ProcessorReturns, Finally, JobsAgree, InQueue
<1>7. ASSUME NEW w \in Workers, ProcessorRaises(w) PROVE JobsAgree'
  <2>1. CASE HasCallback
    BY <1>0, <1>7, <2>1 DEF ProcessorRaises, JobsAgree, InQueue
  <2>2. CASE ~HasCallback
    <3>1. /\ phase = "running" /\ pc[w] = "processing"
          /\ status' = [status EXCEPT ![job[w]] = "failed"]
          /\ pc' = [pc EXCEPT ![w] = "idle"]
          /\ job' = [job EXCEPT ![w] = 0]
          /\ UNCHANGED <<phase, queue, submitted>>
      BY <1>7, <2>2 DEF ProcessorRaises, Finally
    <3> QED BY <1>0, <3>1 DEF JobsAgree, InQueue
  <2> QED BY <2>1, <2>2
<1>8. ASSUME NEW w \in Workers, CallbackEnds(w) PROVE JobsAgree'
  BY <1>0, <1>8 DEF CallbackEnds, Finally, JobsAgree, InQueue
<1>9. ASSUME NEW w \in Workers, WorkerCancelled(w) PROVE JobsAgree'
  <2>0. phase = "stopping" /\ UNCHANGED <<phase, queue, order, tracked, submitted>>
    BY <1>9 DEF WorkerCancelled
  <2>1. CASE CancelIdle(w)
    BY <1>0, <2>0, <2>1 DEF CancelIdle, JobsAgree, InQueue
  <2>2. CASE CancelProcessing(w)
    BY <1>0, <2>0, <2>2 DEF CancelProcessing, Finally, JobsAgree, InQueue
  <2>3. CASE CancelCallback(w)
    BY <1>0, <2>0, <2>3 DEF CancelCallback, Finally, JobsAgree, InQueue
  <2> QED BY <1>9, <2>1, <2>2, <2>3 DEF WorkerCancelled
<1>10. CASE UNCHANGED vars
  BY <1>10 DEF vars, JobsAgree, InQueue
<1> QED
  BY <1>1, <1>2, <1>3, <1>4, <1>5, <1>6, <1>7, <1>8, <1>9, <1>10
  DEF Next, WorkerStep

LEMMA JobsInvariant == Spec => [](Shape /\ JobsAgree)
<1>1. Init => JobsAgree
  BY SizesAssumption DEF Init, JobsAgree, InQueue, Tasks
<1> QED BY <1>1, JobsInductive, ShapeInvariant, PTL DEF Spec

\* No step touches the status of a finished task.
LEMMA FinishedStays ==
    ASSUME Shape, JobsAgree, [Next]_vars
    PROVE  \A t \in Tasks : status[t] \in Terminal => status'[t] = status[t]
<1> DEFINE Final == \A t \in Tasks : status[t] \in Terminal => status'[t] = status[t]
<1> SUFFICES Final
  OBVIOUS
<1>0. /\ submitted \in Nat /\ Len(queue) \in Nat /\ Tasks \in SUBSET Nat
      /\ status \in [Tasks -> TaskState \union {"none"}]
  BY DEF Shape, TypeOK, Tasks
<1>1. CASE Start \/ StopBegins \/ StopEnds
  BY <1>1 DEF Start, StopBegins, StopEnds
<1>2. CASE Submit
  BY <1>0, <1>2 DEF Submit, JobsAgree, Terminal
<1>3. ASSUME NEW w \in Workers, Take(w) PROVE Final
  <2>1. queue \in Seq(Tasks) /\ queue # <<>> /\ EndsAt(queue, submitted)
    BY <1>3 DEF Take, Shape, TypeOK, QueueShape
  <2>2. /\ Head(queue) \in Tasks
        /\ Head(queue) = submitted - Len(queue) + 1
        /\ Len(queue) > 0
    BY <1>0, <2>1, EndsAtTail
  <2>3. status[Head(queue)] = "queued"
    BY <1>0, <2>2 DEF JobsAgree, InQueue
  <2> QED BY <1>0, <1>3, <2>3 DEF Take, TakeTracked, TakeUntracked, Terminal
<1>4. ASSUME NEW w \in Workers, ProcessorReturns(w) \/ ProcessorRaises(w) PROVE Final
  BY <1>0, <1>4 DEF ProcessorReturns, ProcessorRaises, JobsAgree, Terminal
<1>5. ASSUME NEW w \in Workers, CallbackEnds(w) PROVE Final
  BY <1>5 DEF CallbackEnds
<1>6. ASSUME NEW w \in Workers, WorkerCancelled(w) PROVE Final
  BY <1>0, <1>6 DEF WorkerCancelled, CancelIdle, CancelProcessing, CancelCallback,
                    JobsAgree, Terminal
<1>7. CASE UNCHANGED vars
  BY <1>7 DEF vars
<1> QED BY <1>1, <1>2, <1>3, <1>4, <1>5, <1>6, <1>7 DEF Next, WorkerStep

\* A reported outcome is final: no step, a cancellation during the failure
\* callback included, changes the status of a finished task.
THEOREM OutcomesAreFinal == Spec => OutcomeIsFinal
<1>1. Shape /\ JobsAgree /\ [Next]_vars =>
        [\A t \in Tasks : status[t] \in Terminal => status'[t] = status[t]]_vars
  BY FinishedStays
<1> QED BY <1>1, JobsInvariant, PTL DEF Spec, OutcomeIsFinal

\* A stopped pool has no busy worker and no task that reads "running".
THEOREM StoppedPoolIsQuiet == Spec => []StoppedIsQuiet
<1>1. JobsAgree => StoppedIsQuiet
  BY DEF JobsAgree, StoppedIsQuiet, Busy
<1> QED BY <1>1, JobsInvariant, PTL

-----------------------------------------------------------------------------
\* The history is an interval at least as long as the queue: it contains it.
LEMMA QueueIsTracked ==
    ASSUME HistoryCoversQueue, Shape
    PROVE  QueuedTasks \subseteq tracked
<1> SUFFICES ASSUME NEW i \in 1..Len(queue) PROVE queue[i] \in tracked
  BY DEF QueuedTasks
<1>1. /\ submitted \in Nat /\ Len(queue) \in Nat
      /\ Len(queue) <= submitted /\ Len(queue) <= QueueSize
      /\ queue[i] = submitted - Len(queue) + i
      /\ tracked = {t \in 1..submitted : t > submitted - MaxTracked}
  BY DEF Shape, TypeOK, QueueShape, HistoryShape, EndsAt
<1> QED BY <1>1, SizesAssumption DEF HistoryCoversQueue

LEMMA NothingLostInductive ==
    ASSUME HistoryCoversQueue, Shape, JobsAgree, NothingLost, [Next]_vars
    PROVE  NothingLost'
<1>0. /\ submitted \in Nat /\ Len(queue) \in Nat /\ Len(queue) <= submitted
      /\ status \in [Tasks -> TaskState \union {"none"}]
      /\ pc \in [Workers -> {"absent", "idle", "processing", "callback", "dead"}]
      /\ job \in [Workers -> 0..MaxTasks]
      /\ Tasks \in SUBSET Nat
  BY DEF Shape, TypeOK, QueueShape, Tasks
<1>1. CASE Start
  BY <1>0, <1>1 DEF Start, NothingLost, InQueue
<1>2. CASE Submit
  <2>1. /\ submitted' = submitted + 1
        /\ submitted + 1 \in Tasks
        /\ status' = [status EXCEPT ![submitted + 1] = "queued"]
        /\ Len(queue') = Len(queue) + 1
        /\ UNCHANGED <<phase, pc>>
    <3>1. submitted + 1 \in Tasks /\ queue \in Seq(Tasks)
      BY <1>0, <1>2, SizesAssumption DEF Submit, Tasks, Shape, TypeOK
    <3> QED BY <1>0, <1>2, <3>1 DEF Submit
  <2> QED BY <1>0, <2>1 DEF NothingLost, InQueue
<1>3. CASE StopBegins \/ StopEnds
  BY <1>3 DEF StopBegins, StopEnds, NothingLost, InQueue
<1>4. ASSUME NEW w \in Workers, Take(w) PROVE NothingLost'
  <2>1. /\ queue \in Seq(Tasks) /\ queue # <<>> /\ EndsAt(queue, submitted)
        /\ queue' = Tail(queue)
        /\ UNCHANGED <<phase, submitted>>
    BY <1>4 DEF Take, Shape, TypeOK, QueueShape
  <2>2. /\ Len(queue') = Len(queue) - 1
        /\ Head(queue) \in Tasks
        /\ Head(queue) = submitted - Len(queue) + 1
    BY <1>0, <2>1, EndsAtTail
  <2>3. Head(queue) \in QueuedTasks
    BY <2>1 DEF QueuedTasks
  <2>4. TakeTracked(w)
    BY <1>4, <2>3, QueueIsTracked DEF Take
  <2> QED BY <1>0, <2>1, <2>2, <2>4 DEF TakeTracked, NothingLost, InQueue
<1>5. ASSUME NEW w \in Workers, ProcessorReturns(w) PROVE NothingLost'
  BY <1>0, <1>5 DEF ProcessorReturns, Finally, NothingLost, InQueue
<1>6. ASSUME NEW w \in Workers, ProcessorRaises(w) PROVE NothingLost'
  BY <1>0, <1>6 DEF ProcessorRaises, Finally, NothingLost, InQueue
<1>7. ASSUME NEW w \in Workers, CallbackEnds(w) PROVE NothingLost'
  BY <1>0, <1>7 DEF CallbackEnds, Finally, NothingLost, InQueue
<1>8. ASSUME NEW w \in Workers, WorkerCancelled(w) PROVE NothingLost'
  BY <1>0, <1>8 DEF WorkerCancelled, CancelIdle, CancelProcessing, CancelCallback,
                    Finally, NothingLost, InQueue
<1>9. CASE UNCHANGED vars
  BY <1>9 DEF vars, NothingLost, InQueue
<1> QED
  BY <1>1, <1>2, <1>3, <1>4, <1>5, <1>6, <1>7, <1>8, <1>9 DEF Next, WorkerStep

LEMMA NothingLostInvariant ==
    ASSUME HistoryCoversQueue
    PROVE  Spec => [](Shape /\ JobsAgree /\ NothingLost)
<1>1. Init => NothingLost
  BY DEF Init, NothingLost, Tasks
<1>2. Shape /\ JobsAgree /\ NothingLost /\ [Next]_vars => NothingLost'
  BY NothingLostInductive
<1> QED BY <1>1, <1>2, JobsInvariant, PTL DEF Spec

\* With a history at least as long as the queue no worker of a running pool
\* dies of a missing status, whatever is submitted, fails or is cancelled.
THEOREM NoWorkerIsLost == HistoryCoversQueue => (Spec => []NoWorkerLost)
<1> SUFFICES ASSUME HistoryCoversQueue PROVE Spec => []NoWorkerLost
  OBVIOUS
<1>1. Shape /\ NothingLost => NoWorkerLost
  BY QueueIsTracked DEF NothingLost, NoWorkerLost, Dead
<1> QED BY <1>1, NothingLostInvariant, PTL

\* ... and every task is in exactly one place, the one its status names.
THEOREM TasksRunExactlyOnce == HistoryCoversQueue => (Spec => []ExactlyOnce)
<1> SUFFICES ASSUME HistoryCoversQueue PROVE Spec => []ExactlyOnce
  OBVIOUS
<1>1. Shape /\ JobsAgree /\ NothingLost => ExactlyOnce
  <2> SUFFICES ASSUME Shape, JobsAgree, NothingLost PROVE ExactlyOnce
    OBVIOUS
  <2>0. /\ submitted \in Nat /\ Len(queue) \in Nat /\ Len(queue) <= submitted
        /\ Tasks \in SUBSET Nat
        /\ \A i \in 1..Len(queue) : queue[i] = submitted - Len(queue) + i
    BY DEF Shape, TypeOK, QueueShape, EndsAt, Tasks
  <2>1. \A t \in Tasks : InQueue(t) <=> t \in QueuedTasks
    <3> SUFFICES ASSUME NEW t \in Tasks PROVE InQueue(t) <=> t \in QueuedTasks
      OBVIOUS
    <3>1. ASSUME InQueue(t) PROVE t \in QueuedTasks
      <4> DEFINE i == t - (submitted - Len(queue))
      <4>1. i \in 1..Len(queue) /\ submitted - Len(queue) + i = t
        BY <2>0, <3>1 DEF InQueue
      <4>2. queue[i] = t
        BY <2>0, <4>1
      <4> QED BY <4>1, <4>2 DEF QueuedTasks
    <3>2. ASSUME t \in QueuedTasks PROVE InQueue(t)
      BY <2>0, <3>2 DEF QueuedTasks, InQueue
    <3> QED BY <3>1, <3>2
  <2>2. \A v, w \in Busy : job[v] = job[w] => v = w
    BY DEF JobsAgree, Busy
  <2>3. \A w \in Busy : job[w] \notin QueuedTasks
    BY <2>0 DEF JobsAgree, Busy, QueuedTasks
  <2>4. \A t \in Tasks : status[t] = "queued" <=> t \in QueuedTasks
    BY <2>1 DEF JobsAgree, NothingLost
  <2>5. \A t \in Tasks : status[t] = "running" <=>
          \E w \in Workers : pc[w] = "processing" /\ job[w] = t
    BY DEF JobsAgree
  <2> QED BY <2>2, <2>3, <2>4, <2>5 DEF ExactlyOnce
<1> QED BY <1>1, NothingLostInvariant, PTL

-----------------------------------------------------------------------------
(* The gauges.  What the steps do to the set of busy workers comes first. *)

LEMMA BusyFinite ==
    /\ IsFiniteSet(Busy) /\ Cardinality(Busy) \in Nat
    /\ IsFiniteSet(Busy') /\ Cardinality(Busy') \in Nat
BY WorkersAssumption, FS_Subset, FS_CardinalityType DEF Busy

\* A worker that takes a task adds one to the busy workers.
LEMMA BusyGrows ==
    ASSUME TypeOK, NEW w \in Workers, pc[w] = "idle",
           pc' = [pc EXCEPT ![w] = "processing"]
    PROVE  Cardinality(Busy') = Cardinality(Busy) + 1
<1>1. Busy' = Busy \union {w} /\ w \notin Busy
  BY DEF Busy, TypeOK
<1> QED BY <1>1, BusyFinite, FS_AddElement

\* The finally block takes one from them.
LEMMA BusyShrinks ==
    ASSUME TypeOK, NEW w \in Workers, pc[w] \in {"processing", "callback"},
           NEW next \in {"idle", "dead"}, pc' = [pc EXCEPT ![w] = next]
    PROVE  Cardinality(Busy') = Cardinality(Busy) - 1
<1>1. Busy' = Busy \ {w} /\ w \in Busy
  BY DEF Busy, TypeOK
<1> QED BY <1>1, BusyFinite, FS_RemoveElement

\* The effect of the finally block on what GaugesExact compares.
LEMMA FinallyGauges ==
    ASSUME Shape, GaugesExact, UNCHANGED queue,
           NEW w \in Workers, pc[w] \in {"processing", "callback"},
           NEW next \in {"idle", "dead"}, Finally(w, next)
    PROVE  GaugesExact'
<1>1. Cardinality(Busy') = Cardinality(Busy) - 1
  BY BusyShrinks DEF Finally, Shape
<1>2. Len(queue) \in Nat
  BY DEF Shape, TypeOK
<1> QED BY <1>1, <1>2, BusyFinite DEF Finally, GaugesExact

LEMMA GaugesInductive ==
    ASSUME HistoryCoversQueue, Shape, JobsAgree, GaugesExact, [Next]_vars
    PROVE  GaugesExact'
<1>0. Len(queue) \in Nat /\ queue \in Seq(Tasks) /\ TypeOK
  BY DEF Shape, TypeOK
<1>1. CASE Start
  <2>1. Busy = {} /\ Busy' = {}
    BY <1>1 DEF Start, JobsAgree, Busy
  <2>2. Len(queue) = 0
    BY <1>1 DEF Start, JobsAgree
  <2> QED BY <1>1, <2>1, <2>2, FS_EmptySet DEF Start, GaugesExact
<1>2. CASE Submit
  <2>1. /\ queue' = Append(queue, submitted + 1) /\ UNCHANGED pc
        /\ unfinished' = unfinished + 1 /\ inQueueGauge' = Len(queue')
        /\ UNCHANGED activeGauge
    BY <1>2 DEF Submit
  <2>2. Len(queue') = Len(queue) + 1 /\ Busy' = Busy
    BY <1>0, <2>1 DEF Busy
  <2> QED BY <1>0, <2>1, <2>2, BusyFinite DEF GaugesExact
<1>3. CASE StopBegins
  BY <1>3 DEF StopBegins, GaugesExact, Busy
<1>4. CASE StopEnds
  <2>1. Busy = {} /\ Busy' = {}
    BY <1>4 DEF StopEnds, Busy
  <2> QED BY <1>0, <1>4, <2>1, FS_EmptySet DEF StopEnds, GaugesExact
<1>5. ASSUME NEW w \in Workers, Take(w) PROVE GaugesExact'
  <2>1. queue # <<>> /\ queue' = Tail(queue) /\ pc[w] = "idle"
    BY <1>5 DEF Take
  <2>2. Head(queue) \in QueuedTasks /\ Len(queue') = Len(queue) - 1
    BY <1>0, <2>1 DEF QueuedTasks
  <2>3. TakeTracked(w)
    BY <1>5, <2>2, QueueIsTracked DEF Take
  <2>4. Cardinality(Busy') = Cardinality(Busy) + 1
    BY <1>0, <2>1, <2>3, BusyGrows DEF TakeTracked
  <2> QED BY <1>0, <2>2, <2>3, <2>4, BusyFinite DEF TakeTracked, GaugesExact
<1>6. ASSUME NEW w \in Workers, ProcessorReturns(w) PROVE GaugesExact'
  BY <1>6, FinallyGauges DEF ProcessorReturns
<1>7. ASSUME NEW w \in Workers, ProcessorRaises(w) PROVE GaugesExact'
  <2>1. CASE HasCallback
    <3>1. Busy' = Busy
      BY <1>0, <1>7, <2>1 DEF ProcessorRaises, Busy, TypeOK
    <3> QED BY <1>7, <2>1, <3>1 DEF ProcessorRaises, GaugesExact
  <2>2. CASE ~HasCallback
    BY <1>7, <2>2, FinallyGauges DEF ProcessorRaises
  <2> QED BY <2>1, <2>2
<1>8. ASSUME NEW w \in Workers, CallbackEnds(w) PROVE GaugesExact'
  BY <1>8, FinallyGauges DEF CallbackEnds
<1>9. ASSUME NEW w \in Workers, WorkerCancelled(w) PROVE GaugesExact'
  <2>0. UNCHANGED queue
    BY <1>9 DEF WorkerCancelled
  <2>1. CASE CancelIdle(w)
    <3>1. Busy' = Busy
      BY <1>0, <2>1 DEF CancelIdle, Busy, TypeOK
    <3> QED BY <2>0, <2>1, <3>1 DEF CancelIdle, GaugesExact
  <2>2. CASE CancelProcessing(w) \/ CancelCallback(w)
    BY <2>0, <2>2, FinallyGauges DEF CancelProcessing, CancelCallback
  <2> QED BY <1>9, <2>1, <2>2 DEF WorkerCancelled
<1>10. CASE UNCHANGED vars
  BY <1>10 DEF vars, GaugesExact, Busy
<1> QED
  BY <1>1, <1>2, <1>3, <1>4, <1>5, <1>6, <1>7, <1>8, <1>9, <1>10
  DEF Next, WorkerStep

\* The two gauges and the queue's count of unfinished tasks are exact, so
\* task_done() is called once for each task taken and never once more.
THEOREM GaugesAreExact == HistoryCoversQueue => (Spec => []GaugesExact)
<1> SUFFICES ASSUME HistoryCoversQueue PROVE Spec => []GaugesExact
  OBVIOUS
<1>1. Init => GaugesExact
  <2> SUFFICES ASSUME Init PROVE GaugesExact
    OBVIOUS
  <2>1. Busy = {} /\ Len(queue) = 0
    BY DEF Init, Busy
  <2> QED BY <2>1, FS_EmptySet DEF Init, GaugesExact
<1>2. Shape /\ JobsAgree /\ GaugesExact /\ [Next]_vars => GaugesExact'
  BY GaugesInductive
<1> QED BY <1>1, <1>2, JobsInvariant, PTL DEF Spec

-----------------------------------------------------------------------------
(* A history too short for the queue: what is lost, and no more. *)

\* Until it is stopped, the queue's count of unfinished tasks is made up of
\* the queued tasks, the executed ones and those that died with a worker.
UnfinishedAccounted ==
    phase \in {"created", "running"} =>
        unfinished = Len(queue) + Cardinality(Busy) + Cardinality(Dead)

LEMMA DeadFinite ==
    /\ IsFiniteSet(Dead) /\ Cardinality(Dead) \in Nat
    /\ IsFiniteSet(Dead') /\ Cardinality(Dead') \in Nat
BY WorkersAssumption, FS_Subset, FS_CardinalityType DEF Dead

\* The finally block of a worker that goes on.
LEMMA FinallyAccounted ==
    ASSUME Shape, UnfinishedAccounted, phase = "running", UNCHANGED queue,
           NEW w \in Workers, pc[w] \in {"processing", "callback"}, Finally(w, "idle")
    PROVE  UnfinishedAccounted'
<1>1. Cardinality(Busy') = Cardinality(Busy) - 1
  BY BusyShrinks DEF Finally, Shape
<1>2. Dead' = Dead
  BY DEF Finally, Dead, Shape, TypeOK
<1>3. Len(queue) \in Nat
  BY DEF Shape, TypeOK
<1> QED BY <1>1, <1>2, <1>3, BusyFinite, DeadFinite DEF Finally, UnfinishedAccounted

LEMMA UnfinishedInductive ==
    ASSUME Shape, JobsAgree, UnfinishedAccounted, [Next]_vars
    PROVE  UnfinishedAccounted'
<1>0. Len(queue) \in Nat /\ queue \in Seq(Tasks) /\ TypeOK
  BY DEF Shape, TypeOK
<1>1. CASE Start
  <2>1. Busy = {} /\ Busy' = {} /\ Dead = {} /\ Dead' = {}
    BY <1>1 DEF Start, JobsAgree, Busy, Dead
  <2> QED BY <1>1, <2>1 DEF Start, UnfinishedAccounted
<1>2. CASE Submit
  <2>1. /\ queue' = Append(queue, submitted + 1) /\ UNCHANGED <<pc, phase>>
        /\ unfinished' = unfinished + 1
    BY <1>2 DEF Submit
  <2>2. Len(queue') = Len(queue) + 1 /\ Busy' = Busy /\ Dead' = Dead
    BY <1>0, <2>1 DEF Busy, Dead
  <2> QED BY <1>0, <2>1, <2>2, BusyFinite, DeadFinite DEF UnfinishedAccounted
<1>3. CASE StopBegins \/ StopEnds
  BY <1>3 DEF StopBegins, StopEnds, UnfinishedAccounted
<1>4. ASSUME NEW w \in Workers, Take(w) PROVE UnfinishedAccounted'
  <2>1. /\ queue # <<>> /\ queue' = Tail(queue) /\ pc[w] = "idle"
        /\ phase = "running" /\ phase' = phase
    BY <1>4 DEF Take
  <2>2. Len(queue') = Len(queue) - 1
    BY <1>0, <2>1
  <2>3. CASE TakeTracked(w)
    <3>1. Cardinality(Busy') = Cardinality(Busy) + 1
      BY <1>0, <2>1, <2>3, BusyGrows DEF TakeTracked
    <3>2. Dead' = Dead
      BY <1>0, <2>1, <2>3 DEF TakeTracked, Dead, TypeOK
    <3> QED BY <1>0, <2>1, <2>2, <2>3, <3>1, <3>2, BusyFinite, DeadFinite
            DEF TakeTracked, UnfinishedAccounted
  <2>4. CASE TakeUntracked(w)
    <3>1. Dead' = Dead \union {w} /\ w \notin Dead /\ Busy' = Busy
      BY <1>0, <2>1, <2>4 DEF TakeUntracked, Dead, Busy, TypeOK
    <3>2. Cardinality(Dead') = Cardinality(Dead) + 1
      BY <3>1, DeadFinite, FS_AddElement
    <3> QED BY <1>0, <2>1, <2>2, <2>4, <3>1, <3>2, BusyFinite, DeadFinite
            DEF TakeUntracked, UnfinishedAccounted
  <2> QED BY <1>4, <2>3, <2>4 DEF Take
<1>5. ASSUME NEW w \in Workers, ProcessorReturns(w) PROVE UnfinishedAccounted'
  BY <1>5, FinallyAccounted DEF ProcessorReturns
<1>6. ASSUME NEW w \in Workers, ProcessorRaises(w) PROVE UnfinishedAccounted'
  <2>1. CASE HasCallback
    <3>1. Busy' = Busy /\ Dead' = Dead
      BY <1>0, <1>6, <2>1 DEF ProcessorRaises, Busy, Dead, TypeOK
    <3> QED BY <1>6, <2>1, <3>1 DEF ProcessorRaises, UnfinishedAccounted
  <2>2. CASE ~HasCallback
    BY <1>6, <2>2, FinallyAccounted DEF ProcessorRaises
  <2> QED BY <2>1, <2>2
<1>7. ASSUME NEW w \in Workers, CallbackEnds(w) PROVE UnfinishedAccounted'
  BY <1>7, FinallyAccounted DEF CallbackEnds
<1>8. ASSUME NEW w \in Workers, WorkerCancelled(w) PROVE UnfinishedAccounted'
  BY <1>8 DEF WorkerCancelled, UnfinishedAccounted
<1>9. CASE UNCHANGED vars
  BY <1>9 DEF vars, UnfinishedAccounted, Busy, Dead
<1> QED
  BY <1>1, <1>2, <1>3, <1>4, <1>5, <1>6, <1>7, <1>8, <1>9 DEF Next, WorkerStep

\* Each task that reads "running" has a worker of its own.
LEMMA RunningHaveWorkers ==
    ASSUME Shape, JobsAgree
    PROVE  HealthCounter("running") <= Cardinality(Busy)
<1> DEFINE R == {t \in tracked : status[t] = "running"}
           P == {w \in Workers : pc[w] = "processing" /\ job[w] \in R}
           f == [w \in P |-> job[w]]
<1>1. P \subseteq Busy
  BY DEF Busy
<1>2. IsFiniteSet(P) /\ Cardinality(P) <= Cardinality(Busy) /\ Cardinality(P) \in Nat
  BY <1>1, BusyFinite, FS_Subset, FS_CardinalityType
<1>3. \A t \in R : \E w \in P : f[w] = t
  <2> SUFFICES ASSUME NEW t \in R PROVE \E w \in P : f[w] = t
    OBVIOUS
  <2>1. t \in Tasks /\ status[t] = "running"
    BY DEF Shape, TypeOK
  <2>2. PICK w \in Workers : pc[w] = "processing" /\ job[w] = t
    BY <2>1 DEF JobsAgree
  <2> QED BY <2>2
<1>4. f \in Surjection(P, R)
  BY <1>3 DEF Surjection
<1>5. IsFiniteSet(R) /\ Cardinality(R) <= Cardinality(P) /\ Cardinality(R) \in Nat
  <2> HIDE DEF f, P, R
  <2> QED BY <1>2, <1>4, FS_Surjection, FS_CardinalityType
<1> QED BY <1>2, <1>5, BusyFinite DEF HealthCounter

\* For every configuration, one with a history shorter than the queue
\* included: no task is lost without a worker that died of it, and the health
\* endpoint never shows more running tasks than busy workers.
THEOREM LossesAreAccounted == Spec => []LossAccounted
<1>1. Init => UnfinishedAccounted
  <2> SUFFICES ASSUME Init PROVE UnfinishedAccounted
    OBVIOUS
  <2>1. Busy = {} /\ Dead = {} /\ Len(queue) = 0
    BY DEF Init, Busy, Dead
  <2> QED BY <2>1, FS_EmptySet DEF Init, UnfinishedAccounted
<1>2. Shape /\ JobsAgree /\ UnfinishedAccounted /\ [Next]_vars => UnfinishedAccounted'
  BY UnfinishedInductive
<1>3. Shape /\ JobsAgree /\ UnfinishedAccounted => LossAccounted
  BY RunningHaveWorkers DEF UnfinishedAccounted, LossAccounted, Running
<1> QED BY <1>1, <1>2, <1>3, JobsInvariant, PTL DEF Spec

-----------------------------------------------------------------------------
(* The pool implements TaskService: each step is a step of the service or *)
(* leaves what is seen of it unchanged.                                   *)

Seen == <<Door, queue, Serving, Outcome>>

LEMMA StepSimulation ==
    ASSUME HistoryCoversQueue, Shape, JobsAgree, NothingLost, [Next]_vars
    PROVE  Service!Next \/ UNCHANGED Seen
<1>0. /\ submitted \in Nat /\ Len(queue) \in Nat /\ queue \in Seq(Tasks)
      /\ status \in [Tasks -> TaskState \union {"none"}]
      /\ pc \in [Workers -> {"absent", "idle", "processing", "callback", "dead"}]
      /\ job \in [Workers -> 0..MaxTasks]
      /\ Tasks = 1..MaxTasks /\ 0 \notin Tasks
  BY DEF Shape, TypeOK, Tasks
<1>1. CASE Start
  <2>1. Door = "new" /\ Door' = "open" /\ UNCHANGED <<queue, Outcome>>
    BY <1>1 DEF Start, Door, Running, Outcome
  <2>2. UNCHANGED Serving
    <3>1. \A w \in Workers : pc[w] = "absent" /\ pc'[w] = "idle"
      BY <1>1 DEF Start, JobsAgree
    <3> QED BY <3>1 DEF Serving
  <2> QED BY <2>1, <2>2 DEF Service!Next, Service!Open
<1>2. CASE Submit
  <2> DEFINE t == submitted + 1
  <2>1. /\ t \in Tasks /\ status[t] = "none"
        /\ status' = [status EXCEPT ![t] = "queued"]
        /\ queue' = Append(queue, t)
        /\ Door = "open" /\ Len(queue) < QueueSize
        /\ UNCHANGED <<phase, pc, job>>
    <3>1. t \in Tasks /\ t > submitted
      BY <1>0, <1>2, SizesAssumption DEF Submit
    <3>2. status[t] = "none"
      BY <3>1 DEF JobsAgree
    <3>3. phase = "running" /\ Len(queue) < QueueSize
      BY <1>0, <1>2, SizesAssumption DEF Submit, SubmitReply, Running, QueueFull
    <3> QED BY <1>2, <3>1, <3>2, <3>3 DEF Submit, Door, Running
  <2> HIDE DEF t
  <2>2. Outcome[t] = "none" /\ Outcome' = [Outcome EXCEPT ![t] = "pending"]
    BY <1>0, <2>1 DEF Outcome
  <2>3. UNCHANGED <<Door, Serving>>
    BY <2>1 DEF Door, Running, Serving
  <2>4. Service!Arrive(t)
    BY <2>1, <2>2, <2>3 DEF Service!Arrive
  <2> QED BY <1>0, <2>1, <2>4 DEF Service!Next
<1>3. CASE StopBegins
  <2>1. Door = "open" /\ Door' = "closed" /\ UNCHANGED <<queue, Serving, Outcome>>
    BY <1>3 DEF StopBegins, Door, Running, Serving, Outcome
  <2> QED BY <2>1 DEF Service!Next, Service!Close
<1>4. CASE StopEnds
  <2>1. UNCHANGED <<Door, queue, Outcome>>
    BY <1>4 DEF StopEnds, Door, Running, Outcome
  <2>2. UNCHANGED Serving
    <3>1. \A w \in Workers : pc[w] = "dead" /\ pc'[w] = "absent"
      BY <1>4 DEF StopEnds
    <3> QED BY <3>1 DEF Serving
  <2> QED BY <2>1, <2>2 DEF Seen
<1>5. ASSUME NEW w \in Workers, Take(w) PROVE Service!Next
  <2>1. queue # <<>> /\ queue' = Tail(queue) /\ pc[w] = "idle" /\ UNCHANGED phase
    BY <1>5 DEF Take
  <2>2. Head(queue) \in Tasks /\ Head(queue) \in QueuedTasks
    <3>1. queue \in Seq(Tasks) /\ queue # <<>> /\ EndsAt(queue, submitted)
      BY <1>0, <2>1 DEF Shape, QueueShape
    <3>2. Head(queue) \in Tasks
      BY <1>0, <3>1, EndsAtTail
    <3>3. Head(queue) \in QueuedTasks
      BY <3>1 DEF QueuedTasks
    <3> QED BY <3>2, <3>3
  <2>3. TakeTracked(w)
    BY <1>5, <2>2, QueueIsTracked DEF Take
  <2>4. status[Head(queue)] = "queued"
    <3>1. EndsAt(queue, submitted)
      BY DEF Shape, QueueShape
    <3>2. Head(queue) = submitted - Len(queue) + 1 /\ Len(queue) > 0
      BY <1>0, <2>1, <3>1, EndsAtTail
    <3> QED BY <1>0, <2>2, <3>2 DEF JobsAgree, InQueue
  <2>5. Door = "open" /\ UNCHANGED Door
    BY <1>5 DEF Take, Door, Running
  <2>6. UNCHANGED Outcome
    BY <1>0, <2>2, <2>3, <2>4 DEF TakeTracked, Outcome
  <2>7. Serving[w] = 0 /\ Serving' = [Serving EXCEPT ![w] = Head(queue)]
    BY <1>0, <2>1, <2>3 DEF TakeTracked, Serving
  <2>8. Service!Serve(w)
    BY <2>1, <2>5, <2>6, <2>7 DEF Service!Serve
  <2> QED BY <2>8 DEF Service!Next
<1>6. ASSUME NEW w \in Workers, NEW how \in Terminal,
             pc[w] = "processing",
             status' = [status EXCEPT ![job[w]] = how],
             pc' = [pc EXCEPT ![w] = "idle"] \/ pc' = [pc EXCEPT ![w] = "dead"]
                \/ pc' = [pc EXCEPT ![w] = "callback"],
             job' = job \/ job' = [job EXCEPT ![w] = 0],
             UNCHANGED <<phase, queue>>
      PROVE  Service!End(w, how)
  <2>1. job[w] \in Tasks /\ status[job[w]] = "running"
    BY <1>6 DEF JobsAgree
  <2>2. Serving[w] = job[w] /\ Serving' = [Serving EXCEPT ![w] = 0]
    BY <1>0, <1>6 DEF Serving
  <2>3. /\ Outcome[job[w]] = "pending"
        /\ Outcome' = [Outcome EXCEPT ![job[w]] = how]
    BY <1>0, <1>6, <2>1 DEF Outcome, Terminal
  <2>4. UNCHANGED Door
    BY <1>6 DEF Door, Running
  <2> QED BY <1>0, <1>6, <2>1, <2>2, <2>3, <2>4 DEF Service!End
<1>7. ASSUME NEW w \in Workers, ProcessorReturns(w) \/ ProcessorRaises(w)
      PROVE  Service!Next
  <2>1. Door = "open"
    BY <1>7 DEF ProcessorReturns, ProcessorRaises, Door, Running
  <2>2. \E how \in {"succeeded", "failed"} : Service!End(w, how)
    BY <1>6, <1>7 DEF ProcessorReturns, ProcessorRaises, Finally, Terminal
  <2> QED BY <2>1, <2>2 DEF Service!Next, Service!Finish
<1>8. ASSUME NEW w \in Workers, CallbackEnds(w) PROVE UNCHANGED Seen
  <2>1. UNCHANGED <<phase, queue, status>>
    BY <1>8 DEF CallbackEnds
  <2>2. UNCHANGED Serving
    BY <1>0, <1>8 DEF CallbackEnds, Finally, Serving
  <2> QED BY <2>1, <2>2 DEF Seen, Door, Running, Outcome
<1>9. ASSUME NEW w \in Workers, WorkerCancelled(w)
      PROVE  Service!Next \/ UNCHANGED Seen
  <2>1. phase = "stopping" /\ Door = "closed" /\ UNCHANGED <<phase, queue>>
    BY <1>9 DEF WorkerCancelled, Door, Running
  <2>2. CASE CancelIdle(w) \/ CancelCallback(w)
    <3>1. UNCHANGED status
      BY <2>2 DEF CancelIdle, CancelCallback
    <3>2. UNCHANGED Serving
      BY <1>0, <2>2 DEF CancelIdle, CancelCallback, Finally, Serving
    <3> QED BY <2>1, <3>1, <3>2 DEF Seen, Door, Running, Outcome
  <2>3. CASE CancelProcessing(w)
    <3>1. Service!End(w, "cancelled")
      BY <1>6, <2>1, <2>3 DEF CancelProcessing, Finally, Terminal
    <3> QED BY <2>1, <3>1 DEF Service!Next, Service!Cancel
  <2> QED BY <1>9, <2>2, <2>3 DEF WorkerCancelled
<1>10. CASE UNCHANGED vars
  BY <1>10 DEF vars, Seen, Door, Running, Serving, Outcome
<1> QED
  BY <1>1, <1>2, <1>3, <1>4, <1>5, <1>7, <1>8, <1>9, <1>10 DEF Next, WorkerStep

\* A pool whose history covers its queue is a task service: first come, first
\* served, one worker for each task, one outcome that is never rewritten.
THEOREM PoolImplementsTaskService ==
    HistoryCoversQueue => (Spec => ImplementsTaskService)
<1> SUFFICES ASSUME HistoryCoversQueue PROVE Spec => ImplementsTaskService
  OBVIOUS
<1>1. Init => Service!Init
  <2> SUFFICES ASSUME Init PROVE Service!Init
    OBVIOUS
  <2>1. Door = "new" /\ queue = <<>>
    BY DEF Init, Door
  <2>2. Serving = [w \in Workers |-> 0]
    BY DEF Init, Serving
  <2>3. Outcome = [t \in 1..MaxTasks |-> "none"]
    BY DEF Init, Outcome, Tasks
  <2> QED BY <2>1, <2>2, <2>3 DEF Service!Init
<1>2. Shape /\ JobsAgree /\ NothingLost /\ [Next]_vars
      => [Service!Next]_(Service!serviceVars)
  BY StepSimulation DEF Seen, Service!serviceVars
<1> QED
  BY <1>1, <1>2, NothingLostInvariant, PTL
  DEF Spec, ImplementsTaskService, Service!Spec

-----------------------------------------------------------------------------
(* The default channels.  Parsed is a recursive function, so its properties *)
(* rest on the existence of a function that satisfies its equation, which   *)
(* is shown with the least number for which there is none.                  *)

\* A set of natural numbers that is not empty has a least element.
LEMMA LeastNumber ==
    ASSUME NEW S \in SUBSET Nat, S # {}
    PROVE  \E m \in S : \A k \in S : m <= k
<1>1. PICK m \in S : \A k \in S : ~(<<k, m>> \in OpToRel(<, Nat))
  BY NatLessThanWellFounded, WFMin
<1>2. \A k \in S : ~(k < m)
  BY <1>1 DEF OpToRel
<1> QED BY <1>2

\* The right-hand side of the definition of Parsed.
ParsedStep(f, n) ==
    IF n = 0 THEN <<>>
    ELSE IF RawChannels[n] \in ValidChannels
    THEN Append(f[n - 1], RawChannels[n])
    ELSE f[n - 1]

LEMMA ParsedEquation ==
    Parsed = [n \in 0..Len(RawChannels) |-> ParsedStep(Parsed, n)]
<1> DEFINE L == Len(RawChannels)
           Upto(n) == \E f : /\ DOMAIN f = 0..n
                             /\ f = [k \in 0..n |-> ParsedStep(f, k)]
           Without == {n \in 0..L : ~Upto(n)}
<1>0. L \in Nat
  BY ApplicationAssumption
<1> HIDE DEF L
<1>1. Upto(0)
  <2> DEFINE f == [k \in 0..0 |-> <<>>]
  <2>1. f = [k \in 0..0 |-> ParsedStep(f, k)]
    BY DEF ParsedStep
  <2> QED BY <2>1
<1>2. ASSUME NEW n \in 1..L, Upto(n - 1)
      PROVE  Upto(n)
  <2>1. PICK f : DOMAIN f = 0..(n - 1) /\ f = [k \in 0..(n - 1) |-> ParsedStep(f, k)]
    BY <1>2
  <2> DEFINE g == [k \in 0..n |-> IF k = n THEN ParsedStep(f, n) ELSE f[k]]
  <2>2. \A k \in 0..(n - 1) : g[k] = f[k]
    BY <1>0
  <2>3. ASSUME NEW k \in 0..n
        PROVE  g[k] = ParsedStep(g, k)
    <3>1. k = 0 \/ k - 1 \in 0..(n - 1)
      BY <1>0
    <3>2. ParsedStep(g, k) = ParsedStep(f, k)
      BY <2>2, <3>1 DEF ParsedStep
    <3>3. CASE k = n
      BY <3>2, <3>3
    <3>4. CASE k # n
      <4>1. k \in 0..(n - 1)
        BY <1>0, <3>4
      <4>2. f[k] = ParsedStep(f, k)
        BY <2>1, <4>1
      <4> QED BY <2>2, <3>2, <4>1, <4>2
    <3> QED BY <3>3, <3>4
  <2>4. g = [k \in 0..n |-> ParsedStep(g, k)] /\ DOMAIN g = 0..n
    BY <2>3
  <2> QED BY <2>4
<1>3. Without = {}
  <2> SUFFICES ASSUME Without # {} PROVE FALSE
    OBVIOUS
  <2>0. Without \in SUBSET Nat
    BY <1>0
  <2>1. PICK m \in Without : \A k \in Without : m <= k
    <3> HIDE DEF Without
    <3> QED BY <2>0, LeastNumber
  <2>2. m \in 0..L /\ ~Upto(m)
    OBVIOUS
  <2>3. m # 0
    BY <1>1, <2>2
  <2>4. m \in 1..L /\ m - 1 \in 0..L /\ ~(m <= m - 1)
    BY <1>0, <2>2, <2>3
  <2>5. Upto(m - 1)
    BY <2>1, <2>4
  <2> QED BY <1>2, <2>2, <2>4, <2>5
<1>4. \E f : f = [n \in 0..L |-> ParsedStep(f, n)]
  <2>1. Upto(L)
    BY <1>0, <1>3
  <2> QED BY <2>1
<1>5. Parsed = CHOOSE f : f = [n \in 0..L |-> ParsedStep(f, n)]
  BY DEF Parsed, ParsedStep, L
<1> QED BY <1>4, <1>5 DEF L

\* Only known channels are kept.
LEMMA DefaultChannelsType == DefaultChannels \in Seq(ValidChannels)
<1> DEFINE L == Len(RawChannels)
           Other == {n \in 0..L : Parsed[n] \notin Seq(ValidChannels)}
<1>0. L \in Nat
  BY ApplicationAssumption
<1>1. ASSUME NEW n \in 0..L PROVE Parsed[n] = ParsedStep(Parsed, n)
  BY ParsedEquation
<1> HIDE DEF L
<1>2. Other = {}
  <2> SUFFICES ASSUME Other # {} PROVE FALSE
    OBVIOUS
  <2>0. Other \in SUBSET Nat
    BY <1>0
  <2>1. PICK m \in Other : \A k \in Other : m <= k
    <3> HIDE DEF Other
    <3> QED BY <2>0, LeastNumber
  <2>2. m \in 0..L /\ Parsed[m] \notin Seq(ValidChannels)
    OBVIOUS
  <2>3. m # 0
    <3>1. ParsedStep(Parsed, 0) = <<>> /\ <<>> \in Seq(ValidChannels)
      BY DEF ParsedStep
    <3> QED BY <1>1, <2>2, <3>1
  <2>4. m - 1 \in 0..L /\ ~(m <= m - 1)
    BY <1>0, <2>2, <2>3
  <2>5. Parsed[m - 1] \in Seq(ValidChannels)
    BY <2>1, <2>4
  <2>6. Parsed[m] \in Seq(ValidChannels)
    <3>1. \/ Parsed[m] = Parsed[m - 1]
          \/ RawChannels[m] \in ValidChannels /\ Parsed[m] = Append(Parsed[m - 1], RawChannels[m])
      BY <1>1, <2>2, <2>3 DEF ParsedStep
    <3>2. \A q \in Seq(ValidChannels) : \A c \in ValidChannels : Append(q, c) \in Seq(ValidChannels)
      BY AppendProperties
    <3> QED BY <2>5, <3>1, <3>2, Zenon
  <2> QED BY <2>2, <2>6
<1> QED BY <1>0, <1>2 DEF DefaultChannels, L

-----------------------------------------------------------------------------
(* The pool inside the application *)

\* Every step of the application is a step of the pool or leaves it alone.
LEMMA PoolStep == [AppNext]_appVars => [Next]_vars
<1> SUFFICES ASSUME [AppNext]_appVars PROVE [Next]_vars
  OBVIOUS
<1>1. CASE LifeStep
  BY <1>1 DEF LifeStep, Validate, Connect, StartWorkers, StartScheduler, StopScheduler,
     StopWorkers, WorkersStopped, Disconnect, CloseHttpClient, Dispose, Next
<1>2. CASE OpenHttpClient \/ Shutdown \/ Send(Api)
  BY <1>2 DEF OpenHttpClient, Shutdown, Send
<1>3. CASE SubmitBatch
  BY <1>3 DEF SubmitBatch, Next
<1>4. ASSUME NEW channels \in Requested, TestNotification(channels)
      PROVE  UNCHANGED vars
  BY <1>4 DEF TestNotification
<1>5. ASSUME NEW w \in Workers, AppWorkerStep(w)
      PROVE  [Next]_vars
  <2>1. WorkerStep(w) \/ UNCHANGED vars
    BY <1>5 DEF AppWorkerStep, TaskFails, Send, AlertDone, CancelWorker, WorkerStep
  <2> QED BY <2>1 DEF Next
<1>6. CASE UNCHANGED appVars
  BY <1>6 DEF appVars
<1> QED BY <1>1, <1>2, <1>3, <1>4, <1>5, <1>6 DEF AppNext

\* The pool that the lifespan starts, feeds and stops, and whose callback
\* sends the alerts, behaves as WorkerPool says: all that is proved of the
\* pool holds in the application.
THEOREM AppRunsThePool == AppSpec => Spec
<1>1. AppInit => Init
  BY DEF AppInit
<1> QED BY <1>1, PoolStep, PTL DEF AppSpec, Spec

-----------------------------------------------------------------------------
(* The lifespan *)

Early == {"validate", "redis", "kafka", "mongo", "workers"}
Late == {"quitKafka", "quitRedis", "quitMongo", "quitHttp", "dispose"} \union Exit

\* Where the pool is at each point of the lifespan.
LifeAgrees ==
    /\ life \in Early => phase = "created"
    /\ life \in Early \union {"jobs"} => submitted = 0
    /\ life \in {"jobs", "serving", "stopJobs", "stopWorkers"} =>
          phase \in {"created", "running"}
    /\ life = "awaitWorkers" => phase = "stopping"
    /\ life \in Late => phase \in {"created", "stopped"}

\* Where everything else is.
PartsAgree ==
    /\ life \notin {"serving", "stopJobs"} => scheduler # "running"
    /\ engine = "disposed" <=> life = "exited"
    /\ life \notin Late => stuck = {}
    /\ life = "quitKafka" => stuck = {}

\* The clients that are gone at each point of the shutdown.
Gone(s) == client[s] = "None" \/ s \in stuck

ClientsAgree ==
    /\ life \in {"validate", "failed"} => \A s \in Services : Gone(s)
    /\ life \in {"quitRedis", "quitMongo", "quitHttp", "dispose", "exited"} => Gone("kafka")
    /\ life \in {"quitMongo", "quitHttp", "dispose", "exited"} => Gone("redis")
    /\ life \in {"quitHttp", "dispose", "exited"} => Gone("mongo")
    /\ life = "failed" /\ phase = "stopped" => "httpx" \in stuck

LifeInv == LifeAgrees /\ PartsAgree /\ ClientsAgree

LifeType ==
    /\ life \in Services \union Exit \union
         {"validate", "workers", "jobs", "serving", "stopJobs", "stopWorkers",
          "awaitWorkers", "quitKafka", "quitRedis", "quitMongo", "quitHttp", "dispose"}
    /\ client \in [Services \union {"httpx"} -> {"None", "set"}]
    /\ stuck \in SUBSET (Services \union {"httpx"})
    /\ scheduler \in {"running", "stopped", "unstopped"}
    /\ engine \in {"open", "disposed"}

LEMMA LifeTypeInductive ==
    ASSUME LifeType, [AppNext]_appVars
    PROVE  LifeType'
<1> USE DEF LifeType, Services, Exit
<1>1. CASE Validate
  BY <1>1 DEF Validate
<1>2. CASE Connect("redis", "kafka") \/ Connect("kafka", "mongo") \/ Connect("mongo", "workers")
  BY <1>2 DEF Connect
<1>3. CASE StartWorkers \/ StartScheduler \/ StopScheduler \/ StopWorkers \/ WorkersStopped
  BY <1>3 DEF StartWorkers, StartScheduler, StopScheduler, StopWorkers, WorkersStopped
<1>4. CASE \/ Disconnect("quitKafka", "kafka", "quitRedis")
           \/ Disconnect("quitRedis", "redis", "quitMongo")
           \/ Disconnect("quitMongo", "mongo", "quitHttp")
  BY <1>4 DEF Disconnect
<1>5. CASE CloseHttpClient \/ Dispose
  BY <1>5 DEF CloseHttpClient, Dispose
<1>6. CASE OpenHttpClient \/ Shutdown
  BY <1>6 DEF OpenHttpClient, Shutdown
<1>7. CASE UNCHANGED lifeVars
  BY <1>7 DEF lifeVars
<1>8. CASE SubmitBatch \/ Send(Api) \/ (\E channels \in Requested : TestNotification(channels))
           \/ (\E w \in Workers : AppWorkerStep(w)) \/ UNCHANGED appVars
  <2>1. UNCHANGED lifeVars
    BY <1>8 DEF SubmitBatch, Send, TestNotification, AppWorkerStep, TaskFails, AlertDone,
       CancelWorker, appVars
  <2> QED BY <1>7, <2>1
<1> QED BY <1>1, <1>2, <1>3, <1>4, <1>5, <1>6, <1>8 DEF AppNext, LifeStep

\* Whatever the workers do, the pool stays in its phase and accepts nothing.
LEMMA WorkersKeepPhase ==
    ASSUME NEW w \in Workers, AppWorkerStep(w)
    PROVE  UNCHANGED <<phase, submitted, lifeVars>>
BY DEF AppWorkerStep, TaskFails, Send, AlertDone, CancelWorker, Take, ProcessorReturns,
   ProcessorRaises, CallbackEnds, WorkerCancelled, vars

LEMMA LifeInductive ==
    ASSUME LifeType, LifeInv, [AppNext]_appVars
    PROVE  LifeInv'
<1> USE DEF LifeInv, LifeAgrees, PartsAgree, ClientsAgree, Gone, Early, Late, Exit,
            Services, LifeType
<1>1. CASE Validate
  BY <1>1 DEF Validate, vars
<1>2. CASE Connect("redis", "kafka") \/ Connect("kafka", "mongo") \/ Connect("mongo", "workers")
  BY <1>2 DEF Connect, vars
<1>3. CASE StartWorkers
  BY <1>3 DEF StartWorkers, Start, vars
<1>4. CASE StartScheduler \/ StopScheduler
  BY <1>4 DEF StartScheduler, StopScheduler, vars
<1>5. CASE StopWorkers \/ WorkersStopped
  BY <1>5 DEF StopWorkers, StopBegins, WorkersStopped, StopEnds, vars
<1>6. CASE Disconnect("quitKafka", "kafka", "quitRedis")
  BY <1>6 DEF Disconnect, vars
<1>7. CASE Disconnect("quitRedis", "redis", "quitMongo")
  BY <1>7 DEF Disconnect, vars
<1>8. CASE Disconnect("quitMongo", "mongo", "quitHttp")
  BY <1>8 DEF Disconnect, vars
<1>9. CASE CloseHttpClient
  BY <1>9 DEF CloseHttpClient, vars
<1>10. CASE Dispose
  BY <1>10 DEF Dispose, vars
<1>11. CASE OpenHttpClient \/ Shutdown
  BY <1>11 DEF OpenHttpClient, Shutdown, vars
<1>12. CASE SubmitBatch
  BY <1>12 DEF SubmitBatch, Submit, SubmitReply, Running, lifeVars
<1>13. CASE \/ Send(Api) \/ (\E channels \in Requested : TestNotification(channels))
            \/ (\E w \in Workers : AppWorkerStep(w)) \/ UNCHANGED appVars
  <2>1. UNCHANGED <<phase, submitted, lifeVars>>
    BY <1>13, WorkersKeepPhase DEF Send, TestNotification, appVars, vars
  <2> QED BY <2>1 DEF lifeVars
<1> QED BY <1>1, <1>2, <1>3, <1>4, <1>5, <1>6, <1>7, <1>8, <1>9, <1>10, <1>11, <1>12,
           <1>13 DEF AppNext, LifeStep

LEMMA LifeInvariant == AppSpec => [](LifeType /\ LifeInv)
<1>1. AppInit => LifeType /\ LifeInv
  <2> SUFFICES ASSUME AppInit PROVE LifeType /\ LifeInv
    OBVIOUS
  <2>1. LifeType
    BY DEF AppInit, LifeType, Services
  <2>2. LifeInv
    BY DEF AppInit, Init, LifeInv, LifeAgrees, PartsAgree, ClientsAgree, Gone, Early, Late,
       Exit, Services
  <2> QED BY <2>1, <2>2
<1>2. LifeType /\ LifeInv /\ [AppNext]_appVars => LifeType' /\ LifeInv'
  BY LifeTypeInductive, LifeInductive
<1> QED BY <1>1, <1>2, PTL DEF AppSpec

\* While a worker executes a task or sends an alert, the process is between
\* the end of its startup and the end of stop(): no client has been closed
\* and the engine is open.
THEOREM UsersAreStoppedFirst == AppSpec => []UsersStopFirst
<1>1. ASSUME Shape, JobsAgree, LifeType, LifeInv PROVE UsersStopFirst
  <2> SUFFICES ASSUME NEW w \in Workers, pc[w] \in {"processing", "callback"}
               PROVE  /\ life \in {"serving", "stopJobs", "stopWorkers", "awaitWorkers"}
                      /\ engine = "open" /\ stuck = {}
    BY DEF UsersStopFirst, Busy
  <2>1. phase \in {"running", "stopping"}
    BY <1>1 DEF JobsAgree, Shape, TypeOK
  <2>2. submitted # 0
    <3>1. job[w] \in Tasks /\ job[w] <= submitted - Len(queue)
      BY <1>1 DEF JobsAgree
    <3>2. Len(queue) \in Nat /\ submitted \in Nat /\ Tasks = 1..MaxTasks
      BY <1>1 DEF Shape, TypeOK, Tasks
    <3> QED BY <3>1, <3>2
  <2>3. life \in {"serving", "stopJobs", "stopWorkers", "awaitWorkers"}
    BY <1>1, <2>1, <2>2 DEF LifeInv, LifeAgrees, LifeType, Early, Late, Services, Exit
  <2> QED BY <1>1, <2>3 DEF LifeInv, PartsAgree, LifeType, Late, Exit
<1> QED BY <1>1, AppRunsThePool, JobsInvariant, LifeInvariant, PTL

-----------------------------------------------------------------------------
(* The alerts *)

\* The first n default channels, and those after them.
Before(n) == SubSeq(DefaultChannels, 1, n)
After(n) == SubSeq(DefaultChannels, n + 1, Len(DefaultChannels))

LEMMA SplitType ==
    ASSUME NEW n \in 0..Len(DefaultChannels)
    PROVE  /\ Before(n) \in Seq(ValidChannels) /\ Len(Before(n)) = n
           /\ \A i \in 1..n : Before(n)[i] = DefaultChannels[i]
           /\ After(n) \in Seq(ValidChannels) /\ Len(After(n)) = Len(DefaultChannels) - n
           /\ \A i \in 1..(Len(DefaultChannels) - n) : After(n)[i] = DefaultChannels[n + i]
<1> DEFINE D == DefaultChannels
           L == Len(DefaultChannels)
<1>0. D \in Seq(ValidChannels) /\ L \in Nat /\ n \in Nat /\ n <= L
  BY DefaultChannelsType
<1>1. \A i \in 1..L : D[i] \in ValidChannels
  BY <1>0
<1>2. /\ Before(n) \in Seq(ValidChannels)
      /\ Len(Before(n)) = IF 1 <= n THEN n - 1 + 1 ELSE 0
      /\ \A i \in 1..(n - 1 + 1) : Before(n)[i] = D[1 + i - 1]
  <2>1. 1 \in Int /\ n \in Int /\ \A i \in 1..n : D[i] \in ValidChannels
    BY <1>0, <1>1
  <2> QED BY <2>1, SubSeqProperties DEF Before
<1>3. /\ After(n) \in Seq(ValidChannels)
      /\ Len(After(n)) = IF n + 1 <= L THEN L - (n + 1) + 1 ELSE 0
      /\ \A i \in 1..(L - (n + 1) + 1) : After(n)[i] = D[(n + 1) + i - 1]
  <2>1. n + 1 \in Int /\ L \in Int /\ \A i \in (n + 1)..L : D[i] \in ValidChannels
    BY <1>0, <1>1
  <2> QED BY <2>1, SubSeqProperties DEF After
<1> QED BY <1>0, <1>2, <1>3

\* Sending the next alert moves one channel from the one part to the other.
LEMMA SplitMoves ==
    ASSUME NEW n \in 0..Len(DefaultChannels), After(n) # <<>>
    PROVE  /\ n + 1 \in 0..Len(DefaultChannels)
           /\ Head(After(n)) \in ValidChannels
           /\ Append(Before(n), Head(After(n))) = Before(n + 1)
           /\ Tail(After(n)) = After(n + 1)
<1> DEFINE L == Len(DefaultChannels)
<1>0. L \in Nat /\ n \in Nat /\ n <= L
  BY DefaultChannelsType
<1>1. n < L
  <2>1. Len(After(n)) # 0
    BY SplitType
  <2> QED BY <1>0, <2>1, SplitType
<1>2. n + 1 \in 0..L
  BY <1>0, <1>1
<1>3. Head(After(n)) = DefaultChannels[n + 1] /\ Head(After(n)) \in ValidChannels
  <2>1. After(n) \in Seq(ValidChannels) /\ 1 \in 1..(L - n)
    BY <1>0, <1>1, SplitType
  <2>2. Head(After(n)) = After(n)[1] /\ Head(After(n)) \in ValidChannels
    BY <2>1
  <2> QED BY <2>1, <2>2, SplitType
<1>4. Append(Before(n), Head(After(n))) = Before(n + 1)
  <2> DEFINE a == Append(Before(n), Head(After(n)))
             b == Before(n + 1)
  <2>1. /\ a \in Seq(ValidChannels) /\ Len(a) = n + 1
        /\ \A i \in 1..n : a[i] = DefaultChannels[i]
        /\ a[n + 1] = DefaultChannels[n + 1]
    BY <1>0, <1>3, SplitType, AppendProperties
  <2>2. /\ b \in Seq(ValidChannels) /\ Len(b) = n + 1
        /\ \A i \in 1..(n + 1) : b[i] = DefaultChannels[i]
    BY <1>2, SplitType
  <2> HIDE DEF a, b
  <2>3. \A i \in 1..(n + 1) : a[i] = b[i]
    BY <1>0, <2>1, <2>2
  <2>4. a = b
    BY <2>1, <2>2, <2>3, SeqEqual
  <2> QED BY <2>4 DEF a, b
<1>5. Tail(After(n)) = After(n + 1)
  <2> DEFINE a == Tail(After(n))
             b == After(n + 1)
  <2>1. /\ a \in Seq(ValidChannels) /\ Len(a) = L - n - 1
        /\ \A i \in 1..(L - n - 1) : a[i] = After(n)[i + 1]
    <3>1. After(n) \in Seq(ValidChannels) /\ Len(After(n)) = L - n
      BY SplitType
    <3> QED BY <1>0, <1>1, <3>1
  <2>2. /\ b \in Seq(ValidChannels) /\ Len(b) = L - n - 1
        /\ \A i \in 1..(L - n - 1) : b[i] = DefaultChannels[n + 1 + i]
    BY <1>0, <1>2, SplitType
  <2>3. \A i \in 1..(L - n - 1) : After(n)[i + 1] = DefaultChannels[n + 1 + i]
    <3> SUFFICES ASSUME NEW i \in 1..(L - n - 1)
                 PROVE  After(n)[i + 1] = DefaultChannels[n + 1 + i]
      OBVIOUS
    <3>1. i + 1 \in 1..(L - n) /\ n + (i + 1) = n + 1 + i
      BY <1>0
    <3> QED BY <3>1, SplitType
  <2> HIDE DEF a, b
  <2>4. \A i \in 1..(L - n - 1) : a[i] = b[i]
    BY <2>1, <2>2, <2>3
  <2>5. a = b
    BY <2>1, <2>2, <2>4, SeqEqual
  <2> QED BY <2>5 DEF a, b
<1> QED BY <1>2, <1>3, <1>4, <1>5

AlertType ==
    /\ todo \in [Senders -> Seq(ValidChannels)]
    /\ tried \in [Tasks -> Seq(ValidChannels)]

\* Only a failed task is announced, on the first default channels so far; the
\* worker in its callback has the others still to try, or none at all.
AlertsAgree ==
    /\ \A t \in Tasks :
          /\ tried[t] # <<>> => status[t] = "failed"
          /\ Len(tried[t]) \in 0..Len(DefaultChannels)
          /\ tried[t] = Before(Len(tried[t]))
    /\ \A w \in Workers : todo[w] # <<>> =>
          pc[w] = "callback" /\ todo[w] = After(Len(tried[job[w]]))

\* A dispatch begins with a list of known channels.
LEMMA DispatchType ==
    ASSUME AlertType, NEW s \in Senders, NEW channels \in Requested, Dispatch(s, channels)
    PROVE  /\ todo' \in [Senders -> Seq(ValidChannels)]
           /\ \A r \in Senders : r # s => todo'[r] = todo[r]
           /\ channels = <<>> => todo'[s] = <<>> \/ todo'[s] = DefaultChannels
<1>1. channels \in Seq(ValidChannels)
  <2>1. "email" \in ValidChannels
    BY DEF ValidChannels
  <2>2. <<"email">> \in Seq(ValidChannels) /\ <<>> \in Seq(ValidChannels)
    BY <2>1
  <2> QED BY <2>2 DEF Requested
<1>2. PICK q \in Seq(ValidChannels) :
         /\ todo' = [todo EXCEPT ![s] = q]
         /\ channels = <<>> => q = <<>> \/ q = DefaultChannels
  <2>1. <<>> \in Seq(ValidChannels)
    OBVIOUS
  <2>2. CASE "notifications" \notin Enabled
    BY <2>1, <2>2 DEF Dispatch
  <2>3. CASE "notifications" \in Enabled /\ channels = <<>>
    BY <2>3, DefaultChannelsType DEF Dispatch
  <2>4. CASE "notifications" \in Enabled /\ channels # <<>>
    BY <1>1, <2>4 DEF Dispatch
  <2> QED BY <2>2, <2>3, <2>4
<1> QED BY <1>2 DEF AlertType

\* A step that leaves the alerts alone, and every worker with an alert to send
\* where it is.
LEMMA AlertsKept ==
    ASSUME Shape, JobsAgree, AlertsAgree, [Next]_vars,
           UNCHANGED tried,
           \A w \in Workers : todo'[w] # <<>> =>
              todo'[w] = todo[w] /\ pc'[w] = pc[w] /\ job'[w] = job[w]
    PROVE  AlertsAgree'
<1>1. \A t \in Tasks : status[t] = "failed" => status'[t] = "failed"
  BY FinishedStays DEF Terminal
<1>2. \A t \in Tasks :
          /\ tried'[t] # <<>> => status'[t] = "failed"
          /\ Len(tried'[t]) \in 0..Len(DefaultChannels)
          /\ tried'[t] = Before(Len(tried'[t]))
  BY <1>1 DEF AlertsAgree
<1>3. ASSUME NEW w \in Workers, todo'[w] # <<>>
      PROVE  pc'[w] = "callback" /\ todo'[w] = After(Len(tried'[job'[w]]))
  <2>1. todo[w] # <<>> /\ todo'[w] = todo[w] /\ pc'[w] = pc[w] /\ job'[w] = job[w]
    BY <1>3
  <2>2. pc[w] = "callback" /\ todo[w] = After(Len(tried[job[w]]))
    BY <2>1 DEF AlertsAgree
  <2> QED BY <2>1, <2>2
<1> QED BY <1>2, <1>3 DEF AlertsAgree

\* One pass of the dispatch loop of a worker.
LEMMA SendInductive ==
    ASSUME Shape, JobsAgree, AlertType, AlertsAgree, NEW w \in Workers, Send(w)
    PROVE  AlertType' /\ AlertsAgree'
<1> DEFINE t == job[w]
           n == Len(tried[job[w]])
<1>1. w # Api /\ w \in Senders
  BY ApplicationAssumption DEF Senders
<1>2. /\ todo[w] # <<>> /\ UNCHANGED vars
      /\ todo' = [todo EXCEPT ![w] = Tail(todo[w])]
      /\ tried' = [tried EXCEPT ![t] = Append(tried[t], Head(todo[w]))]
  BY <1>1 DEF Send, TriedBy
<1>3. pc[w] = "callback" /\ todo[w] = After(n)
  BY <1>2 DEF AlertsAgree
<1>4. t \in Tasks /\ status[t] = "failed"
  BY <1>3 DEF JobsAgree
<1>5. n \in 0..Len(DefaultChannels) /\ tried[t] = Before(n)
  BY <1>4 DEF AlertsAgree
<1> HIDE DEF n, t
<1>6. /\ n + 1 \in 0..Len(DefaultChannels)
      /\ Append(tried[t], Head(todo[w])) = Before(n + 1)
      /\ Tail(todo[w]) = After(n + 1)
  BY <1>2, <1>3, <1>5, SplitMoves
<1>7. /\ Before(n + 1) \in Seq(ValidChannels) /\ Len(Before(n + 1)) = n + 1
      /\ After(n + 1) \in Seq(ValidChannels)
  BY <1>6, SplitType
<1>8. tried'[t] = Before(n + 1) /\ \A u \in Tasks : u # t => tried'[u] = tried[u]
  BY <1>2, <1>4, <1>6 DEF AlertType
<1>9. todo'[w] = After(n + 1) /\ \A v \in Senders : v # w => todo'[v] = todo[v]
  BY <1>1, <1>2, <1>6 DEF AlertType
<1>10. AlertType'
  BY <1>1, <1>2, <1>4, <1>6, <1>7 DEF AlertType
<1>11. AlertsAgree'
  <2>1. status' = status /\ pc' = pc /\ job' = job
    BY <1>2 DEF vars
  <2>2. ASSUME NEW u \in Tasks
        PROVE  /\ tried'[u] # <<>> => status'[u] = "failed"
               /\ Len(tried'[u]) \in 0..Len(DefaultChannels)
               /\ tried'[u] = Before(Len(tried'[u]))
    <3>1. CASE u = t
      BY <1>4, <1>6, <1>7, <1>8, <2>1, <3>1
    <3>2. CASE u # t
      BY <1>8, <2>1, <3>2 DEF AlertsAgree
    <3> QED BY <3>1, <3>2
  <2>3. ASSUME NEW v \in Workers, todo'[v] # <<>>
        PROVE  pc'[v] = "callback" /\ todo'[v] = After(Len(tried'[job'[v]]))
    <3>1. CASE v = w
      BY <1>3, <1>7, <1>8, <1>9, <2>1, <3>1 DEF t
    <3>2. CASE v # w
      <4>1. v \in Senders /\ todo'[v] = todo[v]
        BY <1>9, <3>2 DEF Senders
      <4>2. pc[v] = "callback" /\ todo[v] = After(Len(tried[job[v]]))
        BY <2>3, <4>1 DEF AlertsAgree
      <4>3. job[v] \in Tasks /\ job[v] # t
        BY <1>3, <3>2, <4>2 DEF JobsAgree, t
      <4> QED BY <1>8, <2>1, <4>1, <4>2, <4>3
    <3> QED BY <3>1, <3>2
  <2> QED BY <2>2, <2>3 DEF AlertsAgree
<1> QED BY <1>10, <1>11

\* A task fails, and its alert begins.
LEMMA TaskFailsInductive ==
    ASSUME Shape, JobsAgree, AlertType, AlertsAgree, NEW w \in Workers, TaskFails(w)
    PROVE  AlertType' /\ AlertsAgree'
<1>0. /\ w \in Senders /\ <<>> \in Requested
      /\ pc \in [Workers -> {"absent", "idle", "processing", "callback", "dead"}]
      /\ job \in [Workers -> 0..MaxTasks]
      /\ status \in [Tasks -> TaskState \union {"none"}]
  BY DEF Senders, Requested, Shape, TypeOK
<1>1. /\ pc[w] = "processing" /\ tried' = tried
      /\ status' = [status EXCEPT ![job[w]] = "failed"]
  BY DEF TaskFails, ProcessorRaises
<1>2. job[w] \in Tasks /\ status[job[w]] = "running"
  BY <1>1 DEF JobsAgree
<1>3. tried[job[w]] = <<>> /\ todo[w] = <<>>
  BY <1>1, <1>2 DEF AlertsAgree
<1>4. [Next]_vars
  BY DEF TaskFails, Next, WorkerStep
<1>5. CASE HasCallback
  <2>1. pc' = [pc EXCEPT ![w] = "callback"] /\ job' = job
    BY <1>5 DEF TaskFails, ProcessorRaises
  <2>2. Dispatch(w, <<>>)
    BY <1>0, <2>1 DEF TaskFails
  <2>3. /\ todo' \in [Senders -> Seq(ValidChannels)]
        /\ \A r \in Senders : r # w => todo'[r] = todo[r]
        /\ todo'[w] = <<>> \/ todo'[w] = DefaultChannels
    BY <1>0, <2>2, DispatchType
  <2>4. AlertType'
    BY <1>1, <2>3 DEF AlertType
  <2>5. DefaultChannels = After(0)
    <3>1. DefaultChannels \in Seq(ValidChannels) /\ Len(DefaultChannels) \in Nat
      BY DefaultChannelsType
    <3>2. 0 \in 0..Len(DefaultChannels)
      BY <3>1
    <3>3. /\ After(0) \in Seq(ValidChannels) /\ Len(After(0)) = Len(DefaultChannels) - 0
          /\ \A i \in 1..(Len(DefaultChannels) - 0) : After(0)[i] = DefaultChannels[0 + i]
      BY <3>2, SplitType
    <3>4. \A i \in 1..Len(DefaultChannels) : DefaultChannels[i] = After(0)[i]
      BY <3>1, <3>3
    <3> QED BY <3>1, <3>3, <3>4, SeqEqual
  <2>6. \A t \in Tasks :
            /\ tried'[t] # <<>> => status'[t] = "failed"
            /\ Len(tried'[t]) \in 0..Len(DefaultChannels)
            /\ tried'[t] = Before(Len(tried'[t]))
    BY <1>0, <1>1, <1>2 DEF AlertsAgree
  <2>7. ASSUME NEW v \in Workers, todo'[v] # <<>>
        PROVE  pc'[v] = "callback" /\ todo'[v] = After(Len(tried'[job'[v]]))
    <3>1. CASE v = w
      <4>1. Len(tried'[job'[v]]) = 0
        BY <1>1, <1>3, <2>1, <3>1
      <4> QED BY <1>0, <2>1, <2>3, <2>5, <2>7, <3>1, <4>1
    <3>2. CASE v # w
      <4>1. v \in Senders /\ todo'[v] = todo[v]
        BY <2>3, <3>2 DEF Senders
      <4> QED BY <1>0, <1>1, <2>1, <2>7, <3>2, <4>1 DEF AlertsAgree
    <3> QED BY <3>1, <3>2
  <2> QED BY <2>4, <2>6, <2>7 DEF AlertsAgree
<1>6. CASE ~HasCallback
  <2>1. pc' = [pc EXCEPT ![w] = "idle"] /\ job' = [job EXCEPT ![w] = 0]
    BY <1>6 DEF TaskFails, ProcessorRaises, Finally
  <2>2. todo' = todo
    BY <1>0, <2>1 DEF TaskFails
  <2>3. \A v \in Workers : todo'[v] # <<>> =>
           todo'[v] = todo[v] /\ pc'[v] = pc[v] /\ job'[v] = job[v]
    BY <1>0, <1>3, <2>1, <2>2
  <2> QED BY <1>1, <1>4, <2>2, <2>3, AlertsKept DEF AlertType
<1> QED BY <1>5, <1>6

LEMMA AlertsInductive ==
    ASSUME Shape, JobsAgree, AlertType, AlertsAgree, [AppNext]_appVars
    PROVE  AlertType' /\ AlertsAgree'
<1>0. /\ Api \in Senders /\ Api \notin Workers /\ Workers \subseteq Senders
      /\ pc \in [Workers -> {"absent", "idle", "processing", "callback", "dead"}]
      /\ job \in [Workers -> 0..MaxTasks]
      /\ \A w \in Workers : todo[w] # <<>> => pc[w] = "callback"
  BY ApplicationAssumption DEF Senders, Shape, TypeOK, AlertsAgree
<1>1. [Next]_vars
  BY PoolStep
<1>2. ASSUME UNCHANGED alertVars,
             \A w \in Workers : pc[w] = "callback" /\ todo[w] # <<>> =>
                pc'[w] = pc[w] /\ job'[w] = job[w]
      PROVE  AlertType' /\ AlertsAgree'
  BY <1>0, <1>1, <1>2, AlertsKept DEF alertVars, AlertType
<1>3. ASSUME UNCHANGED alertVars, UNCHANGED vars
      PROVE  AlertType' /\ AlertsAgree'
  BY <1>2, <1>3 DEF vars
<1>4. CASE \/ Validate \/ Connect("redis", "kafka") \/ Connect("kafka", "mongo")
           \/ Connect("mongo", "workers") \/ StartScheduler \/ StopScheduler
           \/ Disconnect("quitKafka", "kafka", "quitRedis")
           \/ Disconnect("quitRedis", "redis", "quitMongo")
           \/ Disconnect("quitMongo", "mongo", "quitHttp")
           \/ CloseHttpClient \/ Dispose \/ OpenHttpClient \/ Shutdown \/ UNCHANGED appVars
  BY <1>3, <1>4 DEF Validate, Connect, StartScheduler, StopScheduler, Disconnect,
     CloseHttpClient, Dispose, OpenHttpClient, Shutdown, appVars
<1>5. CASE StartWorkers
  <2>1. UNCHANGED alertVars /\ (Start \/ UNCHANGED vars)
    BY <1>5 DEF StartWorkers
  <2>2. CASE Start
    <3>1. \A w \in Workers : pc[w] = "absent"
      BY <2>2 DEF Start, JobsAgree
    <3> QED BY <1>2, <2>1, <3>1
  <2> QED BY <1>3, <2>1, <2>2
<1>6. CASE StopWorkers
  <2>1. UNCHANGED <<pc, job, alertVars>>
    BY <1>6 DEF StopWorkers, StopBegins, vars
  <2> QED BY <1>2, <2>1
<1>7. CASE WorkersStopped
  <2>1. UNCHANGED alertVars /\ \A w \in Workers : pc[w] = "dead"
    BY <1>7 DEF WorkersStopped, StopEnds
  <2> QED BY <1>2, <2>1
<1>8. CASE SubmitBatch
  <2>1. UNCHANGED <<pc, job, alertVars>>
    BY <1>8 DEF SubmitBatch, Submit
  <2> QED BY <1>2, <2>1
<1>9. ASSUME NEW channels \in Requested, TestNotification(channels)
      PROVE  AlertType' /\ AlertsAgree'
  <2>1. /\ todo' \in [Senders -> Seq(ValidChannels)]
        /\ \A r \in Senders : r # Api => todo'[r] = todo[r]
    BY <1>0, <1>9, DispatchType DEF TestNotification
  <2>2. UNCHANGED <<vars, tried>>
    BY <1>9 DEF TestNotification
  <2>3. \A w \in Workers : todo'[w] = todo[w] /\ pc'[w] = pc[w] /\ job'[w] = job[w]
    BY <1>0, <2>1, <2>2 DEF vars
  <2> QED BY <1>1, <2>1, <2>2, <2>3, AlertsKept DEF AlertType
<1>10. CASE Send(Api)
  <2>1. /\ todo[Api] # <<>> /\ todo' = [todo EXCEPT ![Api] = Tail(todo[Api])]
        /\ UNCHANGED <<vars, tried>>
    BY <1>10 DEF Send, TriedBy
  <2>2. todo[Api] \in Seq(ValidChannels)
    BY <1>0 DEF AlertType
  <2>3. Tail(todo[Api]) \in Seq(ValidChannels)
    BY <2>1, <2>2
  <2>4. \A w \in Workers : todo'[w] = todo[w] /\ pc'[w] = pc[w] /\ job'[w] = job[w]
    BY <1>0, <2>1 DEF vars, AlertType
  <2> QED BY <1>0, <1>1, <2>1, <2>3, <2>4, AlertsKept DEF AlertType
<1>11. ASSUME NEW w \in Workers, AppWorkerStep(w)
       PROVE  AlertType' /\ AlertsAgree'
  <2>1. CASE (Take(w) \/ ProcessorReturns(w)) /\ UNCHANGED <<lifeVars, alertVars>>
    <3>1. pc[w] # "callback" /\ UNCHANGED alertVars
      BY <2>1 DEF Take, ProcessorReturns
    <3>2. \A v \in Workers : v # w => pc'[v] = pc[v] /\ job'[v] = job[v]
      BY <1>0, <2>1 DEF Take, TakeTracked, TakeUntracked, ProcessorReturns, Finally
    <3> QED BY <1>2, <3>1, <3>2
  <2>2. CASE TaskFails(w)
    BY <2>2, TaskFailsInductive
  <2>3. CASE Send(w)
    BY <2>3, SendInductive
  <2>4. CASE AlertDone(w)
    <3>1. todo[w] = <<>> /\ UNCHANGED alertVars
      BY <2>4 DEF AlertDone
    <3>2. \A v \in Workers : v # w => pc'[v] = pc[v] /\ job'[v] = job[v]
      BY <1>0, <2>4 DEF AlertDone, CallbackEnds, Finally
    <3> QED BY <1>2, <3>1, <3>2
  <2>5. CASE CancelWorker(w)
    <3>1. todo' = [todo EXCEPT ![w] = <<>>] /\ tried' = tried
      BY <2>5 DEF CancelWorker
    <3>2. \A v \in Workers : v # w => pc'[v] = pc[v] /\ job'[v] = job[v]
      BY <1>0, <2>5 DEF CancelWorker, WorkerCancelled, CancelIdle, CancelProcessing,
         CancelCallback, Finally
    <3>3. \A v \in Workers : todo'[v] = IF v = w THEN <<>> ELSE todo[v]
      BY <1>0, <3>1 DEF AlertType
    <3>4. AlertType'
      BY <1>0, <3>1 DEF AlertType
    <3> QED BY <1>1, <3>1, <3>2, <3>3, <3>4, AlertsKept
  <2> QED BY <1>11, <2>1, <2>2, <2>3, <2>4, <2>5 DEF AppWorkerStep
<1> QED BY <1>4, <1>5, <1>6, <1>7, <1>8, <1>9, <1>10, <1>11 DEF AppNext, LifeStep

LEMMA AlertsInvariant == AppSpec => [](Shape /\ JobsAgree /\ AlertType /\ AlertsAgree)
<1>1. AppInit => AlertType /\ AlertsAgree
  <2> SUFFICES ASSUME AppInit PROVE AlertType /\ AlertsAgree
    OBVIOUS
  <2>0. Len(DefaultChannels) \in Nat /\ 0 \in 0..Len(DefaultChannels)
    BY DefaultChannelsType
  <2>1. AlertType
    BY DEF AppInit, AlertType
  <2>2. Before(0) = <<>>
    BY SubSeqEmpty DEF Before
  <2>3. \A t \in Tasks : tried[t] = <<>> /\ Len(tried[t]) = 0
    BY DEF AppInit
  <2>4. \A w \in Workers : todo[w] = <<>>
    BY DEF AppInit, Senders
  <2> QED BY <2>0, <2>1, <2>2, <2>3, <2>4 DEF AlertsAgree
<1>2. Shape /\ JobsAgree /\ AlertType /\ AlertsAgree /\ [AppNext]_appVars
      => AlertType' /\ AlertsAgree'
  BY AlertsInductive
<1> QED BY <1>1, <1>2, AppRunsThePool, JobsInvariant, PTL DEF AppSpec

\* The alert of a failed task goes to the default channels in their order and
\* to each as often as the setting names it, whatever the channels answer and
\* wherever stop() cuts it off; no other task is announced.
THEOREM AlertsAreInOrder == AppSpec => []AlertsInOrder
<1>1. AlertsAgree => AlertsInOrder
  BY DefaultChannelsType DEF AlertsAgree, AlertsInOrder, Before
<1> QED BY <1>1, AlertsInvariant, PTL

\* However startup and cleanup fail on the way, the process that exits leaves
\* no worker behind, has stopped the scheduler and closed each client or
\* failed to do so for just that one, and has disposed of the engine unless
\* closing the HTTP client raised.  The state of the application is well typed.
THEOREM EverythingIsReleased == AppSpec => []EverythingReleased
<1>1. ASSUME Shape, AlertType, LifeType, LifeInv PROVE EverythingReleased
  <2>1. AppTypeOK
    BY <1>1 DEF Shape, AlertType, LifeType, AppTypeOK
  <2>2. life = "exited" => engine = "disposed"
    BY <1>1 DEF LifeInv, PartsAgree
  <2>3. life \in Exit =>
          /\ scheduler # "running"
          /\ phase \in {"created", "stopped"}
    BY <1>1 DEF LifeInv, PartsAgree, LifeAgrees, Exit, Late
  <2>4. life \in Exit => \A s \in Services : client[s] = "None" \/ s \in stuck
    BY <1>1 DEF LifeInv, ClientsAgree, Gone, Exit, Services
  <2>5. life = "failed" /\ phase = "stopped" => "httpx" \in stuck
    BY <1>1 DEF LifeInv, ClientsAgree
  <2> QED BY <2>1, <2>2, <2>3, <2>4, <2>5 DEF EverythingReleased
<1> QED BY <1>1, AlertsInvariant, LifeInvariant, PTL
=============================================================================
