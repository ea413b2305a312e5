----------------------------- MODULE JobsProofs -----------------------------
(***************************************************************************)
(* Proofs about the two components that run jobs in the ingestor, which    *)
(* share no state: the scheduler (Scheduler), for any set of jobs, any     *)
(* number of retries and any timeout, and batch ingestion (BatchIngest),   *)
(* for any requests, keys, number of overlapping runs and time to live.    *)
(*                                                                         *)
(* That two runs with one key do not overlap within the time to live needs *)
(* that the tracker knows the age of every run that is younger than that:  *)
(* then a second run with the key would have found it marked.              *)
(***************************************************************************)
EXTENDS Scheduler, BatchIngest, TLAPS

\* Attempts are counted within the decorator's limit: only an attempt that
\* still has a retry left goes into a pause.
PausesLeaveRetries == \A j \in Jobs : stage[j] = "backoff" => attempt[j] <= MaxRetries

\* After stop() a job's run is over or is being cancelled, and none is armed.
StoppedUnwinds ==
    scheduler = "stopped" =>
        \A j \in Jobs : stage[j] \in {"idle", "cancelling"} /\ j \notin armed

\* Runs are cancelled only by stop().
CancelledByStop ==
    \A j \in Jobs : stage[j] = "cancelling" => scheduler = "stopped"

SchedulerInv == TypeOK /\ PausesLeaveRetries /\ StoppedUnwinds /\ CancelledByStop /\ RunsAccounted

-----------------------------------------------------------------------------
LEMMA SchedulerTypeInductive ==
    ASSUME TypeOK, PausesLeaveRetries, [Next]_vars
    PROVE  TypeOK'
<1> USE SchedulerAssumption DEF TypeOK
<1>1. CASE Start
  BY <1>1 DEF Start
<1>2. CASE Stop
  BY <1>2 DEF Stop
<1>3. CASE Tick
  BY <1>3 DEF Tick
<1>4. ASSUME NEW j \in Jobs, Fire(j)
      PROVE  TypeOK'
  <2>1. CASE stage[j] = "idle"
    BY <1>4, <2>1 DEF Fire
  <2>2. CASE stage[j] # "idle"
    BY <1>4, <2>2 DEF Fire
  <2> QED BY <2>1, <2>2
<1>5. ASSUME NEW j \in Jobs, HandlerReturns(j)
      PROVE  TypeOK'
  BY <1>5 DEF HandlerReturns, Ended
<1>6. ASSUME NEW j \in Jobs, HandlerRaises(j)
      PROVE  TypeOK'
  <2>1. CASE BacksOff(j)
    BY <2>1 DEF BacksOff
  <2>2. CASE ~BacksOff(j)
    <3>1. RecordFailure(j) /\ Ended(j) /\ UNCHANGED cancelled
      BY <1>6, <2>2 DEF HandlerRaises
    <3> QED BY <3>1 DEF RecordFailure, Ended
  <2> QED BY <2>1, <2>2
<1>7. ASSUME NEW j \in Jobs, BackoffEnds(j)
      PROVE  TypeOK'
  BY <1>7 DEF BackoffEnds, PausesLeaveRetries
<1>8. ASSUME NEW j \in Jobs, TimeoutExpires(j)
      PROVE  TypeOK'
  BY <1>8 DEF TimeoutExpires, RecordFailure, Ended
<1>9. ASSUME NEW j \in Jobs, RunCancelled(j)
      PROVE  TypeOK'
  BY <1>9 DEF RunCancelled, Ended
<1>10. CASE UNCHANGED vars
  BY <1>10 DEF vars
<1> QED BY <1>1, <1>2, <1>3, <1>4, <1>5, <1>6, <1>7, <1>8, <1>9, <1>10 DEF Next

\* Where the runs are after a step.
LEMMA StagesInductive ==
    ASSUME TypeOK, PausesLeaveRetries, StoppedUnwinds, CancelledByStop, [Next]_vars
    PROVE  PausesLeaveRetries' /\ StoppedUnwinds' /\ CancelledByStop'
<1> USE SchedulerAssumption DEF TypeOK, PausesLeaveRetries, StoppedUnwinds, CancelledByStop
<1>1. CASE Start
  BY <1>1 DEF Start
<1>2. CASE Stop
  BY <1>2 DEF Stop, Active
<1>3. CASE Tick
  BY <1>3 DEF Tick
<1>4. ASSUME NEW j \in Jobs, Fire(j)
      PROVE  PausesLeaveRetries' /\ StoppedUnwinds' /\ CancelledByStop'
  BY <1>4 DEF Fire
<1>5. ASSUME NEW j \in Jobs,
             HandlerReturns(j) \/ TimeoutExpires(j) \/ RunCancelled(j)
      PROVE  PausesLeaveRetries' /\ StoppedUnwinds' /\ CancelledByStop'
  BY <1>5 DEF HandlerReturns, TimeoutExpires, RunCancelled, Ended
<1>6. ASSUME NEW j \in Jobs, HandlerRaises(j)
      PROVE  PausesLeaveRetries' /\ StoppedUnwinds' /\ CancelledByStop'
  BY <1>6 DEF HandlerRaises, BacksOff, Ended
<1>7. ASSUME NEW j \in Jobs, BackoffEnds(j)
      PROVE  PausesLeaveRetries' /\ StoppedUnwinds' /\ CancelledByStop'
  BY <1>7 DEF BackoffEnds
<1>8. CASE UNCHANGED vars
  BY <1>8 DEF vars
<1> QED BY <1>1, <1>2, <1>3, <1>4, <1>5, <1>6, <1>7, <1>8 DEF Next

\* A step that ends a run moves it to exactly one of the three accounts.
LEMMA AccountsInductive ==
    ASSUME TypeOK, TypeOK', RunsAccounted, [Next]_vars
    PROVE  RunsAccounted'
<1> USE DEF TypeOK, RunsAccounted
<1>1. CASE Start \/ Tick \/ UNCHANGED vars
  BY <1>1 DEF Start, Tick, vars
<1>2. CASE Stop
  BY <1>2 DEF Stop, Active
<1>3. ASSUME NEW j \in Jobs, Fire(j)
      PROVE  RunsAccounted'
  BY <1>3 DEF Fire
<1>4. ASSUME NEW j \in Jobs, HandlerReturns(j)
      PROVE  RunsAccounted'
  BY <1>4 DEF HandlerReturns, Ended
<1>5. ASSUME NEW j \in Jobs, HandlerRaises(j)
      PROVE  RunsAccounted'
  <2>1. CASE BacksOff(j)
    BY <2>1 DEF BacksOff
  <2>2. CASE ~BacksOff(j)
    BY <1>5, <2>2 DEF HandlerRaises, RecordFailure, Ended
  <2> QED BY <2>1, <2>2
<1>6. ASSUME NEW j \in Jobs, BackoffEnds(j)
      PROVE  RunsAccounted'
  BY <1>6 DEF BackoffEnds
<1>7. ASSUME NEW j \in Jobs, TimeoutExpires(j)
      PROVE  RunsAccounted'
  BY <1>7 DEF TimeoutExpires, RecordFailure, Ended
<1>8. ASSUME NEW j \in Jobs, RunCancelled(j)
      PROVE  RunsAccounted'
  BY <1>8 DEF RunCancelled, Ended
<1> QED BY <1>1, <1>2, <1>3, <1>4, <1>5, <1>6, <1>7, <1>8 DEF Next

LEMMA SchedulerInvHolds == Spec => []SchedulerInv
<1>1. Init => SchedulerInv
  BY SchedulerAssumption DEF Init, SchedulerInv, TypeOK, PausesLeaveRetries, StoppedUnwinds,
     CancelledByStop, RunsAccounted, NewHealth
<1>2. SchedulerInv /\ [Next]_vars => SchedulerInv'
  BY SchedulerTypeInductive, StagesInductive, AccountsInductive DEF SchedulerInv
<1> QED BY <1>1, <1>2, PTL DEF Spec

\* Type correctness of the scheduler: attempts never exceed the retries.
THEOREM SchedulerTypeCorrect == Spec => []TypeOK
<1>1. SchedulerInv => TypeOK
  BY DEF SchedulerInv
<1> QED BY <1>1, SchedulerInvHolds, PTL

\* The wrapper counts every run exactly once, as a success, a failure or,
\* cancelled, not at all, wherever its retries and its timeout meet.
THEOREM EveryRunAccounted == Spec => []RunsAccounted
<1>1. SchedulerInv => RunsAccounted
  BY DEF SchedulerInv
<1> QED BY <1>1, SchedulerInvHolds, PTL

\* After stop() no run begins or is retried, and no health is recorded.
THEOREM StopIsFinal == Spec => NothingAfterStop
<1>1. SchedulerInv /\ [Next]_vars =>
        [scheduler = "stopped" =>
            /\ health' = health
            /\ \A j \in Jobs : stage'[j] \in {stage[j], "idle"}]_vars
  <2> SUFFICES ASSUME SchedulerInv, Next, scheduler = "stopped"
               PROVE  /\ health' = health
                      /\ \A j \in Jobs : stage'[j] \in {stage[j], "idle"}
    OBVIOUS
  <2>1. \A j \in Jobs : stage[j] \in {"idle", "cancelling"} /\ j \notin armed
    BY DEF SchedulerInv, StoppedUnwinds
  <2>2. CASE Tick
    BY <2>2 DEF Tick
  <2>3. ASSUME NEW j \in Jobs, RunCancelled(j)
        PROVE  /\ health' = health
               /\ \A i \in Jobs : stage'[i] \in {stage[i], "idle"}
    BY <2>3 DEF RunCancelled, Ended, SchedulerInv, TypeOK
  <2> QED BY <2>1, <2>2, <2>3 DEF Next, Start, Stop, Fire, HandlerReturns,
             HandlerRaises, BacksOff, BackoffEnds, TimeoutExpires
<1> QED BY <1>1, SchedulerInvHolds, PTL DEF Spec, NothingAfterStop

-----------------------------------------------------------------------------
(* Batch ingestion *)

Running == [req : Requests, key : Keys \union {NoKey}, age : 0..(Ttl + 1)]

\* A run with a key that has not outlived its time to live is as old as the
\* mark it left.
MarkedWhileYoung ==
    \A c \in ActiveRuns :
        run[c].key # NoKey /\ run[c].age <= Ttl => seen[run[c].key] = run[c].age

Marks == [req : Requests \union {NoKey}, by : Runs \union {NoKey},
          day : 0..MaxDay, failed : BOOLEAN]

\* A marked key is the key of the request that marked it, on the day it did;
\* this run still goes on, has stored its rows or has failed.
KeyOn(d, r) == IF Kind[r] = "batch" THEN BatchKey(d, r) ELSE UserKey[r]
Owned(k) ==
    /\ k = KeyOn(mark[k].day, mark[k].req)
    /\ \/ mark[k].failed
       \/ Rows[mark[k].req] \subseteq db
       \/ /\ mark[k].by \in Runs
          /\ run[mark[k].by] # Idle
          /\ run[mark[k].by].key = k
          /\ run[mark[k].by].req = mark[k].req
MarksHaveOwners == \A k \in Keys : seen[k] # None => Owned(k)

IngestInv == IngestTypeOK /\ MarkedWhileYoung /\ OverlapOnlyAfterTtl /\ MarksHaveOwners

\* What is not idle is the record of a run.
LEMMA RunningRecord ==
    ASSUME IngestTypeOK, NEW c \in Runs
    PROVE  /\ Idle \notin Running
           /\ run[c] # Idle => run[c] \in Running
           /\ run[c] = Idle \/ run[c] \in Running
BY IngestAssumption DEF IngestTypeOK, Idle, Running

\* A request with a key has one that the tracker may hold.
LEMMA KeyType ==
    ASSUME IngestTypeOK, NEW r \in Requests
    PROVE  Key(r) \in Keys \union {NoKey}
<1>1. CASE Kind[r] = "batch"
  BY <1>1 DEF Key, Keys, IngestTypeOK
<1>2. CASE Kind[r] # "batch"
  <2>1. Kind[r] = "single"
    BY <1>2, IngestAssumption
  <2> QED BY <1>2, <2>1 DEF Key, Keys
<1> QED BY <1>1, <1>2

LEMMA OlderType ==
    /\ \A a \in -1..(Ttl + 1) : Older(a) \in -1..(Ttl + 1)
    /\ \A a \in 0..(Ttl + 1) :
          /\ Older(a) \in 0..(Ttl + 1)
          /\ Older(a) >= a
          /\ Older(a) <= Ttl => Older(a) = a + 1
BY IngestAssumption DEF Older, None

\* What the end of a run does, however it ends.
LEMMA EndEffect ==
    ASSUME IngestTypeOK, NEW c \in Runs, NEW ok \in BOOLEAN, NEW d, End(c, ok, d)
    PROVE  /\ run[c] \in Running /\ run[c].req \in Requests
           /\ db' = d /\ seen' = seen /\ day' = day
           /\ mark' \in [Keys -> Marks]
           /\ \A k \in Keys :
                 /\ mark'[k].req = mark[k].req /\ mark'[k].by = mark[k].by
                 /\ mark'[k].day = mark[k].day
                 /\ mark[k].failed => mark'[k].failed
                 /\ k = run[c].key /\ mark[k].by = c /\ ~ok => mark'[k].failed
           /\ run' = [run EXCEPT ![c] = Idle]
           /\ \A b \in Runs : b # c => run'[b] = run[b]
           /\ \A b \in ActiveRuns' : b \in ActiveRuns /\ b # c /\ run'[b] = run[b]
<1>1. run[c] \in Running
  BY RunningRecord DEF End
<1>2. run[c].req \in Requests
  BY <1>1 DEF Running
<1>3. run' = [run EXCEPT ![c] = Idle]
  BY DEF End
<1>4. \A b \in ActiveRuns' : b \in ActiveRuns /\ b # c /\ run'[b] = run[b]
  BY <1>3 DEF ActiveRuns, IngestTypeOK
<1>5. \A b \in Runs : b # c => run'[b] = run[b]
  BY <1>3 DEF IngestTypeOK
<1>6. ASSUME NEW k \in Keys
      PROVE  /\ mark'[k] \in Marks
             /\ mark'[k].req = mark[k].req /\ mark'[k].by = mark[k].by
             /\ mark'[k].day = mark[k].day
             /\ mark[k].failed => mark'[k].failed
             /\ k = run[c].key /\ mark[k].by = c /\ ~ok => mark'[k].failed
  <2>1. mark[k] \in Marks
    BY DEF IngestTypeOK, Marks
  <2>2. CASE k = run[c].key /\ mark[k].by = c /\ ~ok
    <3>1. mark'[k] = [mark[k] EXCEPT !.failed = TRUE]
      BY <2>2 DEF End
    <3> QED BY <2>1, <3>1 DEF Marks
  <2>3. CASE ~(k = run[c].key /\ mark[k].by = c /\ ~ok)
    <3>1. mark'[k] = mark[k]
      BY <2>3 DEF End
    <3> QED BY <2>1, <2>3, <3>1
  <2> QED BY <2>2, <2>3
<1>7. mark' \in [Keys -> Marks]
  BY <1>6 DEF End
<1> QED BY <1>1, <1>2, <1>3, <1>4, <1>5, <1>6, <1>7 DEF End

\* However a run ends, stored rows stay, and if it is a success the rows of
\* its request are stored.
LEMMA EndsRun ==
    ASSUME IngestTypeOK, NEW c \in Runs,
           \/ run[c] # Idle /\ (Insert(c) \/ CommittedThenFails(c) \/ Cancelled(c))
           \/ InsertFails(c)
    PROVE  \E ok \in BOOLEAN, d \in SUBSET UNION {Rows[r] : r \in Requests} :
              /\ End(c, ok, d)
              /\ db \subseteq d
              /\ ok => Rows[run[c].req] \subseteq d
<1>1. run[c] # Idle
  BY DEF InsertFails, End
<1>2. run[c].req \in Requests
  BY <1>1, RunningRecord DEF Running
<1>3. db \union Rows[run[c].req] \in SUBSET UNION {Rows[r] : r \in Requests}
  BY <1>2 DEF IngestTypeOK
<1>4. db \in SUBSET UNION {Rows[r] : r \in Requests}
  BY DEF IngestTypeOK
<1>5. ASSUME NEW ok \in BOOLEAN, Commits(c, ok)
      PROVE  End(c, ok, db \union Rows[run[c].req])
  BY <1>5 DEF Commits
<1>6. CASE Insert(c)
  <2>1. End(c, TRUE, db \union Rows[run[c].req])
    BY <1>5, <1>6 DEF Insert
  <2> QED BY <1>3, <2>1
<1>7. CASE Commits(c, FALSE)
  <2>1. End(c, FALSE, db \union Rows[run[c].req])
    BY <1>5, <1>7
  <2> QED BY <1>3, <2>1
<1>8. CASE End(c, FALSE, db)
  BY <1>4, <1>8
<1> QED BY <1>6, <1>7, <1>8 DEF CommittedThenFails, InsertFails, Cancelled

LEMMA IngestTypeInductive ==
    ASSUME IngestTypeOK, [IngestNext]_ingestVars
    PROVE  IngestTypeOK'
<1>1. CASE KeysAge
  <2>1. seen' \in [Keys -> -1..(Ttl + 1)]
    BY <1>1, OlderType DEF KeysAge, IngestTypeOK
  <2>2. ASSUME NEW c \in Runs
        PROVE  run'[c] \in {Idle} \union Running
    <3>1. run'[c] = IF run[c] = Idle THEN Idle
                    ELSE [run[c] EXCEPT !.age = Older(run[c].age)]
      BY <1>1 DEF KeysAge
    <3>2. CASE run[c] # Idle
      <4>1. run[c] \in Running /\ Older(run[c].age) \in 0..(Ttl + 1)
        BY <3>2, RunningRecord, OlderType DEF Running
      <4> QED BY <3>1, <3>2, <4>1 DEF Running
    <3> QED BY <3>1, <3>2
  <2>3. run' \in [Runs -> {Idle} \union Running]
    BY <1>1, <2>2 DEF KeysAge
  <2> QED BY <1>1, <2>1, <2>3 DEF KeysAge, IngestTypeOK, Running
<1>2. CASE NewDay
  BY <1>2, IngestAssumption DEF NewDay, IngestTypeOK
<1>3. CASE CleanupExpired
  <2>1. seen' \in [Keys -> -1..(Ttl + 1)]
    BY <1>3, IngestAssumption DEF CleanupExpired, IngestTypeOK, None
  <2> QED BY <1>3, <2>1 DEF CleanupExpired, IngestTypeOK
<1>4. ASSUME NEW r \in Requests, Skip(r)
      PROVE  IngestTypeOK'
  BY <1>4 DEF Skip, ingestVars, IngestTypeOK
<1>5. ASSUME NEW c \in Runs, NEW r \in Requests, Begin(c, r)
      PROVE  IngestTypeOK'
  <2>1. Key(r) \in Keys \union {NoKey}
    BY KeyType
  <2>2. seen' \in [Keys -> -1..(Ttl + 1)]
    BY <1>5, <2>1, IngestAssumption DEF Begin, MarkSeen, IngestTypeOK
  <2>3. [req |-> r, key |-> Key(r), age |-> 0] \in Running
    BY <2>1, IngestAssumption DEF Running
  <2>4. run' \in [Runs -> {Idle} \union Running]
    BY <1>5, <2>3 DEF Begin, IngestTypeOK, Running
  <2>5. mark' \in [Keys -> Marks]
    <3>1. [req |-> r, by |-> c, day |-> day, failed |-> FALSE] \in Marks
      BY DEF Marks, IngestTypeOK
    <3>2. mark \in [Keys -> Marks]
      BY DEF Marks, IngestTypeOK
    <3> QED BY <1>5, <3>1, <3>2 DEF Begin
  <2> QED BY <1>5, <2>2, <2>4, <2>5 DEF Begin, IngestTypeOK, Running, Marks
<1>6. ASSUME NEW c \in Runs,
             \/ run[c] # Idle /\ (Insert(c) \/ CommittedThenFails(c) \/ Cancelled(c))
             \/ InsertFails(c)
      PROVE  IngestTypeOK'
  <2>1. PICK ok \in BOOLEAN, d \in SUBSET UNION {Rows[r] : r \in Requests} : End(c, ok, d)
    BY <1>6, EndsRun
  <2>2. /\ db' = d /\ seen' = seen /\ day' = day
        /\ mark' \in [Keys -> Marks]
        /\ run' = [run EXCEPT ![c] = Idle]
    BY <2>1, EndEffect
  <2> QED BY <2>2 DEF IngestTypeOK, Marks
<1>7. CASE UNCHANGED ingestVars
  BY <1>7 DEF ingestVars, IngestTypeOK
<1> QED BY <1>1, <1>2, <1>3, <1>4, <1>5, <1>6, <1>7 DEF IngestNext

\* A run that begins finds its key unmarked or expired, so that no other run
\* with this key is young; all marks and runs grow older together.
LEMMA MarksInductive ==
    ASSUME IngestTypeOK, MarkedWhileYoung, OverlapOnlyAfterTtl, [IngestNext]_ingestVars
    PROVE  MarkedWhileYoung' /\ OverlapOnlyAfterTtl'
<1>0. ASSUME NEW c \in ActiveRuns
      PROVE  c \in Runs /\ run[c] \in Running /\ run[c].key \in Keys \union {NoKey}
             /\ run[c].age \in 0..(Ttl + 1) /\ Ttl \in Nat
  BY RunningRecord, IngestAssumption DEF ActiveRuns, Running
<1>1. CASE KeysAge
  <2>1. ASSUME NEW c \in ActiveRuns'
        PROVE  c \in ActiveRuns /\ run'[c].key = run[c].key /\ run'[c].age = Older(run[c].age)
    <3>1. c \in ActiveRuns
      BY <1>1 DEF KeysAge, ActiveRuns
    <3>2. run'[c] = [run[c] EXCEPT !.age = Older(run[c].age)]
      BY <1>1, <3>1 DEF KeysAge, ActiveRuns
    <3> QED BY <1>0, <3>1, <3>2 DEF Running
  <2>2. MarkedWhileYoung'
    <3> SUFFICES ASSUME NEW c \in ActiveRuns', run'[c].key # NoKey, run'[c].age <= Ttl
                 PROVE  seen'[run'[c].key] = run'[c].age
      BY DEF MarkedWhileYoung
    <3>1. c \in ActiveRuns /\ run'[c].key = run[c].key /\ run'[c].age = Older(run[c].age)
      BY <2>1
    <3>2. run[c].key \in Keys /\ run[c].age \in 0..(Ttl + 1) /\ Ttl \in Nat
      BY <1>0, <3>1
    <3>3. run[c].age <= Ttl /\ seen[run[c].key] = run[c].age
      BY <3>1, <3>2, OlderType DEF MarkedWhileYoung
    <3> QED BY <1>1, <3>1, <3>2, <3>3 DEF KeysAge
  <2>3. OverlapOnlyAfterTtl'
    <3> SUFFICES ASSUME NEW b \in ActiveRuns', NEW c \in ActiveRuns',
                        b # c, run'[b].key = run'[c].key, run'[b].key # NoKey
                 PROVE  run'[b].age > Ttl \/ run'[c].age > Ttl
      BY DEF OverlapOnlyAfterTtl
    <3>1. run[b].age > Ttl \/ run[c].age > Ttl
      BY <2>1 DEF OverlapOnlyAfterTtl
    <3> QED BY <1>0, <2>1, <3>1, OlderType
  <2> QED BY <2>2, <2>3
<1>2. CASE NewDay
  BY <1>2 DEF NewDay, MarkedWhileYoung, OverlapOnlyAfterTtl, ActiveRuns
<1>3. CASE CleanupExpired
  <2>1. run' = run /\ ActiveRuns' = ActiveRuns
    BY <1>3 DEF CleanupExpired, ActiveRuns
  <2>2. \A k \in Keys : seen[k] <= Ttl => seen'[k] = seen[k]
    BY <1>3, IngestAssumption DEF CleanupExpired, IngestTypeOK
  <2>3. MarkedWhileYoung'
    BY <1>0, <2>1, <2>2 DEF MarkedWhileYoung
  <2> QED BY <2>1, <2>3 DEF OverlapOnlyAfterTtl
<1>4. ASSUME NEW r \in Requests, Skip(r)
      PROVE  MarkedWhileYoung' /\ OverlapOnlyAfterTtl'
  BY <1>4 DEF Skip, ingestVars, MarkedWhileYoung, OverlapOnlyAfterTtl, ActiveRuns
<1>5. ASSUME NEW c \in Runs, NEW r \in Requests, Begin(c, r)
      PROVE  MarkedWhileYoung' /\ OverlapOnlyAfterTtl'
  <2> DEFINE k == Key(r)
  <2>0. Ttl \in Nat
    BY IngestAssumption
  <2>1. k \in Keys \union {NoKey}
    BY KeyType
  <2>2. run' = [run EXCEPT ![c] = [req |-> r, key |-> k, age |-> 0]]
    BY <1>5 DEF Begin
  <2>3. run'[c].key = k /\ run'[c].age = 0
    BY <2>2 DEF IngestTypeOK
  <2>4. \A b \in ActiveRuns' : b # c => b \in ActiveRuns /\ run'[b] = run[b]
    BY <2>2 DEF ActiveRuns, IngestTypeOK
  <2>5. k # NoKey => ~IsDuplicate(k) /\ seen' = [seen EXCEPT ![k] = 0]
    BY <1>5 DEF Begin, MarkSeen
  <2>6. k = NoKey => seen' = seen
    BY <1>5 DEF Begin
  <2> HIDE DEF k
  <2>7. \A b \in ActiveRuns : k # NoKey /\ run[b].key = k => run[b].age > Ttl
    <3> SUFFICES ASSUME NEW b \in ActiveRuns, k # NoKey, run[b].key = k, ~(run[b].age > Ttl)
                 PROVE  FALSE
      OBVIOUS
    <3>1. run[b].age \in 0..(Ttl + 1) /\ run[b].age <= Ttl
      BY <1>0
    <3>2. seen[k] = run[b].age
      BY <3>1 DEF MarkedWhileYoung
    <3> QED BY <2>0, <2>5, <3>1, <3>2 DEF IsDuplicate, None
  <2>8. MarkedWhileYoung'
    <3> SUFFICES ASSUME NEW b \in ActiveRuns', run'[b].key # NoKey, run'[b].age <= Ttl
                 PROVE  seen'[run'[b].key] = run'[b].age
      BY DEF MarkedWhileYoung
    <3>1. CASE b = c
      BY <2>1, <2>3, <2>5, <3>1 DEF IngestTypeOK
    <3>2. CASE b # c
      <4>1. b \in ActiveRuns /\ run'[b] = run[b]
        BY <2>4, <3>2
      <4>2. run[b].key # k
        <5>1. run[b].age \in 0..(Ttl + 1)
          BY <1>0, <4>1
        <5> QED BY <2>0, <2>7, <4>1, <5>1
      <4>3. seen'[run[b].key] = seen[run[b].key]
        <5>1. run[b].key \in Keys
          BY <1>0, <4>1
        <5> QED BY <2>5, <2>6, <4>2, <5>1 DEF IngestTypeOK
      <4> QED BY <4>1, <4>3 DEF MarkedWhileYoung
    <3> QED BY <3>1, <3>2
  <2>9. OverlapOnlyAfterTtl'
    <3> SUFFICES ASSUME NEW b \in ActiveRuns', NEW d \in ActiveRuns',
                        b # d, run'[b].key = run'[d].key, run'[b].key # NoKey
                 PROVE  run'[b].age > Ttl \/ run'[d].age > Ttl
      BY DEF OverlapOnlyAfterTtl
    <3>1. CASE b = c \/ d = c
      BY <2>3, <2>4, <2>7, <3>1
    <3>2. CASE b # c /\ d # c
      BY <2>4, <3>2 DEF OverlapOnlyAfterTtl
    <3> QED BY <3>1, <3>2
  <2> QED BY <2>8, <2>9
<1>6. ASSUME NEW c \in Runs,
             \/ run[c] # Idle /\ (Insert(c) \/ CommittedThenFails(c) \/ Cancelled(c))
             \/ InsertFails(c)
      PROVE  MarkedWhileYoung' /\ OverlapOnlyAfterTtl'
  <2>1. seen' = seen /\ \A b \in ActiveRuns' : b \in ActiveRuns /\ run'[b] = run[b]
    BY <1>6, EndsRun, EndEffect
  <2> QED BY <2>1 DEF MarkedWhileYoung, OverlapOnlyAfterTtl
<1>7. CASE UNCHANGED ingestVars
  BY <1>7 DEF ingestVars, MarkedWhileYoung, OverlapOnlyAfterTtl, ActiveRuns
<1> QED BY <1>1, <1>2, <1>3, <1>4, <1>5, <1>6, <1>7 DEF IngestNext

\* A mark is set by the run it names; when this run ends, the rows are stored
\* or the mark is told of the failure.
LEMMA OwnersInductive ==
    ASSUME IngestTypeOK, MarksHaveOwners, [IngestNext]_ingestVars
    PROVE  MarksHaveOwners'
<1>1. CASE KeysAge
  <2>1. \A c \in Runs : run'[c].req = run[c].req /\ run'[c].key = run[c].key
                       /\ (run[c] # Idle => run'[c] # Idle)
    <3> TAKE c \in Runs
    <3>1. CASE run[c] = Idle
      BY <1>1, <3>1 DEF KeysAge
    <3>2. CASE run[c] # Idle
      <4>1. run[c] \in Running
        BY <3>2, RunningRecord
      <4>2. run'[c] = [run[c] EXCEPT !.age = Older(run[c].age)]
        BY <1>1, <3>2 DEF KeysAge
      <4>3. run'[c].req = run[c].req /\ run'[c].key = run[c].key
        BY <4>1, <4>2 DEF Running
      <4>4. run'[c].req # NoKey
        BY <4>1, <4>3, IngestAssumption DEF Running
      <4> QED BY <4>3, <4>4 DEF Idle
    <3> QED BY <3>1, <3>2
  <2>2. \A k \in Keys : seen'[k] # None => seen[k] # None
    BY <1>1 DEF KeysAge, Older
  <2> QED BY <1>1, <2>1, <2>2 DEF KeysAge, MarksHaveOwners, Owned
<1>2. CASE NewDay
  BY <1>2 DEF NewDay, MarksHaveOwners, Owned
<1>3. CASE CleanupExpired
  <2>1. \A k \in Keys : seen'[k] # None => seen[k] # None
    BY <1>3 DEF CleanupExpired
  <2> QED BY <1>3, <2>1 DEF CleanupExpired, MarksHaveOwners, Owned
<1>4. ASSUME NEW r \in Requests, Skip(r)
      PROVE  MarksHaveOwners'
  BY <1>4 DEF Skip, ingestVars, MarksHaveOwners, Owned
<1>5. ASSUME NEW c \in Runs, NEW r \in Requests, Begin(c, r)
      PROVE  MarksHaveOwners'
  <2> SUFFICES ASSUME NEW k \in Keys, seen'[k] # None
               PROVE  Owned(k)'
    BY DEF MarksHaveOwners
  <2>1. /\ run[c] = Idle /\ db' = db /\ day' = day
        /\ run' = [run EXCEPT ![c] = [req |-> r, key |-> Key(r), age |-> 0]]
    BY <1>5 DEF Begin
  <2>2. run'[c].req = r /\ run'[c].key = Key(r) /\ run'[c] # Idle
    BY <2>1, IngestAssumption DEF IngestTypeOK, Idle
  <2>3. CASE k = Key(r) /\ Key(r) # NoKey
    <3>1. mark'[k] = [req |-> r, by |-> c, day |-> day, failed |-> FALSE]
      BY <1>5, <2>3 DEF Begin, IngestTypeOK
    <3>2. k = KeyOn(day, r)
      BY <2>3 DEF Key, KeyOn
    <3> QED BY <2>1, <2>2, <2>3, <3>1, <3>2 DEF Owned, KeyOn, BatchKey
  <2>4. CASE ~(k = Key(r) /\ Key(r) # NoKey)
    <3>1. mark'[k] = mark[k] /\ seen'[k] = seen[k]
      BY <1>5, <2>4 DEF Begin, MarkSeen, IngestTypeOK
    <3>2. Owned(k)
      BY <3>1 DEF MarksHaveOwners
    <3>3. \A b \in Runs : run[b] # Idle => run'[b] = run[b]
      BY <2>1 DEF IngestTypeOK
    <3> QED BY <2>1, <3>1, <3>2, <3>3 DEF Owned, KeyOn, BatchKey
  <2> QED BY <2>3, <2>4
<1>6. ASSUME NEW c \in Runs,
             \/ run[c] # Idle /\ (Insert(c) \/ CommittedThenFails(c) \/ Cancelled(c))
             \/ InsertFails(c)
      PROVE  MarksHaveOwners'
  <2>1. PICK ok \in BOOLEAN, d \in SUBSET UNION {Rows[q] : q \in Requests} :
           End(c, ok, d) /\ db \subseteq d /\ (ok => Rows[run[c].req] \subseteq d)
    BY <1>6, EndsRun
  <2> SUFFICES ASSUME NEW k \in Keys, seen'[k] # None
               PROVE  Owned(k)'
    BY DEF MarksHaveOwners
  <2>2. /\ db' = d /\ seen' = seen
        /\ mark'[k].req = mark[k].req /\ mark'[k].by = mark[k].by
        /\ mark'[k].day = mark[k].day
        /\ mark[k].failed => mark'[k].failed
        /\ k = run[c].key /\ mark[k].by = c /\ ~ok => mark'[k].failed
        /\ \A b \in Runs : b # c => run'[b] = run[b]
    BY <2>1, EndEffect
  <2>3. Owned(k)
    BY <2>2 DEF MarksHaveOwners
  <2>4. CASE ~mark[k].failed /\ ~(Rows[mark[k].req] \subseteq db) /\ mark[k].by = c
    <3>1. run[c].key = k /\ run[c].req = mark[k].req
      BY <2>3, <2>4 DEF Owned
    <3>2. mark'[k].failed \/ Rows[mark'[k].req] \subseteq db'
      BY <2>1, <2>2, <2>4, <3>1
    <3> QED BY <2>2, <2>3, <3>2 DEF Owned, KeyOn, BatchKey
  <2>5. CASE mark[k].failed \/ Rows[mark[k].req] \subseteq db
    BY <2>1, <2>2, <2>3, <2>5 DEF Owned, KeyOn, BatchKey
  <2>6. CASE ~mark[k].failed /\ ~(Rows[mark[k].req] \subseteq db) /\ mark[k].by # c
    BY <2>2, <2>3, <2>6 DEF Owned, KeyOn, BatchKey
  <2> QED BY <2>4, <2>5, <2>6
<1>7. CASE UNCHANGED ingestVars
  BY <1>7 DEF ingestVars, MarksHaveOwners, Owned
<1> QED BY <1>1, <1>2, <1>3, <1>4, <1>5, <1>6, <1>7 DEF IngestNext

LEMMA IngestInvHolds == IngestSpec => []IngestInv
<1>1. IngestInit => IngestInv
  <2> SUFFICES ASSUME IngestInit PROVE IngestInv
    OBVIOUS
  <2>1. IngestTypeOK
    BY IngestAssumption DEF IngestInit, IngestTypeOK, None, Unmarked
  <2>2. ActiveRuns = {}
    BY DEF IngestInit, ActiveRuns
  <2> QED BY <2>1, <2>2 DEF IngestInv, MarkedWhileYoung, OverlapOnlyAfterTtl,
             MarksHaveOwners, IngestInit
<1>2. IngestInv /\ [IngestNext]_ingestVars => IngestInv'
  BY IngestTypeInductive, MarksInductive, OwnersInductive DEF IngestInv
<1> QED BY <1>1, <1>2, PTL DEF IngestSpec

\* Within the time to live of its key no second run with that key overlaps a
\* run: the check and the mark of the tracker serialise them, for any number
\* of coroutines.
THEOREM TrackerSerialisesRuns == IngestSpec => []OverlapOnlyAfterTtl
<1>1. IngestInv => OverlapOnlyAfterTtl
  BY DEF IngestInv
<1> QED BY <1>1, IngestInvHolds, PTL

\* For any requests, keys and coroutines, a request whose rows are missing is
\* turned away only because of a run under way, a run that failed or was
\* cancelled after marking the key, or another request with the same key,
\* that is for batches of the same date and number of records.
THEOREM DuplicatesHaveCauses == IngestSpec => []DuplicateHasACause
<1>1. ASSUME IngestInv PROVE DuplicateHasACause
  <2>0. IngestTypeOK /\ MarksHaveOwners
    BY <1>1 DEF IngestInv
  <2> SUFFICES ASSUME NEW r \in Requests, TurnedAway(r), ~(Rows[r] \subseteq db),
                      ~mark[Key(r)].failed, ~(\E c \in ActiveRuns : run[c].req = r)
               PROVE  /\ mark[Key(r)].req # r
                      /\ Kind[r] = "batch" /\ Kind[mark[Key(r)].req] = "batch" =>
                            /\ mark[Key(r)].day = day
                            /\ Cardinality(Rows[mark[Key(r)].req]) = Cardinality(Rows[r])
    BY <2>0 DEF DuplicateHasACause
  <2> DEFINE k == Key(r)
  <2>1. k \in Keys
    BY <2>0, KeyType DEF TurnedAway
  <2>2. Owned(k)
    BY <2>0, <2>1 DEF TurnedAway, IsDuplicate, MarksHaveOwners
  <2>3. mark[k].req # r
    BY <2>2 DEF Owned, ActiveRuns
  <2>4. ASSUME Kind[r] = "batch", Kind[mark[k].req] = "batch"
        PROVE  mark[k].day = day /\ Cardinality(Rows[mark[k].req]) = Cardinality(Rows[r])
    <3>1. k = <<day, Cardinality(Rows[r])>>
      BY <2>4 DEF Key, BatchKey
    <3>2. k = <<mark[k].day, Cardinality(Rows[mark[k].req])>>
      BY <2>2, <2>4 DEF Owned, KeyOn, BatchKey
    <3> HIDE DEF k
    <3> QED BY <3>1, <3>2
  <2> QED BY <2>3, <2>4
<1> QED BY <1>1, IngestInvHolds, PTL
=============================================================================
