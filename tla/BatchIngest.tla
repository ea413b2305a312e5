----------------------------- MODULE BatchIngest -----------------------------
(***************************************************************************)
(* Ingestion with in-memory deduplication: ingest_api_batch and            *)
(* ingest_api_single of ingestor/jobs.py, on the IdempotencyKeyTracker of  *)
(* libs/platform/retry.py.  ingest_api_batch is what the workers of        *)
(* WorkerPool run for each task, with a key made of the current date and   *)
(* the NUMBER of records.                                                  *)
(*                                                                         *)
(* Several runs overlap: the duplicate check and the mark are one step     *)
(* (nothing is awaited between them), the insert and commit come later.    *)
(* Times are ages in a unit of which Ttl is a whole number.                *)
(***************************************************************************)
EXTENDS Integers, FiniteSets

CONSTANTS
    Requests,   \* what clients ask to ingest, again and again
    Kind,       \* Requests -> {"batch", "single"}
    Rows,       \* Requests -> sets of (source, timestamp) pairs
    UserKey,    \* Requests -> the idempotency_key of a single, or NoKey
    NoKey,
    Runs,       \* coroutines that run an ingestion at the same time
    Ttl,        \* ttl_seconds
    MaxDay      \* bound: how many times the date changes

ASSUME IngestAssumption ==
    /\ Kind \in [Requests -> {"batch", "single"}]
    /\ DOMAIN Rows = Requests
    /\ NoKey \notin Requests
    /\ Ttl \in Nat /\ MaxDay \in Nat

VARIABLES
    seen,   \* _dedup_tracker._seen: the age of each key, None if absent
    day,    \* datetime.now(UTC).date()
    db,     \* the (source, timestamp) pairs in the records table
    run,    \* what each coroutine is inserting, and for how long
    mark    \* ghost: which run marked each key last, and whether it failed

ingestVars == <<seen, day, db, run, mark>>

None == -1
Idle == [req |-> NoKey, key |-> NoKey, age |-> 0]
Unmarked == [req |-> NoKey, by |-> NoKey, day |-> 0, failed |-> FALSE]

\* The batch key is f"bg-batch-{date}:{len(requests)}".
BatchKeyUndated(d, r) == <<0, Cardinality(Rows[r])>>
BatchKey(d, r) == <<d, Cardinality(Rows[r])>>
Keys == {BatchKey(d, r) : d \in 0..MaxDay, r \in {q \in Requests : Kind[q] = "batch"}}
        \union {UserKey[r] : r \in {q \in Requests : Kind[q] = "single" /\ UserKey[q] # NoKey}}
Key(r) == IF Kind[r] = "batch" THEN BatchKey(day, r) ELSE UserKey[r]

-----------------------------------------------------------------------------
IngestInit ==
    /\ seen = [k \in Keys |-> None]
    /\ day = 0
    /\ db = {}
    /\ run = [c \in Runs |-> Idle]
    /\ mark = [k \in Keys |-> Unmarked]

Older(age) == IF age = None THEN None ELSE IF age > Ttl THEN age ELSE age + 1

\* Time passes; past Ttl an age is only known to be larger.
KeysAge ==
    /\ seen' = [k \in Keys |-> Older(seen[k])]
    /\ run' = [c \in Runs |->
                  IF run[c] = Idle THEN Idle ELSE [run[c] EXCEPT !.age = Older(@)]]
    /\ UNCHANGED <<day, db, mark>>

NewDay ==
    /\ day < MaxDay
    /\ day' = day + 1
    /\ UNCHANGED <<seen, db, run, mark>>

\* is_duplicate(k), without the deletion of an expired key.
IsDuplicate(k) == seen[k] # None /\ seen[k] <= Ttl

\* mark_seen(k).
MarkNothing(k) == UNCHANGED seen
MarkSeen(k) == seen' = [seen EXCEPT ![k] = 0]

TurnedAway(r) == Key(r) # NoKey /\ IsDuplicate(Key(r))

\* A tracker whose check renews the key.
SkipRenewing(r) ==
    /\ TurnedAway(r)
    /\ MarkSeen(Key(r))
    /\ UNCHANGED <<day, db, run, mark>>
\* The early return for a duplicate key: nothing changes.
Skip(r) ==
    /\ TurnedAway(r)
    /\ UNCHANGED ingestVars

\* The key is new, expired or not given: it is marked, and the insert begins.
Begin(c, r) ==
    /\ run[c] = Idle
    /\ IF Key(r) = NoKey
       THEN UNCHANGED <<seen, mark>>
       ELSE /\ ~IsDuplicate(Key(r))
            /\ MarkSeen(Key(r))
            /\ mark' = [mark EXCEPT ![Key(r)] =
                           [req |-> r, by |-> c, day |-> day, failed |-> FALSE]]
    /\ run' = [run EXCEPT ![c] = [req |-> r, key |-> Key(r), age |-> 0]]
    /\ UNCHANGED <<day, db>>

\* The run of c ends, as a success or not; the database then holds the rows
\* in d.  The key stays marked either way.
End(c, success, d) ==
    /\ run[c] # Idle
    /\ db' = d
    /\ mark' = [k \in Keys |->
                   IF k = run[c].key /\ mark[k].by = c /\ ~success
                   THEN [mark[k] EXCEPT !.failed = TRUE]
                   ELSE mark[k]]
    /\ run' = [run EXCEPT ![c] = Idle]
    /\ UNCHANGED <<seen, day>>

\* The rows of a run are all new, and the transaction commits.
Commits(c, success) ==
    LET rows == Rows[run[c].req]
    IN  rows \intersect db = {} /\ End(c, success, db \union rows)

Insert(c) == Commits(c, TRUE)

\* The insert violates the unique constraint, or the database is out of
\* reach: a batch answers with errors = n, a single raises.
InsertFails(c) == End(c, FALSE, db)

\* The exception comes after the commit took effect: a lost acknowledgement,
\* or the refresh of a single record.
CommittedThenFails(c) == Commits(c, FALSE)

\* The run is cancelled (the pool stops, the client goes away); a commit
\* under way may take effect nevertheless.
Cancelled(c) == End(c, FALSE, db) \/ Commits(c, FALSE)

\* cleanup_expired().
CleanupExpired ==
    /\ seen' = [k \in Keys |-> IF seen[k] > Ttl THEN None ELSE seen[k]]
    /\ UNCHANGED <<day, db, run, mark>>

IngestNext ==
    \/ KeysAge
    \/ NewDay
    \/ CleanupExpired
    \/ \E r \in Requests : Skip(r)
    \/ \E c \in Runs :
          \/ \E r \in Requests : Begin(c, r)
          \/ run[c] # Idle /\ (Insert(c) \/ CommittedThenFails(c) \/ Cancelled(c))
          \/ InsertFails(c)

IngestSpec == IngestInit /\ [][IngestNext]_ingestVars

\* Only time is sure to pass.
IngestFairSpec == IngestSpec /\ WF_ingestVars(KeysAge)

-----------------------------------------------------------------------------
ActiveRuns == {c \in Runs : run[c] # Idle}

IngestTypeOK ==
    /\ seen \in [Keys -> -1..(Ttl + 1)]
    /\ day \in 0..MaxDay
    /\ db \subseteq UNION {Rows[r] : r \in Requests}
    /\ run \in [Runs -> {Idle} \union
                    [req : Requests, key : Keys \union {NoKey}, age : 0..(Ttl + 1)]]
    /\ mark \in [Keys -> [req : Requests \union {NoKey}, by : Runs \union {NoKey},
                          day : 0..MaxDay, failed : BOOLEAN]]

\* Two runs with one key overlap only when the older has outlived the time
\* to live of its key: within it the tracker serialises them.
OverlapOnlyAfterTtl ==
    \A b, c \in ActiveRuns :
        (b # c /\ run[b].key = run[c].key /\ run[b].key # NoKey)
        => run[b].age > Ttl \/ run[c].age > Ttl

\* Why a request can be turned away as a duplicate although its rows are not
\* in the database: a run of this request is under way, the run that marked
\* the key failed or was cancelled and left the mark behind, or the key was
\* marked for another request, which for batches means one of the same date
\* and the same number of records.  There is no other way to lose rows.
DuplicateHasACause ==
    /\ IngestTypeOK
    /\ \A r \in Requests :
          LET m == mark[Key(r)]
          IN  TurnedAway(r) /\ ~(Rows[r] \subseteq db) =>
                  \/ \E c \in ActiveRuns : run[c].req = r
                  \/ m.failed
                  \/ /\ m.req # r
                     /\ Kind[r] = "batch" /\ Kind[m.req] = "batch" =>
                           m.day = day /\ Cardinality(Rows[m.req]) = Cardinality(Rows[r])

\* Every key is let through again and again, however often clients send it
\* in between: the time to live counts from the run that marked the key and
\* not from the last attempt that was turned away.  Which of the requests
\* that share a key gets in then is anybody's guess.
KeysExpire == \A k \in Keys : []<>~IsDuplicate(k)
=============================================================================
