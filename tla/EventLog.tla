------------------------------ MODULE EventLog ------------------------------
(***************************************************************************)
(* The log of consumed events (ingestor/storage/events.py): one row per    *)
(* idempotency key, its status and its count of processing attempts.       *)
(*                                                                         *)
(* The functions take a session from their caller, and any caller may call *)
(* any of them at any time: a session is the most general client.  The     *)
(* sessions keep what they loaded (expire_on_commit=False), so session.get *)
(* returns the copy the session holds, however old, and the UPDATE of a    *)
(* commit sets only the columns that differ from that copy.  A step is the *)
(* code between two awaits; PostgreSQL makes an INSERT wait while another  *)
(* one of the same key is undecided.  Nothing ever deletes an event.       *)
(*                                                                         *)
(* get_event_by_idempotency_key, get_events_by_status and get_dlq_events   *)
(* only read: what they select by, the status and the flag, is in the row. *)
(* (The last two return at most 100 rows, so a flagged event can still be  *)
(* missing from the list.)  Left out: Kafka coordinates, payload, error    *)
(* texts and timestamps.                                                   *)
(***************************************************************************)
EXTENDS Integers, FiniteSets

CONSTANTS
    Sessions,       \* sessions used concurrently
    Keys,           \* idempotency keys; a key stands for the row's id too
    MaxAttempts     \* bound: mark_event_processing calls per event

ASSUME EventLogAssumption == MaxAttempts \in Nat

VARIABLES
    row,        \* the committed row of each key
    view,       \* the copy of each row in a session's identity map
    pc,         \* the call each session is in
    arg,        \* its idempotency keys
    created,    \* ghost: how often create answered (event, True), per key
    begun,      \* ghost: committed calls of mark_event_processing, per key
    stale,      \* ghost: keys written from a copy that was out of date
    buried,     \* ghost: keys with a committed mark_event_dlq
    overwritten \* ghost: keys another mark was committed for after that

ghosts == <<created, begun, stale, buried, overwritten>>
vars == <<row, view, pc, arg, ghosts>>

Marks == {"processing", "completed", "failed", "dead_letter"}
Row == [status : Marks \union {"pending"}, attempts : Nat, dlq : BOOLEAN]
NoRow == [status |-> "absent"]
Pending == [status |-> "pending", attempts |-> 0, dlq |-> FALSE]

Exists(k) == row[k] # NoRow
Inserting(k) == \E s \in Sessions : pc[s] \in {"flushed", "batched"} /\ k \in arg[s]

Init ==
    /\ row = [k \in Keys |-> NoRow]
    /\ view = [s \in Sessions |-> [k \in Keys |-> NoRow]]
    /\ pc = [s \in Sessions |-> "idle"]
    /\ arg = [s \in Sessions |-> {}]
    /\ created = [k \in Keys |-> 0]
    /\ begun = [k \in Keys |-> 0]
    /\ stale = {}
    /\ buried = {}
    /\ overwritten = {}

-----------------------------------------------------------------------------
(* create_processed_event and batch_create_processed_events *)

Goto(s, next, K) ==
    /\ pc' = [pc EXCEPT ![s] = next]
    /\ arg' = [arg EXCEPT ![s] = K]

\* flush(): the INSERT, decided only once nobody else is inserting the key.
FlushUnchecked(s, k) ==
    /\ pc[s] = "idle"
    /\ Goto(s, IF Exists(k) THEN "conflict" ELSE "flushed", {k})
    /\ UNCHANGED <<row, view, ghosts>>
Flush(s, k) ==
    /\ pc[s] = "idle"
    /\ ~Inserting(k)
    /\ Goto(s, IF Exists(k) THEN "conflict" ELSE "flushed", {k})
    /\ UNCHANGED <<row, view, ghosts>>

\* One INSERT ... RETURNING for all events: a single existing key raises
\* IntegrityError and nothing is inserted.
BatchInsert(s, K) ==
    /\ pc[s] = "idle"
    /\ \A k \in K : ~Inserting(k) /\ ~Exists(k)
    /\ Goto(s, "batched", K)
    /\ UNCHANGED <<row, view, ghosts>>

\* commit() of an INSERT.  The rows appear together; the session holds them.
CommitInsert(s) ==
    /\ pc[s] \in {"flushed", "batched"}
    /\ row' = [k \in Keys |-> IF k \in arg[s] THEN Pending ELSE row[k]]
    /\ view' = [view EXCEPT ![s] = [k \in Keys |-> IF k \in arg[s] THEN Pending ELSE @[k]]]
    /\ IF pc[s] = "flushed" THEN Goto(s, "created", arg[s]) ELSE Goto(s, "idle", {})
    /\ UNCHANGED ghosts

\* refresh() of the new row, and the answer (event, True).
CreatedAnswered(s) ==
    /\ pc[s] = "created"
    /\ \E k \in arg[s] :
          /\ view' = [view EXCEPT ![s][k] = row[k]]
          /\ created' = [created EXCEPT ![k] = @ + 1]
    /\ Goto(s, "idle", {})
    /\ UNCHANGED <<row, begun, stale, buried, overwritten>>

\* IntegrityError: rollback() expires what the session holds, the SELECT
\* loads the existing row, and the answer is (existing, False).
SelectExisting(s) ==
    /\ pc[s] = "conflict"
    /\ view' = [view EXCEPT ![s] = [k \in Keys |-> IF k \in arg[s] THEN row[k] ELSE NoRow]]
    /\ Goto(s, "idle", {})
    /\ UNCHANGED <<row, ghosts>>

-----------------------------------------------------------------------------
(* mark_event_processing, _completed, _failed and _dlq *)

\* session.get(): the copy the session holds, or else the row.
Get(s, k, mark) ==
    /\ pc[s] = "idle"
    /\ Exists(k)
    /\ view' = [view EXCEPT ![s][k] = IF @ = NoRow THEN row[k] ELSE @]
    /\ Goto(s, mark, {k})
    /\ UNCHANGED <<row, ghosts>>

\* The attributes after the assignments of the function named by the mark.
AssignedCountingAll(copy, mark) ==
    [status |-> mark,
     attempts |-> copy.attempts + 1,
     dlq |-> copy.dlq \/ mark = "dead_letter"]
Assigned(copy, mark) ==
    [status |-> mark,
     attempts |-> IF mark = "processing" THEN copy.attempts + 1 ELSE copy.attempts,
     dlq |-> copy.dlq \/ mark = "dead_letter"]

\* UPDATE ... SET the columns whose value differs from the loaded one.
UpdatedWhole(k, old, new) == new
Updated(k, old, new) ==
    LET Column(c) == IF new[c] # old[c] THEN new[c] ELSE row[k][c]
    IN  [status |-> Column("status"), attempts |-> Column("attempts"), dlq |-> Column("dlq")]

\* commit(): the UPDATE, and the ghosts.
CommitMark(s) ==
    /\ pc[s] \in Marks
    /\ \E k \in arg[s] :
          LET old == view[s][k]
              new == Assigned(old, pc[s])
          IN  /\ pc[s] = "processing" => begun[k] < MaxAttempts
              /\ row' = [row EXCEPT ![k] = Updated(k, old, new)]
              /\ view' = [view EXCEPT ![s][k] = new]
              /\ begun' = [begun EXCEPT ![k] = IF pc[s] = "processing" THEN @ + 1 ELSE @]
              /\ stale' = IF old # row[k] THEN stale \union {k} ELSE stale
              /\ buried' = IF pc[s] = "dead_letter" THEN buried \union {k} ELSE buried
              /\ overwritten' = IF pc[s] # "dead_letter" /\ k \in buried
                                THEN overwritten \union {k} ELSE overwritten
    /\ Goto(s, "refresh", arg[s])
    /\ UNCHANGED created

\* refresh(): the answer is the row as it is by now.
Refresh(s) ==
    /\ pc[s] = "refresh"
    /\ \E k \in arg[s] : view' = [view EXCEPT ![s][k] = row[k]]
    /\ Goto(s, "idle", {})
    /\ UNCHANGED <<row, ghosts>>

\* The call fails or is cancelled at an await, or the caller is done: the
\* session is closed, an open transaction is rolled back.
Close(s) ==
    /\ view' = [view EXCEPT ![s] = [k \in Keys |-> NoRow]]
    /\ Goto(s, "idle", {})
    /\ UNCHANGED <<row, ghosts>>

Next ==
    \E s \in Sessions :
        \/ \E k \in Keys : Flush(s, k) \/ \E m \in Marks : Get(s, k, m)
        \/ \E K \in (SUBSET Keys) \ {{}} : BatchInsert(s, K)
        \/ CommitInsert(s) \/ CreatedAnswered(s) \/ SelectExisting(s)
        \/ CommitMark(s) \/ Refresh(s)
        \/ Close(s)

Spec == Init /\ [][Next]_vars

-----------------------------------------------------------------------------
TypeOK ==
    /\ row \in [Keys -> Row \union {NoRow}]
    /\ view \in [Sessions -> [Keys -> Row \union {NoRow}]]
    /\ pc \in [Sessions -> Marks \union {"idle", "flushed", "batched", "created",
                                         "conflict", "refresh"}]
    /\ arg \in [Sessions -> SUBSET Keys]
    /\ created \in [Keys -> Nat]
    /\ begun \in [Keys -> Nat]
    /\ stale \in SUBSET Keys
    /\ buried \in SUBSET Keys
    /\ overwritten \in SUBSET Keys

\* "If the same event arrives twice, only one ProcessedEvent row is created;
\* subsequent calls return the existing row": however creates of a key
\* overlap, fail and are retried, at most one is told it created the row,
\* and a call that lost finds the winner's row.
CreatedOnce ==
    /\ \A k \in Keys : created[k] <= 1
    /\ \A s \in Sessions : pc[s] \in {"conflict", "created"} => \A k \in arg[s] : Exists(k)

\* processing_attempts counts the calls of mark_event_processing exactly as
\* long as no mark was computed from an outdated copy, and never counts more:
\* the read-modify-write only loses increments.
AttemptsCounted ==
    \A k \in Keys : Exists(k) =>
        /\ row[k].attempts <= begun[k]
        /\ k \notin stale => row[k].attempts = begun[k]

\* The two traces of a dead letter, the flag get_dlq_events selects by and
\* the status get_events_by_status selects by.  The flag is set exactly on the
\* events with a committed mark_event_dlq, whatever late or outdated marks
\* follow.  The status is weaker: it never reads "dead_letter" without the
\* flag, and it stops reading so only when a later mark of the event overwrote
\* it (nothing in mark_event_completed or _failed looks at the flag).
DeadLettersAccounted ==
    \A k \in Keys : Exists(k) =>
        /\ row[k].dlq <=> k \in buried
        /\ row[k].status = "dead_letter" => row[k].dlq
        /\ row[k].dlq /\ row[k].status # "dead_letter" => k \in overwritten
=============================================================================
