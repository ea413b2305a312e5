---------------------------- MODULE RecordCache ----------------------------
(***************************************************************************)
(* One record behind the read cache: the handlers of routers/records.py    *)
(* that read or write it by id, the operations of crud.py they await, and  *)
(* cache.py.  A step is the code between two awaits.                       *)
(*                                                                         *)
(* The row is its deletion state and a version, which stands for all other *)
(* columns: a commit that changes one of them makes a new version.  What a *)
(* GET shows of the record (a RecordResponse) is the version it was made   *)
(* from; Hidden stands for no record, no cache entry and the 404.          *)
(*                                                                         *)
(* PostgreSQL and Redis are external.  Either may fail at any call; Redis  *)
(* failures are swallowed by cache.py (fail-open), and a command that      *)
(* fails may still have been executed.                                     *)
(***************************************************************************)
EXTENDS Integers

CONSTANTS
    Clients,    \* clients of the API, each with one request at a time
    Ops,        \* the writes they send
    MaxWrites,  \* bound: writes in a behaviour
    MaxFaults   \* bound: failures of PostgreSQL or Redis

AllOps == {"update", "process", "archive", "delete"}

ASSUME RecordCacheAssumption ==
    /\ Ops \subseteq AllOps
    /\ MaxWrites \in Nat /\ MaxFaults \in Nat

VARIABLES
    row,        \* [status, version] in PostgreSQL
    cache,      \* the entry in Redis: a version, or Hidden
    pc,         \* the await a client's request is at, "idle" for no request
    op,         \* the write a client sent last
    val,        \* what the request holds: the version read or committed
    floor,      \* ghost: what was acknowledged when a client's GET began
    answer,     \* ghost: the last answer to a client's GET, and whether it was
                \* a hit while the entry had a cause to be stale
    acked,      \* ghost: [version, hidden] of the acknowledged writes
    cause,      \* ghost: why the entry may be stale, beyond a pending write
    writes,     \* writes so far
    faults      \* failures so far

request == <<pc, op, val>>
ghosts == <<floor, answer, acked, cause>>
vars == <<row, cache, pc, op, val, floor, answer, acked, cause, writes, faults>>

Hidden == 0
NoAnswer == [value |-> Hidden, excused |-> TRUE]

\* The record a SELECT with deleted_at IS NULL returns.
View(r) == IF r.status = "active" THEN r.version ELSE Hidden

Stale == cache # Hidden /\ cache # View(row)

Fault ==
    /\ faults < MaxFaults
    /\ faults' = faults + 1

-----------------------------------------------------------------------------
Init ==
    /\ row = [status |-> "active", version |-> 1]
    /\ cache = Hidden
    /\ pc = [c \in Clients |-> "idle"]
    /\ op = [c \in Clients |-> "update"]
    /\ val = [c \in Clients |-> Hidden]
    /\ acked = [version |-> 1, hidden |-> FALSE]
    /\ floor = [c \in Clients |-> acked]
    /\ answer = [c \in Clients |-> NoAnswer]
    /\ cause = {}
    /\ writes = 0
    /\ faults = 0

Goto(c, label) == pc' = [pc EXCEPT ![c] = label]
Answer(c, v, excused) ==
    answer' = [answer EXCEPT ![c] = [value |-> v, excused |-> excused]]

-----------------------------------------------------------------------------
(* GET /{record_id} *)

BeginGet(c) ==
    /\ pc[c] = "idle"
    /\ floor' = [floor EXCEPT ![c] = acked]

\* A hit is answered from the cache alone.
HitRenewing(c) ==
    /\ BeginGet(c)
    /\ cache # Hidden
    /\ val' = [val EXCEPT ![c] = cache]
    /\ Goto(c, "filling")
    /\ UNCHANGED <<row, cache, op, acked, cause, answer, writes, faults>>
Hit(c) ==
    /\ BeginGet(c)
    /\ cache # Hidden
    /\ Answer(c, cache, cause # {})
    /\ UNCHANGED <<row, cache, request, acked, cause, writes, faults>>

\* No entry, or Redis fails: the database is asked.
Miss(c) ==
    /\ BeginGet(c)
    /\ \/ cache = Hidden /\ UNCHANGED faults
       \/ Fault
    /\ answer' = [answer EXCEPT ![c] = NoAnswer]
    /\ Goto(c, "reading")
    /\ UNCHANGED <<row, cache, op, val, acked, cause, writes>>

ReadRow(c) ==
    /\ pc[c] = "reading"
    /\ IF View(row) = Hidden
       THEN Answer(c, Hidden, FALSE) /\ Goto(c, "idle") /\ UNCHANGED val
       ELSE /\ val' = [val EXCEPT ![c] = View(row)]
            /\ Goto(c, "filling")
            /\ UNCHANGED answer
    /\ UNCHANGED <<row, cache, op, floor, acked, cause, writes, faults>>

\* The query fails: status 500.
ReadFails(c) ==
    /\ pc[c] = "reading"
    /\ Fault
    /\ Goto(c, "idle")
    /\ UNCHANGED <<row, cache, op, val, ghosts, writes>>

Stored(v) ==
    /\ cache' = v
    /\ cause' = IF v = View(row) THEN {} ELSE {"race"}

\* set_record with the hour of CACHE_TTL_RECORD; the answer is what was read.
Fill(c) ==
    /\ pc[c] = "filling"
    /\ \/ Stored(val[c]) /\ UNCHANGED faults
       \/ Fault /\ (Stored(val[c]) \/ UNCHANGED <<cache, cause>>)
    /\ Answer(c, val[c], FALSE)
    /\ Goto(c, "idle")
    /\ UNCHANGED <<row, op, val, floor, acked, writes>>

-----------------------------------------------------------------------------
(* PATCH /{id}, /{id}/process, /{id}/archive and DELETE /{id}, with the
   session-protected variants of the last two. *)

\* session.get: any row but a deleted one, only archive asks for more.  With
\* no row the answer is 404 and nothing happens.
Load(c, o) ==
    /\ pc[c] = "idle"
    /\ writes < MaxWrites
    /\ row.status # "gone"
    /\ o = "archive" => row.status = "active"
    /\ op' = [op EXCEPT ![c] = o]
    /\ Goto(c, "writing")
    /\ writes' = writes + 1
    /\ UNCHANGED <<row, cache, val, ghosts, faults>>

\* The row after write o; new is false if the columns had these values.
Written(o, new) ==
    [status |-> CASE o = "archive" -> "archived"
                  [] o = "delete" -> "gone"
                  [] OTHER -> row.status,
     version |-> IF new THEN row.version + 1 ELSE row.version]

\* A write that will not invalidate the entry leaves it stale.
Uncovered(reason) ==
    cause' = IF cache # Hidden /\ cache # View(row') THEN cause \cup {reason}
                                                   ELSE cause

CommitUnseen(c, new) ==
    /\ pc[c] = "writing"
    /\ row.status # "gone"
    /\ op[c] \in {"archive", "delete"} => new
    /\ row' = Written(op[c], new)
    /\ val' = [val EXCEPT ![c] = row'.version]
    /\ IF op[c] = "delete"
       THEN /\ acked' = [version |-> acked.version, hidden |-> TRUE]
            /\ Goto(c, "idle")
       ELSE Goto(c, "refreshing") /\ UNCHANGED acked
    /\ IF op[c] \in {"update", "archive"} THEN Uncovered(op[c])
                                          ELSE UNCHANGED cause
    /\ UNCHANGED <<cache, op, floor, answer, writes, faults>>
\* The commit.  A delete is not refreshed.
Commit(c, new) ==
    /\ pc[c] = "writing"
    /\ row.status # "gone"
    /\ op[c] \in {"archive", "delete"} => new
    /\ row' = Written(op[c], new)
    /\ val' = [val EXCEPT ![c] = row'.version]
    /\ Goto(c, IF op[c] = "delete" THEN "invalidating" ELSE "refreshing")
    /\ IF op[c] \in {"update", "archive"} THEN Uncovered(op[c])
                                          ELSE UNCHANGED cause
    /\ UNCHANGED <<cache, op, floor, answer, acked, writes, faults>>

\* The row was deleted since session.get: a DELETE of no row is only warned
\* about, an UPDATE raises StaleDataError and the request fails.  A process
\* or an update with nothing to write fails at its refresh.
CommitGone(c) ==
    /\ pc[c] = "writing"
    /\ row.status = "gone"
    /\ val' = [val EXCEPT ![c] = row.version]
    /\ \/ op[c] = "delete" /\ Goto(c, "invalidating")
       \/ op[c] # "delete" /\ Goto(c, "idle")
    /\ UNCHANGED <<row, cache, op, ghosts, writes, faults>>

\* The database fails at the commit, which may have happened.
CommitFails(c, new) ==
    /\ pc[c] = "writing"
    /\ Fault
    /\ op[c] \in {"archive", "delete"} => new
    /\ row' \in {row} \cup (IF row.status = "gone" THEN {} ELSE {Written(op[c], new)})
    /\ Uncovered("lost")
    /\ Goto(c, "idle")
    /\ UNCHANGED <<cache, op, val, floor, answer, acked, writes>>

Acknowledge(c) ==
    acked' = [version |-> IF val[c] > acked.version THEN val[c] ELSE acked.version,
              hidden |-> acked.hidden \/ op[c] \in {"archive", "delete"}]

RefreshAll(c) ==
    /\ pc[c] = "refreshing"
    /\ Acknowledge(c) /\ Goto(c, "idle")
    /\ UNCHANGED <<row, cache, op, val, floor, answer, cause, writes, faults>>
\* session.refresh; it raises when the row is gone.  Of the three only
\* process_record invalidates, the others answer at once.
Refresh(c) ==
    /\ pc[c] = "refreshing"
    /\ \/ row.status = "gone" /\ Goto(c, "idle") /\ UNCHANGED acked
       \/ row.status # "gone" /\ op[c] = "process"
          /\ Goto(c, "invalidating") /\ UNCHANGED acked
       \/ row.status # "gone" /\ op[c] # "process"
          /\ Acknowledge(c) /\ Goto(c, "idle")
    /\ UNCHANGED <<row, cache, op, val, floor, answer, cause, writes, faults>>

\* The database fails at the refresh: the commit stands, the entry too.
RefreshFails(c) ==
    /\ pc[c] = "refreshing"
    /\ Fault
    /\ UNCHANGED row
    /\ Uncovered("lost")
    /\ Goto(c, "idle")
    /\ UNCHANGED <<cache, op, val, floor, answer, acked, writes>>

\* invalidate_record; if Redis fails the request succeeds nevertheless.
Invalidate(c) ==
    /\ pc[c] = "invalidating"
    /\ UNCHANGED row
    /\ \/ cache' = Hidden /\ cause' = {} /\ UNCHANGED faults
       \/ Fault /\ Uncovered("lost") /\ UNCHANGED cache
    /\ Acknowledge(c)
    /\ Goto(c, "idle")
    /\ UNCHANGED <<op, val, floor, answer, writes>>

-----------------------------------------------------------------------------
\* Redis drops the entry after its time to live.
Expire ==
    /\ cache # Hidden
    /\ cache' = Hidden
    /\ cause' = {}
    /\ UNCHANGED <<row, request, floor, answer, acked, writes, faults>>

Proceed(c) ==
    \/ ReadRow(c)
    \/ Fill(c)
    \/ \E new \in BOOLEAN : Commit(c, new)
    \/ CommitGone(c)
    \/ Refresh(c)
    \/ Invalidate(c)

Fail(c) ==
    \/ ReadFails(c)
    \/ \E new \in BOOLEAN : CommitFails(c, new)
    \/ RefreshFails(c)

Next ==
    \/ \E c \in Clients : Hit(c) \/ Miss(c)
    \/ \E c \in Clients, o \in Ops : Load(c, o)
    \/ \E c \in Clients : Proceed(c)
    \/ \E c \in Clients : Fail(c)
    \/ Expire

Spec == Init /\ [][Next]_vars

\* Requests end and entries expire.  An entry's time is only extended by a
\* GET that missed before the entry was there: a bounded number of times.
FairSpec ==
    /\ Spec
    /\ \A c \in Clients : WF_vars(Proceed(c))
    /\ WF_vars(Expire)

-----------------------------------------------------------------------------
Rows == [status : {"active", "archived", "gone"}, version : Nat \ {0}]
Acks == [version : Nat, hidden : BOOLEAN]

TypeOK ==
    /\ row \in Rows
    /\ cache \in Nat
    /\ pc \in [Clients -> {"idle", "reading", "filling", "writing", "refreshing",
                           "invalidating"}]
    /\ op \in [Clients -> AllOps]
    /\ val \in [Clients -> Nat]
    /\ floor \in [Clients -> Acks]
    /\ answer \in [Clients -> [value : Nat, excused : BOOLEAN]]
    /\ acked \in Acks
    /\ cause \subseteq {"race", "lost", "update", "archive"}
    /\ writes \in 0..MaxWrites
    /\ faults \in 0..MaxFaults

Invalidating(c) ==
    \/ pc[c] = "invalidating"
    \/ pc[c] = "refreshing" /\ op[c] = "process"

\* A stale entry of a record is about to be invalidated by the request that
\* made it stale, unless one of the known gaps let it in: a write that does
\* not invalidate (PATCH, archive), a fault, or a GET that read the row
\* before a commit and stored it after the invalidation.
StalenessHasACause == (Stale /\ cause = {}) => \E c \in Clients : Invalidating(c)

\* Outside those gaps a hit never hides an acknowledged write: the entry is at
\* least as new as every write that was answered, whatever else is pending.
EntryCoversAcknowledged ==
    (cache # Hidden /\ cause = {}) => /\ cache >= acked.version
                                      /\ ~acked.hidden

\* What clients see of it: a GET shows every write that was acknowledged
\* before it began, unless it was a hit on an entry that one of those gaps
\* had let in.  A GET that missed shows them always, however slowly it goes
\* on while others write.
GetsCoverAcknowledged ==
    \A c \in Clients : ~answer[c].excused =>
        /\ floor[c].hidden => answer[c].value = Hidden
        /\ answer[c].value # Hidden => answer[c].value >= floor[c].version

\* Once the writes have ended, the entry is fresh for good, whatever went
\* wrong: no GET brings a stale entry back after it expired.
EventuallyFresh == <>[]~Stale
=============================================================================
