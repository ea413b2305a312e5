------------------------------- MODULE Upsert -------------------------------
(***************************************************************************)
(* POST /api/v2/records/upsert for one (source, timestamp) key:            *)
(* upsert_record of crud.py, an optimistic INSERT that falls back to a     *)
(* SELECT, under concurrent upserts of the key and under archives, deletes *)
(* and PATCHes of any row.  A PATCH may change source and timestamp, so it *)
(* moves a row off the key or onto it.                                     *)
(*                                                                         *)
(* PostgreSQL is external: the unique constraint covers archived rows too  *)
(* (it is not partial), so at most one row holds the key; an INSERT or     *)
(* UPDATE that would give the key to a second row waits while the INSERT   *)
(* of another transaction is undecided and is rejected if a row holds it.  *)
(***************************************************************************)
EXTENDS Integers

CONSTANTS
    Clients,    \* clients, each with one request at a time
    NoClient,
    Others,     \* how many rows there are under other keys at the start
    MaxId       \* bound: the largest id of a row

ASSUME UpsertAssumption ==
    NoClient \notin Clients /\ Others \in Nat /\ MaxId \in Nat /\ Others <= MaxId

VARIABLES
    rows,       \* the rows by id: "none" until one is committed
    holder,     \* the id of the row that holds the key, or 0
    inserter,   \* the client whose INSERT of the key is not committed
    nextId,     \* the sequence of records.id
    pc,         \* the await a request is at
    mine,       \* the id of the row a request inserted
    mode,       \* UPSERT_MODE of a client's request
    reply,      \* its last reply: [status, id]
    created,    \* ghost: how many 201 replies each id got
    moved       \* ghost: ids of the rows a PATCH took off the key

table == <<rows, holder, moved>>
vars == <<table, inserter, nextId, pc, mine, mode, reply, created>>

Ids == 1..MaxId
Modes == {"idempotent", "strict"}

Present(i) == i \in Ids /\ rows[i] \in {"active", "archived"}
Active(i) == i \in Ids /\ rows[i] = "active"

Init ==
    /\ rows = [i \in Ids |-> IF i <= Others THEN "active" ELSE "none"]
    /\ holder = 0
    /\ inserter = NoClient
    /\ nextId = Others + 1
    /\ pc = [c \in Clients |-> "idle"]
    /\ mine = [c \in Clients |-> 0]
    /\ mode = [c \in Clients |-> "idempotent"]
    /\ reply = [c \in Clients |-> [status |-> 0, id |-> 0]]
    /\ created = [i \in Ids |-> 0]
    /\ moved = {}

Goto(c, label) == pc' = [pc EXCEPT ![c] = label]

Reply(c, status, id) ==
    /\ Goto(c, "idle")
    /\ reply' = [reply EXCEPT ![c] = [status |-> status, id |-> id]]

\* session.flush: the INSERT.  With a row present it raises IntegrityError and
\* is rolled back; while another INSERT is undecided it waits (no step).
Flush(c, m) ==
    /\ pc[c] = "idle"
    /\ inserter = NoClient
    /\ mode' = [mode EXCEPT ![c] = m]
    /\ \/ /\ holder = 0
          /\ nextId <= MaxId
          /\ inserter' = c
          /\ mine' = [mine EXCEPT ![c] = nextId]
          /\ nextId' = nextId + 1
          /\ Goto(c, "committing")
       \/ /\ holder # 0
          /\ Goto(c, "selecting")
          /\ UNCHANGED <<inserter, mine, nextId>>
    /\ UNCHANGED <<table, reply, created>>

Store(c) ==
    /\ rows' = [rows EXCEPT ![mine[c]] = "active"]
    /\ holder' = mine[c]
    /\ UNCHANGED moved

Commit(c) ==
    /\ pc[c] = "committing"
    /\ Store(c)
    /\ inserter' = NoClient
    /\ Goto(c, "refreshing")
    /\ UNCHANGED <<nextId, mine, mode, reply, created>>

\* The database fails at the commit, which may have happened.
CommitFails(c) ==
    /\ pc[c] = "committing"
    /\ Store(c) \/ UNCHANGED table
    /\ inserter' = NoClient
    /\ Reply(c, 500, 0)
    /\ UNCHANGED <<nextId, mine, mode, created>>

\* session.refresh, by primary key: it raises if the row was deleted, and
\* finds it under whatever key it has by now.
Refresh(c) ==
    /\ pc[c] = "refreshing"
    /\ IF Present(mine[c])
       THEN /\ Reply(c, 201, mine[c])
            /\ created' = [created EXCEPT ![mine[c]] = @ + 1]
       ELSE Reply(c, 500, 0) /\ UNCHANGED created
    /\ UNCHANGED <<table, inserter, nextId, mine, mode>>

\* The database fails at the INSERT, the refresh or the SELECT.
StatementFails(c) ==
    /\ pc[c] \in {"idle", "refreshing", "selecting"}
    /\ Reply(c, 500, 0)
    /\ UNCHANGED <<table, inserter, nextId, mine, mode, created>>

\* The SELECT asks for an active row; the assertion fails if there is none.
SelectInserted(c) ==
    /\ pc[c] = "selecting"
    /\ IF Active(holder)
       THEN /\ Reply(c, 201, holder)
            /\ created' = [created EXCEPT ![holder] = @ + 1]
       ELSE Reply(c, 500, 0) /\ UNCHANGED created
    /\ UNCHANGED <<table, inserter, nextId, mine, mode>>
SelectById(c) ==
    /\ pc[c] = "selecting"
    /\ IF Active(holder)
       THEN Reply(c, IF mode[c] = "strict" THEN 409 ELSE 200, mine[c])
       ELSE Reply(c, 500, 0)
    /\ UNCHANGED <<table, inserter, nextId, mine, mode, created>>
SelectExisting(c) ==
    /\ pc[c] = "selecting"
    /\ IF Active(holder)
       THEN Reply(c, IF mode[c] = "strict" THEN 409 ELSE 200, holder)
       ELSE Reply(c, 500, 0)
    /\ UNCHANGED <<table, inserter, nextId, mine, mode, created>>

-----------------------------------------------------------------------------
(* What other requests do to the rows, at their commits. *)

requests == <<inserter, nextId, pc, mine, mode, reply, created>>

\* soft_delete_record: the row keeps its key.
Archive(i) ==
    /\ Active(i)
    /\ rows' = [rows EXCEPT ![i] = "archived"]
    /\ UNCHANGED <<holder, moved, requests>>

Delete(i) ==
    /\ Present(i)
    /\ rows' = [rows EXCEPT ![i] = "deleted"]
    /\ holder' = IF holder = i THEN 0 ELSE holder
    /\ UNCHANGED <<moved, requests>>

\* update_record with a new source or timestamp, of an archived row too.  If
\* it would give the key to a second row it fails and changes nothing.
PatchAway(i) ==
    /\ Present(i)
    /\ holder = i
    /\ holder' = 0
    /\ moved' = moved \union {i}
    /\ UNCHANGED <<rows, requests>>

PatchOnto(i) ==
    /\ Present(i)
    /\ holder = 0
    /\ inserter = NoClient
    /\ holder' = i
    /\ UNCHANGED <<rows, moved, requests>>

Proceed(c) == Commit(c) \/ Refresh(c) \/ SelectExisting(c)

Next ==
    \/ \E c \in Clients, m \in Modes : Flush(c, m)
    \/ \E c \in Clients : Proceed(c)
    \/ \E c \in Clients : CommitFails(c) \/ StatementFails(c)
    \/ \E i \in Ids : Archive(i) \/ Delete(i) \/ PatchAway(i) \/ PatchOnto(i)

Spec == Init /\ [][Next]_vars

-----------------------------------------------------------------------------
TypeOK ==
    /\ rows \in [Ids -> {"none", "active", "archived", "deleted"}]
    /\ holder \in 0..MaxId
    /\ inserter \in Clients \cup {NoClient}
    /\ nextId \in 1..(MaxId + 1)
    /\ pc \in [Clients -> {"idle", "committing", "refreshing", "selecting"}]
    /\ mine \in [Clients -> 0..MaxId]
    /\ mode \in [Clients -> Modes]
    /\ reply \in [Clients -> [status : {0, 200, 201, 409, 500}, id : 0..MaxId]]
    /\ created \in [Ids -> Nat]
    /\ moved \in SUBSET Ids

\* Of all overlapping and repeated upserts at most one is told that it created
\* a given row, and nobody is told so of a row that was never committed.
CreatedOnce == \A i \in Ids : created[i] <= 1 /\ (created[i] = 1 => rows[i] # "none")

\* The answers name the row of the key, as far as the code sees to it: a row
\* named by 201, 200 or 409 is in the table when the answer is given, however
\* rows were deleted and inserted again in between; 200 and 409 name the
\* active row that holds the key; and 201 names it unless a PATCH has taken
\* the new row off the key before the refresh, which goes by primary key.
SameRow ==
    [][\A c \in Clients :
          (pc[c] # "idle" /\ pc'[c] = "idle" /\ reply'[c].status \in {200, 201, 409})
          => LET i == reply'[c].id
             IN  /\ Present(i)
                 /\ i = holder \/ (reply'[c].status = 201 /\ i \in moved)
                 /\ reply'[c].status # 201 => Active(i)]_vars
=============================================================================
