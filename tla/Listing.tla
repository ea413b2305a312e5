------------------------------- MODULE Listing -------------------------------
(***************************************************************************)
(* Clients that page through the records while other requests insert,      *)
(* patch and archive them: by offset (GET /records, crud.get_records) and  *)
(* by cursor (GET /v2/records/cursor, crud.get_records_cursor_paginated).  *)
(*                                                                         *)
(* The table is PostgreSQL's (external, READ COMMITTED): every statement   *)
(* sees what is committed when it runs.  Ids come from a sequence, but the *)
(* transactions that drew them commit in any order, so a smaller id may    *)
(* become visible later.  A client asks for one page after the other until *)
(* it is told that there is no more.                                       *)
(*                                                                         *)
(* Left out: the source filter, which narrows both queries alike, and the  *)
(* columns that no query looks at.                                         *)
(***************************************************************************)
EXTENDS Integers, FiniteSets

CONSTANTS
    Sessions,       \* the scans and the index requests of a behaviour
    MaxId,          \* bound: ids 1..MaxId
    Times,          \* the timestamps a record may have, natural numbers
    MaxVersion,     \* bound: a record is patched at most MaxVersion - 1 times
    MaxWrites,      \* bound: writes after the start
    Limit           \* limit, the size of a page

ASSUME ListingAssumption ==
    /\ MaxId \in Nat
    /\ Times \subseteq Nat
    /\ MaxVersion \in Nat \ {0}
    /\ MaxWrites \in Nat
    /\ Limit \in Nat \ {0}

Ids == 1..MaxId
Absent == [state |-> "absent", at |-> 0, ver |-> 0]
New(t) == [state |-> "active", at |-> t, ver |-> 1]
NoCursor == <<>>

VARIABLES
    row,        \* the table
    writes,     \* writes so far
    mode,       \* what a session does: new, cursor, count, page, ended, ...
    cursor,     \* the decoded next_cursor: <<timestamp, id>>
    skip,       \* offset of the next page
    total,      \* what the count query returned
    shown,      \* ids shown to the client so far
    again,      \* those among them that were shown more than once
    received,   \* how many rows the client got, repetitions included
    steady,     \* ghost: ids active, and not restamped, since the scan began
    moved       \* ghost: rows that came or went in front of others meanwhile

seenVars == <<shown, again, received>>
scanVars == <<cursor, skip, total, seenVars>>
ghostVars == <<steady, moved>>
listingVars == <<row, writes, mode, scanVars, ghostVars>>

Active == {i \in Ids : row[i].state = "active"}

\* The table holds what earlier requests left.
ListingInit ==
    /\ row \in [Ids -> {Absent} \union {New(t) : t \in Times}]
    /\ writes = 0
    /\ mode = [s \in Sessions |-> "new"]
    /\ cursor = [s \in Sessions |-> NoCursor]
    /\ skip = [s \in Sessions |-> 0]
    /\ total = [s \in Sessions |-> 0]
    /\ shown = [s \in Sessions |-> {}]
    /\ again = [s \in Sessions |-> {}]
    /\ received = [s \in Sessions |-> 0]
    /\ steady = [s \in Sessions |-> {}]
    /\ moved = [s \in Sessions |-> 0]

-----------------------------------------------------------------------------
(* The writers: what their commits do to the table. *)

Write == writes < MaxWrites /\ writes' = writes + 1
Scanning == {s \in Sessions : mode[s] \in {"cursor", "count", "page"}}
Shifted == [s \in Sessions |-> moved[s] + IF s \in Scanning THEN 1 ELSE 0]
Without(i) == [s \in Sessions |-> steady[s] \ {i}]

\* create_record and the batch endpoints.
Insert(i, t) ==
    /\ Write
    /\ row[i] = Absent
    /\ row' = [row EXCEPT ![i] = New(t)]
    /\ moved' = IF \E j \in Active : j > i THEN Shifted ELSE moved
    /\ UNCHANGED <<mode, scanVars, steady>>

\* PATCH: a record's data changes, and its timestamp if one is given.
Patch(i, t) ==
    /\ Write
    /\ i \in Active
    /\ row[i].ver < MaxVersion
    /\ row' = [row EXCEPT ![i].at = t, ![i].ver = @ + 1]
    /\ steady' = IF t = row[i].at THEN steady ELSE Without(i)
    /\ UNCHANGED <<mode, scanVars, moved>>

\* Archiving and deleting take the record out of every query.
Archive(i) ==
    /\ Write
    /\ i \in Active
    /\ row' = [row EXCEPT ![i].state = "archived"]
    /\ steady' = Without(i)
    /\ moved' = Shifted
    /\ UNCHANGED <<mode, scanVars>>

-----------------------------------------------------------------------------
(* The readers *)

Before(k, l) == k[1] < l[1] \/ (k[1] = l[1] /\ k[2] < l[2])
Key(i) == <<row[i].at, i>>

\* A page is the set of its ids: the order within a page is the query's.
Show(s, page) ==
    /\ shown' = [shown EXCEPT ![s] = @ \union page]
    /\ again' = [again EXCEPT ![s] = @ \union (page \intersect shown[s])]
    /\ received' = [received EXCEPT ![s] = @ + Cardinality(page)]

\* The client asks for its first page, without a cursor or with one that
\* cannot be decoded, which has the same effect.
BeginScan(s, how) ==
    /\ mode[s] = "new"
    /\ mode' = [mode EXCEPT ![s] = how]
    /\ steady' = [steady EXCEPT ![s] = Active]
    /\ UNCHANGED <<row, writes, scanVars, moved>>

\* The active records after the cursor.
BeyondStamp(c) == {i \in Active : c = NoCursor \/ row[i].at > c[1]}
Beyond(c) == {i \in Active : c = NoCursor \/ Before(c, Key(i))}

\* ORDER BY timestamp, id LIMIT n of the rows in S.
KeyRank(S, i) == Cardinality({j \in S : Before(Key(j), Key(i))})
FirstByKey(S, n) == {i \in S : KeyRank(S, i) < n}

\* get_records_cursor_paginated: one query for Limit + 1 rows, of which the
\* last one only tells that there are more.
CursorPage(s) ==
    /\ mode[s] = "cursor"
    /\ LET rest == Beyond(cursor[s])
           page == FirstByKey(rest, Limit)
       IN  /\ Show(s, page)
           /\ IF Cardinality(rest) > Limit
              THEN \E last \in page :
                      /\ \A i \in page \ {last} : Before(Key(i), Key(last))
                      /\ cursor' = [cursor EXCEPT ![s] = Key(last)]
                      /\ UNCHANGED mode
              ELSE mode' = [mode EXCEPT ![s] = "ended"] /\ UNCHANGED cursor
    /\ UNCHANGED <<row, writes, skip, total, ghostVars>>

\* get_records, first statement.
CountRows(s) ==
    /\ mode[s] = "count"
    /\ total' = [total EXCEPT ![s] = Cardinality(Active)]
    /\ mode' = [mode EXCEPT ![s] = "page"]
    /\ UNCHANGED <<row, writes, cursor, skip, seenVars, ghostVars>>

\* has_more of list_records.
HasMoreShort(s) == skip[s] + Limit + 1 < total[s]
HasMore(s) == skip[s] + Limit < total[s]

\* The number of rows in front of i by ORDER BY id.
IdRank(i) == Cardinality({j \in Active : j < i})

\* get_records, second statement (OFFSET skip LIMIT Limit), and the client's next request.
PageRows(s) ==
    /\ mode[s] = "page"
    /\ Show(s, {i \in Active : IdRank(i) \in skip[s]..(skip[s] + Limit - 1)})
    /\ IF HasMore(s)
       THEN /\ skip' = [skip EXCEPT ![s] = @ + Limit]
            /\ mode' = [mode EXCEPT ![s] = "count"]
       ELSE mode' = [mode EXCEPT ![s] = "offsetEnded"] /\ UNCHANGED skip
    /\ UNCHANGED <<row, writes, cursor, total, ghostVars>>

WriteStep ==
    \E i \in Ids : Archive(i) \/ \E t \in Times : Insert(i, t) \/ Patch(i, t)

ScanStep(s) ==
    \/ \E how \in {"cursor", "count"} : BeginScan(s, how)
    \/ CursorPage(s) \/ CountRows(s) \/ PageRows(s)

-----------------------------------------------------------------------------
\* Paging by cursor shows every record that stays active with its timestamp
\* exactly once, however many others are inserted, archived or restamped in
\* front of and behind the cursor meanwhile, ties of timestamps included.
CursorExact ==
    \A s \in Sessions :
        /\ mode[s] \in {"cursor", "ended"} => steady[s] \intersect again[s] = {}
        /\ mode[s] = "ended" => steady[s] \subseteq shown[s]

\* Paging by offset costs at most one record missed or shown twice for each
\* record that was archived, or inserted below another, during the scan,
\* although the total and the page are two statements.
OffsetDrift ==
    \A s \in Sessions :
        mode[s] = "offsetEnded" =>
            /\ Cardinality(steady[s] \ shown[s]) <= moved[s]
            /\ received[s] - Cardinality(shown[s]) <= moved[s]
=============================================================================
