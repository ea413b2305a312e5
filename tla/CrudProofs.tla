----------------------------- MODULE CrudProofs -----------------------------
(***************************************************************************)
(* Proofs about listing records and indexing them for search (Listing and  *)
(* VectorIndex), for any number of sessions, records, timestamps and       *)
(* writes and any size of a page, and about fetching (Fetching), for any   *)
(* number of requests and any page.                                        *)
(*                                                                         *)
(* None of the four invariants is inductive.  What is acknowledged needs   *)
(* that a document on its way which is older than that is already marked.  *)
(* Paging by cursor needs that a steady record was shown exactly when it   *)
(* is not beyond the cursor, and that a page is an initial part of what is *)
(* beyond it.  Paging by offset needs a potential: the records the scan    *)
(* would miss or repeat if nothing moved any more.  A write changes the    *)
(* ranks of the others by at most one, so that at most one record crosses  *)
(* the offset or the total.  A scrape needs that a browser remembers just  *)
(* what it returned and what it lost.                                      *)
(***************************************************************************)
EXTENDS VectorIndex, Fetching, FiniteSetTheorems, WellFoundedInduction, TLAPS

-----------------------------------------------------------------------------
(* Finite sets *)

LEMMA SubsetsOfIds ==
    ASSUME NEW S \in SUBSET Ids
    PROVE  IsFiniteSet(S) /\ Cardinality(S) \in Nat
<1>1. IsFiniteSet(Ids)
  BY ListingAssumption, FS_Interval DEF Ids
<1>2. IsFiniteSet(S)
  BY <1>1, FS_Subset
<1> QED BY <1>2, FS_CardinalityType

LEMMA IdsAreNumbers == Ids \subseteq Nat
BY ListingAssumption DEF Ids

LEMMA ActiveType == Active \in SUBSET Ids
BY DEF Active

-----------------------------------------------------------------------------
(* Type correctness of VectorIndex *)

RowType == [state : {"absent", "active", "archived"}, at : Times \union {0}, ver : 0..MaxVersion]
Modes == {"new", "cursor", "count", "page", "ended", "offsetEnded", "sent", "late",
          "answered"}

LEMMA IndexTypeInitially == IndexInit => IndexTypeOK
<1> SUFFICES ASSUME IndexInit PROVE IndexTypeOK
  OBVIOUS
<1>1. row \in [Ids -> RowType]
  <2>1. \A t \in Times : New(t) \in RowType
    BY ListingAssumption DEF New, RowType
  <2>2. Absent \in RowType
    BY ListingAssumption DEF Absent, RowType
  <2>3. {Absent} \union {New(t) : t \in Times} \subseteq RowType
    BY <2>1, <2>2
  <2> QED BY <2>3 DEF IndexInit, ListingInit
<1>2. Nothing \in [Ids -> 0..MaxVersion]
  BY ListingAssumption DEF Nothing
<1> QED BY <1>1, <1>2, ListingAssumption DEF IndexInit, ListingInit, IndexTypeOK, RowType

LEMMA TableType ==
    ASSUME NEW table \in [Ids -> RowType], NEW i \in Ids
    PROVE  table[i] \in RowType /\ table[i].at \in Nat /\ table[i].ver \in 0..MaxVersion
<1>1. table[i].at \in Times \union {0} /\ table[i].ver \in 0..MaxVersion
  BY DEF RowType
<1>2. Times \union {0} \subseteq Nat
  BY ListingAssumption
<1> QED BY <1>1, <1>2

LEMMA RowTypes ==
    ASSUME IndexTypeOK, NEW i \in Ids
    PROVE  row[i] \in RowType /\ row[i].at \in Nat /\ row[i].ver \in 0..MaxVersion
<1>1. row \in [Ids -> RowType]
  BY DEF IndexTypeOK, RowType
<1> QED BY <1>1, TableType

\* A write to record i.
WritesTo(i) == Archive(i) \/ \E t \in Times : Insert(i, t) \/ Patch(i, t)

LEMMA WriteFacts ==
    ASSUME NEW i \in Ids, WritesTo(i)
    PROVE  /\ Write
           /\ steady' = steady \/ steady' = Without(i)
           /\ moved' = moved \/ moved' = Shifted
           /\ UNCHANGED <<mode, scanVars>>
<1>1. CASE Archive(i)
  BY <1>1 DEF Archive
<1>2. ASSUME NEW t \in Times, Insert(i, t)
      PROVE  Write /\ steady' = steady /\ (moved' = moved \/ moved' = Shifted) /\ UNCHANGED <<mode, scanVars>>
  BY <1>2 DEF Insert
<1>3. ASSUME NEW t \in Times, Patch(i, t)
      PROVE  Write /\ (steady' = steady \/ steady' = Without(i)) /\ moved' = moved /\ UNCHANGED <<mode, scanVars>>
  BY <1>3 DEF Patch
<1> QED BY <1>1, <1>2, <1>3 DEF WritesTo

LEMMA WriteType ==
    ASSUME IndexTypeOK, NEW i \in Ids, WritesTo(i), UNCHANGED indexVars
    PROVE  IndexTypeOK'
<1>1. writes' \in 0..MaxWrites
  BY WriteFacts, ListingAssumption DEF Write, IndexTypeOK
<1>2. row' \in [Ids -> RowType]
  <2>1. row \in [Ids -> RowType] /\ row[i] \in RowType
    BY DEF IndexTypeOK, RowType
  <2>2. CASE Archive(i)
    <3>1. [row[i] EXCEPT !.state = "archived"] \in RowType
      BY <2>1 DEF RowType
    <3>2. row' = [row EXCEPT ![i] = [row[i] EXCEPT !.state = "archived"]]
      BY <2>1, <2>2 DEF Archive
    <3> QED BY <2>1, <3>1, <3>2
  <2>3. ASSUME NEW t \in Times, Insert(i, t) PROVE row' \in [Ids -> RowType]
    <3>1. New(t) \in RowType
      BY ListingAssumption DEF New, RowType
    <3> QED BY <2>1, <2>3, <3>1 DEF Insert
  <2>4. ASSUME NEW t \in Times, Patch(i, t) PROVE row' \in [Ids -> RowType]
    <3>1. row[i].ver + 1 \in 0..MaxVersion
      BY <2>1, <2>4, ListingAssumption DEF Patch, RowType
    <3>2. [row[i] EXCEPT !.at = t, !.ver = @ + 1] \in RowType
      BY <2>1, <3>1 DEF RowType
    <3>3. row' = [row EXCEPT ![i] = [row[i] EXCEPT !.at = t, !.ver = @ + 1]]
      BY <2>1, <2>4 DEF Patch
    <3> QED BY <2>1, <3>2, <3>3
  <2> QED BY <2>2, <2>3, <2>4 DEF WritesTo
<1>3. steady' \in [Sessions -> SUBSET Ids]
  <2>1. Without(i) \in [Sessions -> SUBSET Ids] /\ steady \in [Sessions -> SUBSET Ids]
    BY DEF IndexTypeOK, Without
  <2> QED BY <2>1, WriteFacts
<1>4. moved' \in [Sessions -> Nat]
  <2>1. Shifted \in [Sessions -> Nat] /\ moved \in [Sessions -> Nat]
    BY DEF IndexTypeOK, Shifted
  <2> QED BY <2>1, WriteFacts
<1>5. UNCHANGED <<mode, scanVars, indexVars>>
  BY WriteFacts
<1> QED BY <1>1, <1>2, <1>3, <1>4, <1>5 DEF IndexTypeOK, scanVars, seenVars, indexVars, RowType

LEMMA ShowType ==
    ASSUME IndexTypeOK, NEW s \in Sessions, NEW page \in SUBSET Ids, Show(s, page)
    PROVE  /\ shown' \in [Sessions -> SUBSET Ids]
           /\ again' \in [Sessions -> SUBSET Ids]
           /\ received' \in [Sessions -> Nat]
BY SubsetsOfIds DEF Show, IndexTypeOK

LEMMA ScanType ==
    ASSUME IndexTypeOK, NEW s \in Sessions, ScanStep(s), UNCHANGED indexVars
    PROVE  IndexTypeOK'
<1> USE DEF indexVars
<1>1. CASE \E how \in {"cursor", "count"} : BeginScan(s, how)
  BY <1>1, ActiveType DEF BeginScan, IndexTypeOK, scanVars, seenVars
<1>2. CASE CursorPage(s)
  <2> DEFINE page == FirstByKey(Beyond(cursor[s]), Limit)
  <2>1. page \in SUBSET Ids
    BY DEF FirstByKey, Beyond, Active
  <2>2. Show(s, page)
    BY <1>2 DEF CursorPage
  <2>3. \A i \in Ids : Key(i) \in Nat \X Ids
    BY RowTypes DEF Key
  <2>4. /\ cursor' \in [Sessions -> {NoCursor} \union (Nat \X Ids)]
        /\ mode' \in [Sessions -> Modes]
    <3>1. /\ cursor \in [Sessions -> {NoCursor} \union (Nat \X Ids)]
          /\ mode \in [Sessions -> Modes]
      BY DEF IndexTypeOK, Modes
    <3>2. CASE UNCHANGED cursor /\ mode' = [mode EXCEPT ![s] = "ended"]
      BY <3>1, <3>2 DEF Modes
    <3>3. CASE \E last \in page : cursor' = [cursor EXCEPT ![s] = Key(last)] /\ UNCHANGED mode
      BY <2>1, <2>3, <3>1, <3>3
    <3> QED BY <1>2, <3>2, <3>3 DEF CursorPage
  <2> QED BY <1>2, <2>1, <2>2, <2>4, ShowType DEF CursorPage, IndexTypeOK, ghostVars, Modes
<1>3. CASE CountRows(s)
  <2>1. Cardinality(Active) \in Nat
    BY ActiveType, SubsetsOfIds
  <2> QED BY <1>3, <2>1 DEF CountRows, IndexTypeOK, seenVars, ghostVars
<1>4. CASE PageRows(s)
  <2> DEFINE page == {i \in Active : IdRank(i) \in skip[s]..(skip[s] + Limit - 1)}
  <2>1. page \in SUBSET Ids
    BY DEF Active
  <2>2. Show(s, page)
    BY <1>4 DEF PageRows
  <2>3. skip' \in [Sessions -> Nat]
    <3>1. skip \in [Sessions -> Nat] /\ Limit \in Nat
      BY ListingAssumption DEF IndexTypeOK
    <3>2. skip' = [skip EXCEPT ![s] = @ + Limit] \/ skip' = skip
      BY <1>4 DEF PageRows
    <3> QED BY <3>1, <3>2
  <2>4. mode' \in [Sessions -> Modes]
    BY <1>4 DEF PageRows, IndexTypeOK, Modes
  <2> QED BY <1>4, <2>1, <2>2, <2>3, <2>4, ShowType DEF PageRows, IndexTypeOK, ghostVars, Modes
<1> QED BY <1>1, <1>2, <1>3, <1>4 DEF ScanStep

LEMMA DocumentsType ==
    ASSUME IndexTypeOK, NEW ids
    PROVE  Documents(ids) \in [Ids -> 0..MaxVersion]
BY RowTypes, ListingAssumption DEF Documents

LEMMA UpsertedType ==
    ASSUME IndexTypeOK, NEW d \in [Ids -> 0..MaxVersion]
    PROVE  Upserted(d) \in [Ids -> 0..MaxVersion]
BY DEF Upserted, IndexTypeOK

LEMMA NothingType == Nothing \in [Ids -> 0..MaxVersion]
BY ListingAssumption DEF Nothing

\* The steps of VectorIndex, one case for each.
LEMMA IndexSteps ==
    ASSUME IndexNext
    PROVE  \/ \E i \in Ids : WritesTo(i) /\ UNCHANGED indexVars
           \/ \E s \in Sessions : ScanStep(s) /\ UNCHANGED indexVars
           \/ \E s \in Sessions, ids \in SUBSET Active : SendToGateway(s, ids)
           \/ \E s \in Sessions : \/ GatewayIndexes(s) \/ GatewayFails(s)
                                 \/ GiveUp(s) \/ LateIndex(s)
<1>1. \A ids \in SUBSET Ids : ids \intersect Active \in SUBSET Active
  OBVIOUS
<1> QED BY <1>1 DEF IndexNext, WriteStep, WritesTo, IndexRecords, IndexRecent, Newest

LEMMA IndexTypeInductive == IndexTypeOK /\ [IndexNext]_allVars => IndexTypeOK'
<1> SUFFICES ASSUME IndexTypeOK, [IndexNext]_allVars PROVE IndexTypeOK'
  OBVIOUS
<1>1. CASE \E i \in Ids : WritesTo(i) /\ UNCHANGED indexVars
  BY <1>1, WriteType
<1>2. ASSUME NEW s \in Sessions, LateIndex(s) PROVE IndexTypeOK'
  <2>1. Upserted(docs[s]) \in [Ids -> 0..MaxVersion]
    BY UpsertedType DEF IndexTypeOK
  <2>2. docs' \in [Sessions -> [Ids -> 0..MaxVersion]]
    BY <1>2, NothingType DEF LateIndex, IndexTypeOK
  <2>3. mode' \in [Sessions -> Modes]
    BY <1>2 DEF LateIndex, IndexTypeOK, Modes
  <2> QED BY <1>2, <2>1, <2>2, <2>3 DEF LateIndex, IndexTypeOK, Modes, scanVars, seenVars, ghostVars
<1>3. CASE \E s \in Sessions : ScanStep(s) /\ UNCHANGED indexVars
  BY <1>3, ScanType
<1>4. CASE \E s \in Sessions, ids \in SUBSET Active : SendToGateway(s, ids)
  BY <1>4, DocumentsType DEF SendToGateway, IndexTypeOK, scanVars, seenVars, ghostVars
<1>5. ASSUME NEW s \in Sessions, GatewayIndexes(s) PROVE IndexTypeOK'
  <2>1. docs[s] \in [Ids -> 0..MaxVersion] /\ Upserted(docs[s]) \in [Ids -> 0..MaxVersion]
    BY UpsertedType DEF IndexTypeOK
  <2>2. acked' \in [Ids -> 0..MaxVersion]
    BY <1>5, <2>1 DEF GatewayIndexes, Acknowledge, IndexTypeOK
  <2>3. raced' \in SUBSET Ids
    BY <1>5 DEF GatewayIndexes, Acknowledge, Overtakes, IndexTypeOK
  <2>4. docs' \in [Sessions -> [Ids -> 0..MaxVersion]]
    BY <1>5, NothingType DEF GatewayIndexes, Acknowledge, IndexTypeOK
  <2> QED BY <1>5, <2>1, <2>2, <2>3, <2>4 DEF GatewayIndexes, Acknowledge, IndexTypeOK, scanVars, seenVars, ghostVars
<1>6. ASSUME NEW s \in Sessions, GatewayFails(s) \/ GiveUp(s) PROVE IndexTypeOK'
  <2>1. docs' \in [Sessions -> [Ids -> 0..MaxVersion]]
    <3>1. docs \in [Sessions -> [Ids -> 0..MaxVersion]]
      BY DEF IndexTypeOK
    <3>2. docs' = [docs EXCEPT ![s] = Nothing] \/ docs' = docs
      BY <1>6 DEF GatewayFails, GiveUp, indexVars
    <3> QED BY <3>1, <3>2, NothingType
  <2>2. mode' \in [Sessions -> Modes]
    BY <1>6 DEF GatewayFails, GiveUp, IndexTypeOK, Modes
  <2>3. UNCHANGED <<row, writes, scanVars, ghostVars, index, acked, raced>>
    BY <1>6 DEF GatewayFails, GiveUp, indexVars
  <2> QED BY <2>1, <2>2, <2>3 DEF IndexTypeOK, Modes, scanVars, seenVars, ghostVars
<1>7. CASE UNCHANGED allVars
  BY <1>7 DEF allVars, listingVars, indexVars, IndexTypeOK, scanVars, seenVars, ghostVars
<1> QED BY <1>1, <1>2, <1>3, <1>4, <1>5, <1>6, <1>7, IndexSteps

-----------------------------------------------------------------------------
(* What was acknowledged is indexed *)

\* No document is newer than its record, and one that is older than what was
\* acknowledged overtook it, or is about to.
VersionInv ==
    \A i \in Ids :
        /\ index[i] <= row[i].ver
        /\ acked[i] <= row[i].ver
        /\ \A e \in OnTheWay : e[i] <= row[i].ver
        /\ \A e \in OnTheWay : e[i] # 0 /\ e[i] < acked[i] => i \in raced
        /\ index[i] < acked[i] => i \in raced

LEMMA OnTheWayType ==
    ASSUME IndexTypeOK
    PROVE  OnTheWay \subseteq [Ids -> 0..MaxVersion]
BY DEF OnTheWay, IndexTypeOK

LEMMA VersionsGrow ==
    ASSUME IndexTypeOK, NEW i \in Ids, WritesTo(i), NEW j \in Ids
    PROVE  row[j].ver <= row'[j].ver
<1>1. row[j].ver \in Nat /\ row \in [Ids -> RowType] /\ row[i] \in RowType
  BY RowTypes DEF IndexTypeOK, RowType
<1>2. CASE Archive(i)
  <2>1. row'[j].ver = row[j].ver
    BY <1>1, <1>2 DEF Archive, RowType
  <2> QED BY <1>1, <2>1
<1>3. ASSUME NEW t \in Times, Insert(i, t) PROVE row[j].ver <= row'[j].ver
  <2>1. row[i].ver = 0 /\ row'[i].ver = 1 /\ (j # i => row'[j] = row[j])
    BY <1>1, <1>3 DEF Insert, Absent, New
  <2> QED BY <1>1, <2>1
<1>4. ASSUME NEW t \in Times, Patch(i, t) PROVE row[j].ver <= row'[j].ver
  <2>1. row'[j].ver = IF j = i THEN row[j].ver + 1 ELSE row[j].ver
    BY <1>1, <1>4 DEF Patch, RowType
  <2> QED BY <1>1, <2>1
<1> QED BY <1>2, <1>3, <1>4 DEF WritesTo

LEMMA VersionsInductive ==
    ASSUME IndexTypeOK, VersionInv, [IndexNext]_allVars
    PROVE  VersionInv'
<1>0. IndexTypeOK'
  BY IndexTypeInductive
<1> USE DEF VersionInv
<1>a. \A i \in Ids : /\ row[i].ver \in Nat /\ row'[i].ver \in Nat
                     /\ index[i] \in Nat /\ acked[i] \in Nat
  <2>1. \A i \in Ids : row[i].ver \in Nat
    BY RowTypes, ListingAssumption
  <2>2. \A i \in Ids : row'[i].ver \in Nat
    <3>1. row' \in [Ids -> RowType]
      BY <1>0 DEF IndexTypeOK, RowType
    <3> QED BY <3>1, TableType, ListingAssumption
  <2> QED BY <2>1, <2>2, ListingAssumption DEF IndexTypeOK
<1>b. \A e \in OnTheWay : \A i \in Ids : e[i] \in Nat
  BY OnTheWayType, ListingAssumption
<1>1. ASSUME NEW w \in Ids, WritesTo(w), UNCHANGED indexVars PROVE VersionInv'
  <2>1. \A i \in Ids : row[i].ver <= row'[i].ver
    BY <1>1, VersionsGrow
  <2>2. OnTheWay' = OnTheWay
    BY <1>1, WriteFacts DEF OnTheWay, indexVars
  <2> QED BY <1>1, <1>a, <1>b, <2>1, <2>2 DEF indexVars
<1>2. ASSUME NEW s \in Sessions, LateIndex(s) PROVE VersionInv'
  <2> DEFINE d == docs[s]
  <2>1. OnTheWay' \subseteq OnTheWay /\ d \in OnTheWay
    BY <1>2 DEF OnTheWay, LateIndex, IndexTypeOK
  <2>2. \A i \in Ids : index'[i] \in {index[i], d[i]} /\ (index'[i] # index[i] => d[i] # 0)
    BY <1>2 DEF LateIndex, Upserted
  <2>3. UNCHANGED <<row, acked, raced>>
    BY <1>2 DEF LateIndex
  <2> HIDE DEF d
  <2> QED BY <1>a, <1>b, <2>1, <2>2, <2>3
<1>3. ASSUME NEW s \in Sessions, ScanStep(s), UNCHANGED indexVars PROVE VersionInv'
  <2>1. \A r \in Sessions : mode'[r] \in {"sent", "late"} <=> mode[r] \in {"sent", "late"}
    BY <1>3 DEF ScanStep, BeginScan, CursorPage, CountRows, PageRows, IndexTypeOK
  <2>2. OnTheWay' = OnTheWay
    BY <1>3, <2>1 DEF OnTheWay, indexVars
  <2>3. row' = row
    BY <1>3 DEF ScanStep, BeginScan, CursorPage, CountRows, PageRows
  <2> QED BY <1>3, <2>2, <2>3 DEF indexVars
<1>4. ASSUME NEW s \in Sessions, NEW ids \in SUBSET Active, SendToGateway(s, ids) PROVE VersionInv'
  <2>1. OnTheWay' \subseteq OnTheWay \union {Documents(ids)}
    BY <1>4 DEF OnTheWay, SendToGateway, IndexTypeOK
  <2>2. \A i \in Ids : Documents(ids)[i] \in {0, row[i].ver}
    BY DEF Documents
  <2>3. UNCHANGED <<row, index, acked, raced>>
    BY <1>4 DEF SendToGateway
  <2> QED BY <1>a, <1>b, <2>1, <2>2, <2>3
<1>5. ASSUME NEW s \in Sessions, GatewayIndexes(s) PROVE VersionInv'
  <2> DEFINE d == docs[s]
  <2>1. OnTheWay' \subseteq OnTheWay /\ d \in OnTheWay
    BY <1>5 DEF OnTheWay, GatewayIndexes, Acknowledge, IndexTypeOK
  <2>2. \A i \in Ids : /\ index'[i] = IF d[i] # 0 THEN d[i] ELSE index[i]
                       /\ acked'[i] = IF d[i] > acked[i] THEN d[i] ELSE acked[i]
    BY <1>5 DEF GatewayIndexes, Upserted, Acknowledge
  <2>3. row' = row /\ raced' = raced \union Overtakes(d)
    BY <1>5 DEF GatewayIndexes, Acknowledge
  <2>4. ASSUME NEW i \in Ids, NEW e \in OnTheWay, d[i] # 0, e[i] # 0, e[i] < d[i]
        PROVE  i \in Overtakes(d)
    BY <1>b, <2>1, <2>4 DEF Overtakes
  <2> HIDE DEF d
  <2> QED BY <1>a, <1>b, <2>1, <2>2, <2>3, <2>4
<1>6. ASSUME NEW s \in Sessions, GatewayFails(s) \/ GiveUp(s) PROVE VersionInv'
  <2>1. OnTheWay' \subseteq OnTheWay
    <3>1. ASSUME NEW r \in Sessions, mode'[r] \in {"sent", "late"}
          PROVE  docs'[r] = docs[r] /\ mode[r] \in {"sent", "late"}
      <4>1. CASE GatewayFails(s)
        BY <3>1, <4>1 DEF GatewayFails, IndexTypeOK
      <4>2. CASE GiveUp(s)
        BY <3>1, <4>2 DEF GiveUp, indexVars, IndexTypeOK
      <4> QED BY <1>6, <4>1, <4>2
    <3> QED BY <3>1 DEF OnTheWay
  <2>2. UNCHANGED <<row, index, acked, raced>>
    BY <1>6 DEF GatewayFails, GiveUp, indexVars
  <2> QED BY <2>1, <2>2
<1>7. CASE UNCHANGED allVars
  BY <1>7 DEF allVars, listingVars, indexVars, OnTheWay
<1> QED BY <1>1, <1>2, <1>3, <1>4, <1>5, <1>6, <1>7, IndexSteps

LEMMA VersionsInitially == IndexInit => VersionInv
<1> SUFFICES ASSUME IndexInit PROVE VersionInv
  OBVIOUS
<1>1. IndexTypeOK
  BY IndexTypeInitially
<1>2. \A i \in Ids : row[i].ver \in Nat
  BY <1>1, RowTypes, ListingAssumption
<1>3. OnTheWay = {}
  BY DEF OnTheWay, IndexInit, ListingInit
<1> QED BY <1>2, <1>3 DEF VersionInv, IndexInit, Nothing

\* The collection never holds a version that its record has not had, and
\* what the gateway acknowledged can be found in that version or a newer one,
\* unless an older document was already on its way to the gateway then.
THEOREM AcknowledgedStaysIndexed == IndexSpec => []AcknowledgedIsIndexed
<1>1. IndexInit => IndexTypeOK /\ VersionInv
  BY IndexTypeInitially, VersionsInitially
<1>2. IndexTypeOK /\ VersionInv /\ [IndexNext]_allVars => (IndexTypeOK /\ VersionInv)'
  BY IndexTypeInductive, VersionsInductive
<1>3. IndexTypeOK /\ VersionInv => AcknowledgedIsIndexed
  BY DEF VersionInv, AcknowledgedIsIndexed
<1> QED BY <1>1, <1>2, <1>3, PTL DEF IndexSpec

-----------------------------------------------------------------------------
(* Scans: what both kinds have in common *)

\* A session that has not begun has seen nothing, what is steady is active,
\* and what was shown has existed.
ScanInv ==
    \A s \in Sessions :
        /\ mode[s] = "new" => /\ cursor[s] = NoCursor /\ skip[s] = 0
                              /\ shown[s] = {} /\ again[s] = {} /\ received[s] = 0
        /\ steady[s] \subseteq Active
        /\ \A i \in shown[s] : row[i] # Absent

\* What a write does to the rows.
LEMMA WrittenRows ==
    ASSUME IndexTypeOK, ScanInv, NEW w \in Ids, WritesTo(w)
    PROVE  /\ \A i \in Ids : row[i] # Absent => row'[i] # Absent
           /\ \A s \in Sessions : /\ steady'[s] \subseteq steady[s]
                                  /\ steady'[s] \subseteq Active'
                                  /\ \A i \in steady'[s] : row'[i].at = row[i].at
<1>1. row \in [Ids -> RowType] /\ row[w] \in RowType /\ steady \in [Sessions -> SUBSET Ids]
  BY RowTypes DEF IndexTypeOK, RowType
<1>2. \A s \in Sessions : steady[s] \subseteq Active
  BY DEF ScanInv
<1>3. CASE Archive(w)
  <2>1. /\ row'[w].state = "archived"
        /\ \A i \in Ids \ {w} : row'[i] = row[i]
        /\ \A s \in Sessions : steady'[s] = steady[s] \ {w}
    BY <1>1, <1>3 DEF Archive, Without, RowType
  <2> QED BY <1>1, <1>2, <2>1 DEF Absent, Active
<1>4. ASSUME NEW t \in Times, Insert(w, t)
      PROVE  /\ \A i \in Ids : row[i] # Absent => row'[i] # Absent
             /\ \A s \in Sessions : /\ steady'[s] \subseteq steady[s]
                                    /\ steady'[s] \subseteq Active'
                                    /\ \A i \in steady'[s] : row'[i].at = row[i].at
  <2>1. /\ row[w] = Absent /\ steady' = steady
        /\ \A i \in Ids \ {w} : row'[i] = row[i]
    BY <1>1, <1>4 DEF Insert
  <2>2. w \notin Active
    BY <2>1 DEF Absent, Active
  <2> QED BY <1>1, <1>2, <2>1, <2>2 DEF Active
<1>5. ASSUME NEW t \in Times, Patch(w, t)
      PROVE  /\ \A i \in Ids : row[i] # Absent => row'[i] # Absent
             /\ \A s \in Sessions : /\ steady'[s] \subseteq steady[s]
                                    /\ steady'[s] \subseteq Active'
                                    /\ \A i \in steady'[s] : row'[i].at = row[i].at
  <2>1. /\ row'[w].state = "active" /\ row'[w].at = t
        /\ \A i \in Ids \ {w} : row'[i] = row[i]
    BY <1>1, <1>5 DEF Patch, RowType, Active
  <2>2. \A s \in Sessions : /\ steady'[s] \subseteq steady[s]
                            /\ w \in steady'[s] => t = row[w].at
    BY <1>5 DEF Patch, Without
  <2>3. row'[w] # Absent
    BY <2>1 DEF Absent
  <2> QED BY <1>1, <1>2, <2>1, <2>2, <2>3 DEF Active
<1> QED BY <1>3, <1>4, <1>5 DEF WritesTo

\* A step of the gateway, or of an index request, as the scans see it.
Quiet ==
    /\ UNCHANGED <<row, scanVars, ghostVars>>
    /\ \A s \in Sessions : mode'[s] = mode[s] \/ mode'[s] \in {"sent", "late", "answered"}

LEMMA ListingSteps ==
    ASSUME IndexTypeOK, [IndexNext]_allVars
    PROVE  \/ \E i \in Ids : WritesTo(i) /\ UNCHANGED indexVars
           \/ \E s \in Sessions : ScanStep(s)
           \/ Quiet
<1>1. CASE \E s \in Sessions : LateIndex(s)
  BY <1>1 DEF LateIndex, IndexTypeOK, Quiet
<1>2. CASE \E s \in Sessions, ids \in SUBSET Active : SendToGateway(s, ids)
  BY <1>2 DEF SendToGateway, IndexTypeOK, Quiet
<1>3. CASE \E s \in Sessions : GatewayIndexes(s) \/ GatewayFails(s) \/ GiveUp(s)
  BY <1>3 DEF GatewayIndexes, GatewayFails, GiveUp, Acknowledge, IndexTypeOK, Quiet
<1>4. CASE UNCHANGED allVars
  BY <1>4 DEF allVars, listingVars, Quiet
<1> QED BY <1>1, <1>2, <1>3, <1>4, IndexSteps

LEMMA ScanInductive ==
    ASSUME IndexTypeOK, ScanInv, [IndexNext]_allVars
    PROVE  ScanInv'
<1>1. ASSUME NEW w \in Ids, WritesTo(w), UNCHANGED indexVars PROVE ScanInv'
  <2>1. UNCHANGED <<mode, scanVars>>
    BY <1>1, WriteFacts
  <2>2. \A s \in Sessions : shown[s] \in SUBSET Ids
    BY DEF IndexTypeOK
  <2> QED BY <1>1, <2>1, <2>2, WrittenRows DEF ScanInv, scanVars, seenVars
<1>2. ASSUME NEW s \in Sessions, ScanStep(s) PROVE ScanInv'
  <2>1. row' = row /\ Active' = Active
    BY <1>2 DEF ScanStep, BeginScan, CursorPage, CountRows, PageRows, Active
  <2>2. \A i \in Active : row[i] # Absent
    BY DEF Active, Absent
  <2>3. CASE \E how \in {"cursor", "count"} : BeginScan(s, how)
    BY <2>1, <2>3 DEF BeginScan, ScanInv, scanVars, seenVars, IndexTypeOK
  <2>4. ASSUME NEW page \in SUBSET Active, Show(s, page), UNCHANGED steady,
               mode[s] # "new",
               \A r \in Sessions \ {s} : mode'[r] = mode[r] /\ cursor'[r] = cursor[r] /\ skip'[r] = skip[r],
               mode'[s] # "new"
        PROVE  ScanInv'
    <3>1. \A r \in Sessions \ {s} : shown'[r] = shown[r] /\ again'[r] = again[r] /\ received'[r] = received[r]
      BY <2>4 DEF Show, IndexTypeOK
    <3>2. shown'[s] = shown[s] \union page
      BY <2>4 DEF Show, IndexTypeOK
    <3> QED BY <2>1, <2>2, <2>4, <3>1, <3>2 DEF ScanInv
  <2>5. CASE CursorPage(s)
    <3> DEFINE page == FirstByKey(Beyond(cursor[s]), Limit)
    <3>1. page \in SUBSET Active
      BY DEF FirstByKey, Beyond
    <3>2. Show(s, page) /\ UNCHANGED steady /\ mode[s] = "cursor" /\ skip' = skip
      BY <2>5 DEF CursorPage, ghostVars
    <3>3. /\ \A r \in Sessions \ {s} : mode'[r] = mode[r] /\ cursor'[r] = cursor[r]
          /\ mode'[s] # "new"
      BY <2>5 DEF CursorPage, IndexTypeOK
    <3> QED BY <2>4, <3>1, <3>2, <3>3
  <2>6. CASE CountRows(s)
    BY <2>1, <2>6 DEF CountRows, ScanInv, seenVars, ghostVars, IndexTypeOK
  <2>7. CASE PageRows(s)
    <3> DEFINE page == {i \in Active : IdRank(i) \in skip[s]..(skip[s] + Limit - 1)}
    <3>1. page \in SUBSET Active
      OBVIOUS
    <3>2. Show(s, page) /\ UNCHANGED steady /\ mode[s] = "page" /\ cursor' = cursor
      BY <2>7 DEF PageRows, ghostVars
    <3>3. /\ \A r \in Sessions \ {s} : mode'[r] = mode[r] /\ skip'[r] = skip[r]
          /\ mode'[s] # "new"
      BY <2>7 DEF PageRows, IndexTypeOK
    <3> QED BY <2>4, <3>1, <3>2, <3>3
  <2> QED BY <1>2, <2>3, <2>5, <2>6, <2>7 DEF ScanStep
<1>3. CASE Quiet
  BY <1>3 DEF Quiet, ScanInv, scanVars, seenVars, ghostVars, Active
<1> QED BY <1>1, <1>2, <1>3, ListingSteps

-----------------------------------------------------------------------------
(* Paging by cursor *)

CursorInv ==
    \A s \in Sessions :
        /\ mode[s] \in {"cursor", "ended"} => steady[s] \intersect again[s] = {}
        /\ mode[s] = "cursor" => \A i \in steady[s] : i \in shown[s] <=> i \notin Beyond(cursor[s])
        /\ mode[s] = "ended" => steady[s] \subseteq shown[s]

\* The keys are linearly ordered.
LEMMA KeyOrder ==
    ASSUME NEW k \in Nat \X Ids, NEW l \in Nat \X Ids, NEW m \in Nat \X Ids
    PROVE  /\ Before(k, l) /\ Before(l, m) => Before(k, m)
           /\ ~(Before(k, l) /\ Before(l, k))
           /\ k[2] # l[2] => Before(k, l) \/ Before(l, k)
<1>1. /\ k[1] \in Nat /\ k[2] \in Nat /\ l[1] \in Nat /\ l[2] \in Nat
      /\ m[1] \in Nat /\ m[2] \in Nat
  BY IdsAreNumbers
<1> QED BY <1>1 DEF Before

LEMMA KeyTypes ==
    ASSUME IndexTypeOK, NEW i \in Ids
    PROVE  Key(i) \in Nat \X Ids /\ Key(i)[1] = row[i].at /\ Key(i)[2] = i /\ Key(i) # NoCursor
<1>1. Key(i) \in Nat \X Ids /\ Key(i)[1] = row[i].at /\ Key(i)[2] = i
  BY RowTypes DEF Key
<1>2. Key(i) # NoCursor
  <2>1. DOMAIN Key(i) = {1, 2}
    BY DEF Key
  <2>2. DOMAIN NoCursor = {}
    BY DEF NoCursor
  <2> QED BY <2>1, <2>2
<1> QED BY <1>1, <1>2

\* The first n rows of a set come before all others of it, and are all of
\* them when it has no more than n.
LEMMA FirstRows ==
    ASSUME IndexTypeOK, NEW S \in SUBSET Ids, NEW n \in Nat
    PROVE  /\ \A i \in FirstByKey(S, n), j \in S \ FirstByKey(S, n) : Before(Key(i), Key(j))
           /\ Cardinality(S) <= n => FirstByKey(S, n) = S
<1> DEFINE Lower(i) == {j \in S : Before(Key(j), Key(i))}
<1>1. \A i \in S : /\ Key(i) \in Nat \X Ids /\ Key(i)[2] = i
                   /\ IsFiniteSet(Lower(i)) /\ Cardinality(Lower(i)) \in Nat
                   /\ KeyRank(S, i) = Cardinality(Lower(i))
  BY KeyTypes, SubsetsOfIds DEF KeyRank
<1>2. ASSUME NEW i \in FirstByKey(S, n), NEW j \in S \ FirstByKey(S, n) PROVE Before(Key(i), Key(j))
  <2>1. i \in S /\ i # j /\ Cardinality(Lower(i)) < Cardinality(Lower(j))
    BY <1>1 DEF FirstByKey
  <2>2. SUFFICES ASSUME Before(Key(j), Key(i)) PROVE FALSE
    BY <1>1, <2>1, KeyOrder
  <2>3. Lower(j) \in SUBSET Lower(i)
    BY <1>1, <2>1, <2>2, KeyOrder
  <2>4. Cardinality(Lower(j)) <= Cardinality(Lower(i))
    BY <1>1, <2>1, <2>3, FS_Subset
  <2> QED BY <1>1, <2>1, <2>4
<1>3. ASSUME Cardinality(S) <= n, NEW i \in S PROVE i \in FirstByKey(S, n)
  <2>1. Lower(i) \in SUBSET S /\ i \notin Lower(i)
    BY <1>1, KeyOrder
  <2>2. Cardinality(Lower(i)) <= Cardinality(S) /\ Cardinality(Lower(i)) # Cardinality(S)
    BY <2>1, FS_Subset, SubsetsOfIds
  <2> QED BY <1>1, <1>3, <2>2, SubsetsOfIds DEF FirstByKey
<1> QED BY <1>2, <1>3 DEF FirstByKey

LEMMA CursorInductive ==
    ASSUME IndexTypeOK, ScanInv, CursorInv, [IndexNext]_allVars
    PROVE  CursorInv'
<1>1. ASSUME NEW w \in Ids, WritesTo(w), UNCHANGED indexVars PROVE CursorInv'
  <2>1. UNCHANGED <<mode, cursor, shown, again>>
    BY <1>1, WriteFacts DEF scanVars, seenVars
  <2>2. ASSUME NEW s \in Sessions, NEW i \in steady'[s]
        PROVE  i \in Beyond(cursor[s])' <=> i \in Beyond(cursor[s])
    <3>1. i \in Active /\ i \in Active' /\ row'[i].at = row[i].at
      BY <1>1, WrittenRows DEF ScanInv
    <3> QED BY <2>1, <3>1 DEF Beyond, Key
  <2>3. \A s \in Sessions : steady'[s] \subseteq steady[s]
    BY <1>1, WrittenRows
  <2> QED BY <2>1, <2>2, <2>3 DEF CursorInv
<1>2. ASSUME NEW s \in Sessions, ScanStep(s) PROVE CursorInv'
  <2>1. row' = row /\ \A r \in Sessions : Beyond(cursor[r])' = Beyond(cursor'[r])
    BY <1>2 DEF ScanStep, BeginScan, CursorPage, CountRows, PageRows, Active, Beyond, Key
  <2>2. CASE \E how \in {"cursor", "count"} : BeginScan(s, how)
    <3>1. Beyond(NoCursor) = Active
      BY DEF Beyond
    <3> QED BY <2>1, <2>2, <3>1 DEF BeginScan, ScanInv, CursorInv, scanVars, seenVars, IndexTypeOK
  <2>3. CASE CursorPage(s)
    <3> DEFINE rest == Beyond(cursor[s])
               page == FirstByKey(rest, Limit)
    <3>1. rest \in SUBSET Ids /\ page \in SUBSET rest /\ rest \in SUBSET Active
      BY DEF Beyond, Active, FirstByKey
    <3>2. /\ mode[s] = "cursor" /\ steady' = steady
          /\ shown'[s] = shown[s] \union page
          /\ again'[s] = again[s] \union (page \intersect shown[s])
          /\ \A r \in Sessions \ {s} : shown'[r] = shown[r] /\ again'[r] = again[r]
      BY <2>3 DEF CursorPage, Show, ghostVars, IndexTypeOK
    <3>3. \A i \in steady[s] : i \in shown[s] <=> i \notin rest
      BY <3>2 DEF CursorInv
    <3>4. steady'[s] \intersect again'[s] = {}
      BY <3>1, <3>2, <3>3 DEF CursorInv
    <3>5. CASE Cardinality(rest) > Limit
      <4>1. PICK last \in page :
                /\ \A i \in page \ {last} : Before(Key(i), Key(last))
                /\ cursor' = [cursor EXCEPT ![s] = Key(last)]
                /\ UNCHANGED mode
        BY <2>3, <3>5 DEF CursorPage
      <4>2. cursor'[s] = Key(last) /\ \A r \in Sessions \ {s} : cursor'[r] = cursor[r]
        BY <4>1 DEF IndexTypeOK
      <4>3. \A i \in Active : Key(i) \in Nat \X Ids /\ Key(i)[2] = i /\ Key(i) # NoCursor
        BY KeyTypes, ActiveType
      <4>4. cursor[s] # NoCursor => cursor[s] \in Nat \X Ids
        BY DEF IndexTypeOK
      <4>5. ASSUME NEW i \in steady[s]
            PROVE  i \in shown'[s] <=> i \notin Beyond(cursor'[s])
        <5>1. i \in Active /\ last \in Active /\ last \in rest
          BY <3>1 DEF ScanInv
        <5>2. i \in Beyond(cursor'[s]) <=> Before(Key(last), Key(i))
          BY <4>2, <4>3, <5>1 DEF Beyond
        <5>3. CASE i \in page
          <6>1. ~Before(Key(last), Key(i))
            BY <4>1, <4>3, <5>1, <5>3, KeyOrder
          <6> QED BY <3>2, <5>2, <5>3, <6>1
        <5>4. CASE i \notin rest
          <6>1. cursor[s] # NoCursor /\ ~Before(cursor[s], Key(i)) /\ Before(cursor[s], Key(last))
            BY <5>1, <5>4 DEF Beyond
          <6>2. ~Before(Key(last), Key(i))
            BY <4>3, <4>4, <5>1, <6>1, KeyOrder
          <6> QED BY <3>2, <3>3, <5>2, <5>4, <6>2
        <5>5. CASE i \in rest /\ i \notin page
          <6>1. Before(Key(last), Key(i))
            BY <3>1, <5>5, FirstRows, ListingAssumption
          <6> QED BY <3>2, <3>3, <5>2, <5>5, <6>1
        <5> QED BY <5>3, <5>4, <5>5
      <4> HIDE DEF rest, page
      <4>6. ASSUME NEW r \in Sessions, r # s
            PROVE  /\ mode'[r] = mode[r] /\ steady'[r] = steady[r] /\ shown'[r] = shown[r]
                   /\ again'[r] = again[r] /\ Beyond(cursor[r])' = Beyond(cursor[r])
        BY <2>1, <3>2, <4>1, <4>2, <4>6
      <4>7. mode'[s] = "cursor" /\ Beyond(cursor[s])' = Beyond(cursor'[s])
        BY <2>1, <3>2, <4>1
      <4> QED BY <3>2, <3>4, <4>5, <4>6, <4>7 DEF CursorInv
    <3>6. CASE ~(Cardinality(rest) > Limit)
      <4>1. mode' = [mode EXCEPT ![s] = "ended"] /\ cursor' = cursor
        BY <2>3, <3>6 DEF CursorPage
      <4>2. page = rest
        <5>1. Cardinality(rest) <= Limit
          BY <3>1, <3>6, SubsetsOfIds, ListingAssumption
        <5> QED BY <3>1, <5>1, FirstRows, ListingAssumption
      <4>3. steady'[s] \subseteq shown'[s]
        BY <3>2, <3>3, <4>2
      <4>4. mode'[s] = "ended" /\ \A r \in Sessions \ {s} : mode'[r] = mode[r]
        BY <4>1 DEF IndexTypeOK
      <4>5. \A r \in Sessions : Beyond(cursor[r])' = Beyond(cursor[r])
        BY <2>1, <4>1
      <4> HIDE DEF rest, page
      <4> QED BY <3>2, <3>4, <4>3, <4>4, <4>5 DEF CursorInv
    <3> QED BY <3>5, <3>6
  <2>4. CASE CountRows(s)
    BY <2>1, <2>4 DEF CountRows, CursorInv, seenVars, ghostVars, IndexTypeOK
  <2>5. CASE PageRows(s)
    <3>1. /\ mode'[s] \in {"count", "offsetEnded"} /\ \A r \in Sessions \ {s} : mode'[r] = mode[r]
          /\ steady' = steady /\ cursor' = cursor
          /\ \A r \in Sessions \ {s} : shown'[r] = shown[r] /\ again'[r] = again[r]
      BY <2>5 DEF PageRows, Show, ghostVars, IndexTypeOK
    <3> QED BY <2>1, <3>1 DEF CursorInv
  <2> QED BY <1>2, <2>2, <2>3, <2>4, <2>5 DEF ScanStep
<1>3. CASE Quiet
  BY <1>3 DEF Quiet, CursorInv, scanVars, seenVars, ghostVars, Active, Beyond, Key
<1> QED BY <1>1, <1>2, <1>3, ListingSteps

LEMMA ScansInitially == IndexInit => ScanInv /\ CursorInv
BY DEF IndexInit, ListingInit, ScanInv, CursorInv

\* Paging by cursor is exact for the records that stay as they were, for
\* any size of a page and any writes between two pages.
THEOREM CursorPagingIsExact == IndexSpec => []CursorExact
<1>1. IndexInit => IndexTypeOK /\ ScanInv /\ CursorInv
  BY IndexTypeInitially, ScansInitially
<1>2. IndexTypeOK /\ ScanInv /\ CursorInv /\ [IndexNext]_allVars
        => (IndexTypeOK /\ ScanInv /\ CursorInv)'
  BY IndexTypeInductive, ScanInductive, CursorInductive
<1>3. CursorInv => CursorExact
  BY DEF CursorInv, CursorExact
<1> QED BY <1>1, <1>2, <1>3, PTL DEF IndexSpec

-----------------------------------------------------------------------------
(* Paging by offset *)

Rank(A, i) == Cardinality({j \in A : j < i})

\* The records that the scan is going to miss, if nothing moves any more:
\* those that slipped in front of the offset, and those that the total,
\* once it is counted, does not reach.
Missed(s) ==
    {i \in steady[s] \ shown[s] :
        \/ mode[s] = "offsetEnded"
        \/ Rank(Active, i) < skip[s]
        \/ mode[s] = "page" /\ Rank(Active, i) >= total[s]}

\* The records that it is going to show once more.
Repeated(s) == {i \in Active \intersect shown[s] : mode[s] # "offsetEnded" /\ Rank(Active, i) >= skip[s]}

OffsetInv ==
    \A s \in Sessions :
        mode[s] \in {"count", "page", "offsetEnded"} =>
            /\ Cardinality(Missed(s)) <= moved[s]
            /\ received[s] - Cardinality(shown[s]) + Cardinality(Repeated(s)) <= moved[s]

\* Different records have different ranks.
LEMMA RankOrder ==
    ASSUME NEW A \in SUBSET Ids, NEW i \in Ids, NEW j \in Ids
    PROVE  /\ Rank(A, i) \in Nat
           /\ i < j /\ i \in A => Rank(A, i) < Rank(A, j)
<1> DEFINE Lower(k) == {h \in A : h < k}
<1>1. /\ Lower(i) \in SUBSET Ids /\ Lower(j) \in SUBSET Ids
      /\ Rank(A, i) = Cardinality(Lower(i)) /\ Rank(A, j) = Cardinality(Lower(j))
  BY DEF Rank
<1>2. ASSUME i < j, i \in A PROVE Rank(A, i) < Rank(A, j)
  <2>0. i \in Nat /\ j \in Nat /\ \A h \in A : h \in Nat
    BY IdsAreNumbers
  <2>a. \A h \in A : h < i => h < j
    BY <1>2, <2>0
  <2>b. i \in Lower(j) /\ i \notin Lower(i)
    BY <1>2, <2>0
  <2>1. Lower(i) \in SUBSET Lower(j) /\ i \in Lower(j) /\ i \notin Lower(i)
    BY <2>a, <2>b
  <2>2. IsFiniteSet(Lower(j)) /\ Lower(i) # Lower(j)
    BY <1>1, <2>1, SubsetsOfIds
  <2>3. Cardinality(Lower(i)) <= Cardinality(Lower(j)) /\ Cardinality(Lower(i)) # Cardinality(Lower(j))
    BY <2>1, <2>2, FS_Subset
  <2> QED BY <1>1, <2>3, SubsetsOfIds
<1> QED BY <1>1, <1>2, SubsetsOfIds

LEMMA RankInjective ==
    ASSUME NEW A \in SUBSET Ids, NEW i \in A, NEW j \in A, Rank(A, i) = Rank(A, j)
    PROVE  i = j
<1>1. i \in Nat /\ j \in Nat /\ i \in Ids /\ j \in Ids
  BY IdsAreNumbers
<1>2. ~(i < j) /\ ~(j < i)
  BY <1>1, RankOrder
<1> QED BY <1>1, <1>2

\* One more record moves those above it by one place.
LEMMA RankAfterAdding ==
    ASSUME NEW A \in SUBSET Ids, NEW w \in Ids, w \notin A, NEW j \in Ids
    PROVE  Rank(A \union {w}, j) = Rank(A, j) + IF w < j THEN 1 ELSE 0
<1> DEFINE Lower == {h \in A : h < j}
<1>1. Lower \in SUBSET Ids /\ IsFiniteSet(Lower) /\ Cardinality(Lower) \in Nat /\ w \notin Lower
  BY SubsetsOfIds
<1>2. CASE w < j
  <2>1. {h \in A \union {w} : h < j} = Lower \union {w}
    BY <1>2
  <2>2. Cardinality(Lower \union {w}) = Cardinality(Lower) + 1
    BY <1>1, FS_AddElement
  <2> QED BY <1>2, <2>1, <2>2 DEF Rank
<1>3. CASE ~(w < j)
  <2>1. {h \in A \union {w} : h < j} = Lower
    BY <1>3
  <2> QED BY <1>1, <1>3, <2>1 DEF Rank
<1> QED BY <1>2, <1>3

\* A set that gains at most one element grows by at most one.
LEMMA OneMore ==
    ASSUME NEW S \in SUBSET Ids, NEW T \in SUBSET Ids,
           \A i, j \in T \ S : i = j
    PROVE  Cardinality(T) <= Cardinality(S) + 1
<1>1. IsFiniteSet(S) /\ Cardinality(S) \in Nat /\ Cardinality(T) \in Nat
  BY SubsetsOfIds
<1>2. CASE T \subseteq S
  <2>1. Cardinality(T) <= Cardinality(S)
    BY <1>1, <1>2, FS_Subset
  <2> QED BY <1>1, <2>1
<1>3. CASE ~(T \subseteq S)
  <2>1. PICK x \in T : x \notin S
    BY <1>3
  <2>2. T \subseteq S \union {x}
    BY <2>1
  <2>3. IsFiniteSet(S \union {x}) /\ Cardinality(S \union {x}) = Cardinality(S) + 1
    BY <1>1, <2>1, FS_AddElement
  <2> QED BY <2>2, <2>3, FS_Subset
<1> QED BY <1>2, <1>3

LEMMA NoMore ==
    ASSUME NEW S \in SUBSET Ids, NEW T \in SUBSET S
    PROVE  Cardinality(T) <= Cardinality(S)
BY SubsetsOfIds, FS_Subset

LEMMA OffsetSets ==
    ASSUME IndexTypeOK, NEW s \in Sessions
    PROVE  /\ Missed(s) \in SUBSET Ids /\ Cardinality(Missed(s)) \in Nat
           /\ Repeated(s) \in SUBSET Ids /\ Cardinality(Repeated(s)) \in Nat
           /\ shown[s] \in SUBSET Ids /\ Cardinality(shown[s]) \in Nat
           /\ received[s] \in Nat /\ moved[s] \in Nat /\ skip[s] \in Nat /\ total[s] \in Nat
<1>1. /\ shown[s] \in SUBSET Ids /\ steady[s] \in SUBSET Ids
      /\ received[s] \in Nat /\ moved[s] \in Nat /\ skip[s] \in Nat /\ total[s] \in Nat
  BY DEF IndexTypeOK
<1>2. Missed(s) \in SUBSET Ids /\ Repeated(s) \in SUBSET Ids
  BY <1>1 DEF Missed, Repeated
<1> QED BY <1>1, <1>2, SubsetsOfIds

\* A write moves at most one record over the offset or the total.
LEMMA WriteDrift ==
    ASSUME IndexTypeOK, IndexTypeOK', ScanInv, OffsetInv, NEW w \in Ids, WritesTo(w)
    PROVE  OffsetInv'
<1> SUFFICES ASSUME NEW s \in Sessions, mode'[s] \in {"count", "page", "offsetEnded"}
             PROVE  /\ Cardinality(Missed(s)') <= moved'[s]
                    /\ received'[s] - Cardinality(shown'[s]) + Cardinality(Repeated(s)') <= moved'[s]
  BY DEF OffsetInv
<1> DEFINE A == Active
<1>1. /\ UNCHANGED <<mode, skip, total, shown, received>>
      /\ steady'[s] \subseteq steady[s] /\ steady[s] \subseteq A
  BY WriteFacts, WrittenRows DEF scanVars, seenVars, ScanInv
<1>2. /\ Cardinality(Missed(s)) <= moved[s]
      /\ received[s] - Cardinality(shown[s]) + Cardinality(Repeated(s)) <= moved[s]
  BY <1>1 DEF OffsetInv
<1>3. /\ Missed(s) \in SUBSET Ids /\ Cardinality(Missed(s)) \in Nat
      /\ Repeated(s) \in SUBSET Ids /\ Cardinality(Repeated(s)) \in Nat
      /\ Cardinality(shown[s]) \in Nat /\ received[s] \in Nat /\ moved[s] \in Nat
      /\ skip[s] \in Nat /\ total[s] \in Nat
  BY OffsetSets
<1>4. /\ Missed(s)' \in SUBSET Ids /\ Cardinality(Missed(s)') \in Nat
      /\ Repeated(s)' \in SUBSET Ids /\ Cardinality(Repeated(s)') \in Nat
  <2>1. shown'[s] \in SUBSET Ids /\ steady'[s] \in SUBSET Ids
    BY DEF IndexTypeOK
  <2>2. Missed(s)' \in SUBSET Ids /\ Repeated(s)' \in SUBSET Ids
    BY <2>1 DEF Missed, Repeated
  <2> QED BY <2>2, SubsetsOfIds
<1>5. A \in SUBSET Ids /\ \A i \in Ids : Rank(A, i) \in Nat
  BY ActiveType, RankOrder
<1>6. row \in [Ids -> RowType] /\ row[w] \in RowType
  BY RowTypes DEF IndexTypeOK, RowType
\* When nobody's rank changes, nothing is missed or repeated that was not.
<1>7. ASSUME \A i \in A : Rank(Active', i) = Rank(A, i),
             Active' \intersect shown[s] \subseteq A, moved'[s] >= moved[s], moved'[s] \in Nat
      PROVE  /\ Cardinality(Missed(s)') <= moved'[s]
             /\ received'[s] - Cardinality(shown'[s]) + Cardinality(Repeated(s)') <= moved'[s]
  <2>1. Missed(s)' \in SUBSET Missed(s) /\ Repeated(s)' \in SUBSET Repeated(s)
    BY <1>1, <1>7 DEF Missed, Repeated
  <2>2. Cardinality(Missed(s)') <= Cardinality(Missed(s)) /\ Cardinality(Repeated(s)') <= Cardinality(Repeated(s))
    BY <1>3, <2>1, NoMore
  <2> QED BY <1>1, <1>2, <1>3, <1>4, <1>7, <2>2
<1>8. moved'[s] = moved[s] \/ moved'[s] = Shifted[s]
  BY WriteFacts
<1>9. CASE mode[s] = "offsetEnded"
  <2>1. moved'[s] = moved[s]
    BY <1>3, <1>8, <1>9 DEF Shifted, Scanning
  <2>2. Missed(s)' \in SUBSET Missed(s) /\ Repeated(s)' \in SUBSET Repeated(s)
    BY <1>1, <1>9 DEF Missed, Repeated
  <2>3. Cardinality(Missed(s)') <= Cardinality(Missed(s)) /\ Cardinality(Repeated(s)') <= Cardinality(Repeated(s))
    BY <1>3, <2>2, NoMore
  <2> QED BY <1>1, <1>2, <1>3, <1>4, <2>1, <2>3
\* Otherwise a write that shifts others is counted, and must cost one at most.
<1>10. ASSUME mode[s] # "offsetEnded", moved' = Shifted,
              \A i, j \in Missed(s)' \ Missed(s) : i = j,
              \A i, j \in Repeated(s)' \ Repeated(s) : i = j
       PROVE  /\ Cardinality(Missed(s)') <= moved'[s]
              /\ received'[s] - Cardinality(shown'[s]) + Cardinality(Repeated(s)') <= moved'[s]
  <2>1. moved'[s] = moved[s] + 1
    BY <1>1, <1>10 DEF Shifted, Scanning
  <2>2. /\ Cardinality(Missed(s)') <= Cardinality(Missed(s)) + 1
        /\ Cardinality(Repeated(s)') <= Cardinality(Repeated(s)) + 1
    BY <1>3, <1>4, <1>10, OneMore
  <2> QED BY <1>1, <1>2, <1>3, <1>4, <2>1, <2>2
<1>11. ASSUME Archive(w), mode[s] # "offsetEnded"
       PROVE  /\ Cardinality(Missed(s)') <= moved'[s]
              /\ received'[s] - Cardinality(shown'[s]) + Cardinality(Repeated(s)') <= moved'[s]
  <2>1. Active' \in SUBSET Ids /\ w \notin Active' /\ A = Active' \union {w}
    <3>1. row'[w].state = "archived" /\ \A i \in Ids \ {w} : row'[i] = row[i]
      BY <1>6, <1>11 DEF Archive, RowType
    <3>2. w \in A
      BY <1>11 DEF Archive
    <3> QED BY <3>1, <3>2 DEF Active
  <2>2. ASSUME NEW i \in Active'
        PROVE  /\ Rank(Active', i) \in Nat
               /\ Rank(A, i) = Rank(Active', i) \/ Rank(A, i) = Rank(Active', i) + 1
    <3>1. i \in Ids /\ Rank(Active', i) \in Nat
      BY <2>1, RankOrder
    <3>2. Rank(Active' \union {w}, i) = Rank(Active', i) + IF w < i THEN 1 ELSE 0
      BY <2>1, <3>1, RankAfterAdding
    <3>3. Rank(A, i) = Rank(Active', i) + IF w < i THEN 1 ELSE 0
      BY <2>1, <3>2
    <3> QED BY <3>1, <3>3
  <2>3. steady'[s] \subseteq Active'
    BY WrittenRows
  <2>4. ASSUME NEW i \in Missed(s)' \ Missed(s) PROVE i \in A /\ Rank(A, i) = skip[s]
    <3>1. i \in Active' /\ i \in steady[s] \ shown[s] /\ i \in A
      BY <1>1, <2>1, <2>3 DEF Missed
    <3>2. Rank(Active', i) < skip[s] \/ (mode[s] = "page" /\ Rank(Active', i) >= total[s])
      BY <1>1, <1>11, <2>4 DEF Missed
    <3>3. ~(Rank(A, i) < skip[s]) /\ ~(mode[s] = "page" /\ Rank(A, i) >= total[s])
      BY <2>4, <3>1 DEF Missed
    <3> HIDE DEF A
    <3> QED BY <1>3, <2>2, <3>1, <3>2, <3>3
  <2>5. ASSUME NEW i \in Repeated(s)' PROVE i \in Repeated(s)
    <3>1. i \in Active' /\ i \in shown[s] /\ i \in A /\ Rank(Active', i) >= skip[s]
      BY <1>1, <2>1, <2>5 DEF Repeated
    <3>2. Rank(A, i) >= skip[s]
      BY <1>3, <2>2, <3>1
    <3> QED BY <1>11, <3>1, <3>2 DEF Repeated
  <2>6. \A i, j \in Missed(s)' \ Missed(s) : i = j
    BY <1>5, <2>4, RankInjective
  <2>7. moved' = Shifted
    BY <1>11 DEF Archive
  <2> QED BY <1>10, <1>11, <2>5, <2>6, <2>7
<1>12. ASSUME NEW t \in Times, Insert(w, t), mode[s] # "offsetEnded"
       PROVE  /\ Cardinality(Missed(s)') <= moved'[s]
              /\ received'[s] - Cardinality(shown'[s]) + Cardinality(Repeated(s)') <= moved'[s]
  <2>1. row[w] = Absent
    BY <1>12 DEF Insert
  <2>2. w \notin A /\ w \notin shown[s] /\ Active' = A \union {w}
    <3>1. row'[w].state = "active" /\ \A i \in Ids \ {w} : row'[i] = row[i]
      BY <1>6, <1>12 DEF Insert, New
    <3> QED BY <2>1, <3>1 DEF Active, Absent, ScanInv
  <2>3. \A i \in A : Rank(Active', i) = Rank(A, i) + IF w < i THEN 1 ELSE 0
    BY <1>5, <2>2, RankAfterAdding
  <2>4. CASE \A j \in A : ~(j > w)
    <3>1. \A i \in A : Rank(Active', i) = Rank(A, i)
      BY <1>5, <2>3, <2>4, IdsAreNumbers
    <3>2. moved' = moved
      BY <1>12, <2>4 DEF Insert
    <3>3. Active' \intersect shown[s] \subseteq A
      BY <2>2
    <3>4. moved'[s] >= moved[s] /\ moved'[s] \in Nat
      BY <1>3, <3>2
    <3> QED BY <1>7, <3>1, <3>3, <3>4
  <2>5. CASE \E j \in A : j > w
    <3>1. moved' = Shifted
      BY <1>12, <2>5 DEF Insert
    <3>2. ASSUME NEW i \in Missed(s)' \ Missed(s) PROVE i \in A /\ Rank(A, i) = total[s] - 1
      <4>1. i \in steady[s] \ shown[s] /\ i \in A
        BY <1>1 DEF Missed
      <4>2. Rank(Active', i) < skip[s] \/ (mode[s] = "page" /\ Rank(Active', i) >= total[s])
        BY <1>1, <1>12, <3>2 DEF Missed
      <4>3. ~(Rank(A, i) < skip[s]) /\ ~(mode[s] = "page" /\ Rank(A, i) >= total[s])
        BY <3>2, <4>1 DEF Missed
      <4>4. Rank(A, i) \in Nat /\ (Rank(Active', i) = Rank(A, i) \/ Rank(Active', i) = Rank(A, i) + 1)
        BY <1>5, <2>3, <4>1
      <4> HIDE DEF A
      <4> QED BY <1>3, <4>1, <4>2, <4>3, <4>4
    <3>3. ASSUME NEW i \in Repeated(s)' \ Repeated(s) PROVE i \in A /\ Rank(A, i) = skip[s] - 1
      <4>1. i \in shown[s] /\ i \in A /\ Rank(Active', i) >= skip[s]
        BY <1>1, <2>2, <3>3 DEF Repeated
      <4>2. ~(Rank(A, i) >= skip[s])
        BY <1>12, <3>3, <4>1 DEF Repeated
      <4>3. Rank(A, i) \in Nat /\ (Rank(Active', i) = Rank(A, i) \/ Rank(Active', i) = Rank(A, i) + 1)
        BY <1>5, <2>3, <4>1
      <4> HIDE DEF A
      <4> QED BY <1>3, <4>1, <4>2, <4>3
    <3>4. /\ \A i, j \in Missed(s)' \ Missed(s) : i = j
          /\ \A i, j \in Repeated(s)' \ Repeated(s) : i = j
      BY <1>5, <3>2, <3>3, RankInjective
    <3> QED BY <1>10, <1>12, <3>1, <3>4
  <2> QED BY <2>4, <2>5
<1>13. ASSUME NEW t \in Times, Patch(w, t)
       PROVE  /\ Cardinality(Missed(s)') <= moved'[s]
              /\ received'[s] - Cardinality(shown'[s]) + Cardinality(Repeated(s)') <= moved'[s]
  <2>1. moved' = moved
    BY <1>13 DEF Patch
  <2>2. Active' = A
    <3>1. row'[w].state = row[w].state /\ \A i \in Ids \ {w} : row'[i] = row[i]
      BY <1>6, <1>13 DEF Patch, RowType
    <3> QED BY <3>1 DEF Active
  <2> QED BY <1>3, <1>7, <2>1, <2>2
<1> QED BY <1>9, <1>11, <1>12, <1>13 DEF WritesTo

LEMMA PageDrift ==
    ASSUME IndexTypeOK, ScanInv, OffsetInv, NEW s \in Sessions, PageRows(s)
    PROVE  /\ Cardinality(Missed(s)') <= moved'[s]
           /\ received'[s] - Cardinality(shown'[s]) + Cardinality(Repeated(s)') <= moved'[s]
<1> DEFINE A == Active
           P == {i \in A : Rank(A, i) \in skip[s]..(skip[s] + Limit - 1)}
           Q == {i \in A \intersect shown[s] : Rank(A, i) >= skip[s] + Limit}
<1>1. /\ mode[s] = "page" /\ Show(s, P) /\ UNCHANGED <<row, total, steady, moved>>
  BY DEF PageRows, IdRank, Rank, ghostVars
<1>2. /\ shown'[s] = shown[s] \union P /\ received'[s] = received[s] + Cardinality(P)
      /\ steady'[s] = steady[s] /\ moved'[s] = moved[s] /\ Active' = A
  BY <1>1 DEF Show, IndexTypeOK, Active
<1>3. /\ Cardinality(Missed(s)) <= moved[s]
      /\ received[s] - Cardinality(shown[s]) + Cardinality(Repeated(s)) <= moved[s]
  BY <1>1 DEF OffsetInv
<1>4. /\ Missed(s) \in SUBSET Ids /\ Cardinality(Missed(s)) \in Nat
      /\ shown[s] \in SUBSET Ids /\ Cardinality(shown[s]) \in Nat
      /\ received[s] \in Nat /\ moved[s] \in Nat /\ skip[s] \in Nat /\ total[s] \in Nat
  BY OffsetSets
<1>5. Limit \in Nat /\ \A i \in A : i \in Ids /\ Rank(A, i) \in Nat
  BY ListingAssumption, ActiveType, RankOrder
<1>6. steady[s] \subseteq A
  BY DEF ScanInv
<1>7. /\ IsFiniteSet(P) /\ Cardinality(P) \in Nat
      /\ IsFiniteSet(Q) /\ Cardinality(Q) \in Nat
      /\ IsFiniteSet(shown[s])
      /\ IsFiniteSet(shown[s] \intersect P) /\ Cardinality(shown[s] \intersect P) \in Nat
  <2>1. P \in SUBSET Ids /\ Q \in SUBSET Ids /\ shown[s] \intersect P \in SUBSET Ids
    BY <1>4, <1>5
  <2> QED BY <1>4, <2>1, SubsetsOfIds
<1>8. Cardinality(shown[s] \union P) = Cardinality(shown[s]) + Cardinality(P) - Cardinality(shown[s] \intersect P)
  BY <1>7, FS_Union
<1>9. Cardinality(Repeated(s)) = Cardinality(shown[s] \intersect P) + Cardinality(Q)
  <2>1. Repeated(s) = (shown[s] \intersect P) \union Q
    <3>1. \A i \in A : Rank(A, i) >= skip[s] <=> (\/ Rank(A, i) \in skip[s]..(skip[s] + Limit - 1)
                                                  \/ Rank(A, i) >= skip[s] + Limit)
      BY <1>4, <1>5
    <3> QED BY <1>1, <3>1 DEF Repeated
  <2>2. (shown[s] \intersect P) \intersect Q = {}
    <3>1. \A i \in A : ~(Rank(A, i) \in skip[s]..(skip[s] + Limit - 1) /\ Rank(A, i) >= skip[s] + Limit)
      BY <1>4, <1>5
    <3> QED BY <3>1
  <2> DEFINE R == shown[s] \intersect P
  <2> HIDE DEF P, Q, R
  <2>3. IsFiniteSet(R) /\ IsFiniteSet(Q) /\ R \intersect Q = {} /\ Cardinality(R) \in Nat /\ Cardinality(Q) \in Nat
    BY <1>7, <2>2 DEF R
  <2>4. Cardinality(R \union Q) = Cardinality(R) + Cardinality(Q) - Cardinality(R \intersect Q)
    BY <2>3, FS_Union
  <2>5. Cardinality(R \intersect Q) = 0
    BY <2>3, FS_EmptySet
  <2>6. Cardinality(R \union Q) = Cardinality(R) + Cardinality(Q)
    BY <2>3, <2>4, <2>5
  <2> QED BY <2>1, <2>6 DEF R
<1>10. Repeated(s)' \in SUBSET Q /\ Missed(s)' \in SUBSET Missed(s)
  <2>1. CASE HasMore(s)
    <3>1. skip'[s] = skip[s] + Limit /\ mode'[s] = "count"
      BY <2>1 DEF PageRows, IndexTypeOK
    <3>2. ASSUME NEW i \in Repeated(s)' PROVE i \in Q
      <4>1. i \in A /\ Rank(A, i) >= skip[s] + Limit /\ i \in shown[s] \union P
        BY <1>2, <3>1, <3>2 DEF Repeated
      <4>2. i \notin P
        BY <1>4, <1>5, <4>1
      <4> QED BY <4>1, <4>2
    <3>3. ASSUME NEW i \in Missed(s)' PROVE i \in Missed(s)
      <4>1. i \in steady[s] /\ i \notin shown[s] /\ i \notin P /\ i \in A
        BY <1>2, <1>6, <3>3 DEF Missed
      <4>2. Rank(A, i) < skip[s] + Limit
        BY <1>2, <3>1, <3>3 DEF Missed
      <4>3. Rank(A, i) < skip[s]
        BY <1>4, <1>5, <4>1, <4>2
      <4> QED BY <4>1, <4>3 DEF Missed
    <3> QED BY <3>2, <3>3
  <2>2. CASE ~HasMore(s)
    <3>1. mode'[s] = "offsetEnded"
      BY <2>2 DEF PageRows, IndexTypeOK
    <3>2. Repeated(s)' = {}
      BY <3>1 DEF Repeated
    <3>3. ASSUME NEW i \in Missed(s)' PROVE i \in Missed(s)
      <4>1. i \in steady[s] /\ i \notin shown[s] /\ i \notin P /\ i \in A
        BY <1>2, <1>6, <3>3 DEF Missed
      <4>2. Rank(A, i) < skip[s] \/ Rank(A, i) >= total[s]
        BY <1>4, <1>5, <2>2, <4>1 DEF HasMore
      <4> QED BY <1>1, <4>1, <4>2 DEF Missed
    <3> QED BY <3>2, <3>3
  <2> QED BY <2>1, <2>2
<1>11. /\ Cardinality(Repeated(s)') <= Cardinality(Q) /\ Cardinality(Repeated(s)') \in Nat
       /\ Cardinality(Missed(s)') <= Cardinality(Missed(s)) /\ Cardinality(Missed(s)') \in Nat
  <2>1. Cardinality(Repeated(s)') <= Cardinality(Q) /\ IsFiniteSet(Repeated(s)')
    BY <1>7, <1>10, FS_Subset
  <2>2. IsFiniteSet(Missed(s))
    BY <1>4, SubsetsOfIds
  <2>3. Cardinality(Missed(s)') <= Cardinality(Missed(s)) /\ IsFiniteSet(Missed(s)')
    BY <1>10, <2>2, FS_Subset
  <2> QED BY <2>1, <2>3, FS_CardinalityType
<1> HIDE DEF P, Q, A
<1> QED BY <1>2, <1>3, <1>4, <1>7, <1>8, <1>9, <1>11

LEMMA OffsetInductive ==
    ASSUME IndexTypeOK, ScanInv, OffsetInv, [IndexNext]_allVars
    PROVE  OffsetInv'
<1>1. CASE \E w \in Ids : WritesTo(w) /\ UNCHANGED indexVars
  BY <1>1, IndexTypeInductive, WriteDrift
\* The other sessions do not notice a step of a scan.
<1>2. ASSUME NEW s \in Sessions, ScanStep(s), NEW r \in Sessions, r # s,
             mode'[r] \in {"count", "page", "offsetEnded"}
      PROVE  /\ Cardinality(Missed(r)') <= moved'[r]
             /\ received'[r] - Cardinality(shown'[r]) + Cardinality(Repeated(r)') <= moved'[r]
  <2>1. /\ mode'[r] = mode[r] /\ skip'[r] = skip[r] /\ total'[r] = total[r]
        /\ shown'[r] = shown[r] /\ received'[r] = received[r]
        /\ steady'[r] = steady[r] /\ moved'[r] = moved[r] /\ Active' = Active
    <3>1. CASE \E how \in {"cursor", "count"} : BeginScan(s, how)
      BY <1>2, <3>1 DEF BeginScan, scanVars, seenVars, IndexTypeOK, Active
    <3>2. CASE CursorPage(s)
      BY <1>2, <3>2 DEF CursorPage, Show, ghostVars, IndexTypeOK, Active
    <3>3. CASE CountRows(s)
      BY <1>2, <3>3 DEF CountRows, seenVars, ghostVars, IndexTypeOK, Active
    <3>4. CASE PageRows(s)
      BY <1>2, <3>4 DEF PageRows, Show, ghostVars, IndexTypeOK, Active
    <3> QED BY <1>2, <3>1, <3>2, <3>3, <3>4 DEF ScanStep
  <2>2. Missed(r)' = Missed(r) /\ Repeated(r)' = Repeated(r)
    BY <2>1 DEF Missed, Repeated
  <2> QED BY <1>2, <2>1, <2>2 DEF OffsetInv
<1>3. ASSUME NEW s \in Sessions, ScanStep(s), mode'[s] \in {"count", "page", "offsetEnded"}
      PROVE  /\ Cardinality(Missed(s)') <= moved'[s]
             /\ received'[s] - Cardinality(shown'[s]) + Cardinality(Repeated(s)') <= moved'[s]
  <2>0. /\ Cardinality(Missed(s)) \in Nat /\ Cardinality(Repeated(s)) \in Nat /\ moved[s] \in Nat
        /\ \A i \in Active : Rank(Active, i) \in Nat /\ Rank(Active, i) < Cardinality(Active)
    <3>1. ASSUME NEW i \in Active PROVE Rank(Active, i) \in Nat /\ Rank(Active, i) < Cardinality(Active)
      <4> DEFINE Lower == {j \in Active : j < i}
      <4>1. i \in Ids /\ i \in Nat
        BY ActiveType, IdsAreNumbers
      <4>2. Lower \in SUBSET Active /\ i \notin Lower
        BY <4>1
      <4>3. Cardinality(Lower) <= Cardinality(Active) /\ Cardinality(Lower) # Cardinality(Active)
        BY <4>2, ActiveType, SubsetsOfIds, FS_Subset
      <4>4. Cardinality(Lower) \in Nat /\ Cardinality(Active) \in Nat
        BY <4>2, ActiveType, SubsetsOfIds
      <4> QED BY <4>3, <4>4 DEF Rank
    <3> QED BY <3>1, OffsetSets
  <2>1. CASE \E how \in {"cursor", "count"} : BeginScan(s, how)
    <3>1. /\ mode[s] = "new" /\ mode'[s] = "count" /\ Active' = Active
          /\ skip'[s] = skip[s] /\ shown'[s] = shown[s] /\ received'[s] = received[s] /\ moved'[s] = moved[s]
          /\ steady'[s] = Active
      BY <1>3, <2>1 DEF BeginScan, scanVars, seenVars, IndexTypeOK, Active
    <3>2. skip[s] = 0 /\ shown[s] = {} /\ received[s] = 0
      BY <3>1 DEF ScanInv
    <3>3. Missed(s)' = {} /\ Repeated(s)' = {}
      BY <2>0, <3>1, <3>2 DEF Missed, Repeated
    <3> QED BY <2>0, <3>1, <3>2, <3>3, FS_EmptySet
  <2>2. CASE CursorPage(s)
    BY <1>3, <2>2 DEF CursorPage, IndexTypeOK
  <2>3. CASE CountRows(s)
    <3>1. /\ mode[s] = "count" /\ mode'[s] = "page" /\ Active' = Active
          /\ skip'[s] = skip[s] /\ shown'[s] = shown[s] /\ received'[s] = received[s] /\ moved'[s] = moved[s]
          /\ steady'[s] = steady[s] /\ total'[s] = Cardinality(Active)
      BY <2>3 DEF CountRows, seenVars, ghostVars, IndexTypeOK, Active
    <3>2. steady[s] \subseteq Active /\ Cardinality(Active) \in Nat
      BY ActiveType, SubsetsOfIds DEF ScanInv
    <3>3. Missed(s)' = Missed(s) /\ Repeated(s)' = Repeated(s)
      BY <2>0, <3>1, <3>2 DEF Missed, Repeated
    <3> QED BY <3>1, <3>3 DEF OffsetInv
  <2>4. CASE PageRows(s)
    BY <2>4, PageDrift
  <2> QED BY <1>3, <2>1, <2>2, <2>3, <2>4 DEF ScanStep
<1>4. CASE \E s \in Sessions : ScanStep(s)
  BY <1>2, <1>3, <1>4 DEF OffsetInv
<1>5. CASE Quiet
  <2>1. ASSUME NEW s \in Sessions, mode'[s] \in {"count", "page", "offsetEnded"}
        PROVE  mode'[s] = mode[s] /\ Missed(s)' = Missed(s) /\ Repeated(s)' = Repeated(s)
    BY <1>5, <2>1 DEF Quiet, scanVars, seenVars, ghostVars, Missed, Repeated, Active
  <2> QED BY <1>5, <2>1 DEF Quiet, OffsetInv, scanVars, seenVars, ghostVars
<1> QED BY <1>1, <1>4, <1>5, ListingSteps

\* A scan by offset, for any size of a page and any writes between its
\* statements, misses and repeats at most one record for every record that
\* went, or came in front of another, meanwhile.
THEOREM OffsetDriftIsBounded == IndexSpec => []OffsetDrift
<1>1. IndexInit => IndexTypeOK /\ ScanInv /\ OffsetInv
  <2>1. IndexInit => OffsetInv
    BY DEF IndexInit, ListingInit, OffsetInv
  <2> QED BY <2>1, IndexTypeInitially, ScansInitially
<1>2. IndexTypeOK /\ ScanInv /\ OffsetInv /\ [IndexNext]_allVars
        => (IndexTypeOK /\ ScanInv /\ OffsetInv)'
  BY IndexTypeInductive, ScanInductive, OffsetInductive
<1>3. IndexTypeOK /\ OffsetInv => OffsetDrift
  <2> SUFFICES ASSUME IndexTypeOK, OffsetInv, NEW s \in Sessions, mode[s] = "offsetEnded"
               PROVE  /\ Cardinality(steady[s] \ shown[s]) <= moved[s]
                      /\ received[s] - Cardinality(shown[s]) <= moved[s]
    BY DEF OffsetDrift
  <2>1. Missed(s) = steady[s] \ shown[s]
    BY DEF Missed
  <2>2. /\ Cardinality(Missed(s)) <= moved[s]
        /\ received[s] - Cardinality(shown[s]) + Cardinality(Repeated(s)) <= moved[s]
    BY DEF OffsetInv
  <2>3. /\ Cardinality(Repeated(s)) \in Nat /\ Cardinality(shown[s]) \in Nat
        /\ received[s] \in Nat /\ moved[s] \in Nat
    BY OffsetSets
  <2> QED BY <2>1, <2>2, <2>3
<1> QED BY <1>1, <1>2, <1>3, PTL DEF IndexSpec

-----------------------------------------------------------------------------
(* Fetching *)

PcValues == Settled \union {"waiting", "fetching", "sleeping"}

LEMMA FetchingTypeInductive == TypeOK /\ [Next]_vars => TypeOK'
<1> SUFFICES ASSUME TypeOK, [Next]_vars PROVE TypeOK'
  OBVIOUS
<1> USE DEF TypeOK, PcValues
<1>0. 1 \in Jobs /\ Len(Page) \in Nat
  BY FetchingAssumption DEF Jobs
<1>1. ASSUME NEW r \in Requests, NEW k \in Scrapers \union {"enrich"},
             NEW jobs \in [Jobs -> PcValues], Begin(r, k, jobs)
      PROVE  TypeOK'
  BY <1>0, <1>1 DEF Begin
<1>2. ASSUME NEW r \in Requests, NEW n, NEW found, Enrich(r, n, found) PROVE TypeOK'
  <2> DEFINE jobs == [j \in Jobs |-> IF j > n THEN "absent" ELSE IF j \in found THEN "waiting" ELSE "missing"]
  <2>1. jobs \in [Jobs -> PcValues]
    BY DEF Settled
  <2>2. Begin(r, "enrich", jobs)
    BY <1>2 DEF Enrich
  <2> HIDE DEF jobs
  <2> QED BY <1>1, <2>1, <2>2
<1>3. ASSUME NEW r \in Requests, NEW k \in Scrapers, Scrape(r, k) PROVE TypeOK'
  <2> DEFINE jobs == [j \in Jobs |-> IF j = 1 THEN "waiting" ELSE "absent"]
  <2>1. jobs \in [Jobs -> PcValues]
    BY DEF Settled
  <2>2. Begin(r, k, jobs)
    BY <1>3 DEF Scrape
  <2> HIDE DEF jobs
  <2> QED BY <1>1, <2>1, <2>2
<1>4. ASSUME NEW r \in Requests, NEW j \in Jobs, Acquire(r, j) \/ Wake(r, j) \/ FetchReturns(r, j)
      PROVE  TypeOK'
  <2>1. CASE Acquire(r, j)
    BY <2>1 DEF Acquire, scrapeVars
  <2>2. CASE Wake(r, j)
    BY <2>2 DEF Wake, scrapeVars
  <2>3. CASE FetchReturns(r, j)
    BY <2>3 DEF FetchReturns, scrapeVars, Settled
  <2> QED BY <1>4, <2>1, <2>2, <2>3
<1>5. ASSUME NEW r \in Requests, NEW j \in Jobs, FetchRaises(r, j) PROVE TypeOK'
  <2>1. Returned(r) \subseteq PageItems
    BY DEF Returned, PageItems
  <2>2. pc' \in [Requests -> [Jobs -> PcValues]]
    BY <1>5 DEF FetchRaises, Settled
  <2> QED BY <1>0, <1>5, <2>1, <2>2 DEF FetchRaises
<1>6. ASSUME NEW r \in Requests, ScrapeReturns(r) PROVE TypeOK'
  <2> DEFINE some == {Page[i] : i \in Considered(r)}
  <2>1. PICK fp \in SUBSET some :
              /\ seen' = [seen EXCEPT ![r] = some]
              /\ items' = [items EXCEPT ![r] = Fresh(r, fp)]
              /\ lost' = [lost EXCEPT ![r] = fp]
    BY <1>6 DEF ScrapeReturns
  <2>2. Fresh(r, fp) \in SUBSET Places /\ some \in SUBSET PageItems /\ fp \in SUBSET PageItems
    BY DEF Fresh, Considered, PageItems
  <2> HIDE DEF some
  <2>3. pc' \in [Requests -> [Jobs -> PcValues]]
    BY <1>0, <1>6 DEF ScrapeReturns, Settled
  <2> QED BY <1>6, <2>1, <2>2, <2>3 DEF ScrapeReturns
<1>7. ASSUME NEW r \in Requests, ReadItem(r) PROVE TypeOK'
  <2>1. read[r] + 1 \in Places /\ Page[read[r] + 1] \in PageItems
    BY <1>0, <1>7 DEF ReadItem, Places, PageItems
  <2>2. read' \in [Requests -> 0..Len(Page)]
    BY <1>0, <1>7 DEF ReadItem
  <2>3. seen' \in [Requests -> SUBSET PageItems] /\ lost' \in [Requests -> SUBSET PageItems]
        /\ items' \in [Requests -> SUBSET Places]
    <3> DEFINE i == Page[read[r] + 1]
    <3>1. /\ seen' = seen \/ seen' = [seen EXCEPT ![r] = @ \union {i}]
          /\ lost' = lost \/ lost' = [lost EXCEPT ![r] = @ \union {i}]
          /\ items' = items \/ items' = [items EXCEPT ![r] = @ \union {read[r] + 1}]
      BY <1>7 DEF ReadItem
    <3>2. /\ seen \in [Requests -> SUBSET PageItems] /\ lost \in [Requests -> SUBSET PageItems]
          /\ items \in [Requests -> SUBSET Places] /\ i \in PageItems
      BY <2>1
    <3> HIDE DEF i, TypeOK
    <3>3. /\ [seen EXCEPT ![r] = @ \union {i}] \in [Requests -> SUBSET PageItems]
          /\ [lost EXCEPT ![r] = @ \union {i}] \in [Requests -> SUBSET PageItems]
      BY <3>2
    <3>4. [items EXCEPT ![r] = @ \union {read[r] + 1}] \in [Requests -> SUBSET Places]
      BY <2>1, <3>2
    <3> QED BY <3>1, <3>2, <3>3, <3>4
  <2> QED BY <1>7, <2>2, <2>3 DEF ReadItem
<1>8. ASSUME NEW r \in Requests,
             \/ PageDone(r) \/ Answer(r) \/ Cancel(r)
             \/ ScrapeRaises(r) \/ NotInstalled(r)
      PROVE  TypeOK'
  <2>1. CASE PageDone(r)
    <3>1. FirstItems(items[r]) \in SUBSET Places
      BY DEF FirstItems
    <3>2. pc' \in [Requests -> [Jobs -> PcValues]]
      BY <1>0, <2>1 DEF PageDone, Settled
    <3> QED BY <2>1, <3>1, <3>2 DEF PageDone
  <2>2. CASE Answer(r)
    BY <2>2 DEF Answer, scrapeVars
  <2>3. CASE Cancel(r)
    BY <2>3 DEF Cancel, scrapeVars, Settled
  <2>4. CASE ScrapeRaises(r) \/ NotInstalled(r)
    <3>1. pc' = [pc EXCEPT ![r][1] = "failed"] /\ UNCHANGED <<kind, tries, scrapeVars>>
      BY <2>4 DEF ScrapeRaises, NotInstalled
    <3>2. pc' \in [Requests -> [Jobs -> PcValues]]
      BY <1>0, <3>1 DEF Settled
    <3> QED BY <3>1, <3>2 DEF scrapeVars
  <2> QED BY <1>8, <2>1, <2>2, <2>3, <2>4
<1>9. CASE UNCHANGED vars
  BY <1>9 DEF vars
<1> QED BY <1>2, <1>3, <1>4, <1>5, <1>6, <1>7, <1>8, <1>9 DEF Next, JobStep

\* What ScrapeComplete says of one scrape.
Complete(r) ==
    /\ Cardinality(items[r]) <= PageLimit
    /\ \A i, j \in items[r] : Page[i] = Page[j] => i = j
    /\ Returned(r) \intersect lost[r] = {}
    /\ \A p \in Considered(r) :
          \/ Page[p] \in Returned(r) \union lost[r]
          \/ Cardinality(items[r]) = PageLimit /\ \A i \in items[r] : i < p

\* A scrape has one job.  Until it is done a browser remembers what it has
\* taken and lost, and with it all that the attempt has read so far; what it
\* has taken stands on the page for the first time.
OneJob(r) == kind[r] \in Scrapers => \A j \in Jobs \ {1} : pc[r][j] = "absent"
Result(r) == kind[r] \in Scrapers /\ pc[r][1] = "ok" => Complete(r)
Memory(r) ==
    /\ Returned(r) \intersect lost[r] = {}
    /\ seen[r] = Returned(r) \union lost[r]
    /\ \A i \in 1..read[r] : Page[i] \in seen[r]
    /\ \A i \in items[r] : \A h \in 1..(i-1) : Page[h] # Page[i]
BrowserMemory(r) == kind[r] = "browser" /\ pc[r][1] # "ok" => Memory(r)
ScrapeInv == \A r \in Requests : OneJob(r) /\ Result(r) /\ BrowserMemory(r)

LEMMA LeastNumber ==
    ASSUME NEW S \in SUBSET Nat, S # {}
    PROVE  \E m \in S : \A k \in S : m <= k
<1>1. PICK m \in S : \A k \in S : ~(<<k, m>> \in OpToRel(<, Nat))
  BY NatLessThanWellFounded, WFMin
<1>2. \A k \in S : ~(k < m)
  BY <1>1 DEF OpToRel
<1> QED BY <1>2

LEMMA PlacesFacts ==
    /\ Len(Page) \in Nat /\ PageLimit \in Nat
    /\ Places \in SUBSET Nat /\ \A i \in Places : 1 <= i /\ i <= Len(Page)
    /\ IsFiniteSet(Places)
    /\ \A i \in Places : \A h \in 1..i : h \in Places
<1>1. Len(Page) \in Nat /\ PageLimit \in Nat
  BY FetchingAssumption
<1>2. IsFiniteSet(1..Len(Page))
  BY <1>1, FS_Interval
<1> QED BY <1>1, <1>2 DEF Places

\* The selection of new items takes the first of equal ones.
LEMMA FreshItems ==
    ASSUME NEW r \in Requests, kind[r] \in {"http", "html"}, NEW fp
    PROVE  /\ Fresh(r, fp) \in SUBSET Places
           /\ Cardinality(Fresh(r, fp)) <= PageLimit
           /\ \A i \in Fresh(r, fp) : Page[i] \notin fp
           /\ \A i, j \in Fresh(r, fp) : Page[i] = Page[j] => i = j
           /\ \A p \in Considered(r) : Page[p] \in {Page[i] : i \in Fresh(r, fp)} \union fp
<1> DEFINE F == Fresh(r, fp)
<1>0. F \in SUBSET Places /\ F \in SUBSET (1..PageLimit) /\ F \in SUBSET Nat
  <2>1. ASSUME NEW i \in F PROVE i \in Places /\ i <= PageLimit
    BY DEF Fresh, Considered
  <2>2. \A i \in F : i \in Nat /\ 1 <= i /\ PageLimit \in Nat
    BY <2>1, PlacesFacts
  <2> QED BY <2>1, <2>2
<1>1. Cardinality(F) <= PageLimit
  <2>1. IsFiniteSet(1..PageLimit) /\ Cardinality(1..PageLimit) = PageLimit
    BY PlacesFacts, FS_Interval
  <2>2. Cardinality(F) <= Cardinality(1..PageLimit)
    BY <1>0, <2>1, FS_Subset
  <2> QED BY <2>1, <2>2
<1>2. ASSUME NEW i \in F, NEW j \in F, i < j PROVE Page[i] # Page[j]
  <2>1. i \in 1..(j - 1)
    BY <1>0, <1>2, PlacesFacts
  <2> QED BY <2>1 DEF Fresh
<1>3. ASSUME NEW i \in F, NEW j \in F, Page[i] = Page[j] PROVE i = j
  BY <1>0, <1>2, <1>3
<1>4. ASSUME NEW p \in Considered(r), Page[p] \notin fp
      PROVE  \E m \in F : Page[m] = Page[p]
  <2> DEFINE S == {i \in Considered(r) : Page[i] = Page[p]}
  <2>1. S \in SUBSET Nat /\ S # {}
    BY PlacesFacts DEF Considered
  <2>2. PICK m \in S : \A k \in S : m <= k
    BY <2>1, LeastNumber
  <2>3. ASSUME NEW h \in 1..(m-1) PROVE Page[h] # Page[p]
    <3>1. m \in Nat /\ h \in Nat /\ h < m /\ m \in Considered(r) /\ Page[m] = Page[p]
      BY <2>1, <2>2
    <3>2. h \in Places
      BY <3>1, PlacesFacts DEF Considered
    <3>3. m <= PageLimit /\ ~(kind[r] = "html" /\ Page[m] = Untitled)
      BY <3>1 DEF Considered
    <3>4. h <= PageLimit
      BY <3>1, <3>3, PlacesFacts
    <3>5. h \notin S
      BY <2>2, <3>1
    <3> QED BY <3>1, <3>2, <3>3, <3>4, <3>5 DEF Considered
  <2>4. Page[m] \notin {Page[h] : h \in 1..(m-1)} \union fp
    BY <1>4, <2>2, <2>3
  <2> QED BY <2>2, <2>4 DEF Fresh
<1>5. ASSUME NEW i \in F PROVE Page[i] \notin fp
  BY DEF Fresh
<1> QED BY <1>0, <1>1, <1>3, <1>4, <1>5

\* items[:limit] returns at most limit items, and cuts only what stands behind
\* limit items.
LEMMA FirstItemsCut ==
    ASSUME NEW S \in SUBSET Places
    PROVE  /\ FirstItems(S) \subseteq S
           /\ Cardinality(FirstItems(S)) <= PageLimit
           /\ \A i \in S \ FirstItems(S) :
                 /\ Cardinality(FirstItems(S)) = PageLimit
                 /\ \A f \in FirstItems(S) : f < i
<1> DEFINE F == FirstItems(S)
           Upto(i) == {h \in S : h <= i}
<1>0. /\ S \in SUBSET Nat /\ F \subseteq S /\ PageLimit \in Nat
      /\ \A i \in S : i \in F <=> Cardinality(Upto(i)) <= PageLimit
  BY PlacesFacts DEF FirstItems
<1>1. IsFiniteSet(S) /\ IsFiniteSet(F) /\ Cardinality(F) \in Nat
  <2>1. IsFiniteSet(S)
    BY PlacesFacts, FS_Subset
  <2>2. IsFiniteSet(F)
    BY <1>0, <2>1, FS_Subset
  <2> QED BY <2>1, <2>2, FS_CardinalityType
<1>2. \A i \in S : IsFiniteSet(Upto(i)) /\ Cardinality(Upto(i)) \in Nat
  BY <1>1, FS_Subset, FS_CardinalityType
<1> HIDE DEF F
<1>3. ASSUME NEW i \in S \ F, NEW f \in F PROVE f < i
  <2> SUFFICES ASSUME i <= f PROVE FALSE
    BY <1>0
  <2>1. Upto(i) \subseteq Upto(f)
    <3>1. i \in Nat /\ f \in Nat
      BY <1>0
    <3>2. \A h \in S : h \in Nat /\ (h <= i => h <= f)
      BY <1>0, <3>1
    <3> QED BY <3>2
  <2>2. f \in S
    BY <1>0
  <2>3. IsFiniteSet(Upto(f)) /\ Cardinality(Upto(f)) \in Nat /\ Cardinality(Upto(i)) \in Nat
    BY <1>2, <2>2
  <2> HIDE DEF Upto
  <2>4. Cardinality(Upto(i)) <= Cardinality(Upto(f))
    BY <2>1, <2>3, FS_Subset
  <2> QED BY <1>0, <2>2, <2>3, <2>4
<1>4. ASSUME S \ F # {} PROVE Cardinality(F) >= PageLimit
  <2>1. PICK m \in S \ F : \A k \in S \ F : m <= k
    BY <1>0, <1>4, LeastNumber
  <2>2. Upto(m) = F \union {m}
    <3>1. m \in Nat /\ m \in S
      BY <1>0, <2>1
    <3>2. ASSUME NEW h \in Upto(m) PROVE h \in F \union {m}
      <4>1. h \in Nat /\ h <= m /\ (h \notin F => m <= h)
        BY <1>0, <2>1, <3>2
      <4> QED BY <3>1, <4>1
    <3>3. ASSUME NEW h \in F PROVE h \in Upto(m)
      <4>1. h < m /\ h \in S /\ h \in Nat
        BY <1>0, <1>3, <2>1
      <4>2. h <= m
        BY <3>1, <4>1
      <4> QED BY <4>1, <4>2
    <3>4. m \in Upto(m)
      BY <3>1
    <3> HIDE DEF Upto
    <3> QED BY <3>2, <3>3, <3>4
  <2>3. Cardinality(F \union {m}) = Cardinality(F) + 1
    BY <1>1, <2>1, FS_AddElement
  <2>4. ~(Cardinality(Upto(m)) <= PageLimit)
    BY <1>0, <2>1
  <2> HIDE DEF Upto
  <2> QED BY <1>0, <1>1, <2>2, <2>3, <2>4
<1>5. Cardinality(F) <= PageLimit
  <2>1. CASE F = {}
    BY <1>0, <2>1, FS_EmptySet
  <2>2. CASE F # {}
    <3> DEFINE T == {Len(Page) - i : i \in F}
    <3>1. T \in SUBSET Nat /\ T # {}
      <4>1. \A i \in F : i \in Nat /\ i <= Len(Page) /\ Len(Page) \in Nat
        BY <1>0, PlacesFacts
      <4> QED BY <2>2, <4>1
    <3>2. PICK t \in T : \A k \in T : t <= k
      BY <3>1, LeastNumber
    <3>3. PICK g \in F : t = Len(Page) - g
      BY <3>2
    <3>4. ASSUME NEW f \in F PROVE f <= g
      <4>1. f \in Nat /\ g \in Nat /\ Len(Page) \in Nat
        BY <1>0, PlacesFacts
      <4>2. Len(Page) - g <= Len(Page) - f
        BY <3>2, <3>3
      <4> QED BY <4>1, <4>2
    <3>5. F \subseteq Upto(g) /\ g \in S
      BY <1>0, <3>4
    <3>6. IsFiniteSet(Upto(g)) /\ Cardinality(Upto(g)) \in Nat /\ Cardinality(Upto(g)) <= PageLimit
      BY <1>0, <1>2, <3>3, <3>5
    <3> HIDE DEF Upto
    <3>7. Cardinality(F) <= Cardinality(Upto(g))
      BY <3>5, <3>6, FS_Subset
    <3> QED BY <1>0, <1>1, <3>6, <3>7
  <2> QED BY <2>1, <2>2
<1> QED BY <1>0, <1>1, <1>3, <1>4, <1>5 DEF F

\* A request is not touched by the steps of others.
LEMMA OthersUntouched ==
    ASSUME TypeOK, NEW q \in Requests, NEW r \in Requests, q # r,
           \/ \E n \in Jobs : \E found \in SUBSET (1..n) : Enrich(r, n, found)
           \/ \E k \in Scrapers : Scrape(r, k)
           \/ \E j \in Jobs : JobStep(r, j)
           \/ Answer(r)
           \/ Cancel(r)
    PROVE  /\ kind'[q] = kind[q] /\ pc'[q] = pc[q] /\ read'[q] = read[q]
           /\ seen'[q] = seen[q] /\ items'[q] = items[q] /\ lost'[q] = lost[q]
<1> USE DEF TypeOK, scrapeVars
<1>1. ASSUME NEW k, NEW jobs, Begin(r, k, jobs)
      PROVE  /\ kind'[q] = kind[q] /\ pc'[q] = pc[q] /\ read'[q] = read[q]
             /\ seen'[q] = seen[q] /\ items'[q] = items[q] /\ lost'[q] = lost[q]
  BY <1>1 DEF Begin
<1>2. ASSUME NEW j \in Jobs, Acquire(r, j) \/ Wake(r, j) \/ FetchReturns(r, j)
      PROVE  /\ kind'[q] = kind[q] /\ pc'[q] = pc[q] /\ read'[q] = read[q]
             /\ seen'[q] = seen[q] /\ items'[q] = items[q] /\ lost'[q] = lost[q]
  BY <1>2 DEF Acquire, Wake, FetchReturns
<1>3. ASSUME NEW j \in Jobs, FetchRaises(r, j)
      PROVE  /\ kind'[q] = kind[q] /\ pc'[q] = pc[q] /\ read'[q] = read[q]
             /\ seen'[q] = seen[q] /\ items'[q] = items[q] /\ lost'[q] = lost[q]
  BY <1>3 DEF FetchRaises
<1>4. ASSUME ScrapeReturns(r) \/ ReadItem(r) \/ ScrapeRaises(r) \/ NotInstalled(r)
      PROVE  /\ kind'[q] = kind[q] /\ pc'[q] = pc[q] /\ read'[q] = read[q]
             /\ seen'[q] = seen[q] /\ items'[q] = items[q] /\ lost'[q] = lost[q]
  BY <1>4 DEF ScrapeReturns, ReadItem, ScrapeRaises, NotInstalled
<1>5. ASSUME PageDone(r) \/ Answer(r) \/ Cancel(r)
      PROVE  /\ kind'[q] = kind[q] /\ pc'[q] = pc[q] /\ read'[q] = read[q]
             /\ seen'[q] = seen[q] /\ items'[q] = items[q] /\ lost'[q] = lost[q]
  BY <1>5 DEF PageDone, Answer, Cancel
<1> QED BY <1>1, <1>2, <1>3, <1>4, <1>5 DEF JobStep, Enrich, Scrape

\* A browser that has read the whole page returns a complete result.
LEMMA CutIsComplete ==
    ASSUME TypeOK, NEW r \in Requests, kind[r] = "browser", kind' = kind, Memory(r),
           read[r] = Len(Page), items'[r] = FirstItems(items[r]), lost'[r] = lost[r]
    PROVE  Complete(r)'
<1>0. items[r] \in SUBSET Places
  BY DEF TypeOK
<1>1. /\ items'[r] \subseteq items[r]
      /\ Cardinality(items'[r]) <= PageLimit
      /\ \A i \in items[r] \ items'[r] :
            Cardinality(items'[r]) = PageLimit /\ \A f \in items'[r] : f < i
  BY <1>0, FirstItemsCut
<1>2. ASSUME NEW i \in items[r], NEW j \in items[r], Page[i] = Page[j]
      PROVE  i = j
  <2>1. /\ i \in Nat /\ j \in Nat /\ 1 <= i /\ 1 <= j
    BY <1>0, PlacesFacts
  <2>2. ~(i \in 1..(j-1)) /\ ~(j \in 1..(i-1))
    BY <1>2 DEF Memory
  <2> QED BY <2>1, <2>2
<1>3. Returned(r)' \intersect lost'[r] = {}
  BY <1>1 DEF Memory, Returned
<1>4. ASSUME NEW p \in Places
      PROVE  \/ Page[p] \in (Returned(r) \union lost[r])'
             \/ Cardinality(items'[r]) = PageLimit /\ \A i \in items'[r] : i < p
  <2>1. p \in Nat /\ 1 <= p /\ Page[p] \in Returned(r) \union lost[r]
    BY PlacesFacts DEF Memory, Places
  <2>2. CASE Page[p] \in lost[r]
    BY <2>2
  <2>3. CASE Page[p] \in Returned(r)
    <3>1. PICK q \in items[r] : Page[q] = Page[p]
      BY <2>3 DEF Returned
    <3>2. q \in Nat /\ 1 <= q /\ ~(p \in 1..(q-1))
      BY <1>0, <3>1, PlacesFacts DEF Memory
    <3>3. q <= p
      BY <2>1, <3>2
    <3>4. CASE q \in items'[r]
      BY <3>1, <3>4 DEF Returned
    <3>5. CASE q \notin items'[r]
      <4>1. Cardinality(items'[r]) = PageLimit /\ \A f \in items'[r] : f < q
        BY <1>1, <3>1, <3>5
      <4>2. \A f \in items'[r] : f \in Nat
        BY <1>0, <1>1, PlacesFacts
      <4>3. \A f \in items'[r] : f < p
        BY <2>1, <3>2, <3>3, <4>1, <4>2
      <4> QED BY <4>1, <4>3
    <3> QED BY <3>4, <3>5
  <2> QED BY <2>1, <2>2, <2>3
<1>5. Considered(r)' \subseteq Places
  BY DEF Considered
<1> QED BY <1>1, <1>2, <1>3, <1>4, <1>5 DEF Complete

LEMMA ScrapeStep ==
    ASSUME TypeOK, NEW r \in Requests, OneJob(r), Result(r), BrowserMemory(r),
           \/ \E n \in Jobs : \E found \in SUBSET (1..n) : Enrich(r, n, found)
           \/ \E k \in Scrapers : Scrape(r, k)
           \/ \E j \in Jobs : JobStep(r, j)
           \/ Answer(r)
           \/ Cancel(r)
    PROVE  OneJob(r)' /\ Result(r)' /\ BrowserMemory(r)'
<1> DEFINE Goal == OneJob(r)' /\ Result(r)' /\ BrowserMemory(r)'
<1>0. 1 \in Jobs /\ Len(Page) \in Nat
  BY FetchingAssumption DEF Jobs
<1>1. ASSUME NEW n, NEW found, Enrich(r, n, found) PROVE Goal
  <2>1. kind'[r] = "enrich"
    BY <1>1 DEF Enrich, Begin, TypeOK
  <2> QED BY <2>1 DEF OneJob, Result, BrowserMemory, Scrapers
<1>2. ASSUME NEW k \in Scrapers, Scrape(r, k) PROVE Goal
  <2>1. /\ pc'[r] = [j \in Jobs |-> IF j = 1 THEN "waiting" ELSE "absent"] /\ read'[r] = 0
        /\ seen'[r] = {} /\ items'[r] = {} /\ lost'[r] = {}
    BY <1>2 DEF Scrape, Begin, TypeOK
  <2>2. pc'[r][1] = "waiting" /\ \A j \in Jobs \ {1} : pc'[r][j] = "absent"
    BY <1>0, <2>1
  <2> QED BY <2>1, <2>2 DEF OneJob, Result, BrowserMemory, Memory, Returned
\* Steps that leave the scrape's result alone.
<1>3. ASSUME UNCHANGED kind, read'[r] = read[r], seen'[r] = seen[r], items'[r] = items[r], lost'[r] = lost[r],
             NEW j \in Jobs, \A i \in Jobs \ {j} : pc'[r][i] = pc[r][i],
             pc[r][j] \notin {"absent", "ok"}, pc'[r][j] # "ok"
      PROVE  Goal
  <2>1. Returned(r)' = Returned(r) /\ (Memory(r)' <=> Memory(r))
    BY <1>3 DEF Returned, Memory
  <2>2. Complete(r)' <=> Complete(r)
    BY <1>3 DEF Complete, Returned, Considered
  <2> QED BY <1>0, <1>3, <2>1, <2>2 DEF OneJob, Result, BrowserMemory
<1>4. ASSUME NEW j \in Jobs, Acquire(r, j) PROVE Goal
  <2>1. pc'[r][j] = "fetching" /\ pc[r][j] = "waiting" /\ \A i \in Jobs \ {j} : pc'[r][i] = pc[r][i]
    BY <1>4 DEF Acquire, TypeOK
  <2> QED BY <1>3, <1>4, <2>1 DEF Acquire, scrapeVars
<1>5. ASSUME NEW j \in Jobs, Wake(r, j) PROVE Goal
  <2>1. pc'[r][j] = "fetching" /\ pc[r][j] = "sleeping" /\ \A i \in Jobs \ {j} : pc'[r][i] = pc[r][i]
    BY <1>5 DEF Wake, TypeOK
  <2> QED BY <1>3, <1>5, <2>1 DEF Wake, scrapeVars
<1>6. ASSUME NEW j \in Jobs, FetchReturns(r, j) PROVE Goal
  BY <1>6 DEF FetchReturns, OneJob, Result, BrowserMemory, Scrapers
<1>7. CASE ScrapeRaises(r) \/ NotInstalled(r)
  <2>1. /\ pc'[r][1] = "failed" /\ pc[r][1] \in {"fetching", "waiting"}
        /\ \A i \in Jobs \ {1} : pc'[r][i] = pc[r][i]
    BY <1>0, <1>7 DEF ScrapeRaises, NotInstalled, TypeOK
  <2> QED BY <1>0, <1>3, <1>7, <2>1 DEF ScrapeRaises, NotInstalled, scrapeVars
<1>8. CASE Answer(r) \/ Cancel(r)
  <2>1. kind'[r] = "none"
    BY <1>8 DEF Answer, Cancel, TypeOK
  <2> QED BY <2>1 DEF OneJob, Result, BrowserMemory, Scrapers
<1>9. ASSUME NEW j \in Jobs, FetchRaises(r, j) PROVE Goal
  <2>1. /\ kind' = kind /\ pc[r][j] = "fetching" /\ pc'[r][j] \in {"failed", "sleeping"}
        /\ \A i \in Jobs \ {j} : pc'[r][i] = pc[r][i]
        /\ read'[r] = 0 /\ items'[r] = {} /\ lost'[r] = lost[r] \union Returned(r) /\ seen'[r] = seen[r]
    BY <1>9 DEF FetchRaises, TypeOK
  <2>2. kind[r] \in Scrapers => j = 1
    BY <2>1 DEF OneJob
  <2>3. Returned(r)' = {}
    BY <2>1 DEF Returned
  <2>4. kind[r] = "browser" => Memory(r)'
    BY <2>1, <2>2, <2>3 DEF BrowserMemory, Memory, Scrapers
  <2> QED BY <2>1, <2>2, <2>4 DEF OneJob, Result, BrowserMemory
<1>10. CASE ScrapeReturns(r)
  <2>1. PICK fp :
              /\ items' = [items EXCEPT ![r] = Fresh(r, fp)]
              /\ lost' = [lost EXCEPT ![r] = fp]
    BY <1>10 DEF ScrapeReturns
  <2>2. items'[r] = Fresh(r, fp) /\ lost'[r] = fp /\ kind' = kind /\ kind[r] \in {"http", "html"}
        /\ \A i \in Jobs \ {1} : pc'[r][i] = pc[r][i]
    BY <1>0, <1>10, <2>1 DEF ScrapeReturns, TypeOK
  <2>3. /\ Cardinality(Fresh(r, fp)) <= PageLimit
        /\ \A i \in Fresh(r, fp) : Page[i] \notin fp
        /\ \A i, j \in Fresh(r, fp) : Page[i] = Page[j] => i = j
        /\ \A p \in Considered(r) : Page[p] \in {Page[i] : i \in Fresh(r, fp)} \union fp
    BY <2>2, FreshItems
  <2>4. Returned(r)' = {Page[i] : i \in Fresh(r, fp)} /\ Considered(r)' = Considered(r)
    BY <2>2 DEF Returned, Considered
  <2>5. Complete(r)'
    <3>1. Returned(r)' \intersect lost'[r] = {}
      BY <2>2, <2>3, <2>4
    <3> QED BY <2>2, <2>3, <2>4, <3>1 DEF Complete
  <2> QED BY <2>2, <2>5 DEF OneJob, Result, BrowserMemory
<1>11. CASE ReadItem(r)
  <2> DEFINE n == read[r] + 1
  <2>1. /\ kind[r] = "browser" /\ kind' = kind /\ pc' = pc /\ read'[r] = n /\ pc[r][1] = "fetching"
        /\ read[r] \in Nat /\ n \in Nat
    BY <1>11 DEF ReadItem, TypeOK
  <2>2. Memory(r)
    BY <2>1 DEF BrowserMemory
  <2>3. \A i \in 1..n : i \in 1..read[r] \/ i = n
    BY <2>1
  <2>4. ASSUME seen[r] \subseteq seen'[r], Page[n] \in seen'[r], Returned(r)' \intersect lost'[r] = {},
               seen'[r] = (Returned(r) \union lost[r])',
               \A i \in items'[r] : \A h \in 1..(i-1) : Page[h] # Page[i]
        PROVE  Goal
    <3>1. \A i \in 1..n : Page[i] \in seen'[r]
      BY <2>2, <2>3, <2>4 DEF Memory
    <3> HIDE DEF n
    <3>2. Memory(r)'
      BY <2>1, <2>4, <3>1 DEF Memory
    <3> QED BY <2>1, <3>2 DEF OneJob, Result, BrowserMemory
  <2>5. CASE /\ Page[n] \notin seen[r]
             /\ seen' = [seen EXCEPT ![r] = @ \union {Page[n]}]
             /\ items' = [items EXCEPT ![r] = @ \union {n}]
             /\ UNCHANGED lost
    <3>1. seen'[r] = seen[r] \union {Page[n]} /\ items'[r] = items[r] \union {n} /\ lost'[r] = lost[r]
      BY <2>5 DEF TypeOK
    <3>2. Returned(r)' = Returned(r) \union {Page[n]}
      BY <3>1 DEF Returned
    <3>3. Returned(r)' \intersect lost'[r] = {}
      BY <2>2, <2>5, <3>1, <3>2 DEF Memory
    <3>4. \A h \in 1..(n-1) : Page[h] # Page[n]
      BY <2>1, <2>2, <2>5 DEF Memory
    <3>5. seen'[r] = Returned(r)' \union lost'[r]
      BY <2>2, <3>1, <3>2 DEF Memory
    <3>6. \A i \in items'[r] : \A h \in 1..(i-1) : Page[h] # Page[i]
      <4> HIDE DEF n
      <4> QED BY <2>2, <3>1, <3>4 DEF Memory
    <3> QED BY <2>4, <3>1, <3>3, <3>5, <3>6
  <2>6. CASE Page[n] \in seen[r] /\ UNCHANGED <<seen, items, lost>>
    <3>1. Returned(r)' = Returned(r)
      BY <2>6 DEF Returned
    <3> QED BY <2>2, <2>4, <2>6, <3>1 DEF Memory
  <2>7. CASE /\ Page[n] \notin seen[r]
             /\ seen' = [seen EXCEPT ![r] = @ \union {Page[n]}]
             /\ lost' = [lost EXCEPT ![r] = @ \union {Page[n]}]
             /\ UNCHANGED items
    <3>1. seen'[r] = seen[r] \union {Page[n]} /\ items'[r] = items[r] /\ lost'[r] = lost[r] \union {Page[n]}
      BY <2>7 DEF TypeOK
    <3>2. Returned(r)' = Returned(r)
      BY <3>1 DEF Returned
    <3>3. Returned(r)' \intersect lost'[r] = {} /\ seen'[r] = Returned(r)' \union lost'[r]
      BY <2>2, <2>7, <3>1, <3>2 DEF Memory
    <3> QED BY <2>2, <2>4, <3>1, <3>3 DEF Memory
  <2> QED BY <1>11, <2>5, <2>6, <2>7 DEF ReadItem
<1>12. CASE PageDone(r)
  <2>1. /\ kind[r] = "browser" /\ kind' = kind /\ pc[r][1] = "fetching" /\ pc'[r][1] = "ok"
        /\ \A i \in Jobs \ {1} : pc'[r][i] = pc[r][i]
        /\ read[r] = Len(Page) /\ items'[r] = FirstItems(items[r]) /\ lost'[r] = lost[r]
    BY <1>0, <1>12 DEF PageDone, TypeOK
  <2>2. Memory(r)
    BY <2>1 DEF BrowserMemory
  <2>3. Complete(r)'
    BY <2>1, <2>2, CutIsComplete
  <2> QED BY <2>1, <2>3 DEF OneJob, Result, BrowserMemory
<1> QED BY <1>1, <1>2, <1>4, <1>5, <1>6, <1>7, <1>8, <1>9, <1>10, <1>11, <1>12 DEF JobStep

LEMMA ScrapeInductive ==
    ASSUME TypeOK, ScrapeInv, [Next]_vars
    PROVE  ScrapeInv'
<1>1. CASE UNCHANGED vars
  BY <1>1 DEF vars, ScrapeInv, OneJob, Result, Complete, Considered, BrowserMemory, Memory, Returned
<1>2. CASE Next
  <2>1. PICK r \in Requests :
           \/ \E n \in Jobs : \E found \in SUBSET (1..n) : Enrich(r, n, found)
           \/ \E k \in Scrapers : Scrape(r, k)
           \/ \E j \in Jobs : JobStep(r, j)
           \/ Answer(r)
           \/ Cancel(r)
    BY <1>2 DEF Next
  <2>2. OneJob(r)' /\ Result(r)' /\ BrowserMemory(r)'
    BY <2>1, ScrapeStep DEF ScrapeInv
  <2>3. ASSUME NEW q \in Requests, q # r PROVE OneJob(q)' /\ Result(q)' /\ BrowserMemory(q)'
    <3>1. /\ kind'[q] = kind[q] /\ pc'[q] = pc[q] /\ read'[q] = read[q]
          /\ seen'[q] = seen[q] /\ items'[q] = items[q] /\ lost'[q] = lost[q]
      BY <2>1, <2>3, OthersUntouched
    <3>2. Returned(q)' = Returned(q) /\ Considered(q)' = Considered(q)
      BY <3>1 DEF Returned, Considered
    <3>3. (Complete(q)' <=> Complete(q)) /\ (Memory(q)' <=> Memory(q))
      BY <3>1, <3>2 DEF Complete, Memory
    <3> QED BY <3>1, <3>3 DEF ScrapeInv, OneJob, Result, BrowserMemory
  <2> QED BY <2>2, <2>3 DEF ScrapeInv
<1> QED BY <1>1, <1>2

\* A scrape that succeeds returns at most limit items, none twice, and leaves
\* nothing out but what it took for a duplicate and what stands behind the
\* limit, for any page, any limit and any number of attempts.
THEOREM ScrapesAreComplete == Spec => []ScrapeComplete
<1>1. Init => TypeOK /\ ScrapeInv
  <2>1. Init => TypeOK
    BY FetchingAssumption DEF Init, TypeOK, Settled
  <2>2. Init => ScrapeInv
    BY DEF Init, ScrapeInv, OneJob, Result, BrowserMemory, Scrapers
  <2> QED BY <2>1, <2>2
<1>2. TypeOK /\ ScrapeInv /\ [Next]_vars => (TypeOK /\ ScrapeInv)'
  BY FetchingTypeInductive, ScrapeInductive
<1>3. TypeOK /\ ScrapeInv => ScrapeComplete
  BY DEF ScrapeInv, Result, Complete, ScrapeComplete
<1> QED BY <1>1, <1>2, <1>3, PTL DEF Spec

=============================================================================
