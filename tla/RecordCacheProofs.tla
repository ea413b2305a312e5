-------------------------- MODULE RecordCacheProofs --------------------------
(***************************************************************************)
(* Proofs about RecordCache, for any set of clients, any set of writes and *)
(* any number of faults: a stale entry is always about to be invalidated   *)
(* or has one of the known causes, and without such a cause a hit never    *)
(* hides an acknowledged write.                                            *)
(***************************************************************************)
EXTENDS RecordCache, TLAPS

\* One case for each action, so that a proof can cite its step.
Step(c) ==
    \/ Hit(c) \/ Miss(c)
    \/ \E o \in Ops : Load(c, o)
    \/ ReadRow(c) \/ Fill(c)
    \/ \E new \in BOOLEAN : Commit(c, new)
    \/ CommitGone(c) \/ Refresh(c) \/ Invalidate(c)
    \/ ReadFails(c)
    \/ \E new \in BOOLEAN : CommitFails(c, new)
    \/ RefreshFails(c)

\* The next-state relation is a step of a client or the expiry.
LEMMA NextCases == Next => (\E c \in Clients : Step(c)) \/ Expire
BY DEF Next, Step, Proceed, Fail

\* A row is shown as its version or not at all.
LEMMA ViewType ==
    ASSUME NEW r \in Rows
    PROVE  /\ View(r) \in Nat
           /\ r.status = "active" => View(r) = r.version /\ View(r) # Hidden
           /\ r.status # "active" => View(r) = Hidden
BY DEF View, Rows, Hidden

\* A write keeps the row's type, never lowers its version, and never makes a
\* hidden row visible.
LEMMA WrittenType ==
    ASSUME row \in Rows, row.status # "gone", NEW o \in AllOps, NEW new \in BOOLEAN
    PROVE  /\ Written(o, new) \in Rows
           /\ Written(o, new).version >= row.version
           /\ row.status # "active" => Written(o, new).status # "active"
           /\ o \in {"archive", "delete"} => Written(o, new).status # "active"
           /\ Written(o, new).status = "gone" <=> o = "delete"
<1>1. /\ row.version \in Nat \ {0}
      /\ row.status \in {"active", "archived", "gone"}
  BY DEF Rows
<1>2. row.version + 1 \in Nat \ {0}  BY <1>1
<1>3. Written(o, new).version \in Nat \ {0} /\ Written(o, new).version >= row.version
  BY <1>1, <1>2 DEF Written
<1>4. CASE o = "archive"  BY <1>1, <1>2, <1>4 DEF Written, Rows
<1>5. CASE o = "delete"  BY <1>1, <1>2, <1>5 DEF Written, Rows
<1>6. CASE o \in {"update", "process"}  BY <1>1, <1>2, <1>6 DEF Written, Rows
<1>. QED  BY <1>3, <1>4, <1>5, <1>6 DEF AllOps

\* What an action does to the set of causes: it keeps it within its type, and
\* it leaves it empty only if the entry is not stale.
LEMMA UncoveredType ==
    ASSUME NEW reason \in {"lost", "update", "archive"},
           cause \subseteq {"race", "lost", "update", "archive"},
           Uncovered(reason)
    PROVE  /\ cause' \subseteq {"race", "lost", "update", "archive"}
           /\ cause' = {} => cause = {} /\ (cache = Hidden \/ cache = View(row'))
BY DEF Uncovered

\* An acknowledgement raises what later GETs must show.
LEMMA AcknowledgeType ==
    ASSUME acked \in Acks, NEW c, val[c] \in Nat, Acknowledge(c)
    PROVE  /\ acked' \in Acks
           /\ acked'.version \in {val[c], acked.version}
           /\ acked'.hidden => acked.hidden \/ op[c] \in {"archive", "delete"}
<1>1. acked.version \in Nat /\ acked.hidden \in BOOLEAN  BY DEF Acks
<1>2. (acked.hidden \/ op[c] \in {"archive", "delete"}) \in BOOLEAN  OBVIOUS
<1>3. (IF val[c] > acked.version THEN val[c] ELSE acked.version) \in Nat  BY <1>1
<1>4. acked' \in Acks  BY <1>2, <1>3, Zenon DEF Acknowledge, Acks
<1>5. acked'.version \in {val[c], acked.version}  BY DEF Acknowledge
<1>6. acked'.hidden => acked.hidden \/ op[c] \in {"archive", "delete"}
  BY Zenon DEF Acknowledge
<1>. QED  BY <1>4, <1>5, <1>6

LEMMA AnswerType ==
    ASSUME NEW c \in Clients, NEW v \in Nat, NEW e \in BOOLEAN,
           answer \in [Clients -> [value : Nat, excused : BOOLEAN]], Answer(c, v, e)
    PROVE  answer' \in [Clients -> [value : Nat, excused : BOOLEAN]]
BY DEF Answer

-----------------------------------------------------------------------------
\* Every handler keeps the types: what it stores in Redis and in its locals is
\* a version, the row is never left half written, and no bound is passed.
THEOREM CacheTypeCorrect == Spec => []TypeOK
<1>1. Init => TypeOK
  BY RecordCacheAssumption DEF Init, TypeOK, Rows, Acks, AllOps, Hidden, NoAnswer
<1>2. TypeOK /\ [Next]_vars => TypeOK'
  <2> SUFFICES ASSUME TypeOK, [Next]_vars PROVE TypeOK'
    OBVIOUS
  <2>0. /\ row \in Rows /\ View(row) \in Nat
        /\ MaxFaults \in Nat /\ MaxWrites \in Nat /\ Ops \subseteq AllOps
        /\ faults \in 0..MaxFaults /\ writes \in 0..MaxWrites
    BY ViewType, RecordCacheAssumption DEF TypeOK
  <2>f. Fault => faults' \in 0..MaxFaults  BY <2>0 DEF Fault
  <2>1. ASSUME NEW c \in Clients, Hit(c) PROVE TypeOK'
    <3>1. (cause # {}) \in BOOLEAN  OBVIOUS
    <3>2. answer' \in [Clients -> [value : Nat, excused : BOOLEAN]]
      BY <2>0, <2>1, <3>1, AnswerType DEF Hit, TypeOK
    <3>. QED  BY <2>0, <2>1, <3>2 DEF Hit, BeginGet, request, TypeOK
  <2>2. ASSUME NEW c \in Clients, Miss(c) PROVE TypeOK'
    <3>1. NoAnswer \in [value : Nat, excused : BOOLEAN]  BY DEF NoAnswer, Hidden
    <3>. QED  BY <2>0, <2>f, <2>2, <3>1 DEF Miss, BeginGet, Goto, TypeOK
  <2>3. ASSUME NEW c \in Clients, NEW o \in Ops, Load(c, o) PROVE TypeOK'
    <3>1. writes' \in 0..MaxWrites  BY <2>0, <2>3 DEF Load
    <3>. QED  BY <2>0, <2>3, <3>1 DEF Load, Goto, ghosts, TypeOK
  <2>4. ASSUME NEW c \in Clients, ReadRow(c) PROVE TypeOK'
    <3>1. answer' \in [Clients -> [value : Nat, excused : BOOLEAN]]
      BY <2>4, AnswerType DEF ReadRow, TypeOK, Hidden
    <3>. QED  BY <2>0, <2>4, <3>1 DEF ReadRow, Goto, TypeOK
  <2>5. ASSUME NEW c \in Clients, Fill(c) PROVE TypeOK'
    <3>1. faults' \in 0..MaxFaults  BY <2>0, <2>f, <2>5 DEF Fill
    <3>2. cache' \in Nat /\ cause' \subseteq {"race", "lost", "update", "archive"}
      BY <2>5 DEF Fill, Stored, TypeOK
    <3>. QED  BY <2>5, <3>1, <3>2 DEF Fill, Answer, Goto, TypeOK
  <2>6. ASSUME NEW c \in Clients, NEW new \in BOOLEAN, Commit(c, new) PROVE TypeOK'
    <3>1. op[c] \in AllOps  BY DEF TypeOK
    <3>2. row' \in Rows  BY <2>0, <2>6, <3>1, WrittenType DEF Commit
    <3>3. row'.version \in Nat  BY <3>2 DEF Rows
    <3>4. cause' \subseteq {"race", "lost", "update", "archive"}
      BY <2>6, UncoveredType DEF Commit, TypeOK
    <3>. QED  BY <2>6, <3>2, <3>3, <3>4 DEF Commit, Goto, TypeOK
  <2>7. ASSUME NEW c \in Clients, CommitGone(c) PROVE TypeOK'
    <3>1. row.version \in Nat  BY <2>0 DEF Rows
    <3>. QED  BY <2>7, <3>1 DEF CommitGone, Goto, ghosts, TypeOK
  <2>8. ASSUME NEW c \in Clients, Refresh(c) PROVE TypeOK'
    <3>1. acked' \in Acks
      BY <2>8, AcknowledgeType DEF Refresh, TypeOK
    <3>. QED  BY <2>8, <3>1 DEF Refresh, Goto, TypeOK
  <2>9. ASSUME NEW c \in Clients, Invalidate(c) PROVE TypeOK'
    <3>1. acked' \in Acks
      BY <2>9, AcknowledgeType DEF Invalidate, TypeOK
    <3>2. faults' \in 0..MaxFaults  BY <2>0, <2>f, <2>9 DEF Invalidate
    <3>3. cache' \in Nat  BY <2>9 DEF Invalidate, TypeOK, Hidden
    <3>4. Uncovered("lost") => cause' \subseteq {"race", "lost", "update", "archive"}
      BY UncoveredType DEF TypeOK
    <3>5. cause' \subseteq {"race", "lost", "update", "archive"}
      BY <2>9, <3>4 DEF Invalidate
    <3>. QED  BY <2>9, <3>1, <3>2, <3>3, <3>5 DEF Invalidate, Goto, TypeOK
  <2>10. ASSUME NEW c \in Clients, ReadFails(c) PROVE TypeOK'
    BY <2>f, <2>10 DEF ReadFails, Goto, ghosts, TypeOK
  <2>11. ASSUME NEW c \in Clients, NEW new \in BOOLEAN, CommitFails(c, new)
         PROVE TypeOK'
    <3>1. op[c] \in AllOps  BY DEF TypeOK
    <3>2. row' \in Rows  BY <2>0, <2>11, <3>1, WrittenType DEF CommitFails
    <3>3. cause' \subseteq {"race", "lost", "update", "archive"}
      BY <2>11, UncoveredType DEF CommitFails, TypeOK
    <3>. QED  BY <2>f, <2>11, <3>2, <3>3 DEF CommitFails, Goto, TypeOK
  <2>12. ASSUME NEW c \in Clients, RefreshFails(c) PROVE TypeOK'
    <3>1. cause' \subseteq {"race", "lost", "update", "archive"}
      BY <2>12, UncoveredType DEF RefreshFails, TypeOK
    <3>. QED  BY <2>f, <2>12, <3>1 DEF RefreshFails, Goto, TypeOK
  <2>13. CASE Expire
    BY <2>13 DEF Expire, request, TypeOK, Hidden
  <2>14. CASE UNCHANGED vars
    BY <2>14 DEF vars, TypeOK
  <2>. QED
    BY <2>1, <2>2, <2>3, <2>4, <2>5, <2>6, <2>7, <2>8, <2>9, <2>10, <2>11, <2>12,
       <2>13, <2>14, NextCases DEF Step
<1>. QED  BY <1>1, <1>2, PTL DEF Spec

-----------------------------------------------------------------------------
(* Stale entries.  StalenessHasACause is not inductive: a process_record    *)
(* whose row was deleted since fails at its refresh and never invalidates.  *)
(* The delete does: its commit came later, so its invalidation does too.    *)

Deleting(c) == pc[c] = "invalidating" /\ op[c] = "delete"

GoneIsCovered ==
    (Stale /\ cause = {} /\ row.status = "gone") => \E c \in Clients : Deleting(c)

StaleInv == TypeOK /\ StalenessHasACause /\ GoneIsCovered

\* A step that keeps the row, the entry and the causes, and in which no client
\* gives up an invalidation, keeps both.
LEMMA SameEntry ==
    ASSUME StalenessHasACause, GoneIsCovered, UNCHANGED <<row, cache, cause>>,
           \A d \in Clients : Invalidating(d) => Invalidating(d)',
           \A d \in Clients : Deleting(d) => Deleting(d)'
    PROVE  StalenessHasACause' /\ GoneIsCovered'
BY DEF StalenessHasACause, GoneIsCovered, Stale

\* A step after which the entry is absent, fresh or has a cause keeps both.
LEMMA NotStale ==
    ASSUME cause' # {} \/ ~Stale'
    PROVE  StalenessHasACause' /\ GoneIsCovered'
BY DEF StalenessHasACause, GoneIsCovered

\* A write that does not invalidate, or fails to, leaves a cause if the entry
\* is then stale.
LEMMA UncoveredNotStale ==
    ASSUME NEW reason, Uncovered(reason), cache' = cache
    PROVE  cause' # {} \/ ~Stale'
BY DEF Uncovered, Stale

\* A stale entry has a cause or a request on its way to invalidate it:
\* process_record and delete_record leave no gap of their own between commit
\* and invalidation, not even when they overtake each other.
THEOREM StaleEntriesHaveCauses == Spec => []StalenessHasACause
<1>1. Init => StaleInv
  <2>1. Init => TypeOK
    BY RecordCacheAssumption DEF Init, TypeOK, Rows, Acks, AllOps, Hidden, NoAnswer
  <2>. QED  BY <2>1 DEF Init, StaleInv, StalenessHasACause, GoneIsCovered, Stale
<1>2. TypeOK /\ StalenessHasACause /\ GoneIsCovered /\ [Next]_vars
        => StalenessHasACause' /\ GoneIsCovered'
  <2> SUFFICES ASSUME TypeOK, StalenessHasACause, GoneIsCovered, [Next]_vars
               PROVE  StalenessHasACause' /\ GoneIsCovered'
    OBVIOUS
  <2>0. /\ row \in Rows /\ View(row) \in Nat
        /\ pc \in [Clients -> {"idle", "reading", "filling", "writing",
                               "refreshing", "invalidating"}]
        /\ op \in [Clients -> AllOps]
    BY ViewType DEF TypeOK
  <2>1. ASSUME NEW c \in Clients, Hit(c) PROVE StalenessHasACause' /\ GoneIsCovered'
    BY <2>1, SameEntry DEF Hit, request, Invalidating, Deleting
  <2>2. ASSUME NEW c \in Clients, Miss(c) PROVE StalenessHasACause' /\ GoneIsCovered'
    BY <2>0, <2>2, SameEntry DEF Miss, BeginGet, Goto, Invalidating, Deleting
  <2>3. ASSUME NEW c \in Clients, NEW o \in Ops, Load(c, o)
        PROVE StalenessHasACause' /\ GoneIsCovered'
    BY <2>0, <2>3, SameEntry DEF Load, Goto, ghosts, Invalidating, Deleting
  <2>4. ASSUME NEW c \in Clients, ReadRow(c)
        PROVE StalenessHasACause' /\ GoneIsCovered'
    BY <2>0, <2>4, SameEntry DEF ReadRow, Goto, Invalidating, Deleting
  <2>5. ASSUME NEW c \in Clients, Fill(c) PROVE StalenessHasACause' /\ GoneIsCovered'
    <3>1. CASE Stored(val[c])
      BY <2>5, <3>1, NotStale DEF Fill, Stored, Stale
    <3>2. CASE UNCHANGED <<cache, cause>>
      BY <2>0, <2>5, <3>2, SameEntry DEF Fill, Goto, Invalidating, Deleting
    <3>. QED  BY <2>5, <3>1, <3>2 DEF Fill
  <2>6. ASSUME NEW c \in Clients, NEW new \in BOOLEAN, Commit(c, new)
        PROVE StalenessHasACause' /\ GoneIsCovered'
    <3>0. op[c] \in AllOps /\ cache' = cache  BY <2>0, <2>6 DEF Commit
    <3>1. CASE op[c] \in {"update", "archive"}
      BY <2>6, <3>0, <3>1, UncoveredNotStale, NotStale DEF Commit
    <3>2. CASE op[c] = "process"
      <4>1. Invalidating(c)'
        BY <2>0, <2>6, <3>2 DEF Commit, Goto, Invalidating
      <4>2. row'.status # "gone"
        BY <2>0, <2>6, <3>0, <3>2, WrittenType DEF Commit
      <4>. QED  BY <4>1, <4>2 DEF StalenessHasACause, GoneIsCovered
    <3>3. CASE op[c] = "delete"
      <4>1. Invalidating(c)' /\ Deleting(c)'
        BY <2>0, <2>6, <3>3 DEF Commit, Goto, Invalidating, Deleting
      <4>. QED  BY <4>1 DEF StalenessHasACause, GoneIsCovered
    <3>. QED  BY <3>0, <3>1, <3>2, <3>3 DEF AllOps
  <2>7. ASSUME NEW c \in Clients, CommitGone(c)
        PROVE StalenessHasACause' /\ GoneIsCovered'
    BY <2>0, <2>7, SameEntry DEF CommitGone, Goto, ghosts, Invalidating, Deleting
  <2>8. ASSUME NEW c \in Clients, Refresh(c)
        PROVE StalenessHasACause' /\ GoneIsCovered'
    <3>0. UNCHANGED <<row, cache, cause, op>>  BY <2>8 DEF Refresh
    <3>1. CASE row.status = "gone"
      <4>1. \A d \in Clients : Deleting(d) => Deleting(d)'
        BY <2>0, <2>8, <3>0 DEF Refresh, Goto, Deleting
      <4>2. GoneIsCovered'  BY <3>0, <4>1 DEF GoneIsCovered, Stale
      <4>3. \A d \in Clients : Deleting(d)' => Invalidating(d)'
        BY DEF Deleting, Invalidating
      <4>. QED
        BY <3>0, <3>1, <4>2, <4>3 DEF GoneIsCovered, StalenessHasACause, Stale
    <3>2. CASE row.status # "gone"
      BY <2>0, <2>8, <3>0, <3>2, SameEntry DEF Refresh, Goto, Invalidating, Deleting
    <3>. QED  BY <3>1, <3>2
  <2>9. ASSUME NEW c \in Clients, Invalidate(c)
        PROVE StalenessHasACause' /\ GoneIsCovered'
    <3>1. CASE cache' = Hidden
      BY <3>1, NotStale DEF Stale
    <3>2. CASE Uncovered("lost") /\ cache' = cache
      BY <3>2, UncoveredNotStale, NotStale
    <3>. QED  BY <2>9, <3>1, <3>2 DEF Invalidate
  <2>10. ASSUME NEW c \in Clients, ReadFails(c)
         PROVE StalenessHasACause' /\ GoneIsCovered'
    BY <2>0, <2>10, SameEntry DEF ReadFails, Goto, ghosts, Invalidating, Deleting
  <2>11. ASSUME NEW c \in Clients, NEW new \in BOOLEAN, CommitFails(c, new)
         PROVE StalenessHasACause' /\ GoneIsCovered'
    BY <2>11, UncoveredNotStale, NotStale DEF CommitFails
  <2>12. ASSUME NEW c \in Clients, RefreshFails(c)
         PROVE StalenessHasACause' /\ GoneIsCovered'
    BY <2>12, UncoveredNotStale, NotStale DEF RefreshFails
  <2>13. CASE Expire
    BY <2>13, NotStale DEF Expire, Stale
  <2>14. CASE UNCHANGED vars
    BY <2>14, SameEntry DEF vars, Invalidating, Deleting
  <2>. QED
    BY <2>1, <2>2, <2>3, <2>4, <2>5, <2>6, <2>7, <2>8, <2>9, <2>10, <2>11, <2>12,
       <2>13, <2>14, NextCases DEF Step
<1>. QED  BY <1>1, <1>2, CacheTypeCorrect, PTL DEF Spec, StaleInv

-----------------------------------------------------------------------------
(* What a hit shows.  The acknowledged writes are bounded by the row, and a *)
(* write that will be acknowledged without invalidating is shown by every   *)
(* entry that has no cause.                                                 *)

AckedInRow ==
    /\ acked.version <= row.version
    /\ acked.hidden => row.status # "active"

Committed(c) == pc[c] \in {"refreshing", "invalidating"}

CommittedInRow ==
    \A c \in Clients : Committed(c) =>
        /\ val[c] <= row.version
        /\ op[c] \in {"archive", "delete"} => row.status # "active"

\* The entry, where it has no cause, shows what client c will acknowledge.
Shows(c) ==
    (cache # Hidden /\ cause = {}) => cache >= val[c] /\ op[c] # "archive"

UnseenShown ==
    \A c \in Clients :
        (pc[c] = "refreshing" /\ op[c] \in {"update", "archive"}) => Shows(c)

CoverInv == AckedInRow /\ CommittedInRow /\ UnseenShown /\ EntryCoversAcknowledged

\* Steps that change neither the row, the entry, the causes nor what is
\* acknowledged, and in which no client commits.
LEMMA SameData ==
    ASSUME CoverInv, UNCHANGED <<row, cache, cause, acked>>,
           \A d \in Clients : Committed(d)' => UNCHANGED <<val[d], op[d]>>,
           \A d \in Clients : Committed(d)' => Committed(d),
           \A d \in Clients : pc'[d] = "refreshing" => pc[d] = "refreshing"
    PROVE  CoverInv'
BY DEF CoverInv, AckedInRow, CommittedInRow, Committed, UnseenShown, Shows,
       EntryCoversAcknowledged

\* An entry that is absent, has a cause, or is the row as it is now shows all.
LEMMA FreshEntry ==
    ASSUME TypeOK', AckedInRow', CommittedInRow',
           cache' = Hidden \/ cause' # {} \/ cache' = View(row')
    PROVE  UnseenShown' /\ EntryCoversAcknowledged'
<1>1. CASE cache' = Hidden \/ cause' # {}
  BY <1>1 DEF UnseenShown, Shows, EntryCoversAcknowledged
<1>2. CASE cache' # Hidden /\ cache' = View(row')
  <2>1. row' \in Rows  BY DEF TypeOK
  <2>2. row'.status = "active" /\ cache' = row'.version
    BY <1>2, <2>1, ViewType
  <2>3. row'.version \in Nat /\ acked'.version \in Nat  BY <2>1 DEF TypeOK, Rows, Acks
  <2>4. EntryCoversAcknowledged'
    BY <2>2, <2>3 DEF AckedInRow, EntryCoversAcknowledged
  <2>5. UnseenShown'
    BY <2>2, <2>3 DEF CommittedInRow, Committed, UnseenShown, Shows, TypeOK
  <2>. QED  BY <2>4, <2>5
<1>. QED  BY <1>1, <1>2

\* A row that only grows, and is never shown again once hidden, keeps the
\* bounds; c is the client whose write it is.
LEMMA GrowingRow ==
    ASSUME TypeOK, TypeOK', AckedInRow, CommittedInRow, acked' = acked, op' = op,
           NEW c \in Clients,
           row'.version >= row.version,
           row.status # "active" => row'.status # "active",
           \A d \in Clients \ {c} : pc'[d] = pc[d] /\ val'[d] = val[d],
           Committed(c)' => /\ val'[c] <= row'.version
                            /\ op[c] \in {"archive", "delete"} => row'.status # "active"
    PROVE  AckedInRow' /\ CommittedInRow'
<1>0. row.version \in Nat /\ row'.version \in Nat /\ acked.version \in Nat
  BY DEF TypeOK, Rows, Acks
<1>1. AckedInRow'  BY <1>0 DEF AckedInRow
<1>2. ASSUME NEW d \in Clients, Committed(d)'
      PROVE  /\ val'[d] <= row'.version
             /\ op'[d] \in {"archive", "delete"} => row'.status # "active"
  <2>1. val[d] \in Nat  BY DEF TypeOK
  <2>2. CASE d = c  BY <1>2, <2>2
  <2>3. CASE d # c
    BY <1>0, <1>2, <2>1, <2>3 DEF CommittedInRow, Committed
  <2>. QED  BY <2>2, <2>3
<1>3. CommittedInRow'  BY <1>2 DEF CommittedInRow
<1>. QED  BY <1>1, <1>3

\* The handlers of DELETE await no refresh.
NoDeleteRefreshed == \A c \in Clients : pc[c] = "refreshing" => op[c] # "delete"

\* delete_record goes from its commit straight to the invalidation.
LEMMA DeletesAreNotRefreshed == Spec => []NoDeleteRefreshed
<1>1. Init => NoDeleteRefreshed
  BY DEF Init, NoDeleteRefreshed
<1>2. TypeOK /\ NoDeleteRefreshed /\ [Next]_vars => NoDeleteRefreshed'
  <2> SUFFICES ASSUME TypeOK, NoDeleteRefreshed, [Next]_vars PROVE NoDeleteRefreshed'
    OBVIOUS
  <2>0. /\ pc \in [Clients -> {"idle", "reading", "filling", "writing",
                               "refreshing", "invalidating"}]
        /\ op \in [Clients -> AllOps]
    BY DEF TypeOK
  <2>1. ASSUME NEW c \in Clients, NEW o \in Ops, Load(c, o) PROVE NoDeleteRefreshed'
    BY <2>0, <2>1 DEF Load, Goto, NoDeleteRefreshed
  <2>2. ASSUME NEW c \in Clients, NEW new \in BOOLEAN, Commit(c, new)
        PROVE NoDeleteRefreshed'
    BY <2>0, <2>2 DEF Commit, Goto, NoDeleteRefreshed
  <2>3. ASSUME NEW c \in Clients, op' = op,
               pc' = pc \/ \E l \in {"idle", "reading", "filling", "invalidating"} :
                              pc' = [pc EXCEPT ![c] = l]
        PROVE NoDeleteRefreshed'
    BY <2>0, <2>3 DEF NoDeleteRefreshed
  <2>4. ASSUME NEW c \in Clients,
               Hit(c) \/ Miss(c) \/ ReadRow(c) \/ Fill(c) \/ CommitGone(c)
        PROVE NoDeleteRefreshed'
    BY <2>3, <2>4 DEF Hit, Miss, ReadRow, Fill, CommitGone, Goto, request
  <2>5. ASSUME NEW c \in Clients,
               Refresh(c) \/ Invalidate(c) \/ ReadFails(c) \/ RefreshFails(c)
        PROVE NoDeleteRefreshed'
    BY <2>3, <2>5 DEF Refresh, Invalidate, ReadFails, RefreshFails, Goto
  <2>6. ASSUME NEW c \in Clients, NEW new \in BOOLEAN, CommitFails(c, new)
        PROVE NoDeleteRefreshed'
    BY <2>3, <2>6 DEF CommitFails, Goto
  <2>7. CASE Expire  BY <2>7 DEF Expire, request, NoDeleteRefreshed
  <2>8. CASE UNCHANGED vars  BY <2>8 DEF vars, NoDeleteRefreshed
  <2>. QED
    BY <2>1, <2>2, <2>4, <2>5, <2>6, <2>7, <2>8, NextCases DEF Step
<1>. QED  BY <1>1, <1>2, CacheTypeCorrect, PTL DEF Spec

LEMMA CoverHolds == Spec => []CoverInv
<1>1. Init => CoverInv
  BY DEF Init, CoverInv, AckedInRow, CommittedInRow, Committed, UnseenShown,
         EntryCoversAcknowledged
<1>2. TypeOK /\ TypeOK' /\ NoDeleteRefreshed /\ CoverInv /\ [Next]_vars => CoverInv'
  <2> SUFFICES ASSUME TypeOK, TypeOK', NoDeleteRefreshed, CoverInv, [Next]_vars
               PROVE CoverInv'
    OBVIOUS
  <2>0. /\ row \in Rows /\ View(row) \in Nat /\ row.version \in Nat
        /\ pc \in [Clients -> {"idle", "reading", "filling", "writing",
                               "refreshing", "invalidating"}]
        /\ op \in [Clients -> AllOps]
        /\ val \in [Clients -> Nat]
        /\ cache \in Nat /\ acked \in Acks
        /\ acked.version \in Nat
        /\ AckedInRow /\ CommittedInRow /\ UnseenShown /\ EntryCoversAcknowledged
    BY ViewType DEF TypeOK, CoverInv, Rows, Acks
  <2>1. ASSUME NEW c \in Clients, Hit(c) PROVE CoverInv'
    BY <2>1, SameData DEF Hit, request, Committed
  <2>2. ASSUME NEW c \in Clients, Miss(c) PROVE CoverInv'
    BY <2>0, <2>2, SameData DEF Miss, BeginGet, Goto, Committed
  <2>3. ASSUME NEW c \in Clients, NEW o \in Ops, Load(c, o) PROVE CoverInv'
    BY <2>0, <2>3, SameData DEF Load, Goto, ghosts, Committed
  <2>4. ASSUME NEW c \in Clients, ReadRow(c) PROVE CoverInv'
    BY <2>0, <2>4, SameData DEF ReadRow, Goto, Committed
  <2>5. ASSUME NEW c \in Clients, Fill(c) PROVE CoverInv'
    <3>1. AckedInRow' /\ CommittedInRow'
      BY <2>0, <2>5 DEF Fill, Goto, AckedInRow, CommittedInRow, Committed
    <3>2. CASE Stored(val[c])
      <4>1. cause' # {} \/ cache' = View(row')
        BY <2>5, <3>2 DEF Fill, Stored
      <4>. QED  BY <3>1, <4>1, FreshEntry DEF CoverInv
    <3>3. CASE UNCHANGED <<cache, cause>>
      BY <2>0, <2>5, <3>3, SameData DEF Fill, Goto, Committed
    <3>. QED  BY <2>5, <3>2, <3>3 DEF Fill
  <2>6. ASSUME NEW c \in Clients, NEW new \in BOOLEAN, Commit(c, new) PROVE CoverInv'
    <3>0. /\ op[c] \in AllOps /\ row' = Written(op[c], new) /\ row.status # "gone"
          /\ UNCHANGED <<cache, op, acked>>
          /\ val' = [val EXCEPT ![c] = row'.version]
          /\ \A d \in Clients \ {c} : pc'[d] = pc[d] /\ val'[d] = val[d]
      BY <2>0, <2>6 DEF Commit, Goto
    <3>1. /\ row'.version >= row.version
          /\ row.status # "active" => row'.status # "active"
          /\ op[c] \in {"archive", "delete"} => row'.status # "active"
      BY <2>0, <3>0, WrittenType
    <3>2. row'.version \in Nat  BY DEF TypeOK, Rows
    <3>3. AckedInRow' /\ CommittedInRow'
      BY <2>0, <3>0, <3>1, <3>2, GrowingRow
    <3>4. CASE op[c] \in {"update", "archive"}
      <4>1. Uncovered(op[c])  BY <2>6, <3>4 DEF Commit
      <4>2. cache' = Hidden \/ cause' # {} \/ cache' = View(row')
        BY <3>0, <4>1 DEF Uncovered
      <4>. QED  BY <3>3, <4>2, FreshEntry DEF CoverInv
    <3>5. CASE op[c] \in {"process", "delete"}
      <4>1. UNCHANGED cause  BY <2>6, <3>5 DEF Commit
      <4>2. EntryCoversAcknowledged'
        BY <2>0, <3>0, <4>1 DEF EntryCoversAcknowledged
      <4>3. UnseenShown'
        BY <2>0, <3>0, <3>5, <4>1 DEF UnseenShown, Shows
      <4>. QED  BY <3>3, <4>2, <4>3 DEF CoverInv
    <3>. QED  BY <3>0, <3>4, <3>5 DEF AllOps
  <2>7. ASSUME NEW c \in Clients, CommitGone(c) PROVE CoverInv'
    <3>0. /\ UNCHANGED <<row, cache, cause, op, acked>> /\ row.status = "gone"
          /\ pc'[c] \in {"invalidating", "idle"} /\ val'[c] = row.version
          /\ \A d \in Clients \ {c} : pc'[d] = pc[d] /\ val'[d] = val[d]
      BY <2>0, <2>7 DEF CommitGone, Goto, ghosts
    <3>1. AckedInRow' /\ CommittedInRow'
      BY <2>0, <3>0, GrowingRow
    <3>2. UnseenShown' /\ EntryCoversAcknowledged'
      BY <2>0, <3>0 DEF UnseenShown, Shows, EntryCoversAcknowledged
    <3>. QED  BY <3>1, <3>2 DEF CoverInv
  <2>8. ASSUME NEW c \in Clients, Refresh(c) PROVE CoverInv'
    <3>0. /\ UNCHANGED <<row, cache, cause, op, val>> /\ pc[c] = "refreshing"
          /\ \A d \in Clients \ {c} : pc'[d] = pc[d]
          /\ pc'[c] \in {"idle", "invalidating"}
          /\ acked' = acked \/ (Acknowledge(c) /\ op[c] # "process")
      BY <2>0, <2>8 DEF Refresh, Goto
    <3>1. CommittedInRow' /\ UnseenShown'
      BY <2>0, <3>0 DEF CommittedInRow, Committed, UnseenShown, Shows
    <3>2. CASE acked' = acked
      BY <2>0, <3>0, <3>1, <3>2 DEF CoverInv, AckedInRow, EntryCoversAcknowledged
    <3>3. CASE Acknowledge(c) /\ op[c] # "process"
      <4>1. /\ acked'.version \in {val[c], acked.version}
            /\ acked'.hidden => acked.hidden \/ op[c] \in {"archive", "delete"}
        BY <2>0, <3>3, AcknowledgeType
      <4>2. /\ val[c] <= row.version /\ val[c] \in Nat
            /\ op[c] \in {"archive", "delete"} => row.status # "active"
        BY <2>0, <3>0 DEF CommittedInRow, Committed
      <4>3. AckedInRow'  BY <2>0, <3>0, <4>1, <4>2 DEF AckedInRow
      <4>4. op[c] # "delete"  BY <3>0 DEF NoDeleteRefreshed
      <4>5. op[c] \in {"update", "archive"}  BY <2>0, <3>3, <4>4 DEF AllOps
      <4>6. EntryCoversAcknowledged'
        BY <2>0, <3>0, <4>1, <4>2, <4>5 DEF UnseenShown, Shows, EntryCoversAcknowledged
      <4>. QED  BY <3>1, <4>3, <4>6 DEF CoverInv
    <3>. QED  BY <3>0, <3>2, <3>3
  <2>9. ASSUME NEW c \in Clients, Invalidate(c) PROVE CoverInv'
    <3>0. /\ UNCHANGED <<row, op, val>> /\ pc[c] = "invalidating" /\ Acknowledge(c)
          /\ \A d \in Clients \ {c} : pc'[d] = pc[d]
          /\ pc'[c] = "idle"
      BY <2>0, <2>9 DEF Invalidate, Goto
    <3>1. CommittedInRow'
      BY <2>0, <3>0 DEF CommittedInRow, Committed
    <3>2. /\ acked'.version \in {val[c], acked.version}
          /\ acked'.hidden => acked.hidden \/ op[c] \in {"archive", "delete"}
      BY <2>0, <3>0, AcknowledgeType
    <3>3. /\ val[c] <= row.version
          /\ op[c] \in {"archive", "delete"} => row.status # "active"
      BY <2>0, <3>0 DEF CommittedInRow, Committed
    <3>4. AckedInRow'  BY <2>0, <3>0, <3>2, <3>3 DEF AckedInRow
    <3>5. cache' = Hidden \/ cause' # {} \/ cache' = View(row')
      BY <2>9 DEF Invalidate, Uncovered
    <3>. QED  BY <3>1, <3>4, <3>5, FreshEntry DEF CoverInv
  <2>10. ASSUME NEW c \in Clients, ReadFails(c) PROVE CoverInv'
    BY <2>0, <2>10, SameData DEF ReadFails, Goto, ghosts, Committed
  <2>11. ASSUME NEW c \in Clients, NEW new \in BOOLEAN, CommitFails(c, new)
         PROVE CoverInv'
    <3>0. /\ op[c] \in AllOps /\ UNCHANGED <<cache, op, acked, val>>
          /\ \A d \in Clients \ {c} : pc'[d] = pc[d] /\ val'[d] = val[d]
          /\ pc'[c] = "idle"
          /\ row' = row \/ (row.status # "gone" /\ row' = Written(op[c], new))
      BY <2>0, <2>11 DEF CommitFails, Goto
    <3>1. /\ row'.version >= row.version
          /\ row.status # "active" => row'.status # "active"
      BY <2>0, <3>0, WrittenType
    <3>2. AckedInRow' /\ CommittedInRow'
      BY <2>0, <3>0, <3>1, GrowingRow DEF Committed
    <3>3. cache' = Hidden \/ cause' # {} \/ cache' = View(row')
      BY <2>11 DEF CommitFails, Uncovered
    <3>. QED  BY <3>2, <3>3, FreshEntry DEF CoverInv
  <2>12. ASSUME NEW c \in Clients, RefreshFails(c) PROVE CoverInv'
    <3>1. AckedInRow' /\ CommittedInRow'
      BY <2>0, <2>12 DEF RefreshFails, Goto, AckedInRow, CommittedInRow, Committed
    <3>2. cache' = Hidden \/ cause' # {} \/ cache' = View(row')
      BY <2>12 DEF RefreshFails, Uncovered
    <3>. QED  BY <3>1, <3>2, FreshEntry DEF CoverInv
  <2>13. CASE Expire
    BY <2>0, <2>13, FreshEntry
       DEF Expire, request, CoverInv, AckedInRow, CommittedInRow, Committed
  <2>14. CASE UNCHANGED vars
    BY <2>14, SameData DEF vars, Committed
  <2>. QED
    BY <2>1, <2>2, <2>3, <2>4, <2>5, <2>6, <2>7, <2>8, <2>9, <2>10, <2>11, <2>12,
       <2>13, <2>14, NextCases DEF Step
<1>. QED
  BY <1>1, <1>2, CacheTypeCorrect, DeletesAreNotRefreshed, PTL DEF Spec, CoverInv

\* Without a cause, a cache hit never hides an acknowledged write: the entry is
\* at least as new as every write a client has been told of, for any number
\* of overlapping GETs, PATCHes and DELETEs.
THEOREM HitsShowAcknowledgedWrites == Spec => []EntryCoversAcknowledged
<1>1. CoverInv => EntryCoversAcknowledged  BY DEF CoverInv
<1>. QED  BY <1>1, CoverHolds, PTL

-----------------------------------------------------------------------------
(* What a GET shows.  It reads the row after it began, so what it holds is  *)
(* as new as what was acknowledged then.                                    *)

Covers(v, f) == (f.hidden => v = Hidden) /\ (v # Hidden => v >= f.version)

ReadCovers(c) ==
    /\ ~answer[c].excused => Covers(answer[c].value, floor[c])
    /\ pc[c] = "reading" => /\ floor[c].version <= acked.version
                            /\ floor[c].hidden => acked.hidden
    /\ pc[c] = "filling" => Covers(val[c], floor[c])

GetInv == \A c \in Clients : ReadCovers(c)

\* Acknowledged writes are never taken back.
LEMMA AckedGrows ==
    ASSUME TypeOK, TypeOK', [Next]_vars
    PROVE  acked'.version >= acked.version /\ (acked.hidden => acked'.hidden)
<1>0. acked.version \in Nat /\ acked'.version \in Nat  BY DEF TypeOK, Acks
<1>1. ASSUME NEW c \in Clients, Acknowledge(c)
      PROVE  acked'.version >= acked.version /\ (acked.hidden => acked'.hidden)
  <2>1. val[c] \in Nat  BY DEF TypeOK
  <2>2. acked'.version >= acked.version  BY <1>0, <1>1, <2>1 DEF Acknowledge
  <2>3. acked.hidden => acked'.hidden  BY <1>1 DEF Acknowledge
  <2>. QED  BY <2>2, <2>3
<1>2. CASE acked' = acked  BY <1>0, <1>2
<1>3. acked' = acked \/ \E c \in Clients : Acknowledge(c)
  BY NextCases DEF Step, Hit, Miss, Load, ReadRow, Fill, Commit, CommitGone, Refresh,
     Invalidate, ReadFails, CommitFails, RefreshFails, Expire, ghosts, vars
<1>. QED  BY <1>1, <1>2, <1>3

\* A client whose GET does not move keeps what it covers.
LEMMA SameGet ==
    ASSUME TypeOK, TypeOK', NEW c \in Clients, ReadCovers(c),
           acked'.version >= acked.version, acked.hidden => acked'.hidden,
           answer'[c] = answer[c], floor'[c] = floor[c],
           \/ pc'[c] \notin {"reading", "filling"}
           \/ pc'[c] = pc[c] /\ val'[c] = val[c]
    PROVE  ReadCovers(c)'
<1>1. /\ acked.version \in Nat /\ acked'.version \in Nat /\ floor[c].version \in Nat
  BY DEF TypeOK, Acks
<1>. QED  BY <1>1 DEF ReadCovers, Covers

\* A GET shows every write acknowledged before it began, unless it was a hit
\* on an entry with a cause to be stale, for any number of clients and writes.
THEOREM GetsShowAcknowledgedWrites == Spec => []GetsCoverAcknowledged
<1>1. Init => GetInv
  <2> SUFFICES ASSUME Init, NEW c \in Clients PROVE ReadCovers(c)
    BY DEF GetInv
  <2>1. pc[c] = "idle" /\ answer[c].excused
    BY DEF Init, NoAnswer
  <2>. QED  BY <2>1 DEF ReadCovers
<1>2. TypeOK /\ TypeOK' /\ CoverInv /\ GetInv /\ [Next]_vars => GetInv'
  <2> SUFFICES ASSUME TypeOK, TypeOK', CoverInv, GetInv, [Next]_vars, NEW d \in Clients
               PROVE  ReadCovers(d)'
    BY DEF GetInv
  <2>0. /\ ReadCovers(d) /\ AckedInRow /\ EntryCoversAcknowledged
        /\ row \in Rows /\ row.version \in Nat /\ acked.version \in Nat
        /\ floor[d].version \in Nat /\ cache \in Nat
    BY DEF GetInv, CoverInv, TypeOK, Rows, Acks
  <2>a. acked'.version >= acked.version /\ (acked.hidden => acked'.hidden)
    BY AckedGrows
  <2>1. ASSUME NEW c \in Clients, Hit(c) PROVE ReadCovers(d)'
    <3>1. CASE d = c
      <4>1. /\ answer'[d].value = cache /\ answer'[d].excused = (cause # {})
            /\ floor'[d] = acked /\ cache # Hidden /\ pc'[d] = "idle"
        BY <2>1, <3>1 DEF Hit, BeginGet, Answer, request, TypeOK
      <4>2. cause = {} => Covers(cache, acked)
        BY <2>0, <4>1 DEF EntryCoversAcknowledged, Covers
      <4>. QED  BY <4>1, <4>2 DEF ReadCovers
    <3>2. CASE d # c
      BY <2>0, <2>1, <2>a, <3>2, SameGet DEF Hit, BeginGet, Answer, request, TypeOK
    <3>. QED  BY <3>1, <3>2
  <2>2. ASSUME NEW c \in Clients, Miss(c) PROVE ReadCovers(d)'
    <3>1. CASE d = c
      <4>1. /\ answer'[d].excused = TRUE
            /\ floor'[d] = acked /\ acked' = acked /\ pc'[d] = "reading"
        BY <2>2, <3>1 DEF Miss, BeginGet, Goto, NoAnswer, TypeOK
      <4>. QED  BY <2>0, <4>1 DEF ReadCovers
    <3>2. CASE d # c
      BY <2>0, <2>2, <2>a, <3>2, SameGet DEF Miss, BeginGet, Goto, TypeOK
    <3>. QED  BY <3>1, <3>2
  <2>3. ASSUME NEW c \in Clients, ReadRow(c) PROVE ReadCovers(d)'
    <3>1. CASE d = c
      <4>1. Covers(View(row), floor[d])
        BY <2>0, <2>3, <3>1, ViewType DEF ReadRow, ReadCovers, AckedInRow, Covers
      <4>2. CASE View(row) = Hidden
        <5>1. /\ answer'[d].value = Hidden
              /\ floor'[d] = floor[d] /\ pc'[d] = "idle"
          BY <2>3, <3>1, <4>2 DEF ReadRow, Answer, Goto, TypeOK
        <5>. QED  BY <4>1, <4>2, <5>1 DEF ReadCovers
      <4>3. CASE View(row) # Hidden
        <5>1. /\ answer'[d] = answer[d] /\ val'[d] = View(row)
              /\ floor'[d] = floor[d] /\ pc'[d] = "filling"
          BY <2>3, <3>1, <4>3 DEF ReadRow, Goto, TypeOK
        <5>. QED  BY <2>0, <4>1, <5>1 DEF ReadCovers
      <4>. QED  BY <4>2, <4>3
    <3>2. CASE d # c
      <4>1. /\ answer'[d] = answer[d] /\ floor'[d] = floor[d]
            /\ pc'[d] = pc[d] /\ val'[d] = val[d]
        BY <2>3, <3>2 DEF ReadRow, Answer, Goto, TypeOK
      <4>. QED  BY <2>0, <2>a, <4>1, SameGet
    <3>. QED  BY <3>1, <3>2
  <2>4. ASSUME NEW c \in Clients, Fill(c) PROVE ReadCovers(d)'
    <3>1. CASE d = c
      <4>1. /\ answer'[d].value = val[d] /\ pc[d] = "filling"
            /\ floor'[d] = floor[d] /\ pc'[d] = "idle"
        BY <2>4, <3>1 DEF Fill, Answer, Goto, TypeOK
      <4>. QED  BY <2>0, <4>1 DEF ReadCovers
    <3>2. CASE d # c
      BY <2>0, <2>4, <2>a, <3>2, SameGet DEF Fill, Answer, Goto, TypeOK
    <3>. QED  BY <3>1, <3>2
  <2>5. ASSUME NEW c \in Clients, NEW o \in Ops, Load(c, o) PROVE ReadCovers(d)'
    BY <2>0, <2>5, <2>a, SameGet DEF Load, Goto, ghosts, TypeOK
  <2>6. ASSUME NEW c \in Clients, NEW new \in BOOLEAN, Commit(c, new)
        PROVE  ReadCovers(d)'
    BY <2>0, <2>6, <2>a, SameGet DEF Commit, Goto, TypeOK
  <2>7. ASSUME NEW c \in Clients, CommitGone(c) PROVE ReadCovers(d)'
    BY <2>0, <2>7, <2>a, SameGet DEF CommitGone, Goto, ghosts, TypeOK
  <2>8. ASSUME NEW c \in Clients, Refresh(c) PROVE ReadCovers(d)'
    BY <2>0, <2>8, <2>a, SameGet DEF Refresh, Goto, TypeOK
  <2>9. ASSUME NEW c \in Clients, Invalidate(c) PROVE ReadCovers(d)'
    BY <2>0, <2>9, <2>a, SameGet DEF Invalidate, Goto, TypeOK
  <2>10. ASSUME NEW c \in Clients, ReadFails(c) PROVE ReadCovers(d)'
    BY <2>0, <2>10, <2>a, SameGet DEF ReadFails, Goto, ghosts, TypeOK
  <2>11. ASSUME NEW c \in Clients, NEW new \in BOOLEAN, CommitFails(c, new)
         PROVE  ReadCovers(d)'
    BY <2>0, <2>11, <2>a, SameGet DEF CommitFails, Goto, TypeOK
  <2>12. ASSUME NEW c \in Clients, RefreshFails(c) PROVE ReadCovers(d)'
    BY <2>0, <2>12, <2>a, SameGet DEF RefreshFails, Goto, TypeOK
  <2>13. CASE Expire
    BY <2>0, <2>13, <2>a, SameGet DEF Expire, request
  <2>14. CASE UNCHANGED vars
    BY <2>0, <2>14, <2>a, SameGet DEF vars
  <2>. QED
    BY <2>1, <2>2, <2>3, <2>4, <2>5, <2>6, <2>7, <2>8, <2>9, <2>10, <2>11, <2>12,
       <2>13, <2>14, NextCases DEF Step
<1>3. GetInv => GetsCoverAcknowledged
  BY DEF GetInv, ReadCovers, Covers, GetsCoverAcknowledged
<1>. QED  BY <1>1, <1>2, <1>3, CacheTypeCorrect, CoverHolds, PTL DEF Spec
=============================================================================
