--------------------------- MODULE EventLogProofs ---------------------------
(***************************************************************************)
(* Proofs about EventLog: type correctness, that a create is acknowledged  *)
(* as new at most once per key, what processing_attempts counts, and which *)
(* events carry the dead letter flag and status, for any number of         *)
(* sessions and keys.                                                      *)
(***************************************************************************)
EXTENDS EventLog, TLAPS

Claiming == {"flushed", "batched", "created"}

\* Sessions that insert or have just inserted never claim the same key.
ClaimsDisjoint ==
    \A s, t \in Sessions :
        s # t /\ pc[s] \in Claiming /\ pc[t] \in Claiming => arg[s] \cap arg[t] = {}

\* A key being inserted has no row, and a key of any later stage has one.
KeysKnown ==
    \A s \in Sessions : \A k \in arg[s] :
        /\ pc[s] \in {"flushed", "batched"} => ~Exists(k)
        /\ pc[s] \in {"created", "conflict"} => Exists(k)
        /\ pc[s] = "created" => created[k] = 0
        /\ pc[s] \in Marks => view[s][k] # NoRow

\* A key without a row was neither acknowledged nor marked.
NothingBeforeRow ==
    \A k \in Keys : ~Exists(k) => created[k] = 0 /\ begun[k] = 0 /\ k \notin buried

\* A copy may be old, but it is a copy of a row that existed.
CopiesTrail ==
    \A s \in Sessions, k \in Keys :
        view[s][k] # NoRow =>
            /\ Exists(k)
            /\ view[s][k].attempts <= begun[k]
            /\ view[s][k].dlq => row[k].dlq
            /\ view[s][k].status = "dead_letter" => view[s][k].dlq

Inv ==
    /\ TypeOK
    /\ ClaimsDisjoint /\ KeysKnown /\ NothingBeforeRow
    /\ CopiesTrail /\ DeadLettersAccounted
    /\ CreatedOnce /\ AttemptsCounted

-----------------------------------------------------------------------------
LEMMA NoRowIsNone == NoRow \notin Row /\ Pending \in Row
  BY DEF NoRow, Row, Marks, Pending

\* Assigning a mark to a copy yields a row.
LEMMA AssignedType ==
    ASSUME NEW copy \in Row, NEW m \in Marks
    PROVE  Assigned(copy, m) \in Row
  BY DEF Assigned, Row, Marks

\* An update of an existing row from a copy of it yields a row.
LEMMA UpdatedType ==
    ASSUME NEW k \in Keys, row[k] \in Row, NEW old \in Row, NEW new \in Row
    PROVE  Updated(k, old, new) \in Row
  BY DEF Updated, Row

LEMMA TypeInductive ==
    ASSUME TypeOK, KeysKnown, CopiesTrail, [Next]_vars
    PROVE  TypeOK'
<1> USE DEF TypeOK, ghosts
<1>1. ASSUME NEW s \in Sessions, NEW k \in Keys, Flush(s, k)
      PROVE  TypeOK'
  BY <1>1 DEF Flush, Goto
<1>2. ASSUME NEW s \in Sessions, NEW k \in Keys, NEW m \in Marks, Get(s, k, m)
      PROVE  TypeOK'
  BY <1>2 DEF Get, Goto
<1>3. ASSUME NEW s \in Sessions, NEW K \in (SUBSET Keys) \ {{}}, BatchInsert(s, K)
      PROVE  TypeOK'
  BY <1>3 DEF BatchInsert, Goto
<1>4. ASSUME NEW s \in Sessions, CommitInsert(s)
      PROVE  TypeOK'
  BY <1>4, NoRowIsNone DEF CommitInsert, Goto
<1>5. ASSUME NEW s \in Sessions, CreatedAnswered(s)
      PROVE  TypeOK'
  BY <1>5 DEF CreatedAnswered, Goto
<1>6. ASSUME NEW s \in Sessions, SelectExisting(s)
      PROVE  TypeOK'
  BY <1>6 DEF SelectExisting, Goto
<1>7. ASSUME NEW s \in Sessions, CommitMark(s)
      PROVE  TypeOK'
  <2>1. PICK k \in arg[s] :
          /\ row' = [row EXCEPT ![k] = Updated(k, view[s][k], Assigned(view[s][k], pc[s]))]
          /\ view' = [view EXCEPT ![s][k] = Assigned(view[s][k], pc[s])]
          /\ begun' = [begun EXCEPT ![k] = IF pc[s] = "processing" THEN @ + 1 ELSE @]
          /\ stale' = IF view[s][k] # row[k] THEN stale \union {k} ELSE stale
          /\ buried' = IF pc[s] = "dead_letter" THEN buried \union {k} ELSE buried
          /\ overwritten' = IF pc[s] # "dead_letter" /\ k \in buried
                            THEN overwritten \union {k} ELSE overwritten
    BY <1>7 DEF CommitMark
  <2>2. k \in Keys /\ pc[s] \in Marks
    BY <1>7 DEF CommitMark
  <2>3. view[s][k] \in Row /\ row[k] \in Row
    BY <2>1, <2>2 DEF KeysKnown, CopiesTrail, Exists
  <2>4. Assigned(view[s][k], pc[s]) \in Row
    BY <2>2, <2>3, AssignedType
  <2>5. Updated(k, view[s][k], Assigned(view[s][k], pc[s])) \in Row
    BY <2>2, <2>3, <2>4, UpdatedType
  <2> QED BY <1>7, <2>1, <2>2, <2>4, <2>5 DEF CommitMark, Goto
<1>8. ASSUME NEW s \in Sessions, Refresh(s)
      PROVE  TypeOK'
  BY <1>8 DEF Refresh, Goto
<1>9. ASSUME NEW s \in Sessions, Close(s)
      PROVE  TypeOK'
  BY <1>9 DEF Close, Goto
<1>10. CASE UNCHANGED vars
  BY <1>10 DEF vars, ghosts
<1> QED BY <1>1, <1>2, <1>3, <1>4, <1>5, <1>6, <1>7, <1>8, <1>9, <1>10 DEF Next

-----------------------------------------------------------------------------
Facts ==
    /\ ClaimsDisjoint /\ KeysKnown /\ NothingBeforeRow
    /\ CopiesTrail /\ DeadLettersAccounted
    /\ CreatedOnce /\ AttemptsCounted

\* A step that changes no row, no count and nobody's stage but the session's
\* own keeps the facts, if the session's own keys and copies satisfy them.
LEMMA LocalStep ==
    ASSUME Inv, TypeOK', NEW s \in Sessions,
           UNCHANGED <<row, ghosts>>,
           \A t \in Sessions : t # s => /\ pc'[t] = pc[t] /\ arg'[t] = arg[t]
                                       /\ view'[t] = view[t],
           \A k \in Keys : view'[s][k] = NoRow \/ view'[s][k] = view[s][k]
                                               \/ view'[s][k] = row[k],
           \A k \in arg'[s] :
               /\ pc'[s] \in Claiming => ~Inserting(k) /\ ~Exists(k)
               /\ pc'[s] # "created"
               /\ pc'[s] = "conflict" => Exists(k)
               /\ pc'[s] \in Marks => view'[s][k] # NoRow
    PROVE  Facts'
<1> USE DEF ghosts
<1>1. \A k \in Keys : Exists(k)' <=> Exists(k)
  BY DEF Exists
<1>2. ClaimsDisjoint'
  <2> SUFFICES ASSUME NEW t \in Sessions, t # s, NEW k \in Keys,
                      pc'[s] \in Claiming, pc[t] \in Claiming,
                      k \in arg'[s], k \in arg[t]
               PROVE  FALSE
    BY DEF ClaimsDisjoint, Inv, TypeOK
  <2>1. ~Inserting(k) /\ ~Exists(k)
    OBVIOUS
  <2> QED BY <2>1 DEF Inserting, Claiming, Inv, KeysKnown
<1>3. KeysKnown'
  <2> SUFFICES ASSUME NEW t \in Sessions, NEW k \in arg'[t]
               PROVE  (/\ pc[t] \in {"flushed", "batched"} => ~Exists(k)
                       /\ pc[t] \in {"created", "conflict"} => Exists(k)
                       /\ pc[t] = "created" => created[k] = 0
                       /\ pc[t] \in Marks => view[t][k] # NoRow)'
    BY DEF KeysKnown
  <2>1. k \in Keys
    BY DEF TypeOK
  <2>2. CASE t = s
    BY <1>1, <2>1, <2>2 DEF Claiming
  <2>3. CASE t # s
    BY <1>1, <2>1, <2>3 DEF Inv, KeysKnown
  <2> QED BY <2>2, <2>3
<1>4. NothingBeforeRow'
  BY <1>1 DEF Inv, NothingBeforeRow
<1>5. CopiesTrail'
  <2> SUFFICES ASSUME NEW t \in Sessions, NEW k \in Keys, view'[t][k] # NoRow
               PROVE  (/\ Exists(k)
                       /\ view[t][k].attempts <= begun[k]
                       /\ view[t][k].dlq => row[k].dlq
                       /\ view[t][k].status = "dead_letter" => view[t][k].dlq)'
    BY DEF CopiesTrail
  <2>1. CASE view'[t][k] = view[t][k]
    BY <1>1, <2>1 DEF Inv, CopiesTrail
  <2>2. CASE view'[t][k] = row[k]
    BY <1>1, <2>2 DEF Inv, AttemptsCounted, DeadLettersAccounted, Exists
  <2> QED BY <2>1, <2>2
<1>6. DeadLettersAccounted' /\ AttemptsCounted'
  BY <1>1 DEF Inv, DeadLettersAccounted, AttemptsCounted
<1>7. CreatedOnce'
  <2>1. \A k \in Keys : created'[k] <= 1
    BY DEF Inv, CreatedOnce
  <2>2. ASSUME NEW t \in Sessions, pc'[t] \in {"conflict", "created"}, NEW k \in arg'[t]
        PROVE  Exists(k)'
    BY <1>3, <2>2 DEF KeysKnown
  <2> QED BY <2>1, <2>2 DEF CreatedOnce
<1> QED BY <1>2, <1>3, <1>4, <1>5, <1>6, <1>7 DEF Facts

\* A commit of an INSERT.
LEMMA CommitInsertStep ==
    ASSUME Inv, TypeOK', NEW s \in Sessions, CommitInsert(s)
    PROVE  Facts'
<1>0. /\ pc[s] \in {"flushed", "batched"} /\ arg[s] \in SUBSET Keys
      /\ \A k \in Keys : row'[k] = IF k \in arg[s] THEN Pending ELSE row[k]
      /\ \A k \in Keys : view'[s][k] = IF k \in arg[s] THEN Pending ELSE view[s][k]
      /\ \A t \in Sessions : t # s => /\ pc'[t] = pc[t] /\ arg'[t] = arg[t]
                                     /\ view'[t] = view[t]
      /\ \/ pc'[s] = "created" /\ arg'[s] = arg[s]
         \/ pc'[s] = "idle" /\ arg'[s] = {}
      /\ created' = created /\ begun' = begun /\ stale' = stale
      /\ buried' = buried /\ overwritten' = overwritten
  BY DEF CommitInsert, Goto, Inv, TypeOK, ghosts
<1>1. \A k \in Keys : Exists(k)' <=> (Exists(k) \/ k \in arg[s])
  BY <1>0, NoRowIsNone DEF Exists
<1>2. \A k \in arg[s] : ~Exists(k) /\ created[k] = 0 /\ begun[k] = 0 /\ k \notin buried
  BY <1>0 DEF Inv, KeysKnown, NothingBeforeRow
<1>3. \A t \in Sessions : t # s /\ pc[t] \in Claiming => arg[t] \cap arg[s] = {}
  BY <1>0 DEF Inv, ClaimsDisjoint, Claiming
<1>4. ClaimsDisjoint'
  BY <1>0, <1>3 DEF Inv, ClaimsDisjoint, Claiming
<1>5. KeysKnown'
  <2> SUFFICES ASSUME NEW t \in Sessions, NEW k \in arg'[t]
               PROVE  (/\ pc[t] \in {"flushed", "batched"} => ~Exists(k)
                       /\ pc[t] \in {"created", "conflict"} => Exists(k)
                       /\ pc[t] = "created" => created[k] = 0
                       /\ pc[t] \in Marks => view[t][k] # NoRow)'
    BY DEF KeysKnown
  <2>1. k \in Keys
    BY DEF TypeOK
  <2>2. CASE t = s
    BY <1>0, <1>1, <1>2, <2>1, <2>2 DEF Marks
  <2>3. CASE t # s
    <3>1. k \in arg[t]
      BY <1>0, <2>3
    <3>2. pc[t] \in {"flushed", "batched"} => k \notin arg[s]
      BY <1>3, <2>3, <3>1 DEF Claiming
    <3> QED BY <1>0, <1>1, <2>1, <2>3, <3>1, <3>2 DEF Inv, KeysKnown
  <2> QED BY <2>2, <2>3
<1>6. NothingBeforeRow'
  BY <1>0, <1>1 DEF Inv, NothingBeforeRow
<1>7. CopiesTrail'
  <2> SUFFICES ASSUME NEW t \in Sessions, NEW k \in Keys, view'[t][k] # NoRow
               PROVE  (/\ Exists(k)
                       /\ view[t][k].attempts <= begun[k]
                       /\ view[t][k].dlq => row[k].dlq
                       /\ view[t][k].status = "dead_letter" => view[t][k].dlq)'
    BY DEF CopiesTrail
  <2>1. CASE t = s /\ k \in arg[s]
    BY <1>0, <1>1, <1>2, <2>1 DEF Pending
  <2>2. CASE ~(t = s /\ k \in arg[s])
    <3>1. view'[t][k] = view[t][k]
      BY <1>0, <2>2
    <3>2. Exists(k)
      BY <3>1 DEF Inv, CopiesTrail
    <3>3. row'[k] = row[k]
      BY <1>0, <1>2, <3>2
    <3> QED BY <1>0, <1>1, <3>1, <3>2, <3>3 DEF Inv, CopiesTrail
  <2> QED BY <2>1, <2>2
<1>8. DeadLettersAccounted' /\ AttemptsCounted'
  <2> SUFFICES ASSUME NEW k \in Keys, Exists(k)'
               PROVE  (/\ row[k].dlq <=> k \in buried
                       /\ row[k].status = "dead_letter" => row[k].dlq
                       /\ row[k].dlq /\ row[k].status # "dead_letter" => k \in overwritten
                       /\ row[k].attempts <= begun[k]
                       /\ k \notin stale => row[k].attempts = begun[k])'
    BY DEF DeadLettersAccounted, AttemptsCounted
  <2>1. CASE k \in arg[s]
    BY <1>0, <1>2, <2>1 DEF Pending
  <2>2. CASE k \notin arg[s]
    BY <1>0, <1>1, <2>2 DEF Inv, DeadLettersAccounted, AttemptsCounted
  <2> QED BY <2>1, <2>2
<1>9. CreatedOnce'
  <2>1. \A k \in Keys : created'[k] <= 1
    BY <1>0 DEF Inv, CreatedOnce
  <2>2. ASSUME NEW t \in Sessions, pc'[t] \in {"conflict", "created"}, NEW k \in arg'[t]
        PROVE  Exists(k)'
    BY <1>5, <2>2 DEF KeysKnown
  <2> QED BY <2>1, <2>2 DEF CreatedOnce
<1> QED BY <1>4, <1>5, <1>6, <1>7, <1>8, <1>9 DEF Facts

\* The answer (event, True): the session that gives it is the only one that
\* claims the key, and nobody was given it before.
LEMMA CreatedAnsweredStep ==
    ASSUME Inv, TypeOK', NEW s \in Sessions, CreatedAnswered(s)
    PROVE  Facts'
<1>0. PICK k \in arg[s] :
          /\ view' = [view EXCEPT ![s][k] = row[k]]
          /\ created' = [created EXCEPT ![k] = @ + 1]
  BY DEF CreatedAnswered
<1>1. /\ pc[s] = "created" /\ k \in Keys
      /\ Exists(k) /\ created[k] = 0
      /\ created'[k] = 1 /\ \A c \in Keys : c # k => created'[c] = created[c]
      /\ row' = row /\ begun' = begun /\ stale' = stale
      /\ buried' = buried /\ overwritten' = overwritten
      /\ pc'[s] = "idle" /\ arg'[s] = {}
      /\ \A t \in Sessions : t # s => pc'[t] = pc[t] /\ arg'[t] = arg[t]
      /\ \A t \in Sessions, c \in Keys :
            view'[t][c] = IF t = s /\ c = k THEN row[k] ELSE view[t][c]
  BY <1>0 DEF CreatedAnswered, Goto, Inv, TypeOK, KeysKnown
<1>2. \A c \in Keys : Exists(c)' <=> Exists(c)
  BY <1>1 DEF Exists
<1>3. ClaimsDisjoint'
  BY <1>1 DEF Inv, ClaimsDisjoint, Claiming
<1>4. KeysKnown'
  <2> SUFFICES ASSUME NEW t \in Sessions, t # s, NEW c \in arg[t]
               PROVE  (/\ pc[t] \in {"flushed", "batched"} => ~Exists(c)
                       /\ pc[t] \in {"created", "conflict"} => Exists(c)
                       /\ pc[t] = "created" => created[c] = 0
                       /\ pc[t] \in Marks => view[t][c] # NoRow)'
    BY <1>1 DEF KeysKnown
  <2>1. c \in Keys
    BY DEF Inv, TypeOK
  <2>2. pc[t] = "created" => c # k
    BY <1>1 DEF Inv, ClaimsDisjoint, Claiming
  <2> QED BY <1>1, <1>2, <2>1, <2>2 DEF Inv, KeysKnown
<1>5. NothingBeforeRow'
  BY <1>1, <1>2 DEF Inv, NothingBeforeRow
<1>6. CopiesTrail'
  BY <1>1, <1>2 DEF Inv, CopiesTrail, AttemptsCounted, DeadLettersAccounted
<1>7. DeadLettersAccounted' /\ AttemptsCounted'
  BY <1>1, <1>2 DEF Inv, DeadLettersAccounted, AttemptsCounted
<1>8. CreatedOnce'
  <2>1. \A c \in Keys : created'[c] <= 1
    BY <1>1 DEF Inv, CreatedOnce
  <2>2. ASSUME NEW t \in Sessions, pc'[t] \in {"conflict", "created"}, NEW c \in arg'[t]
        PROVE  Exists(c)'
    BY <1>4, <2>2 DEF KeysKnown
  <2> QED BY <2>1, <2>2 DEF CreatedOnce
<1> QED BY <1>3, <1>4, <1>5, <1>6, <1>7, <1>8 DEF Facts

\* What a mark does to the row: the flag is only ever raised, the status is
\* the mark or stays, and the count grows by at most the one attempt the
\* copy adds, exactly so when the copy is current.
LEMMA MarkedRow ==
    ASSUME Inv, NEW s \in Sessions, NEW k \in arg[s], pc[s] \in Marks
    PROVE  LET old == view[s][k]
               new == Assigned(old, pc[s])
               upd == Updated(k, old, new)
               more == IF pc[s] = "processing" THEN 1 ELSE 0
           IN  /\ old \in Row /\ row[k] \in Row /\ new \in Row /\ upd \in Row
               /\ upd.dlq <=> row[k].dlq \/ pc[s] = "dead_letter"
               /\ upd.status = "dead_letter" => upd.dlq
               /\ upd.status # "dead_letter" /\ pc[s] = "dead_letter" =>
                     row[k].dlq /\ row[k].status # "dead_letter"
               /\ upd.status # "dead_letter" /\ row[k].status = "dead_letter" =>
                     pc[s] # "dead_letter"
               /\ new.status = "dead_letter" => new.dlq
               /\ new.dlq => upd.dlq
               /\ new.attempts <= begun[k] + more
               /\ upd.attempts <= begun[k] + more
               /\ old = row[k] => upd.attempts = row[k].attempts + more
<1> DEFINE old == view[s][k]
           new == Assigned(old, pc[s])
           upd == Updated(k, old, new)
           more == IF pc[s] = "processing" THEN 1 ELSE 0
<1>0. k \in Keys
  BY DEF Inv, TypeOK
<1>1. /\ old \in Row /\ row[k] \in Row /\ Exists(k)
      /\ old.attempts <= begun[k] /\ row[k].attempts <= begun[k] /\ begun[k] \in Nat
      /\ old.dlq => row[k].dlq
      /\ old.status = "dead_letter" => old.dlq
      /\ row[k].status = "dead_letter" => row[k].dlq
  BY <1>0 DEF Inv, TypeOK, KeysKnown, CopiesTrail, DeadLettersAccounted, AttemptsCounted, Exists
<1>2. /\ new.status = pc[s]
      /\ new.attempts = old.attempts + more
      /\ new.dlq = (old.dlq \/ pc[s] = "dead_letter")
  BY <1>1 DEF Assigned, Row
<1>3. new \in Row
  BY <1>1, AssignedType
<1>4. upd \in Row
  BY <1>0, <1>1, <1>3, UpdatedType
<1>5. /\ upd.status = IF new.status # old.status THEN new.status ELSE row[k].status
      /\ upd.attempts = IF new.attempts # old.attempts THEN new.attempts ELSE row[k].attempts
      /\ upd.dlq = IF new.dlq # old.dlq THEN new.dlq ELSE row[k].dlq
  BY DEF Updated
<1> HIDE DEF new, upd
<1>6. /\ upd.dlq <=> row[k].dlq \/ pc[s] = "dead_letter"
      /\ upd.status # "dead_letter" /\ pc[s] = "dead_letter" =>
            row[k].dlq /\ row[k].status # "dead_letter"
      /\ upd.status # "dead_letter" /\ row[k].status = "dead_letter" =>
            pc[s] # "dead_letter"
  BY <1>1, <1>2, <1>5 DEF Row
<1>7. new.dlq => upd.dlq
  BY <1>1, <1>2, <1>5 DEF Row
<1>8. upd.status = "dead_letter" => upd.dlq
  BY <1>1, <1>2, <1>5, <1>6, <1>7 DEF Row
<1>9. new.status = "dead_letter" => new.dlq
  BY <1>1, <1>2 DEF Row
<1>10. new.attempts <= begun[k] + more /\ upd.attempts <= begun[k] + more
  BY <1>1, <1>2, <1>5 DEF Row
<1>11. old = row[k] => upd.attempts = row[k].attempts + more
  BY <1>1, <1>2, <1>5 DEF Row
<1> QED BY <1>1, <1>3, <1>4, <1>6, <1>7, <1>8, <1>9, <1>10, <1>11 DEF new, upd

\* The commit of a mark, computed from a copy of any age.
LEMMA CommitMarkStep ==
    ASSUME Inv, TypeOK', NEW s \in Sessions, CommitMark(s)
    PROVE  Facts'
<1>0. PICK k \in arg[s] :
          /\ row' = [row EXCEPT ![k] = Updated(k, view[s][k], Assigned(view[s][k], pc[s]))]
          /\ view' = [view EXCEPT ![s][k] = Assigned(view[s][k], pc[s])]
          /\ begun' = [begun EXCEPT ![k] = IF pc[s] = "processing" THEN @ + 1 ELSE @]
          /\ stale' = IF view[s][k] # row[k] THEN stale \union {k} ELSE stale
          /\ buried' = IF pc[s] = "dead_letter" THEN buried \union {k} ELSE buried
          /\ overwritten' = IF pc[s] # "dead_letter" /\ k \in buried
                            THEN overwritten \union {k} ELSE overwritten
  BY DEF CommitMark
<1> DEFINE old == view[s][k]
           new == Assigned(old, pc[s])
           upd == Updated(k, old, new)
           more == IF pc[s] = "processing" THEN 1 ELSE 0
<1>1. pc[s] \in Marks /\ k \in Keys /\ begun[k] \in Nat /\ more \in {0, 1}
  BY DEF CommitMark, Inv, TypeOK
<1>2. /\ old \in Row /\ row[k] \in Row /\ new \in Row /\ upd \in Row
      /\ upd.dlq <=> row[k].dlq \/ pc[s] = "dead_letter"
      /\ upd.status = "dead_letter" => upd.dlq
      /\ upd.status # "dead_letter" /\ pc[s] = "dead_letter" =>
            row[k].dlq /\ row[k].status # "dead_letter"
      /\ upd.status # "dead_letter" /\ row[k].status = "dead_letter" =>
            pc[s] # "dead_letter"
      /\ new.status = "dead_letter" => new.dlq
      /\ new.dlq => upd.dlq
      /\ new.attempts <= begun[k] + more
      /\ upd.attempts <= begun[k] + more
      /\ old = row[k] => upd.attempts = row[k].attempts + more
  BY <1>1, MarkedRow
<1>3. /\ row'[k] = upd /\ \A c \in Keys : c # k => row'[c] = row[c]
      /\ begun'[k] = begun[k] + more /\ \A c \in Keys : c # k => begun'[c] = begun[c]
      /\ stale \subseteq stale' /\ (old # row[k] => k \in stale')
      /\ \A c \in Keys : c # k => (c \in stale' <=> c \in stale)
      /\ k \in buried' <=> k \in buried \/ pc[s] = "dead_letter"
      /\ overwritten \subseteq overwritten'
      /\ pc[s] # "dead_letter" /\ k \in buried => k \in overwritten'
      /\ \A c \in Keys : c # k => /\ c \in buried' <=> c \in buried
                                  /\ c \in overwritten' <=> c \in overwritten
      /\ created' = created
      /\ pc'[s] = "refresh" /\ arg'[s] = arg[s]
      /\ \A t \in Sessions : t # s => pc'[t] = pc[t] /\ arg'[t] = arg[t]
      /\ \A t \in Sessions, c \in Keys :
            view'[t][c] = IF t = s /\ c = k THEN new ELSE view[t][c]
  BY <1>0, <1>1 DEF CommitMark, Goto, Inv, TypeOK
<1> HIDE DEF new, upd, more
<1>4. /\ Exists(k)
      /\ \A c \in Keys : Exists(c)' <=> Exists(c)
  BY <1>2, <1>3, NoRowIsNone DEF Exists
<1>5. ClaimsDisjoint'
  BY <1>3 DEF Inv, ClaimsDisjoint, Claiming
<1>6. KeysKnown'
  <2> SUFFICES ASSUME NEW t \in Sessions, t # s, NEW c \in arg[t]
               PROVE  (/\ pc[t] \in {"flushed", "batched"} => ~Exists(c)
                       /\ pc[t] \in {"created", "conflict"} => Exists(c)
                       /\ pc[t] = "created" => created[c] = 0
                       /\ pc[t] \in Marks => view[t][c] # NoRow)'
    BY <1>3 DEF KeysKnown, Marks
  <2>1. c \in Keys
    BY DEF Inv, TypeOK
  <2> QED BY <1>3, <1>4, <2>1 DEF Inv, KeysKnown
<1>7. NothingBeforeRow'
  BY <1>3, <1>4 DEF Inv, NothingBeforeRow
<1>8. CopiesTrail'
  <2> SUFFICES ASSUME NEW t \in Sessions, NEW c \in Keys, view'[t][c] # NoRow
               PROVE  (/\ Exists(c)
                       /\ view[t][c].attempts <= begun[c]
                       /\ view[t][c].dlq => row[c].dlq
                       /\ view[t][c].status = "dead_letter" => view[t][c].dlq)'
    BY DEF CopiesTrail
  <2>1. CASE t = s /\ c = k
    BY <1>2, <1>3, <1>4, <2>1
  <2>2. CASE ~(t = s /\ c = k)
    <3>1. view'[t][c] = view[t][c]
      BY <1>3, <2>2
    <3>2. /\ Exists(c) /\ view[t][c].attempts <= begun[c]
          /\ view[t][c].dlq => row[c].dlq
          /\ view[t][c].status = "dead_letter" => view[t][c].dlq
      BY <3>1 DEF Inv, CopiesTrail
    <3>3. view[t][c] \in Row
      BY <3>1 DEF Inv, TypeOK
    <3>4. begun[c] <= begun'[c] /\ begun[c] \in Nat /\ begun'[c] \in Nat
      BY <1>1, <1>3 DEF Inv, TypeOK
    <3>5. row[c].dlq => row'[c].dlq
      BY <1>2, <1>3
    <3>6. view[t][c].attempts <= begun'[c]
      BY <3>2, <3>3, <3>4 DEF Row
    <3> QED BY <1>4, <3>1, <3>2, <3>5, <3>6
  <2> QED BY <2>1, <2>2
<1>9. DeadLettersAccounted'
  <2> SUFFICES ASSUME NEW c \in Keys, Exists(c)'
               PROVE  (/\ row[c].dlq <=> c \in buried
                       /\ row[c].status = "dead_letter" => row[c].dlq
                       /\ row[c].dlq /\ row[c].status # "dead_letter" => c \in overwritten)'
    BY DEF DeadLettersAccounted
  <2>1. CASE c = k
    <3>1. /\ row[k].dlq <=> k \in buried
          /\ row[k].dlq /\ row[k].status # "dead_letter" => k \in overwritten
      BY <1>1, <1>4 DEF Inv, DeadLettersAccounted
    <3> QED BY <1>2, <1>3, <2>1, <3>1
  <2>2. CASE c # k
    BY <1>3, <1>4, <2>2 DEF Inv, DeadLettersAccounted
  <2> QED BY <2>1, <2>2
<1>10. AttemptsCounted'
  <2> SUFFICES ASSUME NEW c \in Keys, Exists(c)'
               PROVE  (/\ row[c].attempts <= begun[c]
                       /\ c \notin stale => row[c].attempts = begun[c])'
    BY DEF AttemptsCounted
  <2>1. CASE c = k
    <3>1. k \notin stale' => old = row[k] /\ row[k].attempts = begun[k]
      BY <1>3, <1>4, <1>1 DEF Inv, AttemptsCounted
    <3> QED BY <1>2, <1>3, <2>1, <3>1
  <2>2. CASE c # k
    BY <1>3, <1>4, <2>2 DEF Inv, AttemptsCounted
  <2> QED BY <2>1, <2>2
<1>11. CreatedOnce'
  <2>1. \A c \in Keys : created'[c] <= 1
    BY <1>3 DEF Inv, CreatedOnce
  <2>2. ASSUME NEW t \in Sessions, pc'[t] \in {"conflict", "created"}, NEW c \in arg'[t]
        PROVE  Exists(c)'
    BY <1>6, <2>2 DEF KeysKnown
  <2> QED BY <2>1, <2>2 DEF CreatedOnce
<1> QED BY <1>5, <1>6, <1>7, <1>8, <1>9, <1>10, <1>11 DEF Facts

-----------------------------------------------------------------------------
LEMMA InvInit == Init => Inv
<1> SUFFICES ASSUME Init PROVE Inv
  OBVIOUS
<1>1. TypeOK
  BY DEF Init, TypeOK
<1>2. \A k \in Keys : ~Exists(k)
  BY DEF Init, Exists
<1> QED BY <1>1, <1>2 DEF Init, Inv, ClaimsDisjoint, KeysKnown, NothingBeforeRow,
           CopiesTrail, DeadLettersAccounted, CreatedOnce, AttemptsCounted

LEMMA InvNext == Inv /\ [Next]_vars => Inv'
<1> SUFFICES ASSUME Inv, [Next]_vars PROVE Inv'
  OBVIOUS
<1>0. TypeOK'
  BY TypeInductive DEF Inv
<1>1. ASSUME NEW s \in Sessions, NEW k \in Keys, Flush(s, k)
      PROVE  Facts'
  BY <1>0, <1>1, LocalStep DEF Flush, Goto, Inv, TypeOK, Claiming, Marks
<1>2. ASSUME NEW s \in Sessions, NEW k \in Keys, NEW m \in Marks, Get(s, k, m)
      PROVE  Facts'
  BY <1>0, <1>2, LocalStep DEF Get, Goto, Inv, TypeOK, Claiming, Marks, Exists
<1>3. ASSUME NEW s \in Sessions, NEW K \in (SUBSET Keys) \ {{}}, BatchInsert(s, K)
      PROVE  Facts'
  BY <1>0, <1>3, LocalStep DEF BatchInsert, Goto, Inv, TypeOK, Claiming, Marks
<1>4. ASSUME NEW s \in Sessions, SelectExisting(s)
      PROVE  Facts'
  BY <1>0, <1>4, LocalStep DEF SelectExisting, Goto, Inv, TypeOK, Claiming, Marks
<1>5. ASSUME NEW s \in Sessions, Refresh(s)
      PROVE  Facts'
  BY <1>0, <1>5, LocalStep DEF Refresh, Goto, Inv, TypeOK, Claiming, Marks
<1>6. ASSUME NEW s \in Sessions, Close(s)
      PROVE  Facts'
  BY <1>0, <1>6, LocalStep DEF Close, Goto, Inv, TypeOK, Claiming, Marks
<1>7. ASSUME UNCHANGED vars
      PROVE  Facts'
  BY <1>7 DEF vars, ghosts, Inv, Facts, ClaimsDisjoint, KeysKnown, NothingBeforeRow,
     CopiesTrail, DeadLettersAccounted, CreatedOnce, AttemptsCounted, Exists
<1>8. Facts'
  BY <1>0, <1>1, <1>2, <1>3, <1>4, <1>5, <1>6, <1>7, CommitInsertStep,
     CreatedAnsweredStep, CommitMarkStep DEF Next
<1> QED BY <1>0, <1>8 DEF Inv, Facts

LEMMA InvHolds == Spec => []Inv
  BY InvInit, InvNext, PTL DEF Spec

\* Type correctness of the event log.
THEOREM EventLogTypeCorrect == Spec => []TypeOK
<1>1. Inv => TypeOK
  BY DEF Inv
<1> QED BY <1>1, InvHolds, PTL

\* create_processed_event answers (event, True) at most once per key, however
\* many creates and batches of it overlap, fail and are repeated.
THEOREM CreateAcknowledgedOnce == Spec => []CreatedOnce
<1>1. Inv => CreatedOnce
  BY DEF Inv
<1> QED BY <1>1, InvHolds, PTL

\* mark_event_processing counts exactly until a mark is computed from an
\* outdated copy, and never counts more attempts than there were.
THEOREM AttemptsNeverInvented == Spec => []AttemptsCounted
<1>1. Inv => AttemptsCounted
  BY DEF Inv
<1> QED BY <1>1, InvHolds, PTL

\* The dead letter flag is set exactly on the events mark_event_dlq was
\* committed for; the status reads "dead_letter" only with the flag, and a
\* flagged event reads otherwise only after a later mark overwrote it.
THEOREM DeadLettersAreAccounted == Spec => []DeadLettersAccounted
<1>1. Inv => DeadLettersAccounted
  BY DEF Inv
<1> QED BY <1>1, InvHolds, PTL
=============================================================================
