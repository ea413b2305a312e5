---------------------------- MODULE VectorIndex -----------------------------
(***************************************************************************)
(* Indexing records for semantic search: the routes of                     *)
(* routers/vector_search.py read records (the table of Listing) and send   *)
(* them to the AI gateway (services/ai_gateway), which embeds them and     *)
(* upserts them into its Qdrant collection.                                *)
(*                                                                         *)
(* The gateway's handler never gives up its event loop (embed_text is      *)
(* synchronous), so indexing a request is one step.  The ingestor waits    *)
(* for it with a timeout: when that expires the client is told that        *)
(* indexing failed, and the gateway may still do it.  Qdrant and the       *)
(* embedding model are external.                                           *)
(*                                                                         *)
(* Left out: vectors, texts and the choice of a collection; search, which  *)
(* changes nothing.                                                        *)
(***************************************************************************)
EXTENDS Listing

VARIABLES
    docs,       \* the version of each record in a request's documents, 0 if none
    index,      \* the version of each record in the collection, 0 if none
    acked,      \* ghost: the newest version whose indexing was acknowledged
    raced       \* ghost: records of which an older document was on its way then

indexVars == <<docs, index, acked, raced>>
allVars == <<listingVars, indexVars>>

Nothing == [i \in Ids |-> 0]

IndexInit ==
    /\ ListingInit
    /\ docs = [s \in Sessions |-> Nothing]
    /\ index = Nothing
    /\ acked = Nothing
    /\ raced = {}

\* build_record_search_document for every record that was read.
Documents(ids) == [i \in Ids |-> IF i \in ids THEN row[i].ver ELSE 0]

SendToGateway(s, ids) ==
    /\ mode[s] = "new"
    /\ ids # {}         \* otherwise the answer is 404
    /\ docs' = [docs EXCEPT ![s] = Documents(ids)]
    /\ mode' = [mode EXCEPT ![s] = "sent"]
    /\ UNCHANGED <<row, writes, scanVars, ghostVars, index, acked, raced>>

\* POST /vector-search/index/records: the active ones of the records asked for.
IndexRecords(s, ids) == SendToGateway(s, ids \intersect Active)

\* POST /vector-search/index/recent: the newest by timestamp, in no
\* particular order among equals.
Newest(ids) ==
    /\ ids \subseteq Active
    /\ Cardinality(ids) = IF Cardinality(Active) < Limit THEN Cardinality(Active) ELSE Limit
    /\ \A i \in ids, j \in Active \ ids : row[i].at >= row[j].at
IndexRecent(s, ids) == Newest(ids) /\ SendToGateway(s, ids)

\* upsert_points: points of the batch replace those of the same id.
Upserted(d) == [i \in Ids |-> IF d[i] # 0 THEN d[i] ELSE index[i]]

\* Documents that are on their way to the gateway, those of requests whose
\* client has given up included.
OnTheWay == {docs[s] : s \in {r \in Sessions : mode[r] \in {"sent", "late"}}}
Overtakes(d) == {i \in Ids : d[i] # 0 /\ \E e \in OnTheWay : e[i] \in 1..(d[i] - 1)}

Acknowledge(s) ==
    /\ acked' = [i \in Ids |-> IF docs[s][i] > acked[i] THEN docs[s][i] ELSE acked[i]]
    /\ raced' = raced \union Overtakes(docs[s])
    /\ docs' = [docs EXCEPT ![s] = Nothing]
    /\ mode' = [mode EXCEPT ![s] = "answered"]

\* POST /index of the gateway, and its answer.
GatewayIndexesSwallowing(s) ==
    /\ mode[s] = "sent"
    /\ index' \in {index, Upserted(docs[s])}
    /\ Acknowledge(s)
    /\ UNCHANGED <<row, writes, scanVars, ghostVars>>
GatewayIndexes(s) ==
    /\ mode[s] = "sent"
    /\ index' = Upserted(docs[s])
    /\ Acknowledge(s)
    /\ UNCHANGED <<row, writes, scanVars, ghostVars>>

\* The collection, the model or the upsert raises: 500 from the gateway, 502
\* to the client.
GatewayFails(s) ==
    /\ mode[s] = "sent"
    /\ docs' = [docs EXCEPT ![s] = Nothing]
    /\ mode' = [mode EXCEPT ![s] = "answered"]
    /\ UNCHANGED <<row, writes, scanVars, ghostVars, index, acked, raced>>

\* The timeout expires first: 502 to the client as well, but the documents
\* are with the gateway.
GiveUp(s) ==
    /\ mode[s] = "sent"
    /\ mode' = [mode EXCEPT ![s] = "late"]
    /\ UNCHANGED <<row, writes, scanVars, ghostVars, indexVars>>

\* The gateway indexes, or fails to index, what nobody waits for.
LateIndex(s) ==
    /\ mode[s] = "late"
    /\ index' \in {index, Upserted(docs[s])}
    /\ docs' = [docs EXCEPT ![s] = Nothing]
    /\ mode' = [mode EXCEPT ![s] = "answered"]
    /\ UNCHANGED <<row, writes, scanVars, ghostVars, acked, raced>>

IndexNext ==
    \/ WriteStep /\ UNCHANGED indexVars
    \/ \E s \in Sessions :
          \/ ScanStep(s) /\ UNCHANGED indexVars
          \/ \E ids \in SUBSET Ids : IndexRecords(s, ids) \/ IndexRecent(s, ids)
          \/ GatewayIndexes(s) \/ GatewayFails(s) \/ GiveUp(s) \/ LateIndex(s)

IndexSpec == IndexInit /\ [][IndexNext]_allVars

-----------------------------------------------------------------------------
IndexTypeOK ==
    /\ row \in [Ids -> [state : {"absent", "active", "archived"},
                        at : Times \union {0}, ver : 0..MaxVersion]]
    /\ writes \in 0..MaxWrites
    /\ mode \in [Sessions -> {"new", "cursor", "count", "page", "ended",
                              "offsetEnded", "sent", "late", "answered"}]
    /\ cursor \in [Sessions -> {NoCursor} \union (Nat \X Ids)]
    /\ skip \in [Sessions -> Nat] /\ total \in [Sessions -> Nat]
    /\ shown \in [Sessions -> SUBSET Ids] /\ again \in [Sessions -> SUBSET Ids]
    /\ received \in [Sessions -> Nat]
    /\ steady \in [Sessions -> SUBSET Ids] /\ moved \in [Sessions -> Nat]
    /\ docs \in [Sessions -> [Ids -> 0..MaxVersion]]
    /\ index \in [Ids -> 0..MaxVersion] /\ acked \in [Ids -> 0..MaxVersion]
    /\ raced \in SUBSET Ids

\* What was acknowledged as indexed can be found, in that version or a newer
\* one that some request read, even after failed and given-up requests;
\* only a document that was already on its way when the newer one was
\* acknowledged can put an older version back.
AcknowledgedIsIndexed ==
    /\ IndexTypeOK
    /\ \A i \in Ids : /\ index[i] <= row[i].ver
                      /\ index[i] < acked[i] => i \in raced
=============================================================================
