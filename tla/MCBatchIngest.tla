--------------------------- MODULE MCBatchIngest ---------------------------
(* An instance of BatchIngest for TLC. *)
EXTENDS BatchIngest

CONSTANTS ClientKey     \* the idempotency_key of a single record

\* Two batches of one size, and a single record with a key that is also in
\* the second, and one without a key.
MixedRequests == {"b1", "b2", "s1", "s2"}
MixedKind == [r \in MixedRequests |-> IF r \in {"s1", "s2"} THEN "single" ELSE "batch"]
MixedRows == [b1 |-> {1, 2}, b2 |-> {3, 4}, s1 |-> {3}, s2 |-> {3}]
MixedUserKey == [r \in MixedRequests |-> IF r = "s1" THEN ClientKey ELSE NoKey]
=============================================================================
