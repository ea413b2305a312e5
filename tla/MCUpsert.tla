------------------------------ MODULE MCUpsert ------------------------------
(* Upsert for TLC. *)
EXTENDS Upsert, TLC

\* Clients are interchangeable.
UpsertSymmetry == Permutations(Clients)
=============================================================================
