---------------------------- MODULE MCRecordCache ----------------------------
(* RecordCache for TLC; the configuration gives the constants. *)
EXTENDS RecordCache
=============================================================================
