---------------------------- MODULE MCWorkerPool ----------------------------
(* WorkerPool for TLC; the configuration gives the constants. *)
EXTENDS WorkerPool
=============================================================================
