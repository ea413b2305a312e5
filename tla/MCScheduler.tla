---------------------------- MODULE MCScheduler -----------------------------
(* An instance of Scheduler for TLC. *)
EXTENDS Scheduler
=============================================================================
