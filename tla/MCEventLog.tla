----------------------------- MODULE MCEventLog -----------------------------
(* An instance of EventLog for TLC. *)
EXTENDS EventLog, TLC

\* Sessions are interchangeable.
EventLogSymmetry == Permutations(Sessions)
=============================================================================
