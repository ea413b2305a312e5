----------------------------- MODULE MCProcessor -----------------------------
(* An instance of Processor for TLC. *)
EXTENDS Processor

\* A topic with a message of each kind, the malformed one first.
AllKinds == <<"bad", "good", "alien">>
=============================================================================
