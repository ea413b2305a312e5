----------------------------- MODULE MCOutbound -----------------------------
(* An instance of Outbound for TLC. *)
EXTENDS Outbound
=============================================================================
