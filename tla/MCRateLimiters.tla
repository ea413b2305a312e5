--------------------------- MODULE MCRateLimiters ---------------------------
(* An instance of RateLimiters for TLC. *)
EXTENDS RateLimiters
=============================================================================
