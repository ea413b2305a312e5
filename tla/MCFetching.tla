----------------------------- MODULE MCFetching -----------------------------
(* An instance of Fetching for TLC. *)
EXTENDS Fetching

\* A page with four items; the second has no title and the first is repeated.
MCPage == <<1, 0, 1, 2, 3>>
=============================================================================
