--------------------------- MODULE MCApplication ----------------------------
(* An instance of Application for TLC. *)
EXTENDS Application

\* The settings name a channel that does not exist.
MCRawChannels == <<"slack", "pager", "email">>
=============================================================================
