--------------------------- MODULE MCVectorIndex ----------------------------
(* An instance of VectorIndex, and with it of Listing, for TLC. *)
EXTENDS VectorIndex, TLC

\* The sessions are interchangeable, and no temporal property is checked.
SessionSymmetry == Permutations(Sessions)
=============================================================================
