--------------------------- MODULE MCNostrEngine ---------------------------
(***************************************************************************)
(* One profile of two times and two bodies, and two requests for it.       *)
(***************************************************************************)
EXTENDS NostrEngine

Symmetry == Permutations(Requests) \cup Permutations(Bodies)
=============================================================================
