---------------------------- MODULE MCVectorIndex ----------------------------
(***************************************************************************)
(* One memory in two spaces, two recalls, room for one matrix.             *)
(***************************************************************************)
EXTENDS VectorIndex, TLC

Symmetry == Permutations(MemoryIds) \cup Permutations(Searches) \cup Permutations(Spaces)
=============================================================================
