--------------------------- MODULE MCFileHandles ---------------------------
(* Three File variables over a heap of four objects. *)
EXTENDS FileHandles, TLC

Symmetry == Permutations(Vars) \cup Permutations(Addresses)
=============================================================================
