---------------------------- MODULE MCFatVolume ----------------------------
(* What was damaged in a rename or behind a truncation is not gone on with. *)
EXTENDS FatVolume, TLC

NotHurt == ~hurt
Symmetry == Permutations(Ids) \cup Permutations(Names) \cup Permutations(Fils)
=============================================================================
