--------------------------- MODULE MCExFatChains ---------------------------
(* A volume of a few clusters, with symmetric directories. *)
EXTENDS ExFatChains, TLC

Symmetry == Permutations(Dirs)
=============================================================================
