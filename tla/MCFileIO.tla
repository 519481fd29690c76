------------------------------ MODULE MCFileIO ------------------------------
(***************************************************************************)
(* Two volumes of two clusters.  One has two sectors in a cluster: the disk *)
(* fills up and nothing fails.  The other has one, its files end at the     *)
(* limit of their pointer, and any disk access may fail.                   *)
(***************************************************************************)
EXTENDS FileIO

MCBuffers == {<<1, 1, 0, 1>>}
MCVolumes ==
    {[csize |-> 2, offMod |-> 16, lengths |-> {4}, offsets |-> {2, 4, 5}, faulty |-> FALSE],
     [csize |-> 1, offMod |-> 4, lengths |-> {1, 3}, offsets |-> {0, 2, 9}, faulty |-> TRUE]}
=============================================================================
