----------------------------- MODULE MCDirTable -----------------------------
(* Two long names with the same letters, one of two parts; a name that      *)
(* equals the first number of them; and one that needs a long name for its  *)
(* small letters only, whose checksum is that of the first number.          *)
EXTENDS DirTable, TLC

MCNames ==
    {[segs |-> << <<"a", 0>> >>, short |-> <<"S", 0>>, loss |-> TRUE, lfn |-> TRUE],
     [segs |-> << <<"a", 0>>, <<"b", 0>> >>, short |-> <<"S", 0>>, loss |-> TRUE, lfn |-> TRUE],
     ShortName(<<"S", 1>>),
     [segs |-> << <<"k", 0>> >>, short |-> <<"K", 0>>, loss |-> FALSE, lfn |-> TRUE]}
MCSum == [s \in Shorts |-> IF s[1] = "K" THEN 3 + s[2] ELSE s[2]]
Symmetry == Permutations(Ids)
=============================================================================
