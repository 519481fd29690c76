----------------------------- MODULE MCFatChains -----------------------------
(***************************************************************************)
(* Two files and the root directory on a FAT32 volume of a few clusters.   *)
(* One run covers two kinds of behaviour: those in which any FAT access    *)
(* may fail and f_expand may run past the end of the FAT, and (sound) those *)
(* in which neither happens.                                               *)
(***************************************************************************)
EXTENDS FatChains, TLC

CONSTANTS f1, f2
MCFiles == {f1, f2}
MCSymmetry == Permutations(MCFiles)

Kept == sound' = sound

MCNext ==
    \/ \E o \in Objs : CreateChain(o) /\ Kept
    \/ \E o \in Objs, c \in Clusters : StretchChain(o, c) /\ Kept
    \/ DiskFull /\ Kept
    \/ CallFails /\ Kept
    \/ \E o \in Files, hole \in BOOLEAN : RemoveChain(o, hole) /\ Kept
    \/ \E o \in Files, c \in Clusters : TruncateChain(o, c) /\ Kept
    \/ \E o \in Files, n \in 1 .. MaxExpand : ExpandDenied(o, n) /\ Kept
    \/ \E o \in Files, n \in 1 .. MaxExpand, opt \in BOOLEAN :
          Expand(o, n, opt) /\ Kept
    \/ GetFree /\ Kept
    \/ Remount /\ Kept
    \/ LinkCluster /\ Kept
    \/ LinkFails /\ Kept
    \/ FreeCluster /\ Kept
    \/ FreeFails /\ Kept
    \/ ExpandLink /\ Kept
    \/ ExpandFails /\ Kept

MCSpec == Init /\ [][MCNext]_vars
=============================================================================
