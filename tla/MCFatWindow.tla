----------------------------- MODULE MCFatWindow -----------------------------
(***************************************************************************)
(* A volume of seven sectors: boot sector, FSInfo, one FAT sector and its  *)
(* copy, and three sectors of directory tables.  One run covers two kinds  *)
(* of behaviour: those in which any disk access may fail and the power may *)
(* go at any moment, and (sound) those in which nothing fails.             *)
(***************************************************************************)
EXTENDS FatWindow

CONSTANTS zero, used, full
MCVal == {zero, used, full}
MCFat32Boot == {used}

\* Volumes without FSInfo (another boot sector) in sound behaviours only: with
\* faults, a failed read of FSInfo is the same to the window.
MCInit ==
    /\ Init
    /\ \A s \in Sectors : disk[s] # full
    /\ sound \/ disk[0] \in Fat32Boot

\* Two values do for the tables; the counters have a third one in sound
\* behaviours.
Kept ==
    /\ sound' = sound
    /\ sound \/ hint' # full
    /\ call'.val # full
    /\ win' = full => sound /\ (win = full \/ winsect' = FsInfoSect)

MCNext ==
    \/ \E s \in MetaSect : MoveWindow("get", s, Zero) /\ Kept
    \/ \E s \in MetaSect, v \in Val : MoveWindow("put", s, v) /\ Kept
    \/ \E op \in {"stretch", "mkdir"}, s, p \in DirSect, v \in Val :
          FillCluster(op, s, v, p) /\ Kept
    \/ SyncFs /\ Kept
    \/ \E h \in Val : SetHint(h) /\ Kept
    \/ WriteBack /\ Kept
    \/ WriteBackFails /\ Kept
    \/ WriteMirror /\ Kept
    \/ Load /\ Kept
    \/ LoadFails /\ Kept
    \/ Return /\ Kept
    \/ FillNext /\ Kept
    \/ StretchEnds /\ Kept
    \/ MkdirEnds /\ Kept
    \/ WriteFsInfo /\ Kept
    \/ SkipFsInfo /\ Kept
    \/ CtrlSync /\ Kept
    \/ Detach /\ Kept
    \/ CheckFs /\ Kept
    \/ Mount /\ Kept
    \/ PowerCut /\ Kept

MCSpec == MCInit /\ [][MCNext]_vars
=============================================================================
