--------------------------- MODULE FatWindowProofs ---------------------------
(***************************************************************************)
(* Proofs about the access window for every geometry, every set of sector  *)
(* contents and every placement of disk errors and power cuts: types, the  *)
(* coherence of the window, durability after sync_fs, and that the window  *)
(* implements the read-your-writes store SectorStore.                      *)
(***************************************************************************)
EXTENDS FatWindow, TLAPS

USE DEF Sectors, NoSect, FsInfoSect

\* Where the areas of the volume lie: the metadata sectors are sectors, none
\* of them is the boot sector or FSInfo, and the copy of a FAT sector is a
\* sector of neither the first FAT nor the directory area.
LEMMA Geometry ==
    /\ MetaSect \subseteq Sectors
    /\ DirSect \cap FatSect = {}
    /\ 0 \in Sectors /\ 1 \in Sectors /\ 0 \notin MetaSect /\ 1 \notin MetaSect
    /\ NoSect \notin Sectors
    /\ NFats = 2 => \A s \in FatSect : s + FSize \in Sectors \ MetaSect
<1>1. CASE NFats = 1
  <2>1. DirBase = FatBase + FSize
    BY <1>1, GeometryAssumption DEF DirBase
  <2> QED BY <1>1, <2>1, GeometryAssumption DEF MetaSect, FatSect, DirSect
<1>2. CASE NFats = 2
  <2>1. DirBase = FatBase + FSize + FSize
    BY <1>2, GeometryAssumption DEF DirBase
  <2> QED BY <1>2, <2>1, GeometryAssumption DEF MetaSect, FatSect, DirSect
<1> QED BY <1>1, <1>2, GeometryAssumption
-----------------------------------------------------------------------------
(* The inductive invariant *)

\* What each point of a running call knows about its arguments.
CallKnown ==
    /\ pc = "idle" \/ call.op # "mount" \/ (pc \in {"load", "mount"} /\ ~wflag)
    /\ pc = "mount" => call.op = "mount"
    /\ pc \notin {"idle", "mount"} /\ call.op \in {"get", "put"} =>
          pc \in {"write", "mirror", "load", "done"} /\ call.sect \in MetaSect
    /\ pc # "idle" /\ call.op = "sync" =>
          pc \in {"write", "mirror", "fsinfo", "ioctl"}
    /\ pc # "idle" /\ call.op \in {"stretch", "mkdir"} =>
          /\ pc \in {"write", "mirror", "fill"}
          /\ call.sect \in DirSect /\ call.sect + CSize <= NSect
          /\ call.par \in DirSect

\* Where the window is clean, where it is dirty, and what it then names.
WindowKnown ==
    /\ wflag => winsect \in MetaSect
    /\ pc = "write" => wflag
    /\ pc \in {"mirror", "load", "fill", "fsinfo", "ioctl", "mount"} => ~wflag
    /\ pc = "mirror" => NFats = 2 /\ winsect \in FatSect
    /\ pc = "done" => winsect = call.sect
    /\ pc = "load" /\ call.op \in {"get", "put"} => call.sect \in MetaSect

\* dir_next's fill: the cleared window has been written to every sector so far.
StretchKnown ==
    pc \in {"write", "mirror", "fill"} /\ call.op = "stretch" /\ call.n > 0 =>
       /\ win = Zero
       /\ winsect = call.sect + call.n - 1
       /\ \A i \in 0 .. call.n - 1 :
             disk[call.sect + i] = Zero \/ (pc = "write" /\ i = call.n - 1)

\* The value the next fill step of dir_next puts into the window is Zero.
StretchZero == pc # "idle" /\ call.op = "stretch" => call.val = Zero

IInv == TypeOK /\ CallKnown /\ WindowKnown /\ StretchKnown /\ StretchZero
        /\ WindowCoherent
-----------------------------------------------------------------------------
\* Every call record that a step builds is a call.
LEMMA CallType ==
    /\ \A op \in {"get", "put", "sync", "stretch", "mkdir", "mount"},
          s, p \in Sectors, v \in Val :
          /\ Call(op, s, v, p) \in Calls
          /\ Call(op, s, v, p).op = op /\ Call(op, s, v, p).sect = s
          /\ Call(op, s, v, p).val = v /\ Call(op, s, v, p).par = p
          /\ Call(op, s, v, p).n = 0
    /\ \A c \in Calls : c.n < CSize =>
          LET d == [c EXCEPT !.n = @ + 1]
          IN  /\ d \in Calls
              /\ d.op = c.op /\ d.sect = c.sect /\ d.val = c.val /\ d.par = c.par
              /\ d.n = c.n + 1
    /\ \A c \in Calls :
          /\ c.op \in {"get", "put", "sync", "stretch", "mkdir", "mount"}
          /\ c.sect \in Sectors /\ c.par \in Sectors /\ c.val \in Val /\ c.n \in 0 .. CSize
BY GeometryAssumption DEF Calls, Call

\* The results a step can return are results, and they are told apart.
LEMMA ResultType ==
    /\ Synced \in Results /\ DiskErr \in Results
    /\ \A s \in Sectors, v \in Val : Ok(s, v) \in Results /\ Ok(s, v) # Synced
    /\ Synced # DiskErr
<1>1. \A s \in Sectors, v \in Val : Ok(s, v).st = "OK"
  BY DEF Ok
<1>2. Synced.st = "SYNCED" /\ DiskErr.st = "DISK_ERR"
  BY DEF Synced, DiskErr
<1> QED BY <1>1, <1>2 DEF Results

LEMMA InitInv == Init => IInv
<1> SUFFICES ASSUME Init PROVE IInv
  OBVIOUS
<1>1. call \in Calls /\ call.op = "mount"
  BY CallType, ValAssumption, Geometry DEF Init
<1>2. winsect \notin MetaSect
  BY Geometry DEF Init
<1>3. TypeOK
  BY <1>1, ValAssumption, ResultType DEF Init, TypeOK, PCs
<1> QED
  BY <1>1, <1>2, <1>3 DEF Init, IInv, CallKnown, WindowKnown, StretchKnown,
                          StretchZero, WindowCoherent

\* Types are preserved, one action at a time.
LEMMA TypeStep ==
    ASSUME IInv, [Next]_vars
    PROVE  TypeOK'
<1> USE DEF TypeOK, PCs
<1>0. TypeOK /\ CallKnown /\ WindowKnown
  BY DEF IInv
<1>g. /\ 0 \in Sectors /\ 1 \in Sectors /\ 0 \in 0 .. CSize
      /\ MetaSect \subseteq Sectors /\ DirSect \subseteq Sectors
      /\ Zero \in Val /\ Unknown \in Val
      /\ NFats = 2 => \A s \in FatSect : s + FSize \in Sectors
  BY Geometry, ValAssumption, GeometryAssumption DEF MetaSect
<1> HIDE DEF Sectors, NoSect
<1>1. ASSUME NEW op \in {"get", "put"}, NEW s \in MetaSect, NEW v \in Val,
             MoveWindow(op, s, v)
      PROVE  TypeOK'
  BY <1>1, <1>0, <1>g, CallType DEF MoveWindow, fsVars
<1>2. CASE SyncFs
  BY <1>2, <1>0, <1>g, CallType DEF SyncFs, fsVars
<1>3. ASSUME NEW op \in {"stretch", "mkdir"}, NEW s \in DirSect, NEW p \in DirSect,
             NEW v \in Val, FillCluster(op, s, v, p)
      PROVE  TypeOK'
  BY <1>3, <1>0, <1>g, CallType DEF FillCluster, fsVars
<1>4. ASSUME NEW h \in Val, SetHint(h)
      PROVE  TypeOK'
  BY <1>4, <1>0, <1>g DEF SetHint
<1>5. CASE WriteBack
  BY <1>5, <1>0, <1>g DEF WriteBack, AfterSync, fsVars, WindowKnown
<1>6. CASE WriteBackFails
  BY <1>6, <1>0, <1>g, ResultType DEF WriteBackFails, fsVars, WindowKnown
<1>7. CASE WriteMirror
  BY <1>7, <1>0, <1>g DEF WriteMirror, AfterSync, fsVars, WindowKnown
<1>8. CASE Load
  BY <1>8, <1>0, <1>g, CallType DEF Load, fsVars
<1>9. CASE LoadFails
  BY <1>9, <1>0, <1>g, ResultType DEF LoadFails, fsVars
<1>10. CASE Return
  <2>0. call.val \in Val /\ call.sect \in Sectors
    BY <1>0, CallType
  <2>1. win' \in Val /\ wflag' \in BOOLEAN /\ call.sect \in Sectors
    <3>1. CASE call.op = "get" /\ UNCHANGED <<win, wflag>>
      BY <3>1, <2>0, <1>0
    <3>2. CASE call.op = "put" /\ win' = call.val /\ wflag' = TRUE
      BY <3>2, <2>0
    <3> QED BY <3>1, <3>2, <1>10 DEF Return
  <2>2. ret' \in Results
    BY <1>10, <2>1, ResultType DEF Return
  <2> QED BY <1>10, <1>0, <2>1, <2>2 DEF Return, fsVars
<1>11. CASE FillNext
  <2>1. /\ call.op \in {"stretch", "mkdir"}
        /\ call.sect + CSize <= NSect /\ call.sect \in Sectors
        /\ call.n \in 0 .. CSize /\ call.n < CSize /\ call.val \in Val
    BY <1>11, <1>0, CallType DEF FillNext, CallKnown
  <2>2. call.sect + call.n \in Sectors
    BY <2>1, GeometryAssumption DEF Sectors
  <2>3. call' \in Calls
    BY <1>11, <1>0, <2>1, CallType DEF FillNext
  <2>4. win' \in Val
    BY <1>11, <1>g, <2>1 DEF FillNext
  <2> QED BY <1>11, <1>0, <2>2, <2>3, <2>4 DEF FillNext, fsVars
<1>12. CASE StretchEnds
  BY <1>12, <1>0, <1>g, CallType, ResultType DEF StretchEnds, fsVars
<1>13. CASE MkdirEnds
  BY <1>13, <1>0, <1>g, CallType DEF MkdirEnds, fsVars
<1>14. CASE WriteFsInfo
  BY <1>14, <1>0, <1>g DEF WriteFsInfo, FsInfoSect
<1>15. CASE SkipFsInfo
  BY <1>15, <1>0, <1>g DEF SkipFsInfo, fsVars
<1>16. CASE CtrlSync
  BY <1>16, <1>0, <1>g, ResultType DEF CtrlSync, fsVars
<1>17. CASE Detach
  BY <1>17, <1>0, <1>g, ResultType DEF Detach
<1>18. CASE CheckFs
  BY <1>18, <1>0, <1>g, CallType, ResultType DEF CheckFs, fsVars
<1>19. CASE Mount
  BY <1>19, <1>0, <1>g DEF Mount, Counters, FsInfoSect
<1>20. CASE PowerCut
  BY <1>20, <1>0, <1>g, ResultType DEF PowerCut
<1>21. CASE UNCHANGED vars
  BY <1>21, <1>0 DEF vars
<1> QED
  BY <1>1, <1>2, <1>3, <1>4, <1>5, <1>6, <1>7, <1>8, <1>9, <1>10, <1>11,
     <1>12, <1>13, <1>14, <1>15, <1>16, <1>17, <1>18, <1>19, <1>20, <1>21
     DEF Next, Step, Access, SyncWindow, Fill, FlushDrive, MountVolume
-----------------------------------------------------------------------------

\* What every step of the proof below starts from: the types, and where the
\* areas of the volume lie.
Known ==
    /\ disk \in [Sectors -> Val] /\ winsect \in Sectors \cup {NoSect}
    /\ wflag \in BOOLEAN /\ call \in Calls /\ pc \in PCs
    /\ call.op \in {"get", "put", "sync", "stretch", "mkdir", "mount"}
    /\ call.sect \in Sectors /\ call.par \in Sectors /\ call.n \in 0 .. CSize
    /\ DirSect \subseteq MetaSect /\ FatSect \subseteq MetaSect
    /\ MetaSect \subseteq Sectors /\ DirSect \cap FatSect = {}
    /\ NoSect \notin MetaSect /\ 0 \notin MetaSect /\ FsInfoSect \notin MetaSect
    /\ NFats = 2 => \A s \in FatSect : s + FSize \in Sectors \ MetaSect
    /\ 0 \in Sectors /\ Zero \in Val

LEMMA KnownFacts == IInv => Known
BY Geometry, CallType, ValAssumption DEF IInv, TypeOK, Known, MetaSect

\* The running call's arguments stay what its steps expect.
LEMMA CallStep ==
    ASSUME IInv, [Next]_vars
    PROVE  CallKnown'
<1> USE DEF CallKnown, Known
<1>0. Known /\ CallKnown
  BY KnownFacts DEF IInv
<1> HIDE DEF Sectors, NoSect, FsInfoSect
<1>1. ASSUME NEW op \in {"get", "put"}, NEW s \in MetaSect, NEW v \in Val,
             MoveWindow(op, s, v)
      PROVE  CallKnown'
  <2>1. call'.op = op /\ call'.sect = s
    BY <1>1 DEF MoveWindow, Call
  <2>2. /\ pc' = IF s = winsect THEN "done" ELSE IF wflag THEN "write" ELSE "load"
        /\ winsect' = winsect /\ wflag' = wflag
    BY <1>1 DEF MoveWindow
  <2> QED BY <2>1, <2>2, <1>0
<1>2. ASSUME NEW op \in {"stretch", "mkdir"}, NEW s \in DirSect, NEW p \in DirSect,
             NEW v \in Val, FillCluster(op, s, v, p)
      PROVE  CallKnown'
  <2>1. /\ call'.op = op /\ call'.sect = s /\ call'.par = p /\ call'.val = v
        /\ call'.n = 0
    BY <1>2 DEF FillCluster, Call
  <2>2. /\ s + CSize <= NSect /\ (op = "stretch" => v = Zero)
        /\ pc' = IF wflag THEN "write" ELSE "fill"
        /\ UNCHANGED <<disk, win, winsect, wflag>>
    BY <1>2 DEF FillCluster
  <2> QED BY <2>1, <2>2, <1>0
<1>3. ASSUME NEW h \in Val, SetHint(h)
      PROVE  CallKnown'
  BY <1>3, <1>0 DEF SetHint
<1>4. CASE SyncFs
  BY <1>4, <1>0, CallType DEF SyncFs, fsVars
<1>5. CASE SyncWindow
  BY <1>5, <1>0 DEF SyncWindow, WriteBack, WriteBackFails, WriteMirror, AfterSync, fsVars
<1>6. CASE Load
  BY <1>6, <1>0, CallType DEF Load, fsVars
<1>7. CASE LoadFails
  BY <1>7, <1>0 DEF LoadFails, fsVars
<1>8. CASE Return
  BY <1>8, <1>0 DEF Return, fsVars
<1>9. CASE FillNext
  BY <1>9, <1>0, CallType, GeometryAssumption DEF FillNext, fsVars
<1>10. CASE StretchEnds
  BY <1>10, <1>0, CallType DEF StretchEnds, fsVars
<1>11. CASE MkdirEnds
  <2>1. call'.op = "get" /\ call'.sect = call.par /\ pc' = "load"
    BY <1>11 DEF MkdirEnds, Call
  <2>2. call.par \in MetaSect
    BY <1>11, <1>0 DEF MkdirEnds
  <2> QED BY <2>1, <2>2
<1>12. CASE FlushDrive
  BY <1>12, <1>0 DEF FlushDrive, WriteFsInfo, SkipFsInfo, CtrlSync, fsVars
<1>13. CASE MountVolume
  <2>1. CASE Detach
    BY <2>1, <1>0 DEF Detach
  <2>2. CASE CheckFs
    <3>1. call'.op = "mount"
      BY <2>2, <1>0, CallType DEF CheckFs
    <3> QED BY <3>1, <2>2, <1>0 DEF CheckFs
  <2>3. CASE Mount
    BY <2>3, <1>0 DEF Mount
  <2>4. CASE PowerCut
    BY <2>4, <1>0 DEF PowerCut
  <2> QED BY <1>13, <2>1, <2>2, <2>3, <2>4 DEF MountVolume
<1>14. CASE UNCHANGED vars
  BY <1>14, <1>0 DEF vars
<1> QED
  BY <1>1, <1>2, <1>3, <1>4, <1>5, <1>6, <1>7, <1>8, <1>9, <1>10, <1>11, <1>12, <1>13, <1>14
     DEF Next, Step, Access, Fill

\* The dirty flag and the window's sector stay what the steps expect.
LEMMA WindowStep ==
    ASSUME IInv, [Next]_vars
    PROVE  WindowKnown'
<1> USE DEF WindowKnown, CallKnown, Known
<1>0. Known /\ WindowKnown /\ CallKnown
  BY KnownFacts DEF IInv
<1> HIDE DEF Sectors, NoSect, FsInfoSect
<1>1. ASSUME NEW op \in {"get", "put"}, NEW s \in MetaSect, NEW v \in Val,
             MoveWindow(op, s, v)
      PROVE  WindowKnown'
  <2>1. call'.op = op /\ call'.sect = s
    BY <1>1 DEF MoveWindow, Call
  <2>2. /\ pc' = IF s = winsect THEN "done" ELSE IF wflag THEN "write" ELSE "load"
        /\ winsect' = winsect /\ wflag' = wflag
    BY <1>1 DEF MoveWindow
  <2> QED BY <2>1, <2>2, <1>0
<1>2. ASSUME NEW op \in {"stretch", "mkdir"}, NEW s \in DirSect, NEW p \in DirSect,
             NEW v \in Val, FillCluster(op, s, v, p)
      PROVE  WindowKnown'
  BY <1>2, <1>0, CallType DEF FillCluster, fsVars
<1>3. ASSUME NEW h \in Val, SetHint(h)
      PROVE  WindowKnown'
  BY <1>3, <1>0 DEF SetHint
<1>4. CASE SyncFs
  BY <1>4, <1>0, CallType DEF SyncFs, fsVars
<1>5. CASE SyncWindow
  BY <1>5, <1>0 DEF SyncWindow, WriteBack, WriteBackFails, WriteMirror, AfterSync, fsVars
<1>6. CASE Load
  BY <1>6, <1>0, CallType DEF Load, fsVars
<1>7. CASE LoadFails
  BY <1>7, <1>0 DEF LoadFails, fsVars
<1>8. CASE Return
  BY <1>8, <1>0 DEF Return, fsVars
<1>9. CASE FillNext
  <2>1. /\ call.op \in {"stretch", "mkdir"} /\ call.sect \in DirSect
        /\ call.n \in 0 .. CSize /\ call.n < CSize /\ call.sect + CSize <= NSect
    BY <1>9, <1>0 DEF FillNext
  <2>2. DirBase \in Int
    BY GeometryAssumption DEF DirBase
  <2>3. call.sect + call.n \in DirSect
    BY <2>1, <2>2, GeometryAssumption DEF DirSect
  <2> QED BY <1>9, <1>0, <2>3 DEF FillNext
<1>10. CASE StretchEnds
  BY <1>10, <1>0, CallType DEF StretchEnds, fsVars
<1>11. CASE MkdirEnds
  BY <1>11, <1>0, CallType DEF MkdirEnds, fsVars
<1>12. CASE FlushDrive
  BY <1>12, <1>0 DEF FlushDrive, WriteFsInfo, SkipFsInfo, CtrlSync, fsVars
<1>13. CASE MountVolume
  <2>1. CASE Detach
    BY <2>1, <1>0 DEF Detach
  <2>2. CASE CheckFs
    <3>1. call'.op = "mount"
      BY <2>2, <1>0, CallType DEF CheckFs
    <3> QED BY <3>1, <2>2, <1>0 DEF CheckFs
  <2>3. CASE Mount
    BY <2>3, <1>0 DEF Mount
  <2>4. CASE PowerCut
    BY <2>4, <1>0 DEF PowerCut
  <2> QED BY <1>13, <2>1, <2>2, <2>3, <2>4 DEF MountVolume
<1>14. CASE UNCHANGED vars
  BY <1>14, <1>0 DEF vars
<1> QED
  BY <1>1, <1>2, <1>3, <1>4, <1>5, <1>6, <1>7, <1>8, <1>9, <1>10, <1>11, <1>12, <1>13, <1>14
     DEF Next, Step, Access, Fill

\* A directory stretch leaves every sector it has passed cleared.
LEMMA StretchStep ==
    ASSUME IInv, [Next]_vars
    PROVE  StretchKnown'
<1> USE DEF StretchKnown, CallKnown, WindowKnown, StretchZero, Known
<1>0. Known /\ StretchKnown /\ CallKnown /\ WindowKnown /\ StretchZero
  BY KnownFacts DEF IInv
<1> HIDE DEF Sectors, NoSect, FsInfoSect
<1>1. ASSUME NEW op \in {"get", "put"}, NEW s \in MetaSect, NEW v \in Val,
             MoveWindow(op, s, v)
      PROVE  StretchKnown'
  BY <1>1, <1>0, CallType DEF MoveWindow, fsVars
<1>2. ASSUME NEW op \in {"stretch", "mkdir"}, NEW s \in DirSect, NEW p \in DirSect,
             NEW v \in Val, FillCluster(op, s, v, p)
      PROVE  StretchKnown'
  <2>1. /\ call'.op = op /\ call'.sect = s /\ call'.par = p /\ call'.val = v
        /\ call'.n = 0
    BY <1>2 DEF FillCluster, Call
  <2>2. /\ s + CSize <= NSect /\ (op = "stretch" => v = Zero)
        /\ pc' = IF wflag THEN "write" ELSE "fill"
        /\ UNCHANGED <<disk, win, winsect, wflag>>
    BY <1>2 DEF FillCluster
  <2> QED BY <2>1, <2>2, <1>0
<1>3. ASSUME NEW h \in Val, SetHint(h)
      PROVE  StretchKnown'
  BY <1>3, <1>0 DEF SetHint
<1>4. CASE SyncFs
  BY <1>4, <1>0, CallType DEF SyncFs, fsVars
<1>5. CASE SyncWindow
  <2>1. CASE WriteBack
    <3> SUFFICES ASSUME call.op = "stretch", call.n > 0
                 PROVE  StretchKnown'
      BY <2>1 DEF WriteBack
    <3>1. /\ disk' = [disk EXCEPT ![winsect] = win] /\ win = Zero
          /\ winsect \in Sectors /\ winsect = call.sect + call.n - 1
          /\ pc = "write" /\ UNCHANGED <<win, winsect, call>>
      BY <2>1, <1>0 DEF WriteBack
    <3>2. ASSUME NEW i \in 0 .. call.n - 1
          PROVE  disk'[call.sect + i] = Zero
      <4>1. CASE i = call.n - 1
        <5>1. call.sect + i = winsect
          BY <4>1, <3>1, <1>0, GeometryAssumption DEF Sectors
        <5> QED BY <5>1, <3>1, <1>0
      <4>2. CASE i # call.n - 1
        BY <4>2, <3>1, <1>0
      <4> QED BY <4>1, <4>2
    <3> QED BY <3>1, <3>2, <1>0
  <2>2. CASE WriteBackFails
    BY <2>2, <1>0 DEF WriteBackFails
  <2>3. CASE WriteMirror
    <3>1. ~(call.op = "stretch" /\ call.n > 0)
      <4> SUFFICES ASSUME call.op = "stretch", call.n > 0 PROVE FALSE
        OBVIOUS
      <4>1. winsect \in FatSect /\ winsect = call.sect + call.n - 1
        BY <2>3, <1>0 DEF WriteMirror
      <4>2. winsect \in DirSect
        <5>1. /\ call.sect \in DirSect /\ call.sect + CSize <= NSect
              /\ call.n \in 0 .. CSize
          BY <2>3, <1>0 DEF WriteMirror
        <5>2. DirBase \in Int
          BY GeometryAssumption DEF DirBase
        <5> QED BY <5>1, <5>2, <4>1, GeometryAssumption DEF DirSect
      <4> QED BY <4>1, <4>2, <1>0
    <3> QED BY <2>3, <3>1 DEF WriteMirror
  <2> QED BY <1>5, <2>1, <2>2, <2>3 DEF SyncWindow
<1>6. CASE Load
  BY <1>6, <1>0, CallType DEF Load, fsVars
<1>7. CASE LoadFails
  BY <1>7, <1>0 DEF LoadFails, fsVars
<1>8. CASE Return
  BY <1>8, <1>0 DEF Return, fsVars
<1>9. CASE FillNext
  <2>1. call'.n = call.n + 1 /\ call'.sect = call.sect /\ call'.op = call.op
    BY <1>9, <1>0, CallType DEF FillNext
  <2>2. call.op = "stretch" => win' = Zero
    BY <1>9, <1>0 DEF FillNext
  <2>3. ASSUME call.op = "stretch", NEW i \in 0 .. call.n
        PROVE  disk'[call.sect + i] = Zero \/ i = call.n
    BY <1>9, <1>0, <2>3, GeometryAssumption DEF FillNext
  <2>4. winsect' = call.sect + call.n /\ pc' = "write"
    BY <1>9 DEF FillNext
  <2>5. call'.n - 1 = call.n /\ call.sect + call.n = call.sect + call'.n - 1
    BY <2>1, <1>0, GeometryAssumption DEF Sectors
  <2> QED BY <2>1, <2>2, <2>3, <2>4, <2>5
<1>10. CASE StretchEnds
  BY <1>10, <1>0, CallType DEF StretchEnds, fsVars
<1>11. CASE MkdirEnds
  BY <1>11, <1>0, CallType DEF MkdirEnds, fsVars
<1>12. CASE FlushDrive
  BY <1>12, <1>0 DEF FlushDrive, WriteFsInfo, SkipFsInfo, CtrlSync, fsVars
<1>13. CASE MountVolume
  BY <1>13, <1>0, CallType DEF MountVolume, Detach, CheckFs, Mount, PowerCut, fsVars
<1>14. CASE UNCHANGED vars
  BY <1>14, <1>0 DEF vars
<1> QED
  BY <1>1, <1>2, <1>3, <1>4, <1>5, <1>6, <1>7, <1>8, <1>9, <1>10, <1>11, <1>12, <1>13, <1>14
     DEF Next, Step, Access, Fill

\* A directory stretch only ever writes cleared sectors.
LEMMA ZeroStep ==
    ASSUME IInv, [Next]_vars
    PROVE  StretchZero'
<1> USE DEF StretchZero, CallKnown, Known
<1>0. Known /\ StretchZero /\ CallKnown
  BY KnownFacts DEF IInv
<1> HIDE DEF Sectors, NoSect, FsInfoSect
<1>1. ASSUME NEW op \in {"get", "put"}, NEW s \in MetaSect, NEW v \in Val,
             MoveWindow(op, s, v)
      PROVE  StretchZero'
  BY <1>1, <1>0, CallType DEF MoveWindow, fsVars
<1>2. ASSUME NEW op \in {"stretch", "mkdir"}, NEW s \in DirSect, NEW p \in DirSect,
             NEW v \in Val, FillCluster(op, s, v, p)
      PROVE  StretchZero'
  <2>1. /\ call'.op = op /\ call'.sect = s /\ call'.par = p /\ call'.val = v
        /\ call'.n = 0
    BY <1>2 DEF FillCluster, Call
  <2>2. /\ s + CSize <= NSect /\ (op = "stretch" => v = Zero)
        /\ pc' = IF wflag THEN "write" ELSE "fill"
        /\ UNCHANGED <<disk, win, winsect, wflag>>
    BY <1>2 DEF FillCluster
  <2> QED BY <2>1, <2>2, <1>0
<1>3. ASSUME NEW h \in Val, SetHint(h)
      PROVE  StretchZero'
  BY <1>3, <1>0 DEF SetHint
<1>4. CASE SyncFs
  BY <1>4, <1>0, CallType DEF SyncFs, fsVars
<1>5. CASE SyncWindow
  BY <1>5, <1>0 DEF SyncWindow, WriteBack, WriteBackFails, WriteMirror, AfterSync, fsVars
<1>6. CASE Load
  BY <1>6, <1>0, CallType DEF Load, fsVars
<1>7. CASE LoadFails
  BY <1>7, <1>0 DEF LoadFails, fsVars
<1>8. CASE Return
  BY <1>8, <1>0 DEF Return, fsVars
<1>9. CASE FillNext
  BY <1>9, <1>0, CallType, GeometryAssumption DEF FillNext, fsVars
<1>10. CASE StretchEnds
  BY <1>10, <1>0, CallType DEF StretchEnds, fsVars
<1>11. CASE MkdirEnds
  BY <1>11, <1>0, CallType DEF MkdirEnds, fsVars
<1>12. CASE FlushDrive
  BY <1>12, <1>0 DEF FlushDrive, WriteFsInfo, SkipFsInfo, CtrlSync, fsVars
<1>13. CASE MountVolume
  BY <1>13, <1>0, CallType DEF MountVolume, Detach, CheckFs, Mount, PowerCut, fsVars
<1>14. CASE UNCHANGED vars
  BY <1>14, <1>0 DEF vars
<1> QED
  BY <1>1, <1>2, <1>3, <1>4, <1>5, <1>6, <1>7, <1>8, <1>9, <1>10, <1>11, <1>12, <1>13, <1>14
     DEF Next, Step, Access, Fill

\* The window stays coherent with the disk.
LEMMA CoherentStep ==
    ASSUME IInv, [Next]_vars
    PROVE  WindowCoherent'
<1> USE DEF WindowCoherent, CallKnown, WindowKnown, StretchKnown, Known
<1>0. Known /\ WindowCoherent /\ CallKnown /\ WindowKnown /\ StretchKnown
  BY KnownFacts DEF IInv
<1> HIDE DEF Sectors, NoSect, FsInfoSect
<1>1. ASSUME NEW op \in {"get", "put"}, NEW s \in MetaSect, NEW v \in Val,
             MoveWindow(op, s, v)
      PROVE  WindowCoherent'
  BY <1>1, <1>0, CallType DEF MoveWindow, fsVars
<1>2. ASSUME NEW op \in {"stretch", "mkdir"}, NEW s \in DirSect, NEW p \in DirSect,
             NEW v \in Val, FillCluster(op, s, v, p)
      PROVE  WindowCoherent'
  BY <1>2, <1>0, CallType DEF FillCluster, fsVars
<1>3. ASSUME NEW h \in Val, SetHint(h)
      PROVE  WindowCoherent'
  BY <1>3, <1>0 DEF SetHint
<1>4. CASE SyncFs
  BY <1>4, <1>0, CallType DEF SyncFs, fsVars
<1>5. CASE SyncWindow
  BY <1>5, <1>0 DEF SyncWindow, WriteBack, WriteBackFails, WriteMirror, AfterSync, fsVars
<1>6. CASE Load
  BY <1>6, <1>0, CallType DEF Load, fsVars
<1>7. CASE LoadFails
  BY <1>7, <1>0 DEF LoadFails, fsVars
<1>8. CASE Return
  BY <1>8, <1>0 DEF Return, fsVars
<1>9. CASE FillNext
  BY <1>9, <1>0, CallType, GeometryAssumption DEF FillNext, fsVars
<1>10. CASE StretchEnds
  <2>1. win = Zero /\ call.n = CSize /\ CSize > 0 /\ call.sect \in Sectors
    BY <1>10, <1>0, GeometryAssumption DEF StretchEnds
  <2>2. disk[call.sect + 0] = Zero
    BY <1>10, <1>0, <2>1, GeometryAssumption DEF StretchEnds
  <2>3. disk[call.sect] = Zero
    BY <2>1, <2>2, GeometryAssumption DEF Sectors
  <2> QED BY <1>10, <2>1, <2>3 DEF StretchEnds
<1>11. CASE MkdirEnds
  BY <1>11, <1>0, CallType DEF MkdirEnds, fsVars
<1>12. CASE FlushDrive
  BY <1>12, <1>0 DEF FlushDrive, WriteFsInfo, SkipFsInfo, CtrlSync, fsVars
<1>13. CASE MountVolume
  <2>1. CASE Detach
    BY <2>1, <1>0 DEF Detach
  <2>2. CASE CheckFs
    <3>1. call'.op = "mount"
      BY <2>2, <1>0, CallType DEF CheckFs
    <3> QED BY <3>1, <2>2, <1>0 DEF CheckFs
  <2>3. CASE Mount
    BY <2>3, <1>0 DEF Mount
  <2>4. CASE PowerCut
    BY <2>4, <1>0 DEF PowerCut
  <2> QED BY <1>13, <2>1, <2>2, <2>3, <2>4 DEF MountVolume
<1>14. CASE UNCHANGED vars
  BY <1>14, <1>0 DEF vars
<1> QED
  BY <1>1, <1>2, <1>3, <1>4, <1>5, <1>6, <1>7, <1>8, <1>9, <1>10, <1>11, <1>12, <1>13, <1>14
     DEF Next, Step, Access, Fill

LEMMA InvStep == IInv /\ [Next]_vars => IInv'
BY TypeStep, CallStep, WindowStep, StretchStep, ZeroStep, CoherentStep DEF IInv
-----------------------------------------------------------------------------
(* The theorems *)

LEMMA Invariance == Spec => []IInv
BY InitInv, InvStep, PTL DEF Spec

\* The window, the medium and the running call always have their types.
THEOREM TypeCorrect == Spec => []TypeOK
BY Invariance, PTL DEF IInv

\* A clean window that names a metadata sector holds what the disk holds: the
\* shortcut of move_window (no read when the sector number matches) is sound,
\* whatever accesses failed before.
THEOREM WindowIsCoherent == Spec => []WindowCoherent
BY Invariance, PTL DEF IInv

\* sync_window never writes anywhere but to the metadata sector that was
\* modified (and its copy): a dirty window never names the invalid sector.
THEOREM DirtyWindowHasHome == Spec => []DirtyHasHome
<1>1. IInv => DirtyHasHome
  BY DEF IInv, WindowKnown, DirtyHasHome
<1> QED BY Invariance, <1>1, PTL

\* When sync_fs reports success every metadata sector is on the medium.
THEOREM SyncDurable == Spec => SyncIsDurable
<1>1. ASSUME IInv, [Next]_vars, pc = "ioctl", ret' = Synced
      PROVE  \A s \in MetaSect : disk'[s] = Store[s] /\ disk'[s] = Store'[s]
  <2>1. ~wflag
    BY <1>1 DEF IInv, WindowKnown
  <2>2. UNCHANGED <<disk, wflag>>
    <3>1. CASE CtrlSync
      BY <3>1 DEF CtrlSync
    <3>2. CASE PowerCut
      BY <3>2, <1>1 DEF PowerCut, DiskErr, Synced
    <3>3. CASE UNCHANGED vars
      BY <3>3 DEF vars
    <3> QED
      BY <1>1, <3>1, <3>2, <3>3
         DEF Next, Step, Access, MoveWindow, SyncFs, FillCluster, SetHint, SyncWindow,
             WriteBack, WriteBackFails, WriteMirror, Load, LoadFails, Return, Fill,
             FillNext, StretchEnds, MkdirEnds, FlushDrive, WriteFsInfo, SkipFsInfo,
             MountVolume, Detach, CheckFs, Mount
  <2> QED BY <2>1, <2>2 DEF Store
<1> QED BY <1>1, Invariance, PTL DEF Spec, SyncIsDurable
-----------------------------------------------------------------------------
(* What holds as long as nothing fails *)

\* The copy of a FAT sector differs from it only while sync_window is between
\* its two writes to that sector.
MirrorKnown ==
    sound /\ NFats = 2 => \A s \in FatSect :
        disk[s + FSize] = disk[s] \/ (pc = "mirror" /\ s = winsect)

\* FSInfo gives the counters, and the counters are ones it can give.
InfoKnown ==
    /\ hint # Zero
    /\ sound /\ mounted /\ fsi_flag = 0 => hint = Counters(disk[FsInfoSect])

LEMMA SoundInit == Init => MirrorKnown /\ InfoKnown
BY ValAssumption DEF Init, MirrorKnown, InfoKnown

\* A step that does not touch the disk finds and leaves the copies equal,
\* unless it is one between the two writes.
LEMMA MirrorQuiet ==
    ASSUME MirrorKnown, disk' = disk, sound' = sound, pc # "mirror"
    PROVE  MirrorKnown'
BY DEF MirrorKnown

\* The two copies stay equal.
LEMMA MirrorStep ==
    ASSUME IInv, MirrorKnown, [Next]_vars
    PROVE  MirrorKnown'
<1> USE DEF Known
<1>0. Known /\ WindowKnown /\ WindowCoherent
  BY KnownFacts DEF IInv
<1>g. FSize \in Nat /\ FSize > 0 /\ \A s \in FatSect : s \in Nat /\ s >= 2
  BY GeometryAssumption DEF FatSect
<1>s. sound' = sound
  BY DEF Next, vars
<1> SUFFICES ASSUME sound, NFats = 2
             PROVE  MirrorKnown'
  BY <1>s DEF MirrorKnown
<1>m. \A s \in FatSect : disk[s + FSize] = disk[s] \/ (pc = "mirror" /\ s = winsect)
  BY DEF MirrorKnown
<1>q. disk' = disk /\ pc # "mirror" => MirrorKnown'
  BY <1>s, MirrorQuiet
<1> HIDE DEF Sectors, NoSect, FsInfoSect, MirrorKnown
<1>1. CASE Access
  BY <1>1, <1>q DEF Access, MoveWindow, FillCluster, SyncFs, SetHint
<1>2. CASE WriteBack
  <2>1. /\ winsect \in MetaSect /\ pc = "write"
        /\ disk' = [disk EXCEPT ![winsect] = win] /\ winsect' = winsect
        /\ winsect \in FatSect => pc' = "mirror"
    BY <1>2, <1>0 DEF WriteBack, WindowKnown
  <2>2. ASSUME NEW s \in FatSect
        PROVE  disk'[s + FSize] = disk'[s] \/ (pc' = "mirror" /\ s = winsect')
    <3>1. s + FSize \in Sectors \ MetaSect /\ s \in Sectors
      BY <1>0
    <3>2. disk'[s + FSize] = disk[s + FSize]
      BY <3>1, <2>1, <1>0
    <3>3. s # winsect => disk'[s] = disk[s]
      BY <3>1, <2>1, <1>0
    <3> QED BY <3>2, <3>3, <2>1, <1>m
  <2> QED BY <2>2 DEF MirrorKnown
<1>3. CASE WriteMirror
  <2>1. /\ winsect \in FatSect /\ win = disk[winsect]
        /\ disk' = [disk EXCEPT ![winsect + FSize] = win]
    BY <1>3, <1>0 DEF WriteMirror, WindowKnown, WindowCoherent, DiskErrors
  <2>2. ASSUME NEW s \in FatSect
        PROVE  disk'[s + FSize] = disk'[s]
    <3>1. /\ s + FSize \in Sectors \ MetaSect /\ s \in MetaSect
          /\ winsect + FSize \in Sectors \ MetaSect
          /\ s \in Sectors
      BY <1>0, <2>1
    <3>2. disk'[s] = disk[s]
      BY <3>1, <2>1, <1>0
    <3>3. CASE s = winsect
      BY <3>1, <3>2, <3>3, <2>1, <1>0
    <3>4. CASE s # winsect
      <4>1. s + FSize # winsect + FSize
        BY <3>4, <1>g, <2>1
      <4>2. disk'[s + FSize] = disk[s + FSize]
        BY <4>1, <3>1, <2>1, <1>0
      <4> QED BY <4>2, <3>2, <3>4, <1>m
    <3> QED BY <3>3, <3>4
  <2> QED BY <2>2 DEF MirrorKnown
<1>4. CASE WriteBackFails \/ LoadFails \/ PowerCut
  BY <1>4 DEF WriteBackFails, LoadFails, PowerCut, DiskErrors, PowerCuts
<1>5. CASE Load \/ Return \/ Fill
  BY <1>5, <1>q DEF Load, Return, Fill, FillNext, StretchEnds, MkdirEnds
<1>6. CASE WriteFsInfo
  <2>1. pc # "mirror" /\ disk' = [disk EXCEPT ![FsInfoSect] = hint]
    BY <1>6 DEF WriteFsInfo, DiskErrors
  <2>2. \A s \in FatSect : s # FsInfoSect /\ s + FSize # FsInfoSect
    BY <1>g DEF FsInfoSect
  <2>3. \A s \in FatSect : disk'[s + FSize] = disk[s + FSize] /\ disk'[s] = disk[s]
    BY <2>1, <2>2, <1>0
  <2> QED BY <2>1, <2>3, <1>m DEF MirrorKnown
<1>7. CASE SkipFsInfo \/ CtrlSync \/ Detach \/ CheckFs \/ Mount
  BY <1>7, <1>q DEF SkipFsInfo, CtrlSync, Detach, CheckFs, Mount
<1>8. CASE UNCHANGED vars
  BY <1>8, <1>m DEF vars, MirrorKnown
<1> QED
  BY <1>1, <1>2, <1>3, <1>4, <1>5, <1>6, <1>7, <1>8
     DEF Next, Step, SyncWindow, FlushDrive, MountVolume

\* FSInfo stays what its flags say.
LEMMA InfoStep ==
    ASSUME IInv, InfoKnown, [Next]_vars
    PROVE  InfoKnown'
<1> USE DEF Known
<1>0. Known /\ WindowKnown /\ hint # Zero /\ fsi_flag \in {0, 1, 128, 129}
  BY KnownFacts DEF IInv, InfoKnown, TypeOK
<1>s. sound' = sound
  BY DEF Next, vars
<1>u. Unknown # Zero
  BY ValAssumption
<1>f. FsInfoSect \in Sectors
  BY Geometry
<1>q. UNCHANGED <<hint, fsi_flag, mounted>> /\ disk'[FsInfoSect] = disk[FsInfoSect]
      => InfoKnown'
  BY <1>s DEF InfoKnown, Counters
<1> HIDE DEF Sectors, NoSect, FsInfoSect
<1>1. CASE Access
  <2>1. ASSUME NEW h \in Val, SetHint(h)
        PROVE  InfoKnown'
    BY <2>1, <1>0 DEF SetHint, InfoKnown
  <2> QED BY <1>1, <2>1, <1>q DEF Access, MoveWindow, FillCluster, SyncFs, fsVars
<1>2. CASE WriteBack
  <2>1. disk' = [disk EXCEPT ![winsect] = win] /\ winsect \in MetaSect
    BY <1>2, <1>0 DEF WriteBack, WindowKnown
  <2>2. disk'[FsInfoSect] = disk[FsInfoSect]
    BY <2>1, <1>0, <1>f
  <2> QED BY <1>2, <2>2, <1>q DEF WriteBack, fsVars
<1>3. CASE WriteMirror
  <2>1. FsInfoSect # winsect + FSize
    BY <1>3, <1>0, GeometryAssumption DEF WriteMirror, WindowKnown, FatSect, FsInfoSect
  <2>2. disk'[FsInfoSect] = disk[FsInfoSect]
    BY <2>1, <1>3, <1>0, <1>f DEF WriteMirror
  <2> QED BY <1>3, <2>2, <1>q DEF WriteMirror, fsVars
<1>4. CASE WriteBackFails \/ LoadFails \/ PowerCut
  BY <1>4, <1>0, <1>s
     DEF WriteBackFails, LoadFails, PowerCut, DiskErrors, PowerCuts, InfoKnown, fsVars
<1>5. CASE Load \/ Return \/ Fill
  BY <1>5, <1>q DEF Load, Return, Fill, FillNext, StretchEnds, MkdirEnds, fsVars
<1>6. CASE WriteFsInfo
  <2>1. hint' = hint /\ sound' = sound
    BY <1>6, <1>s DEF WriteFsInfo
  <2>2. sound => disk'[FsInfoSect] = hint
    BY <1>6, <1>0, Geometry DEF WriteFsInfo, DiskErrors, FsInfoSect
  <2> QED BY <2>1, <2>2, <1>0 DEF InfoKnown, Counters
<1>7. CASE SkipFsInfo \/ CtrlSync \/ CheckFs
  BY <1>7, <1>q DEF SkipFsInfo, CtrlSync, CheckFs, fsVars
<1>8. CASE Detach
  BY <1>8, <1>0 DEF Detach, InfoKnown
<1>9. CASE Mount
  BY <1>9, <1>0, <1>u DEF Mount, InfoKnown, Counters, DiskErrors
<1>10. CASE UNCHANGED vars
  BY <1>10, <1>q DEF vars
<1> QED
  BY <1>1, <1>2, <1>3, <1>4, <1>5, <1>6, <1>7, <1>8, <1>9, <1>10
     DEF Next, Step, SyncWindow, FlushDrive, MountVolume

LEMMA SoundInvariance == Spec => [](MirrorKnown /\ InfoKnown)
<1>1. IInv /\ MirrorKnown /\ InfoKnown /\ [Next]_vars => (MirrorKnown /\ InfoKnown)'
  BY MirrorStep, InfoStep
<1> QED BY <1>1, SoundInit, Invariance, PTL DEF Spec

\* As long as no disk access fails and the power stays on, sync_window keeps
\* the second FAT equal to the first: they differ only between its two writes.
THEOREM CopiesAgree == Spec => []MirrorsAgree
<1>1. MirrorKnown => MirrorsAgree
  BY DEF MirrorKnown, MirrorsAgree
<1> QED BY <1>1, SoundInvariance, PTL

\* As long as no disk access fails, FSInfo gives the counters in RAM whenever
\* its flags say that it is neither disabled nor dirty.
THEOREM InfoTellsCounters == Spec => []FsInfoClean
<1>1. InfoKnown => FsInfoClean
  BY DEF InfoKnown, FsInfoClean
<1> QED BY <1>1, SoundInvariance, PTL
-----------------------------------------------------------------------------
(* The window implements the store *)

\* A step that leaves the disk alone while the window is and stays clean
\* changes nothing a reader sees.
LEMMA CleanStep ==
    ASSUME ~wflag, ~wflag', disk' = disk
    PROVE  Store' = Store /\ Dur' = Dur /\ Dur = Store
BY DEF Store, Dur

\* Nor does one that leaves the disk and the window alone.
LEMMA QuietStep ==
    ASSUME UNCHANGED <<disk, win, winsect, wflag>>
    PROVE  Store' = Store /\ Dur' = Dur
BY DEF Store, Dur

\* Between calls nothing is asked for.
LEMMA AskedIdle == pc = "idle" => Asked = {}
BY DEF Asked

\* A step inside a call does not change what it asks for.
LEMMA AskedStays ==
    ASSUME pc # "idle", pc' # "idle",
           call'.op = call.op, call'.sect = call.sect, call'.val = call.val
    PROVE  Asked' = Asked
BY DEF Asked

\* A call that neither writes nor fills asks for nothing.
LEMMA AskedNothing ==
    call.op \notin {"put", "stretch", "mkdir"} => Asked = {}
BY DEF Asked

\* The initial states are initial states of the store.
LEMMA StoreInitStep == Init => Sec!StoreInit
<1> SUFFICES ASSUME Init PROVE Sec!StoreInit
  OBVIOUS
<1>1. MetaSect \subseteq Sectors
  BY Geometry
<1>2. Dur = Store
  BY DEF Init, Store, Dur
<1>3. Store \in [MetaSect -> Val]
  BY <1>1 DEF Init, Store
<1>4. Asked = {}
  BY AskedIdle DEF Init
<1> QED BY <1>2, <1>3, <1>4 DEF Init, Sec!StoreInit, DiskErr, Sec!Failed

\* Every step is a step of the store or leaves it unchanged.
LEMMA StoreStep ==
    ASSUME IInv, [Next]_vars
    PROVE  [Sec!StoreNext]_(Sec!storeVars)
<1> USE DEF Known
<1>0. Known /\ CallKnown /\ WindowKnown /\ StretchKnown /\ WindowCoherent /\ TypeOK
  BY KnownFacts DEF IInv
<1>r. DiskErr = Sec!Failed /\ Synced = Sec!Synced /\ \A s, v : Ok(s, v) = Sec!Ok(s, v)
  BY DEF DiskErr, Synced, Ok, Sec!Failed, Sec!Synced, Sec!Ok
<1> HIDE DEF Sectors, NoSect, FsInfoSect
<1>a. pc = "idle" => Asked = {}
  BY AskedIdle
<1>b. pc' = "idle" => Asked' = {}
  BY DEF Asked
<1>c. call'.op \notin {"put", "stretch", "mkdir"} => Asked' = {}
  BY DEF Asked
<1>d. pc # "idle" /\ pc' # "idle" /\ call' = call => Asked' = Asked
  BY AskedStays
<1>1. ASSUME UNCHANGED <<Store, Dur, ret, Asked>>
      PROVE  [Sec!StoreNext]_(Sec!storeVars)
  BY <1>1 DEF Sec!storeVars
<1>2. ASSUME Store' = Store, Dur' = Dur, ret' = DiskErr, Asked' = {}
      PROVE  [Sec!StoreNext]_(Sec!storeVars)
  BY <1>2, <1>r DEF Sec!StoreNext, Sec!Fail, Sec!Returns
<1>3. ASSUME Store' = Store, Dur' = Dur, ret' = ret, pc = "idle"
      PROVE  [Sec!StoreNext]_(Sec!storeVars)
  <2>1. Asked' \in SUBSET (MetaSect \X Val)
    BY DEF Asked
  <2> QED BY <1>3, <1>a, <2>1 DEF Sec!StoreNext, Sec!Ask
<1>4. ASSUME NEW op \in {"get", "put"}, NEW s \in MetaSect, NEW v \in Val,
             MoveWindow(op, s, v)
      PROVE  [Sec!StoreNext]_(Sec!storeVars)
  BY <1>4, <1>3, QuietStep DEF MoveWindow
<1>5. ASSUME NEW op \in {"stretch", "mkdir"}, NEW s \in DirSect, NEW p \in DirSect,
             NEW v \in Val, FillCluster(op, s, v, p)
      PROVE  [Sec!StoreNext]_(Sec!storeVars)
  BY <1>5, <1>3, QuietStep DEF FillCluster
<1>6. ASSUME NEW h \in Val, SetHint(h)
      PROVE  [Sec!StoreNext]_(Sec!storeVars)
  BY <1>6, <1>3, QuietStep DEF SetHint
<1>7. CASE SyncFs
  BY <1>7, <1>3, QuietStep DEF SyncFs
<1>8. CASE WriteBack
  <2>1. winsect \in MetaSect /\ wflag /\ disk' = [disk EXCEPT ![winsect] = win]
        /\ ~wflag' /\ ret' = ret
    BY <1>8, <1>0 DEF WriteBack, WindowKnown
  <2>2. Store' = Store
    BY <2>1, <1>8, <1>0 DEF Store, WriteBack
  <2>3. Dur' = [Dur EXCEPT ![winsect] = Store[winsect]]
    BY <2>1, <1>0 DEF Store, Dur
  <2>4. Asked' = Asked
    BY <1>8, <1>d DEF WriteBack, AfterSync
  <2> QED BY <2>1, <2>2, <2>3, <2>4 DEF Sec!StoreNext, Sec!Destage, Sec!GoesOn
<1>9. CASE WriteBackFails
  <2>1. winsect \in MetaSect /\ wflag /\ ret' = DiskErr
        /\ UNCHANGED <<win, winsect, wflag>>
    BY <1>9, <1>0 DEF WriteBackFails, WindowKnown
  <2>2. Asked' = {}
    BY <1>9, <1>b DEF WriteBackFails
  <2>3. CASE disk' = disk
    BY <2>1, <2>2, <2>3, <1>2, QuietStep
  <2>4. CASE disk' = [disk EXCEPT ![winsect] = win]
    <3>1. Store' = Store
      BY <2>1, <2>4, <1>0 DEF Store
    <3>2. Dur' = [Dur EXCEPT ![winsect] = Store[winsect]]
      BY <2>1, <2>4, <1>0 DEF Store, Dur
    <3> QED BY <2>1, <2>2, <3>1, <3>2, <1>r DEF Sec!StoreNext, Sec!Destage, Sec!Returns
  <2> QED BY <1>9, <2>3, <2>4 DEF WriteBackFails
<1>10. CASE WriteMirror
  <2>1. ~wflag /\ ~wflag' /\ ret' = ret /\ winsect + FSize \in Sectors \ MetaSect
    BY <1>10, <1>0 DEF WriteMirror, WindowKnown
  <2>2. \A s \in MetaSect : disk'[s] = disk[s]
    BY <1>10, <1>0, <2>1 DEF WriteMirror
  <2>3. Asked' = Asked
    BY <1>10, <1>d DEF WriteMirror, AfterSync
  <2> QED BY <2>1, <2>2, <2>3, <1>1 DEF Store, Dur
<1>11. CASE Load
  <2>1. ~wflag /\ ~wflag'
    BY <1>11, <1>0 DEF Load, WindowKnown
  <2>2. Asked' = Asked
    BY <1>11, <1>d DEF Load
  <2> QED BY <1>11, <2>1, <2>2, <1>1, CleanStep DEF Load
<1>12. CASE LoadFails
  <2>1. ~wflag /\ ~wflag'
    BY <1>12, <1>0 DEF LoadFails, WindowKnown
  <2> QED BY <1>12, <2>1, <1>2, <1>b, CleanStep DEF LoadFails
<1>13. CASE Return
  <2>1. winsect = call.sect /\ call.sect \in MetaSect /\ UNCHANGED <<disk, winsect>>
        /\ Asked' = {}
    BY <1>13, <1>0, <1>b DEF Return, WindowKnown, CallKnown
  <2>2. Dur' = Dur
    BY <2>1 DEF Dur
  <2>3. CASE call.op = "get" /\ UNCHANGED <<win, wflag>>
    <3>1. Store' = Store
      BY <2>1, <2>3, QuietStep
    <3>2. Store[call.sect] = win
      <4>1. CASE wflag
        BY <4>1, <2>1 DEF Store
      <4>2. CASE ~wflag
        <5>1. win = disk[winsect]
          BY <4>2, <2>1, <1>13, <1>0 DEF WindowCoherent, Return
        <5> QED BY <4>2, <5>1, <2>1 DEF Store
      <4> QED BY <4>1, <4>2
    <3>3. ret' = Ok(call.sect, Store[call.sect])
      BY <3>2, <2>3, <1>13 DEF Return
    <3> QED BY <3>1, <3>3, <2>1, <2>2, <1>r DEF Sec!StoreNext, Sec!Read, Sec!Returns
  <2>4. CASE call.op = "put" /\ win' = call.val /\ wflag' = TRUE
    <3>1. call.val \in Val /\ <<call.sect, call.val>> \in Asked
      BY <1>0, <1>13, <2>1, <2>4, CallType DEF Asked, Return
    <3>2. Store' = [Store EXCEPT ![call.sect] = call.val]
      <4>1. \A s \in MetaSect \ {call.sect} : Store'[s] = disk[s] /\ Store[s] = disk[s]
        BY <2>1, <2>4 DEF Store
      <4>2. Store'[call.sect] = call.val
        BY <2>1, <2>4 DEF Store
      <4> QED BY <4>1, <4>2, <2>1 DEF Store
    <3>3. ret' = Ok(call.sect, call.val)
      BY <2>4, <1>13 DEF Return
    <3> QED BY <3>1, <3>2, <3>3, <2>1, <2>2, <1>r
            DEF Sec!StoreNext, Sec!Write, Sec!Returns
  <2> QED BY <1>13, <2>3, <2>4 DEF Return
<1>14. CASE FillNext
  <2>1. ~wflag /\ wflag' /\ disk' = disk /\ winsect' = call.sect + call.n /\ ret' = ret
        /\ win' = IF call.n = 0 THEN call.val ELSE Zero
    BY <1>14, <1>0 DEF FillNext, WindowKnown
  <2>2. win' \in Val /\ winsect' \in MetaSect
    <3>1. TypeOK' /\ WindowKnown'
      BY InvStep DEF IInv
    <3> QED BY <3>1, <2>1 DEF TypeOK, WindowKnown
  <2>3. Store' = [Store EXCEPT ![winsect'] = win']
    BY <2>1, <2>2 DEF Store
  <2>4. Dur' = Dur
    BY <2>1 DEF Dur
  <2>5. Asked' = Asked
    BY <1>14, <1>0, CallType, AskedStays DEF FillNext, TypeOK
  <2>6. <<winsect', win'>> \in Asked
    <3>1. call \in Calls /\ call.n \in 0 .. CSize /\ call.n < CSize /\ pc = "fill"
      BY <1>14, <1>0, CallType DEF FillNext, TypeOK
    <3>2. call.op \in {"stretch", "mkdir"}
      BY <3>1, <1>0, CallType DEF CallKnown
    <3>3. call.sect \in Nat
      BY <3>1, CallType, Geometry, GeometryAssumption DEF Sectors
    <3>4. winsect' \in call.sect .. call.sect + CSize - 1
      BY <3>1, <3>3, <2>1, GeometryAssumption
    <3>5. win' = IF winsect' = call.sect THEN call.val ELSE Zero
      BY <3>1, <3>3, <2>1
    <3> DEFINE w == <<winsect', win'>>
    <3>6. w \in MetaSect \X Val /\ w[1] = winsect' /\ w[2] = win'
      BY <2>2
    <3> HIDE DEF w
    <3>7. w \in Asked
      BY <3>1, <3>2, <3>4, <3>5, <3>6 DEF Asked
    <3> QED BY <3>7 DEF w
  <2> QED BY <2>1, <2>2, <2>3, <2>4, <2>5, <2>6
          DEF Sec!StoreNext, Sec!Write, Sec!GoesOn
<1>15. CASE StretchEnds
  <2>1. win = Zero /\ call.n = CSize /\ call.sect \in DirSect /\ ~wflag /\ ~wflag'
        /\ disk' = disk /\ ret' = Ok(call.sect, win)
    BY <1>15, <1>0, GeometryAssumption
       DEF StretchEnds, StretchKnown, CallKnown, WindowKnown
  <2>2. disk[call.sect + 0] = Zero
    BY <1>15, <1>0, <2>1, GeometryAssumption DEF StretchEnds, StretchKnown
  <2>3. Store[call.sect] = win /\ call.sect \in MetaSect
    BY <2>1, <2>2, <1>0, GeometryAssumption DEF Store, Sectors
  <2>4. ret' = Sec!Ok(call.sect, Store[call.sect])
    BY <2>1, <2>3, <1>r
  <2>5. Asked' = {}
    BY <1>15, <1>b DEF StretchEnds
  <2> QED BY <2>1, <2>3, <2>4, <2>5, CleanStep DEF Sec!StoreNext, Sec!Read, Sec!Returns
<1>16. CASE MkdirEnds
  <2>1. ~wflag /\ ~wflag' /\ disk' = disk /\ ret' = ret
    BY <1>16, <1>0 DEF MkdirEnds, WindowKnown
  <2>2. call'.op = "get"
    BY <1>16 DEF MkdirEnds, Call
  <2> QED BY <2>1, <2>2, <1>c, CleanStep DEF Sec!StoreNext, Sec!Written
<1>17. CASE WriteFsInfo
  <2>1. ~wflag /\ ~wflag' /\ ret' = ret
    BY <1>17, <1>0 DEF WriteFsInfo, WindowKnown
  <2>2. \A s \in MetaSect : disk'[s] = disk[s]
    BY <1>17, <1>0 DEF WriteFsInfo
  <2>3. Asked' = Asked
    BY <1>17, <1>d DEF WriteFsInfo
  <2> QED BY <2>1, <2>2, <2>3, <1>1 DEF Store, Dur
<1>18. CASE SkipFsInfo
  BY <1>18, <1>1, <1>d, QuietStep DEF SkipFsInfo
<1>19. CASE CtrlSync
  <2>1. ~wflag /\ ~wflag' /\ disk' = disk /\ (ret' = Synced \/ ret' = DiskErr)
    BY <1>19, <1>0 DEF CtrlSync, WindowKnown
  <2>2. Store' = Store /\ Dur' = Dur /\ Dur = Store
    BY <2>1, CleanStep
  <2>3. Asked' = {}
    BY <1>19, <1>b DEF CtrlSync
  <2> QED BY <2>1, <2>2, <2>3, <1>2, <1>r DEF Sec!StoreNext, Sec!Sync, Sec!Returns
<1>20. CASE Detach
  BY <1>20, <1>2, <1>b, QuietStep DEF Detach
<1>21. CASE CheckFs \/ PowerCut
  <2>1. ~wflag' /\ disk' = disk /\ ret' = DiskErr
    BY <1>21 DEF CheckFs, PowerCut
  <2>2. Store' = Dur /\ Dur' = Dur
    BY <2>1 DEF Store, Dur
  <2>3. Asked' = {}
    BY <1>21, <1>b, <1>c DEF CheckFs, PowerCut, Call
  <2> QED BY <2>1, <2>2, <2>3, <1>r DEF Sec!StoreNext, Sec!Lose, Sec!Returns
<1>22. CASE Mount
  <2>1. ~wflag /\ ~wflag' /\ disk' = disk /\ ret' = ret
    BY <1>22, <1>0 DEF Mount, WindowKnown
  <2>2. Asked = {} /\ Asked' = {}
    BY <1>22, <1>0, <1>b, AskedNothing DEF Mount, CallKnown
  <2> QED BY <2>1, <2>2, <1>1, CleanStep
<1>23. CASE UNCHANGED vars
  <2>1. Asked' = Asked
    BY <1>23 DEF Asked, vars
  <2> QED BY <1>23, <2>1, <1>1, QuietStep DEF vars
<1> QED
  BY <1>4, <1>5, <1>6, <1>7, <1>8, <1>9, <1>10, <1>11, <1>12, <1>13, <1>14, <1>15,
     <1>16, <1>17, <1>18, <1>19, <1>20, <1>21, <1>22, <1>23
     DEF Next, Step, Access, SyncWindow, Fill, FlushDrive, MountVolume

\* The access window implements the read-your-writes store: a get returns the
\* last put, a failed call changes nothing but what it reports, only a power
\* cut or a new mount loses writes, and a successful sync_fs loses none.
THEOREM WindowImplementsStore == Spec => ImplementsSectorStore
<1>1. IInv /\ [Next]_vars => [Sec!StoreNext]_(Sec!storeVars)
  BY StoreStep
<1> QED BY <1>1, StoreInitStep, Invariance, PTL
           DEF Spec, ImplementsSectorStore, Sec!StoreSpec
=============================================================================
