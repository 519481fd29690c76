------------------------------ MODULE FatWindow ------------------------------
(***************************************************************************)
(* The one-sector access window of a FatFs volume (fatfs/ff.c): every FAT  *)
(* entry, directory entry and FSInfo record goes through fs->win, whose    *)
(* sector number is fs->winsect and whose dirty bit is fs->wflag.          *)
(* move_window, sync_window, sync_fs, check_fs and the two loops that fill *)
(* a fresh directory cluster are modelled one disk access per step, so     *)
(* that a disk error or a power cut can fall between any two of them.      *)
(***************************************************************************)
EXTENDS Integers

CONSTANTS
    Val,        \* contents of a sector
    Zero,       \* the cleared sector
    Unknown,    \* (free_clst, last_clst) = (0xFFFFFFFF, 0xFFFFFFFF)
    FatBase,    \* fs->fatbase: first sector of the first FAT (volbase is 0)
    FSize,      \* fs->fsize: sectors of one FAT
    NFats,      \* fs->n_fats
    CSize,      \* fs->csize: sectors of a cluster
    NSect,      \* sectors of the volume
    Fat32Boot   \* boot sectors of a FAT32 volume that names its FSInfo sector

FatSect == FatBase .. FatBase + FSize - 1
DirBase == FatBase + NFats * FSize         \* root directory, then the clusters
DirSect == DirBase .. NSect - 1
MetaSect == FatSect \cup DirSect
FsInfoSect == 1                            \* fs->volbase + 1
NoSect == NSect                            \* stands for 0xFFFFFFFF
Sectors == 0 .. NSect - 1

ASSUME ValAssumption ==
    Zero \in Val /\ Unknown \in Val /\ Unknown # Zero /\ Fat32Boot \subseteq Val
ASSUME GeometryAssumption ==
    /\ FatBase \in Nat /\ FatBase >= 2
    /\ FSize \in Nat \ {0}
    /\ NFats \in {1, 2}
    /\ CSize \in Nat \ {0}
    /\ NSect \in Nat /\ NSect > DirBase

VARIABLES
    disk,       \* [Sectors -> Val]: the medium
    win,        \* fs->win
    winsect,    \* fs->winsect
    wflag,      \* fs->wflag
    hint,       \* the pair (fs->free_clst, fs->last_clst)
    fsi_flag,   \* fs->fsi_flag: bit 7 disabled, bit 0 dirty
    mounted,    \* fs->fs_type # 0
    pc,         \* where the running call is; "idle" between calls
    call,       \* the running call and its arguments
    ret,        \* result of the call that completed last
    sound       \* nothing fails in this behaviour: the same in all its states

vars == <<disk, win, winsect, wflag, hint, fsi_flag, mounted, pc, call, ret, sound>>
fsVars == <<hint, fsi_flag, mounted>>

DiskErrors == ~sound    \* disk_read, disk_write and disk_ioctl may fail
PowerCuts == ~sound     \* the board may restart between two disk accesses

Calls == [op : {"get", "put", "sync", "stretch", "mkdir", "mount"},
          sect : Sectors, val : Val, n : 0 .. CSize, par : Sectors]

Ok(s, v) == [st |-> "OK", sect |-> s, val |-> v]
Synced == [st |-> "SYNCED"]
DiskErr == [st |-> "DISK_ERR"]
Results == {Synced, DiskErr} \cup {Ok(s, v) : s \in Sectors, v \in Val}

Call(op, s, v, p) == [op |-> op, sect |-> s, val |-> v, n |-> 0, par |-> p]

Init ==
    /\ disk \in [Sectors -> Val]
    /\ NFats = 2 => \A s \in FatSect : disk[s + FSize] = disk[s]
    /\ win = Zero /\ winsect = NoSect /\ wflag = FALSE
    /\ hint = Unknown /\ fsi_flag = 128
    /\ mounted = FALSE
    /\ pc = "idle"
    /\ call = Call("mount", 0, Zero, 0)
    /\ ret = DiskErr
    /\ sound \in BOOLEAN
-----------------------------------------------------------------------------
(* Calls start here.  A call that needs another sector first writes the    *)
(* dirty one back (pc "write"), then loads the new one (pc "load").        *)

\* Mutant: the window is reloaded without writing its old contents back.
MoveWindowNoFlush(op, s, v) ==
    /\ pc = "idle" /\ mounted
    /\ call' = Call(op, s, v, s)
    /\ pc' = IF s = winsect THEN "done" ELSE "load"
    /\ UNCHANGED <<disk, win, winsect, wflag, ret, fsVars>>

\* A caller asks for sector s: move_window(fs, s), then reads or modifies win.
MoveWindow(op, s, v) ==
    /\ pc = "idle" /\ mounted
    /\ call' = Call(op, s, v, s)
    /\ pc' = IF s = winsect THEN "done" ELSE IF wflag THEN "write" ELSE "load"
    /\ UNCHANGED <<disk, win, winsect, wflag, ret, fsVars>>

\* Mutant: sync_fs does not call sync_window.
SyncFsNoFlush ==
    /\ pc = "idle" /\ mounted
    /\ call' = Call("sync", 0, Zero, 0)
    /\ pc' = "fsinfo"
    /\ UNCHANGED <<disk, win, winsect, wflag, ret, fsVars>>

\* sync_fs: flush the window, then FSInfo, then the drive.
SyncFs ==
    /\ pc = "idle" /\ mounted
    /\ call' = Call("sync", 0, Zero, 0)
    /\ pc' = IF wflag THEN "write" ELSE "fsinfo"
    /\ UNCHANGED <<disk, win, winsect, wflag, ret, fsVars>>

\* Mutant: the fill starts without flushing the window.
FillClusterNoFlush(op, s, v, p) ==
    /\ pc = "idle" /\ mounted
    /\ s + CSize <= NSect /\ p \notin s .. s + CSize - 1
    /\ op = "stretch" => v = Zero /\ p = DirBase
    /\ call' = Call(op, s, v, p)
    /\ pc' = "fill"
    /\ UNCHANGED <<disk, win, winsect, wflag, ret, fsVars>>

\* dir_next(dp, 1) gives a directory table a new cluster, at sector s, and
\* f_mkdir initialises the table of a new directory; both flush the window
\* first.  par is the sector of the parent table f_mkdir turns to afterwards.
FillCluster(op, s, v, p) ==
    /\ pc = "idle" /\ mounted
    /\ s + CSize <= NSect /\ p \notin s .. s + CSize - 1
    /\ op = "stretch" => v = Zero /\ p = DirBase
    /\ call' = Call(op, s, v, p)
    /\ pc' = IF wflag THEN "write" ELSE "fill"
    /\ UNCHANGED <<disk, win, winsect, wflag, ret, fsVars>>

\* Mutant: a change of the counters does not mark FSInfo dirty.
SetHintClean(h) ==
    /\ pc = "idle" /\ mounted /\ h # Zero
    /\ hint' = h
    /\ UNCHANGED <<disk, win, winsect, wflag, fsi_flag, mounted, pc, call, ret>>

\* create_chain and remove_chain change free_clst, last_clst and fsi_flag |= 1.
SetHint(h) ==
    /\ pc = "idle" /\ mounted /\ h # Zero
    /\ hint' = h
    /\ fsi_flag' = IF fsi_flag % 2 = 0 THEN fsi_flag + 1 ELSE fsi_flag
    /\ UNCHANGED <<disk, win, winsect, wflag, mounted, pc, call, ret>>
-----------------------------------------------------------------------------
(* sync_window *)

\* Where the running call goes on once the window is clean.
AfterSync == IF call.op \in {"get", "put"} THEN "load"
             ELSE IF call.op = "sync" THEN "fsinfo" ELSE "fill"

\* Mutant: the copy loop starts at nf >= 3, so two FATs are never kept equal.
WriteBackOneCopy ==
    /\ pc = "write"
    /\ disk' = [disk EXCEPT ![winsect] = win]
    /\ wflag' = FALSE
    /\ pc' = AfterSync
    /\ UNCHANGED <<win, winsect, call, ret, fsVars>>

\* The dirty window reaches its sector.
WriteBack ==
    /\ pc = "write"
    /\ disk' = [disk EXCEPT ![winsect] = win]
    /\ wflag' = FALSE
    /\ pc' = IF winsect \in FatSect /\ NFats = 2 THEN "mirror" ELSE AfterSync
    /\ UNCHANGED <<win, winsect, call, ret, fsVars>>

\* disk_write fails, with or without having changed the sector.
WriteBackFails ==
    /\ DiskErrors /\ pc = "write"
    /\ disk' \in {disk, [disk EXCEPT ![winsect] = win]}
    /\ pc' = "idle" /\ ret' = DiskErr
    /\ UNCHANGED <<win, winsect, wflag, call, fsVars>>

\* The change is reflected to the second FAT; the result is not looked at.
WriteMirror ==
    /\ pc = "mirror"
    /\ \/ disk' = [disk EXCEPT ![winsect + FSize] = win]
       \/ DiskErrors /\ disk' = disk
    /\ pc' = AfterSync
    /\ UNCHANGED <<win, winsect, wflag, call, ret, fsVars>>
-----------------------------------------------------------------------------
(* The rest of move_window *)

Load ==
    /\ pc = "load"
    /\ win' = disk[call.sect]
    /\ winsect' = call.sect
    /\ pc' = IF call.op = "mount" THEN "mount" ELSE "done"
    /\ UNCHANGED <<disk, wflag, call, ret, fsVars>>

\* Mutant: a failed read leaves winsect as if the sector were in the window.
LoadFailsValid ==
    /\ DiskErrors /\ pc = "load"
    /\ win' \in Val
    /\ winsect' = call.sect
    /\ pc' = "idle" /\ ret' = DiskErr
    /\ UNCHANGED <<disk, wflag, call, fsVars>>

\* disk_read fails and may leave anything in the buffer: no sector is in the
\* window any more.
LoadFails ==
    /\ DiskErrors /\ pc = "load"
    /\ win' \in Val
    /\ winsect' = NoSect
    /\ pc' = "idle" /\ ret' = DiskErr
    /\ UNCHANGED <<disk, wflag, call, fsVars>>

\* The sector is in the window: the caller reads it or modifies it in place.
Return ==
    /\ pc = "done"
    /\ \/ call.op = "get" /\ UNCHANGED <<win, wflag>>
       \/ call.op = "put" /\ win' = call.val /\ wflag' = TRUE
    /\ ret' = Ok(call.sect, win')
    /\ pc' = "idle"
    /\ UNCHANGED <<disk, winsect, call, fsVars>>
-----------------------------------------------------------------------------
(* Filling a directory cluster: the window is pointed at each sector in    *)
(* turn without being loaded, marked dirty and flushed.                    *)

\* Mutant: the loop runs once too often, into the next cluster.
FillNextTooFar ==
    /\ pc = "fill" /\ call.n <= CSize
    /\ win' = IF call.n = 0 THEN call.val ELSE Zero
    /\ winsect' = call.sect + call.n
    /\ wflag' = TRUE
    /\ call' = [call EXCEPT !.n = @ + 1]
    /\ pc' = "write"
    /\ UNCHANGED <<disk, ret, fsVars>>

FillNext ==
    /\ pc = "fill" /\ call.n < CSize
    /\ win' = IF call.n = 0 THEN call.val ELSE Zero
    /\ winsect' = call.sect + call.n
    /\ wflag' = TRUE
    /\ call' = [call EXCEPT !.n = @ + 1]
    /\ pc' = "write"
    /\ UNCHANGED <<disk, ret, fsVars>>

\* dir_next: the window offset is restored to the cluster's first sector.
StretchEnds ==
    /\ pc = "fill" /\ call.op = "stretch" /\ call.n = CSize
    /\ winsect' = call.sect
    /\ ret' = Ok(call.sect, win)
    /\ pc' = "idle"
    /\ UNCHANGED <<disk, win, wflag, call, fsVars>>

\* f_mkdir: the window is cleared once more while it still names the last
\* sector, and dir_register goes to the parent's table.
MkdirEnds ==
    /\ pc = "fill" /\ call.op = "mkdir" /\ call.n = CSize
    /\ win' = Zero
    /\ call' = Call("get", call.par, Zero, call.par)
    /\ pc' = "load"
    /\ UNCHANGED <<disk, winsect, wflag, ret, fsVars>>
-----------------------------------------------------------------------------
(* The rest of sync_fs *)

\* FSInfo is built in the window and written; the result is not looked at.
WriteFsInfo ==
    /\ pc = "fsinfo" /\ fsi_flag = 1
    /\ win' = hint /\ winsect' = FsInfoSect /\ fsi_flag' = 0
    /\ \/ disk' = [disk EXCEPT ![FsInfoSect] = hint]
       \/ DiskErrors /\ disk' = disk
    /\ pc' = "ioctl"
    /\ UNCHANGED <<wflag, hint, mounted, call, ret>>

SkipFsInfo ==
    /\ pc = "fsinfo" /\ fsi_flag # 1
    /\ pc' = "ioctl"
    /\ UNCHANGED <<disk, win, winsect, wflag, call, ret, fsVars>>

\* disk_ioctl(CTRL_SYNC)
CtrlSync ==
    /\ pc = "ioctl"
    /\ ret' \in IF DiskErrors THEN {Synced, DiskErr} ELSE {Synced}
    /\ pc' = "idle"
    /\ UNCHANGED <<disk, win, winsect, wflag, call, fsVars>>
-----------------------------------------------------------------------------
(* Mounting *)

\* f_mount, or find_volume on a drive that reports STA_NOINIT: the volume is
\* no longer mounted; the window keeps what it holds.
Detach ==
    /\ pc = "idle" /\ mounted
    /\ mounted' = FALSE /\ ret' = DiskErr
    /\ UNCHANGED <<disk, win, winsect, wflag, hint, fsi_flag, pc, call>>

\* Mutant: check_fs leaves the dirty flag of the previous mount set.
CheckFsStillDirty ==
    /\ pc = "idle" /\ ~mounted
    /\ winsect' = NoSect
    /\ call' = Call("mount", 0, Zero, 0)
    /\ pc' = "load" /\ ret' = DiskErr
    /\ UNCHANGED <<disk, win, wflag, fsVars>>

\* check_fs invalidates the window and loads the boot sector.
CheckFs ==
    /\ pc = "idle" /\ ~mounted
    /\ wflag' = FALSE /\ winsect' = NoSect
    /\ call' = Call("mount", 0, Zero, 0)
    /\ pc' = "load" /\ ret' = DiskErr
    /\ UNCHANGED <<disk, win, fsVars>>

\* The counters an FSInfo sector gives: none without its signatures.
Counters(v) == IF v = Zero THEN Unknown ELSE v

\* The tail of find_volume, with the boot sector in the window: FSInfo is read
\* when the volume names one; otherwise, or when the read fails, its use is
\* disabled (0x80).
Mount ==
    /\ pc = "mount"
    /\ \/ /\ win \in Fat32Boot
          /\ win' = disk[FsInfoSect] /\ winsect' = FsInfoSect
          /\ hint' = Counters(disk[FsInfoSect]) /\ fsi_flag' = 0
       \/ /\ win \in Fat32Boot /\ DiskErrors
          /\ win' \in Val /\ winsect' = NoSect
          /\ hint' = Unknown /\ fsi_flag' = 128
       \/ /\ win \notin Fat32Boot
          /\ hint' = Unknown /\ fsi_flag' = 128
          /\ UNCHANGED <<win, winsect>>
    /\ mounted' = TRUE /\ pc' = "idle"
    /\ UNCHANGED <<disk, wflag, call, ret>>

\* The board restarts: what was in RAM is lost.
PowerCut ==
    /\ PowerCuts
    /\ win' = Zero /\ winsect' = NoSect /\ wflag' = FALSE
    /\ mounted' = FALSE /\ pc' = "idle" /\ ret' = DiskErr
    /\ UNCHANGED <<disk, hint, fsi_flag, call>>
-----------------------------------------------------------------------------
Access ==
    \/ \E op \in {"get", "put"}, s \in MetaSect, v \in Val : MoveWindow(op, s, v)
    \/ \E op \in {"stretch", "mkdir"}, s, p \in DirSect, v \in Val :
          FillCluster(op, s, v, p)
    \/ SyncFs
    \/ \E h \in Val : SetHint(h)

SyncWindow == WriteBack \/ WriteBackFails \/ WriteMirror
Fill == FillNext \/ StretchEnds \/ MkdirEnds
FlushDrive == WriteFsInfo \/ SkipFsInfo \/ CtrlSync
MountVolume == Detach \/ CheckFs \/ Mount \/ PowerCut

Step == Access \/ SyncWindow \/ Load \/ LoadFails \/ Return
        \/ Fill \/ FlushDrive \/ MountVolume

Next == Step /\ sound' = sound

Spec == Init /\ [][Next]_vars
-----------------------------------------------------------------------------
PCs == {"idle", "write", "mirror", "load", "done", "fill", "fsinfo", "ioctl",
        "mount"}

\* Types of the window, the medium and the running call.
TypeOK ==
    /\ disk \in [Sectors -> Val]
    /\ win \in Val
    /\ winsect \in Sectors \cup {NoSect}
    /\ wflag \in BOOLEAN
    /\ hint \in Val
    /\ fsi_flag \in {0, 1, 128, 129}
    /\ mounted \in BOOLEAN
    /\ pc \in PCs
    /\ call \in Calls
    /\ ret \in Results

\* The contents a reader of metadata sector s gets: the window's while it is
\* dirty, the disk's otherwise.
Store == [s \in MetaSect |-> IF s = winsect /\ wflag THEN win ELSE disk[s]]
Dur == [s \in MetaSect |-> disk[s]]

\* The writes the running call asks for: one sector, or a cleared cluster.
Asked ==
    {w \in MetaSect \X Val :
        /\ pc # "idle"
        /\ \/ call.op = "put" /\ w = <<call.sect, call.val>>
           \/ /\ call.op \in {"stretch", "mkdir"}
              /\ w[1] \in call.sect .. call.sect + CSize - 1
              /\ w[2] = IF w[1] = call.sect THEN call.val ELSE Zero}

\* A clean window that names a metadata sector holds what the disk holds
\* there, so that move_window may skip the read (ff.c:905).  The one moment it
\* does not is f_mkdir's last mem_set, before dir_register moves it away.
WindowCoherent ==
    /\ ~wflag /\ winsect \in MetaSect /\ pc # "load"
    => win = disk[winsect]

\* A dirty window always has a metadata sector of its own to be written back
\* to: never the invalid sector number, FSInfo, the boot sector or a FAT copy.
DirtyHasHome == wflag => winsect \in MetaSect

\* The store the window implements for the code above it: reads return the
\* last write, and a successful sync_fs leaves nothing undurable.
Sec == INSTANCE SectorStore WITH Sect <- MetaSect, Val <- Val,
                                 store <- Store, dur <- Dur, asked <- Asked,
                                 res <- ret
ImplementsSectorStore == Sec!StoreSpec

\* sync_fs reports success only when each metadata sector that was modified
\* since the mount is on the medium with its last contents.
SyncIsDurable ==
    [][pc = "ioctl" /\ ret' = Synced =>
        \A s \in MetaSect : disk'[s] = Store[s] /\ disk'[s] = Store'[s]]_vars

\* As long as no disk access fails and the power stays on, the second FAT
\* equals the first one whenever sync_window is not between the two writes.
MirrorsAgree ==
    sound /\ NFats = 2 /\ pc # "mirror" =>
        \A s \in FatSect : disk[s + FSize] = disk[s]

\* "FSINFO flags (b7:disabled, b0:dirty)" (ff.h:97): as long as no disk access
\* fails, a mounted volume's FSInfo that is neither disabled nor dirty gives
\* the counters held in RAM.
FsInfoClean ==
    sound /\ mounted /\ fsi_flag = 0 => hint = Counters(disk[FsInfoSect])
=============================================================================
