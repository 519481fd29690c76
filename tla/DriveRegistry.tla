---------------------------- MODULE DriveRegistry ----------------------------
(***************************************************************************)
(* Who owns which drive: the drivers' table s_impls (fatfs/diskio.c), the  *)
(* cards' table s_cards (SD/Seeed_sdcard_hal.cpp), FatFs's table FatFs[]   *)
(* of volumes (f_mount, find_volume, validate of fatfs/ff.c), and the      *)
(* objects of the classes SDFS and SDMMCFS, whose begin and end enter and  *)
(* remove themselves there.  A call is one step; cards are changed and     *)
(* files used in between.                                                  *)
(***************************************************************************)
EXTENDS Integers

CONSTANTS
    SdObjects,      \* objects of class SDFS, each with a slot of its own
    MmcObjects,     \* the object of class SDMMCFS (SDMMC), or none
    Files,          \* File objects of the program
    VOLUMES,        \* _VOLUMES, the number of drives
    Cards,          \* the cards that may be in the slots
    MaxMounts,      \* bound: mounts altogether, fewer than wrap Fsid, a WORD
    Retries         \* the program calls begin and end as it likes; otherwise
                    \* end comes behind each begin, also one that has failed

ASSUME DriveAssumption == VOLUMES \in 1 .. 9
ASSUME RetryAssumption == Retries \in BOOLEAN /\ MaxMounts \in 0 .. 65535

Drives == 0 .. VOLUMES - 1
Objects == SdObjects \cup MmcObjects
Nobody == "nobody"
NoCard == "no card"
NoDrive == 255          \* 0xFF
Bad == 47               \* '0' + 0xFF is '/', which is no drive
NoEntry == [owner |-> Nobody, noinit |-> TRUE]
Closed == [fs |-> Nobody, id |-> 0, by |-> Nobody, card |-> NoCard]

\* SDMMC is the only object of its class.
ASSUME ObjectAssumption ==
    /\ SdObjects \cap MmcObjects = {} /\ \A o, p \in MmcObjects : o = p
    /\ Nobody \notin Objects /\ NoCard \notin Cards

VARIABLES
    impls,      \* s_impls: the driver of each drive: "sd", "mmc" or Nobody
    scards,     \* s_cards: [owner, noinit] of each drive; or NoEntry
    fatfs,      \* FatFs[]: the object whose root it points to; or Nobody
    root,       \* root of each object: [mounted, drv, id] (fs_type, drv, id)
    fsid,       \* Fsid
    pdrv,       \* _pdrv of each object
    letter,     \* _drv[0] - '0'
    slot,       \* the card in each object's slot
    ready,      \* the SDMMC controller finds a card in the transfer state
    begun,      \* history: "no", "yes", "failed": the last begin since the end
    files       \* each open file: [fs, id], and the card it was opened on

tables == <<impls, scards, fatfs>>
objects == <<pdrv, letter, begun>>
world == <<slot, ready>>
driveVars == <<tables, root, fsid, objects, world, files>>

DrivesInit ==
    /\ impls = [d \in Drives |-> Nobody]
    /\ scards = [d \in Drives |-> NoEntry]
    /\ fatfs = [d \in Drives |-> Nobody]
    /\ root = [o \in Objects |-> [mounted |-> FALSE, drv |-> 0, id |-> 0]]
    /\ fsid = 0
    /\ pdrv = [o \in Objects |-> 0] /\ letter = [o \in Objects |-> 0]
    /\ slot \in [Objects -> Cards \cup {NoCard}] /\ ready = FALSE
    /\ begun = [o \in Objects |-> "no"]
    /\ files = [f \in Files |-> Closed]
-----------------------------------------------------------------------------
(* The slots *)

\* A card is put into an empty slot, or changed while the object is not begun: no
\* driver notices a card that is pulled before end is called.
ChangeCard(o, c) ==
    /\ begun[o] = "no" \/ slot[o] = NoCard
    /\ slot[o] # c
    /\ slot' = [slot EXCEPT ![o] = c]
    /\ ready' = (ready /\ o \notin MmcObjects)
    /\ UNCHANGED <<tables, root, fsid, objects, files>>

\* The card on the controller has been busy for a moment.
Busy ==
    /\ \E o \in MmcObjects : slot[o] # NoCard /\ begun[o] = "yes"
    /\ ready' = ~ready
    /\ UNCHANGED <<tables, root, fsid, objects, slot, files>>
-----------------------------------------------------------------------------
(* fatfs/diskio.c, and the drivers behind it *)

FreeDrives == {d \in Drives : impls[d] = Nobody}

\* ff_diskio_get_drive: the first drive without a driver.
Takes(d) == d \in FreeDrives /\ \A e \in FreeDrives : d <= e

\* The slot that drive d reaches.
Slot(d, sc) == IF sc[d] # NoEntry THEN sc[d].owner ELSE CHOOSE o \in MmcObjects : TRUE

\* disk_status without STA_NOINIT
IsReady(d, im, sc) == CASE im[d] = "sd" -> sc[d] # NoEntry /\ ~sc[d].noinit
                        [] im[d] = "mmc" -> ready
                        [] OTHER -> FALSE
-----------------------------------------------------------------------------
(* fatfs/ff.c *)

\* fs->id = ++Fsid, which does not wrap within MaxMounts
NextMountId == fsid + 1

\* find_volume of drive d, behind changes of the tables (rt, im, sc): a mounted
\* volume whose drive is ready stays; otherwise the drive is initialised and the
\* volume mounted, each of which may fail.
FindVolume(d, rt, im, sc) ==
    LET fs == fatfs'[d]
        stays == rt[fs].mounted /\ IsReady(rt[fs].drv, im, sc)
        cleared == [rt EXCEPT ![fs].mounted = FALSE, ![fs].drv = d]
        up == IF im[d] = "sd" THEN [sc EXCEPT ![d].noinit = FALSE] ELSE sc
    IN  \/ stays /\ root' = rt /\ scards' = sc /\ fsid' = fsid
        \/ ~stays /\ root' = cleared /\ scards' = sc /\ fsid' = fsid
        \/ /\ ~stays /\ IsReady(d, im, up) /\ slot[Slot(d, sc)] # NoCard
           /\ scards' = up
           /\ \/ root' = cleared /\ fsid' = fsid
              \/ /\ fsid < MaxMounts
                 /\ root' = [cleared EXCEPT ![fs].mounted = TRUE, ![fs].id = NextMountId]
                 /\ fsid' = NextMountId

\* Mutant: the volume that had the drive stays mounted.
UnmountedNot(d) == root

\* f_mount: the volume that had the drive is not mounted any more.
Unmounted(d) == IF fatfs[d] = Nobody THEN root
                ELSE [root EXCEPT ![fatfs[d]].mounted = FALSE]

\* f_mount(NULL, ...)
Unmount(d) ==
    /\ fatfs' = [fatfs EXCEPT ![d] = Nobody]
    /\ root' = Unmounted(d)

\* f_mount(&root, ...) up to the point where it returns or calls find_volume
Registers(o, d) == fatfs' = [fatfs EXCEPT ![d] = o]
Registered(o, d) == [Unmounted(d) EXCEPT ![o].mounted = FALSE]

\* Mutant: the mount ID is not compared.
ValidateAnyId(f) ==
    /\ files[f] # Closed
    /\ root[files[f].fs].mounted
    /\ IsReady(root[files[f].fs].drv, impls, scards)

\* validate: FatFs accepts the file object.
Validate(f) ==
    /\ files[f] # Closed
    /\ root[files[f].fs].mounted /\ root[files[f].fs].id = files[f].id
    /\ IsReady(root[files[f].fs].drv, impls, scards)
-----------------------------------------------------------------------------
(* SDFS *)

MayBegin(o) == Retries \/ begun[o] = "no"

\* sdcard_init finds no drive, or no memory; the drive is called '/' then.
SdBeginNoDrive(o) ==
    /\ MayBegin(o)
    /\ pdrv' = [pdrv EXCEPT ![o] = NoDrive]
    /\ letter' = [letter EXCEPT ![o] = Bad]
    /\ begun' = [begun EXCEPT ![o] = "failed"]
    /\ UNCHANGED <<tables, root, fsid, world, files>>

\* SDFS::begin: the first free drive is the object's, also if the mount fails.
SdBegin(o, d) ==
    /\ MayBegin(o) /\ Takes(d) /\ fsid < MaxMounts
    /\ impls' = [impls EXCEPT ![d] = "sd"]
    /\ pdrv' = [pdrv EXCEPT ![o] = d]
    /\ letter' = [letter EXCEPT ![o] = d]
    /\ Registers(o, d)
    /\ FindVolume(d, Registered(o, d), impls',
                  [scards EXCEPT ![d] = [owner |-> o, noinit |-> TRUE]])
    /\ begun' = [begun EXCEPT ![o] = IF root'[o].mounted THEN "yes" ELSE "failed"]
    /\ UNCHANGED <<world, files>>

\* Mutant: the driver stays registered.
UninitLeavesDriver(d) ==
    /\ scards' = [scards EXCEPT ![d] = NoEntry]
    /\ UNCHANGED impls

\* sdcard_uninit
Uninit(d) ==
    /\ scards' = [scards EXCEPT ![d] = NoEntry]
    /\ impls' = IF scards[d] = NoEntry THEN impls ELSE [impls EXCEPT ![d] = Nobody]

MayEnd(o) == pdrv[o] # NoDrive /\ (Retries \/ begun[o] # "no")

\* SDFS::end
SdEnd(o) ==
    /\ MayEnd(o)
    /\ Unmount(letter[o])
    /\ Uninit(pdrv[o])
    /\ pdrv' = [pdrv EXCEPT ![o] = NoDrive]
    /\ begun' = [begun EXCEPT ![o] = "no"]
    /\ UNCHANGED <<fsid, letter, world, files>>

\* The end of an object that has no drive does nothing.
EndNothing(o) ==
    /\ pdrv[o] = NoDrive /\ begun[o] # "no"
    /\ begun' = [begun EXCEPT ![o] = "no"]
    /\ UNCHANGED <<tables, root, fsid, pdrv, letter, world, files>>
-----------------------------------------------------------------------------
(* SDMMCFS *)

MmcBeginNoDrive(o) ==
    /\ MayBegin(o) /\ FreeDrives = {}
    /\ pdrv' = [pdrv EXCEPT ![o] = NoDrive]
    /\ begun' = [begun EXCEPT ![o] = "failed"]
    /\ UNCHANGED <<tables, root, fsid, letter, world, files>>

\* MX_SDMMC1_SD_Init fails: _pdrv has changed, _drv has not.
MmcBeginFails(o, d) ==
    /\ MayBegin(o) /\ Takes(d)
    /\ pdrv' = [pdrv EXCEPT ![o] = d]
    /\ ready' = FALSE
    /\ begun' = [begun EXCEPT ![o] = "failed"]
    /\ UNCHANGED <<tables, root, fsid, letter, slot, files>>

\* SDMMCFS::begin: the volume is mounted later, when it is used.
MmcBegin(o, d) ==
    /\ MayBegin(o) /\ Takes(d) /\ slot[o] # NoCard
    /\ impls' = [impls EXCEPT ![d] = "mmc"]
    /\ pdrv' = [pdrv EXCEPT ![o] = d] /\ letter' = [letter EXCEPT ![o] = d]
    /\ ready' = TRUE
    /\ Registers(o, d) /\ root' = Registered(o, d)
    /\ begun' = [begun EXCEPT ![o] = "yes"]
    /\ UNCHANGED <<scards, fsid, slot, files>>

\* SDMMCFS::end leaves its driver in s_impls.
MmcEnd(o) ==
    /\ MayEnd(o)
    /\ Unmount(letter[o])
    /\ pdrv' = [pdrv EXCEPT ![o] = NoDrive]
    /\ ready' = FALSE
    /\ begun' = [begun EXCEPT ![o] = "no"]
    /\ UNCHANGED <<impls, scards, fsid, letter, slot, files>>
-----------------------------------------------------------------------------
(* Files *)

\* The drive in the paths that FS::open makes: FS::_pdrv.  SDMMCFS has a member
\* of the same name, so that begin leaves the one of FS at 0.
PathDrive(o) == IF o \in MmcObjects THEN 0 ELSE pdrv[o]

\* FS::open
Open(f, o) ==
    LET d == PathDrive(o) IN
    /\ Retries \/ begun[o] # "no"
    /\ files[f] = Closed /\ d \in Drives /\ fatfs[d] # Nobody
    /\ UNCHANGED fatfs
    /\ FindVolume(d, root, impls, scards)
    /\ LET fs == fatfs[d] IN
       \/ UNCHANGED files
       \/ /\ root'[fs].mounted /\ IsReady(root'[fs].drv, impls, scards')
          /\ files' = [files EXCEPT ![f] =
                [fs |-> fs, id |-> root'[fs].id, by |-> o,
                 card |-> slot[Slot(root'[fs].drv, scards')]]]
    /\ UNCHANGED <<impls, objects, world>>

\* File::close, which frees the object also when f_close refuses it.
Close(f) ==
    /\ files[f] # Closed
    /\ files' = [files EXCEPT ![f] = Closed]
    /\ UNCHANGED <<tables, root, fsid, objects, world>>
-----------------------------------------------------------------------------
DrivesNext ==
    \/ \E o \in Objects : EndNothing(o) \/ \E c \in Cards \cup {NoCard} : ChangeCard(o, c)
    \/ \E o \in SdObjects :
          SdBeginNoDrive(o) \/ SdEnd(o) \/ \E d \in Drives : SdBegin(o, d)
    \/ \E o \in MmcObjects :
          MmcBeginNoDrive(o) \/ MmcEnd(o)
          \/ \E d \in Drives : MmcBeginFails(o, d) \/ MmcBegin(o, d)
    \/ \E f \in Files : Close(f) \/ \E o \in Objects : Open(f, o)
    \/ Busy

DrivesSpec == DrivesInit /\ [][DrivesNext]_driveVars
-----------------------------------------------------------------------------
\* Nothing is called through a pointer that leads nowhere: a volume in FatFs[] has
\* a driver in s_impls, on its drive and on the one it is mounted from, and the
\* SPI driver an entry in s_cards.
DriversThere ==
    \A d \in Drives :
       /\ fatfs[d] # Nobody => impls[d] # Nobody
       /\ impls[d] = "sd" <=> scards[d] # NoEntry
       /\ fatfs[d] # Nobody /\ root[fatfs[d]].mounted => impls[root[fatfs[d]].drv] # Nobody

\* A mounted volume can be reached, and unmounted, through FatFs[]: no object
\* stays mounted behind the back of f_mount.
MountedIsRegistered ==
    \A o \in Objects : root[o].mounted => fatfs[root[o].drv] = o

\* The tables of three layers agree: no volume is without its driver, and none is
\* mounted that f_mount does not know of.
TablesAgree == DriversThere /\ MountedIsRegistered

\* A file that FatFs still accepts is on the card it was opened on, although
\* cards, drives and volumes have come and gone since.
FilesReachTheirCard ==
    \A f \in Files : Validate(f) =>
       slot[Slot(root[files[f].fs].drv, scards)] = files[f].card

\* "call this when a card is removed. It will allow you to insert and initialise a
\* new card." (Seeed_SDMMC.h:24, of end): begin lacks a drive only if other objects
\* have them all.
NewCardAllowed ==
    \A o \in Objects : begun[o] = "no" =>
       FreeDrives # {} \/ \A d \in Drives : \E p \in Objects \ {o} :
                                begun[p] # "no" /\ pdrv[p] = d

\* The same of programs that leave SDMMC alone, whose end keeps its drive.
NewSdCardAllowed == (\A d \in Drives : impls[d] # "mmc") => NewCardAllowed
=============================================================================
