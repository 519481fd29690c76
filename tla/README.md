# A TLA+ verification of Seeed_Arduino_FS

Seeed_Arduino_FS gives an Arduino sketch files on an SD card: the C++ classes
`FS`, `File`, `SDFS` and `SDMMCFS` on top of ChaN's FatFs (`fatfs/ff.c`, R0.12b),
which reads and writes sectors through a small disk layer with one driver for
cards on SPI and one for an SDMMC controller. This directory holds TLA+ modules
translated from that code, the configurations with which TLC checks them on small
instances, and proofs that TLAPS checks for instances of every size.

Paths below are relative to `src/src/`.

## 1. Inventory

```
 sketch ── File / FS (Seeed_FS) ── SDFS (SD) / SDMMCFS (SDMMC)
              │ f_open, f_read, ...        │ begin, end: f_mount, register
              ▼                            ▼
           FatFs: f_* ─ directories ─ file objects ─ clusters ─ access window
              │ disk_initialize / status / read / write / ioctl
              ▼
           diskio.c: s_impls[drive] ── SPI card driver │ SDMMC driver
```

| component | state | operations |
|---|---|---|
| Access window (`ff.c` 862-960, 2895-3193) | `fs->win`, `winsect`, `wflag`, `fsi_flag`, `fs_type` | `sync_window`, `move_window`, `sync_fs`, `check_fs`, `find_volume` |
| Cluster allocation (`ff.c` 962-1420, 4310-4395, 5045-5130) | the FAT, `free_clst`, `last_clst`, `obj.sclust` | `get_fat`, `put_fat`, `create_chain`, `remove_chain`, `f_expand`, `f_getfree` |
| exFAT allocation (`ff.c` 1022-1046, 1118-1384) | the bitmap, `obj.stat`, `n_cont` | `find_bitmap`, `change_bitmap`, `fill_fat_chain`, the exFAT branches of `get_fat`, `create_chain`, `remove_chain` |
| File objects (`ff.c` 3278-3750, 3985-4110, 4400-4445) | `FIL`: `obj`, `fptr`, `clust`, `sect`, `buf`, `flag`, `err` | `f_open`, `f_read`, `f_write`, `f_lseek`, `f_truncate`, `f_sync`, `f_close` |
| Directories and names (`ff.c` 1425-2890, 4120-4830) | directory tables, `DIR` objects, the LFN buffer, current directory | `dir_*`, `follow_path`, `f_opendir`, `f_readdir`, `f_stat`, `f_unlink`, `f_mkdir`, `f_rename`, `f_chdir`, `f_getcwd` |
| Drives and mounts (`fatfs/diskio.c`, `SD/Seeed_SD.cpp`, `SDMMC/Seeed_SDMMC.cpp`, `f_mount`) | `s_impls[]`, `FatFs[]`, `s_cards[]`, `_pdrv` of each class | `ff_diskio_register`, `ff_diskio_get_drive`, `begin`, `end`, `f_mount`, `validate` |
| Wrappers (`Seeed_FS.cpp`) | `_fil`, `_dir`, `_fno`, `_name` of each `File`, shared by its copies | `open`, `close`, `read`, `write`, `openNextFile`, `rmdir`, ... |
| SPI card (`SD/Seeed_sdcard_hal.cpp`) | card type, base frequency, status of each card; what the card itself holds | `sd_disk_initialize`, `sdCommand`, `sdRead*`, `sdWrite*` |
| SDMMC (`SDMMC/Seeed_SDMMC_Interface.cpp`) | `Stat`, the controller's handle and interrupt flags | `SD_initialize`, `SD_read`, `SD_write`, `SD_ioctl` |
| Rest | none | CRC tables, code pages, string functions over `f_read`/`f_write`, `f_mkfs`, examples |

### How they interact

A `File` method calls one FatFs function with a `FIL` it owns and turns its result
into a byte count or nothing: `flush` and `close` drop it altogether. Every FatFs
call goes through `validate` or `find_volume`, which follow `FatFs[]` and ask the
drive for its status. Below that everything the volume says about itself, FAT,
directory tables and FSInfo, passes through one sector of RAM, the window; file
data passes through the file object's own sector or directly between the disk and
the program. The three meet in a few places that the properties are about: a file's
size and first cluster reach the directory entry only in `f_sync`, a chain is
changed at once in the window, and the window reaches the disk when another sector
is wanted.

### The configuration the models assume (`fatfs/ffconf.h`)

`_FS_TINY` 0 (each file has its own sector buffer), `_FS_LOCK` 0 (FatFs does not
know which files are open), `_FS_REENTRANT` 0 (no locking: calls on a volume do not
overlap), `_FS_EXFAT` 1, `_USE_LFN` 2, `_VOLUMES` 2. The sector size (`_MIN_SS` 512 to
`_MAX_SS` 4096) is the drive's and does not change while a volume is mounted.
`fp->cltbl` is never set, so the fast seek that is compiled in is not reached.

### What is hard in this code, and what makes each part correct

- **Window.** One sector of cache with a dirty bit, changed by eight functions, some
  of which point it at a sector without loading it. Correct if a reader of any
  sector gets what was last written to it, whatever disk access failed before, and
  if a synchronisation that reports success has left nothing in RAM. Power may go
  between any two disk accesses.
- **Allocation.** Every call changes several FAT entries, each of which may fail.
  Correct if chains never join, never lead to a free cluster, are changed only by
  their own file, and if no cluster is lost when nothing fails; if the free count,
  kept incrementally, agrees with the FAT.
- **File objects.** The same byte may be in the buffer, on the disk and, in a direct
  transfer, in the program's memory; cluster and sector boundaries decide which.
  Correct if the file is a sequence of bytes with a pointer, until a call fails.
- **Directories.** An entry and the chain it names are changed in separate sectors;
  creating, renaming and removing each have an order in which a crash or an error
  leaves something behind, and nothing stops a program from removing or truncating a
  file that another `File` has open. Correct if every entry's chain is its own.
- **Drives.** Two tables of raw pointers to objects that the classes own. Correct if
  no table entry outlives what it points to, and if `end` undoes `begin`.
- **Wrappers.** Copies of a `File` share their objects without a count. Correct if
  each object is freed once and not used afterwards, which the code leaves to the
  program: what it can promise is that the trouble stays with the copies.
- **Cards.** Commands, data and tokens may be lost or late; retries must neither skip
  nor repeat a block, and a write that reports success must have happened. The waits
  must end.

`PROJECT.json` lists these as hazards, one by one, at the line where each bites.

## 2. Modules

| module | what it is |
|---|---|
| `SectorStore` | abstract: a store of metadata sectors whose reads return the last write, that changes only as the running call asks, and whose successful synchronisation makes everything durable |
| `FatWindow` | the access window, one disk access a step; implements `SectorStore` |
| `FatWindowProofs` | proofs: coherence, the refinement, the two FAT copies, FSInfo |
| `FatChains` | the allocator on FAT12/16/32, one FAT entry a step |
| `FatChainsProofs` | proofs: chains apart and linked, the free count, no lost cluster |
| `ExFatChains` | the allocator on exFAT: the bitmap, and chains with and without links |
| `ExFatChainsProofs` | proof that every chain reads as its object was given it |
| `ByteFile` | abstract: a file as a sequence of bytes with a pointer |
| `FileIO` | one file object, its buffer, the data area, the FAT and its directory entry; implements `ByteFile` |
| `FileIOProofs` | proofs: pointer, cluster and buffer, nothing leaked, the refinement |
| `DirTable` | one directory table with short and long names, entry by entry |
| `DirTableProofs` | proofs: what is listed is found, no call touches another object, a walk misses none |
| `FatVolume` | the composition: directory tree, FAT, window, files and open file objects, with the power cut between any two sector changes |
| `FatVolumeProofs` | proof that the volume is sound wherever the power is cut |
| `FatVolumeSavedProofs` | proof that what has been saved survives everything else |
| `DriveRegistry` | drives, drivers, mounts and the objects of `SDFS` and `SDMMCFS` |
| `FileHandles` | copies of `File` and the heap objects they point to |
| `WrapperProofs` | proofs about `FileHandles`, `DriveRegistry`, `SdCard`, `SdInit` and `SdMmc`: who can reach freed memory; the tables agree, a file stays on its card; what a transfer reports is true; the card is known |
| `SdInit` | `sd_disk_initialize` of the SPI driver and the card it finds |
| `SdCard` | block transfers of the SPI driver against a card that fails |
| `SdMmc` | the SDMMC driver and its waits |
| `MC...` | the small instances for TLC |

Operators whose comment starts with "Mutant" are faulty variants of the operator
that follows them; each run can tell the two apart.

How they compose: `FatVolume` puts every change of metadata through one window that
holds one dirty sector, which is what `FatWindow` does with `move_window`; it takes any
free cluster, as `FatChains` shows an allocation to be; it has a table of entries,
each of which changes at once, as `DirTable` shows for names without a fault; and a
file's bytes lie where `FileIO` puts them. `SdCard` and `SdMmc` are what
`disk_read` and `disk_write` of all of these stand on: that a call which succeeds has
read or written. `ReadReported` and `WriteIsDurable` show that; of the SPI driver's writes
only `AcceptedIsWritten` holds, and a single block that the card rejects breaks the
assumption (5.14).

### FatWindow

State: `disk` is the medium, `win`, `winsect`, `wflag`, `fsi_flag` are the fields of
`FATFS`, `hint` is the pair `(free_clst, last_clst)` that FSInfo keeps, `mounted` is
`fs_type # 0`. `pc` and `call` say where the running call is: "write" and "mirror"
are the two `disk_write`s of `sync_window`, "load" the `disk_read` of `move_window`,
"fill" the loop that clears a directory cluster, "fsinfo" and "ioctl" the rest of
`sync_fs`.

A caller either reads a sector (`get`) or changes it in the window (`put`); which
bytes it changes is abstracted, a sector's contents being a value. `FillCluster`
stands for the two places that point the window at sectors without loading them,
`dir_next` (1509-1530) and `f_mkdir` (4574-4600): both flush first, which is what keeps
a dirty FAT sector from being lost. `Mount` is the end of `find_volume`, which reads
FSInfo through the window; `CheckFs` is the start of `check_fs`, which invalidates it.
A failed `disk_read` may leave anything in `win`; a failed `disk_write` may have
changed its sector or not. `PowerCut` keeps the disk and loses the RAM, at any step.
`sound`, chosen at the start, says that in this behaviour nothing fails and the power
stays: what the code promises only then (`MirrorsAgree`, `FsInfoClean`) is stated for it.
Callers turn to FAT and directory sectors only; that the numbers they compute lie
inside the volume is taken from `clust2sect` and `get_fat`, not proved here.

### FatChains

State: `fat` (an entry that ends a chain is `EOC`, whatever value the code writes),
`sclust` of each file and directory, the two counters, and `call`, the call in
progress with the variables of its loop. The FAT is a store, which is what
`FatWindow` shows of it. `create_chain` is `CreateChain` for a first cluster, and
`StretchChain` then `LinkCluster` or `LinkFails` for a next one; `Finds` says what the
search loop returns (the first free cluster after the hint, wrapping around).
`remove_chain` is `RemoveChain` or `TruncateChain`, then one `FreeCluster` for each
turn. `f_expand` is `Expand` and then one `ExpandLink` for each cluster.
`owner` and `rank` are history variables: whom a cluster was given to and its place
in the chain. No guard reads them except to name a cluster of the object that a call
is made for, which the code has from its file object. `Drop` gives the clusters that a failed
call leaves behind to nobody in particular (`Stray`). `sound`, chosen at the start, says
that no call fails half-way: no FAT access fails, and `f_expand` finds no block that
runs past the end of the FAT (5.5). `NoLostCluster` and `FreeCountExact` are stated for it.

A mount (`Remount`) starts with an unknown free count: that FSInfo may store a wrong one,
which the code then keeps, is left out.

Not in the guards: directories are not truncated or expanded (no function does),
and `f_expand` is called on an empty file, which the code checks.

### FileIO

State: the fields of `FIL` (`wr`, `modified`, `dirty` are bits of `flag`), the data area,
the FAT, and the directory entry `ent` with `entDirty` while the window has it and the
disk does not. `synced` and `io` are history variables: that the last step was an
`f_sync` that succeeded, and the bytes the last step exchanged with the program.
A call is its start (`FRead`, `FWrite`, `FSeek`), then the turns of its loop: a step
that follows or stretches the chain on a cluster boundary (`ReadFollow`,
`WriteFollow`, `SeekFollow`) and one that moves bytes, either whole sectors directly
(`ReadDirect`, `WriteDirect`, up to the end of the cluster) or part of one through
the buffer (`ReadBuffered`, `WriteBuffered`). Each `...Fails` action is the set of
places where that call's disk accesses may fail, with what it has changed by then;
a failure sets `err` (`ABORT`), after which the code refuses everything but `f_sync`
and `f_close`.

Choices worth knowing:

- A new cluster is any free one: `FatChains` decides which, and shows that it is free.
- One file is open and written at a time; two at a time are in `FatVolume`.
- `vol` holds the parameters of the volume, chosen at the start: cluster size, width
  of the pointer, and whether disk accesses fail.
- A file opened with `FA_OPEN_APPEND` may be read in the model (the wrapper opens
  it without `FA_READ`); this adds behaviours.
- Calls that are refused change nothing and are not actions.
- `FSync` may fail and be called again, and `FWrite` may fail behind bytes it has taken;
  both are behaviours, of which nothing is claimed from the first error on (`SyncIsDurable`
  and `ByteFile` are for calls that succeed).
- `File::close` frees the object whatever `f_close` says. When that failed, the file is
  "lost": nothing is promised of its contents until it is created again. It may be
  opened if its entry's size fits its chain; an entry that leads into freed
  clusters (an error between `f_truncate` and `f_sync`) is not.

### DirTable

State: the table as the window shows it (`tbl`), the table on the medium (`disk`), the
dirty sector, the call in progress, and an open `DIR` (`walk`). A long name is a
sequence of segments, each with its order and the checksum of the short name; a short
name is its letters and its number. `dir_find` and `dir_read` are operators that go
through the entries with the states of the code (`ord`, `sum`), so a name is found only
if its parts come in order with the right checksum. Registering is a step for each
entry of the name (last part first) and for the cluster that stretches the table, which
is linked before it is cleared; removing is a step for each entry. One disk error or
power cut may come at any step. Numbered names stop at `MaxNum` (99 in the code).

### FatVolume

State: `now` is the volume as it is read through the window and `disk` the medium, each
a FAT, and for each cluster what it holds: a table, part k of a file, or nothing; `win` is
the sector in which they may differ. A call is a list of changes (`todo`), made by the
action that begins it from what it finds, in the order of the code: an entry, a FAT
entry, `..`, data, or a synchronisation. `Step` makes the next one, which flushes the
dirty sector if it is another one. `Look` is what a call reads before it changes
anything. `PowerCut` leaves `disk`, at any time and as often as it likes.

`saved`, `shrunk` and `hurt` are history: the size at the last `f_sync`, the files that
were truncated and not yet synchronised, and that the power went inside `f_rename` or
with such a file. `f_rename` calls itself a critical section (4707), and `f_truncate` frees
clusters to which the entry on the medium leads until `f_sync`: after a cut there the
model claims nothing and does not go on (`NotHurt`).

What programs may not do, because the code does not look (`_FS_LOCK` 0): remove, rename,
overwrite or open a second time a file that is open, and rename a directory into
itself. Dropping either guard violates `SavedFilesSurvive`: an open file's `f_sync`
writes into the entry that another object has by then, and a directory moved into
itself is reachable no more, with everything below it. What a freed cluster held is
forgotten at once, though the medium keeps it; nothing depends on it. `f_truncate`
may write its dirty buffer to a cluster it has just freed (4429), which is free still.

### ExFatChains

State: bitmap, FAT and `last_clst` (`vol`), the entry of each file and directory
(`ent`: first cluster, size in clusters, contiguous or not), and the object of each open
file with the status of its chain (0: in the FAT; 2: contiguous, no links; 3: contiguous
at first, whose links are still missing). `own` is history: the clusters an object
was given. `GetFat` is the exFAT branch of `get_fat`; `FindBitmap`, `Filled`,
`CreateChain` and `RemoveChain` are the functions of these names. Nobody clears the
links of a freed chain, so the FAT is full of stale ones that a wrong status leads to.

Left out: the root directory's own chain, which is always in the FAT (its `objsize` is
never set by `follow_path`, so `get_fat` answers by what was on the stack); two
new clusters for one entry; an `f_expand` whose block goes around the end of the
volume, where `find_bitmap` (1148) has the same flaw as the FAT search (see 5.5).
`SpecAll` adds `MakeInFull`, `f_mkdir` in a directory whose first cluster is full (5.13).

### DriveRegistry

State: `s_impls`, `s_cards`, `FatFs[]`, the root of each object (mounted, drive, id), `_pdrv`
and `_drv` of each class object, the cards in the slots, and the program's open files with
the card each was opened on. A call is one step; `FindVolume` gives its outcomes,
the mount that fails included. With `Retries` FALSE programs call `end` behind each
`begin`, also one that failed: a program that retries `begin` without `end` uses up the
drives, because a `begin` that fails keeps its drive. A card is not changed while its
object is begun: neither driver can tell, so a file would be served from the other card;
`Seeed_SDMMC.h` 24 asks for `end` first. `Fsid` is a `WORD`; its wrap is beyond `MaxMounts`.

### FileHandles

State: the three pointers of each `File` variable (`_file`, `_dir`, `_fno`) and the heap, whose
addresses are given out again. History: the pointers that lead to freed memory (`stale`), the
`File`s that are copies or were copied (`shared`), the objects that went out of scope with
their last `File` (`lost`), and that freed memory was used or freed again (`misused`), behind
which the model stops, as the code is undefined.

Programs do what they like: no action asks whether a `File` may still be used. So the
sketch `examples/listfiles/listfiles.ino` is a behaviour. Its `printDirectory` gets a
copy of a directory's `File`, on which `openNextFile` allocates a `FILINFO`, and
returns: the destructor does nothing (`Seeed_FS.cpp` 51), the original never hears of
the `FILINFO`, and it is lost (`ScopeEnds`). `listDir` closes nothing and loses the
`DIR` too. A directory variable that is closed behind `openNextFile` and then assigned
or closed again frees its `FILINFO` twice (257): `misused`. Of copies, closing one
leaves the others stale (345).

What holds nevertheless says how far this goes. `StaleByCopy`: a `File` that was never
copied has no stale pointer while it is open, and only `_fno` when it is closed.
`HandlesSafe`: every other pointer leads to a live object of its kind, and every allocated
object has one or is `lost`. A program that copies no `File` except from `open` and
`openNextFile`, closes each one once before it goes out of scope and does not use the
variable again is therefore safe.

### SdInit and SdCard

`SdInit` goes through `sd_disk_initialize` one transaction a step, with every kind of
card: SDHC, SD 2 and SD 1, MMC, an empty slot, a line that stays low. `CardKnown` says
what `card->type` and `card->sectors` are at the end.

`SdCard` has the card's blocks, the one it is programming, whether it is busy, its state
and the counters it reports, and the driver's loop variables. A command, a block
of data or a wait is one step. `Faults` lets commands, answers and programming fail; a slow
card may be busy for longer than the driver waits (`late`). A busy card holds its line
low, which `sdCommand` reads as the answer 0: the model keeps that. A command whose
answer is lost has not been executed (`CommandAgain`); that only its answer was lost is
left out.

The answer to a block has the form xxx0sss1: cards say `0x05`, `0x0B` for a bad checksum
and `0x0D` for a write error. The driver compares with `0x0A` and `0x0C` (328, 332,
416). The model has both, what cards send and what the driver expects, which comes only
of an answer whose last bit is read wrongly (`CrcAnswers`, `ErrorAnswers`). A single
block that is rejected with `0x0B` is none of the driver's cases; it asks for the
status, which is clean, and reports success: the run `write_reported`. In a multiple
write the same answer ends the call with an error. `AcceptedIsWritten` is what is left,
and it is the driver's work: through restarts in the middle of a call each of several
blocks is written, and a single one is if the card accepted it.

### SdMmc

The vendor's HAL calls are external: a transfer succeeds or not and leaves the card
busy. The driver then polls without a limit (403, 420). The card may be pulled out.
`MCCardDrivers` checks this driver and `SdInit` together: a board has one of the two, as
`listfiles.ino` chooses, and the one it does not have takes no step.


## 3. Runs

| run | instance | shows |
|---|---|---|
| `window` | 7 sectors, clusters of 2, 2 FAT copies; disk errors and power cuts, or (`sound`) neither | `WindowCoherent`: a clean window has its sector's contents; `DirtyHasHome`: a dirty one has a sector to go to; `ImplementsSectorStore`; `SyncIsDurable`; without faults `MirrorsAgree`: the second FAT is behind only between two writes; `FsInfoClean`: FSInfo not marked tells the counters |
| `chains` | 4 clusters, root and 2 files; errors and blocks of up to 2, or neither | `NoCrossLink`, `NoDanglingChain`, `OnlyOwnChain`, and `ChainsLinked`, the invariant of the proofs; without faults `NoLostCluster`: each used cluster is met from an object; `FreeCountExact` |
| `exfat` | 3 clusters, a file, two directories | `ChainsReadRight`: following a chain by its status gives the clusters its object was given, and the bitmap has just these |
| `file_data` | 2 clusters of 2 bytes a sector; without errors, or with errors and pointers of 2 bits | `ImplementsByteFile`, as long as calls succeed; `SizeFits`, `BufferHoldsSector`, `ClusterHoldsPointer`, `NothingLeaks`, `WritesStayInFile`, `SyncIsDurable`, `TypeOK` with pointers in their width |
| `dir_table` | a table of 2 to 6 entries, 4 names that collide in letters and checksum | `DirectorySound`: what a listing shows is found under its name, short names are unique, no stale entry shows; `OthersUntouched`; `WalkComplete`: a walk during removals returns each remaining object once |
| `volume_tree` | 2 clusters, tables of 2 entries, 2 files, 2 file objects, up to 2 directories | `AlwaysSound`: wherever the power goes, each object on the medium has a chain of its own, allocated to its end and as long as its size; `SavedFilesSurvive`: a synchronised file stays on the medium whatever else is done |
| `sd_transfers` | 3 blocks, transfers of up to 3 | `ReadReported`: a read has what it reports; `AcceptedIsWritten`: so has a write of several blocks, and of one that was accepted; `OnlyOwnBlocks`; `StaysInBuffer`; `CallsReturn` |
| `write_reported` | the same | violated: of `RES_OK`, "0: Successful" (5.14) |
| `card_drivers` | the SPI driver's initialisation: 6 kinds of slot, 4 CSDs; or SDMMC: 3 blocks, a card that may be pulled | `CardKnown`, `InitializeReturns`; `WriteIsDurable`: a write that succeeds is on the card; `TransfersReturn` if the card stays |
| `registry` | 2 SD objects and SDMMC over 2 drives, 2 cards | `TablesAgree`: no pointer of the three tables leads nowhere; `FilesReachTheirCard`: a file accepted by `validate` is on the card it was opened on; `NewSdCardAllowed`: begin finds a drive |
| `handles` | 3 variables, a heap of 4 | `StaleByCopy`: only through a copy, or a closed directory's `_fno`, is freed memory reached; `HandlesSafe`: all other pointers are right, and only what went out of scope is lost |
| `exfat_mkdir` | 4 clusters | violated: "Object size (valid when sclust != 0)" (5.13) |

### Bounds, and why they are enough

- *Window.* The code tells sectors apart only as: in the window or not, FAT or not,
  boot, FSInfo. One FAT sector and three directory sectors give each pair of cases,
  clusters of two sectors a fill loop with more than one turn; two values tell old
  contents from new, a third two generations of counters. Behaviours with faults have
  an FSInfo sector always. The proofs cover every other geometry.
- *Chains.* With four clusters chains of two objects interleave, the search wraps
  around, a chain is cut in the middle and the disk fills up. `MaxExpand` is 2, the
  shortest block with a link. `WordMod` (2^32) is 32: it only has to be above all counts.
  The proofs cover every other size.
- *exFAT.* Three clusters and objects of up to three (`MaxSize`) are enough for a chain
  that is contiguous for two clusters and goes on behind the wrap (status 3 with
  `n_cont` 1), for one that gets contiguous again when it is cut, and for stale links. A
  file with a status of its own in RAM and two directories, of which each is
  stretched for the other, meet each caller of `create_chain`.
- *FileIO.* `MCVolumes` has two volumes. In one, a cluster has two sectors (an inner sector
  boundary) of two bytes (an inner byte); two clusters are one to leave and one to
  enter, and fill the disk. Its length 4 covers, from each pointer, direct transfers
  of one and two sectors and partial ones on both sides; its offsets are a sector
  boundary, a cluster boundary and a byte inside the second cluster; `offMod` (2^32) is
  16, out of reach. In the other, disk accesses fail and `offMod` is 4: the file's
  limit (3) lies inside its second sector and the offset 9 beyond it. The buffer
  `<<1, 1, 0, 1>>` has equal and different neighbours, so that a sector that is
  shifted, stale or unwritten shows.
- *DirTable.* `SPE` 2, `MinLen` 2, `MaxLen` 6: names lie across a sector boundary, and
  the table is stretched twice, so that a stale sector can lie in its middle. The names:
  two long ones with the same letters (one of two parts), a short name equal to the
  first numbered one, and one with the checksum of the latter. Numbers go to `MaxNum` 2.
  One fault (`torn`) in a behaviour: the table it leaves behind is used on.
- *FatVolume.* Two clusters, one FAT entry a sector (`PerSector` 1: each entry of the FAT
  can be left behind), tables of two entries, files of two clusters, up to two
  directories. Power cuts are not bounded.
- *DriveRegistry.* `MaxMounts` 2: a second mount has another id than the first; cards
  change in between. `VOLUMES` is 2, as configured.
- *FileHandles.* Three variables: a directory, the file `openNextFile` returns, and a
  copy. Four addresses: a directory with its `FILINFO`, the file, and one more, so that what
  was freed is allocated again, for the same kind or another, while a copy still points
  there; the fifth and sixth object that three variables could hold add no new case, and
  the proofs cover any heap.
- *SdCard.* Three blocks: a multiple transfer has a first, an inner and a last one. `Tries`
  is 2 (3 in the code: one more turn of the same loop). A slow card transfers up to
  two blocks (`MaxSlow`).
- *SdInit.* The CSDs are the smallest and largest version 1, one below the largest,
  and a version 2.
- `MaxDirs`, `MaxSize`, `MaxMounts`, `MaxNum`, `MaxCount` and the constraint `NotHurt` are the
  bounds; within them the state spaces are finite and explored completely.

### Fairness

`SdCard` and `SdInit` assume that the driver's code runs (`WF` of `Driver`,
`Identifying`) and that each wait ends: the card gets ready, or the time is over (`WF`
of `CardWorks \/ TimePasses`, `SecondPasses`), which is what the driver's `millis()`
loops do. `SdMmc` has no time-out to rely on: `TransfersReturn` needs that the card
works (`WF` of `MmcWorks`) and is not pulled out, since the loops poll for ever
otherwise. `SdCard.CallsReturn` is for cards that stop rejecting data some day:
`sdWriteSectors` clears its counter of failures for each block that is accepted, also
for those it sends again, so a card that rejects every other block keeps it for ever.
The other specifications state safety only: their calls are sequential code whose loops
end by their own counters.

Deadlock is checked in every run but `card_drivers`, where nothing more can happen
once the card is gone and the driver polls, and `handles`, which stops where freed memory
is used.

## 4. Proofs

All theorems hold for every value of the constants that meets the named assumptions
of the module: any number of sectors, FAT entries, clusters, files, drives, cards and
blocks. Each rests on an inductive invariant, of which the property is a consequence;
this section says what the invariant adds to the property, and why it must.

| property (run) | theorem | inductive invariant |
|---|---|---|
| `WindowCoherent`, `DirtyHasHome`, `SyncIsDurable` (`window`) | `WindowIsCoherent`, `DirtyWindowHasHome`, `SyncDurable` | `IInv` |
| `ImplementsSectorStore` (`window`) | `WindowImplementsStore` | `IInv` |
| `MirrorsAgree`, `FsInfoClean` (`window`) | `CopiesAgree`, `InfoTellsCounters` | `IInv`, `MirrorKnown`, `InfoKnown` |
| types, `ChainsLinked`, `NoCrossLink`, `NoDanglingChain`, `OnlyOwnChain` (`chains`) | `TypeCorrect`, `ChainsStayLinked`, `ChainsNeverCross`, `ChainsNeverDangle`, `OtherChainsUntouched` | `ChainsLinked` |
| `FreeCountExact`, `NoLostCluster` (`chains`) | `CountStaysExact`, `NothingIsLost` | `IInv` and `CountInv`; `IInv`, `Preceded` and `NothingDropped` |
| `TypeOK`, `SizeFits`, `BufferHoldsSector`, `ClusterHoldsPointer`, `SyncIsDurable`, `WritesStayInFile` (`file_data`) | `FileTypes`, `SizeIsBacked`, `BufferIsTrue`, `ClusterIsTrue`, `SyncedIsWritten`, `WritesAreOwn` | `FInv` |
| `ChainsReadRight` (`exfat`) | `ChainsAlwaysReadRight` | `ChainsInv` |
| `NothingLeaks` (`file_data`) | `NothingIsLeaked` | `FInv` and `OwnInv` |
| `ImplementsByteFile` (`file_data`) | `FileIsBytes` | `RInv` |
| `DirectorySound` (`dir_table`) | `DirectoryStaysSound` | `Basic`, `Apart` and `NamesWhole` |
| `OthersUntouched` (`dir_table`) | `OthersAreUntouched` | `Basic` |
| `WalkComplete` (`dir_table`) | `WalkMissesNone` | `Basic` |
| `AlwaysSound` (`volume_tree`) | `VolumeAlwaysSound` | `Inv` |
| `SavedFilesSurvive` (`volume_tree`) | `VolumeKeepsSaved` | `Inv` and `SInv` |
| `HandlesSafe`, `StaleByCopy` (`handles`) | `FilesAreSafe`, `UncopiedFilesAreSafe` | `HandlesInv` |
| `TablesAgree` (`registry`) | `TablesAlwaysAgree` | `RegistryInv` |
| `FilesReachTheirCard`, `NewSdCardAllowed` (`registry`) | `FilesOnTheirCard`, `NewCardAlwaysAllowed` | `FilesInv` |
| `CardKnown` (`card_drivers`) | `CardAlwaysKnown` | `InitInv` |
| `StaysInBuffer`, `ReadReported`, `AcceptedIsWritten`, `OnlyOwnBlocks` (`sd_transfers`) | `BufferNotLeft`, `BlocksAreRead`, `BlocksAreWritten`, `OthersAreKept` | `SdInv` |
| `WriteIsDurable` (`card_drivers`) | `WritesAreDurable` | `MmcInv` |

**Window.** `WindowCoherent` is not inductive: it must be known in addition that the
call in progress agrees with `wflag` (a call that is about to load or to fill has a
clean window; one that writes back, a dirty one; one whose `pc` is "done" has the
sector it asked for) and that a dirty window is in the metadata area. `IInv` conjoins
these; the refinement and the durability of a sync follow from it step by step.
For behaviours without faults, `MirrorKnown` says in which sector the second FAT may be
behind and when, and `InfoKnown` that the counters never look like an empty sector.

**Chains.** That two chains do not meet says nothing about what a step does to them.
`ChainsLinked` says: a cluster is free exactly when nobody owns it (`FreeIsNobodys`), a
link goes to the owner's next position (`LinksStay`), positions differ and only the
last has the end mark (`RanksDiffer`), a chain starts at `sclust` (`HeadsOwned`), and
the clusters in the hands of the running call are apart (`InFlight`). From it the set
an object owns is closed under links and has its first cluster, so `Reach`, the
smallest such set, lies in it, which separates the chains. For the other direction,
that all that is owned is reached, take the cluster of lowest position that is not:
there is one, because a set of naturals that is not empty has a least element (`Least`,
from the library's well-foundedness of the naturals), and the one before it leads to
it. This is how induction is done throughout, since an induction theorem that takes
an operator cannot be used here. `CountInv` counts the clusters that `f_expand` has
linked and not yet given to the file as free, because the code takes them off `free_clst`
at the end; it also knows that the block lies inside the FAT, and that a FAT32 volume is
never all free (its root directory has a cluster). `Preceded` says that each cluster
of a chain but the first is what another one leads to, and `NothingDropped` that
without faults no cluster is left to `Stray`.

**exFAT.** `ChainsReadRight` speaks of what a walk returns, which says nothing about the
links of a chain whose status lets the walk do without them. `ChainsInv` says instead
that each object, with the FAT, *describes* the clusters it was given (`Describes`): it
starts at the first, counts them, and its status is true: with status 2 they follow one
another; with 3 the first `n_cont + 1` do, and the links are in the FAT behind these;
with 0 all links are. Each of `create_chain`, `fill_fat_chain` and `remove_chain` has a
lemma that says what it leaves of a chain that is described (`CreatedIs`, `FilledIs`,
`RemovedIs`), by the cases of the status, and that it changes no link of another chain and
only its own bits (`OneChanges` puts this together for all operations). The step that has
most cases is the one from status 2 to 3: a chain of status 2 has no valid link, so
those of its start must be known to be contiguous until `fill_fat_chain` writes
them. That a walk over a described chain returns it (`WalkIs`) is the induction, on the
length of the walk, again by a least counterexample; it needs that different clusters
are no more than there are (`FewClusters`), as the walk is cut off at `N`.

**Files.** `FInv` has seven parts. `Covered` is `SizeFits` as the chain's own walk tells
it: each cluster the size needs is there. `Pointed` says which cluster `fp->clust` is:
between calls, and before a boundary is crossed, that of the byte *before* the
pointer; once the boundary is crossed, that of the pointer itself. This is the
distinction the code makes by `fptr % SS(fs) == 0` and `csect == 0`, and
`ClusterHoldsPointer` alone loses it inside a call. `BufferKnown` ties the buffer to the
chain: a clean one has its sector's contents, and a dirty one lies in a cluster of the
file's own chain, without which the flush of a later call would write into another file
and `WritesStayInFile` would not follow. `EntryKnown` is what `f_sync` and `f_close` rely on: a
file without `FA_MODIFIED` agrees with its entry. `Calls` bounds what is left by the
size limit; `Types` adds that the chain has no cycle (`Ranked`: links fall in some
rank). The call that the invariant has to make room for is `f_lseek`: in an empty file
opened for writing it allocates the first cluster (4021) before it marks the file as
modified, so that while it runs the entry may be behind `sclust`.
`OwnInv` adds, without disk errors, that the clusters in use are exactly the chain's,
inside calls too.

`FileIsBytes` is the refinement: what the program sees is the chain's sectors with the
dirty buffer laid over them, cut at the size (`Sighted`). A step that only follows or
stretches the chain keeps it, because two chains with the same clusters at the places
the size needs hold the same bytes (`Alike`, `Keeps`); a flush keeps it, because it
moves the buffer's bytes to the sector it was laid over; a read hands over what is
seen; and a write changes the bytes from the pointer on and no other, because two bytes
of the file that lie in one sector of the disk lie in one sector of the file
(`SpotOnce`: the chain does not meet a cluster twice). `RInv` adds to `FInv` where a
seek began (`FromFits`) and that a file with an error has handed over nothing
(`IoKnown`).

**Directories.** Everything here is said through scans: what `dir_read` lists and what
`dir_find` finds are results of a walk over all entries, with a state that each entry
changes. So the first half of `DirTableProofs` is about the scans alone. `ReadLocal`
says that what is known at an entry depends only on the entries behind the last one
that is no part of a name, and `SameListing` that an object keeps its name if these are
unchanged; `ListedNamed` that an entry that bears a name (`Named`: its parts lie
before it, in order, with its checksum) is listed under it, and `NamedOnce` that it bears
one name only; `FindsNamed` that a search for this name stops at the entry if those
before it bear other names and other short names. Again these are inductions by a least
counterexample. Checksums are arbitrary, so two short names may share one: what keeps
names apart is not the checksum but the order of the parts.

The invariant has three parts, which hold for longer the less they say. `Basic` holds
always, with errors and power cuts: the medium differs from the table only in the
dirty sector, an object has one short entry, the entries a registration is about to
write are free, those a removal is about to mark are parts of one name, and a walk has
returned exactly what is behind it. `OthersUntouched` and `WalkComplete` follow from it:
a step changes one entry, or the cluster behind all others, and what leads to another
object lies on one side of it (`PutApart`, `KeptAt`). `Apart` holds until a fault comes
between the link of a cluster and its clearing: end marks are at the end of table and
medium, no stale entry and no short name twice. It speaks of the table with the new
cluster cleared (`Base`), because between link and clearing stale entries are there. It
is what makes a block found by `dir_alloc` lie behind used entries only (`Behind`), so that
an object is visible once it is stored. `NamesWhole` holds until the first fault, and is why
an object is found as it is listed: each part is followed by the next one or by its
short entry (`Linked`), each object bears a name of the programs', and no two the same. Inside
a call this fails for the call's own entries, so it leaves out the parts stored so far
(`Stored`), which it describes instead (`StoredPart`), and the object that is being
removed (`Leaving`). That two objects never get one name is what `dir_find` before
`dir_register` ensures: a name that is not found is borne by no object (`NameNew`).

**Volume.** `AlwaysSound` speaks of the medium between two calls and inside them, where
the volume in RAM, the medium and the open file objects each say something else about a
file. A volume is `Fine` with the file objects over it if each entry, read as its open
object knows it (`Clst`, `Size`), has a chain of its own that ends, holds its size and
contains no table (`FileLaid`, `ChainsApart`); if a directory's table is one cluster, in
use, with the right `..` (`DirLaid`); if only tables that are reached have entries
(`Rooted`), without which a table that is left behind by `f_unlink` or a power cut could
still name clusters; and if an open object and its entry fit (`FilFits`): the entry is
the object's, or names no cluster yet, or is behind in size, unless the file was cut.
`Inv` says that the volume in RAM is `Fine`, that the medium is, with no file open,
outside `f_rename` and while no file is cut, and that they differ in the sector of the
window only (`Agree`), by which a sector that is written at last makes the medium what
the volume already was. For a running call it says that what is left of it (`Safe`) is
at most four changes that lead from one `Fine` volume to the next (in `f_rename` to
volumes of which nothing is claimed until the last one), each made when the medium can
take it (`Legal`: a table's link is freed, and a cluster made a table, only when what
must be on the medium before is), and then only changes that matter to no file and no
directory (`Quiets`): links of clusters that nobody owns are freed, data is written, a
sector is flushed; and that the volume fits the file objects as the call leaves them. So
the proof has one part for each call, which shows that its list of changes is of this
kind (`OpenStarts` to `RenameStarts`), and one for the changes, which no longer asks
which call makes them (`StepInv`). What `Walk` and `Below` compute is known from
recursive functions over the naturals: the chain of a cluster is the one sequence of
different clusters that leads from it to the end mark, and a table is reached if and
only if a path leads to it.

**Saved files.** `Inv` says where the files are, not what is in them. `SInv` says it, for a
volume and a medium that differ in one sector: the clusters of a file hold its parts as far
as its entry tells, or its open object, with one part perhaps still in the object's buffer
(`Parts`, `FilFull`, `EntriesFull`); an entry on the medium and the one in RAM lead to the same
clusters (`DiskFull`, `BothFull`); and a file that is saved has an entry in both with all its
parts, up to the saved size (`SavedIn`). Two things make it inductive. The parts are those of
a prefix of the chain that stays linked while the chain behind it is stretched or cut,
and no cluster of another file lies in it (`PartsInChain`). And for each call the rest of
its changes has a form (`MakeRuns`, `WriteRuns`, `TruncateRuns`, `SyncRuns`, `RenameRuns`, ...)
from which the next change has one of a few kinds (`Kind`: free a cluster of nobody, link a
new one, write a buffer, set an entry, flush), and what is left keeps the form. A change of
each kind keeps what is saved; the one that needs the order of the code is the setting of an
entry, which is flushed before a cluster it named is freed (`Written`, `Flushes`).

**Wrappers.** `HandlesInv` is `HandlesSafe` and `StaleByCopy` with types, and that a `File`
which is no copy and was not copied holds its objects alone (`Alone`): so no other `File`'s
close, assignment or new object can make its pointers stale.

**Drives.** `TablesAgree` needs that an object that may call `end` names the drive it
registered (`NamesDrive`). The other two assume `~Retries`: the program calls `end`
behind each `begin`, also one that failed. Without it both are false, as a `begin` that
is tried again takes a second drive and leaves its first entry behind (5.19). `FilesInv`
adds that `s_cards`, `FatFs[]` and the objects name each other (`Linked`) and that mount
IDs only grow (`FilesKnown`), so that `validate` accepts no file of an earlier mount.

**Cards.** `InitInv` says what the driver knows before each command: a card that does not
answer does not get past CMD0, a high-capacity card does not start before the host has
named that capacity. `SdInv` relates the call's counters to the card's: how many blocks
it has been given, counted and programmed; its last part, that each block that was
accepted is on the card or being programmed unless the card has noted an error
(`WrittenSoFar`), is what makes `AcceptedIsWritten` true although the answer to a block comes
before it is programmed.
`MmcInv` says the same of the SDMMC card's buffer.

### Assumptions

The theorems assume no more than the `ASSUME`s of the modules, each a fact about the
code's types or configuration: sizes of sectors and clusters are not 0, `offMod` (2^32)
is not 0 and above every length, a buffer has the length that is passed with it, `SDMMC`
is the only object of its class, a version 1 CSD's size has 12 bits, and the special
values differ from the ordinary ones. `NameAssumption` is what `create_name` gives
`dir_register`: a short name and flags that are determined by the long name, at most 254
parts (20 in the code), and a short form that loses nothing if the name already is one.
What is claimed only when nothing fails says so itself (`sound`, `~DiskErrors`, `torn`),
and what the slow card of 5.14 breaks is stated without it (`~call.slow`). A theorem's
hypothesis that some instance does not meet, `~Retries`, is a way to use the library and
not a bound. The runs meet all of them.

TLC finds each of these invariants true on the configuration of its run (`FInv`, `OwnInv`,
`FromFits` and `IoKnown` in the 1,043,759 states of `file_data`, `Basic`, `Apart` and
`NamesWhole` in the 789,777 of `dir_table`), with finite ranges where the proof has
`Nat`; `Inv` of `FatVolumeProofs` and `SInv` of `FatVolumeSavedProofs` on that of `volume_tree`
with one directory, or with one file object.

### Only model-checked

- Liveness (`CallsReturn`, `InitializeReturns`, `TransfersReturn`): fairness and `ENABLED` are
  beyond the prover.

Every other property of the passing runs is proved.

## 5. Where code, comments and expectations disagree

The runs `exfat_mkdir` and `write_reported` show items 13 and 14. The others were met
while the code was translated; the models have them, or state their properties around
them, as said in section 2.

FatFs:

1. `sync_window` ignores a failed write of the second FAT (`ff.c` 886), though it says
   "Reflect the change to all FAT copies" (884).
2. `sync_fs` ignores a failed write of FSInfo and clears its dirty flag (949).
3. On an empty FAT12/16 volume `f_getfree` stores a count that is never updated
   again, because it equals `n_fatent - 2` and the code maintains it only below that
   (1266, 1377, 4332).
4. `f_getfree` keeps the partial count of a scan that failed as valid (4385).
5. The search of `f_expand` carries a run of free clusters across the end of the
   FAT (5091); with `opt` the call then fails half-way, without it, it reports success
   for a block that does not exist. On exFAT `find_bitmap` does the same (1148) and
   `change_bitmap` sets bits behind the last cluster.
6. `f_sync` clears `FA_MODIFIED` also when `sync_fs` has failed, so that calling it
   again reports success without writing anything (3727, against 3680).
7. `f_truncate` frees clusters before the entry changes: a power cut before `f_sync`
   leaves an entry over free clusters (4417).
8. `f_rename` does not see that a directory is moved into itself (4638-4730), and it
   ignores the drive of the new name.
9. With `_FS_LOCK` 0 nothing keeps an open file from being removed, renamed or
   opened twice; `f_sync` then writes into an entry that is no longer its own (3720).
10. `dir_next` links a new cluster before it is cleared (1508-1519): an error in between
    leaves a table that ends in stale entries. `dir_alloc` takes end marks for free entries
    and goes on behind them (1565): after the error it may put an object behind one,
    where no scan comes to until the mark itself is used. `OthersUntouched` asks for less
    once that has happened (`torn = "cluster"`).
11. A registration or removal that stops half-way leaves parts of a long name, which a
    short entry with the same checksum may take over later (2307, 2361).
12. When `dir_register` fails in a subdirectory on exFAT, the cluster that `f_mkdir`
    allocated is not given back: `remove_chain` follows it with the parent's status and
    gets an internal error.
13. On exFAT `f_mkdir` allocates with the parent's object (4569) and sets its size to one
    cluster (4570). If the parent is full, `dir_register` stretches it behind its first
    cluster, writes a status and a size that lose the parent's other clusters, and
    `f_mkdir` gives the new directory, which has one cluster, the size of two, so that
    it reads another object's cluster as its own.

Drivers and wrappers:

14. `sdWriteSector` compares the answer to a block with 0x0A and 0x0C (`Seeed_sdcard_hal.cpp`
    328, 332) where cards say 0x0B and 0x0D. With these, and with the 0 of `sdWriteBytes`
    for a card that stays busy (325), it goes on to the status, which tells nothing of a
    rejected block (and reads as 0 on a busy card), and reports success: the block is lost,
    or not retried, and `disk_write` returns `RES_OK`, "0: Successful" (`diskio.h` 22).
    `AcceptedIsWritten` is for writes of several blocks, and single ones that the card
    accepted, on cards that are ready in time; on slower ones a busy card's status hides
    that programming failed. `OnlyOwnBlocks` and `StaysInBuffer` are for cards that are
    ready in time, too.
15. `CTRL_SYNC` succeeds on a card that stays busy (699); `diskio.h` 88 says "Complete
    pending write process".
16. A slow SD 1 card that does not answer ACMD41 in time ends as `CARD_MMC`; a CSD
    that cannot be read gives 0 sectors with success; a version 1 CSD of 4 GiB wraps
    to 0.
17. `SDMMCFS::end` does not give its drive back (`Seeed_SDMMC.cpp` 42), though
    `Seeed_SDMMC.h` 24 says it "will allow you to insert and initialise a new card": the
    third `begin` finds no drive. `DriveRegistry.NewCardAllowed` states it; TLC finds it
    violated in an instance with SDMMC and three mounts.
18. `SDMMCFS` has a `_pdrv` of its own beside that of `FS` (`Seeed_SDMMC.h` 15), so its paths
    go to drive 0. When `MX_SDMMC1_SD_Init` fails, `begin` has changed `_pdrv` and not `_drv`.
19. `begin` twice without `end` keeps both drives; a `begin` that fails keeps its drive.
20. `sdcard_mount` registers a `FATFS` on its stack (`Seeed_sdcard_hal.cpp` 803), which
    `FatFs[]` names when it has returned. The library does not call it.
21. `File::close` clears `_file` twice and `_fno` never (`Seeed_FS.cpp` 257), ignores
    what `f_close` says, and copies share their objects. `File::seek` returns the code of
    `f_lseek`, in which success is 0.
22. `FS::rmdir` calls itself, which overwrites the static `_path` it goes on with (552), and
    removes a file when the path names one. `FS::mkdir` makes the last level only.

## 6. What is not modelled, and the plan

Left for later, in order of importance:

1. Disk errors in `FatVolume`: what a failed call leaves behind in entry and chain, and
   what `f_sync` writes after an error (4437, 3727, 3600).
2. FAT12 entries that lie in two sectors, read and written in two steps (1006, 1083).
3. exFAT's entry blocks (`store_xdir`) and power cuts; its root directory.
4. Mounting a volume whose FSInfo stores a wrong free count (1377, 3126).
5. The pure parts, checked against reference definitions: `pattern_matching`, the FAT12
   packing, `pick_lfn`.

Left out for good: `f_mkfs` and `f_fdisk` (arithmetic on geometry, not called), the
string functions (formatting), code pages and CRC tables (data), the parsing of boot
sectors and partition tables, `f_forward` and fast seek (not used by the library), the
path strings of `FS`, and the examples.
