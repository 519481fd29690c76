-------------------------------- MODULE FileIO --------------------------------
(***************************************************************************)
(* Reading and writing one file (fatfs/ff.c): f_open, f_read, f_write,     *)
(* f_lseek, f_truncate, f_sync and f_close on a file object with its       *)
(* private sector buffer, over the sectors of the data area, the FAT and   *)
(* the file's directory entry.  One turn of a loop is a step or two.       *)
(*                                                                         *)
(* The FAT is a store (FatWindow), a new cluster is any free one           *)
(* (FatChains), and no other file is written while this one is open.       *)
(***************************************************************************)
EXTENDS Integers, Sequences, FiniteSets

CONSTANTS
    Byte, Zero,     \* the values of a byte, and 0
    SS,             \* bytes in a sector
    N,              \* fs->n_fatent: clusters are 2 .. N - 1
    Buffers,        \* the buffers programs write from
    Volumes         \* the volumes, and what programs ask of each of them

Clusters == 2 .. N - 1
EOC == N                            \* stands for every entry value >= n_fatent
Sector == [1 .. SS -> Byte]

ASSUME SizeAssumption ==
    /\ SS \in Nat \ {0} /\ N \in Nat /\ N >= 3
    /\ \A v \in Volumes :
          /\ v.csize \in Nat \ {0} /\ v.offMod \in Nat \ {0} /\ v.faulty \in BOOLEAN
          /\ v.offsets \subseteq Nat
          /\ \A n \in v.lengths : n \in 1 .. v.offMod - 1 /\ \A b \in Buffers : n <= Len(b)
ASSUME ByteAssumption == Zero \in Byte /\ (\A b \in Buffers : b \in Seq(Byte))

VARIABLES
    vol,        \* the volume, the same in all of a behaviour
    data,       \* [Sectors -> Sector]: the data area of the disk
    fat,        \* the FAT: 0 free, a cluster, or EOC
    ent,        \* the file's directory entry: its size and its first cluster
    entDirty,   \* the window holds it and has not written it to the disk
    sclust,     \* fp->obj.sclust
    objsize,    \* fp->obj.objsize
    fptr,       \* fp->fptr
    clust,      \* fp->clust
    sect,       \* fp->sect
    buf,        \* fp->buf
    wr,         \* FA_WRITE in fp->flag
    modified,   \* FA_MODIFIED
    dirty,      \* FA_DIRTY
    err,        \* fp->err
    pc,         \* where the running call is; "open" between calls
    call,       \* its buffer, the bytes done, the bytes left, and a seek's offset
    synced,     \* history: the last step was an f_sync that reported success
    io          \* history: the bytes the last step passed to or from the program

disk == <<data, fat>>
dir == <<ent, entDirty>>
obj == <<sclust, objsize>>
cache == <<clust, sect, buf>>
flag == <<wr, modified, dirty>>
vars == <<vol, disk, dir, obj, fptr, cache, flag, err, pc, call, synced, io>>

CSize == vol.csize                  \* fs->csize: sectors in a cluster
OffMod == vol.offMod                \* 2^32: sizes and pointers are DWORDs on FAT volumes
Lengths == vol.lengths              \* the numbers of bytes read and written at a time
Offsets == vol.offsets              \* the places programs seek to
DiskErrors == vol.faulty            \* disk accesses may fail
bcs == CSize * SS                   \* bytes in a cluster
Sectors == 1 .. (N - 2) * CSize     \* the data area; 0 is no sector

NoBytes == [i \in 1 .. SS |-> Zero]
NoCall == [buf |-> <<>>, done |-> 0, left |-> 0, from |-> 0]

Init ==
    /\ vol \in Volumes
    /\ data = [s \in Sectors |-> NoBytes]
    /\ fat = [c \in Clusters |-> 0]
    /\ ent = [size |-> 0, first |-> 0] /\ entDirty = FALSE
    /\ sclust = 0 /\ objsize = 0 /\ fptr = 0
    /\ clust = 0 /\ sect = 0 /\ buf = NoBytes
    /\ wr = FALSE /\ modified = FALSE /\ dirty = FALSE /\ err = "OK" /\ pc = "closed" /\ call = NoCall
    /\ synced = FALSE /\ io = <<>>

-----------------------------------------------------------------------------
(* The FAT and the sector buffer *)

\* get_fat of a cluster number: 1 when there is no such cluster.
GetFat(c) == IF c \in Clusters THEN fat[c] ELSE 1

\* clust2sect: the first sector of a cluster.
Clust2Sect(c) == (c - 2) * CSize + 1

\* The chain that starts at cluster h.
Chain(h) == LET nth[i \in 0 .. N] == IF i = 0 THEN h ELSE GetFat(nth[i - 1]) IN nth
ChainSet(h) == {Chain(h)[i] : i \in 0 .. N} \cap Clusters
FreeSet == {c \in Clusters : fat[c] = 0}

\* Mutant: the new cluster is not linked to the chain.
LinkedNot(p, c) == [fat EXCEPT ![c] = EOC]

\* The cluster c is marked as the end, and linked to p.
Linked(p, c) ==
    IF p = 0 THEN [fat EXCEPT ![c] = EOC] ELSE [fat EXCEPT ![c] = EOC, ![p] = c]

\* create_chain of the cluster p (0 for a new chain): c is what it returns.
CreateChain(p, c) ==
    \/ p # 0 /\ GetFat(p) \in Clusters /\ c = GetFat(p) /\ UNCHANGED fat
    \/ p # 0 /\ GetFat(p) < 2 /\ c = 1 /\ UNCHANGED fat
    \/ /\ p = 0 \/ GetFat(p) = EOC
       /\ \/ FreeSet = {} /\ c = 0 /\ UNCHANGED fat
          \/ /\ c \in FreeSet
             /\ fat' = Linked(p, c)

\* create_chain fails: the new cluster may be left marked but unlinked.
CreateChainFails(p) ==
    /\ DiskErrors
    /\ \/ UNCHANGED fat
       \/ /\ p # 0 /\ GetFat(p) = EOC
          /\ \E c \in FreeSet : fat' = [fat EXCEPT ![c] = EOC]

\* Mutant: the last cluster of the chain is not freed.
RemovedButLast(c, p) ==
    [d \in Clusters |-> IF d \in ChainSet(c) /\ fat[d] # EOC THEN 0
                        ELSE IF d = p THEN EOC ELSE fat[d]]

\* remove_chain from cluster c on; p is marked as the end of what stays.
Removed(c, p) ==
    [d \in Clusters |-> IF d \in ChainSet(c) THEN 0 ELSE IF d = p THEN EOC ELSE fat[d]]

\* remove_chain fails after k clusters.
RemovedPart(c, p, k) ==
    [d \in Clusters |-> IF d \in {Chain(c)[i] : i \in 0 .. k - 1} THEN 0
                        ELSE IF d = p THEN EOC ELSE fat[d]]

\* Write the buffer back: the data area after it.
Flushed == IF dirty THEN [data EXCEPT ![sect] = buf] ELSE data

\* ABORT(fs, res)
Abort(res) ==
    err' = res /\ pc' = "open" /\ call' = NoCall /\ synced' = FALSE /\ io' = <<>>
-----------------------------------------------------------------------------
(* f_open and f_close *)

\* An object without a cluster, nor a sector in its buffer.
Cleared ==
    /\ sclust' = 0 /\ objsize' = 0 /\ fptr' = 0
    /\ clust' = 0 /\ sect' = 0 /\ buf' = NoBytes

Opened(w, m) ==
    /\ wr' = w /\ modified' = m /\ dirty' = FALSE
    /\ err' = "OK" /\ synced' = FALSE /\ pc' = "open" /\ call' = NoCall /\ io' = <<>>

\* FA_CREATE_ALWAYS: the entry is reset and the old chain removed.
OpenCreate ==
    /\ pc \in {"closed", "lost"}
    /\ ent' = [size |-> 0, first |-> 0]
    /\ fat' = Removed(ent.first, 0)
    /\ Cleared
    /\ Opened(TRUE, TRUE)
    /\ entDirty' = TRUE /\ UNCHANGED data

\* An entry that is as it was written last; one that leads to clusters that a
\* file whose closing failed has freed is only created anew here.
Fits(size, h) == size <= bcs * Cardinality(ChainSet(h))
Openable == pc = "closed" \/ (pc = "lost" /\ Fits(ent.size, ent.first))

\* FA_READ, with or without FA_WRITE: the file is opened at its start.  clust is
\* not initialised.
OpenExisting(w) ==
    /\ Openable
    /\ sclust' = ent.first /\ objsize' = ent.size /\ fptr' = 0
    /\ clust' = 0 /\ sect' = 0 /\ buf' = NoBytes
    /\ Opened(w, FALSE)
    /\ UNCHANGED <<disk, dir>>

\* FA_OPEN_APPEND: at its end, with the last sector in the buffer if it is
\* not full.
OpenAppend ==
    /\ Openable
    /\ sclust' = ent.first /\ objsize' = ent.size /\ fptr' = ent.size
    /\ IF ent.size = 0
       THEN clust' = 0 /\ sect' = 0 /\ buf' = NoBytes
       ELSE LET last == (ent.size - 1) \div bcs
                ofs == ent.size - last * bcs
                s == Clust2Sect(Chain(ent.first)[last]) + ofs \div SS
            IN  /\ clust' = Chain(ent.first)[last]
                /\ IF ofs % SS = 0 THEN sect' = 0 /\ buf' = NoBytes
                                   ELSE sect' = s /\ buf' = data[s]
    /\ Opened(TRUE, FALSE)
    /\ UNCHANGED <<disk, dir>>

\* Opening fails; an old chain may have been removed in part by then, and the
\* entry that led to it is reset.
OpenFails ==
    /\ DiskErrors /\ pc \in {"closed", "lost"}
    /\ \/ UNCHANGED <<fat, dir, pc>>
       \/ /\ ent' = [size |-> 0, first |-> 0] /\ entDirty' \in BOOLEAN /\ pc' = "lost"
          /\ \E k \in 0 .. N - 2 : fat' = RemovedPart(ent.first, 0, k)
    /\ synced' = FALSE /\ io' = <<>>
    /\ UNCHANGED <<data, obj, fptr, cache, flag, err, call>>

\* f_sync: the buffer, the directory entry and the window reach the disk.
\* done tells whether it succeeds; m and d are the flags it leaves.
Sync(done, m, d) ==
    /\ synced' = done
    /\ \/ /\ done /\ ~modified /\ m = modified /\ d = dirty
          /\ UNCHANGED <<data, dir>>
       \/ /\ done /\ modified /\ ~m /\ ~d
          /\ data' = Flushed
          /\ ent' = [size |-> objsize, first |-> sclust] /\ entDirty' = FALSE
       \/ /\ ~done /\ DiskErrors /\ modified /\ m     \* writing the buffer fails
          /\ dirty /\ d /\ data' \in {data, Flushed}
          /\ UNCHANGED dir
       \/ /\ ~done /\ DiskErrors /\ modified /\ m     \* move_window fails
          /\ ~d /\ data' = Flushed
          /\ UNCHANGED dir
       \/ /\ ~done /\ DiskErrors /\ modified /\ ~m    \* sync_fs fails
          /\ ~d /\ data' = Flushed
          /\ ent' = [size |-> objsize, first |-> sclust] /\ entDirty' \in BOOLEAN

\* f_sync, called by File::flush.
FSync ==
    /\ pc = "open"
    /\ \E done, m, d \in BOOLEAN :
          Sync(done, m, d) /\ modified' = m /\ dirty' = d /\ UNCHANGED wr
    /\ io' = <<>>
    /\ UNCHANGED <<fat, obj, fptr, cache, err, pc, call>>

\* f_close, called by File::close, which frees the file object in any case.
FClose ==
    /\ pc = "open"
    /\ \E done, m, d \in BOOLEAN :
          Sync(done, m, d) /\ pc' = IF done /\ err = "OK" THEN "closed" ELSE "lost"
    /\ Cleared /\ wr' = FALSE /\ modified' = FALSE /\ dirty' = FALSE
    /\ err' = "OK" /\ io' = <<>>
    /\ UNCHANGED <<fat, call>>

\* The window that holds the entry is written back by whatever uses it next.
WindowMoves ==
    /\ pc \in {"closed", "lost", "open"} /\ entDirty /\ entDirty' = FALSE
    /\ synced' = FALSE /\ io' = <<>>
    /\ UNCHANGED <<disk, ent, obj, fptr, cache, flag, err, pc, call>>
-----------------------------------------------------------------------------
(* What f_read and f_write share *)

OnSector == fptr % SS = 0
csect == (fptr \div SS) % CSize
OnCluster == OnSector /\ csect = 0
MinOf(a, b) == IF a < b THEN a ELSE b

\* Mutant: the sector's offset in its cluster is not added.
HereFirst == IF OnSector THEN Clust2Sect(clust) ELSE sect

\* The sector the pointer is in, once the cluster has been followed.
Here == IF OnSector THEN Clust2Sect(clust) + csect ELSE sect

\* Mutant: the transfer is not clipped at the cluster's end.
ccNoClip == IF OnSector THEN call.left \div SS ELSE 0

\* Whole sectors that can be transferred directly, up to the cluster's end.
cc == IF OnSector THEN MinOf(call.left \div SS, CSize - csect) ELSE 0

\* Bytes that a turn transfers through the buffer.
Part == MinOf(SS - (fptr % SS), call.left)

\* The bytes i + 1 .. i + k of the call's buffer.
Slice(i, k) == [j \in 1 .. k |-> call.buf[call.done + i + j]]

\* A turn ends: k bytes are done.
Advance(k, p) ==
    /\ fptr' = fptr + k
    /\ call' = [call EXCEPT !.done = @ + k, !.left = @ - k]
    /\ pc' = p /\ UNCHANGED <<err, synced>>

\* The loop's next turn starts in a cluster that is known.
InCluster(loop, body) == call.left > 0 /\ (pc = body \/ (pc = loop /\ ~OnCluster))

LoopEnds(loop) == pc = loop /\ call.left = 0
-----------------------------------------------------------------------------
(* f_read *)

FRead(n) ==
    /\ pc = "open" /\ err = "OK"
    /\ call' = [NoCall EXCEPT !.left = MinOf(n, objsize - fptr)]
    /\ pc' = "read" /\ synced' = FALSE /\ io' = <<>>
    /\ UNCHANGED <<disk, dir, obj, fptr, cache, flag, err>>

\* On a cluster boundary the chain is followed.
ReadFollow ==
    /\ pc = "read" /\ call.left > 0 /\ OnCluster
    /\ LET c == IF fptr = 0 THEN sclust ELSE GetFat(clust) IN
       IF c \in Clusters
       THEN clust' = c /\ pc' = "get" /\ io' = <<>> /\ UNCHANGED <<err, synced, call>>
       ELSE Abort("INT_ERR") /\ UNCHANGED clust
    /\ UNCHANGED <<disk, dir, obj, fptr, sect, buf, flag>>

\* Mutant: a sector that is dirty in the buffer is read from the disk.
ReadDirectStale ==
    /\ InCluster("read", "get") /\ cc > 0
    /\ io' = [j \in 1 .. cc * SS |-> data[Here + (j - 1) \div SS][((j - 1) % SS) + 1]]
    /\ Advance(cc * SS, "read")
    /\ UNCHANGED <<disk, dir, obj, cache, flag>>

\* Whole sectors go to the program directly; the one that is dirty in the
\* buffer comes from there.
ReadDirect ==
    /\ InCluster("read", "get") /\ cc > 0
    /\ LET at(s) == IF dirty /\ s = sect THEN buf ELSE data[s] IN
       io' = [j \in 1 .. cc * SS |-> at(Here + (j - 1) \div SS)[((j - 1) % SS) + 1]]
    /\ Advance(cc * SS, "read")
    /\ UNCHANGED <<disk, dir, obj, cache, flag>>

\* Part of a sector goes through the buffer, which is loaded if need be.
ReadBuffered ==
    /\ InCluster("read", "get") /\ cc = 0
    /\ sect' = Here
    /\ IF Here = sect
       THEN UNCHANGED <<data, buf, flag>>
       ELSE /\ data' = Flushed
            /\ buf' = data'[Here]
            /\ dirty' = FALSE /\ UNCHANGED <<wr, modified>>
    /\ io' = SubSeq(buf', (fptr % SS) + 1, (fptr % SS) + Part)
    /\ Advance(Part, "read")
    /\ UNCHANGED <<fat, dir, obj, clust>>

\* A disk access of f_read fails: following the chain, reading directly,
\* writing the buffer back or loading it.
ReadFails ==
    /\ DiskErrors /\ Abort("DISK_ERR")
    /\ \/ /\ \/ pc = "read" /\ call.left > 0 /\ OnCluster
             \/ InCluster("read", "get") /\ cc > 0
          /\ UNCHANGED <<data, buf, flag>>
       \/ /\ InCluster("read", "get") /\ cc = 0 /\ Here # sect
          /\ \/ dirty /\ data' \in {data, Flushed} /\ UNCHANGED <<buf, flag>>
             \/ /\ data' = Flushed /\ buf' \in {buf, NoBytes}
                /\ dirty' = FALSE /\ UNCHANGED <<wr, modified>>
    /\ UNCHANGED <<fat, dir, obj, fptr, clust, sect>>

ReadEnds ==
    /\ LoopEnds("read")
    /\ pc' = "open" /\ call' = NoCall /\ synced' = FALSE /\ io' = <<>>
    /\ UNCHANGED <<disk, dir, obj, fptr, cache, flag, err>>
-----------------------------------------------------------------------------
(* f_write *)

\* Mutant: a file may be written past the largest size.
FWriteNoLimit(b, n) ==
    /\ pc = "open" /\ err = "OK" /\ wr
    /\ call' = [buf |-> b, done |-> 0, left |-> n, from |-> 0]
    /\ pc' = "write" /\ synced' = FALSE /\ io' = <<>>
    /\ UNCHANGED <<disk, dir, obj, fptr, cache, flag, err>>

\* A write that would take the pointer past 2^32 - 1 is cut short.
FWrite(b, n) ==
    /\ pc = "open" /\ err = "OK" /\ wr
    /\ call' = [buf |-> b, done |-> 0, from |-> 0,
                left |-> IF (fptr + n) % OffMod < fptr THEN OffMod - 1 - fptr ELSE n]
    /\ pc' = "write" /\ synced' = FALSE /\ io' = <<>>
    /\ UNCHANGED <<disk, dir, obj, fptr, cache, flag, err>>

\* On a cluster boundary the chain is followed, or stretched at its end.  On a
\* full disk the loop ends early.
WriteFollow ==
    /\ pc = "write" /\ call.left > 0 /\ OnCluster
    /\ \E c \in 0 .. N - 1 :
          /\ IF fptr = 0 /\ sclust # 0 THEN c = sclust /\ UNCHANGED fat
             ELSE CreateChain(IF fptr = 0 THEN 0 ELSE clust, c)
          /\ \/ /\ c \in Clusters
                /\ clust' = c /\ sclust' = IF sclust = 0 THEN c ELSE sclust
                /\ pc' = "put" /\ io' = <<>>
                /\ UNCHANGED <<call, err, synced>>
             \/ /\ c = 0
                /\ call' = [call EXCEPT !.left = 0] /\ io' = <<>>
                /\ UNCHANGED <<sclust, clust, pc, err, synced>>
             \/ c = 1 /\ Abort("INT_ERR") /\ UNCHANGED <<sclust, clust>>
    /\ UNCHANGED <<data, dir, objsize, fptr, sect, buf, flag>>

\* The file grows to the pointer.
Grown == IF fptr' > objsize THEN fptr' ELSE objsize

\* Mutant: the buffer is not refilled when its sector is written directly.
WriteDirectNoRefill ==
    /\ InCluster("write", "put") /\ cc > 0
    /\ io' = Slice(0, cc * SS)
    /\ data' = [s \in Sectors |-> IF s \in Here .. Here + cc - 1
                                  THEN Slice((s - Here) * SS, SS) ELSE Flushed[s]]
    /\ dirty' = FALSE /\ UNCHANGED <<wr, modified>>
    /\ Advance(cc * SS, "write")
    /\ objsize' = Grown
    /\ UNCHANGED <<fat, dir, sclust, cache>>

\* Whole sectors go to the disk directly, after the buffer; the buffer gets
\* its sector's new contents.
WriteDirect ==
    /\ InCluster("write", "put") /\ cc > 0
    /\ io' = Slice(0, cc * SS)
    /\ data' = [s \in Sectors |-> IF s \in Here .. Here + cc - 1
                                  THEN Slice((s - Here) * SS, SS) ELSE Flushed[s]]
    /\ buf' = IF sect \in Here .. Here + cc - 1 THEN Slice((sect - Here) * SS, SS) ELSE buf
    /\ dirty' = FALSE /\ UNCHANGED <<wr, modified>>
    /\ Advance(cc * SS, "write")
    /\ objsize' = Grown
    /\ UNCHANGED <<fat, dir, sclust, clust, sect>>

\* The buffer of the sector the turn writes to: at the growing edge it is not
\* loaded.
Loaded == IF OnSector /\ Here # sect /\ fptr < objsize THEN data'[Here] ELSE buf

\* Part of a sector goes into the buffer.
WriteBuffered ==
    /\ InCluster("write", "put") /\ cc = 0
    /\ sect' = Here
    /\ data' = IF OnSector THEN Flushed ELSE data
    /\ io' = Slice(0, Part)
    /\ buf' = [i \in 1 .. SS |-> IF i \in (fptr % SS) + 1 .. (fptr % SS) + Part
                                 THEN io'[i - (fptr % SS)] ELSE Loaded[i]]
    /\ dirty' = TRUE /\ UNCHANGED <<wr, modified>>
    /\ Advance(Part, "write")
    /\ objsize' = Grown
    /\ UNCHANGED <<fat, dir, sclust, clust>>

\* A disk access of f_write fails: allocating a cluster, writing the buffer
\* back, writing directly, or loading the buffer.
WriteFails ==
    /\ DiskErrors /\ Abort("DISK_ERR")
    /\ \/ /\ pc = "write" /\ call.left > 0 /\ OnCluster
          /\ CreateChainFails(IF fptr = 0 THEN 0 ELSE clust)
          /\ fptr = 0 => sclust = 0
          /\ UNCHANGED <<data, buf, flag>>
       \/ /\ InCluster("write", "put") /\ OnSector
          /\ \/ dirty /\ data' \in {data, Flushed} /\ UNCHANGED <<buf, flag>>
             \/ /\ cc > 0 \/ (Here # sect /\ fptr < objsize)
                /\ data' = Flushed /\ buf' \in {buf, NoBytes}
                /\ dirty' = FALSE /\ UNCHANGED <<wr, modified>>
          /\ UNCHANGED fat
    /\ UNCHANGED <<dir, obj, fptr, clust, sect>>

\* Mutant: the file is not marked as changed.
WriteEndsUnmarked ==
    /\ LoopEnds("write")
    /\ pc' = "open" /\ call' = NoCall /\ synced' = FALSE /\ io' = <<>>
    /\ UNCHANGED <<disk, dir, obj, fptr, cache, flag, err>>

WriteEnds ==
    /\ LoopEnds("write")
    /\ modified' = TRUE /\ UNCHANGED <<wr, dirty>>
    /\ pc' = "open" /\ call' = NoCall /\ synced' = FALSE /\ io' = <<>>
    /\ UNCHANGED <<disk, dir, obj, fptr, cache, err>>
-----------------------------------------------------------------------------
(* f_lseek *)

\* Mutant: the pointer's own cluster is taken for the one that follows it.
SeekHere(from, ofs) == from > 0 /\ ofs \div bcs >= from \div bcs

\* A seek forward starts from the current cluster: the one of the last byte
\* before the pointer, whose bytes come first.
StartsHere(from, ofs) == from > 0 /\ (ofs - 1) \div bcs >= (from - 1) \div bcs

\* The target is clipped to the size limit, and to the size of a file that is
\* only read.  call.left is what remains to be moved.
FSeek(to) ==
    /\ pc = "open" /\ err = "OK"
    /\ LET lim == IF to >= OffMod THEN OffMod - 1 ELSE to
           ofs == IF lim > objsize /\ ~wr THEN objsize ELSE lim
           base == ((fptr - 1) \div bcs) * bcs
       IN  \/ /\ ofs = 0 /\ fptr' = 0
              /\ call' = [NoCall EXCEPT !.from = fptr]
              /\ UNCHANGED <<fat, sclust, clust>>
           \/ /\ ofs > 0 /\ StartsHere(fptr, ofs) /\ fptr' = base
              /\ call' = [NoCall EXCEPT !.from = fptr, !.left = ofs - base]
              /\ UNCHANGED <<fat, sclust, clust>>
           \/ /\ ofs > 0 /\ ~StartsHere(fptr, ofs) /\ fptr' = 0
              /\ \E c \in 0 .. N - 1 :
                    /\ IF sclust # 0 THEN c = sclust /\ UNCHANGED fat
                       ELSE CreateChain(0, c)
                    /\ sclust' = c /\ clust' = c
                    /\ call' = [NoCall EXCEPT !.from = fptr,
                                              !.left = IF c = 0 THEN 0 ELSE ofs]
    /\ pc' = "seek" /\ synced' = FALSE /\ io' = <<>>
    /\ UNCHANGED <<data, dir, objsize, sect, buf, flag, err>>

\* One turn of the loop: on to the next cluster, which is allocated in a file
\* that is written; on a full disk the pointer stays at the end of the last.
SeekFollow ==
    /\ pc = "seek" /\ call.left > bcs
    /\ fptr' = fptr + bcs
    /\ IF wr /\ fptr' > objsize
       THEN objsize' = fptr' /\ modified' = TRUE /\ UNCHANGED <<wr, dirty>>
       ELSE UNCHANGED <<objsize, flag>>
    /\ \E c \in 0 .. N :
          /\ IF wr THEN CreateChain(clust, c) ELSE c = GetFat(clust) /\ UNCHANGED fat
          /\ \/ /\ c \in Clusters /\ clust' = c
                /\ call' = [call EXCEPT !.left = @ - bcs]
                /\ io' = <<>> /\ UNCHANGED <<err, pc, synced>>
             \/ /\ c = 0 /\ wr
                /\ call' = [call EXCEPT !.left = 0]
                /\ io' = <<>> /\ UNCHANGED <<clust, err, pc, synced>>
             \/ /\ c \in {1, EOC} \/ (c = 0 /\ ~wr)
                /\ Abort("INT_ERR") /\ UNCHANGED clust
    /\ UNCHANGED <<data, dir, sclust, sect, buf>>

\* The pointer is there; inside a sector, the sector is loaded.
SeekEnds ==
    /\ pc = "seek" /\ call.left <= bcs
    /\ fptr' = fptr + call.left /\ objsize' = Grown
    /\ modified' = (modified \/ fptr' > objsize)
    /\ LET nsect == Clust2Sect(clust) + call.left \div SS IN
       IF fptr' % SS # 0 /\ nsect # sect
       THEN data' = Flushed /\ buf' = data'[nsect] /\ sect' = nsect /\ dirty' = FALSE
       ELSE UNCHANGED <<data, buf, sect, dirty>>
    /\ pc' = "open" /\ call' = NoCall /\ synced' = FALSE /\ io' = <<>>
    /\ UNCHANGED <<fat, dir, sclust, clust, wr, err>>

\* A disk access of f_lseek fails: allocating the first cluster, or following
\* or stretching the chain, or writing the buffer back or loading it.
SeekFails ==
    /\ DiskErrors /\ Abort("DISK_ERR")
    /\ \/ /\ pc = "open" /\ err = "OK" /\ wr /\ sclust = 0 /\ fptr = 0
          /\ CreateChainFails(0)
          /\ UNCHANGED <<data, objsize, fptr, buf, flag>>
       \/ /\ pc = "seek" /\ call.left > bcs
          /\ fptr' = fptr + bcs
          /\ IF wr THEN CreateChainFails(clust) ELSE UNCHANGED fat
          /\ IF wr /\ fptr' > objsize
             THEN objsize' = fptr' /\ modified' = TRUE /\ UNCHANGED <<wr, dirty>>
             ELSE UNCHANGED <<objsize, flag>>
          /\ UNCHANGED <<data, buf>>
       \/ /\ pc = "seek" /\ call.left <= bcs
          /\ fptr' = fptr + call.left /\ objsize' = Grown
          /\ modified' = (modified \/ fptr' > objsize) /\ UNCHANGED wr
          /\ fptr' % SS # 0 /\ Clust2Sect(clust) + call.left \div SS # sect
          /\ \/ /\ dirty /\ data' \in {data, Flushed} /\ UNCHANGED buf
                /\ UNCHANGED dirty
             \/ /\ data' = Flushed /\ buf' \in {buf, NoBytes}
                /\ dirty' = FALSE
          /\ UNCHANGED fat
    /\ UNCHANGED <<dir, sclust, clust, sect>>
-----------------------------------------------------------------------------
(* f_truncate *)

FTruncate ==
    /\ pc = "open" /\ err = "OK" /\ wr
    /\ IF objsize <= fptr
       THEN UNCHANGED <<disk, obj, flag>>
       ELSE /\ IF fptr = 0
               THEN fat' = Removed(sclust, 0) /\ sclust' = 0
               ELSE /\ fat' = IF GetFat(clust) \in Clusters
                              THEN Removed(GetFat(clust), clust) ELSE fat
                    /\ UNCHANGED sclust
            /\ objsize' = fptr
            /\ data' = Flushed
            /\ modified' = TRUE /\ dirty' = FALSE /\ UNCHANGED wr
    /\ synced' = FALSE /\ io' = <<>>
    /\ UNCHANGED <<dir, fptr, cache, err, pc, call>>

\* Removing the chain fails at one of its entries, or the write of the buffer
\* does.  The file has its new size then, and its buffer may still be dirty.
TruncateFails ==
    /\ DiskErrors /\ pc = "open" /\ err = "OK" /\ wr /\ objsize > fptr
    /\ \/ /\ \E k \in 0 .. N - 2 :
                IF fptr = 0 THEN fat' = RemovedPart(sclust, 0, k)
                ELSE \/ GetFat(clust) \in Clusters /\ fat' = RemovedPart(GetFat(clust), clust, k)
                     \/ UNCHANGED fat
          /\ modified' = TRUE /\ UNCHANGED <<wr, dirty>> /\ UNCHANGED data
       \/ /\ IF fptr = 0 THEN fat' = Removed(sclust, 0)
             ELSE fat' = IF GetFat(clust) \in Clusters
                         THEN Removed(GetFat(clust), clust) ELSE fat
          /\ dirty /\ data' \in {data, Flushed}
          /\ modified' = TRUE /\ UNCHANGED <<wr, dirty>>
    /\ sclust' = IF fptr = 0 THEN 0 ELSE sclust
    /\ objsize' = fptr
    /\ Abort("DISK_ERR")
    /\ UNCHANGED <<dir, fptr, cache>>
-----------------------------------------------------------------------------
\* A call that is refused changes nothing: after an error, or to write in a file
\* opened to read.

OpenFile == OpenCreate \/ OpenAppend \/ OpenFails \/ \E w \in BOOLEAN : OpenExisting(w)
Read == (\E n \in Lengths : FRead(n)) \/ ReadFollow \/ ReadDirect
        \/ ReadBuffered \/ ReadFails \/ ReadEnds
Write == (\E b \in Buffers, n \in Lengths : FWrite(b, n)) \/ WriteFollow
         \/ WriteDirect \/ WriteBuffered \/ WriteFails \/ WriteEnds
Seek == (\E to \in Offsets : FSeek(to)) \/ SeekFollow \/ SeekEnds \/ SeekFails
Truncate == FTruncate \/ TruncateFails

Next == /\ \/ OpenFile \/ Read \/ Write \/ Seek \/ Truncate \/ FSync \/ FClose
           \/ WindowMoves
        /\ UNCHANGED vol

Spec == Init /\ [][Next]_vars
-----------------------------------------------------------------------------
Usable == pc \notin {"closed", "lost"} /\ err = "OK"

\* Types; sizes and pointers fit a DWORD.
TypeOK ==
    /\ data \in [Sectors -> Sector]
    /\ fat \in [Clusters -> {0} \cup Clusters \cup {EOC}]
    /\ ent \in [size : 0 .. OffMod - 1, first : {0} \cup Clusters]
    /\ sclust \in {0} \cup Clusters
    /\ objsize \in 0 .. OffMod - 1 /\ fptr \in 0 .. OffMod - 1
    /\ clust \in {0} \cup Clusters
    /\ sect \in {0} \cup Sectors
    /\ buf \in Sector
    /\ {wr, modified, dirty} \subseteq BOOLEAN
    /\ err \in {"OK", "DISK_ERR", "INT_ERR"}
    /\ pc \in {"closed", "lost", "open", "read", "get", "write", "put", "seek"}

\* The bytes a reader would get, from the buffer while it is dirty.
SectorOf(h, i) == Clust2Sect(Chain(h)[i \div bcs]) + ((i \div SS) % CSize)
Content(h, size, cached) ==
    [j \in 1 .. size |->
        LET s == SectorOf(h, j - 1)
        IN  (IF cached /\ s = sect THEN buf ELSE data[s])[((j - 1) % SS) + 1]]

Bytes == IF pc = "closed" THEN Content(ent.first, ent.size, FALSE)
         ELSE IF Usable THEN Content(sclust, objsize, dirty) ELSE <<>>
Pos == IF ~Usable THEN 0 ELSE IF pc = "seek" THEN call.from ELSE fptr
State == IF pc \in {"closed", "lost"} THEN pc ELSE IF Usable THEN "open" ELSE "failed"

\* The file behaves as a sequence of bytes: a read hands over what was last
\* written at its place, through the buffer or around it, and after closing
\* and opening it again.
File == INSTANCE ByteFile WITH bytes <- Bytes, pos <- Pos, state <- State
ImplementsByteFile == File!FileSpec

\* "Sector number appearing in buf[]" (ff.h:167): between calls a clean buffer
\* holds its sector of the disk, and inside a sector it is the pointer's.
BufferHoldsSector ==
    Usable /\ pc = "open" =>
        /\ sect # 0 /\ ~dirty => buf = data[sect]
        /\ fptr % SS # 0 => sect = SectorOf(sclust, fptr)

\* "Current cluster of fpter" (ff.h:166): it holds the last byte before the
\* pointer, whichever way the pointer got there.
ClusterHoldsPointer ==
    Usable /\ pc = "open" /\ fptr > 0 => clust = Chain(sclust)[(fptr - 1) \div bcs]

\* The size never promises more than the chain holds, nor the pointer more than
\* the size, between calls; nor does the directory entry once the file is closed.
SizeFits ==
    /\ Usable => Fits(objsize, sclust) /\ (pc = "open" => fptr <= objsize)
    /\ pc = "closed" => Fits(ent.size, ent.first)

\* "Is there any change to the file?" (ff.c:3680): when f_sync reports success
\* the buffer is written and the directory entry on the disk is the file's.
SyncIsDurable ==
    [][~DiskErrors /\ synced' = TRUE /\ err = "OK" =>
          ent' = [size |-> objsize, first |-> sclust] /\ ~entDirty' /\ ~dirty']_vars

\* Until a call fails, nothing is written to a cluster that is not the file's.
WritesStayInFile ==
    [][err = "OK" => \A c \in Clusters :
          (\E k \in 0 .. CSize - 1 : data'[Clust2Sect(c) + k] # data[Clust2Sect(c) + k])
          => c \in ChainSet(sclust) \cup ChainSet(sclust)']_vars

\* Without disk errors every cluster in use is in the file's chain, between
\* calls: none is allocated and then forgotten.
NothingLeaks ==
    ~DiskErrors /\ pc \in {"open", "closed"} =>
        {c \in Clusters : fat[c] # 0} = ChainSet(IF pc = "open" THEN sclust ELSE ent.first)
=============================================================================
