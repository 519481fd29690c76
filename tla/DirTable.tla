------------------------------ MODULE DirTable ------------------------------
(***************************************************************************)
(* One directory table of a FAT volume with long names (fatfs/ff.c):       *)
(* dir_find, dir_read, dir_alloc, dir_register and dir_remove, entry by    *)
(* entry, through a window that holds one changed sector at a time.  A     *)
(* disk error can stop a call, and a power cut the board, between any two  *)
(* entries; what is found afterwards is what the scans make of the rest.   *)
(*                                                                         *)
(* A long name is a sequence of segments of 13 characters, in upper case.  *)
(* A short name is a pair of its letters and its number, 0 for none.       *)
(***************************************************************************)
EXTENDS Integers, Sequences, FiniteSets

CONSTANTS
    Names,      \* names programs use: [segs, short, loss, lfn]
    Sum,        \* checksum of each short name, which need not differ
    MaxNum,     \* bound: the largest number of a numbered name (99)
    Ids,        \* objects
    Ghost,      \* the object of a stale entry in a cluster that was used before
    SPE,        \* entries of a sector; a cluster is one sector
    MinLen,     \* entries the table starts with
    MaxLen,     \* bound: entries it is stretched to
    Faults      \* bound: one disk error or power cut happens, or none

VARIABLES
    tbl,        \* the table as it is read through the window
    disk,       \* the table on the medium
    dirty,      \* the sector of it that is dirty in the window, or 0
    call,       \* what runs: registration or removal, and where it is
    walk,       \* an open DIR: position, objects returned, objects that stayed
    torn        \* history: what the fault came between, the entries of a name or
                \* the link of a new cluster and its clearing; "" before it

vars == <<tbl, disk, dirty, call, walk, torn>>

End == [kind |-> "end"]
Del == [kind |-> "del"]
Lfn(seg, ord, last, sum) ==
    [kind |-> "lfn", seg |-> seg, ord |-> ord, last |-> last, sum |-> sum]
Sfn(short, id) == [kind |-> "sfn", short |-> short, id |-> id]
IsFree(e) == e.kind \in {"end", "del"}

Shorts == {n.short[1] : n \in Names} \X (0 .. MaxNum)
ShortName(s) == [segs |-> <<s>>, short |-> s, loss |-> FALSE, lfn |-> FALSE]

Segs == UNION {{n.segs[k] : k \in DOMAIN n.segs} : n \in Names}
NoOrd == 255

ASSUME SizeAssumption ==
    /\ SPE \in Nat \ {0} /\ MinLen % SPE = 0 /\ MaxLen % SPE = 0
    /\ MinLen \in Nat \ {0} /\ MaxLen \in Nat /\ MinLen <= MaxLen /\ MaxNum \in Nat
    /\ Ghost \notin Ids /\ Faults \in BOOLEAN

\* create_name makes the short form from the letters of the name; letters that are a
\* short name lose nothing in it.
ASSUME NameAssumption ==
    /\ Names \subseteq [segs : Seq(Segs), short : Shorts, loss : BOOLEAN, lfn : BOOLEAN]
    /\ \A n, m \in Names : n.segs = m.segs => n = m
    /\ \A n \in Names :
          /\ Len(n.segs) \in 1 .. NoOrd - 1
          /\ n.loss => n.lfn
          /\ ~n.lfn => n = ShortName(n.short)
          /\ \A s \in Shorts : n.segs = <<s>> => n.short = s /\ ~n.loss

Idle == [op |-> "idle"]
NoWalk == [at |-> 0, seen |-> {}, stay |-> {}]

Init ==
    /\ tbl = [i \in 1 .. MinLen |-> End] /\ disk = tbl /\ dirty = 0
    /\ call = Idle /\ walk = NoWalk /\ torn = ""
-----------------------------------------------------------------------------
(* Scans.  ord is the order of the long-name entry expected next, 0 when the *)
(* long name is complete, NoOrd outside of one; blk is where it starts.      *)

Outside == [ord |-> NoOrd, sum |-> NoOrd, blk |-> 0, hit |-> 0, stop |-> FALSE]

\* cmp_lfn: the entry is a part of the name, the last one with the same end.
Matches(segs, e) ==
    e.ord <= Len(segs) /\ segs[e.ord] = e.seg /\ (e.last => e.ord = Len(segs))

\* A long-name entry: the last part comes first and starts a sequence; ok says
\* whether the caller can use the part.
Part(s, e, i, ok) ==
    LET b == IF e.last THEN [s EXCEPT !.ord = e.ord, !.sum = e.sum, !.blk = i] ELSE s
    IN  [b EXCEPT !.ord = IF e.ord = b.ord /\ e.sum = b.sum /\ ok THEN @ - 1 ELSE NoOrd]

\* The short entry that a complete long name belongs to has its checksum.
Closes(s, e) == s.ord = 0 /\ s.sum = Sum[e.short]

\* dir_find: hit is the index of the short entry found, or 0.
FindScan(t, nm, nolfn) ==
    LET st[i \in 0 .. Len(t)] ==
          IF i = 0 THEN Outside
          ELSE LET s == st[i - 1]
                   e == t[i]
                   reset == [s EXCEPT !.ord = NoOrd, !.blk = 0]
               IN  IF s.stop THEN s
                   ELSE IF e.kind = "end" THEN [s EXCEPT !.stop = TRUE]
                   ELSE IF e.kind = "del" THEN reset
                   ELSE IF e.kind = "lfn"
                        THEN IF nolfn THEN s ELSE Part(s, e, i, Matches(nm.segs, e))
                   ELSE IF Closes(s, e) \/ (~nm.loss /\ e.short = nm.short)
                        THEN [s EXCEPT !.hit = i, !.stop = TRUE]
                   ELSE reset
    IN  st[Len(t)]

Find(t, nm) == FindScan(t, nm, FALSE)

\* dir_read: what it knows when it comes to entry i.
ReadState(t) ==
    LET st[i \in 0 .. Len(t)] ==
          IF i = 0 THEN Outside
          ELSE LET e == t[i]
               IN  IF e.kind = "lfn" THEN Part(st[i - 1], e, i, TRUE) ELSE Outside
    IN  st

Visible(t) == {i \in 1 .. Len(t) : /\ t[i].kind = "sfn"
                                   /\ \A j \in 1 .. i : t[j].kind # "end"}

\* get_fileinfo: the long name that leads to the short entry i, or the short one.
ListedAs(t, i) ==
    LET s == ReadState(t)[i - 1]
    IN  IF Closes(s, t[i]) THEN [k \in 1 .. i - s.blk |-> t[i - k].seg]
                           ELSE <<t[i].short>>

Live(t) == {t[i].id : i \in Visible(t)}
Held(t) == {t[i].id : i \in {j \in 1 .. Len(t) : t[j].kind = "sfn"}}
-----------------------------------------------------------------------------
(* The window *)

MayFail == Faults /\ torn = ""

SectorOf(i) == (i - 1) \div SPE + 1
InSector(s) == (s - 1) * SPE + 1 .. s * SPE

\* The medium when the window has been written back.
Flushed == [i \in 1 .. Len(disk) |-> IF dirty # 0 /\ i \in InSector(dirty)
                                     THEN tbl[i] ELSE disk[i]]

\* move_window to entry i, which is changed to e.
Put(i, e) ==
    /\ disk' = IF dirty = SectorOf(i) THEN disk ELSE Flushed
    /\ tbl' = [tbl EXCEPT ![i] = e]
    /\ dirty' = SectorOf(i)

\* move_window fails, writing the dirty sector or reading the one of entry i.
PutFails(i) ==
    /\ dirty # SectorOf(i)
    /\ UNCHANGED tbl
    /\ \/ UNCHANGED <<disk, dirty>>
       \/ disk' = Flushed /\ dirty' = 0

\* Between two calls the window moves to the FAT or to another directory, or is
\* written by sync_fs.
Evict ==
    /\ call = Idle /\ dirty # 0
    /\ disk' = Flushed /\ dirty' = 0
    /\ UNCHANGED <<tbl, call, walk, torn>>

\* The power is cut.
PowerCut ==
    /\ MayFail
    /\ tbl' = disk /\ dirty' = 0 /\ call' = Idle /\ walk' = NoWalk
    /\ torn' = IF call.op = "clear" THEN "cluster" ELSE "name"
    /\ UNCHANGED disk
-----------------------------------------------------------------------------
(* dir_register *)

NEnt(nm) == IF nm.lfn THEN Len(nm.segs) + 1 ELSE 1

\* Mutant: the number of a lossy name is not checked against the short names.
FirstNumber(t, nm) == 1

\* gen_numname: the first number whose short name is not there; 0 if all are.
Number(t, nm) ==
    LET unused == {k \in 1 .. MaxNum :
                     FindScan(t, [nm EXCEPT !.short = <<nm.short[1], k>>, !.loss = FALSE],
                              TRUE).hit = 0}
    IN  IF unused = {} THEN 0 ELSE CHOOSE k \in unused : \A m \in unused : k <= m

\* Mutant: the count of free entries does not restart at a used one.
BlockApart(t, nent, i) == Cardinality({j \in 1 .. i : IsFree(t[j])}) >= nent

\* dir_alloc: the first nent free entries in a row end at entry i.
Block(t, nent, i) == i >= nent /\ \A j \in i - nent + 1 .. i : IsFree(t[j])
Allocated(t, nent) == {i \in 1 .. Len(t) : /\ Block(t, nent, i)
                                           /\ \A j \in 1 .. i - 1 : ~Block(t, nent, j)}

\* The entries are written from the last part of the name to the short entry.
Storing(nm, short, id) ==
    IF Allocated(tbl', NEnt(nm)) # {}
    THEN \E i \in Allocated(tbl', NEnt(nm)) :
            call' = [op |-> "store", at |-> i - NEnt(nm) + 1, to |-> i,
                     name |-> nm, short |-> short, id |-> id]
    ELSE IF Len(tbl') < MaxLen
    THEN call' = [op |-> "link", name |-> nm, short |-> short, id |-> id]
    ELSE call' = Idle

\* dir_register of a name that dir_find has not found; a lossy one is numbered.
Register(nm, id) ==
    /\ call = Idle /\ Find(tbl, nm).hit = 0
    /\ id \notin Held(tbl) \cup Held(disk)
    /\ LET k == Number(tbl, nm)
       IN  IF nm.loss /\ k = 0 THEN call' = Idle /\ UNCHANGED tbl
           ELSE /\ UNCHANGED tbl
                /\ Storing(nm, IF nm.loss THEN <<nm.short[1], k>> ELSE nm.short, id)
    /\ UNCHANGED <<disk, dirty, walk, torn>>

\* dir_next stretches the table: the new cluster is linked, with what it holds.
Stretch ==
    /\ call.op = "link"
    /\ \E e \in {End, Sfn(call.short, Ghost)} :
          LET old == [i \in 1 .. SPE |-> e]
          IN  tbl' = tbl \o old /\ disk' = Flushed \o old
    /\ dirty' = 0 /\ call' = [call EXCEPT !.op = "clear"]
    /\ UNCHANGED <<walk, torn>>

Cleared == [i \in 1 .. Len(tbl) |-> IF SectorOf(i) = SectorOf(Len(tbl)) THEN End ELSE tbl[i]]

\* ... and then cleared.
Clear ==
    /\ call.op = "clear"
    /\ tbl' = Cleared /\ disk' = Cleared
    /\ Storing(call.name, call.short, call.id)
    /\ UNCHANGED <<dirty, walk, torn>>

\* No free cluster, or a disk error before the link is written.
StretchFails ==
    /\ call.op = "link" /\ call' = Idle
    /\ UNCHANGED <<tbl, disk, dirty, walk, torn>>

\* A disk error after that; the cleared window stays dirty if its write failed.
ClearFails ==
    /\ MayFail /\ torn' = "cluster"
    /\ call.op = "clear" /\ call' = Idle
    /\ \/ UNCHANGED <<tbl, dirty>>
       \/ tbl' = Cleared /\ dirty' = SectorOf(Len(tbl))
    /\ UNCHANGED <<disk, walk>>

\* The entry to be stored next: put_lfn, or the short entry.
NextEntry ==
    LET ord == call.to - call.at
    IN  IF ord = 0 THEN Sfn(call.short, call.id)
        ELSE Lfn(call.name.segs[ord], ord, ord = Len(call.name.segs), Sum[call.short])

Store ==
    /\ call.op = "store"
    /\ Put(call.at, NextEntry)
    /\ call' = IF call.at = call.to THEN Idle ELSE [call EXCEPT !.at = @ + 1]
    /\ UNCHANGED <<walk, torn>>
-----------------------------------------------------------------------------
(* dir_remove *)

\* The entries from the start of the long name to the short entry are marked.
Remove(nm) ==
    /\ call = Idle
    /\ LET s == Find(tbl, nm)
       IN  /\ s.hit # 0
           /\ call' = [op |-> "mark", at |-> IF s.blk = 0 THEN s.hit ELSE s.blk,
                       to |-> s.hit, id |-> tbl[s.hit].id]
           /\ walk' = [walk EXCEPT !.stay = @ \ {tbl[s.hit].id}]
    /\ UNCHANGED <<tbl, disk, dirty, torn>>

Mark ==
    /\ call.op = "mark"
    /\ Put(call.at, Del)
    /\ call' = IF call.at = call.to THEN Idle ELSE [call EXCEPT !.at = @ + 1]
    /\ UNCHANGED <<walk, torn>>

AccessFails ==
    /\ MayFail /\ torn' = "name"
    /\ call.op \in {"store", "mark"} /\ PutFails(call.at)
    /\ call' = Idle
    /\ UNCHANGED walk
-----------------------------------------------------------------------------
(* f_opendir, f_readdir *)

OpenDir ==
    /\ call = Idle /\ walk = NoWalk
    /\ walk' = [at |-> 1, seen |-> {}, stay |-> Live(tbl) \cap Ids]
    /\ UNCHANGED <<tbl, disk, dirty, call, torn>>

\* The short entry that dir_read comes to next.
NextShort(i) == /\ i \in Visible(tbl) /\ i >= walk.at
                /\ \A j \in Visible(tbl) : j >= walk.at => i <= j

\* Mutant: the rest of the sector is skipped.
ReadDirSector(i) ==
    /\ call = Idle /\ walk.at # 0 /\ NextShort(i)
    /\ walk' = [walk EXCEPT !.at = SectorOf(i) * SPE + 1, !.seen = @ \cup {tbl[i].id}]
    /\ UNCHANGED <<tbl, disk, dirty, call, torn>>

ReadDir(i) ==
    /\ call = Idle /\ walk.at # 0 /\ NextShort(i)
    /\ walk' = [walk EXCEPT !.at = i + 1, !.seen = @ \cup {tbl[i].id}]
    /\ UNCHANGED <<tbl, disk, dirty, call, torn>>

\* The end of the table.
ReadDirEnds ==
    /\ call = Idle /\ walk.at # 0 /\ \A i \in Visible(tbl) : i < walk.at
    /\ walk' = NoWalk
    /\ UNCHANGED <<tbl, disk, dirty, call, torn>>
-----------------------------------------------------------------------------
Known == Names \cup {ShortName(s) : s \in Shorts}

Start == \/ \E nm \in Names, id \in Ids : Register(nm, id)
         \/ \E nm \in Known : Remove(nm)
         \/ OpenDir \/ ReadDirEnds \/ \E i \in 1 .. MaxLen : ReadDir(i)

Next == Start \/ Stretch \/ Clear \/ StretchFails \/ ClearFails \/ Store \/ Mark \/ AccessFails
        \/ Evict \/ PowerCut

Spec == Init /\ [][Next]_vars
-----------------------------------------------------------------------------
\* The name that a listing shows, as a program gives it back.
AsGiven(l) == IF \E s \in Shorts : l = <<s>> THEN ShortName(l[1])
              ELSE CHOOSE nm \in Names : nm.segs = l

\* Every cluster that was linked to the table has been cleared.
Whole == torn # "cluster" /\ call.op # "clear"

\* What a listing shows can be opened and removed: under the listed name each
\* visible object is found, and no other one, however the numbered short names
\* and the long names of other objects came and went.  A call cut off between
\* its entries can leave a long name that later joins another short name.
FoundAsListed ==
    torn = "" /\ call = Idle =>
       \A i \in Visible(tbl) : Find(tbl, AsGiven(ListedAs(tbl, i))).hit = i

\* Each object's short name is its own, whoever registered which name first.
ShortNamesDiffer ==
    Whole => \A i, j \in Visible(tbl) : tbl[i].short = tbl[j].short => i = j

\* The objects of a directory are those registered in it: entries of an earlier
\* use of a cluster appear only if clearing it was interrupted.
NoStaleEntries == Whole => Ghost \notin Live(tbl)

DirectorySound == FoundAsListed /\ ShortNamesDiffer /\ NoStaleEntries

Own == IF call.op = "idle" THEN {} ELSE {call.id}
ListingOf(t, id) == {ListedAs(t, i) : i \in {j \in Visible(t) : t[j].id = id}}

\* Registering or removing an object, to the end or not, changes nothing about
\* another one: it stays visible, with its name, and hidden if it was hidden.  Behind
\* a cluster that was not cleared dir_alloc may put an object where the end mark
\* hides it, until that mark is used.
OthersUntouched ==
    [][torn' = torn => \A id \in Ids \ Own :
          /\ ListingOf(tbl, id) \subseteq ListingOf(tbl', id)
          /\ torn # "cluster" => ListingOf(tbl', id) = ListingOf(tbl, id)]_vars

\* A listing returns each object that is there all the time once, although files
\* come and go meanwhile (FS::rmdir removes each one it gets).
WalkComplete ==
    [][/\ walk.at # 0 /\ walk' = NoWalk /\ torn' = torn => walk.stay \subseteq walk.seen
       /\ walk.at # 0 => \A i \in Visible(tbl) \cap (walk.at .. walk'.at - 1) :
                            tbl[i].id \notin walk.seen \cap walk.stay]_vars
=============================================================================
