------------------------------ MODULE FatVolume ------------------------------
(***************************************************************************)
(* A FAT volume with its directory tree, its FAT and open files (fatfs/ff.c): *)
(* f_open, f_write, f_lseek, f_truncate, f_sync, f_close, f_unlink, f_mkdir  *)
(* and f_rename as the sequences of sector changes they make, all but the    *)
(* file data through one window that holds one changed sector; and the      *)
(* power that can be cut between any two of them.                           *)
(*                                                                         *)
(* A file is a sequence of clusters.  A table has a fixed number of entries  *)
(* (DirTable), a new cluster is any free one (FatChains), and a byte of a   *)
(* file is where FileIO puts it.                                            *)
(***************************************************************************)
EXTENDS Integers, Sequences, FiniteSets, Functions

CONSTANTS
    N,          \* fs->n_fatent: clusters are 2 .. N - 1
    PerSector,  \* FAT entries of a sector
    Slots,      \* entries of a directory table
    Names,      \* names of files and directories
    Ids,        \* files, whatever their names
    Fils,       \* file objects of the program
    MaxSize,    \* bound: clusters of a file
    MaxDirs     \* bound: directories

Clusters == 2 .. N - 1
EOC == N
Tables == {0} \cup Clusters     \* a table is named by its cluster, the root is 0

ASSUME SizeAssumption ==
    /\ N \in Nat /\ N > 2 /\ PerSector \in Nat \ {0} /\ Slots \in Nat
    /\ MaxSize \in Nat /\ MaxDirs \in Nat /\ "none" \notin Fils

VARIABLES
    now,        \* the volume as it is read through the window
    disk,       \* the volume on the medium
    win,        \* the sector that is dirty in the window, or NoSector
    fil,        \* the file objects
    call,       \* what runs: the changes left, and what it leaves behind
    saved,      \* history: clusters of each file at its last f_sync, or NotSaved
    shrunk,     \* history: files truncated and not yet synced
    hurt        \* history: the power was cut in a rename or with a file shrunk

vars == <<now, disk, win, fil, call, saved, shrunk, hurt>>

NoSector == <<"none", 0>>
FatSector(c) == <<"fat", c \div PerSector>>
TableSector(t) == <<"table", t>>

Unused == [id |-> "none"]
File(name, id, clst, size) ==
    [id |-> id, name |-> name, dir |-> FALSE, clst |-> clst, size |-> size]
Dir(name, clst) == [id |-> "dir", name |-> name, dir |-> TRUE, clst |-> clst, size |-> 0]
Table(up) == [kind |-> "table", up |-> up, ent |-> [s \in 1 .. Slots |-> Unused]]
Nothing == [kind |-> "nothing"]
Data(id, k) == [kind |-> "data", id |-> id, k |-> k]

Closed == [open |-> FALSE]
Idle == [op |-> "idle"]
NotSaved == -1

Init ==
    /\ now = [fat |-> [c \in Clusters |-> 0],
              has |-> [t \in Tables |-> IF t = 0 THEN Table(0) ELSE Nothing]]
    /\ disk = now /\ win = NoSector
    /\ fil = [f \in Fils |-> Closed] /\ call = Idle
    /\ saved = [id \in Ids |-> NotSaved] /\ shrunk = {} /\ hurt = FALSE
-----------------------------------------------------------------------------
(* Reading the volume *)

\* The chain from cluster c, and the entry value it stops at.
Walk(v, c) == LET to[i \in 0 .. N - 2] ==
                    IF i = 0 THEN <<c>>
                    ELSE LET w == to[i - 1]
                             last == w[Len(w)]
                         IN  IF last \in Clusters THEN Append(w, v.fat[last]) ELSE w
              IN  to[N - 2]
Stop(v, c) == LET w == Walk(v, c) IN w[Len(w)]
Chain(v, c) == LET w == Walk(v, c) IN SubSeq(w, 1, Len(w) - 1)
FreeSet == {c \in Clusters : now.fat[c] = 0}

IsTable(v, t) == v.has[t].kind = "table"
Entry(v, t, s) == v.has[t].ent[s]
Used(v, t) == {s \in 1 .. Slots : Entry(v, t, s) # Unused}
Subdirs(v, t) ==
    {d \in Clusters : IsTable(v, d) /\ \E s \in Used(v, t) : /\ Entry(v, t, s).dir
                                                              /\ Entry(v, t, s).clst = d}

\* follow_path gets to the tables below t.
Below(v, t) == LET to[i \in 0 .. N - 2] ==
                     IF i = 0 THEN {t}
                     ELSE LET b == to[i - 1] IN b \cup UNION {Subdirs(v, d) : d \in b}
               IN  to[N - 2]
Reach(v) == Below(v, 0)
Places(v) == {p \in Reach(v) \X (1 .. Slots) : p[2] \in Used(v, p[1])}
At(v, p) == Entry(v, p[1], p[2])

\* dir_find of a name in table t.
Exists(t, name) == \E s \in Used(now, t) : Entry(now, t, s).name = name
\* dir_alloc: the first free entry, or 0.
Room(t) == LET free == (1 .. Slots) \ Used(now, t)
           IN  IF free = {} THEN 0 ELSE CHOOSE s \in free : \A r \in free : s <= r
-----------------------------------------------------------------------------
(* The changes a call makes, one after the other *)

SetFat(c, val) == [do |-> "fat", at |-> FatSector(c), c |-> c, val |-> val]
SetEntry(t, s, e) == [do |-> "entry", at |-> TableSector(t), t |-> t, s |-> s, e |-> e]
SetUp(t, up) == [do |-> "up", at |-> TableSector(t), t |-> t, up |-> up]
Move(sector) == [do |-> "move", at |-> sector]
Sync == [do |-> "move", at |-> NoSector]
Put(c, val) == [do |-> "put", c |-> c, val |-> val]

\* remove_chain, from the first cluster on.
FreeAll(chain) == [i \in 1 .. Len(chain) |-> SetFat(chain[i], 0)]
\* The buffered cluster of a file object is written; it holds its place in the file.
WriteBuffer(o) == IF o.dirty = 0 THEN <<>> ELSE <<Put(o.dirty, Data(o.id, o.part))>>

\* The medium when the window has been written back.
Flushed == [fat |-> [c \in Clusters |-> IF win = FatSector(c) THEN now.fat[c] ELSE disk.fat[c]],
            has |-> [t \in Tables |-> IF win = TableSector(t) THEN now.has[t] ELSE disk.has[t]]]

\* What a freed cluster holds is forgotten at once: nothing may depend on it.
Kept(held, ch) == IF ch.do = "fat" /\ ch.val = 0 THEN Nothing ELSE held

Changed(v, ch) ==
    CASE ch.do = "fat"   -> [v EXCEPT !.fat[ch.c] = ch.val, !.has[ch.c] = Kept(@, ch)]
      [] ch.do = "entry" -> [v EXCEPT !.has[ch.t].ent[ch.s] = ch.e]
      [] ch.do = "up"    -> [v EXCEPT !.has[ch.t].up = ch.up]
      [] ch.do = "put"   -> [v EXCEPT !.has[ch.c] = ch.val]
      [] OTHER           -> v

\* After the last change the call returns, leaves its file object and counts the
\* file as saved.
Rest(op, f, leaves, todo) ==
    IF todo # <<>>
    THEN /\ call' = [op |-> op, f |-> f, leaves |-> leaves, todo |-> todo]
         /\ UNCHANGED fil
    ELSE /\ call' = Idle
         /\ fil' = IF f \in Fils THEN [fil EXCEPT ![f] = leaves] ELSE fil

Do(ch) ==
    /\ call.op # "idle" /\ ch = Head(call.todo)
    /\ Rest(call.op, call.f, call.leaves, Tail(call.todo))
    /\ LET o == fil[call.f]
       IN  IF call.op = "sync" /\ Tail(call.todo) = <<>>
           THEN saved' = [saved EXCEPT ![o.id] = o.size] /\ shrunk' = shrunk \ {o.id}
           ELSE UNCHANGED <<saved, shrunk>>
    /\ UNCHANGED hurt

\* move_window to a sector that is changed there, or is only read (sync_window,
\* sync_fs).
ThroughWindow(ch) ==
    /\ Do(ch) /\ ch.do # "put"
    /\ now' = Changed(now, ch)
    /\ LET d == IF win = ch.at THEN disk ELSE Flushed
       IN  disk' = IF ch.do = "fat" THEN [d EXCEPT !.has[ch.c] = Kept(@, ch)] ELSE d
    /\ win' = IF ch.do = "move" /\ win # ch.at THEN NoSector ELSE ch.at

\* disk_write of a file's buffer or of the program's; f_mkdir's first table.
Direct(ch) ==
    /\ Do(ch) /\ ch.do = "put"
    /\ now' = Changed(now, ch) /\ disk' = Changed(disk, ch)
    /\ UNCHANGED win

Step == call.op # "idle" /\ (ThroughWindow(Head(call.todo)) \/ Direct(Head(call.todo)))

\* Between the calls, and as each of them starts by following its path or its
\* chain, another sector is read: move_window without a change of its own.
Look ==
    /\ call = Idle /\ win # NoSector
    /\ disk' = Flushed /\ win' = NoSector
    /\ UNCHANGED <<now, fil, call, saved, shrunk, hurt>>

Begin(op, f, leaves, todo) ==
    /\ call = Idle
    /\ Rest(op, f, leaves, todo)
    /\ UNCHANGED <<now, disk, win, hurt>>
BeginVol(op, todo) == Begin(op, "none", Closed, todo)
-----------------------------------------------------------------------------
(* Files *)

Open == {f \in Fils : fil[f].open}
InUse(id) == \E f \in Open : fil[f].id = id
NewFil(e, t, s, mod) ==
    [open |-> TRUE, id |-> e.id, t |-> t, s |-> s, clst |-> e.clst,
     size |-> e.size, dirty |-> 0, part |-> 0, mod |-> mod]

\* f_open of a file that is there, without creation.
OpenExisting(f, t, s) ==
    LET e == Entry(now, t, s)
    IN  /\ ~fil[f].open /\ ~e.dir /\ ~InUse(e.id)
        /\ Begin("open", f, NewFil(e, t, s, FALSE), <<>>)
        /\ UNCHANGED <<saved, shrunk>>

\* f_open with FA_CREATE_ALWAYS of a file that is there: the entry first.
Overwrite(f, t, s) ==
    LET e == Entry(now, t, s)
        n == File(e.name, e.id, 0, 0)
    IN  /\ ~fil[f].open /\ ~e.dir /\ ~InUse(e.id)
        /\ Begin("open", f, NewFil(n, t, s, TRUE),
                 <<SetEntry(t, s, n)>> \o FreeAll(Chain(now, e.clst)) \o <<Move(TableSector(t))>>)
        /\ saved' = [saved EXCEPT ![e.id] = NotSaved]
        /\ UNCHANGED shrunk

\* f_open that creates a file.
Create(f, t, name, id) ==
    LET e == File(name, id, 0, 0)
    IN  /\ ~fil[f].open /\ ~Exists(t, name) /\ Room(t) # 0
        /\ Begin("open", f, NewFil(e, t, Room(t), TRUE), <<SetEntry(t, Room(t), e)>>)
        /\ UNCHANGED <<saved, shrunk>>

\* f_lseek and f_write: cluster k of the file, an old one or a new one c, of which
\* a part is written, which stays in the buffer.
Write(f, k, c) ==
    LET o == fil[f]
        chain == Chain(now, o.clst)
        new == k > Len(chain)
        link == IF ~new THEN <<>>
                ELSE <<SetFat(c, EOC)>> \o (IF k = 1 THEN <<>> ELSE <<SetFat(chain[k - 1], c)>>)
    IN  /\ o.open /\ k \in 1 .. o.size + 1
        /\ IF new THEN c \in FreeSet ELSE c = chain[k]
        /\ Begin("write", f,
                 [o EXCEPT !.clst = IF @ = 0 THEN c ELSE @, !.size = IF k > @ THEN k ELSE @,
                           !.mod = TRUE, !.dirty = c, !.part = k],
                 IF o.dirty = c THEN <<>> ELSE link \o WriteBuffer(o))
        /\ UNCHANGED <<saved, shrunk>>

\* f_lseek to the start of cluster k + 1 and f_truncate: the clusters behind it are
\* freed before the entry changes.
Truncate(f, k) ==
    LET o == fil[f]
        chain == Chain(now, o.clst)
        rest == SubSeq(chain, k + 1, Len(chain))
        cut == IF k = 0 \/ rest = <<>> THEN <<>> ELSE <<SetFat(chain[k], EOC)>>
    IN  /\ o.open /\ k < o.size
        /\ Begin("truncate", f,
                 [o EXCEPT !.size = k, !.clst = IF k = 0 THEN 0 ELSE @,
                           !.mod = TRUE, !.dirty = 0, !.part = 0],
                 cut \o FreeAll(rest) \o WriteBuffer(o))
        /\ saved' = [saved EXCEPT ![o.id] = NotSaved]
        /\ shrunk' = shrunk \cup {o.id}

\* f_sync, and f_close when it succeeds.
SyncFile(f, close) ==
    LET o == fil[f]
        after == [o EXCEPT !.mod = FALSE, !.dirty = 0, !.part = 0]
    IN  /\ o.open /\ (o.mod \/ close)
        /\ Begin("sync", f, IF close THEN Closed ELSE after,
                 IF o.mod THEN WriteBuffer(o)
                               \o <<SetEntry(o.t, o.s, [Entry(now, o.t, o.s) EXCEPT !.clst = o.clst,
                                                                                !.size = o.size]), Sync>>
                          ELSE <<>>)
        /\ UNCHANGED <<saved, shrunk>>
-----------------------------------------------------------------------------
(* Directories *)

\* Mutant: the clusters are freed before the entry is removed.
UnlinkChainFirst(t, s) ==
    LET e == Entry(now, t, s)
    IN  /\ IF e.dir THEN Used(now, e.clst) = {} ELSE ~InUse(e.id)
        /\ BeginVol("unlink", FreeAll(Chain(now, e.clst)) \o <<SetEntry(t, s, Unused), Sync>>)
        /\ saved' = [id \in Ids |-> IF id = e.id THEN NotSaved ELSE saved[id]]
        /\ UNCHANGED shrunk

\* f_unlink of a file that is not open, or of an empty directory.
Unlink(t, s) ==
    LET e == Entry(now, t, s)
    IN  /\ IF e.dir THEN Used(now, e.clst) = {} ELSE ~InUse(e.id)
        /\ BeginVol("unlink", <<SetEntry(t, s, Unused)>> \o FreeAll(Chain(now, e.clst)) \o <<Sync>>)
        /\ saved' = [id \in Ids |-> IF id = e.id THEN NotSaved ELSE saved[id]]
        /\ UNCHANGED shrunk

\* f_mkdir: the table is written before its entry; without room for the entry the
\* cluster is given back, and no sync_fs.
MakeDir(t, name, c) ==
    /\ ~Exists(t, name) /\ c \in FreeSet /\ Cardinality(Reach(now)) <= MaxDirs
    /\ BeginVol("mkdir", <<SetFat(c, EOC), Sync, Put(c, Table(t))>>
                         \o (IF Room(t) = 0 THEN <<SetFat(c, 0)>>
                             ELSE <<SetEntry(t, Room(t), Dir(name, c)), Sync>>))
    /\ UNCHANGED <<saved, shrunk>>

\* Mutant: the old entry is removed before the new one is made.
RenameOldFirst(t, s, to, name) ==
    LET e == Entry(now, t, s)
        up == IF e.dir /\ to # t THEN <<SetUp(e.clst, to)>> ELSE <<>>
    IN  /\ (e.dir => to \notin Below(now, e.clst)) /\ (e.dir \/ ~InUse(e.id))
        /\ Exists(to, name) => to = t /\ name = e.name
        /\ Room(to) # 0
        /\ BeginVol("rename", <<SetEntry(t, s, Unused), SetEntry(to, Room(to), [e EXCEPT !.name = name])>>
                              \o up \o <<Sync>>)
        /\ UNCHANGED <<saved, shrunk>>

\* f_rename: a second entry, then ".." of a directory that moves, then the first
\* entry is removed.  The new name may be the old one; a directory is not moved into
\* itself.
Rename(t, s, to, name) ==
    LET e == Entry(now, t, s)
        up == IF e.dir /\ to # t THEN <<SetUp(e.clst, to)>> ELSE <<>>
    IN  /\ (e.dir => to \notin Below(now, e.clst)) /\ (e.dir \/ ~InUse(e.id))
        /\ Exists(to, name) => to = t /\ name = e.name
        /\ Room(to) # 0
        /\ BeginVol("rename", <<SetEntry(to, Room(to), [e EXCEPT !.name = name])>> \o up
                              \o <<SetEntry(t, s, Unused), Sync>>)
        /\ UNCHANGED <<saved, shrunk>>

\* The power is cut; the program starts again and mounts the volume.
PowerCut ==
    /\ now' = disk /\ win' = NoSector
    /\ fil' = [f \in Fils |-> Closed] /\ call' = Idle
    /\ hurt' = (hurt \/ shrunk # {} \/ call.op = "rename")
    /\ shrunk' = {}
    /\ UNCHANGED <<disk, saved>>
-----------------------------------------------------------------------------
Known == {At(now, p).id : p \in Places(now)} \cup {At(disk, p).id : p \in Places(disk)}

FileCalls ==
    \E f \in Fils :
       \/ \E p \in Places(now) : OpenExisting(f, p[1], p[2]) \/ Overwrite(f, p[1], p[2])
       \/ \E id \in Ids \ Known, t \in Reach(now), name \in Names : Create(f, t, name, id)
       \/ \E k \in 1 .. MaxSize, c \in Clusters : Write(f, k, c)
       \/ \E k \in 0 .. MaxSize : Truncate(f, k)
       \/ \E close \in BOOLEAN : SyncFile(f, close)

DirCalls ==
    \/ \E p \in Places(now) : Unlink(p[1], p[2])
    \/ \E t \in Reach(now), name \in Names, c \in Clusters : MakeDir(t, name, c)
    \/ \E p \in Places(now), to \in Reach(now), name \in Names : Rename(p[1], p[2], to, name)

Next == (call = Idle /\ (FileCalls \/ DirCalls)) \/ Look \/ Step \/ PowerCut

Spec == Init /\ [][Next]_vars
-----------------------------------------------------------------------------
\* Every object has a chain of its own that is allocated to its end and covers
\* its size, every directory leads to its table, whose ".." leads back.
Sound(v) ==
    LET places == Places(v)
        at == [p \in places |-> At(v, p)]
        chain == [p \in places |-> Chain(v, at[p].clst)]
    IN  /\ \A p \in places :
              LET e == at[p]
              IN  /\ e.clst # 0 => e.clst \in Clusters /\ Stop(v, e.clst) = EOC
                  /\ ~e.dir => Len(chain[p]) >= e.size
                  /\ e.dir => IsTable(v, e.clst) /\ v.has[e.clst].up = p[1]
        /\ \A p, q \in places : p # q =>
              /\ Range(chain[p]) \cap Range(chain[q]) = {}
              /\ p[1] = q[1] => at[p].name # at[q].name

\* Wherever the power is cut, the volume on the medium is sound, except in the
\* critical section of f_rename (ff.c:4707) and between f_truncate and f_sync.
AlwaysSound ==
    ~hurt /\ shrunk = {} /\ call.op # "rename" => \A v \in {disk, now} : Sound(v)

\* What f_sync or f_close has saved is on the medium, whatever else is written,
\* created, removed, moved or cut off, until the program changes that file.
SavedFilesSurvive ==
    ~hurt => \A id \in Ids : saved[id] # NotSaved =>
       \E p \in Places(disk) :
          LET e == At(disk, p)
          IN  /\ e.id = id /\ e.size >= saved[id]
              /\ \A k \in 1 .. saved[id] : disk.has[Chain(disk, e.clst)[k]] = Data(id, k)
=============================================================================
