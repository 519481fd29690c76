------------------------------ MODULE ExFatChains ------------------------------
(***************************************************************************)
(* Cluster allocation on an exFAT volume (fatfs/ff.c).  An allocation bitmap *)
(* tells which clusters are in use; a chain whose clusters are contiguous    *)
(* has no links in the FAT, and where a chain ends follows from the size of  *)
(* its object.  An object carries the status of its chain: 0, the chain is   *)
(* in the FAT; 2, contiguous; 3, contiguous at its start, whose links are    *)
(* still to be written, and in the FAT behind that.                         *)
(*                                                                         *)
(* Sizes are counted in clusters.  FAT and bitmap are read and written       *)
(* through the window (FatWindow), and no disk access fails.  The chain of   *)
(* the root directory is always in the FAT and stays out.                   *)
(***************************************************************************)
EXTENDS Integers, Sequences, FiniteSets, Functions

CONSTANTS
    N,          \* fs->n_fatent: clusters are 2 .. N - 1
    Files,
    Dirs,       \* directories below the root
    MaxSize     \* bound: clusters of an object

Clusters == 2 .. N - 1
EOC == N + 1                \* stands for the mark at the end of a chain
Objs == Files \cup Dirs

ASSUME SizeAssumption ==
    /\ N \in Nat /\ N >= 4 /\ MaxSize \in Nat \ {0}
    /\ Files \cap Dirs = {}

VARIABLES
    vol,        \* fat: the FAT; bitmap: clusters in use; last: fs->last_clst
    ent,        \* what the entry of each object holds
    obj,        \* fp->obj of the files that are open
    made,       \* objects that have an entry
    open,       \* files that are open
    own         \* history: the clusters each object was given, in order

vars == <<vol, ent, obj, made, open, own>>

\* n_cont is one less than the clusters of the contiguous start.
NoChain == [sclust |-> 0, size |-> 0, stat |-> 0, n_cont |-> 0]

\* The FAT of a free cluster holds anything, since no link is ever cleared.
Init ==
    /\ vol = [fat |-> [c \in Clusters |-> 0], bitmap |-> {}, last |-> 0]
    /\ ent = [x \in Objs |-> NoChain] /\ obj = [f \in Files |-> NoChain]
    /\ made = {} /\ open = {} /\ own = [x \in Objs |-> <<>>]
-----------------------------------------------------------------------------
(* The FAT and the bitmap *)

\* get_fat: the cluster behind c in the chain of o, EOC, or 1.
GetFat(v, o, c) ==
    LET i == c - o.sclust
    IN  IF c \notin Clusters \/ o.size = 0 THEN 1
        ELSE IF o.stat = 2
        THEN IF i \notin 0 .. o.size - 1 THEN 1 ELSE IF i = o.size - 1 THEN EOC ELSE c + 1
        ELSE IF o.stat = 3 /\ i \in 0 .. o.n_cont - 1 THEN c + 1 ELSE v.fat[c]

\* The values get_fat gives one after the other, from cluster c on.
Walk(v, o, c) == LET to[i \in 0 .. N] ==
                       IF i = 0 THEN <<c>>
                       ELSE LET w == to[i - 1]
                            IN  IF w[Len(w)] \in Clusters THEN Append(w, GetFat(v, o, w[Len(w)])) ELSE w
                 IN  to[N]
Chain(v, o) == LET w == Walk(v, o, o.sclust) IN SubSeq(w, 1, Len(w) - 1)
LastOf(v, o) == LET w == Chain(v, o) IN IF w = <<>> THEN 0 ELSE w[Len(w)]

\* find_bitmap: the first of n clusters that are free, from c on and around.
FindBitmap(v, c, n) ==
    LET s == IF c \in Clusters THEN c - 2 ELSE 0
        at(i) == ((s + i) % (N - 2)) + 2
        runs == {i \in 0 .. N - 2 - n : \A j \in 0 .. n - 1 : at(i + j) \notin v.bitmap}
    IN  IF runs = {} THEN 0 ELSE at(CHOOSE i \in runs : \A j \in runs : i <= j)

\* Mutant: the links of the contiguous start are not written.
FilledNot(v, o) ==
    [v |-> v, o |-> IF o.stat = 3 THEN [o EXCEPT !.stat = 0] ELSE o]

\* fill_fat_chain
Filled(v, o) ==
    IF o.stat # 3 THEN [v |-> v, o |-> o]
    ELSE [v |-> [v EXCEPT !.fat = [c \in Clusters |->
                    IF c - o.sclust \in 0 .. o.n_cont - 1 THEN c + 1 ELSE @[c]]],
          o |-> [o EXCEPT !.stat = 0]]
-----------------------------------------------------------------------------
(* create_chain and remove_chain *)

Suggested(v) == IF v.last = 0 \/ v.last >= N THEN 1 ELSE v.last

\* The status of a chain that gets cluster n behind c.
Status(o, c, n) ==
    IF c = 0 THEN [o EXCEPT !.stat = 2]
    ELSE IF o.stat = 2 /\ n # c + 1 THEN [o EXCEPT !.stat = 3, !.n_cont = c - o.sclust]
    ELSE o

\* create_chain: behind cluster c of o, or a new chain.  c is what it returns.
CreateChain(v, o, c) ==
    LET cs == IF c = 0 THEN EOC ELSE GetFat(v, o, c)
        n == FindBitmap(v, IF c = 0 THEN Suggested(v) ELSE c, 1)
        s == Status(o, c, n)
        linked == [d \in Clusters |-> IF s.stat = 2 \/ d \notin {c, n} THEN v.fat[d]
                                      ELSE IF d = n THEN EOC ELSE n]
    IN  IF cs # EOC \/ n = 0 THEN [v |-> v, o |-> o, c |-> IF cs # EOC THEN cs ELSE 0]
        ELSE [v |-> [fat |-> linked, bitmap |-> v.bitmap \cup {n}, last |-> n], o |-> s, c |-> n]

\* What remove_chain frees when it finds the clusters w: whole blocks, up to the
\* end of the chain or to the block a bad link is found in.
Freed(w) ==
    LET n == Len(w) - 1
        ends == {i \in 1 .. n : w[i + 1] # w[i] + 1 /\ w[i + 1] \notin {0, 1}}
    IN  {w[i] : i \in {j \in 1 .. n : \E e \in ends : j <= e}}

\* remove_chain: the chain of o from cluster c on, which is behind p if p # 0.
RemoveChain(v, o, c, p) ==
    LET u == IF p = 0 \/ o.stat = 2 THEN v ELSE [v EXCEPT !.fat[p] = EOC]
        w == Walk(u, o, c)
    IN  [v |-> [u EXCEPT !.bitmap = @ \ Freed(w)],
         o |-> IF w[Len(w)] = 1 THEN o
               ELSE IF p = 0 THEN [o EXCEPT !.stat = 0]
               ELSE IF o.stat = 3 /\ p \in o.sclust .. o.sclust + o.n_cont THEN [o EXCEPT !.stat = 2]
               ELSE o]
-----------------------------------------------------------------------------
(* Open files *)

\* f_open of a file that is there.
Open(f) ==
    /\ f \in made \ open
    /\ obj' = [obj EXCEPT ![f] = ent[f]] /\ open' = open \cup {f}
    /\ UNCHANGED <<vol, ent, made, own>>

\* f_open with FA_CREATE_ALWAYS of a file that is there.
Overwrite(f) ==
    LET o == ent[f]
        r == RemoveChain(vol, o, o.sclust, 0)
    IN  /\ f \in made \ open
        /\ vol' = IF o.sclust = 0 THEN vol ELSE [r.v EXCEPT !.last = o.sclust - 1]
        /\ ent' = [ent EXCEPT ![f] = NoChain] /\ obj' = [obj EXCEPT ![f] = NoChain]
        /\ open' = open \cup {f} /\ own' = [own EXCEPT ![f] = <<>>]
        /\ UNCHANGED made

\* A turn of the loop of f_write, or of f_lseek, at the end of the last cluster.
\* Each of them makes the size right before it asks for the next cluster.
Grow(f) ==
    LET o == obj[f]
        r == CreateChain(vol, o, LastOf(vol, o))
    IN  /\ f \in open /\ o.size < MaxSize /\ r.c \in Clusters
        /\ vol' = r.v
        /\ obj' = [obj EXCEPT ![f] = [r.o EXCEPT !.size = @ + 1,
                                                 !.sclust = IF @ = 0 THEN r.c ELSE @]]
        /\ own' = [own EXCEPT ![f] = Append(@, r.c)]
        /\ UNCHANGED <<ent, made, open>>

\* f_truncate at the end of cluster k of the file, or at its start.
Truncate(f, k) ==
    LET o == obj[f]
        p == IF k = 0 THEN 0 ELSE Chain(vol, o)[k]
        c == IF k = 0 THEN o.sclust ELSE GetFat(vol, o, p)
        r == RemoveChain(vol, o, c, p)
    IN  /\ f \in open /\ k < o.size
        /\ vol' = r.v
        /\ obj' = [obj EXCEPT ![f] = [r.o EXCEPT !.size = k, !.sclust = IF k = 0 THEN 0 ELSE @]]
        /\ own' = [own EXCEPT ![f] = SubSeq(@, 1, k)]
        /\ UNCHANGED <<ent, made, open>>

\* f_expand of an empty file to k clusters; without opt it only looks for them.
\* Not where the free clusters found go around the end of the volume.
Expand(f, k, opt) ==
    LET stcl == IF vol.last \in Clusters THEN vol.last ELSE 2
        scl == FindBitmap(vol, stcl, k)
        block == scl .. scl + k - 1
    IN  /\ f \in open /\ obj[f].size = 0
        /\ scl # 0 /\ block \subseteq Clusters
        /\ IF opt
           THEN /\ vol' = [vol EXCEPT !.bitmap = @ \cup block, !.last = scl + k - 1]
                /\ obj' = [obj EXCEPT ![f] = [@ EXCEPT !.sclust = scl, !.size = k, !.stat = 2]]
                /\ own' = [own EXCEPT ![f] = [i \in 1 .. k |-> scl + i - 1]]
           ELSE vol' = [vol EXCEPT !.last = scl - 1] /\ UNCHANGED <<obj, own>>
        /\ UNCHANGED <<ent, made, open>>

\* f_sync, and f_close: the links that are missing, then the entry.
Sync(f, close) ==
    LET r == Filled(vol, obj[f])
    IN  /\ f \in open
        /\ vol' = r.v
        /\ ent' = [ent EXCEPT ![f] = [r.o EXCEPT !.n_cont = 0]]
        /\ obj' = [obj EXCEPT ![f] = IF close THEN NoChain ELSE r.o]
        /\ open' = IF close THEN open \ {f} ELSE open
        /\ UNCHANGED <<made, own>>
-----------------------------------------------------------------------------
(* Directories *)

\* dir_register in the table of o, when it is full: the table gets one cluster
\* more, and the entry of the directory is written.
Stretched(v, o) ==
    LET r == CreateChain(v, o, LastOf(v, o))
        s == Filled(r.v, [r.o EXCEPT !.size = @ + 1])
    IN  [v |-> s.v, o |-> [s.o EXCEPT !.n_cont = 0], c |-> r.c]

\* An entry is registered in directory d, which is full.
Registers(d) ==
    LET r == Stretched(vol, ent[d])
    IN  /\ d \in Dirs \cap made /\ ent[d].size < MaxSize /\ r.c \in Clusters
        /\ vol' = r.v /\ ent' = [ent EXCEPT ![d] = r.o]
        /\ own' = [own EXCEPT ![d] = Append(@, r.c)]

\* f_open that creates a file; the table may have room for it.
Create(f) ==
    /\ f \in Files \ made
    /\ (\E d \in Dirs : Registers(d)) \/ UNCHANGED <<vol, ent, own>>
    /\ made' = made \cup {f} /\ open' = open \cup {f}
    /\ obj' = [obj EXCEPT ![f] = NoChain]

\* f_rename: the second entry of the object may stretch a table.
Rename(x) ==
    /\ x \in made \ open
    /\ \E d \in Dirs \ {x} : Registers(d)
    /\ UNCHANGED <<obj, made, open>>

\* f_unlink of a file that is not open, or of an empty directory.
Unlink(x) ==
    /\ x \in made \ open
    /\ vol' = IF ent[x].sclust = 0 THEN vol ELSE RemoveChain(vol, ent[x], ent[x].sclust, 0).v
    /\ ent' = [ent EXCEPT ![x] = NoChain] /\ made' = made \ {x}
    /\ own' = [own EXCEPT ![x] = <<>>]
    /\ UNCHANGED <<obj, open>>

NewDir(c, size) == [sclust |-> c, size |-> size, stat |-> 2, n_cont |-> 0]

\* f_mkdir in the root directory, whose table has room.
MakeInRoot(d) ==
    LET r == CreateChain(vol, NoChain, 0)
    IN  /\ d \in Dirs \ made /\ r.c \in Clusters
        /\ vol' = r.v /\ ent' = [ent EXCEPT ![d] = NewDir(r.c, 1)]
        /\ own' = [own EXCEPT ![d] = <<r.c>>] /\ made' = made \cup {d}
        /\ UNCHANGED <<obj, open>>

\* f_mkdir in directory p.  The new chain is made with the object of p, whose
\* status and size it overwrites before p is searched for room: only the first
\* cluster of p is looked at.
MadeWith(p) == LET r == CreateChain(vol, ent[p], 0)
               IN  [r EXCEPT !.o = [@ EXCEPT !.size = 1]]

\* There is room in that cluster.
MakeIn(p, d) ==
    LET r == MadeWith(p)
    IN  /\ p \in Dirs \cap made /\ d \in Dirs \ made /\ r.c \in Clusters
        /\ vol' = r.v /\ ent' = [ent EXCEPT ![d] = NewDir(r.c, 1)]
        /\ own' = [own EXCEPT ![d] = <<r.c>>] /\ made' = made \cup {d}
        /\ UNCHANGED <<obj, open>>

\* There is none: p is stretched behind its first cluster, and the new directory
\* gets the size of p; or the cluster is given back.
MakeInFull(p, d) ==
    LET r == MadeWith(p)
        s == Stretched(r.v, r.o)
    IN  /\ p \in Dirs \cap made /\ d \in Dirs \ made /\ r.c \in Clusters
        /\ IF s.c \in Clusters
           THEN /\ ent[p].size < MaxSize /\ vol' = s.v
                /\ ent' = [ent EXCEPT ![d] = NewDir(r.c, s.o.size), ![p] = s.o]
                /\ own' = [own EXCEPT ![d] = <<r.c>>, ![p] = Append(@, s.c)]
                /\ made' = made \cup {d}
           ELSE /\ vol' = RemoveChain(r.v, r.o, r.c, 0).v
                /\ UNCHANGED <<ent, own, made>>
        /\ UNCHANGED <<obj, open>>
-----------------------------------------------------------------------------
Next ==
    \/ \E f \in Files :
          \/ Open(f) \/ Overwrite(f) \/ Create(f) \/ Grow(f)
          \/ \E k \in 0 .. MaxSize : Truncate(f, k)
          \/ \E k \in 1 .. MaxSize, opt \in BOOLEAN : Expand(f, k, opt)
          \/ \E close \in BOOLEAN : Sync(f, close)
    \/ \E x \in Objs : Rename(x) \/ Unlink(x)
    \/ \E d \in Dirs : MakeInRoot(d) \/ \E p \in Dirs : MakeIn(p, d)

Spec == Init /\ [][Next]_vars

\* With directories that fill up under f_mkdir too.
SpecAll == Init /\ [][Next \/ \E p, d \in Dirs : MakeInFull(p, d)]_vars
-----------------------------------------------------------------------------
\* The object that leads to the chain of x.
Current(x) == IF x \in open THEN obj[x] ELSE ent[x]

\* Whatever the status of its chain, following it gives the clusters an object
\* was given, in their order and to their end, though the links of freed chains
\* stay in the FAT; and the bitmap has these clusters and no other.
ChainsReadRight ==
    /\ \A x \in made : LET o == Current(x)
                       IN  /\ o.size = Len(own[x])
                           /\ Chain(vol, o) = own[x]
                           /\ o.size > 0 => GetFat(vol, o, LastOf(vol, o)) = EOC
    /\ \A x, y \in made : x # y => Range(own[x]) \cap Range(own[y]) = {}
    /\ vol.bitmap = UNION {Range(own[x]) : x \in made}

\* "Object size (valid when sclust != 0)" (ff.h:146): the entry of a directory
\* tells how many clusters its table has.
DirSizeValid == \A d \in Dirs \cap made : ent[d].size = Len(own[d])
=============================================================================
