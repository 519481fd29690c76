------------------------------ MODULE FatChains ------------------------------
(***************************************************************************)
(* The cluster allocator of a FAT12/16/32 volume (fatfs/ff.c): create_chain,*)
(* remove_chain, f_expand and f_getfree over the FAT, the counters they    *)
(* keep (free_clst, last_clst) and the start clusters of the files and     *)
(* directories they work for.  Each step changes one FAT entry, so that a  *)
(* disk error can stop a call between any two entries.  FAT entries are    *)
(* read and written through the access window (FatWindow), which makes     *)
(* them a store whose reads return the last write.                         *)
(***************************************************************************)
EXTENDS Integers, FiniteSets

CONSTANTS
    N,          \* fs->n_fatent: clusters are 2 .. N - 1
    Files,      \* files and directories that are created and removed
    Root,       \* the root directory, an object with a chain on FAT32
    Fat32,      \* whether the volume is FAT32
    WordMod,    \* 2^32: counters are DWORDs
    MaxExpand,  \* largest block asked of f_expand; 0 when it is not used
    Nobody, Stray, Cut, Block   \* cluster owners that are not objects

Objs == IF Fat32 THEN Files \cup {Root} ELSE Files
Clusters == 2 .. N - 1
EOC == N                      \* stands for every entry value >= n_fatent
Unknown == WordMod - 1        \* 0xFFFFFFFF
Total == N - 2

ASSUME SizeAssumption ==
    /\ N \in Nat /\ N >= 4
    /\ WordMod \in Nat /\ WordMod > 2 * N
    /\ MaxExpand \in 0 .. N - 2
ASSUME FileAssumption ==
    /\ Root \notin Files
    /\ Nobody \notin {Stray, Cut, Block} /\ Stray \notin {Cut, Block} /\ Cut # Block
    /\ {Nobody, Stray, Cut, Block} \cap (Files \cup {Root}) = {}
ASSUME SwitchAssumption == Fat32 \in BOOLEAN

VARIABLES
    fat,        \* the FAT: 0 free, a cluster, or EOC
    sclust,     \* obj.sclust of each object: 0 or its first cluster
    free_clst,  \* fs->free_clst
    last_clst,  \* fs->last_clst
    call,       \* the running call: name, object and the loop's clusters
    ret,        \* result of the call that completed last
    owner,      \* history: the object a cluster was given to, or Nobody;
                \*   Cut while remove_chain is freeing it, Block while f_expand
                \*   is linking it, Stray after a failed call dropped it
    rank,       \* history: the position of a cluster in its owner's chain
    sound       \* no call fails half-way in this behaviour: the same in all of
                \*   its states

vars == <<fat, sclust, free_clst, last_clst, call, ret, owner, rank, sound>>
counters == <<free_clst, last_clst>>

DiskErrors == ~sound    \* get_fat and put_fat may return FR_DISK_ERR

FreeSet == {c \in Clusters : fat[c] = 0}
Owned(o) == {c \in Clusters : owner[c] = o}

Idle == [name |-> "idle", obj |-> Root, c |-> 0, n |-> 0, h |-> 0]
Calls == [name : {"idle", "link", "free", "expand"},
          obj : Files \cup {Root}, c : 0 .. N, n : 0 .. N, h : 0 .. N]

Init ==
    /\ fat = [c \in Clusters |-> IF Fat32 /\ c = 2 THEN EOC ELSE 0]
    /\ sclust = [o \in Objs |-> IF o = Root THEN 2 ELSE 0]
    /\ free_clst \in {Unknown, Cardinality(FreeSet)}
    /\ last_clst = Unknown
    /\ call = Idle
    /\ ret = "OK"
    /\ owner = [c \in Clusters |-> IF Fat32 /\ c = 2 THEN Root ELSE Nobody]
    /\ rank = [c \in Clusters |-> IF Fat32 /\ c = 2 THEN 1 ELSE 0]
    /\ sound \in BOOLEAN

\* A call fails: the clusters it was working on lead nowhere any more.
Drop(w) ==
    /\ owner' = [c \in Clusters |-> IF owner[c] = w THEN Stray ELSE owner[c]]
    /\ rank' = [c \in Clusters |-> IF owner[c] = w THEN 0 ELSE rank[c]]
-----------------------------------------------------------------------------
(* create_chain *)

\* How far the search that starts after cluster s goes before it reaches c:
\* upwards to the end of the FAT, then from cluster 2 up to s itself.
Ahead(s, c) == IF c > s THEN c - s ELSE c - s + N

\* Mutant: a cluster that ends a chain is taken for a free one.
FindsEnd(s, c) ==
    /\ c \in Clusters /\ fat[c] \in {0, EOC}
    /\ \A d \in Clusters : fat[d] \in {0, EOC} => Ahead(s, c) <= Ahead(s, d)

\* c is the free cluster the search that starts after s finds.
Finds(s, c) == c \in FreeSet /\ \A d \in FreeSet : Ahead(s, c) <= Ahead(s, d)

\* Where the search for a new chain starts from.
Suggested == IF last_clst = 0 \/ last_clst >= N THEN 1 ELSE last_clst

\* A counter of free clusters is only maintained while it is below the total.
LessFree(n) == IF free_clst < Total THEN (free_clst - n) % WordMod ELSE free_clst

MoreFree == IF free_clst < Total THEN free_clst + 1 ELSE free_clst

\* create_chain(obj, 0): mark a free cluster EOC; it becomes obj.sclust.
CreateChain(o) ==
    /\ call = Idle /\ sclust[o] = 0
    /\ \E c \in Clusters :
          /\ Finds(Suggested, c)
          /\ fat' = [fat EXCEPT ![c] = EOC]
          /\ sclust' = [sclust EXCEPT ![o] = c]
          /\ last_clst' = c
          /\ owner' = [owner EXCEPT ![c] = o]
          /\ rank' = [rank EXCEPT ![c] = 1]
    /\ free_clst' = LessFree(1)
    /\ ret' = "OK"
    /\ UNCHANGED call

\* create_chain(obj, clst), the end of a chain: mark a free cluster EOC first.
StretchChain(o, clst) ==
    /\ call = Idle /\ owner[clst] = o /\ fat[clst] = EOC
    /\ \E c \in Clusters :
          /\ Finds(clst, c)
          /\ fat' = [fat EXCEPT ![c] = EOC]
          /\ owner' = [owner EXCEPT ![c] = Block]
          /\ rank' = [rank EXCEPT ![c] = rank[clst] + 1]
          /\ call' = [name |-> "link", obj |-> o, c |-> clst, n |-> c, h |-> 0]
    /\ UNCHANGED <<sclust, counters, ret>>

\* Mutant: a stretched chain is not counted.
LinkClusterNoCount ==
    /\ call.name = "link"
    /\ fat' = [fat EXCEPT ![call.c] = call.n]
    /\ last_clst' = call.n
    /\ owner' = [owner EXCEPT ![call.n] = call.obj]
    /\ call' = Idle /\ ret' = "OK"
    /\ UNCHANGED <<sclust, free_clst, rank>>

\* ... and then link it from the previous end.
LinkCluster ==
    /\ call.name = "link"
    /\ fat' = [fat EXCEPT ![call.c] = call.n]
    /\ last_clst' = call.n
    /\ free_clst' = LessFree(1)
    /\ owner' = [owner EXCEPT ![call.n] = call.obj]
    /\ call' = Idle /\ ret' = "OK"
    /\ UNCHANGED <<sclust, rank>>

\* The second put_fat fails: the new cluster stays marked and unlinked.
LinkFails ==
    /\ DiskErrors /\ call.name = "link"
    /\ Drop(Block)
    /\ call' = Idle /\ ret' = "DISK_ERR"
    /\ UNCHANGED <<fat, sclust, counters>>

\* No cluster is free: create_chain returns 0.
DiskFull ==
    /\ call = Idle /\ FreeSet = {}
    /\ ret' = "FULL"
    /\ UNCHANGED <<fat, sclust, counters, call, owner, rank>>

\* A FAT access fails before the call has changed an entry.
CallFails ==
    /\ DiskErrors /\ call = Idle
    /\ ret' = "DISK_ERR"
    /\ UNCHANGED <<fat, sclust, counters, call, owner, rank>>
-----------------------------------------------------------------------------
(* remove_chain *)

\* remove_chain(obj, sclust, 0).  f_unlink and f_open(CREATE_ALWAYS) clear the
\* start cluster in the directory entry before it, f_truncate the one in the
\* file object after it; nothing reads it in between.  f_open then points
\* last_clst at the hole (h).
RemoveChain(o, hole) ==
    /\ call = Idle /\ o \in Files /\ sclust[o] # 0
    /\ sclust' = [sclust EXCEPT ![o] = 0]
    /\ owner' = [c \in Clusters |-> IF owner[c] = o THEN Cut ELSE owner[c]]
    /\ call' = [name |-> "free", obj |-> o, c |-> sclust[o], n |-> 0,
                h |-> IF hole THEN sclust[o] ELSE 0]
    /\ UNCHANGED <<fat, counters, ret, rank>>

\* Mutant: the cluster before the cut is not marked as the end.
TruncateChainNoEnd(o, clst) ==
    /\ call = Idle /\ o \in Files /\ owner[clst] = o /\ fat[clst] \in Clusters
    /\ owner' = [c \in Clusters |->
                    IF owner[c] = o /\ rank[c] > rank[clst] THEN Cut ELSE owner[c]]
    /\ call' = [name |-> "free", obj |-> o, c |-> fat[clst], n |-> 0, h |-> 0]
    /\ UNCHANGED <<fat, sclust, counters, ret, rank>>

\* f_truncate in the middle of a file: remove_chain(obj, next of clst, clst)
\* marks clst as the end of the chain and then frees the rest.
TruncateChain(o, clst) ==
    /\ call = Idle /\ o \in Files /\ owner[clst] = o /\ fat[clst] \in Clusters
    /\ fat' = [fat EXCEPT ![clst] = EOC]
    /\ owner' = [c \in Clusters |->
                    IF owner[c] = o /\ rank[c] > rank[clst] THEN Cut ELSE owner[c]]
    /\ call' = [name |-> "free", obj |-> o, c |-> fat[clst], n |-> 0, h |-> 0]
    /\ UNCHANGED <<sclust, counters, ret, rank>>

\* Mutant: the loop stops at the last cluster instead of behind it.
FreeClusterButLast ==
    /\ call.name = "free"
    /\ LET nxt == fat[call.c] IN
       /\ fat' = [fat EXCEPT ![call.c] = 0]
       /\ free_clst' = IF nxt = 0 THEN free_clst ELSE MoreFree
       /\ owner' = [owner EXCEPT ![call.c] = Nobody]
       /\ rank' = [rank EXCEPT ![call.c] = 0]
       /\ IF nxt \in Clusters /\ fat[nxt] # EOC
          THEN call' = [call EXCEPT !.c = nxt] /\ UNCHANGED <<last_clst, ret>>
          ELSE /\ call' = Idle /\ ret' = "OK"
               /\ last_clst' = IF call.h = 0 THEN last_clst ELSE call.h - 1
    /\ UNCHANGED sclust

\* One turn of the loop: the entry is read, then set to 0.  An entry that is 0
\* already ends the loop.
FreeCluster ==
    /\ call.name = "free"
    /\ LET nxt == fat[call.c] IN
       /\ fat' = [fat EXCEPT ![call.c] = 0]
       /\ free_clst' = IF nxt = 0 THEN free_clst ELSE MoreFree
       /\ owner' = [owner EXCEPT ![call.c] = Nobody]
       /\ rank' = [rank EXCEPT ![call.c] = 0]
       /\ IF nxt \in Clusters
          THEN call' = [call EXCEPT !.c = nxt] /\ UNCHANGED <<last_clst, ret>>
          ELSE /\ call' = Idle /\ ret' = "OK"
               /\ last_clst' = IF call.h = 0 THEN last_clst ELSE call.h - 1
    /\ UNCHANGED sclust

\* get_fat or put_fat fails inside the loop: the rest of the chain stays
\* allocated with nothing that leads to it.
FreeFails ==
    /\ DiskErrors /\ call.name = "free"
    /\ Drop(Cut)
    /\ call' = Idle /\ ret' = "DISK_ERR"
    /\ UNCHANGED <<fat, sclust, counters>>
-----------------------------------------------------------------------------
(* f_expand *)

\* The clusters in the order f_expand's search looks at them.
StartAt == IF last_clst \in Clusters THEN last_clst ELSE 2
Visited(i) == IF StartAt + i < N THEN StartAt + i ELSE StartAt + i - Total

\* The search stops at the first tcl free entries in a row; the run goes on
\* where the search wraps around from the end of the FAT to cluster 2.
Run(i, tcl) == i + tcl <= Total /\ \A k \in i .. i + tcl - 1 : fat[Visited(k)] = 0
FindsBlock(i, tcl) == Run(i, tcl) /\ \A k \in 0 .. i - 1 : ~Run(k, tcl)

\* f_expand(fp, size, opt) on an empty file: without opt it only suggests the
\* block to the next allocation, with it the block is linked to the file.  In a
\* sound behaviour no block to be linked goes on past the end of the FAT, where
\* the loop that links it would fail (ExpandFails).
Expand(o, tcl, opt) ==
    /\ call = Idle /\ o \in Files /\ sclust[o] = 0
    /\ \E i \in 0 .. Total - 1 :
          /\ FindsBlock(i, tcl)
          /\ IF opt
             THEN /\ sound => Visited(i) + tcl <= N
                  /\ call' = [name |-> "expand", obj |-> o, c |-> Visited(i),
                              n |-> tcl, h |-> Visited(i)]
                  /\ UNCHANGED <<last_clst, ret>>
             ELSE /\ last_clst' = Visited(i) - 1
                  /\ ret' = "OK"
                  /\ UNCHANGED call
    /\ UNCHANGED <<fat, sclust, free_clst, owner, rank>>

\* No such block: FR_DENIED.
ExpandDenied(o, tcl) ==
    /\ call = Idle /\ o \in Files /\ sclust[o] = 0
    /\ \A i \in 0 .. Total - 1 : ~Run(i, tcl)
    /\ ret' = "DENIED"
    /\ UNCHANGED <<fat, sclust, counters, call, owner, rank>>

\* Mutant: the last cluster of the block is linked to its neighbour too.
ExpandLinkOpenEnd ==
    /\ call.name = "expand" /\ call.c \in Clusters
    /\ fat' = [fat EXCEPT ![call.c] = call.c + 1]
    /\ rank' = [rank EXCEPT ![call.c] = call.c - call.h + 1]
    /\ IF call.n = 1
       THEN /\ sclust' = [sclust EXCEPT ![call.obj] = call.h]
            /\ owner' = [c \in Clusters |-> IF c \in call.h .. call.c
                                            THEN call.obj ELSE owner[c]]
            /\ last_clst' = call.c
            /\ free_clst' = LessFree(call.c - call.h + 1)
            /\ call' = Idle /\ ret' = "OK"
       ELSE /\ owner' = [owner EXCEPT ![call.c] = Block]
            /\ call' = [call EXCEPT !.c = @ + 1, !.n = @ - 1]
            /\ UNCHANGED <<sclust, counters, ret>>

\* One put_fat of the block: the last cluster ends the chain, another one is
\* linked to its neighbour.
ExpandLink ==
    /\ call.name = "expand" /\ call.c \in Clusters
    /\ fat' = [fat EXCEPT ![call.c] = IF call.n = 1 THEN EOC ELSE call.c + 1]
    /\ rank' = [rank EXCEPT ![call.c] = call.c - call.h + 1]
    /\ IF call.n = 1
       THEN /\ sclust' = [sclust EXCEPT ![call.obj] = call.h]
            /\ owner' = [c \in Clusters |-> IF c \in call.h .. call.c
                                            THEN call.obj ELSE owner[c]]
            /\ last_clst' = call.c
            /\ free_clst' = LessFree(call.c - call.h + 1)
            /\ call' = Idle /\ ret' = "OK"
       ELSE /\ owner' = [owner EXCEPT ![call.c] = Block]
            /\ call' = [call EXCEPT !.c = @ + 1, !.n = @ - 1]
            /\ UNCHANGED <<sclust, counters, ret>>

\* put_fat is given a cluster past the end of the FAT, or fails: the entries
\* written so far stay.
ExpandFails ==
    /\ call.name = "expand"
    /\ \/ call.c \notin Clusters /\ ret' = "INT_ERR"
       \/ DiskErrors /\ ret' = "DISK_ERR"
    /\ Drop(Block)
    /\ call' = Idle
    /\ UNCHANGED <<fat, sclust, counters>>
-----------------------------------------------------------------------------
(* f_getfree and mounting *)

\* A counter that is not above the total is returned as it is; otherwise the
\* FAT is scanned.  A scan that fails half-way leaves what it has counted.
GetFree ==
    /\ call = Idle
    /\ \/ free_clst <= Total /\ ret' = "OK" /\ UNCHANGED free_clst
       \/ /\ free_clst > Total
          /\ free_clst' = Cardinality(FreeSet)
          /\ ret' = "OK"
       \/ /\ free_clst > Total /\ DiskErrors
          /\ \E k \in Clusters : free_clst' = Cardinality(FreeSet \cap 2 .. k - 1)
          /\ ret' = "DISK_ERR"
    /\ UNCHANGED <<fat, sclust, last_clst, call, owner, rank>>

\* A new mount knows no counters.  (One that finds those of the last sync_fs in
\* FSInfo changes nothing here.)
Remount ==
    /\ call = Idle
    /\ free_clst' = Unknown /\ last_clst' = Unknown
    /\ UNCHANGED <<fat, sclust, call, ret, owner, rank>>
-----------------------------------------------------------------------------
Create ==
    \/ \E o \in Objs : CreateChain(o) \/ \E c \in Clusters : StretchChain(o, c)
    \/ DiskFull \/ CallFails
Remove == \E o \in Files : \/ \E hole \in BOOLEAN : RemoveChain(o, hole)
                           \/ \E c \in Clusters : TruncateChain(o, c)
Contiguous == \E o \in Files, n \in 1 .. MaxExpand :
                 ExpandDenied(o, n) \/ \E opt \in BOOLEAN : Expand(o, n, opt)

\* The steps of a call that is running.
Proceed == LinkCluster \/ LinkFails \/ FreeCluster \/ FreeFails
           \/ ExpandLink \/ ExpandFails

Step == Create \/ Remove \/ Contiguous \/ GetFree \/ Remount \/ Proceed

Next == Step /\ sound' = sound

Spec == Init /\ [][Next]_vars
-----------------------------------------------------------------------------
\* Types of the FAT, the counters and the running call.
TypeOK ==
    /\ fat \in [Clusters -> {0} \cup Clusters \cup {EOC}]
    /\ sclust \in [Objs -> {0} \cup Clusters]
    /\ free_clst \in 0 .. WordMod - 1
    /\ last_clst \in 0 .. WordMod - 1
    /\ call \in Calls
    /\ ret \in {"OK", "FULL", "DENIED", "INT_ERR", "DISK_ERR"}
    /\ owner \in [Clusters -> Objs \cup {Nobody, Stray, Cut, Block}]
    /\ rank \in [Clusters -> Nat]

\* The clusters met by following the FAT from an object's first cluster: the
\* smallest set that has it and is closed under links.
Closed(S) == \A c \in S : fat[c] \in Clusters => fat[c] \in S
Reach(o) == {c \in Clusters : /\ sclust[o] # 0
                              /\ \A S \in SUBSET Clusters :
                                    sclust[o] \in S /\ Closed(S) => c \in S}

\* No cluster is in the chains of two objects, whatever order chains were
\* created, stretched, cut and removed in, and wherever a call failed.
NoCrossLink ==
    \A o, p \in Objs : o # p => Reach(o) \cap Reach(p) = {}

\* No chain leads to a cluster that the FAT marks free, and the next
\* create_chain could hand out again.
NoDanglingChain == \A o \in Objs : \A c \in Reach(o) : fat[c] # 0

\* As long as no call fails half-way, every cluster in use between calls is in
\* the chain of an object: remove_chain frees all of a chain.
NoLostCluster ==
    sound /\ call = Idle =>
        {c \in Clusters : fat[c] # 0} = UNION {Reach(o) : o \in Objs}

\* As long as no call fails half-way, a count that f_getfree would return
\* between calls without a scan is the number of free clusters ("Number of free
\* clusters", ff.h:115).  On FAT12/16 a count of the total is left out: it is
\* not updated any more.
FreeCountExact ==
    sound /\ call = Idle /\ free_clst <= (IF Fat32 THEN Total ELSE Total - 1) =>
        free_clst = Cardinality(FreeSet)

\* A step changes an entry in the chain of an object only in a call made for
\* that object: no call reaches into the chain of another file.
OnlyOwnChain ==
    [][\A o \in Objs : \A c \in Reach(o) :
          fat'[c] # fat[c] =>
             \/ call.name # "idle" /\ call.obj = o
             \/ call'.name # "idle" /\ call'.obj = o]_vars
-----------------------------------------------------------------------------
(* The structure behind NoCrossLink and NoDanglingChain *)

Chained == Objs \cup {Cut}

\* A cluster is free exactly when it has no owner.
FreeIsNobodys == \A c \in Clusters : owner[c] = Nobody <=> fat[c] = 0

\* A link stays with its owner and goes to the next position.
LinksStay ==
    \A c \in Clusters : owner[c] \in Chained /\ fat[c] \in Clusters =>
        owner[fat[c]] = owner[c] /\ rank[fat[c]] = rank[c] + 1

\* No two clusters of a chain have one position, and the last one ends it.
RanksDiffer ==
    \A c, d \in Clusters : owner[c] = owner[d] /\ owner[c] \in Chained =>
        /\ rank[c] = rank[d] => c = d
        /\ fat[c] = EOC => rank[d] <= rank[c]

\* An object without a first cluster owns none; otherwise its chain starts there.
HeadsOwned ==
    \A o \in Objs :
        /\ sclust[o] = 0 => Owned(o) = {}
        /\ sclust[o] # 0 => owner[sclust[o]] = o /\ rank[sclust[o]] = 1
        /\ \A c \in Owned(o) : rank[c] >= 1

\* What the running call has taken out of the objects' chains or not put there.
InFlight ==
    /\ call.name # "free" => Owned(Cut) = {}
    /\ call.name \notin {"link", "expand"} => Owned(Block) = {}
    /\ call.name = "idle" => call = Idle
    /\ call.name = "free" =>
          /\ call.obj \in Files /\ owner[call.c] = Cut /\ call.c \in Clusters
          /\ \A c \in Owned(Cut) : rank[call.c] <= rank[c]
    /\ call.name = "link" =>
          /\ call.c \in Clusters /\ owner[call.c] = call.obj /\ fat[call.c] = EOC
          /\ call.obj \in Objs /\ Owned(Block) = {call.n} /\ fat[call.n] = EOC
          /\ rank[call.n] = rank[call.c] + 1
    /\ call.name = "expand" =>
          /\ call.obj \in Files /\ sclust[call.obj] = 0
          /\ call.h \in Clusters /\ call.c >= call.h /\ call.n >= 1
          /\ Owned(Block) = call.h .. call.c - 1
          /\ \A c \in Owned(Block) : fat[c] = c + 1 /\ rank[c] = c - call.h + 1
          /\ \A c \in Clusters : c \in call.c .. call.c + call.n - 1 => fat[c] = 0

\* The FAT is a set of disjoint chains, one for each object, plus what the
\* running call is working on and what failed calls have left behind.
ChainsLinked == FreeIsNobodys /\ LinksStay /\ RanksDiffer /\ HeadsOwned /\ InFlight
=============================================================================
