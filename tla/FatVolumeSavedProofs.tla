------------------------ MODULE FatVolumeSavedProofs ------------------------
(***************************************************************************)
(* What has been saved stays: the proof of SavedFilesSurvive of FatVolume. *)
(* The invariant SInv says, of the volume as the code sees it and of the   *)
(* medium, where the contents of each file are, what the rest of a call    *)
(* may still write, and that what the program saved is in both.            *)
(***************************************************************************)
EXTENDS FatVolumeProofs
-----------------------------------------------------------------------------
(* What is in the files                                                      *)

\* The clusters s, from c on, hold the first n parts of file id; part k may be in the buffer
\* that belongs to cluster d.
Parts(v, id, c, n, d, k, s) ==
    /\ s \in Seq(Clusters) /\ Len(s) = n
    /\ n > 0 => s[1] = c
    /\ \A i \in 1 .. n : v.fat[s[i]] # 0 /\ (v.has[s[i]] = Data(id, i) \/ (s[i] = d /\ i = k))
    /\ \A i \in 1 .. n - 1 : v.fat[s[i]] = s[i + 1]
Full(v, id, c, n) == \E s \in Seq(Clusters) : Parts(v, id, c, n, 0, 0, s)

\* A file object o, as g when its call has done what comes first, has all that it says in
\* the clusters s and its buffer.
FilFull(v, o, g, s) ==
    /\ Parts(v, o.id, g.clst, g.size, o.dirty, o.part, s)
    /\ o.dirty # 0 => o.part \in 1 .. o.size /\ (o.part <= g.size => s[o.part] = o.dirty)
FilsFull(v, F, G) == \A f \in Fils : F[f].open => \E s \in Seq(Clusters) : FilFull(v, F[f], G[f], s)

\* Every file has what its entry says, but for those in X.
EntriesFull(v, X) ==
    \A p \in All(v) : ~ At(v, p).dir /\ p \notin X => Full(v, At(v, p).id, At(v, p).clst, At(v, p).size)

\* The entries of the files that are cut; f_sync has repaired its own before it returns.
Cut(op, f, F, sh, todo) == IF op = "sync" /\ todo \in {<<>>, <<Sync>>} THEN sh \ {F[f].id} ELSE sh
CutPlaces(G, cut) == {Place(G[f]) : f \in {g \in Fils : G[g].open /\ G[g].id \in cut}}

\* What is on the medium d is there in the volume v, too.
BothFull(v, d, e) ==
    \E s \in Seq(Clusters) :
       Parts(d, e.id, e.clst, e.size, 0, 0, s) /\ Parts(v, e.id, e.clst, e.size, 0, 0, s)
DiskFull(v, d) == \A p \in All(d) : ~ At(d, p).dir => BothFull(v, d, At(d, p))

\* A file that is saved.
SavedAt(v, id, n, p, s) ==
    /\ p \in All(v) /\ ~ At(v, p).dir /\ At(v, p).id = id /\ At(v, p).size >= n
    /\ Parts(v, id, At(v, p).clst, n, 0, 0, s)
SavedIn(v, d, id, n) ==
    \E p \in Spots, q \in Spots, s \in Seq(Clusters) : SavedAt(v, id, n, p, s) /\ SavedAt(d, id, n, q, s)
SavedFull(v, d, sv, sh) ==
    \A id \in Ids : sv[id] # NotSaved => id \notin sh /\ sv[id] \in Nat /\ SavedIn(v, d, id, sv[id])

\* No entry on the medium is older than in the volume, ...
EntriesWritten(v, d) == \A p \in All(d) : p \in All(v) /\ At(v, p) = At(d, p)

\* ... but for one that is written back next.
FlushesBy(ch) == ch.do = "fat" \/ ch = Sync
Flushes(todo) == todo # <<>> /\ FlushesBy(Head(todo))
Written(v, d, w, todo) == EntriesWritten(v, d) \/ (Flushes(todo) /\ \E t \in Tables : w = TableSector(t))
-----------------------------------------------------------------------------
(* What is left of the calls *)

Frees == {SetFat(c, 0) : c \in Clusters} \cup {Move(TableSector(t)) : t \in Tables} \cup {Sync}

\* An entry is set that has no clusters: nothing is lost that is saved, and the entry is
\* written back before a cluster is freed.
EntryRuns(v, sv, todo) ==
    \/ todo \in Seq(Frees)
    \/ /\ todo # <<>> /\ Tail(todo) \in Seq(Frees)
       /\ \E t \in Tables, s \in 1 .. Slots, e \in Entries :
             /\ Head(todo) = SetEntry(t, s, e)
             /\ e = Unused \/ e.dir \/ e.size = 0
             /\ <<t, s>> \in All(v) =>
                   LET x == At(v, <<t, s>>)
                   IN  (x.dir \/ sv[x.id] = NotSaved) /\ (x = e \/ Flushes(Tail(todo)))

\* f_mkdir: the cluster, its table and its entry.
TableRuns(v, sv, todo) ==
    /\ todo # <<>> /\ EntryRuns(v, sv, Tail(todo))
    /\ \E c \in Clusters, up \in Tables : ~ IsTable(v, c) /\ Head(todo) = Put(c, Table(up))
SyncTable(v, sv, todo) == todo # <<>> /\ Head(todo) = Sync /\ TableRuns(v, sv, Tail(todo))
MakeRuns(v, sv, todo) ==
    \/ EntryRuns(v, sv, todo) \/ TableRuns(v, sv, todo) \/ SyncTable(v, sv, todo)
    \/ /\ todo # <<>> /\ SyncTable(v, sv, Tail(todo))
       /\ \E c \in Clusters : v.fat[c] = 0 /\ Head(todo) = SetFat(c, EOC)

\* The buffer of o is to be written, or is.
Buffer(o) == Put(o.dirty, Data(o.id, o.part))
BufferRuns(v, o, todo) ==
    \/ todo = WriteBuffer(o)
    \/ todo = <<>> /\ v.has[o.dirty] = Data(o.id, o.part)

\* f_write of part k in cluster c: the cluster is linked to those that are there, s, or is
\* going to be.
Linked(v, o, c, k, s) ==
    /\ v.fat[c] # 0
    /\ \/ k <= o.size /\ s[k] = c
       \/ k = o.size + 1 /\ IF k = 1 THEN o.clst \in {0, c} ELSE v.fat[s[k - 1]] = c
LinkRuns(v, o, c, k, s, todo) ==
    /\ todo # <<>> /\ k = o.size + 1 /\ k > 1 /\ v.fat[s[k - 1]] = EOC /\ v.fat[c] # 0
    /\ Head(todo) = SetFat(s[k - 1], c) /\ BufferRuns(v, o, Tail(todo))
NewRuns(v, o, c, k, s, todo) ==
    /\ todo # <<>> /\ Head(todo) = SetFat(c, EOC) /\ v.fat[c] = 0
    /\ \/ k = 1 /\ o.size = 0 /\ o.clst = 0 /\ BufferRuns(v, o, Tail(todo))
       \/ /\ Tail(todo) # <<>> /\ k = o.size + 1 /\ k > 1 /\ v.fat[s[k - 1]] = EOC
          /\ Head(Tail(todo)) = SetFat(s[k - 1], c) /\ BufferRuns(v, o, Tail(Tail(todo)))
WriteRuns(v, o, a, todo) ==
    LET c == a.dirty
        k == a.part
    IN  /\ c \in Clusters /\ k \in 1 .. o.size + 1 /\ a = Wrote(o, c, k)
        /\ \E s \in Seq(Clusters) :
              /\ FilFull(v, o, o, s)
              /\ \/ Linked(v, o, c, k, s) /\ BufferRuns(v, o, todo)
                 \/ LinkRuns(v, o, c, k, s, todo) \/ NewRuns(v, o, c, k, s, todo)

\* f_truncate: the chain is cut and the rest r of it is freed before the buffer is written.
FreeRuns(v, o, a, todo) ==
    \/ \E r \in Seq(Clusters) :
          /\ todo = FreeAll(r) \o WriteBuffer(o)
          /\ o.dirty # 0 /\ o.part > a.size => v.fat[o.dirty] = 0 \/ o.dirty \in Range(r)
    \/ todo = <<>> /\ v.has[o.dirty] = Data(o.id, o.part)
TruncateRuns(v, o, a, todo) ==
    /\ a = CutTo(o, a.size) /\ a.size \in Nat
    /\ \/ FreeRuns(v, o, a, todo)
       \/ /\ todo # <<>> /\ a.size > 0 /\ Head(todo) = SetFat(Chain(v, a.clst)[a.size], EOC)
          /\ FreeRuns(v, o, a, Tail(todo))

\* f_sync: the buffer, the entry, and sync_fs.
SetRuns(v, o, todo) ==
    /\ todo # <<>> /\ Head(todo) = SetEntry(o.t, o.s, SyncEntry(At(v, Place(o)), o))
    /\ Tail(todo) = <<Sync>>
SyncRuns(v, o, a, todo) ==
    /\ a \in {Synced(o), Closed}
    /\ \/ /\ SetRuns(v, o, todo) \/ (/\ todo \in {<<>>, <<Sync>>}
                                      /\ At(v, Place(o)).clst = o.clst /\ At(v, Place(o)).size = o.size)
          /\ o.dirty # 0 => v.has[o.dirty] = Data(o.id, o.part)
       \/ todo # <<>> /\ o.dirty # 0 /\ Head(todo) = Buffer(o) /\ SetRuns(v, o, Tail(todo))

\* f_rename: the entry at p, of a file that is not open, gets a second one at q; ".." is set,
\* and the first one is removed.
OldRuns(v, p, q, n, todo) ==
    /\ todo # <<>> /\ q \in All(v) /\ At(v, q) = n /\ Head(todo) = SetEntry(p[1], p[2], Unused)
    /\ Tail(todo) = <<Sync>>
UpRuns(v, p, q, n, todo) ==
    /\ todo # <<>> /\ q \in All(v) /\ At(v, q) = n /\ \E t, up \in Tables : Head(todo) = SetUp(t, up)
    /\ OldRuns(v, p, q, n, Tail(todo))
RenameRuns(v, F, todo) ==
    \/ todo \in {<<>>, <<Sync>>}
    \/ \E p, q \in Spots, n \in Entries :
          LET e == At(v, p)
          IN  /\ p # q /\ p \in All(v) /\ \A f \in Fils : F[f].open => Place(F[f]) # p
              /\ n # Unused /\ n.id = e.id /\ n.dir = e.dir /\ n.clst = e.clst /\ n.size = e.size
              /\ \/ OldRuns(v, p, q, n, todo) \/ UpRuns(v, p, q, n, todo)
                 \/ /\ todo # <<>> /\ q \notin All(v) /\ q[1] \in Reach(v)
                    /\ Head(todo) = SetEntry(q[1], q[2], n)
                    /\ LET w == Changed(v, Head(todo))
                       IN  OldRuns(w, p, q, n, Tail(todo)) \/ UpRuns(w, p, q, n, Tail(todo))

Runs(v, sv, F, op, f, a, todo) ==
    \/ /\ op = "open" /\ EntryRuns(v, sv, todo) /\ f \in Fils /\ ~ F[f].open
       /\ a.open /\ a.size = 0 /\ a.dirty = 0
    \/ op = "unlink" /\ f \notin Fils /\ EntryRuns(v, sv, todo)
    \/ op = "mkdir" /\ f \notin Fils /\ MakeRuns(v, sv, todo)
    \/ op = "write" /\ f \in Fils /\ F[f].open /\ WriteRuns(v, F[f], a, todo)
    \/ op = "truncate" /\ f \in Fils /\ F[f].open /\ TruncateRuns(v, F[f], a, todo)
    \/ op = "sync" /\ f \in Fils /\ F[f].open /\ SyncRuns(v, F[f], a, todo)
    \/ op = "rename" /\ f \notin Fils /\ RenameRuns(v, F, todo)
-----------------------------------------------------------------------------
(* The invariant *)

Intact(v, d, w, sv, sh, F, G, op, f, todo) ==
    /\ EntriesFull(v, CutPlaces(G, Cut(op, f, F, sh, todo)))
    /\ FilsFull(v, F, G)
    /\ op # "rename" /\ sh = {} => DiskFull(v, d)
    /\ SavedFull(v, d, sv, sh)
    /\ Written(v, d, w, todo)
    /\ IsTable(v, 0) /\ Rooted(v) /\ Rooted(d)
Ready(v, d, w, sv, sh, F, op, f, a, todo) ==
    /\ Intact(v, d, w, sv, sh, F, JobOf(op, f, a, F, sh).cur, op, f, todo)
    /\ Runs(v, sv, F, op, f, a, todo)
SInv ==
    ~ hurt => /\ saved \in [Ids -> Int]
              /\ IF call = Idle
                 THEN Intact(now, disk, win, saved, shrunk, fil, fil, "idle", "none", <<>>)
                 ELSE Ready(now, disk, win, saved, shrunk, fil, call.op, call.f, call.leaves, call.todo)
-----------------------------------------------------------------------------
(* The parts of a file *)

\* Nothing has no parts.
LEMMA PartsNone ==
    ASSUME NEW v, NEW id, NEW c, NEW d, NEW k
    PROVE  /\ <<>> \in Seq(Clusters) /\ Parts(v, id, c, 0, d, k, <<>>)
           /\ Full(v, id, c, 0)
<1>1. <<>> \in Seq(Clusters) /\ Len(<<>>) = 0
  OBVIOUS
<1>2. \A e, x : Parts(v, id, c, 0, e, x, <<>>)
  BY <1>1 DEF Parts
<1> QED BY <1>1, <1>2 DEF Full

\* What the parts are in.
LEMMA PartsTyped ==
    ASSUME NEW v, NEW id, NEW c, NEW n, NEW d, NEW k, NEW s, Parts(v, id, c, n, d, k, s)
    PROVE  /\ s \in Seq(Clusters) /\ Len(s) = n /\ n \in Nat
           /\ \A i \in 1 .. n : s[i] \in Clusters /\ v.fat[s[i]] # 0
           /\ n > 0 => c = s[1] /\ c \in Clusters /\ c # 0
<1>1. s \in Seq(Clusters) /\ Len(s) = n /\ n \in Nat
  BY LenProperties DEF Parts
<1>2. \A i \in 1 .. n : s[i] \in Clusters
  BY <1>1, ElementOfSeq
<1>3. n > 0 => 1 \in 1 .. n
  BY <1>1
<1> QED BY <1>1, <1>2, <1>3, Constants DEF Parts

\* They lie in the chain, in this order.
LEMMA PartsInChain ==
    ASSUME NEW v, NEW id, NEW c, NEW n, NEW d, NEW k, NEW s, Parts(v, id, c, n, d, k, s), Chained(v, c)
    PROVE  /\ n <= Len(Chain(v, c)) /\ \A i \in 1 .. n : s[i] = Chain(v, c)[i]
           /\ \A i \in 1 .. n : s[i] \in Own(v, c)
<1> DEFINE h == Chain(v, c)
           Good(i) == i <= Len(h) /\ s[i] = h[i]
           Bad == {i \in 1 .. n : ~ Good(i)}
<1>1. /\ s \in Seq(Clusters) /\ Len(s) = n /\ n \in Nat /\ Len(h) \in Nat
      /\ \A i \in 1 .. n : s[i] \in Clusters
  BY PartsTyped, ChainTyped
<1>2. n > 0 => c # 0 /\ s[1] = h[1] /\ Len(h) >= 1
  BY PartsTyped, ChainTyped
<1>3. ASSUME Bad # {}  PROVE FALSE
  <2>1. Bad \in SUBSET Nat
    BY <1>1
  <2>2. PICK m \in Bad : \A y \in Bad : m <= y
    BY <1>3, <2>1, Least
  <2>3. m \in 1 .. n /\ ~ Good(m)
    BY <2>2
  <2>4. m # 1
    BY <1>1, <1>2, <2>3
  <2>5. m - 1 \in 1 .. n - 1 /\ m - 1 \in 1 .. n /\ m - 1 \notin Bad
    BY <1>1, <2>2, <2>3, <2>4
  <2>6. m - 1 <= Len(h) /\ s[m - 1] = h[m - 1]
    BY <2>5
  <2>7. v.fat[s[m - 1]] = s[m]
    <3>1. \A i \in 1 .. n - 1 : v.fat[s[i]] = s[i + 1]
      BY DEF Parts
    <3>2. v.fat[s[m - 1]] = s[(m - 1) + 1] /\ (m - 1) + 1 = m
      BY <2>3, <2>5, <3>1
    <3> QED BY <3>2
  <2>8. v.fat[h[m - 1]] = IF m - 1 = Len(h) THEN EOC ELSE h[(m - 1) + 1]
    <3>1. c # 0 /\ m - 1 \in 1 .. Len(h)
      BY <1>1, <1>2, <2>5, <2>6
    <3> QED BY <3>1, ChainLeads
  <2>9. (m - 1) + 1 = m
    BY <2>3
  <2>10. m - 1 # Len(h) /\ s[m] = h[m]
    BY <1>1, <2>3, <2>6, <2>7, <2>8, <2>9, Constants
  <2>11. m <= Len(h)
    BY <1>1, <2>3, <2>6, <2>10
  <2> QED BY <2>3, <2>10, <2>11
<1>4. \A i \in 1 .. n : i <= Len(h) /\ s[i] = h[i]
  BY <1>3
<1>5. n <= Len(h)
  BY <1>1, <1>4
<1>6. \A i \in 1 .. n : s[i] \in Own(v, c)
  BY <1>1, <1>4, ChainTyped
<1> QED BY <1>4, <1>5, <1>6

\* The first of them are parts, too.
LEMMA PartsFirst ==
    ASSUME NEW v, NEW id, NEW c, NEW n, NEW d, NEW k, NEW s, Parts(v, id, c, n, d, k, s),
           NEW m \in Nat, m <= n
    PROVE  \E u \in Seq(Clusters) : Parts(v, id, c, m, d, k, u) /\ \A i \in 1 .. m : u[i] = s[i]
<1> DEFINE u == [i \in 1 .. m |-> s[i]]
<1>1. n \in Nat /\ \A i \in 1 .. n : s[i] \in Clusters
  BY PartsTyped
<1>2. u \in Seq(Clusters) /\ Len(u) = m /\ \A i \in 1 .. m : u[i] = s[i] /\ i \in 1 .. n
  BY <1>1
<1>3. \A i \in 1 .. m - 1 : i \in 1 .. n - 1 /\ i \in 1 .. m /\ i + 1 \in 1 .. m
  BY <1>1
<1> HIDE DEF u
<1>4. m > 0 => u[1] = c
  <2>1. m > 0 => 1 \in 1 .. m /\ n > 0
    BY <1>1
  <2> QED BY <1>2, <2>1 DEF Parts
<1>5. \A i \in 1 .. m : v.fat[u[i]] # 0 /\ (v.has[u[i]] = Data(id, i) \/ (u[i] = d /\ i = k))
  BY <1>2 DEF Parts
<1>6. \A i \in 1 .. m - 1 : v.fat[u[i]] = u[i + 1]
  BY <1>2, <1>3 DEF Parts
<1>7. Parts(v, id, c, m, d, k, u)
  BY <1>2, <1>4, <1>5, <1>6 DEF Parts
<1> QED BY <1>2, <1>7

\* When the buffer has been written, all of them are on the volume.
LEMMA PartsWritten ==
    ASSUME NEW v, NEW id, NEW c, NEW n, NEW d, NEW k, NEW s, Parts(v, id, c, n, d, k, s),
           d = 0 \/ v.has[d] = Data(id, k)
    PROVE  Parts(v, id, c, n, 0, 0, s)
<1>1. \A i \in 1 .. n : s[i] # 0
  BY PartsTyped, Constants
<1> QED BY <1>1 DEF Parts

\* A change that spares the parts.
Spared(ch, id, s) ==
    /\ ch.do = "fat" => \A i \in 1 .. Len(s) : s[i] = ch.c => ch.val # 0 /\ i = Len(s)
    /\ ch.do = "put" => \A i \in 1 .. Len(s) : s[i] = ch.c => ch.val = Data(id, i)

\* They are parts of the next volume, ...
LEMMA PartsStay ==
    ASSUME NEW v \in Volumes, NEW id, NEW c, NEW n, NEW d, NEW k, NEW s, Parts(v, id, c, n, d, k, s),
           NEW ch, NEW w, Legal(v, w, ch), Spared(ch, id, s)
    PROVE  Parts(Changed(v, ch), id, c, n, d, k, s)
<1> DEFINE u == Changed(v, ch)
<1>1. /\ s \in Seq(Clusters) /\ Len(s) = n /\ n \in Nat
      /\ \A i \in 1 .. n : s[i] \in Clusters /\ s[i] \in Tables /\ v.fat[s[i]] # 0
  BY PartsTyped, Constants
<1>2. \A i \in 1 .. n - 1 : i \in 1 .. n /\ i # n
  BY <1>1
<1>3. ASSUME \A i \in 1 .. n : /\ u.fat[s[i]] # 0 /\ (i # n => u.fat[s[i]] = v.fat[s[i]])
                               /\ v.has[s[i]] = Data(id, i) \/ (s[i] = d /\ i = k)
                                  => u.has[s[i]] = Data(id, i) \/ (s[i] = d /\ i = k)
      PROVE  Parts(u, id, c, n, d, k, s)
  <2> HIDE DEF u
  <2>1. \A i \in 1 .. n - 1 : u.fat[s[i]] = s[i + 1]
    BY <1>2, <1>3 DEF Parts
  <2> QED BY <1>3, <2>1 DEF Parts
<1>4. CASE LegalFat(v, w, ch)
  <2>1. PICK x \in Clusters, val \in Nat : ch = SetFat(x, val)
    BY <1>4 DEF LegalFat
  <2>2. ch.do = "fat" /\ ch.c = x /\ ch.val = val
    BY <2>1 DEF SetFat
  <2>3. /\ u.fat[x] = val /\ \A y \in Clusters : y # x => u.fat[y] = v.fat[y]
        /\ \A t \in Tables : t # x \/ val # 0 => u.has[t] = v.has[t]
    BY <2>1, FatChanged
  <2> HIDE DEF u
  <2>4. \A i \in 1 .. n : s[i] = x => val # 0 /\ i = n
    BY <1>1, <2>2 DEF Spared
  <2> QED BY <1>1, <1>3, <2>3, <2>4 DEF u
<1>5. CASE LegalEntry(v, ch) \/ LegalUp(v, ch)
  <2>1. \E t \in Tables : IsTable(v, t) /\ u.fat = v.fat /\ \A x \in Tables : x # t => u.has[x] = v.has[x]
    <3>1. CASE LegalEntry(v, ch)
      <4>1. PICK t \in Tables, r \in 1 .. Slots, e \in Entries : ch = SetEntry(t, r, e) /\ IsTable(v, t)
        BY <3>1 DEF LegalEntry
      <4> QED BY <4>1, EntryChanged
    <3>2. CASE LegalUp(v, ch)
      <4>1. PICK t, up \in Tables : ch = SetUp(t, up) /\ IsTable(v, t)
        BY <3>2 DEF LegalUp
      <4> QED BY <4>1, UpChanged
    <3> QED BY <1>5, <3>1, <3>2
  <2> HIDE DEF u
  <2>2. PICK t \in Tables : IsTable(v, t) /\ u.fat = v.fat /\ \A x \in Tables : x # t => u.has[x] = v.has[x]
    BY <2>1
  <2>3. \A i : v.has[t] # Data(id, i)
    BY <2>2 DEF IsTable, Data
  <2>4. \A i \in 1 .. n : v.has[s[i]] = Data(id, i) => u.has[s[i]] = Data(id, i)
    BY <1>1, <2>2, <2>3
  <2>5. Parts(u, id, c, n, d, k, s)
    BY <1>1, <1>3, <2>2, <2>4 DEF u
  <2> QED BY <2>5 DEF u
<1>6. CASE LegalPut(v, w, ch)
  <2>1. PICK x \in Clusters, val \in Holds : ch = Put(x, val)
    BY <1>6 DEF LegalPut
  <2>2. ch.do = "put" /\ ch.c = x /\ ch.val = val
    BY <2>1 DEF Put
  <2>3. u.fat = v.fat /\ u.has[x] = val /\ \A t \in Tables : t # x => u.has[t] = v.has[t]
    BY <2>1, PutChanged
  <2> HIDE DEF u
  <2>4. \A i \in 1 .. n : s[i] = x => val = Data(id, i)
    BY <1>1, <2>2 DEF Spared
  <2> QED BY <1>1, <1>3, <2>3, <2>4 DEF u
<1>7. CASE LegalMove(ch)
  BY <1>7, MoveChanged DEF LegalMove
<1> QED BY <1>4, <1>5, <1>6, <1>7 DEF Legal

\* ... and of the next medium.
LEMMA PartsOnDisk ==
    ASSUME NEW v \in Volumes, NEW e \in Volumes, NEW id, NEW c, NEW n, NEW s,
           NEW ch, NEW w, Legal(v, w, ch), Spared(ch, id, s),
           ch.do = "put" \/ w = ch.at => Parts(e, id, c, n, 0, 0, s),
           ~ (ch.do = "put" \/ w = ch.at) => Parts(v, id, c, n, 0, 0, s)
    PROVE  Parts(DiskAfter(v, e, w, ch), id, c, n, 0, 0, s)
<1> DEFINE o == DiskAfter(v, e, w, ch)
<1>1. CASE ch.do = "put"
  <2>1. LegalPut(v, w, ch)
    BY <1>1 DEF Legal, LegalFat, LegalEntry, LegalUp, LegalMove, SetFat, SetEntry, SetUp, Move
  <2>2. PICK x \in Clusters, val \in Holds : ch = Put(x, val)
    BY <2>1 DEF LegalPut
  <2>3. Legal(e, NoSector, ch)
    BY <2>2 DEF Legal, LegalPut
  <2>4. Parts(Changed(e, ch), id, c, n, 0, 0, s)
    BY <1>1, <2>3, PartsStay
  <2> QED BY <1>1, <2>4 DEF DiskAfter
<1>2. CASE ch.do # "put" /\ ch.do # "fat"
  BY <1>2 DEF DiskAfter
<1>3. CASE ch.do = "fat"
  <2> DEFINE g == IF w = ch.at THEN e ELSE v
  <2>1. g \in Volumes /\ Parts(g, id, c, n, 0, 0, s) /\ o = Forgot(g, ch)
    BY <1>3 DEF DiskAfter
  <2> HIDE DEF g, o
  <2>2. LegalFat(v, w, ch)
    BY <1>3 DEF Legal, LegalPut, LegalEntry, LegalUp, LegalMove, Put, SetEntry, SetUp, Move
  <2>3. PICK x \in Clusters, val \in Nat : ch = SetFat(x, val)
    BY <2>2 DEF LegalFat
  <2>4. ch.do = "fat" /\ ch.c = x /\ ch.val = val
    BY <2>3 DEF SetFat
  <2>5. o.fat = g.fat /\ \A t \in Tables : t # x \/ val # 0 => o.has[t] = g.has[t]
    BY <2>1, <2>3, FatForgets
  <2>6. /\ s \in Seq(Clusters) /\ Len(s) = n /\ n \in Nat
        /\ \A i \in 1 .. n : s[i] \in Clusters /\ s[i] \in Tables
    BY <2>1, PartsTyped, Constants
  <2>7. \A i \in 1 .. n : s[i] = x => val # 0
    BY <2>4, <2>6 DEF Spared
  <2>8. \A i \in 1 .. n : o.has[s[i]] = g.has[s[i]]
    BY <2>5, <2>6, <2>7
  <2>9. Parts(o, id, c, n, 0, 0, s)
    BY <2>1, <2>5, <2>8 DEF Parts
  <2> QED BY <2>9 DEF o
<1> QED BY <1>1, <1>2, <1>3
-----------------------------------------------------------------------------
(* The changes of the calls                                                  *)

\* A cluster is freed, one is linked that ends its chain or is free, or the chain of a file
\* that is cut ends.
FreeKind(op, ch) == op # "rename" /\ \E c \in Clusters : ch = SetFat(c, 0)
LinkKind(v, ch) ==
    \E c \in Clusters, val \in Nat \ {0} : ch = SetFat(c, val) /\ v.fat[c] \in {0, EOC}
CutKind(v, op, f, a, ch) ==
    /\ op = "truncate" /\ a.size > 0 /\ Chain(v, a.clst)[a.size] \in Clusters
    /\ ch = SetFat(Chain(v, a.clst)[a.size], EOC)

\* A buffer or a table is written.
BufferKind(v, F, op, f, a, ch) ==
    /\ op \in {"write", "truncate", "sync"} /\ F[f].dirty # 0 /\ ch = Buffer(F[f])
    /\ op = "truncate" /\ F[f].part > a.size => v.fat[F[f].dirty] = 0
TableKind(v, ch) ==
    \E c \in Clusters, up \in Tables : ~ IsTable(v, c) /\ ch = Put(c, Table(up))

\* An entry is set.
EntryKind(v, sv, op, ch, rest) ==
    /\ op \in {"open", "unlink", "mkdir"}
    /\ \E t \in Tables, s \in 1 .. Slots, e \in Entries :
          /\ ch = SetEntry(t, s, e)
          /\ e = Unused \/ e.dir \/ e.size = 0
          /\ <<t, s>> \in All(v) => LET x == At(v, <<t, s>>)
                                    IN  (x.dir \/ sv[x.id] = NotSaved) /\ (x = e \/ Flushes(rest))
SetKind(v, F, op, f, ch, rest) ==
    LET o == F[f]
    IN  /\ op = "sync" /\ rest = <<Sync>> /\ ch = SetEntry(o.t, o.s, SyncEntry(At(v, Place(o)), o))
        /\ o.dirty # 0 => v.has[o.dirty] = Data(o.id, o.part)
Twin(v, F, p, n) ==
    LET e == At(v, p)
    IN  /\ p \in All(v) /\ \A f \in Fils : F[f].open => Place(F[f]) # p
        /\ n # Unused /\ n.id = e.id /\ n.dir = e.dir /\ n.clst = e.clst /\ n.size = e.size
NewKind(v, F, op, ch) ==
    /\ op = "rename"
    /\ \E p, q \in Spots, n \in Entries :
          Twin(v, F, p, n) /\ q \notin All(v) /\ q[1] \in Reach(v) /\ ch = SetEntry(q[1], q[2], n)
OldKind(v, F, op, ch, rest) ==
    /\ op = "rename" /\ rest = <<Sync>>
    /\ \E p, q \in Spots : /\ p # q /\ q \in All(v) /\ Twin(v, F, p, At(v, q))
                           /\ ch = SetEntry(p[1], p[2], Unused)
UpKind(op, ch) == op = "rename" /\ \E t, up \in Tables : ch = SetUp(t, up)

Kind(v, sv, F, op, f, a, ch, rest) ==
    /\ \/ FreeKind(op, ch) \/ LinkKind(v, ch) \/ CutKind(v, op, f, a, ch)
       \/ BufferKind(v, F, op, f, a, ch) \/ TableKind(v, ch)
       \/ EntryKind(v, sv, op, ch, rest) \/ SetKind(v, F, op, f, ch, rest)
       \/ NewKind(v, F, op, ch) \/ OldKind(v, F, op, ch, rest) \/ UpKind(op, ch) \/ LegalMove(ch)
    /\ op = "sync" => \/ SetKind(v, F, op, f, ch, rest) \/ (ch = Sync /\ rest = <<>>)
                      \/ BufferKind(v, F, op, f, a, ch) /\ rest \notin {<<>>, <<Sync>>}
    /\ op = "rename" => NewKind(v, F, op, ch) \/ OldKind(v, F, op, ch, rest) \/ UpKind(op, ch) \/ LegalMove(ch)

\* The file objects F are G when their call has done what comes first.
Ahead(F, G, op, f, a) ==
    /\ F \in [Fils -> FilRecs]
    /\ op \in {"write", "truncate", "sync"} => f \in Fils /\ F[f].open
    /\ IF op = "truncate" THEN a = CutTo(F[f], a.size) /\ a.size \in Nat /\ G = [F EXCEPT ![f] = a]
       ELSE G = F

\* A change of a call, to volume and medium.
Turn(v, d, w, sh, sv, F, G, op, f, a, ch, rest, v1, d1) ==
    /\ v \in Volumes /\ d \in Volumes /\ v1 \in Volumes /\ d1 \in Volumes
    /\ Agree(v, d, w) /\ Legal(v, w, ch) /\ v1 = Changed(v, ch) /\ d1 = DiskAfter(v, d, w, ch)
    /\ Ahead(F, G, op, f, a) /\ Kind(v, sv, F, op, f, a, ch, rest)
    /\ IsTable(v, 0) /\ Rooted(v) /\ Rooted(d) /\ FilsFull(v, F, G)
    /\ op # "rename" => Fine(v, G, sh) /\ Fine(v1, G, sh)
    /\ op = "rename" /\ rest \in {<<>>, <<Sync>>} => Fine(v1, G, sh)

\* What the objects that run ahead say.
LEMMA AheadIs ==
    ASSUME NEW F, NEW G, NEW op, NEW f, NEW a, Ahead(F, G, op, f, a), NEW g \in Fils
    PROVE  /\ G \in [Fils -> FilRecs] /\ (G[g].open <=> F[g].open)
           /\ F[g].open => /\ F[g] \in OpenFils /\ G[g] \in OpenFils /\ G[g].id = F[g].id
                           /\ Place(G[g]) = Place(F[g]) /\ F[g].id \in Ids
                           /\ G[g].size \in Nat /\ F[g].size \in Nat
           /\ op # "truncate" \/ g # f => G[g] = F[g]
           /\ op = "truncate" => f \in Fils /\ F[f].open /\ G[f] = a
<1>1. F \in [Fils -> FilRecs]
  BY DEF Ahead
<1>2. F[g].open => F[g] \in OpenFils /\ F[g].id \in Ids /\ F[g].size \in Nat
  BY <1>1, FilTyped
<1>3. CASE op # "truncate"
  BY <1>1, <1>2, <1>3 DEF Ahead
<1>4. CASE op = "truncate"
  <2>1. f \in Fils /\ F[f].open /\ a = CutTo(F[f], a.size) /\ a.size \in Nat /\ G = [F EXCEPT ![f] = a]
    BY <1>4 DEF Ahead
  <2>2. F[f] \in OpenFils
    BY <1>1, <2>1, FilTyped
  <2>3. a \in FilRecs /\ a.open /\ a.id = F[f].id /\ Place(a) = Place(F[f])
    BY <2>1, <2>2, CutToIs
  <2>4. a \in OpenFils
    BY <2>3, FilTyped
  <2>5. G \in [Fils -> FilRecs] /\ G[f] = a /\ \A x \in Fils : x # f => G[x] = F[x]
    BY <1>1, <2>1, <2>3, FilSet
  <2> QED BY <1>2, <1>4, <2>1, <2>3, <2>4, <2>5
<1> QED BY <1>3, <1>4
-----------------------------------------------------------------------------
(* What is spared *)

\* A table that is freed is empty.
LEMMA FreedEmpty ==
    ASSUME NEW v, NEW G, NEW sh, Fine(v, G, sh), NEW c \in Clusters, IsTable(v, c),
           NEW v1, v1 = Changed(v, SetFat(c, 0)), Fine(v1, G, sh)
    PROVE  Used(v, c) = {}
<1>1. /\ v \in Volumes /\ v1 \in Volumes /\ Rooted(v) /\ IsTable(v, 0)
      /\ \A p \in All(v1) : ObjectLaid(v1, G, p)
  BY FineParts
<1>2. 0 \in Nat /\ c \in Tables /\ c # 0 /\ 0 \in Tables
  BY Constants
<1>3. ~ IsTable(v1, c) /\ \A t \in Tables : t # c => v1.has[t] = v.has[t]
  BY <1>1, <1>2, FatChanged
<1>4. SUFFICES ASSUME c \in Reach(v)  PROVE FALSE
  BY <1>1, <1>2 DEF Rooted
<1> DEFINE X == Reach(v) \ {c}
<1>5. ASSUME NEW t \in X, c \in Subdirs(v, t)  PROVE FALSE
  <2>1. t \in Tables /\ t # c /\ IsTable(v, t)
    BY <1>1, ReachTables
  <2>2. PICK s \in 1 .. Slots : Entry(v, t, s) # Unused /\ Entry(v, t, s).dir /\ Entry(v, t, s).clst = c
    BY <1>5, SubdirIs
  <2>3. IsTable(v1, t) /\ Entry(v1, t, s) = Entry(v, t, s)
    BY <1>3, <2>1 DEF IsTable, Entry
  <2>4. <<t, s>> \in All(v1) /\ At(v1, <<t, s>>) = Entry(v, t, s)
    BY <2>1, <2>2, <2>3, SpotIs
  <2>5. DirLaid(v1, <<t, s>>)
    BY <1>1, <2>2, <2>4 DEF ObjectLaid
  <2> QED BY <1>3, <2>2, <2>4, <2>5 DEF DirLaid
<1>6. Shut(v, X)
  <2> SUFFICES ASSUME NEW t \in X, NEW x \in Subdirs(v, t)  PROVE x \in X
    BY DEF Shut
  <2>1. x \in Reach(v)
    BY <1>2, BelowClosed DEF Reach
  <2> QED BY <1>5, <2>1
<1>7. 0 \in X
  BY <1>2, BelowHas DEF Reach
<1>8. Reach(v) \subseteq X
  BY <1>2, <1>6, <1>7, BelowLeast DEF Reach
<1> QED BY <1>4, <1>8

\* A change of the FAT takes no entry away.
LEMMA FatEntries ==
    ASSUME NEW v \in Volumes, NEW c \in Clusters, NEW val \in Nat, val = 0 /\ IsTable(v, c) => Used(v, c) = {},
           NEW v1, v1 = Changed(v, SetFat(c, val))
    PROVE  \A p : /\ p \in All(v1) <=> p \in All(v)
                  /\ p \in All(v) => At(v1, p) = At(v, p) /\ (val = 0 => p[1] # c)
<1>1. /\ \A t \in Tables : t # c \/ val # 0 => v1.has[t] = v.has[t]
      /\ val = 0 => ~ IsTable(v1, c)
  BY FatChanged
<1>2. ASSUME NEW p \in Spots
      PROVE  /\ p \in All(v1) <=> p \in All(v)
             /\ p \in All(v) => At(v1, p) = At(v, p) /\ (val = 0 => p[1] # c)
  <2>1. p[1] \in Tables /\ p[2] \in 1 .. Slots
    BY SpotParts
  <2>2. CASE p[1] # c \/ val # 0
    BY <1>1, <2>1, <2>2 DEF All, IsTable, At, Entry
  <2>3. CASE p[1] = c /\ val = 0
    <3>1. p \notin All(v1)
      BY <1>1, <2>3 DEF All
    <3>2. p \notin All(v)
      BY <2>1, <2>3 DEF All, Used, At
    <3> QED BY <3>1, <3>2
  <2> QED BY <2>2, <2>3
<1> QED BY <1>2 DEF All

\* A cluster that is freed is in no chain.
LEMMA FreedApart ==
    ASSUME NEW v, NEW G, NEW sh, Fine(v, G, sh), NEW c \in Clusters,
           NEW v1, v1 = Changed(v, SetFat(c, 0)), Fine(v1, G, sh), NEW p \in All(v)
    PROVE  c \notin Own(v, Clst(v, G, p))
<1> DEFINE x == Clst(v, G, p)
<1>1. v \in Volumes /\ v1 \in Volumes /\ Laid(v1, G) /\ 0 \in Nat
  BY FineParts
<1>2. v1.fat[c] = 0 /\ \A y \in Clusters : y # c => v1.fat[y] = v.fat[y]
  BY <1>1, FatChanged
<1>3. p \in All(v1) /\ At(v1, p) = At(v, p)
  <2>1. IsTable(v, c) => Used(v, c) = {}
    BY FreedEmpty
  <2> QED BY <1>1, <2>1, FatEntries
<1>4. Clst(v1, G, p) = x
  BY <1>3, ClstSame
<1> HIDE DEF x
<1>5. Chained(v1, x)
  BY <1>1, <1>3, <1>4, LaidOwn
<1>6. \A y \in Own(v1, x) : y \in Clusters /\ y # c
  BY <1>2, <1>5, ChainUsed
<1>7. Own(v, x) = Own(v1, x)
  BY <1>2, <1>5, <1>6, ChainKept
<1> QED BY <1>6, <1>7 DEF x
-----------------------------------------------------------------------------

\* The clusters s are the first of the file that has its entry at p.
Piece(v, G, p, id, n, d, k, s) ==
    /\ p \in All(v) /\ ~ At(v, p).dir /\ At(v, p).id = id
    /\ n <= Size(v, G, p) /\ n > 0 /\ Parts(v, id, Clst(v, G, p), n, d, k, s)

\* They are the first of its chain.
LEMMA PieceIs ==
    ASSUME NEW v, NEW G, NEW sh, Fine(v, G, sh), NEW p, NEW id, NEW n, NEW d, NEW k, NEW s,
           Piece(v, G, p, id, n, d, k, s), NEW h, h = Chain(v, Clst(v, G, p))
    PROVE  /\ n \in Nat /\ Len(s) = n /\ n <= Len(h) /\ Len(h) \in Nat /\ Differ(h)
           /\ \A i \in 1 .. n : s[i] \in Clusters /\ s[i] = h[i] /\ s[i] \in Own(v, Clst(v, G, p))
           /\ \A i \in 1 .. n : v.fat[s[i]] # 0
<1>1. v \in Volumes /\ Laid(v, G) /\ p \in All(v)
  BY FineParts DEF Piece
<1>2. Chained(v, Clst(v, G, p))
  BY <1>1, LaidOwn
<1>3. Parts(v, id, Clst(v, G, p), n, d, k, s)
  BY DEF Piece
<1> QED BY <1>2, <1>3, PartsTyped, PartsInChain, ChainTyped

\* The entry of an open file, and the file objects.
LEMMA HeldEntry ==
    ASSUME NEW v, NEW G, NEW sh, Fine(v, G, sh), NEW g \in Fils, G[g].open, NEW p, p = Place(G[g])
    PROVE  /\ p \in All(v) /\ ~ At(v, p).dir /\ At(v, p).id = G[g].id /\ Clst(v, G, p) = G[g].clst
           /\ Size(v, G, p) = G[g].size
           /\ \/ G[g].id \in sh \/ (At(v, p).clst = 0 /\ At(v, p).size = 0)
              \/ (At(v, p).clst = G[g].clst /\ At(v, p).size <= G[g].size)
           /\ \A x \in Fils : G[x].open /\ (Place(G[x]) = p \/ G[x].id = G[g].id) => x = g
<1>1. FilsFit(v, G, sh) /\ FilFits(v, G[g], sh)
  BY FineParts
<1>2. Clst(v, G, p) = G[g].clst /\ Size(v, G, p) = G[g].size /\ Holders(G, p) = {g}
  BY <1>1, HolderIs
<1> QED BY <1>1, <1>2 DEF FilFits, FilsFit, IdsApart, Holders

\* The parts a file object knows are a piece.
LEMMA FilPiece ==
    ASSUME NEW v, NEW F, NEW G, NEW sh, NEW op, NEW f, NEW a, Ahead(F, G, op, f, a), Fine(v, G, sh),
           NEW g \in Fils, F[g].open, G[g].size > 0, NEW s, FilFull(v, F[g], G[g], s)
    PROVE  Piece(v, G, Place(F[g]), F[g].id, G[g].size, F[g].dirty, F[g].part, s)
<1>1. G[g].open /\ G[g].id = F[g].id /\ Place(G[g]) = Place(F[g]) /\ G[g].size \in Nat
  BY AheadIs
<1>2. LET p == Place(F[g])
      IN  /\ p \in All(v) /\ ~ At(v, p).dir /\ At(v, p).id = G[g].id /\ Clst(v, G, p) = G[g].clst
          /\ Size(v, G, p) = G[g].size
  BY <1>1, HeldEntry
<1> QED BY <1>1, <1>2 DEF Piece, FilFull

\* So are those an entry knows, if its file is not cut.
LEMMA EntryPiece ==
    ASSUME NEW v, NEW G, NEW sh, Fine(v, G, sh), NEW p \in All(v), ~ At(v, p).dir,
           p \notin CutPlaces(G, sh), NEW n, n > 0, n <= At(v, p).size, NEW d, NEW k, NEW s,
           Parts(v, At(v, p).id, At(v, p).clst, n, d, k, s)
    PROVE  Piece(v, G, p, At(v, p).id, n, d, k, s)
<1>1. v \in Volumes /\ G \in [Fils -> FilRecs]
  BY FineParts
<1>2. n \in Nat /\ At(v, p).size \in Nat
  BY <1>1, AllTyped, PartsTyped
<1>3. CASE Holders(G, p) = {}
  <2>1. Clst(v, G, p) = At(v, p).clst /\ Size(v, G, p) = At(v, p).size
    BY <1>3, HolderNone
  <2> QED BY <1>2, <2>1 DEF Piece
<1>4. CASE Holders(G, p) # {}
  <2>1. PICK g \in Fils : G[g].open /\ Place(G[g]) = p
    BY <1>4 DEF Holders
  <2>2. G[g].id \notin sh
    BY <2>1 DEF CutPlaces
  <2>3. /\ Clst(v, G, p) = G[g].clst /\ Size(v, G, p) = G[g].size
        /\ \/ At(v, p).clst = 0 /\ At(v, p).size = 0
           \/ At(v, p).clst = G[g].clst /\ At(v, p).size <= G[g].size
    BY <2>1, <2>2, HeldEntry
  <2>4. G[g].size \in Nat
    BY <1>1, <2>1, FilTyped
  <2>5. At(v, p).clst = Clst(v, G, p) /\ n <= Size(v, G, p)
    BY <1>2, <2>3, <2>4
  <2> QED BY <1>2, <2>5 DEF Piece
<1> QED BY <1>3, <1>4

\* The buffer that is written spares every file.
LEMMA BufferSpares ==
    ASSUME NEW v, NEW sh, NEW F, NEW G, NEW op, NEW f, NEW a, NEW ch,
           Ahead(F, G, op, f, a), FilsFull(v, F, G), Fine(v, G, sh), BufferKind(v, F, op, f, a, ch),
           NEW p, NEW id, NEW n, NEW d, NEW k, NEW s, Piece(v, G, p, id, n, d, k, s)
    PROVE  Spared(ch, id, s)
<1> DEFINE o == F[f]
           g == G[f]
           x == o.dirty
           y == Place(o)
<1>1. /\ f \in Fils /\ o.open /\ g.open /\ g.id = o.id /\ Place(g) = y /\ o \in OpenFils /\ g.size \in Nat
      /\ o.size \in Nat
  <2>1. f \in Fils /\ o.open
    BY DEF BufferKind, Ahead
  <2> QED BY <2>1, AheadIs
<1>2. /\ x # 0 /\ ch = Put(x, Data(o.id, o.part)) /\ o.part \in Nat
      /\ op = "truncate" /\ o.part > a.size => v.fat[x] = 0
  BY <1>1 DEF BufferKind, Buffer, OpenFils
<1>3. op # "truncate" => g = o
  BY <1>1, AheadIs
<1>4. op = "truncate" => g = a
  BY <1>1, AheadIs
<1>5. PICK u \in Seq(Clusters) : FilFull(v, o, g, u)
  BY <1>1 DEF FilsFull
<1>6. o.part \in 1 .. o.size /\ (o.part <= g.size => u[o.part] = x)
  BY <1>2, <1>5 DEF FilFull
<1>7. ch.do = "put" /\ ch.c = x /\ ch.val = Data(o.id, o.part)
  BY <1>2 DEF Put
<1> SUFFICES ASSUME NEW i \in 1 .. Len(s), s[i] = x  PROVE id = o.id /\ i = o.part
  BY <1>7 DEF Spared
<1> HIDE DEF o, g, x, y
<1>8. /\ n \in Nat /\ Len(s) = n /\ i \in 1 .. n /\ v.fat[s[i]] # 0 /\ s[i] = Chain(v, Clst(v, G, p))[i]
      /\ s[i] \in Own(v, Clst(v, G, p)) /\ n <= Len(Chain(v, Clst(v, G, p)))
  BY PieceIs
<1>9. o.part <= g.size
  <2>1. CASE op = "truncate"
    BY <1>1, <1>2, <1>4, <1>8, <2>1
  <2>2. CASE op # "truncate"
    BY <1>1, <1>3, <1>6, <2>2
  <2> QED BY <2>1, <2>2
<1>10. g.size > 0
  BY <1>1, <1>6, <1>9
<1>11. Piece(v, G, y, o.id, g.size, o.dirty, o.part, u)
  BY <1>1, <1>5, <1>10, FilPiece DEF o, g, y
<1>12. /\ g.size <= Len(Chain(v, Clst(v, G, y))) /\ u[o.part] = Chain(v, Clst(v, G, y))[o.part]
       /\ u[o.part] \in Own(v, Clst(v, G, y)) /\ Differ(Chain(v, Clst(v, G, y)))
       /\ Len(Chain(v, Clst(v, G, y))) \in Nat
  <2>1. o.part \in 1 .. g.size
    BY <1>1, <1>6, <1>9
  <2> QED BY <1>11, <2>1, PieceIs
<1>13. p = y
  <2>1. ChainsApart(v, G)
    BY FineParts
  <2>2. p \in All(v) /\ y \in All(v)
    BY <1>11 DEF Piece
  <2> QED BY <1>6, <1>8, <1>9, <1>12, <2>1, <2>2 DEF ChainsApart
<1>14. id = o.id
  BY <1>11, <1>13 DEF Piece
<1>15. i = o.part
  <2> DEFINE h == Chain(v, Clst(v, G, y))
  <2>1. /\ i \in 1 .. Len(h) /\ o.part \in 1 .. Len(h) /\ h[i] = x /\ h[o.part] = x
        /\ Differ(h)
    BY <1>1, <1>6, <1>8, <1>9, <1>12, <1>13
  <2> HIDE DEF h
  <2> QED BY <2>1 DEF Differ
<1> QED BY <1>14, <1>15

\* What the kinds of changes do.
LEMMA KindDoes ==
    ASSUME NEW v, NEW sv, NEW F, NEW op, NEW f, NEW a, NEW ch, NEW rest
    PROVE  /\ FreeKind(op, ch) \/ LinkKind(v, ch) \/ CutKind(v, op, f, a, ch) => ch.do = "fat"
           /\ BufferKind(v, F, op, f, a, ch) \/ TableKind(v, ch) => ch.do = "put"
           /\ (EntryKind(v, sv, op, ch, rest) \/ SetKind(v, F, op, f, ch, rest)
               \/ NewKind(v, F, op, ch) \/ OldKind(v, F, op, ch, rest)) => ch.do = "entry"
           /\ UpKind(op, ch) => ch.do = "up"
           /\ LegalMove(ch) => ch.do = "move"
<1>1. /\ \A c, val : SetFat(c, val).do = "fat"
      /\ \A c, val : Put(c, val).do = "put"
      /\ \A t, s, e : SetEntry(t, s, e).do = "entry"
      /\ \A t, up : SetUp(t, up).do = "up"
      /\ \A sector : Move(sector).do = "move"
  BY DEF SetFat, Put, SetEntry, SetUp, Move
<1>2. FreeKind(op, ch) => ch.do = "fat"
  BY <1>1 DEF FreeKind
<1>3. LinkKind(v, ch) => ch.do = "fat"
  BY <1>1 DEF LinkKind
<1>4. CutKind(v, op, f, a, ch) => ch.do = "fat"
  BY <1>1 DEF CutKind
<1>5. BufferKind(v, F, op, f, a, ch) => ch.do = "put"
  BY <1>1 DEF BufferKind, Buffer
<1>6. TableKind(v, ch) => ch.do = "put"
  BY <1>1 DEF TableKind
<1>7. EntryKind(v, sv, op, ch, rest) => ch.do = "entry"
  BY <1>1 DEF EntryKind
<1>8. SetKind(v, F, op, f, ch, rest) => ch.do = "entry"
  BY <1>1 DEF SetKind
<1>9. NewKind(v, F, op, ch) => ch.do = "entry"
  BY <1>1 DEF NewKind
<1>10. OldKind(v, F, op, ch, rest) => ch.do = "entry"
  BY <1>1 DEF OldKind
<1>11. UpKind(op, ch) => ch.do = "up"
  BY <1>1 DEF UpKind
<1>12. LegalMove(ch) => ch.do = "move"
  BY <1>1 DEF LegalMove
<1> QED BY <1>2, <1>3, <1>4, <1>5, <1>6, <1>7, <1>8, <1>9, <1>10, <1>11, <1>12

\* Every change spares every file.
LEMMA PieceSpared ==
    ASSUME NEW v, NEW d, NEW w, NEW sh, NEW sv, NEW F, NEW G, NEW op, NEW f, NEW a, NEW ch, NEW rest,
           NEW v1, NEW d1, Turn(v, d, w, sh, sv, F, G, op, f, a, ch, rest, v1, d1), op # "rename",
           NEW p, NEW id, NEW n, NEW x, NEW k, NEW s, Piece(v, G, p, id, n, x, k, s)
    PROVE  Spared(ch, id, s)
<1>1. /\ v \in Volumes /\ v1 \in Volumes /\ v1 = Changed(v, ch) /\ Ahead(F, G, op, f, a)
      /\ Kind(v, sv, F, op, f, a, ch, rest) /\ FilsFull(v, F, G)
      /\ Fine(v, G, sh) /\ Fine(v1, G, sh)
  BY DEF Turn
<1> DEFINE h == Chain(v, Clst(v, G, p))
<1>2. /\ n \in Nat /\ Len(s) = n /\ n <= Len(h) /\ Len(h) \in Nat /\ Differ(h)
      /\ \A i \in 1 .. n : s[i] \in Clusters /\ s[i] = h[i] /\ s[i] \in Own(v, Clst(v, G, p))
      /\ \A i \in 1 .. n : v.fat[s[i]] # 0
  BY <1>1, PieceIs
<1>3. p \in All(v) /\ ~ At(v, p).dir /\ At(v, p).id = id /\ n <= Size(v, G, p)
      /\ \A i \in 1 .. n - 1 : v.fat[s[i]] = s[i + 1]
  BY DEF Piece, Parts
<1> HIDE DEF h
<1>4. ASSUME ch.do # "fat", ch.do # "put"  PROVE Spared(ch, id, s)
  BY <1>4 DEF Spared
<1>5. CASE FreeKind(op, ch)
  <2>1. PICK c \in Clusters : ch = SetFat(c, 0)
    BY <1>5 DEF FreeKind
  <2>2. c \notin Own(v, Clst(v, G, p))
    BY <1>1, <1>3, <2>1, FreedApart
  <2>3. ch.do = "fat" /\ ch.c = c
    BY <2>1 DEF SetFat
  <2> QED BY <1>2, <2>2, <2>3 DEF Spared
<1>6. CASE LinkKind(v, ch)
  <2>1. PICK c \in Clusters, val \in Nat \ {0} : ch = SetFat(c, val) /\ v.fat[c] \in {0, EOC}
    BY <1>6 DEF LinkKind
  <2>2. ch.do = "fat" /\ ch.c = c /\ ch.val # 0
    BY <2>1 DEF SetFat
  <2>3. ASSUME NEW i \in 1 .. n, s[i] = c  PROVE i = n
    <3>1. SUFFICES ASSUME i # n  PROVE FALSE
      OBVIOUS
    <3>2. i \in 1 .. n - 1 /\ i + 1 \in 1 .. n
      BY <1>2, <3>1
    <3>3. v.fat[c] \in Clusters
      BY <1>2, <1>3, <2>3, <3>2
    <3> QED BY <2>1, <3>3, Constants
  <2> QED BY <1>2, <2>2, <2>3 DEF Spared
<1>7. CASE CutKind(v, op, f, a, ch)
  <2> DEFINE c == Chain(v, a.clst)[a.size]
  <2>1. /\ op = "truncate" /\ f \in Fils /\ G[f] = a /\ a.size > 0 /\ c \in Clusters /\ ch = SetFat(c, EOC)
        /\ F[f].open /\ G[f].open /\ a.size \in Nat
    BY <1>1, <1>7, AheadIs DEF CutKind, Ahead
  <2> HIDE DEF c
  <2>2. ch.do = "fat" /\ ch.c = c /\ ch.val # 0
    BY <2>1, Constants DEF SetFat
  <2> DEFINE y == Place(a)
  <2>3. /\ y \in All(v) /\ ~ At(v, y).dir /\ Clst(v, G, y) = a.clst /\ Size(v, G, y) = a.size
    BY <1>1, <2>1, HeldEntry
  <2> HIDE DEF y
  <2>4. /\ Chained(v, a.clst) /\ Len(Chain(v, a.clst)) >= a.size
    <3>1. FileLaid(v, G, y)
      BY <1>1, <2>3, FineParts DEF ObjectLaid
    <3> QED BY <2>3, <3>1 DEF FileLaid
  <2>5. c \in Own(v, a.clst)
    <3>1. a.size \in 1 .. Len(Chain(v, a.clst))
      BY <2>1, <2>4, ChainTyped
    <3> QED BY <2>4, <3>1, ChainTyped DEF c
  <2>6. ASSUME NEW i \in 1 .. n, s[i] = c  PROVE i = n
    <3>1. p = y
      <4>1. ChainsApart(v, G)
        BY <1>1, FineParts
      <4> QED BY <1>2, <1>3, <2>3, <2>5, <2>6, <4>1 DEF ChainsApart
    <3>2. h[i] = c /\ h[a.size] = c
      BY <1>2, <2>3, <2>6, <3>1 DEF c, h
    <3>3. i \in 1 .. Len(h) /\ a.size \in 1 .. Len(h)
      BY <1>2, <2>1, <2>3, <2>4, <3>1 DEF h
    <3>4. i = a.size
      BY <1>2, <3>2, <3>3 DEF Differ
    <3> QED BY <1>2, <1>3, <2>1, <2>3, <3>1, <3>4
  <2> QED BY <1>2, <2>2, <2>6 DEF Spared
<1>8. CASE BufferKind(v, F, op, f, a, ch)
  BY <1>1, <1>8, BufferSpares
<1>9. CASE TableKind(v, ch)
  <2>1. PICK c \in Clusters, up \in Tables : ~ IsTable(v, c) /\ ch = Put(c, Table(up))
    BY <1>9 DEF TableKind
  <2>2. ch.do = "put" /\ ch.c = c
    BY <2>1 DEF Put
  <2>3. Table(up) \in Holds /\ Table(up).kind = "table"
    <3>1. [r \in 1 .. Slots |-> Unused] \in [1 .. Slots -> Entries]
      BY DEF Entries
    <3> QED BY <3>1 DEF Table, Holds, TableHolds
  <2>4. v1.fat = v.fat /\ IsTable(v1, c) /\ \A t \in Tables : t # c => v1.has[t] = v.has[t]
    BY <1>1, <2>1, <2>3, PutChanged DEF IsTable
  <2>5. ASSUME c \in Own(v, Clst(v, G, p))  PROVE FALSE
    <3>1. p[1] # c /\ p[1] \in Tables /\ p[2] \in 1 .. Slots
      BY <1>1, <1>3, <2>1, AllTyped
    <3>2. p \in All(v1) /\ At(v1, p) = At(v, p)
      BY <1>1, <1>3, <2>4, <3>1, AllTyped DEF All, At, Entry, IsTable
    <3>3. Clst(v1, G, p) = Clst(v, G, p)
      BY <3>2, ClstSame
    <3>4. \A y \in Own(v1, Clst(v, G, p)) : ~ IsTable(v1, y)
      <4>1. FileLaid(v1, G, p)
        BY <1>1, <1>3, <3>2, FineParts DEF ObjectLaid
      <4> QED BY <3>3, <4>1 DEF FileLaid
    <3>5. Own(v1, Clst(v, G, p)) = Own(v, Clst(v, G, p))
      <4>1. Chained(v, Clst(v, G, p))
        BY <1>1, <1>3, LaidOwn, FineParts
      <4> QED BY <2>4, <4>1, ChainKept
    <3> QED BY <2>4, <2>5, <3>4, <3>5
  <2> QED BY <1>2, <2>2, <2>5 DEF Spared
<1>10. CASE \/ EntryKind(v, sv, op, ch, rest) \/ SetKind(v, F, op, f, ch, rest)
            \/ NewKind(v, F, op, ch) \/ OldKind(v, F, op, ch, rest) \/ UpKind(op, ch) \/ LegalMove(ch)
  <2>0. /\ (EntryKind(v, sv, op, ch, rest) \/ SetKind(v, F, op, f, ch, rest)
            \/ NewKind(v, F, op, ch) \/ OldKind(v, F, op, ch, rest)) => ch.do = "entry"
        /\ UpKind(op, ch) => ch.do = "up"
        /\ LegalMove(ch) => ch.do = "move"
    BY KindDoes
  <2>1. ch.do \in {"entry", "up", "move"}
    BY <1>10, <2>0
  <2> QED BY <1>4, <2>1
<1> QED BY <1>1, <1>5, <1>6, <1>7, <1>8, <1>9, <1>10 DEF Kind
-----------------------------------------------------------------------------
(* The entries of the next volume and of the medium                          *)

SameEntries(v, w) ==
    \A p : (p \in All(w) <=> p \in All(v)) /\ (p \in All(v) => At(w, p) = At(v, p))

\* With the same entries the same tables are reached, but for those that are empty.
LEMMA RootedLike ==
    ASSUME NEW v, NEW w, SameEntries(v, w), IsTable(v, 0), IsTable(w, 0), Rooted(v)
    PROVE  Rooted(w)
<1> DEFINE X == {t \in Tables : IsTable(v, t) /\ (t \in Reach(w) \/ Used(v, t) = {})}
<1>1. 0 \in X /\ 0 \in Tables
  BY Constants, BelowHas DEF Reach
<1>2. ASSUME NEW t \in Tables, NEW s \in 1 .. Slots, IsTable(v, t), Entry(v, t, s) # Unused
      PROVE  IsTable(w, t) /\ Entry(w, t, s) = Entry(v, t, s)
  <2>1. <<t, s>> \in All(v)
    BY <1>2, SpotIs
  <2>2. <<t, s>> \in All(w) /\ At(w, <<t, s>>) = At(v, <<t, s>>)
    BY <2>1 DEF SameEntries
  <2> QED BY <2>2, SpotIs
<1>3. ASSUME NEW t \in X, NEW x \in Subdirs(v, t)  PROVE x \in X
  <2>1. PICK s \in 1 .. Slots : Entry(v, t, s) # Unused /\ Entry(v, t, s).dir /\ Entry(v, t, s).clst = x
    BY <1>3, SubdirIs
  <2>2. x \in Clusters /\ IsTable(v, x) /\ x \in Tables
    BY <1>3, SubdirIs, Constants
  <2>3. s \in Used(v, t)
    BY <2>1 DEF Used
  <2>4. t \in Reach(w) /\ t \in Tables /\ IsTable(v, t)
    BY <2>3
  <2>5. Entry(w, t, s) = Entry(v, t, s)
    BY <1>2, <2>1, <2>4
  <2>6. CASE Used(v, x) # {}
    <3>1. PICK r \in 1 .. Slots : Entry(v, x, r) # Unused
      BY <2>6 DEF Used
    <3>2. IsTable(w, x)
      BY <1>2, <2>2, <3>1
    <3>3. x \in Subdirs(w, t)
      BY <2>1, <2>2, <2>5, <3>2, SubdirIs
    <3>4. x \in Reach(w)
      BY <1>1, <2>4, <3>3, BelowClosed DEF Reach
    <3> QED BY <2>2, <3>4
  <2> QED BY <2>2, <2>6
<1>4. Reach(v) \subseteq X
  BY <1>1, <1>3, BelowLeast DEF Reach, Shut
<1> SUFFICES ASSUME NEW t \in Tables, IsTable(w, t), Used(w, t) # {}  PROVE t \in Reach(w)
  BY DEF Rooted
<1>5. PICK s \in 1 .. Slots : Entry(w, t, s) # Unused
  BY DEF Used
<1>6. <<t, s>> \in All(w)
  BY <1>5, SpotIs
<1>7. <<t, s>> \in All(v)
  BY <1>6 DEF SameEntries
<1>8. IsTable(v, t) /\ s \in Used(v, t)
  BY <1>7, SpotIs DEF Used
<1>9. t \in X
  BY <1>4, <1>8 DEF Rooted
<1> QED BY <1>8, <1>9

\* The buffer is written to no table.
LEMMA BufferNoTable ==
    ASSUME NEW v, NEW sh, NEW F, NEW G, NEW op, NEW f, NEW a, NEW ch,
           Ahead(F, G, op, f, a), FilsFull(v, F, G), Fine(v, G, sh), BufferKind(v, F, op, f, a, ch)
    PROVE  /\ F[f].dirty \in Clusters /\ ~ IsTable(v, F[f].dirty)
           /\ Data(F[f].id, F[f].part) \in Holds /\ Data(F[f].id, F[f].part).kind # "table"
           /\ ch = Put(F[f].dirty, Data(F[f].id, F[f].part))
<1> DEFINE o == F[f]
           g == G[f]
           x == o.dirty
<1>1. /\ f \in Fils /\ o.open /\ g.open /\ g.id = o.id /\ Place(g) = Place(o) /\ o \in OpenFils
      /\ g.size \in Nat /\ o.size \in Nat
  <2>1. f \in Fils /\ o.open
    BY DEF BufferKind, Ahead
  <2> QED BY <2>1, AheadIs
<1>2. /\ x # 0 /\ ch = Put(x, Data(o.id, o.part)) /\ o.part \in Nat /\ o.id \in Ids /\ x \in Clusters
      /\ op = "truncate" /\ o.part > a.size => v.fat[x] = 0
  BY <1>1 DEF BufferKind, Buffer, OpenFils
<1>3. Data(o.id, o.part) \in Holds /\ Data(o.id, o.part).kind # "table"
  BY <1>2 DEF Data, Holds, DataHolds
<1>4. op # "truncate" => g = o
  BY <1>1, AheadIs
<1>5. op = "truncate" => g = a
  BY <1>1, AheadIs
<1>6. PICK u \in Seq(Clusters) : FilFull(v, o, g, u)
  BY <1>1 DEF FilsFull
<1>7. o.part \in 1 .. o.size /\ (o.part <= g.size => u[o.part] = x)
  BY <1>2, <1>6 DEF FilFull
<1>8. CASE v.fat[x] = 0
  BY <1>2, <1>3, <1>8, FineParts DEF NoFreeTable
<1>9. CASE v.fat[x] # 0
  <2>1. o.part <= g.size /\ g.size > 0 /\ o.part \in 1 .. g.size
    BY <1>1, <1>2, <1>4, <1>5, <1>7, <1>9
  <2>2. Piece(v, G, Place(o), o.id, g.size, o.dirty, o.part, u)
    BY <1>1, <1>6, <2>1, FilPiece
  <2>3. x \in Own(v, Clst(v, G, Place(o)))
    BY <1>7, <2>1, <2>2, PieceIs
  <2>4. Place(o) \in All(v) /\ ~ At(v, Place(o)).dir
    BY <2>2 DEF Piece
  <2>5. FileLaid(v, G, Place(o))
    BY <2>4, FineParts DEF ObjectLaid
  <2> QED BY <1>2, <1>3, <2>3, <2>5 DEF FileLaid
<1> QED BY <1>8, <1>9

\* A table that is put is empty.
LEMMA PutEntries ==
    ASSUME NEW v \in Volumes, NEW c \in Clusters, ~ IsTable(v, c), NEW val \in Holds,
           val.kind # "table" \/ \E up \in Tables : val = Table(up),
           NEW v1, v1 = Changed(v, Put(c, val))
    PROVE  SameEntries(v, v1)
<1>1. v1.has[c] = val /\ \A t \in Tables : t # c => v1.has[t] = v.has[t]
  BY PutChanged
<1>2. ASSUME NEW p \in Spots
      PROVE  (p \in All(v1) <=> p \in All(v)) /\ (p \in All(v) => At(v1, p) = At(v, p))
  <2>1. p[1] \in Tables /\ p[2] \in 1 .. Slots
    BY SpotParts
  <2>2. CASE p[1] # c
    BY <1>1, <2>1, <2>2 DEF All, IsTable, At, Entry
  <2>3. CASE p[1] = c
    <3>1. p \notin All(v)
      BY <2>3 DEF All
    <3>2. p \notin All(v1)
      <4>1. CASE val.kind # "table"
        BY <1>1, <2>3, <4>1 DEF All, IsTable
      <4>2. CASE \E up \in Tables : val = Table(up)
        <5>1. PICK up \in Tables : val = Table(up)
          BY <4>2
        <5>2. val.ent[p[2]] = Unused
          BY <2>1, <5>1 DEF Table
        <5>3. At(v1, p) = Unused
          BY <1>1, <2>3, <5>2 DEF At, Entry
        <5> QED BY <5>3 DEF All
      <4> QED BY <4>1, <4>2
    <3> QED BY <3>1, <3>2
  <2> QED BY <2>2, <2>3
<1> QED BY <1>2 DEF SameEntries, All

\* An empty table can be put in.
LEMMA TableHeld ==
    ASSUME NEW up \in Tables
    PROVE  Table(up) \in Holds /\ Table(up).kind = "table"
<1>1. [r \in 1 .. Slots |-> Unused] \in [1 .. Slots -> Entries]
  BY DEF Entries
<1> QED BY <1>1 DEF Table, Holds, TableHolds

EntryMoves(v, sv, F, op, f, ch, rest) ==
    \/ EntryKind(v, sv, op, ch, rest) \/ SetKind(v, F, op, f, ch, rest)
    \/ NewKind(v, F, op, ch) \/ OldKind(v, F, op, ch, rest)

\* A change that is none of an entry keeps the entries.
LEMMA EntriesStay ==
    ASSUME NEW v, NEW d, NEW w, NEW sh, NEW sv, NEW F, NEW G, NEW op, NEW f, NEW a, NEW ch, NEW rest,
           NEW v1, NEW d1, Turn(v, d, w, sh, sv, F, G, op, f, a, ch, rest, v1, d1)
    PROVE  /\ ch.do # "entry" => SameEntries(v, v1)
           /\ ch.do = "put" => SameEntries(d, d1)
           /\ ch.do = "fat" => \E c \in Clusters, val \in Nat :
                 /\ ch = SetFat(c, val) /\ (val = 0 /\ IsTable(v, c) => Used(v, c) = {} /\ w # FatSector(c))
           /\ ch.do = "entry" => EntryMoves(v, sv, F, op, f, ch, rest)
<1>1. /\ v \in Volumes /\ d \in Volumes /\ Agree(v, d, w) /\ Legal(v, w, ch) /\ v1 = Changed(v, ch)
      /\ d1 = DiskAfter(v, d, w, ch) /\ Ahead(F, G, op, f, a) /\ Kind(v, sv, F, op, f, a, ch, rest)
      /\ FilsFull(v, F, G) /\ (op # "rename" => Fine(v, G, sh) /\ Fine(v1, G, sh))
  BY DEF Turn
<1>2. /\ FreeKind(op, ch) \/ LinkKind(v, ch) \/ CutKind(v, op, f, a, ch) => ch.do = "fat"
      /\ BufferKind(v, F, op, f, a, ch) \/ TableKind(v, ch) => ch.do = "put"
      /\ EntryMoves(v, sv, F, op, f, ch, rest) => ch.do = "entry"
      /\ UpKind(op, ch) => ch.do = "up"
      /\ LegalMove(ch) => ch.do = "move"
  BY KindDoes DEF EntryMoves
<1>3. /\ \A c, val : SetFat(c, val).do = "fat"
      /\ \A c, val : Put(c, val).do = "put"
      /\ \A t, s, e : SetEntry(t, s, e).do = "entry"
      /\ \A t, up : SetUp(t, up).do = "up"
      /\ \A sector : Move(sector).do = "move"
  BY DEF SetFat, Put, SetEntry, SetUp, Move
<1>4. ch.do = "entry" => EntryMoves(v, sv, F, op, f, ch, rest)
  BY <1>1, <1>2 DEF Kind, EntryMoves
<1>5. CASE ch.do = "fat"
  <2>1. LegalFat(v, w, ch)
    BY <1>1, <1>3, <1>5 DEF Legal, LegalEntry, LegalUp, LegalPut, LegalMove
  <2>2. PICK c \in Clusters, val \in Nat : /\ ch = SetFat(c, val)
                                           /\ val = 0 /\ IsTable(v, c) => w # FatSector(c)
    BY <2>1 DEF LegalFat
  <2>3. ASSUME val = 0, IsTable(v, c)  PROVE Used(v, c) = {}
    <3>1. ch.val = 0
      BY <2>2, <2>3 DEF SetFat
    <3>2. FreeKind(op, ch)
      <4>1. ~ LinkKind(v, ch)
        BY <3>1 DEF LinkKind, SetFat
      <4>2. ~ CutKind(v, op, f, a, ch)
        BY <3>1, Constants DEF CutKind, SetFat
      <4> QED BY <1>1, <1>2, <1>5, <4>1, <4>2 DEF Kind, EntryMoves
    <3>3. op # "rename"
      BY <3>2 DEF FreeKind
    <3> QED BY <1>1, <2>2, <2>3, <3>3, FreedEmpty
  <2>4. SameEntries(v, v1)
    BY <1>1, <2>2, <2>3, FatEntries DEF SameEntries
  <2> QED BY <1>5, <2>2, <2>3, <2>4
<1>6. CASE ch.do = "put"
  <2>1. CASE BufferKind(v, F, op, f, a, ch)
    <3> DEFINE c == F[f].dirty
               val == Data(F[f].id, F[f].part)
    <3>1. op # "rename"
      BY <2>1 DEF BufferKind
    <3>2. c \in Clusters /\ ~ IsTable(v, c) /\ val \in Holds /\ val.kind # "table" /\ ch = Put(c, val)
      BY <1>1, <2>1, <3>1, BufferNoTable
    <3> HIDE DEF c, val
    <3>3. ~ IsTable(d, c)
      BY <1>1, <3>2, Constants DEF Agree
    <3>4. d1 = Changed(d, ch)
      BY <1>1, <1>6 DEF DiskAfter
    <3> QED BY <1>1, <1>6, <3>2, <3>3, <3>4, PutEntries
  <2>2. CASE TableKind(v, ch)
    <3>1. PICK c \in Clusters, up \in Tables : ~ IsTable(v, c) /\ ch = Put(c, Table(up))
      BY <2>2 DEF TableKind
    <3>2. ~ IsTable(d, c)
      BY <1>1, <3>1, Constants DEF Agree
    <3>3. d1 = Changed(d, ch)
      BY <1>1, <1>6 DEF DiskAfter
    <3>4. Table(up) \in Holds
      BY TableHeld
    <3> QED BY <1>1, <1>6, <3>1, <3>2, <3>3, <3>4, PutEntries
  <2> QED BY <1>1, <1>2, <1>6, <2>1, <2>2 DEF Kind, EntryMoves
<1>7. CASE ch.do = "up"
  <2>1. PICK t \in Tables, up \in Tables : ch = SetUp(t, up) /\ IsTable(v, t)
    BY <1>1, <1>3, <1>7 DEF Legal, LegalEntry, LegalUp, LegalPut, LegalMove, LegalFat
  <2>2. /\ \A x \in Tables : IsTable(v1, x) <=> IsTable(v, x)
        /\ \A x \in Tables, r \in 1 .. Slots : Entry(v1, x, r) = Entry(v, x, r)
    BY <1>1, <2>1, UpChanged
  <2>3. SameEntries(v, v1)
    BY <2>2, SpotParts DEF SameEntries, All, At
  <2> QED BY <1>7, <2>3
<1>8. CASE ch.do = "move"
  <2>1. LegalMove(ch)
    BY <1>1, <1>3, <1>8 DEF Legal, LegalEntry, LegalUp, LegalPut, LegalFat
  <2>2. v1 = v
    BY <1>1, <2>1, MoveChanged DEF LegalMove
  <2> QED BY <1>8, <2>2 DEF SameEntries
<1>9. ch.do \in {"fat", "put", "up", "move", "entry"}
  BY <1>1, <1>2 DEF Kind, EntryMoves
<1> QED BY <1>4, <1>5, <1>6, <1>7, <1>8, <1>9

\* The medium before the change, with what is written back.
Base(v, d, w, ch) == IF ch.do = "put" \/ w = ch.at THEN d ELSE v

\* That medium has the entries of the one behind the change.
LEMMA BaseEntries ==
    ASSUME NEW v, NEW d, NEW w, NEW sh, NEW sv, NEW F, NEW G, NEW op, NEW f, NEW a, NEW ch, NEW rest,
           NEW v1, NEW d1, Turn(v, d, w, sh, sv, F, G, op, f, a, ch, rest, v1, d1),
           NEW e, e = Base(v, d, w, ch)
    PROVE  e \in Volumes /\ SameEntries(e, d1) /\ IsTable(e, 0) /\ Rooted(e)
<1>1. /\ v \in Volumes /\ d \in Volumes /\ Agree(v, d, w) /\ d1 = DiskAfter(v, d, w, ch)
      /\ IsTable(v, 0) /\ Rooted(v) /\ Rooted(d)
  BY DEF Turn
<1>2. \A t \in Tables : IsTable(d, t) <=> IsTable(v, t)
  BY <1>1 DEF Agree
<1>3. e \in Volumes /\ IsTable(e, 0) /\ Rooted(e) /\ \A t \in Tables : IsTable(e, t) <=> IsTable(v, t)
  BY <1>1, <1>2, Constants DEF Base
<1>4. CASE ch.do = "put"
  <2>1. SameEntries(d, d1)
    BY <1>4, EntriesStay
  <2> QED BY <1>3, <1>4, <2>1 DEF Base
<1>5. CASE ch.do = "fat"
  <2>1. PICK c \in Clusters, val \in Nat :
           /\ ch = SetFat(c, val) /\ (val = 0 /\ IsTable(v, c) => Used(v, c) = {} /\ w # FatSector(c))
    BY <1>5, EntriesStay
  <2>2. d1 = Forgot(e, ch)
    BY <1>1, <1>5 DEF DiskAfter, Base
  <2>3. /\ d1 \in Volumes /\ \A t \in Tables : t # c \/ val # 0 => d1.has[t] = e.has[t]
        /\ val = 0 => ~ IsTable(d1, c)
    BY <1>3, <2>1, <2>2, FatForgets
  <2>4. val = 0 /\ IsTable(e, c) => Used(e, c) = {}
    <3>1. ch.at = FatSector(c)
      BY <2>1 DEF SetFat
    <3> QED BY <1>3, <1>5, <2>1, <3>1, Constants DEF Base
  <2>5. ASSUME NEW p \in Spots
        PROVE  (p \in All(d1) <=> p \in All(e)) /\ (p \in All(e) => At(d1, p) = At(e, p))
    <3>1. p[1] \in Tables /\ p[2] \in 1 .. Slots
      BY SpotParts
    <3>2. CASE p[1] # c \/ val # 0
      BY <2>3, <3>1, <3>2 DEF All, IsTable, At, Entry
    <3>3. CASE p[1] = c /\ val = 0
      <4>1. p \notin All(d1)
        BY <2>3, <3>3 DEF All
      <4>2. p \notin All(e)
        BY <2>4, <3>1, <3>3 DEF All, Used, At
      <4> QED BY <4>1, <4>2
    <3> QED BY <3>2, <3>3
  <2> QED BY <1>3, <2>5 DEF SameEntries, All
<1>6. CASE ch.do # "put" /\ ch.do # "fat"
  <2>1. d1 = e
    BY <1>1, <1>6 DEF DiskAfter, Base
  <2> QED BY <1>3, <2>1 DEF SameEntries
<1> QED BY <1>4, <1>5, <1>6

\* The root stays a table.
LEMMA RootStays ==
    ASSUME NEW v \in Volumes, IsTable(v, 0), NEW w, NEW ch, Legal(v, w, ch)
    PROVE  IsTable(Changed(v, ch), 0)
<1>1. 0 \in Tables /\ 0 \notin Clusters
  BY Constants
<1>2. CASE LegalFat(v, w, ch)
  BY <1>1, <1>2, FatChanged DEF LegalFat, IsTable
<1>3. CASE LegalEntry(v, ch)
  BY <1>1, <1>3, EntryChanged DEF LegalEntry
<1>4. CASE LegalUp(v, ch)
  BY <1>1, <1>4, UpChanged DEF LegalUp
<1>5. CASE LegalPut(v, w, ch)
  BY <1>1, <1>5, PutChanged DEF LegalPut, IsTable
<1>6. CASE LegalMove(ch)
  BY <1>6, MoveChanged DEF LegalMove
<1> QED BY <1>2, <1>3, <1>4, <1>5, <1>6 DEF Legal

\* The tables that have entries are still reached, in the volume and on the medium.
LEMMA RootsStay ==
    ASSUME NEW v, NEW d, NEW w, NEW sh, NEW sv, NEW F, NEW G, NEW op, NEW f, NEW a, NEW ch, NEW rest,
           NEW v1, NEW d1, Turn(v, d, w, sh, sv, F, G, op, f, a, ch, rest, v1, d1)
    PROVE  IsTable(v1, 0) /\ Rooted(v1) /\ Rooted(d1)
<1>1. /\ v \in Volumes /\ d \in Volumes /\ Agree(v, d, w) /\ Legal(v, w, ch) /\ v1 = Changed(v, ch)
      /\ d1 = DiskAfter(v, d, w, ch) /\ d1 \in Volumes /\ v1 \in Volumes
      /\ IsTable(v, 0) /\ Rooted(v)
      /\ op # "rename" => Fine(v1, G, sh)
      /\ op = "rename" /\ rest \in {<<>>, <<Sync>>} => Fine(v1, G, sh)
  BY DEF Turn
<1>2. IsTable(v1, 0)
  BY <1>1, RootStays
<1>3. IsTable(d1, 0)
  <2>1. StepSafe(v, d, w, ch)
    BY <1>1, StepIsSafe
  <2>2. Agree(v1, d1, WinAfter(w, ch))
    BY <1>1, <2>1 DEF StepSafe
  <2> QED BY <1>2, <2>2, Constants DEF Agree
<1>4. Rooted(d1)
  BY <1>3, BaseEntries, RootedLike
<1>5. Rooted(v1)
  <2>1. CASE ch.do # "entry"
    BY <1>1, <1>2, <2>1, EntriesStay, RootedLike
  <2>2. CASE ch.do = "entry" /\ op # "rename"
    BY <1>1, <2>2, FineParts
  <2>3. CASE ch.do = "entry" /\ op = "rename"
    <3>1. EntryMoves(v, sv, F, op, f, ch, rest)
      BY <2>3, EntriesStay
    <3>2. CASE OldKind(v, F, op, ch, rest)
      BY <1>1, <2>3, <3>2, FineParts DEF OldKind
    <3>3. CASE NewKind(v, F, op, ch)
      <4>1. PICK p \in Spots, q \in Spots, n \in Entries :
               Twin(v, F, p, n) /\ q \notin All(v) /\ q[1] \in Reach(v) /\ ch = SetEntry(q[1], q[2], n)
        BY <3>3 DEF NewKind
      <4>2. q[1] \in Tables /\ q[2] \in 1 .. Slots /\ q = <<q[1], q[2]>> /\ IsTable(v, q[1])
        BY <1>1, <4>1, SpotParts, ReachTables
      <4> QED BY <1>1, <4>1, <4>2, EntryRooted
    <3> QED BY <2>3, <3>1, <3>2, <3>3 DEF EntryMoves, EntryKind, SetKind
  <2> QED BY <2>1, <2>2, <2>3
<1> QED BY <1>2, <1>4, <1>5
-----------------------------------------------------------------------------
(* What a change leaves *)

\* A rename writes no cluster and no entry of the FAT.
LEMMA RenameSpares ==
    ASSUME NEW v, NEW sv, NEW F, NEW f, NEW a, NEW ch, NEW rest,
           Kind(v, sv, F, "rename", f, a, ch, rest), NEW id, NEW s
    PROVE  Spared(ch, id, s)
<1>1. NewKind(v, F, "rename", ch) \/ OldKind(v, F, "rename", ch, rest) \/ UpKind("rename", ch) \/ LegalMove(ch)
  BY DEF Kind
<1>2. /\ NewKind(v, F, "rename", ch) \/ OldKind(v, F, "rename", ch, rest) => ch.do = "entry"
      /\ UpKind("rename", ch) => ch.do = "up"
      /\ LegalMove(ch) => ch.do = "move"
  BY KindDoes
<1>3. ch.do \in {"entry", "up", "move"}
  BY <1>1, <1>2
<1> QED BY <1>3 DEF Spared

\* A file object has what it says, ...
LEMMA FilStays ==
    ASSUME NEW v, NEW d, NEW w, NEW sh, NEW sv, NEW F, NEW G, NEW op, NEW f, NEW a, NEW ch, NEW rest,
           NEW v1, NEW d1, Turn(v, d, w, sh, sv, F, G, op, f, a, ch, rest, v1, d1),
           NEW g \in Fils, F[g].open, NEW s, FilFull(v, F[g], G[g], s)
    PROVE  FilFull(v1, F[g], G[g], s)
<1>1. /\ v \in Volumes /\ Legal(v, w, ch) /\ v1 = Changed(v, ch) /\ Ahead(F, G, op, f, a)
      /\ Kind(v, sv, F, op, f, a, ch, rest) /\ FilsFull(v, F, G) /\ (op # "rename" => Fine(v, G, sh))
  BY DEF Turn
<1>3. Parts(v, F[g].id, G[g].clst, G[g].size, F[g].dirty, F[g].part, s)
  BY DEF FilFull
<1>4. Spared(ch, F[g].id, s)
  <2>1. CASE op = "rename"
    BY <1>1, <2>1, RenameSpares
  <2>2. CASE op # "rename" /\ G[g].size > 0
    <3>1. Piece(v, G, Place(F[g]), F[g].id, G[g].size, F[g].dirty, F[g].part, s)
      BY <1>1, <2>2, FilPiece
    <3> QED BY <2>2, <3>1, PieceSpared
  <2>3. CASE ~ G[g].size > 0
    <3>1. Len(s) = G[g].size /\ G[g].size \in Nat
      BY <1>3, PartsTyped
    <3> QED BY <2>3, <3>1 DEF Spared
  <2> QED BY <2>1, <2>2, <2>3
<1>5. Parts(v1, F[g].id, G[g].clst, G[g].size, F[g].dirty, F[g].part, s)
  BY <1>1, <1>3, <1>4, PartsStay
<1> QED BY <1>5 DEF FilFull

\* ... and all of them have.
LEMMA FilsStay ==
    ASSUME NEW v, NEW d, NEW w, NEW sh, NEW sv, NEW F, NEW G, NEW op, NEW f, NEW a, NEW ch, NEW rest,
           NEW v1, NEW d1, Turn(v, d, w, sh, sv, F, G, op, f, a, ch, rest, v1, d1)
    PROVE  FilsFull(v1, F, G)
<1> SUFFICES ASSUME NEW g \in Fils, F[g].open  PROVE \E s \in Seq(Clusters) : FilFull(v1, F[g], G[g], s)
  BY DEF FilsFull
<1>1. PICK s \in Seq(Clusters) : FilFull(v, F[g], G[g], s)
  BY DEF Turn, FilsFull
<1>2. FilFull(v1, F[g], G[g], s)
  BY <1>1, FilStays
<1> QED BY <1>2

\* Parts that begin elsewhere, if there are none.
LEMMA PartsMoved ==
    ASSUME NEW v, NEW id, NEW c, NEW n, NEW d, NEW k, NEW s, Parts(v, id, c, n, d, k, s),
           NEW x, n > 0 => x = c
    PROVE  Parts(v, id, x, n, d, k, s)
BY DEF Parts

\* The parts of an entry of a file that is not cut are spared.
LEMMA EntrySpared ==
    ASSUME NEW v, NEW d, NEW w, NEW sh, NEW sv, NEW F, NEW G, NEW op, NEW f, NEW a, NEW ch, NEW rest,
           NEW v1, NEW d1, Turn(v, d, w, sh, sv, F, G, op, f, a, ch, rest, v1, d1),
           NEW p \in All(v), ~ At(v, p).dir, op # "rename" => p \notin CutPlaces(G, sh),
           NEW n, n <= At(v, p).size, NEW s, Parts(v, At(v, p).id, At(v, p).clst, n, 0, 0, s)
    PROVE  Spared(ch, At(v, p).id, s) /\ Parts(v1, At(v, p).id, At(v, p).clst, n, 0, 0, s)
<1>1. /\ v \in Volumes /\ Legal(v, w, ch) /\ v1 = Changed(v, ch)
      /\ Kind(v, sv, F, op, f, a, ch, rest) /\ (op # "rename" => Fine(v, G, sh))
  BY DEF Turn
<1>2. Spared(ch, At(v, p).id, s)
  <2>1. CASE op = "rename"
    BY <1>1, <2>1, RenameSpares
  <2>2. CASE op # "rename" /\ n > 0
    <3>1. Piece(v, G, p, At(v, p).id, n, 0, 0, s)
      BY <1>1, <2>2, EntryPiece
    <3> QED BY <2>2, <3>1, PieceSpared
  <2>3. CASE ~ n > 0
    <3>1. Len(s) = n /\ n \in Nat
      BY PartsTyped
    <3> QED BY <2>3, <3>1 DEF Spared
  <2> QED BY <2>1, <2>2, <2>3
<1> QED BY <1>1, <1>2, PartsStay

\* Where an entry is set, and what is in the others.
LEMMA EntryGoes ==
    ASSUME NEW v \in Volumes, NEW w, NEW ch, Legal(v, w, ch), ch.do = "entry", NEW v1, v1 = Changed(v, ch)
    PROVE  \E t \in Tables, s \in 1 .. Slots, e \in Entries :
              /\ ch = SetEntry(t, s, e) /\ IsTable(v, t) /\ ch.at = TableSector(t)
              /\ At(v1, <<t, s>>) = e /\ (<<t, s>> \in All(v1) <=> e # Unused)
              /\ \A p : p # <<t, s>> => /\ p \in All(v1) <=> p \in All(v)
                                        /\ p \in All(v) => At(v1, p) = At(v, p)
              /\ v1.fat = v.fat
<1>1. PICK t \in Tables, s \in 1 .. Slots, e \in Entries : ch = SetEntry(t, s, e) /\ IsTable(v, t)
  BY DEF Legal, LegalEntry, LegalUp, LegalPut, LegalMove, LegalFat, SetFat, Put, Move, SetUp
<1>2. ch.at = TableSector(t)
  BY <1>1 DEF SetEntry
<1>3. /\ At(v1, <<t, s>>) = e /\ (<<t, s>> \in All(v1) <=> e # Unused) /\ v1.fat = v.fat
      /\ \A p \in Spots : p # <<t, s>> => At(v1, p) = At(v, p)
      /\ \A p : p # <<t, s>> => (p \in All(v1) <=> p \in All(v))
  BY <1>1, EntrySpots
<1> QED BY <1>1, <1>2, <1>3 DEF All

\* Nothing on the medium under the change is older than the volume.
LEMMA BaseWritten ==
    ASSUME NEW v, NEW d, NEW w, NEW ch, Legal(v, w, ch),
           NEW todo, todo # <<>>, Head(todo) = ch, Written(v, d, w, todo)
    PROVE  EntriesWritten(v, Base(v, d, w, ch))
<1>1. CASE EntriesWritten(v, d)
  BY <1>1 DEF Base, EntriesWritten
<1>2. CASE ~ EntriesWritten(v, d)
  <2>1. PICK t \in Tables : w = TableSector(t)
    BY <1>2 DEF Written
  <2>2. ch.do = "fat" \/ ch = Sync
    BY <1>2 DEF Written, Flushes, FlushesBy
  <2>3. ~ (ch.do = "put" \/ w = ch.at)
    <3>1. CASE ch = Sync
      BY <2>1, <3>1, Sectors DEF Sync
    <3>2. CASE ch.do = "fat"
      <4>1. \E c, val : ch = SetFat(c, val)
        BY <3>2 DEF Legal, LegalEntry, LegalUp, LegalPut, LegalMove, LegalFat, SetEntry, Put, Move, SetUp
      <4>2. \E c : ch.at = FatSector(c)
        BY <4>1 DEF SetFat
      <4> QED BY <2>1, <3>2, <4>2, Sectors
    <3> QED BY <2>2, <3>1, <3>2
  <2> QED BY <2>3 DEF Base, EntriesWritten
<1> QED BY <1>1, <1>2
-----------------------------------------------------------------------------

\* A file is no longer cut when f_sync has set its entry.
LEMMA CutIs ==
    ASSUME NEW v, NEW sv, NEW F, NEW op, NEW f, NEW a, NEW ch, NEW rest,
           Kind(v, sv, F, op, f, a, ch, rest), NEW sh, NEW todo, todo # <<>>, todo = <<Sync>> => ch = Sync,
           op = "sync" /\ ch = Sync => todo = <<Sync>>
    PROVE  \/ Cut(op, f, F, sh, rest) = Cut(op, f, F, sh, todo)
           \/ /\ SetKind(v, F, op, f, ch, rest) /\ Cut(op, f, F, sh, todo) = sh
              /\ Cut(op, f, F, sh, rest) = sh \ {F[f].id}
<1>1. CASE op # "sync"
  BY <1>1 DEF Cut
<1>2. CASE op = "sync"
  <2>1. \/ SetKind(v, F, op, f, ch, rest) \/ (ch = Sync /\ rest = <<>>)
        \/ BufferKind(v, F, op, f, a, ch) /\ rest \notin {<<>>, <<Sync>>}
    BY <1>2 DEF Kind
  <2>2. /\ SetKind(v, F, op, f, ch, rest) => ch.do = "entry"
        /\ BufferKind(v, F, op, f, a, ch) => ch.do = "put"
    BY KindDoes
  <2>3. Sync.do = "move"
    BY DEF Sync
  <2>5. CASE SetKind(v, F, op, f, ch, rest)
    <3>1. rest = <<Sync>> /\ todo # <<Sync>>
      BY <2>2, <2>3, <2>5 DEF SetKind
    <3> QED BY <1>2, <2>5, <3>1 DEF Cut
  <2>6. CASE ch = Sync /\ rest = <<>>
    BY <1>2, <2>6 DEF Cut
  <2>7. CASE BufferKind(v, F, op, f, a, ch) /\ rest \notin {<<>>, <<Sync>>}
    BY <1>2, <2>2, <2>3, <2>7 DEF Cut
  <2> QED BY <2>1, <2>5, <2>6, <2>7
<1> QED BY <1>1, <1>2

\* The entry that f_sync sets.
LEMMA SetIs ==
    ASSUME NEW v, NEW d, NEW w, NEW sh, NEW sv, NEW F, NEW G, NEW op, NEW f, NEW a, NEW ch, NEW rest,
           NEW v1, NEW d1, Turn(v, d, w, sh, sv, F, G, op, f, a, ch, rest, v1, d1),
           SetKind(v, F, op, f, ch, rest), NEW o, o = F[f], NEW q, q = Place(o)
    PROVE  /\ f \in Fils /\ o.open /\ G = F /\ q \in All(v) /\ ~ At(v, q).dir /\ At(v, q).id = o.id
           /\ q \in All(v1) /\ ~ At(v1, q).dir /\ At(v1, q).id = o.id /\ At(v1, q).clst = o.clst
           /\ At(v1, q).size = o.size /\ o.size \in Nat /\ op = "sync" /\ ch.at = TableSector(o.t) /\ o.t \in Tables
           /\ o.id \in sh \/ At(v, q).size = 0 \/ (At(v, q).clst = o.clst /\ At(v, q).size <= o.size)
           /\ \A g \in Fils : F[g].open /\ F[g].id = o.id => g = f
           /\ \A p : p # q => (p \in All(v1) <=> p \in All(v)) /\ (p \in All(v) => At(v1, p) = At(v, p))
           /\ \E s \in Seq(Clusters) : Parts(v1, o.id, o.clst, o.size, 0, 0, s)
<1>1. /\ v \in Volumes /\ Legal(v, w, ch) /\ v1 = Changed(v, ch) /\ Ahead(F, G, op, f, a)
      /\ op = "sync" /\ Fine(v, G, sh) /\ FilsFull(v1, F, G)
  BY FilsStay DEF Turn, SetKind
<1>2. f \in Fils /\ o.open /\ G = F
  BY <1>1 DEF Ahead
<1>3. /\ q \in All(v) /\ ~ At(v, q).dir /\ At(v, q).id = o.id /\ o \in OpenFils
      /\ o.t \in Tables /\ o.s \in 1 .. Slots /\ o.size \in Nat /\ q = <<o.t, o.s>>
      /\ \A g \in Fils : F[g].open /\ F[g].id = o.id => g = f
      /\ o.id \in sh \/ At(v, q).size = 0 \/ (At(v, q).clst = o.clst /\ At(v, q).size <= o.size)
  BY <1>1, <1>2, HeldEntry, OpenFile
<1> DEFINE n == SyncEntry(At(v, q), o)
<1>4. n # Unused /\ ~ n.dir /\ n.id = o.id /\ n.clst = o.clst /\ n.size = o.size
  <2>1. At(v, q) \in FileEntries
    BY <1>1, <1>3, AllTyped, EntryTyped
  <2> QED BY <1>3, <2>1, SyncEntryIs
<1>5. ch = SetEntry(o.t, o.s, n) /\ (o.dirty # 0 => v.has[o.dirty] = Data(o.id, o.part))
  BY DEF SetKind
<1> HIDE DEF n
<1>6. PICK t \in Tables, s \in 1 .. Slots, e \in Entries :
         /\ ch = SetEntry(t, s, e) /\ IsTable(v, t) /\ ch.at = TableSector(t)
         /\ At(v1, <<t, s>>) = e /\ (<<t, s>> \in All(v1) <=> e # Unused)
         /\ \A p : p # <<t, s>> => /\ p \in All(v1) <=> p \in All(v)
                                   /\ p \in All(v) => At(v1, p) = At(v, p)
         /\ v1.fat = v.fat
  <2>1. ch.do = "entry"
    BY <1>5 DEF SetEntry
  <2> QED BY <1>1, <2>1, EntryGoes
<1>7. t = o.t /\ s = o.s /\ e = n
  BY <1>5, <1>6 DEF SetEntry
<1>8. \E u \in Seq(Clusters) : Parts(v1, o.id, o.clst, o.size, 0, 0, u)
  <2>1. PICK u \in Seq(Clusters) : FilFull(v, o, o, u)
    BY <1>1, <1>2 DEF Turn, FilsFull
  <2>2. Parts(v, o.id, o.clst, o.size, 0, 0, u)
    BY <1>5, <2>1, PartsWritten DEF FilFull
  <2>3. Spared(ch, o.id, u)
    BY <1>5 DEF Spared, SetEntry
  <2> QED BY <1>1, <2>2, <2>3, PartsStay
<1> QED BY <1>1, <1>2, <1>3, <1>4, <1>6, <1>7, <1>8

\* Every file has what its entry says, but for those that are cut.
LEMMA EntriesStayFull ==
    ASSUME NEW v, NEW d, NEW w, NEW sh, NEW sv, NEW F, NEW G, NEW op, NEW f, NEW a, NEW ch, NEW rest,
           NEW v1, NEW d1, Turn(v, d, w, sh, sv, F, G, op, f, a, ch, rest, v1, d1),
           NEW cut, NEW left, EntriesFull(v, CutPlaces(G, cut)),
           left = cut \/ (SetKind(v, F, op, f, ch, rest) /\ cut = sh /\ left = sh \ {F[f].id}),
           cut = sh \/ ch = Sync
    PROVE  EntriesFull(v1, CutPlaces(G, left))
<1>1. /\ v \in Volumes /\ Legal(v, w, ch) /\ v1 = Changed(v, ch) /\ Ahead(F, G, op, f, a)
      /\ Kind(v, sv, F, op, f, a, ch, rest) /\ (op # "rename" => Fine(v, G, sh))
  BY DEF Turn
<1> SUFFICES ASSUME NEW p \in All(v1), ~ At(v1, p).dir, p \notin CutPlaces(G, left)
             PROVE  Full(v1, At(v1, p).id, At(v1, p).clst, At(v1, p).size)
  BY DEF EntriesFull
<1>2. ASSUME NEW q \in All(v), ~ At(v, q).dir, q \notin CutPlaces(G, cut)
      PROVE  Full(v1, At(v, q).id, At(v, q).clst, At(v, q).size)
  <2>1. PICK s \in Seq(Clusters) : Parts(v, At(v, q).id, At(v, q).clst, At(v, q).size, 0, 0, s)
    BY <1>2 DEF EntriesFull, Full
  <2>2. Parts(v1, At(v, q).id, At(v, q).clst, At(v, q).size, 0, 0, s)
    <3>1. CASE cut = sh
      <4>1. At(v, q).size <= At(v, q).size
        BY <1>1, AllTyped
      <4> QED BY <1>2, <2>1, <3>1, <4>1, EntrySpared
    <3>2. CASE ch = Sync
      <4>1. Spared(ch, At(v, q).id, s)
        BY <3>2 DEF Spared, Sync
      <4> QED BY <1>1, <2>1, <4>1, PartsStay
    <3> QED BY <3>1, <3>2
  <2> QED BY <2>2 DEF Full
<1>3. CASE SetKind(v, F, op, f, ch, rest)
  <2> DEFINE o == F[f]
             q == Place(o)
  <2>1. /\ f \in Fils /\ o.open /\ G = F /\ At(v1, q).id = o.id /\ At(v1, q).clst = o.clst
        /\ At(v1, q).size = o.size /\ (\A g \in Fils : F[g].open /\ F[g].id = o.id => g = f)
        /\ (\A x : x # q => (x \in All(v1) <=> x \in All(v)) /\ (x \in All(v) => At(v1, x) = At(v, x)))
        /\ (\E s \in Seq(Clusters) : Parts(v1, o.id, o.clst, o.size, 0, 0, s))
    BY <1>3, SetIs
  <2>2. CASE p = q
    BY <2>1, <2>2 DEF Full
  <2>3. CASE p # q
    <3>1. p \in All(v) /\ At(v1, p) = At(v, p)
      BY <2>1, <2>3
    <3>2. p \notin CutPlaces(G, cut)
      <4> SUFFICES ASSUME NEW g \in Fils, F[g].open, F[g].id \in cut, p = Place(F[g])  PROVE FALSE
        BY <2>1 DEF CutPlaces
      <4>1. F[g].id \in left
        BY <2>1, <2>3
      <4> QED BY <2>1, <4>1 DEF CutPlaces
    <3> QED BY <1>2, <3>1, <3>2
  <2> QED BY <2>2, <2>3
<1>4. CASE ~ SetKind(v, F, op, f, ch, rest)
  <2>1. left = cut
    BY <1>4
  <2>2. CASE p \in All(v) /\ At(v1, p) = At(v, p)
    BY <1>2, <2>1, <2>2
  <2>3. CASE ~ (p \in All(v) /\ At(v1, p) = At(v, p))
    <3>1. ch.do = "entry" /\ EntryMoves(v, sv, F, op, f, ch, rest)
      BY <2>3, EntriesStay DEF SameEntries
    <3>2. PICK t \in Tables, s \in 1 .. Slots, e \in Entries :
             /\ ch = SetEntry(t, s, e) /\ At(v1, <<t, s>>) = e /\ (<<t, s>> \in All(v1) <=> e # Unused)
             /\ \A x : x # <<t, s>> => (x \in All(v1) <=> x \in All(v)) /\ (x \in All(v) => At(v1, x) = At(v, x))
      BY <1>1, <3>1, EntryGoes
    <3>3. p = <<t, s>> /\ e # Unused /\ ~ e.dir
      BY <2>3, <3>2
    <3>4. CASE EntryKind(v, sv, op, ch, rest)
      <4>1. PICK t1 \in Tables, s1 \in 1 .. Slots, e1 \in Entries :
               ch = SetEntry(t1, s1, e1) /\ (e1 = Unused \/ e1.dir \/ e1.size = 0)
        BY <3>4 DEF EntryKind
      <4>2. e1 = e
        BY <3>2, <4>1 DEF SetEntry
      <4>3. e.size = 0
        BY <3>3, <4>1, <4>2
      <4> QED BY <3>2, <3>3, <4>3, PartsNone
    <3>5. CASE NewKind(v, F, op, ch)
      <4>1. PICK r \in Spots, q \in Spots, n \in Entries :
               Twin(v, F, r, n) /\ ch = SetEntry(q[1], q[2], n) /\ op = "rename"
        BY <3>5 DEF NewKind
      <4>2. n = e
        BY <3>2, <4>1 DEF SetEntry
      <4>3. /\ r \in All(v) /\ (\A g \in Fils : F[g].open => Place(F[g]) # r)
            /\ At(v1, p).id = At(v, r).id /\ At(v, r).dir = At(v1, p).dir
            /\ At(v1, p).clst = At(v, r).clst /\ At(v1, p).size = At(v, r).size
        BY <3>2, <3>3, <4>1, <4>2 DEF Twin
      <4>4. r \notin CutPlaces(G, cut)
        <5>1. G = F
          BY <1>1, <4>1 DEF Ahead
        <5> QED BY <4>3, <5>1 DEF CutPlaces
      <4> QED BY <1>2, <4>3, <4>4
    <3>6. CASE OldKind(v, F, op, ch, rest)
      <4>1. PICK r \in Spots : ch = SetEntry(r[1], r[2], Unused)
        BY <3>6 DEF OldKind
      <4>2. e = Unused
        BY <3>2, <4>1 DEF SetEntry
      <4> QED BY <3>3, <4>2
    <3> QED BY <1>4, <3>1, <3>4, <3>5, <3>6 DEF EntryMoves
  <2> QED BY <2>2, <2>3
<1> QED BY <1>3, <1>4
-----------------------------------------------------------------------------

\* The entry of a saved file is still there, or another one of the same file.
LEMMA SavedEntry ==
    ASSUME NEW v, NEW d, NEW w, NEW sh, NEW sv, NEW F, NEW G, NEW op, NEW f, NEW a, NEW ch, NEW rest,
           NEW v1, NEW d1, Turn(v, d, w, sh, sv, F, G, op, f, a, ch, rest, v1, d1),
           NEW id, id \notin sh, NEW n, sv[id] # NotSaved, n \in Nat, NEW p, NEW s, SavedAt(v, id, n, p, s)
    PROVE  /\ \E q \in Spots : SavedAt(v1, id, n, q, s)
           /\ Spared(ch, id, s)
<1>1. /\ v \in Volumes /\ Legal(v, w, ch) /\ v1 = Changed(v, ch) /\ Ahead(F, G, op, f, a)
      /\ Kind(v, sv, F, op, f, a, ch, rest) /\ (op # "rename" => Fine(v, G, sh))
  BY DEF Turn
<1>2. /\ p \in All(v) /\ ~ At(v, p).dir /\ At(v, p).id = id /\ At(v, p).size >= n
      /\ Parts(v, id, At(v, p).clst, n, 0, 0, s) /\ At(v, p).size \in Nat /\ p \in Spots
  BY <1>1, AllTyped DEF SavedAt
<1>3. Spared(ch, id, s) /\ Parts(v1, id, At(v, p).clst, n, 0, 0, s)
  <2>1. op # "rename" => p \notin CutPlaces(G, sh)
    <3> SUFFICES ASSUME op # "rename", NEW g \in Fils, G[g].open, G[g].id \in sh, p = Place(G[g])  PROVE FALSE
      BY DEF CutPlaces
    <3> QED BY <1>1, <1>2, HeldEntry
  <2>2. n <= At(v, p).size
    BY <1>2
  <2> QED BY <1>2, <2>1, <2>2, EntrySpared
<1>4. CASE p \in All(v1) /\ At(v1, p) = At(v, p)
  BY <1>2, <1>3, <1>4 DEF SavedAt
<1>5. CASE ~ (p \in All(v1) /\ At(v1, p) = At(v, p))
  <2>1. ch.do = "entry" /\ EntryMoves(v, sv, F, op, f, ch, rest)
    BY <1>2, <1>5, EntriesStay DEF SameEntries
  <2>2. PICK t \in Tables, r \in 1 .. Slots, e \in Entries :
           /\ ch = SetEntry(t, r, e) /\ At(v1, <<t, r>>) = e /\ (<<t, r>> \in All(v1) <=> e # Unused)
           /\ \A x : x # <<t, r>> => (x \in All(v1) <=> x \in All(v)) /\ (x \in All(v) => At(v1, x) = At(v, x))
    BY <1>1, <2>1, EntryGoes
  <2>3. p = <<t, r>>
    BY <1>2, <1>5, <2>2
  <2>4. CASE EntryKind(v, sv, op, ch, rest)
    <3>1. PICK t1 \in Tables, r1 \in 1 .. Slots, e1 \in Entries :
             /\ ch = SetEntry(t1, r1, e1)
             /\ <<t1, r1>> \in All(v) => At(v, <<t1, r1>>).dir \/ sv[At(v, <<t1, r1>>).id] = NotSaved
      BY <2>4 DEF EntryKind
    <3>2. t1 = t /\ r1 = r
      BY <2>2, <3>1 DEF SetEntry
    <3> QED BY <1>2, <2>3, <3>1, <3>2
  <2>5. CASE SetKind(v, F, op, f, ch, rest)
    <3> DEFINE o == F[f]
    <3>1. /\ Place(o) \in All(v1) /\ ~ At(v1, Place(o)).dir /\ At(v1, Place(o)).id = o.id
          /\ At(v1, Place(o)).clst = o.clst /\ At(v1, Place(o)).size = o.size /\ o.size \in Nat
          /\ At(v, Place(o)).id = o.id
          /\ o.id \in sh \/ At(v, Place(o)).size = 0
             \/ (At(v, Place(o)).clst = o.clst /\ At(v, Place(o)).size <= o.size)
          /\ \A x : x # Place(o) => (x \in All(v1) <=> x \in All(v)) /\ (x \in All(v) => At(v1, x) = At(v, x))
      BY <2>5, SetIs
    <3>2. p = Place(o)
      BY <1>2, <1>5, <3>1
    <3> HIDE DEF o
    <3>3. o.size >= n /\ (n > 0 => o.clst = At(v, p).clst)
      BY <1>2, <3>1, <3>2
    <3>4. Parts(v1, id, o.clst, n, 0, 0, s)
      BY <1>3, <3>3, PartsMoved
    <3> QED BY <1>2, <1>3, <3>1, <3>2, <3>3, <3>4 DEF SavedAt
  <2>6. CASE NewKind(v, F, op, ch)
    <3>1. PICK q \in Spots, n1 \in Entries : q \notin All(v) /\ ch = SetEntry(q[1], q[2], n1)
      BY <2>6 DEF NewKind
    <3>2. q = <<t, r>>
      BY <2>2, <3>1, SpotParts DEF SetEntry
    <3> QED BY <1>2, <2>3, <3>1, <3>2
  <2>7. CASE OldKind(v, F, op, ch, rest)
    <3>1. PICK p1 \in Spots, q \in Spots :
             p1 # q /\ q \in All(v) /\ Twin(v, F, p1, At(v, q)) /\ ch = SetEntry(p1[1], p1[2], Unused)
      BY <2>7 DEF OldKind
    <3>2. p1 = p
      BY <2>2, <2>3, <3>1, SpotParts DEF SetEntry
    <3>3. q \in All(v1) /\ At(v1, q) = At(v, q)
      BY <2>2, <2>3, <3>1, <3>2
    <3>4. /\ At(v, q).id = id /\ ~ At(v, q).dir /\ At(v, q).clst = At(v, p).clst
          /\ At(v, q).size = At(v, p).size
      BY <1>2, <3>1, <3>2 DEF Twin
    <3> QED BY <1>2, <1>3, <3>3, <3>4 DEF SavedAt
  <2> QED BY <2>1, <2>4, <2>5, <2>6, <2>7 DEF EntryMoves
<1> QED BY <1>3, <1>4, <1>5

\* The files that are saved stay so, in the volume and on the medium.
LEMMA SavedStay ==
    ASSUME NEW v, NEW d, NEW w, NEW sh, NEW sv, NEW F, NEW G, NEW op, NEW f, NEW a, NEW ch, NEW rest,
           NEW v1, NEW d1, Turn(v, d, w, sh, sv, F, G, op, f, a, ch, rest, v1, d1), SavedFull(v, d, sv, sh)
    PROVE  SavedFull(v1, d1, sv, sh)
<1> SUFFICES ASSUME NEW id \in Ids, sv[id] # NotSaved  PROVE SavedIn(v1, d1, id, sv[id])
  BY DEF SavedFull
<1> DEFINE n == sv[id]
<1>1. id \notin sh /\ n \in Nat /\ SavedIn(v, d, id, n)
  BY DEF SavedFull
<1>2. PICK p \in Spots, q \in Spots, s \in Seq(Clusters) : SavedAt(v, id, n, p, s) /\ SavedAt(d, id, n, q, s)
  BY <1>1 DEF SavedIn
<1>3. (\E r \in Spots : SavedAt(v1, id, n, r, s)) /\ Spared(ch, id, s)
  BY <1>1, <1>2, SavedEntry
<1> DEFINE e == Base(v, d, w, ch)
           r == IF e = d THEN q ELSE p
<1> HIDE DEF n
<1>4. /\ v \in Volumes /\ d \in Volumes /\ Legal(v, w, ch) /\ d1 = DiskAfter(v, d, w, ch)
  BY DEF Turn
<1>5. SavedAt(e, id, n, r, s) /\ SameEntries(e, d1) /\ e \in Volumes
  BY <1>2, BaseEntries DEF Base
<1>6. /\ r \in All(e) /\ ~ At(e, r).dir /\ At(e, r).id = id /\ At(e, r).size >= n
      /\ Parts(e, id, At(e, r).clst, n, 0, 0, s) /\ r \in All(d1) /\ At(d1, r) = At(e, r) /\ r \in Spots
  BY <1>5 DEF SavedAt, SameEntries, All
<1>7. Parts(d1, id, At(e, r).clst, n, 0, 0, s)
  BY <1>3, <1>4, <1>6, PartsOnDisk DEF Base
<1>8. SavedAt(d1, id, n, r, s)
  BY <1>6, <1>7 DEF SavedAt
<1> HIDE DEF r
<1> QED BY <1>3, <1>6, <1>8 DEF SavedIn, n

\* What is on the medium is there in the volume, too.
LEMMA DiskStays ==
    ASSUME NEW v, NEW d, NEW w, NEW sv, NEW F, NEW G, NEW op, NEW f, NEW a, NEW ch, NEW rest,
           NEW v1, NEW d1, Turn(v, d, w, {}, sv, F, G, op, f, a, ch, rest, v1, d1), op # "rename",
           EntriesFull(v, {}), DiskFull(v, d), EntriesWritten(v, Base(v, d, w, ch))
    PROVE  DiskFull(v1, d1)
<1>1. /\ v \in Volumes /\ d \in Volumes /\ Legal(v, w, ch) /\ d1 = DiskAfter(v, d, w, ch) /\ v1 = Changed(v, ch)
  BY DEF Turn
<1> DEFINE e == Base(v, d, w, ch)
<1>2. SameEntries(e, d1) /\ e \in Volumes
  BY BaseEntries
<1> SUFFICES ASSUME NEW q \in All(d1), ~ At(d1, q).dir  PROVE BothFull(v1, d1, At(d1, q))
  BY DEF DiskFull
<1>3. q \in All(e) /\ At(d1, q) = At(e, q) /\ q \in All(v) /\ At(v, q) = At(e, q)
  BY <1>2 DEF SameEntries, EntriesWritten
<1> DEFINE x == At(d1, q)
<1>4. \E s \in Seq(Clusters) : /\ Parts(v, x.id, x.clst, x.size, 0, 0, s)
                               /\ Parts(e, x.id, x.clst, x.size, 0, 0, s)
  <2>1. CASE e = v
    BY <1>3, <2>1 DEF EntriesFull, Full
  <2>2. CASE e = d
    BY <1>3, <2>2 DEF DiskFull, BothFull
  <2> QED BY <2>1, <2>2 DEF Base
<1>5. PICK s \in Seq(Clusters) : /\ Parts(v, x.id, x.clst, x.size, 0, 0, s)
                                 /\ Parts(e, x.id, x.clst, x.size, 0, 0, s)
  BY <1>4
<1>6. Spared(ch, x.id, s) /\ Parts(v1, x.id, x.clst, x.size, 0, 0, s)
  <2>1. q \notin CutPlaces(G, {})
    BY DEF CutPlaces
  <2> DEFINE y == At(v, q)
  <2>2. y.size <= y.size
    BY <1>1, <1>3, AllTyped
  <2>3. y = x
    BY <1>3
  <2>4. Parts(v, y.id, y.clst, y.size, 0, 0, s) /\ ~ y.dir
    BY <1>5, <2>3
  <2>5. Spared(ch, y.id, s) /\ Parts(v1, y.id, y.clst, y.size, 0, 0, s)
    BY <1>3, <2>1, <2>2, <2>4, EntrySpared
  <2> QED BY <2>3, <2>5
<1>7. Parts(d1, x.id, x.clst, x.size, 0, 0, s)
  BY <1>1, <1>5, <1>6, PartsOnDisk DEF Base
<1> QED BY <1>5, <1>6, <1>7 DEF BothFull

\* No entry on the medium is older, but for one that is written back next.
LEMMA WrittenStays ==
    ASSUME NEW v, NEW d, NEW w, NEW sh, NEW sv, NEW F, NEW G, NEW op, NEW f, NEW a, NEW ch, NEW rest,
           NEW v1, NEW d1, Turn(v, d, w, sh, sv, F, G, op, f, a, ch, rest, v1, d1),
           EntriesWritten(v, Base(v, d, w, ch))
    PROVE  Written(v1, d1, WinAfter(w, ch), rest)
<1>1. /\ v \in Volumes /\ d \in Volumes /\ Legal(v, w, ch) /\ v1 = Changed(v, ch)
  BY DEF Turn
<1> DEFINE e == Base(v, d, w, ch)
<1>2. SameEntries(e, d1)
  BY BaseEntries
<1>3. CASE SameEntries(v, v1)
  BY <1>2, <1>3 DEF SameEntries, EntriesWritten, Written
<1>4. CASE ~ SameEntries(v, v1)
  <2>1. ch.do = "entry" /\ EntryMoves(v, sv, F, op, f, ch, rest)
    BY <1>4, EntriesStay
  <2>2. PICK t \in Tables, r \in 1 .. Slots, n \in Entries :
           /\ ch = SetEntry(t, r, n) /\ ch.at = TableSector(t)
           /\ At(v1, <<t, r>>) = n /\ (<<t, r>> \in All(v1) <=> n # Unused)
           /\ \A x : x # <<t, r>> => (x \in All(v1) <=> x \in All(v)) /\ (x \in All(v) => At(v1, x) = At(v, x))
    BY <1>1, <2>1, EntryGoes
  <2>3. WinAfter(w, ch) = TableSector(t)
    BY <2>1, <2>2 DEF WinAfter
  <2>4. CASE Flushes(rest)
    BY <2>3, <2>4 DEF Written
  <2>5. CASE ~ Flushes(rest)
    <3>1. rest # <<Sync>>
      BY <2>5 DEF Flushes, FlushesBy
    <3>2. <<t, r>> \in All(v) => At(v, <<t, r>>) = n
      <4>1. CASE EntryKind(v, sv, op, ch, rest)
        <5>1. PICK t1 \in Tables, r1 \in 1 .. Slots, e1 \in Entries :
                 /\ ch = SetEntry(t1, r1, e1)
                 /\ <<t1, r1>> \in All(v) => At(v, <<t1, r1>>) = e1 \/ Flushes(rest)
          BY <4>1 DEF EntryKind
        <5>2. t1 = t /\ r1 = r /\ e1 = n
          BY <2>2, <5>1 DEF SetEntry
        <5> QED BY <2>5, <5>1, <5>2
      <4>2. CASE NewKind(v, F, op, ch)
        <5>1. PICK q \in Spots, n1 \in Entries : q \notin All(v) /\ ch = SetEntry(q[1], q[2], n1)
          BY <4>2 DEF NewKind
        <5>2. q = <<t, r>>
          BY <2>2, <5>1, SpotParts DEF SetEntry
        <5> QED BY <5>1, <5>2
      <4> QED BY <2>1, <3>1, <4>1, <4>2 DEF EntryMoves, SetKind, OldKind
    <3>3. \A p \in All(v) : p \in All(v1) /\ At(v1, p) = At(v, p)
      <4> SUFFICES ASSUME NEW p \in All(v)  PROVE p \in All(v1) /\ At(v1, p) = At(v, p)
        OBVIOUS
      <4>1. CASE p = <<t, r>>
        BY <2>2, <3>2, <4>1 DEF All
      <4> QED BY <2>2, <4>1
    <3>4. EntriesWritten(v1, d1)
      BY <1>2, <3>3 DEF SameEntries, EntriesWritten
    <3> QED BY <3>4 DEF Written
  <2> QED BY <2>4, <2>5
<1> QED BY <1>3, <1>4
-----------------------------------------------------------------------------
(* What the calls do next: open, unlink, mkdir and write *)

\* What follows the setting of an entry: a change of one of the kinds, and the rest is of the
\* same form.
LEMMA EntryRunsOn ==
    ASSUME NEW v, NEW sv, NEW todo, todo # <<>>, EntryRuns(v, sv, todo), NEW op \in {"open", "unlink", "mkdir"},
           NEW ch, ch = Head(todo), NEW rest, rest = Tail(todo)
    PROVE  /\ FreeKind(op, ch) \/ LegalMove(ch) \/ EntryKind(v, sv, op, ch, rest)
           /\ \A w : EntryRuns(w, sv, rest)
<1>1. CASE todo \in Seq(Frees)
  <2>1. ch \in Frees /\ rest \in Seq(Frees)
    BY <1>1, HeadTail
  <2>2. FreeKind(op, ch) \/ LegalMove(ch)
    BY <2>1 DEF Frees, FreeKind, LegalMove, Sync, Move
  <2> QED BY <2>1, <2>2 DEF EntryRuns
<1>2. CASE todo \notin Seq(Frees)
  <2>1. /\ rest \in Seq(Frees)
        /\ \E t \in Tables, s \in 1 .. Slots, e \in Entries :
              /\ ch = SetEntry(t, s, e)
              /\ e = Unused \/ e.dir \/ e.size = 0
              /\ <<t, s>> \in All(v) =>
                    LET x == At(v, <<t, s>>)
                    IN  (x.dir \/ sv[x.id] = NotSaved) /\ (x = e \/ Flushes(rest))
    BY <1>2 DEF EntryRuns
  <2> QED BY <2>1 DEF EntryKind, EntryRuns
<1> QED BY <1>1, <1>2

\* What is left does not depend on anything else of the volume.
LEMMA EntryRunsSame ==
    ASSUME NEW v, NEW w, SameEntries(v, w), NEW sv, NEW todo, EntryRuns(v, sv, todo)
    PROVE  EntryRuns(w, sv, todo)
<1>1. \A t \in Tables, s \in 1 .. Slots :
         (<<t, s>> \in All(w) <=> <<t, s>> \in All(v)) /\ (<<t, s>> \in All(v) => At(w, <<t, s>>) = At(v, <<t, s>>))
  BY DEF SameEntries
<1>2. CASE todo \in Seq(Frees)
  BY <1>2 DEF EntryRuns
<1>3. CASE todo \notin Seq(Frees)
  <2>1. PICK t \in Tables, s \in 1 .. Slots, e \in Entries :
           /\ Head(todo) = SetEntry(t, s, e)
           /\ e = Unused \/ e.dir \/ e.size = 0
           /\ <<t, s>> \in All(v) =>
                 LET x == At(v, <<t, s>>)
                 IN  (x.dir \/ sv[x.id] = NotSaved) /\ (x = e \/ Flushes(Tail(todo)))
    BY <1>3 DEF EntryRuns
  <2>2. /\ <<t, s>> \in All(w) =>
              LET x == At(w, <<t, s>>)
              IN  (x.dir \/ sv[x.id] = NotSaved) /\ (x = e \/ Flushes(Tail(todo)))
    BY <1>1, <2>1
  <2>3. todo # <<>> /\ Tail(todo) \in Seq(Frees)
    BY <1>3 DEF EntryRuns
  <2> QED BY <2>1, <2>2, <2>3 DEF EntryRuns
<1> QED BY <1>2, <1>3

\* f_mkdir.
LEMMA MakeKind ==
    ASSUME NEW v, NEW sv, NEW todo, todo # <<>>, MakeRuns(v, sv, todo), NEW op, op = "mkdir",
           NEW ch, ch = Head(todo), NEW rest, rest = Tail(todo)
    PROVE  /\ FreeKind(op, ch) \/ LegalMove(ch) \/ EntryKind(v, sv, op, ch, rest) \/ TableKind(v, ch)
              \/ LinkKind(v, ch)
<1>1. CASE EntryRuns(v, sv, todo)
  BY <1>1, EntryRunsOn
<1>2. CASE TableRuns(v, sv, todo)
  BY <1>2 DEF TableRuns, TableKind
<1>3. CASE SyncTable(v, sv, todo)
  BY <1>3 DEF SyncTable, LegalMove, Move, Sync
<1>4. CASE \E c \in Clusters : v.fat[c] = 0 /\ Head(todo) = SetFat(c, EOC)
  BY <1>4, Constants DEF LinkKind
<1> QED BY <1>1, <1>2, <1>3, <1>4 DEF MakeRuns

\* f_mkdir goes on.
LEMMA MakeRunsOn ==
    ASSUME NEW v \in Volumes, NEW sv, NEW todo, todo # <<>>, MakeRuns(v, sv, todo),
           NEW ch, ch = Head(todo), NEW rest, rest = Tail(todo), NEW v1, v1 = Changed(v, ch),
           ch.do # "entry" => SameEntries(v, v1)
    PROVE  MakeRuns(v1, sv, rest)
<1>1. CASE EntryRuns(v, sv, todo)
  <2>1. "mkdir" \in {"open", "unlink", "mkdir"}
    OBVIOUS
  <2> QED BY <1>1, <2>1, EntryRunsOn DEF MakeRuns
<1>2. CASE TableRuns(v, sv, todo)
  <2>1. ch.do # "entry" /\ EntryRuns(v, sv, rest)
    BY <1>2 DEF TableRuns, Put
  <2> QED BY <2>1, EntryRunsSame DEF MakeRuns
<1>3. CASE SyncTable(v, sv, todo)
  <2>1. ch = Sync /\ TableRuns(v, sv, rest)
    BY <1>3 DEF SyncTable
  <2>2. v1 = v
    BY <2>1, MoveChanged
  <2> QED BY <2>1, <2>2 DEF MakeRuns
<1>4. CASE /\ SyncTable(v, sv, rest)
           /\ \E c \in Clusters : v.fat[c] = 0 /\ ch = SetFat(c, EOC)
  <2>1. PICK c \in Clusters : v.fat[c] = 0 /\ ch = SetFat(c, EOC)
    BY <1>4
  <2>2. EOC \in Nat /\ EOC # 0
    BY Constants
  <2>3. \A t \in Tables : v1.has[t] = v.has[t]
    BY <2>1, <2>2, FatChanged
  <2>4. ch.do # "entry"
    BY <2>1 DEF SetFat
  <2>5. TableRuns(v, sv, Tail(rest)) /\ rest # <<>> /\ Head(rest) = Sync
    BY <1>4 DEF SyncTable
  <2>6. EntryRuns(v1, sv, Tail(Tail(rest)))
    BY <2>4, <2>5, EntryRunsSame DEF TableRuns
  <2>7. \A x \in Clusters : ~ IsTable(v, x) => ~ IsTable(v1, x)
    BY <2>3, Constants DEF IsTable
  <2>8. TableRuns(v1, sv, Tail(rest))
    BY <2>5, <2>6, <2>7 DEF TableRuns
  <2> QED BY <2>5, <2>8 DEF SyncTable, MakeRuns
<1> QED BY <1>1, <1>2, <1>3, <1>4 DEF MakeRuns

\* A cluster is linked.
LEMMA LinkChanged ==
    ASSUME NEW v \in Volumes, NEW c \in Clusters, NEW val \in Nat \ {0}, NEW w, w = Changed(v, SetFat(c, val))
    PROVE  /\ w.fat[c] = val /\ (\A x \in Clusters : x # c => w.fat[x] = v.fat[x])
           /\ \A t \in Tables : w.has[t] = v.has[t]
<1>1. val \in Nat /\ val # 0
  OBVIOUS
<1> QED BY <1>1, FatChanged

\* The buffer.
LEMMA WriteBufferIs ==
    ASSUME NEW o
    PROVE  /\ o.dirty = 0 => WriteBuffer(o) = <<>>
           /\ o.dirty # 0 => /\ WriteBuffer(o) = <<Buffer(o)>> /\ WriteBuffer(o) # <<>>
                             /\ Head(WriteBuffer(o)) = Buffer(o) /\ Tail(WriteBuffer(o)) = <<>>
BY DEF WriteBuffer, Buffer

\* What is left of a buffer's writing looks at no FAT.
LEMMA BufferRunsSame ==
    ASSUME NEW v, NEW w, NEW o \in OpenFils, \A t \in Tables : w.has[t] = v.has[t],
           NEW todo, BufferRuns(v, o, todo)
    PROVE  BufferRuns(w, o, todo)
<1>1. o.dirty \in Tables
  BY Constants DEF OpenFils
<1> QED BY <1>1 DEF BufferRuns

\* f_write.
LEMMA WriteKind ==
    ASSUME NEW v, NEW sv, NEW F, NEW f, NEW a, NEW todo, todo # <<>>, F[f] \in OpenFils,
           WriteRuns(v, F[f], a, todo), NEW op, op = "write",
           NEW ch, ch = Head(todo)
    PROVE  BufferKind(v, F, op, f, a, ch) \/ LinkKind(v, ch)
<1> DEFINE o == F[f]
           c == a.dirty
           k == a.part
<1>1. c \in Clusters /\ k \in 1 .. o.size + 1 /\ o.size \in Nat
  BY DEF WriteRuns, OpenFils
<1>2. PICK s \in Seq(Clusters) :
              /\ FilFull(v, o, o, s)
              /\ \/ Linked(v, o, c, k, s) /\ BufferRuns(v, o, todo)
                 \/ LinkRuns(v, o, c, k, s, todo) \/ NewRuns(v, o, c, k, s, todo)
  BY DEF WriteRuns
<1> HIDE DEF o, c, k
<1>3. CASE Linked(v, o, c, k, s) /\ BufferRuns(v, o, todo)
  <2>1. o.dirty # 0 /\ ch = Buffer(o)
    BY <1>3, WriteBufferIs DEF BufferRuns
  <2> QED BY <2>1 DEF BufferKind, o
<1>4. CASE LinkRuns(v, o, c, k, s, todo)
  <2>1. s[k - 1] \in Clusters
    <3>1. Parts(v, o.id, o.clst, o.size, o.dirty, o.part, s)
      BY <1>2 DEF FilFull
    <3>2. k - 1 \in 1 .. o.size
      BY <1>1, <1>4 DEF LinkRuns
    <3> QED BY <3>1, <3>2, PartsTyped
  <2> QED BY <1>1, <1>4, <2>1, Constants DEF LinkRuns, LinkKind
<1>5. CASE NewRuns(v, o, c, k, s, todo)
  BY <1>1, <1>5, Constants DEF NewRuns, LinkKind
<1> QED BY <1>2, <1>3, <1>4, <1>5

\* f_write goes on.
LEMMA WriteRunsOn ==
    ASSUME NEW v \in Volumes, NEW o \in OpenFils, NEW a, NEW todo, todo # <<>>, WriteRuns(v, o, a, todo),
           NEW ch, ch = Head(todo), NEW rest, rest = Tail(todo), NEW v1, v1 = Changed(v, ch),
           \A s : FilFull(v, o, o, s) => FilFull(v1, o, o, s)
    PROVE  WriteRuns(v1, o, a, rest)
<1> DEFINE c == a.dirty
           k == a.part
<1>1. c \in Clusters /\ k \in 1 .. o.size + 1 /\ o.size \in Nat /\ a = Wrote(o, c, k)
      /\ o.dirty \in {0} \cup Clusters /\ o.id \in Ids /\ o.part \in Nat
  BY DEF WriteRuns, OpenFils
<1>2. PICK s \in Seq(Clusters) :
              /\ FilFull(v, o, o, s)
              /\ \/ Linked(v, o, c, k, s) /\ BufferRuns(v, o, todo)
                 \/ LinkRuns(v, o, c, k, s, todo) \/ NewRuns(v, o, c, k, s, todo)
  BY DEF WriteRuns
<1>3. FilFull(v1, o, o, s)
  BY <1>2
<1> SUFFICES \/ Linked(v1, o, c, k, s) /\ BufferRuns(v1, o, rest)
             \/ LinkRuns(v1, o, c, k, s, rest) \/ NewRuns(v1, o, c, k, s, rest)
  BY <1>1, <1>3 DEF WriteRuns
<1> HIDE DEF c, k
<1>4. /\ \A i \in 1 .. o.size : s[i] \in Clusters
      /\ c # 0 /\ c \in Nat /\ EOC \in Nat /\ EOC # 0
  <2>1. Parts(v, o.id, o.clst, o.size, o.dirty, o.part, s)
    BY <1>2 DEF FilFull
  <2> QED BY <1>1, <2>1, PartsTyped, Constants
<1>5. CASE Linked(v, o, c, k, s) /\ BufferRuns(v, o, todo)
  <2>1. o.dirty # 0 /\ ch = Buffer(o) /\ rest = <<>>
    BY <1>5, WriteBufferIs DEF BufferRuns
  <2>2. Data(o.id, o.part) \in Holds
    BY <1>1 DEF Data, Holds, DataHolds
  <2>3. v1.fat = v.fat /\ v1.has[o.dirty] = Data(o.id, o.part)
    BY <1>1, <2>1, <2>2, PutChanged DEF Buffer
  <2>4. BufferRuns(v1, o, rest)
    BY <2>1, <2>3 DEF BufferRuns
  <2> QED BY <1>5, <2>3, <2>4 DEF Linked
<1>6. CASE LinkRuns(v, o, c, k, s, todo)
  <2> DEFINE l == s[k - 1]
  <2>1. /\ k = o.size + 1 /\ k > 1 /\ v.fat[l] = EOC /\ v.fat[c] # 0
        /\ ch = SetFat(l, c) /\ BufferRuns(v, o, rest)
    BY <1>6 DEF LinkRuns
  <2>2. l \in Clusters
    <3>1. k - 1 \in 1 .. o.size
      BY <1>1, <2>1
    <3> QED BY <1>4, <3>1
  <2>3. /\ v1.fat[l] = c /\ (\A x \in Clusters : x # l => v1.fat[x] = v.fat[x])
        /\ \A t \in Tables : v1.has[t] = v.has[t]
    <3>1. v1 = Changed(v, SetFat(l, c)) /\ c \in Nat \ {0} /\ v \in Volumes
      BY <1>4, <2>1
    <3> HIDE DEF l
    <3> QED BY ONLY <2>2, <3>1, LinkChanged
  <2>4. v1.fat[c] # 0
    BY <1>1, <1>4, <2>1, <2>3
  <2>5. BufferRuns(v1, o, rest)
    BY <2>1, <2>3, BufferRunsSame
  <2>6. Linked(v1, o, c, k, s)
    BY <1>1, <2>1, <2>3, <2>4 DEF Linked
  <2> QED BY <2>5, <2>6
<1>7. CASE NewRuns(v, o, c, k, s, todo)
  <2>1. ch = SetFat(c, EOC) /\ v.fat[c] = 0
    BY <1>7 DEF NewRuns
  <2>2. /\ v1.fat[c] = EOC /\ (\A x \in Clusters : x # c => v1.fat[x] = v.fat[x])
        /\ \A t \in Tables : v1.has[t] = v.has[t]
    <3>1. v1 = Changed(v, SetFat(c, EOC)) /\ EOC \in Nat \ {0} /\ v \in Volumes /\ c \in Clusters
      BY <1>1, <1>4, <2>1
    <3> QED BY ONLY <3>1, LinkChanged
  <2>3. CASE k = 1 /\ o.size = 0 /\ o.clst = 0 /\ BufferRuns(v, o, rest)
    <3>1. BufferRuns(v1, o, rest)
      BY <2>2, <2>3, BufferRunsSame
    <3>2. Linked(v1, o, c, k, s)
      BY <1>4, <2>2, <2>3 DEF Linked
    <3> QED BY <3>1, <3>2
  <2>4. CASE /\ rest # <<>> /\ k = o.size + 1 /\ k > 1 /\ v.fat[s[k - 1]] = EOC
             /\ Head(rest) = SetFat(s[k - 1], c) /\ BufferRuns(v, o, Tail(rest))
    <3>1. s[k - 1] \in Clusters
      <4>1. k - 1 \in 1 .. o.size
        BY <1>1, <2>4
      <4> QED BY <1>4, <4>1
    <3>2. v1.fat[s[k - 1]] = EOC
      BY <2>1, <2>2, <2>4, <3>1
    <3>3. BufferRuns(v1, o, Tail(rest))
      BY <2>2, <2>4, BufferRunsSame
    <3>4. LinkRuns(v1, o, c, k, s, rest)
      BY <1>4, <2>2, <2>4, <3>2, <3>3 DEF LinkRuns
    <3> QED BY <3>4
  <2> QED BY <1>7, <2>3, <2>4 DEF NewRuns
<1> QED BY <1>2, <1>5, <1>6, <1>7
-----------------------------------------------------------------------------
(* truncate, sync and rename *)

\* The writes that free the clusters of r.
LEMMA FreesIs ==
    ASSUME NEW r \in Seq(Clusters)
    PROVE  /\ FreeAll(r) \in Seq({SetFat(c, 0) : c \in Clusters}) /\ Len(FreeAll(r)) = Len(r)
           /\ \A i \in 1 .. Len(r) : FreeAll(r)[i] = SetFat(r[i], 0)
<1> DEFINE T == {SetFat(c, 0) : c \in Clusters}
<1>1. Len(r) \in Nat /\ \A i \in 1 .. Len(r) : r[i] \in Clusters
  BY LenProperties, ElementOfSeq
<1>2. \A i \in 1 .. Len(r) : SetFat(r[i], 0) \in T
  BY <1>1
<1> HIDE DEF T
<1>3. FreeAll(r) = [i \in 1 .. Len(r) |-> SetFat(r[i], 0)]
  BY DEF FreeAll
<1> QED BY <1>1, <1>2, <1>3 DEF T

\* The first cluster that is freed, and the others.
LEMMA FreeAllOn ==
    ASSUME NEW r \in Seq(Clusters), r # <<>>, NEW S, NEW b \in Seq(S), NEW todo, todo = FreeAll(r) \o b
    PROVE  /\ r[1] \in Clusters /\ todo # <<>> /\ Head(todo) = SetFat(r[1], 0)
           /\ Tail(r) \in Seq(Clusters) /\ Tail(todo) = FreeAll(Tail(r)) \o b
           /\ Range(r) \subseteq {r[1]} \cup Range(Tail(r))
<1> DEFINE u == Tail(r)
           x == SetFat(r[1], 0)
           T == {SetFat(c, 0) : c \in Clusters}
<1>1. /\ Len(r) \in Nat /\ Len(r) >= 1 /\ u \in Seq(Clusters) /\ Len(u) = Len(r) - 1
      /\ \A i \in 1 .. Len(u) : u[i] = r[i + 1]
      /\ \A i \in 1 .. Len(r) : r[i] \in Clusters
  <2>1. Len(r) \in Nat /\ Len(r) # 0
    BY EmptySeq, LenProperties
  <2> QED BY <2>1, HeadTailProperties, ElementOfSeq
<1> HIDE DEF u
<1>4. /\ FreeAll(r) \in Seq(T) /\ Len(FreeAll(r)) = Len(r) /\ \A i \in 1 .. Len(r) : FreeAll(r)[i] = SetFat(r[i], 0)
  BY <1>1, FreesIs
<1>5. /\ FreeAll(u) \in Seq(T) /\ Len(FreeAll(u)) = Len(u) /\ \A i \in 1 .. Len(u) : FreeAll(u)[i] = SetFat(u[i], 0)
  BY <1>1, FreesIs
<1> HIDE DEF T
<1>6. FreeAll(r) = <<x>> \o FreeAll(u)
  <2>1. x \in T
    BY <1>1 DEF T
  <2> HIDE DEF x
  <2>2. <<x>> \in Seq(T) /\ Len(<<x>>) = 1 /\ <<x>>[1] = x
    BY <2>1
  <2>3. /\ <<x>> \o FreeAll(u) \in Seq(T) /\ Len(<<x>> \o FreeAll(u)) = 1 + Len(u)
        /\ \A i \in 1 .. 1 + Len(u) : (<<x>> \o FreeAll(u))[i] = IF i <= 1 THEN x ELSE FreeAll(u)[i - 1]
    BY <1>1, <1>5, <2>2, ConcatProperties
  <2>4. ASSUME NEW i \in 1 .. Len(r)  PROVE FreeAll(r)[i] = (<<x>> \o FreeAll(u))[i]
    <3>1. CASE i = 1
      BY <1>1, <1>4, <2>3, <3>1 DEF x
    <3>2. CASE i # 1
      <4>1. i - 1 \in 1 .. Len(u) /\ i \in 1 .. 1 + Len(u) /\ ~ i <= 1 /\ (i - 1) + 1 = i
        BY <1>1, <3>2
      <4>2. u[i - 1] = r[i]
        BY <1>1, <4>1
      <4> QED BY <1>4, <1>5, <2>3, <4>1, <4>2
    <3> QED BY <3>1, <3>2
  <2>5. Len(FreeAll(r)) = Len(<<x>> \o FreeAll(u))
    BY <1>1, <1>4, <2>3
  <2>6. \A i \in 1 .. Len(FreeAll(r)) : FreeAll(r)[i] = (<<x>> \o FreeAll(u))[i]
    BY <1>4, <2>4
  <2> QED BY ONLY <1>4, <2>3, <2>5, <2>6, SeqEqual
<1> HIDE DEF x
<1>7. todo = <<x>> \o (FreeAll(u) \o b)
  <2>1. FreeAll(u) \in Seq(T \cup S) /\ b \in Seq(T \cup S)
    BY <1>5
  <2> QED BY <1>6, <2>1, ConsOn
<1>8. FreeAll(u) \o b \in Seq(T \cup S)
  BY <1>5, ConcatProperties
<1>9. todo # <<>> /\ Head(todo) = x /\ Tail(todo) = FreeAll(u) \o b
  BY <1>7, <1>8, ConsIs
<1>10. Range(r) \subseteq {r[1]} \cup Range(u)
  <2> SUFFICES ASSUME NEW i \in 1 .. Len(r), i # 1  PROVE r[i] \in Range(u)
    BY <1>1, LenProperties DEF Range
  <2> DEFINE j == i - 1
  <2>1. j \in 1 .. Len(u) /\ j + 1 = i
    BY <1>1
  <2> HIDE DEF j
  <2>2. u[j] = r[i]
    BY <1>1, <2>1
  <2>3. DOMAIN u = 1 .. Len(u)
    BY <1>1, LenProperties
  <2> QED BY <2>1, <2>2, <2>3 DEF Range
<1>11. todo # <<>> /\ Head(todo) = SetFat(r[1], 0)
  BY ONLY <1>9 DEF x
<1>12. Tail(r) \in Seq(Clusters)
  BY ONLY <1>1 DEF u
<1>13. Tail(todo) = FreeAll(Tail(r)) \o b
  BY ONLY <1>9 DEF u
<1>14. Range(r) \subseteq {r[1]} \cup Range(Tail(r))
  BY ONLY <1>10 DEF u
<1>15. r[1] \in Clusters
  BY ONLY <1>1
<1> QED BY ONLY <1>11, <1>12, <1>13, <1>14, <1>15

\* Nothing is freed.
LEMMA FreeAllNone ==
    ASSUME NEW S, NEW b \in Seq(S)
    PROVE  FreeAll(<<>>) \o b = b
<1>1. FreeAll(<<>>) = <<>>
  BY DEF FreeAll
<1> QED BY <1>1, ConcatProperties, SeqEqual, LenProperties

\* A cluster is free when its FAT entry is 0; the other entries stay.
LEMMA FreedIs ==
    ASSUME NEW v \in Volumes, NEW c \in Clusters, NEW v1, v1 = Changed(v, SetFat(c, 0))
    PROVE  v1.fat[c] = 0 /\ \A x \in Clusters : x # c => v1.fat[x] = v.fat[x]
<1> DEFINE val == 0
<1>1. val \in Nat /\ v1 = Changed(v, SetFat(c, val))
  OBVIOUS
<1>2. v1.fat[c] = val /\ \A x \in Clusters : x # c => v1.fat[x] = v.fat[x]
  <2> HIDE DEF val
  <2> QED BY <1>1, FatChanged
<1> QED BY <1>2

\* f_truncate.
LEMMA FreeRunsOn ==
    ASSUME NEW v, NEW w, NEW G, NEW sh, NEW F, NEW f \in Fils, NEW o, o = F[f], o \in OpenFils, NEW a,
           NEW todo, FreeRuns(v, o, a, todo), todo # <<>>, NEW op, op = "truncate", v \in Volumes,
           NEW ch, ch = Head(todo), NEW rest, rest = Tail(todo), NEW v1, v1 = Changed(v, ch)
    PROVE  /\ FreeKind(op, ch) \/ BufferKind(v, F, op, f, a, ch)
           /\ FreeRuns(v1, o, a, rest)
<1>1. PICK r \in Seq(Clusters) :
         /\ todo = FreeAll(r) \o WriteBuffer(o)
         /\ o.dirty # 0 /\ o.part > a.size => v.fat[o.dirty] = 0 \/ o.dirty \in Range(r)
  BY DEF FreeRuns
<1>2. WriteBuffer(o) \in Seq({Buffer(o)})
  <2>1. CASE o.dirty = 0
    BY <2>1 DEF WriteBuffer
  <2>2. CASE o.dirty # 0
    <3>1. WriteBuffer(o) = <<Buffer(o)>>
      BY <2>2 DEF WriteBuffer, Buffer
    <3> HIDE DEF Buffer
    <3> QED BY <3>1
  <2> QED BY <2>1, <2>2
<1>3. CASE r # <<>>
  <2>1. /\ r[1] \in Clusters /\ ch = SetFat(r[1], 0) /\ Tail(r) \in Seq(Clusters)
        /\ rest = FreeAll(Tail(r)) \o WriteBuffer(o) /\ Range(r) \subseteq {r[1]} \cup Range(Tail(r))
    BY <1>1, <1>2, <1>3, FreeAllOn
  <2>2. FreeKind(op, ch)
    BY <2>1 DEF FreeKind
  <2>3. v1.fat[r[1]] = 0 /\ \A x \in Clusters : x # r[1] => v1.fat[x] = v.fat[x]
    BY <2>1, FreedIs
  <2>4. ASSUME o.dirty # 0, o.part > a.size  PROVE v1.fat[o.dirty] = 0 \/ o.dirty \in Range(Tail(r))
    <3>1. o.dirty \in Clusters
      BY <2>4 DEF OpenFils
    <3> QED BY <1>1, <2>1, <2>3, <2>4, <3>1
  <2>5. FreeRuns(v1, o, a, rest)
    BY <2>1, <2>4 DEF FreeRuns
  <2> QED BY <2>2, <2>5
<1>4. CASE r = <<>>
  <2>1. todo = WriteBuffer(o)
    BY <1>1, <1>2, <1>4, FreeAllNone
  <2>2. o.dirty # 0 /\ ch = Buffer(o) /\ rest = <<>>
    BY <2>1, WriteBufferIs
  <2>3. Range(r) = {}
    BY <1>4 DEF Range
  <2>4. BufferKind(v, F, op, f, a, ch)
    BY <1>1, <2>2, <2>3 DEF BufferKind
  <2>5. v1.has[o.dirty] = Data(o.id, o.part)
    <3>1. o.dirty \in Clusters /\ o.id \in Ids /\ o.part \in Nat
      BY <2>2 DEF OpenFils
    <3>2. Data(o.id, o.part) \in Holds
      BY <3>1 DEF Data, Holds, DataHolds
    <3> QED BY <2>2, <3>1, <3>2, PutChanged DEF Buffer
  <2>6. FreeRuns(v1, o, a, rest)
    BY <2>2, <2>5 DEF FreeRuns
  <2> QED BY <2>4, <2>6
<1> QED BY <1>3, <1>4

\* f_truncate makes a change of one of three kinds, and goes on.
LEMMA TruncateRunsOn ==
    ASSUME NEW v, NEW G, NEW sh, Fine(v, G, sh), NEW F, NEW f \in Fils, NEW o, o = F[f], o \in OpenFils,
           NEW a, G[f] = a, a.open, NEW op, op = "truncate",
           NEW todo, TruncateRuns(v, o, a, todo), todo # <<>>,
           NEW ch, ch = Head(todo), NEW rest, rest = Tail(todo), NEW v1, v1 = Changed(v, ch)
    PROVE  /\ FreeKind(op, ch) \/ BufferKind(v, F, op, f, a, ch) \/ CutKind(v, op, f, a, ch)
           /\ TruncateRuns(v1, o, a, rest)
<1>1. v \in Volumes /\ a = CutTo(o, a.size) /\ a.size \in Nat
  BY FineParts DEF TruncateRuns
<1>2. CASE FreeRuns(v, o, a, todo)
  <2>1. /\ FreeKind(op, ch) \/ BufferKind(v, F, op, f, a, ch)
        /\ FreeRuns(v1, o, a, rest)
    BY <1>1, <1>2, FreeRunsOn
  <2> QED BY <1>1, <2>1 DEF TruncateRuns
<1>3. CASE a.size > 0 /\ ch = SetFat(Chain(v, a.clst)[a.size], EOC) /\ FreeRuns(v, o, a, rest)
  <2> DEFINE l == Chain(v, a.clst)[a.size]
  <2>1. /\ Chained(v, a.clst) /\ a.size \in 1 .. Len(Chain(v, a.clst))
    <3>1. Chained(v, G[f].clst) /\ Len(Chain(v, G[f].clst)) >= G[f].size
      BY OpenFile
    <3> QED BY <1>1, <1>3, <3>1, ChainTyped
  <2>2. l \in Own(v, a.clst)
    BY <2>1, ChainTyped
  <2>3. l \in Clusters /\ v.fat[l] # 0
    BY <2>1, <2>2, ChainUsed
  <2>4. CutKind(v, op, f, a, ch)
    BY <1>3, <2>3 DEF CutKind
  <2> HIDE DEF l
  <2>5. /\ v1.fat[l] = EOC /\ (\A x \in Clusters : x # l => v1.fat[x] = v.fat[x])
        /\ \A t \in Tables : v1.has[t] = v.has[t]
    <3>1. EOC \in Nat \ {0}
      BY Constants
    <3>2. v1 = Changed(v, SetFat(l, EOC)) /\ v \in Volumes
      BY <1>1, <1>3 DEF l
    <3> QED BY ONLY <2>3, <3>1, <3>2, LinkChanged
  <2>6. o.dirty # 0 => o.dirty \in Clusters
    BY DEF OpenFils
  <2>7. o.dirty \in Tables
    BY Constants DEF OpenFils
  <2>8. CASE rest = <<>> /\ v.has[o.dirty] = Data(o.id, o.part)
    <3>1. FreeRuns(v1, o, a, rest)
      BY <2>5, <2>7, <2>8 DEF FreeRuns
    <3> QED BY <1>1, <2>4, <3>1 DEF TruncateRuns
  <2>9. CASE \E r \in Seq(Clusters) :
                /\ rest = FreeAll(r) \o WriteBuffer(o)
                /\ o.dirty # 0 /\ o.part > a.size => v.fat[o.dirty] = 0 \/ o.dirty \in Range(r)
    <3>1. v.fat[o.dirty] = 0 /\ o.dirty # 0 => v1.fat[o.dirty] = 0
      BY <2>3, <2>5, <2>6
    <3>2. FreeRuns(v1, o, a, rest)
      BY <2>9, <3>1 DEF FreeRuns
    <3> QED BY <1>1, <2>4, <3>2 DEF TruncateRuns
  <2> QED BY <1>3, <2>8, <2>9 DEF FreeRuns
<1> QED BY <1>2, <1>3 DEF TruncateRuns

\* f_sync.
LEMMA SyncKind ==
    ASSUME NEW v, NEW F, NEW f, NEW o, o = F[f], NEW a, NEW sv,
           NEW todo, SyncRuns(v, o, a, todo), todo # <<>>, NEW op, op = "sync",
           NEW ch, ch = Head(todo), NEW rest, rest = Tail(todo)
    PROVE  Kind(v, sv, F, op, f, a, ch, rest) /\ (ch = Sync => todo = <<Sync>>)
<1>1. CASE SetRuns(v, o, todo) /\ (o.dirty # 0 => v.has[o.dirty] = Data(o.id, o.part))
  <2>1. SetKind(v, F, op, f, ch, rest)
    BY <1>1 DEF SetKind, SetRuns
  <2>2. ch # Sync
    BY <1>1 DEF SetRuns, SetEntry, Sync
  <2> QED BY <2>1, <2>2 DEF Kind
<1>2. CASE todo = <<Sync>>
  <2>1. ch = Sync /\ rest = <<>>
    BY <1>2
  <2>2. LegalMove(ch)
    BY <2>1 DEF LegalMove, Sync, Move
  <2> QED BY <1>2, <2>1, <2>2 DEF Kind
<1>3. CASE o.dirty # 0 /\ ch = Buffer(o) /\ SetRuns(v, o, rest)
  <2>1. BufferKind(v, F, op, f, a, ch)
    BY <1>3 DEF BufferKind
  <2>2. rest \notin {<<>>, <<Sync>>}
    BY <1>3 DEF SetRuns, SetEntry, Sync
  <2>3. ch # Sync
    BY <1>3 DEF Buffer, Put, Sync
  <2> QED BY <2>1, <2>2, <2>3 DEF Kind
<1> QED BY <1>1, <1>2, <1>3 DEF SyncRuns

\* f_sync goes on.
LEMMA SyncRunsOn ==
    ASSUME NEW v, NEW d, NEW w, NEW sh, NEW sv, NEW F, NEW G, NEW op, op = "sync", NEW f, NEW a,
           NEW o, o = F[f], NEW todo, SyncRuns(v, o, a, todo), todo # <<>>,
           NEW ch, ch = Head(todo), NEW rest, rest = Tail(todo),
           NEW v1, NEW d1, Turn(v, d, w, sh, sv, F, G, op, f, a, ch, rest, v1, d1)
    PROVE  SyncRuns(v1, o, a, rest)
<1>1. /\ v \in Volumes /\ v1 = Changed(v, ch) /\ Legal(v, w, ch) /\ Fine(v, G, sh) /\ G = F /\ f \in Fils
      /\ F[f].open /\ a \in {Synced(o), Closed}
  BY DEF Turn, Ahead, SyncRuns
<1>2. o \in OpenFils /\ o.t \in Tables /\ Place(o) \in All(v) /\ IsTable(v, o.t) /\ o.dirty \in {0} \cup Clusters
  <2>1. o \in OpenFils /\ o.t \in Tables /\ Place(o) \in All(v) /\ Place(o) = <<o.t, o.s>> /\ o.s \in 1 .. Slots
    BY <1>1, OpenFile
  <2>2. IsTable(v, o.t)
    BY <2>1 DEF All
  <2> QED BY <2>1, <2>2 DEF OpenFils
<1>3. CASE SetRuns(v, o, todo) /\ (o.dirty # 0 => v.has[o.dirty] = Data(o.id, o.part))
  <2>1. SetKind(v, F, op, f, ch, rest) /\ rest = <<Sync>>
    BY <1>3 DEF SetKind, SetRuns
  <2>2. At(v1, Place(o)).clst = o.clst /\ At(v1, Place(o)).size = o.size
    BY <2>1, SetIs
  <2>3. ASSUME o.dirty # 0  PROVE v1.has[o.dirty] = Data(o.id, o.part)
    <3>1. ch = SetEntry(o.t, o.s, SyncEntry(At(v, Place(o)), o))
      BY <2>1 DEF SetKind
    <3>2. v.has[o.dirty] = Data(o.id, o.part) /\ o.dirty \in Tables
      BY <1>2, <1>3, <2>3, Constants
    <3>3. o.dirty # o.t
      BY <1>2, <3>2 DEF IsTable, Data
    <3>4. v1.has[o.dirty] = v.has[o.dirty]
      <4>1. \A x \in Tables : x # o.t => Changed(v, ch).has[x] = v.has[x]
        <5>1. v \in [fat : [Clusters -> Nat], has : [Tables -> Holds]]
          BY <1>1 DEF Volumes
        <5> HIDE DEF Holds
        <5> QED BY <1>2, <3>1, <5>1 DEF Changed, SetEntry
      <4> QED BY <1>1, <3>2, <3>3, <4>1
    <3> QED BY <3>2, <3>4
  <2> QED BY <1>1, <2>1, <2>2, <2>3 DEF SyncRuns
<1>4. CASE /\ todo = <<Sync>> /\ At(v, Place(o)).clst = o.clst /\ At(v, Place(o)).size = o.size
           /\ (o.dirty # 0 => v.has[o.dirty] = Data(o.id, o.part))
  <2>1. ch = Sync /\ rest = <<>>
    BY <1>4
  <2>2. v1 = v
    BY <1>1, <2>1, MoveChanged
  <2> QED BY <1>1, <1>4, <2>1, <2>2 DEF SyncRuns
<1>5. CASE o.dirty # 0 /\ ch = Buffer(o) /\ SetRuns(v, o, rest)
  <2>1. ch.do # "entry"
    BY <1>5 DEF Buffer, Put
  <2>2. SameEntries(v, v1)
    BY <2>1, EntriesStay
  <2>3. At(v1, Place(o)) = At(v, Place(o))
    BY <1>2, <2>2 DEF SameEntries
  <2>4. v1.has[o.dirty] = Data(o.id, o.part)
    <3>1. o.dirty \in Clusters /\ o.id \in Ids /\ o.part \in Nat
      BY <1>2, <1>5 DEF OpenFils
    <3>2. Data(o.id, o.part) \in Holds
      BY <3>1 DEF Data, Holds, DataHolds
    <3> QED BY <1>1, <1>5, <3>1, <3>2, PutChanged DEF Buffer
  <2>5. SetRuns(v1, o, rest)
    BY <1>5, <2>3 DEF SetRuns
  <2> QED BY <1>1, <2>4, <2>5 DEF SyncRuns
<1> QED BY <1>3, <1>4, <1>5 DEF SyncRuns

\* f_rename.
LEMMA RenameKind ==
    ASSUME NEW v, NEW F, NEW sv, NEW todo, RenameRuns(v, F, todo), todo # <<>>, NEW op, op = "rename", NEW f, NEW a,
           NEW ch, ch = Head(todo), NEW rest, rest = Tail(todo)
    PROVE  Kind(v, sv, F, op, f, a, ch, rest)
<1>1. CASE todo = <<Sync>>
  <2>1. ch = Sync
    BY <1>1
  <2>2. LegalMove(ch)
    BY <2>1 DEF LegalMove, Sync, Move
  <2> QED BY <2>2 DEF Kind
<1>2. CASE \E p, q \in Spots, n \in Entries :
          LET e == At(v, p)
          IN  /\ p # q /\ p \in All(v) /\ \A f1 \in Fils : F[f1].open => Place(F[f1]) # p
              /\ n # Unused /\ n.id = e.id /\ n.dir = e.dir /\ n.clst = e.clst /\ n.size = e.size
              /\ \/ OldRuns(v, p, q, n, todo) \/ UpRuns(v, p, q, n, todo)
                 \/ q \notin All(v) /\ q[1] \in Reach(v) /\ Head(todo) = SetEntry(q[1], q[2], n)
  <2>1. PICK p \in Spots, q \in Spots, n \in Entries :
              /\ p # q /\ Twin(v, F, p, n)
              /\ \/ OldRuns(v, p, q, n, todo) \/ UpRuns(v, p, q, n, todo)
                 \/ q \notin All(v) /\ q[1] \in Reach(v) /\ Head(todo) = SetEntry(q[1], q[2], n)
    BY <1>2 DEF Twin
  <2>2. CASE OldRuns(v, p, q, n, todo)
    BY <2>1, <2>2 DEF OldRuns, OldKind, Kind
  <2>3. CASE UpRuns(v, p, q, n, todo)
    BY <2>1, <2>3 DEF UpRuns, UpKind, Kind
  <2>4. CASE q \notin All(v) /\ q[1] \in Reach(v) /\ Head(todo) = SetEntry(q[1], q[2], n)
    BY <2>1, <2>4 DEF NewKind, Kind
  <2> QED BY <2>1, <2>2, <2>3, <2>4
<1> QED BY <1>1, <1>2 DEF RenameRuns

\* f_rename goes on.
LEMMA RenameRunsOn ==
    ASSUME NEW v \in Volumes, NEW F, NEW todo, RenameRuns(v, F, todo), todo # <<>>, NEW w,
           NEW ch, ch = Head(todo), NEW rest, rest = Tail(todo), Legal(v, w, ch), NEW v1, v1 = Changed(v, ch),
           ch.do # "entry" => SameEntries(v, v1)
    PROVE  RenameRuns(v1, F, rest)
<1>1. CASE todo = <<Sync>>
  BY <1>1 DEF RenameRuns
<1>2. CASE todo # <<Sync>>
  <2>1. PICK p \in Spots, q \in Spots, n \in Entries :
              /\ p # q /\ p \in All(v) /\ (\A f1 \in Fils : F[f1].open => Place(F[f1]) # p)
              /\ n # Unused /\ n.id = At(v, p).id /\ n.dir = At(v, p).dir /\ n.clst = At(v, p).clst
              /\ n.size = At(v, p).size
              /\ \/ OldRuns(v, p, q, n, todo) \/ UpRuns(v, p, q, n, todo)
                 \/ /\ q \notin All(v) /\ q[1] \in Reach(v) /\ ch = SetEntry(q[1], q[2], n)
                    /\ OldRuns(v1, p, q, n, rest) \/ UpRuns(v1, p, q, n, rest)
    BY <1>2 DEF RenameRuns
  <2>2. CASE OldRuns(v, p, q, n, todo)
    BY <2>2 DEF OldRuns, RenameRuns
  <2>3. CASE UpRuns(v, p, q, n, todo)
    <3>1. ch.do # "entry" /\ OldRuns(v, p, q, n, rest)
      BY <2>3 DEF UpRuns, SetUp
    <3>2. SameEntries(v, v1)
      BY <3>1
    <3>3. p \in All(v1) /\ At(v1, p) = At(v, p) /\ OldRuns(v1, p, q, n, rest)
      BY <2>1, <3>1, <3>2 DEF SameEntries, OldRuns
    <3> QED BY <2>1, <3>3 DEF RenameRuns
  <2>4. CASE /\ q \notin All(v) /\ q[1] \in Reach(v) /\ ch = SetEntry(q[1], q[2], n)
             /\ OldRuns(v1, p, q, n, rest) \/ UpRuns(v1, p, q, n, rest)
    <3>1. ch.do = "entry" /\ ch.t = q[1] /\ ch.s = q[2]
      BY <2>4 DEF SetEntry
    <3>2. PICK t \in Tables, r \in 1 .. Slots, e \in Entries :
             /\ ch = SetEntry(t, r, e)
             /\ \A x : x # <<t, r>> => /\ x \in All(v1) <=> x \in All(v)
                                       /\ x \in All(v) => At(v1, x) = At(v, x)
      <4>1. v \in Volumes /\ Legal(v, w, ch) /\ ch.do = "entry" /\ v1 = Changed(v, ch)
        BY <3>1
      <4>2. \E t \in Tables, s \in 1 .. Slots, e \in Entries :
              /\ ch = SetEntry(t, s, e) /\ IsTable(v, t) /\ ch.at = TableSector(t)
              /\ At(v1, <<t, s>>) = e /\ (<<t, s>> \in All(v1) <=> e # Unused)
              /\ \A x : x # <<t, s>> => /\ x \in All(v1) <=> x \in All(v)
                                        /\ x \in All(v) => At(v1, x) = At(v, x)
              /\ v1.fat = v.fat
        BY ONLY <4>1, EntryGoes
      <4> QED BY <4>2
    <3>3. <<t, r>> = q
      BY <3>1, <3>2, SpotParts DEF SetEntry
    <3>4. p \in All(v1) /\ At(v1, p) = At(v, p)
      BY <2>1, <3>2, <3>3
    <3> QED BY <2>1, <2>4, <3>4 DEF RenameRuns
  <2> QED BY <2>1, <2>2, <2>3, <2>4
<1> QED BY <1>1, <1>2
-----------------------------------------------------------------------------
(* A step of a call *)

\* What is left of a call begins with one of its kinds.
LEMMA RunsKind ==
    ASSUME NEW v \in Volumes, NEW sv, NEW F, F \in [Fils -> FilRecs], NEW op, NEW f, NEW a,
           NEW todo, todo # <<>>, Runs(v, sv, F, op, f, a, todo),
           op = "truncate" => \E G, sh : Fine(v, G, sh) /\ G[f] = a /\ a.open,
           NEW ch, ch = Head(todo), NEW rest, rest = Tail(todo)
    PROVE  Kind(v, sv, F, op, f, a, ch, rest) /\ (op = "sync" /\ ch = Sync => todo = <<Sync>>)
<1>1. f \in Fils /\ F[f].open => F[f] \in OpenFils
  BY FilTyped
<1>2. CASE op \in {"open", "unlink"}
  <2>1. EntryRuns(v, sv, todo)
    BY <1>2 DEF Runs
  <2>2. FreeKind(op, ch) \/ LegalMove(ch) \/ EntryKind(v, sv, op, ch, rest)
    BY <1>2, <2>1, EntryRunsOn
  <2> QED BY <1>2, <2>2 DEF Kind
<1>3. CASE op = "mkdir"
  <2>1. MakeRuns(v, sv, todo)
    BY <1>3 DEF Runs
  <2>2. FreeKind(op, ch) \/ LegalMove(ch) \/ EntryKind(v, sv, op, ch, rest) \/ TableKind(v, ch) \/ LinkKind(v, ch)
    BY <1>3, <2>1, MakeKind
  <2> QED BY <1>3, <2>2 DEF Kind
<1>4. CASE op = "write"
  <2>1. f \in Fils /\ F[f].open /\ WriteRuns(v, F[f], a, todo)
    BY <1>4 DEF Runs
  <2>2. BufferKind(v, F, op, f, a, ch) \/ LinkKind(v, ch)
    BY <1>1, <1>4, <2>1, WriteKind
  <2> QED BY <1>4, <2>2 DEF Kind
<1>5. CASE op = "truncate"
  <2>1. f \in Fils /\ F[f].open /\ TruncateRuns(v, F[f], a, todo)
    BY <1>5 DEF Runs
  <2>2. PICK G, sh : Fine(v, G, sh) /\ G[f] = a /\ a.open
    BY <1>5
  <2>3. FreeKind(op, ch) \/ BufferKind(v, F, op, f, a, ch) \/ CutKind(v, op, f, a, ch)
    BY <1>1, <1>5, <2>1, <2>2, TruncateRunsOn
  <2> QED BY <1>5, <2>3 DEF Kind
<1>6. CASE op = "sync"
  <2>1. SyncRuns(v, F[f], a, todo)
    BY <1>6 DEF Runs
  <2> QED BY <1>6, <2>1, SyncKind
<1>7. CASE op = "rename"
  <2>1. RenameRuns(v, F, todo)
    BY <1>7 DEF Runs
  <2> QED BY <1>7, <2>1, RenameKind
<1> QED BY <1>2, <1>3, <1>4, <1>5, <1>6, <1>7 DEF Runs

\* What is left after that is what is left of the call.
LEMMA RunsOn ==
    ASSUME NEW v, NEW d, NEW w, NEW sh, NEW sv, NEW F, NEW G, NEW op, NEW f, NEW a, NEW ch,
           NEW rest, NEW v1, NEW d1, Turn(v, d, w, sh, sv, F, G, op, f, a, ch, rest, v1, d1),
           NEW todo, Runs(v, sv, F, op, f, a, todo), todo # <<>>,
           ch = Head(todo), rest = Tail(todo)
    PROVE  Runs(v1, sv, F, op, f, a, rest)
<1>1. /\ v \in Volumes /\ v1 = Changed(v, ch) /\ Legal(v, w, ch) /\ F \in [Fils -> FilRecs]
      /\ (op # "rename" => Fine(v, G, sh)) /\ Ahead(F, G, op, f, a)
      /\ (op # "truncate" => G = F)
  BY DEF Turn, Ahead
<1>2. ch.do # "entry" => SameEntries(v, v1)
  BY EntriesStay
<1>3. f \in Fils /\ F[f].open => F[f] \in OpenFils
  BY <1>1, FilTyped
<1>4. CASE op \in {"open", "unlink"}
  <2>1. EntryRuns(v, sv, todo)
    BY <1>4 DEF Runs
  <2>2. EntryRuns(v1, sv, rest)
    BY <1>4, <2>1, EntryRunsOn
  <2> QED BY <1>4, <2>2 DEF Runs
<1>5. CASE op = "mkdir"
  <2>1. MakeRuns(v, sv, todo)
    BY <1>5 DEF Runs
  <2>2. MakeRuns(v1, sv, rest)
    BY <1>1, <1>2, <2>1, MakeRunsOn
  <2> QED BY <1>5, <2>2 DEF Runs
<1>6. CASE op = "write"
  <2>1. f \in Fils /\ F[f].open /\ WriteRuns(v, F[f], a, todo)
    BY <1>6 DEF Runs
  <2>2. ASSUME NEW s, FilFull(v, F[f], F[f], s)  PROVE FilFull(v1, F[f], F[f], s)
    <3>1. G[f] = F[f] /\ f \in Fils /\ F[f].open
      BY <1>1, <1>6, <2>1
    <3>2. FilFull(v, F[f], G[f], s)
      BY <2>2, <3>1
    <3>3. FilFull(v1, F[f], G[f], s)
      BY <3>1, <3>2, FilStays
    <3> QED BY <3>1, <3>3
  <2>3. WriteRuns(v1, F[f], a, rest)
    BY <1>1, <1>3, <2>1, <2>2, WriteRunsOn
  <2> QED BY <1>6, <2>1, <2>3 DEF Runs
<1>7. CASE op = "truncate"
  <2>1. f \in Fils /\ F[f].open /\ TruncateRuns(v, F[f], a, todo)
    BY <1>7 DEF Runs
  <2>2. Fine(v, G, sh) /\ G[f] = a /\ a.open
    <3>1. G[f] = a /\ (G[f].open <=> F[f].open)
      BY <1>1, <1>7, <2>1, AheadIs
    <3> QED BY <1>1, <1>7, <2>1, <3>1
  <2>3. TruncateRuns(v1, F[f], a, rest)
    BY <1>1, <1>3, <1>7, <2>1, <2>2, TruncateRunsOn
  <2> QED BY <1>7, <2>1, <2>3 DEF Runs
<1>8. CASE op = "sync"
  <2>1. f \in Fils /\ F[f].open /\ SyncRuns(v, F[f], a, todo)
    BY <1>8 DEF Runs
  <2>2. SyncRuns(v1, F[f], a, rest)
    BY <1>8, <2>1, SyncRunsOn
  <2> QED BY <1>8, <2>1, <2>2 DEF Runs
<1>9. CASE op = "rename"
  <2>1. RenameRuns(v, F, todo) /\ f \notin Fils
    BY <1>9 DEF Runs
  <2>2. RenameRuns(v1, F, rest)
    BY <1>1, <1>2, <2>1, RenameRunsOn
  <2> QED BY <1>9, <2>1, <2>2 DEF Runs
<1> QED BY <1>4, <1>5, <1>6, <1>7, <1>8, <1>9 DEF Runs
-----------------------------------------------------------------------------
(* What the steps of a call keep *)

\* A change keeps what is in the files.
LEMMA IntactStays ==
    ASSUME NEW v, NEW d, NEW w, NEW sh, NEW sv, NEW F, NEW G, NEW op, NEW f, NEW a,
           NEW todo, todo # <<>>, Intact(v, d, w, sv, sh, F, G, op, f, todo), Runs(v, sv, F, op, f, a, todo),
           NEW ch, ch = Head(todo), NEW rest, rest = Tail(todo), op = "sync" /\ ch = Sync => todo = <<Sync>>,
           NEW v1, NEW d1, Turn(v, d, w, sh, sv, F, G, op, f, a, ch, rest, v1, d1)
    PROVE  /\ Intact(v1, d1, WinAfter(w, ch), sv, sh, F, G, op, f, rest)
           /\ Runs(v1, sv, F, op, f, a, rest)
<1> DEFINE cut == Cut(op, f, F, sh, todo)
           left == Cut(op, f, F, sh, rest)
<1>1. /\ EntriesFull(v, CutPlaces(G, cut)) /\ (op # "rename" /\ sh = {} => DiskFull(v, d))
      /\ SavedFull(v, d, sv, sh) /\ Written(v, d, w, todo)
  BY DEF Intact
<1>2. Kind(v, sv, F, op, f, a, ch, rest) /\ Legal(v, w, ch)
  BY DEF Turn
<1>3. left = cut \/ (SetKind(v, F, op, f, ch, rest) /\ cut = sh /\ left = sh \ {F[f].id})
  <2>1. todo = <<Sync>> => ch = Sync
    OBVIOUS
  <2> QED BY <1>2, <2>1, CutIs
<1>4. cut = sh \/ ch = Sync
  BY DEF Cut
<1>5. sh = {} => cut = {}
  BY DEF Cut
<1> HIDE DEF cut, left
<1>6. EntriesFull(v1, CutPlaces(G, left))
  BY <1>1, <1>3, <1>4, EntriesStayFull
<1>7. FilsFull(v1, F, G)
  BY FilsStay
<1>8. EntriesWritten(v, Base(v, d, w, ch))
  BY <1>1, <1>2, BaseWritten
<1>9. ASSUME op # "rename", sh = {}  PROVE DiskFull(v1, d1)
  <2>1. CutPlaces(G, {}) = {}
    BY DEF CutPlaces
  <2>2. EntriesFull(v, {}) /\ DiskFull(v, d)
    BY <1>1, <1>5, <1>9, <2>1
  <2>3. Turn(v, d, w, {}, sv, F, G, op, f, a, ch, rest, v1, d1)
    BY <1>9
  <2> QED BY <1>8, <1>9, <2>2, <2>3, DiskStays
<1>10. SavedFull(v1, d1, sv, sh)
  BY <1>1, SavedStay
<1>11. Written(v1, d1, WinAfter(w, ch), rest)
  BY <1>8, WrittenStays
<1>12. IsTable(v1, 0) /\ Rooted(v1) /\ Rooted(d1)
  BY RootsStay
<1>13. Runs(v1, sv, F, op, f, a, rest)
  BY RunsOn
<1> QED BY <1>6, <1>7, <1>9, <1>10, <1>11, <1>12, <1>13 DEF Intact, left

\* f_rename is fine when the first entry has been removed.
LEMMA RenameDone ==
    ASSUME NEW j, NEW v, NEW w, NEW todo, todo \in {<<>>, <<Sync>>}, Safe(j, v, w, todo),
           j.then = j.cur, j.sg = j.sh
    PROVE  Fine(v, j.cur, j.sh)
<1>1. CASE todo = <<>>
  BY <1>1, SafeDone
<1>2. CASE todo = <<Sync>>
  <2>1. Head(todo) = Sync /\ Tail(todo) = <<>>
    BY <1>2
  <2>2. CASE Safe0(j, v, w, todo)
    BY <2>2 DEF Safe0
  <2>3. CASE Safe1(j, v, w, todo)
    <3>1. Changed(v, Sync) = v
      BY MoveChanged
    <3>2. Safe0(j, v, WinAfter(w, Sync), <<>>)
      BY <2>1, <2>3, <3>1 DEF Safe1
    <3> QED BY <3>2 DEF Safe0
  <2>4. CASE Safe2(j, v, w, todo) \/ Safe3(j, v, w, todo) \/ Safe4(j, v, w, todo)
    BY <2>1, <2>4 DEF Safe1, Safe2, Safe3, Safe4
  <2> QED BY <2>2, <2>3, <2>4 DEF Safe
<1> QED BY <1>1, <1>2

\* The objects that run ahead are those of the job.
LEMMA AheadJob ==
    ASSUME NEW v, NEW sv, NEW F, F \in [Fils -> FilRecs], NEW op, NEW f, NEW a, NEW sh,
           NEW todo, Runs(v, sv, F, op, f, a, todo), NEW G, G = JobOf(op, f, a, F, sh).cur
    PROVE  Ahead(F, G, op, f, a)
<1>1. G = IF op = "truncate" THEN [F EXCEPT ![f] = a] ELSE F
  BY DEF JobOf
<1>2. op \in {"write", "truncate", "sync"} => f \in Fils /\ F[f].open
  BY DEF Runs
<1>3. op = "truncate" => a = CutTo(F[f], a.size) /\ a.size \in Nat
  BY DEF Runs, TruncateRuns
<1> QED BY <1>1, <1>2, <1>3 DEF Ahead
-----------------------------------------------------------------------------
(* What the file objects have when a call returns *)

\* The buffer has been written.
LEMMA BufferDone ==
    ASSUME NEW v, NEW o, BufferRuns(v, o, <<>>)
    PROVE  o.dirty = 0 \/ v.has[o.dirty] = Data(o.id, o.part)
BY WriteBufferIs DEF BufferRuns

\* The part that f_write has put into the buffer.
LEMMA WroteFull ==
    ASSUME NEW v, NEW o \in OpenFils, NEW c \in Clusters, NEW k \in 1 .. o.size + 1,
           NEW a, a = Wrote(o, c, k), a.part = k, NEW s, FilFull(v, o, o, s), Linked(v, o, c, k, s),
           o.dirty = 0 \/ v.has[o.dirty] = Data(o.id, o.part)
    PROVE  \E u \in Seq(Clusters) : FilFull(v, a, a, u)
<1>1. o.size \in Nat /\ o.clst \in {0} \cup Clusters /\ k \in Nat
  BY DEF OpenFils
<1>2. /\ a.id = o.id /\ a.dirty = c /\ a.part = k
      /\ a.clst = (IF o.clst = 0 THEN c ELSE o.clst) /\ a.size = (IF k > o.size THEN k ELSE o.size)
  BY <1>1, WroteIs
<1>3. Parts(v, o.id, o.clst, o.size, 0, 0, s)
  <2>1. Parts(v, o.id, o.clst, o.size, o.dirty, o.part, s)
    BY DEF FilFull
  <2> QED BY <2>1, PartsWritten
<1>4. /\ s \in Seq(Clusters) /\ Len(s) = o.size /\ (o.size > 0 => s[1] = o.clst /\ o.clst # 0)
      /\ \A i \in 1 .. o.size : s[i] \in Clusters /\ v.fat[s[i]] # 0
  BY <1>3, PartsTyped
<1>5. /\ \A i \in 1 .. o.size : v.has[s[i]] = Data(o.id, i)
      /\ \A i \in 1 .. o.size - 1 : v.fat[s[i]] = s[i + 1]
  <2>1. \A i \in 1 .. o.size : s[i] # 0
    BY <1>4, Constants
  <2> QED BY <1>3, <2>1 DEF Parts
<1>6. CASE k <= o.size
  <2>1. s[k] = c
    BY <1>1, <1>6 DEF Linked
  <2>2. a.size = o.size /\ a.clst = o.clst
    BY <1>1, <1>2, <1>4, <1>6
  <2>3. Parts(v, a.id, a.clst, a.size, a.dirty, a.part, s)
    BY <1>2, <1>4, <1>5, <2>2 DEF Parts
  <2>4. FilFull(v, a, a, s)
    BY <1>1, <1>2, <1>6, <2>1, <2>2, <2>3 DEF FilFull
  <2> QED BY <1>4, <2>4
<1>7. CASE k = o.size + 1
  <2> DEFINE u == Append(s, c)
  <2>1. /\ u \in Seq(Clusters) /\ Len(u) = k /\ u[k] = c /\ \A i \in 1 .. o.size : u[i] = s[i]
    BY <1>1, <1>4, <1>7, AppendProperties
  <2> HIDE DEF u
  <2>2. a.size = k
    BY <1>1, <1>2, <1>7
  <2>3. u[1] = a.clst
    <3>1. CASE k = 1
      <4>1. o.clst \in {0, c} /\ u[1] = c
        BY <1>1, <1>7, <2>1, <3>1 DEF Linked
      <4> QED BY <1>2, <4>1
    <3>2. CASE k # 1
      <4>1. o.size > 0 /\ 1 \in 1 .. o.size
        BY <1>1, <1>7, <3>2
      <4>2. s[1] = o.clst /\ o.clst # 0
        BY <1>4, <4>1
      <4>3. a.clst = o.clst
        BY <1>2, <4>2
      <4>4. u[1] = s[1]
        BY <2>1, <4>1
      <4> QED BY <4>2, <4>3, <4>4
    <3> QED BY <3>1, <3>2
  <2>4. ASSUME NEW i \in 1 .. k
        PROVE  v.fat[u[i]] # 0 /\ (v.has[u[i]] = Data(o.id, i) \/ (u[i] = c /\ i = k))
    <3>1. CASE i = k
      BY <2>1, <3>1 DEF Linked
    <3>2. CASE i # k
      <4>1. i \in 1 .. o.size
        BY <1>1, <1>7, <3>2
      <4> QED BY <1>4, <1>5, <2>1, <4>1
    <3> QED BY <3>1, <3>2
  <2>5. ASSUME NEW i \in 1 .. k - 1  PROVE v.fat[u[i]] = u[i + 1]
    <3>1. i \in 1 .. o.size /\ k > 1
      BY <1>1, <1>7
    <3>2. CASE i = k - 1
      <4>1. v.fat[s[k - 1]] = c
        BY <1>1, <1>7, <3>1 DEF Linked
      <4>2. i + 1 = k
        BY <1>1, <3>2
      <4> QED BY <2>1, <3>1, <3>2, <4>1, <4>2
    <3>3. CASE i # k - 1
      <4>1. i \in 1 .. o.size - 1 /\ i + 1 \in 1 .. o.size
        BY <1>1, <1>7, <3>3
      <4> QED BY <1>5, <2>1, <3>1, <4>1
    <3> QED BY <3>2, <3>3
  <2>6. Parts(v, a.id, a.clst, a.size, a.dirty, a.part, u)
    BY <1>2, <2>1, <2>2, <2>3, <2>4, <2>5 DEF Parts
  <2>7. FilFull(v, a, a, u)
    BY <1>1, <1>2, <2>1, <2>2, <2>6 DEF FilFull
  <2> QED BY <2>1, <2>7
<1> QED BY <1>1, <1>6, <1>7

\* The object that f_truncate or f_sync leaves has no buffer.
LEMMA CleanFull ==
    ASSUME NEW v, NEW o, NEW g, NEW s, FilFull(v, o, g, s), o.dirty = 0 \/ v.has[o.dirty] = Data(o.id, o.part),
           NEW a, a.id = o.id, a.clst = g.clst, a.size = g.size, a.dirty = 0, a.part = 0
    PROVE  FilFull(v, a, a, s)
<1>1. Parts(v, o.id, g.clst, g.size, 0, 0, s)
  <2>1. Parts(v, o.id, g.clst, g.size, o.dirty, o.part, s)
    BY DEF FilFull
  <2> QED BY <2>1, PartsWritten
<1> QED BY <1>1 DEF FilFull

\* When f_truncate has nothing left to do, the buffer is written.
LEMMA FreeDone ==
    ASSUME NEW v, NEW o, NEW a, FreeRuns(v, o, a, <<>>)
    PROVE  o.dirty = 0 \/ v.has[o.dirty] = Data(o.id, o.part)
<1> SUFFICES ASSUME NEW r \in Seq(Clusters), <<>> = FreeAll(r) \o WriteBuffer(o), o.dirty # 0  PROVE FALSE
  BY DEF FreeRuns
<1> DEFINE b == WriteBuffer(o)
<1>1. b = <<Buffer(o)>> /\ b # <<>>
  BY WriteBufferIs
<1>2. b \in Seq({Buffer(o)})
  <2> HIDE DEF b, Buffer
  <2> QED BY <1>1
<1> HIDE DEF b
<1>3. <<>> = FreeAll(r) \o b
  BY DEF b
<1>4. CASE r # <<>>
  BY <1>2, <1>3, <1>4, FreeAllOn
<1>5. CASE r = <<>>
  BY <1>1, <1>2, <1>3, <1>5, FreeAllNone
<1> QED BY <1>4, <1>5

\* The objects have all that they say.
LEMMA FilsEnd ==
    ASSUME NEW v, NEW sv, NEW F, NEW G, NEW op, NEW f, NEW a, NEW sh, FilsFull(v, F, G), Ahead(F, G, op, f, a),
           Runs(v, sv, F, op, f, a, <<>>), NEW H, H = JobOf(op, f, a, F, sh).then
    PROVE  FilsFull(v, H, H)
<1>1. H = IF f \in Fils THEN [F EXCEPT ![f] = a] ELSE F
  BY DEF JobOf
<1>2. F \in [Fils -> FilRecs]
  BY DEF Ahead
<1>3. \A g \in Fils : g # f => H[g] = F[g] /\ G[g] = F[g]
  <2>1. \A g \in Fils : g # f => H[g] = F[g]
    BY <1>1, <1>2
  <2> QED BY <2>1, AheadIs
<1>4. f \in Fils => H[f] = a
  BY <1>1, <1>2
<1> SUFFICES ASSUME NEW g \in Fils, H[g].open  PROVE \E s \in Seq(Clusters) : FilFull(v, H[g], H[g], s)
  BY DEF FilsFull
<1>5. CASE g # f
  BY <1>3, <1>5 DEF FilsFull
<1>6. CASE g = f
  <2> DEFINE o == F[f]
  <2>1. f \in Fils /\ H[f] = a /\ a.open
    BY <1>4, <1>6
  <2>2. o.open => o \in OpenFils /\ \E s \in Seq(Clusters) : FilFull(v, o, G[f], s)
    BY <1>2, <2>1, FilTyped DEF FilsFull
  <2> SUFFICES \E s \in Seq(Clusters) : FilFull(v, a, a, s)
    BY <1>6, <2>1
  <2>3. CASE op = "open"
    <3>1. a.size = 0 /\ a.dirty = 0
      BY <2>3 DEF Runs
    <3>2. <<>> \in Seq(Clusters) /\ Parts(v, a.id, a.clst, 0, a.dirty, a.part, <<>>)
      BY PartsNone
    <3> QED BY <3>1, <3>2 DEF FilFull
  <2>4. CASE op = "write"
    <3>1. o.open /\ WriteRuns(v, o, a, <<>>)
      BY <2>4 DEF Runs
    <3> HIDE DEF o
    <3>2. PICK s \in Seq(Clusters) :
             /\ FilFull(v, o, o, s)
             /\ \/ Linked(v, o, a.dirty, a.part, s) /\ BufferRuns(v, o, <<>>)
                \/ LinkRuns(v, o, a.dirty, a.part, s, <<>>) \/ NewRuns(v, o, a.dirty, a.part, s, <<>>)
      BY <3>1 DEF WriteRuns
    <3>3. Linked(v, o, a.dirty, a.part, s) /\ BufferRuns(v, o, <<>>)
      BY <3>2 DEF LinkRuns, NewRuns
    <3>4. a.dirty \in Clusters /\ a.part \in 1 .. o.size + 1 /\ a = Wrote(o, a.dirty, a.part)
      BY <3>1 DEF WriteRuns
    <3>5. o.dirty = 0 \/ v.has[o.dirty] = Data(o.id, o.part)
      BY <3>3, BufferDone
    <3> QED BY <2>2, <3>1, <3>2, <3>3, <3>4, <3>5, WroteFull
  <2>5. CASE op = "truncate"
    <3>1. o.open /\ FreeRuns(v, o, a, <<>>) /\ a = CutTo(o, a.size) /\ a.size \in Nat
      BY <2>5 DEF Runs, TruncateRuns
    <3>2. G[f] = a
      BY <2>1, <2>5, AheadIs
    <3>3. PICK s \in Seq(Clusters) : FilFull(v, o, a, s)
      BY <2>2, <3>1, <3>2
    <3>4. o.dirty = 0 \/ v.has[o.dirty] = Data(o.id, o.part)
      BY <3>1, FreeDone
    <3>5. a.id = o.id /\ a.dirty = 0
      BY <2>2, <3>1, CutToIs
    <3>6. a.part = 0
      BY <2>2, <3>1 DEF CutTo, OpenFils
    <3> HIDE DEF o
    <3> QED BY <3>3, <3>4, <3>5, <3>6, CleanFull
  <2>6. CASE op = "sync"
    <3>1. o.open /\ SyncRuns(v, o, a, <<>>)
      BY <2>6 DEF Runs
    <3>2. a = Synced(o)
      <4>1. a \in {Synced(o), Closed}
        BY <3>1 DEF SyncRuns
      <4> QED BY <2>1, <4>1, ClosedTyped
    <3>3. G[f] = o
      BY <2>6, <2>1, AheadIs
    <3>4. PICK s \in Seq(Clusters) : FilFull(v, o, o, s)
      BY <2>2, <3>1, <3>3
    <3>5. o.dirty = 0 \/ v.has[o.dirty] = Data(o.id, o.part)
      BY <3>1 DEF SyncRuns
    <3>6. a.id = o.id /\ a.dirty = 0 /\ a.clst = o.clst /\ a.size = o.size
      BY <2>2, <3>1, <3>2, SyncedIs
    <3>7. a.part = 0
      BY <2>2, <3>1, <3>2 DEF Synced, OpenFils
    <3> HIDE DEF o
    <3> QED BY <3>4, <3>5, <3>6, <3>7, CleanFull
  <2> QED BY <2>1, <2>3, <2>4, <2>5, <2>6 DEF Runs
<1> QED BY <1>5, <1>6
-----------------------------------------------------------------------------
(* The end of a call *)

\* What is left out of account when the call has returned.
LEMMA CutEnds ==
    ASSUME NEW v, NEW sv, NEW F, NEW G, NEW op, NEW f, NEW a, NEW sh, Ahead(F, G, op, f, a),
           Runs(v, sv, F, op, f, a, <<>>), NEW j, j = JobOf(op, f, a, F, sh)
    PROVE  CutPlaces(G, Cut(op, f, F, sh, <<>>)) \subseteq CutPlaces(j.then, j.sg)
<1>1. /\ j.then = (IF f \in Fils THEN [F EXCEPT ![f] = a] ELSE F)
      /\ j.sg = (IF op = "sync" THEN sh \ {F[f].id} ELSE sh)
  BY DEF JobOf
<1>2. Cut(op, f, F, sh, <<>>) = j.sg
  BY <1>1 DEF Cut
<1>3. F \in [Fils -> FilRecs]
  BY DEF Ahead
<1> SUFFICES ASSUME NEW g \in Fils, G[g].open, G[g].id \in j.sg
             PROVE  j.then[g].open /\ j.then[g].id \in j.sg /\ Place(j.then[g]) = Place(G[g])
  BY <1>2 DEF CutPlaces
<1>4. F[g].open /\ F[g].id = G[g].id /\ Place(G[g]) = Place(F[g]) /\ F[g] \in OpenFils
  BY AheadIs
<1>5. CASE g # f
  <2>1. j.then[g] = F[g]
    BY <1>1, <1>3, <1>5
  <2> QED BY <1>4, <2>1
<1>6. CASE g = f
  <2>1. j.then[f] = a
    BY <1>1, <1>3, <1>6
  <2>2. op # "sync"
    BY <1>1, <1>4, <1>6
  <2>3. op # "open"
    BY <1>4, <1>6 DEF Runs
  <2>4. CASE op = "write"
    <3>1. WriteRuns(v, F[f], a, <<>>)
      BY <2>4 DEF Runs
    <3>2. a.dirty \in Clusters /\ a.part \in Nat /\ a = Wrote(F[f], a.dirty, a.part)
      <4>1. F[f].size \in Nat
        BY <1>4, <1>6 DEF OpenFils
      <4> QED BY <3>1, <4>1 DEF WriteRuns
    <3>3. a.open /\ a.id = F[f].id /\ Place(a) = Place(F[f])
      BY <1>4, <1>6, <3>2, WroteIs
    <3> QED BY <1>4, <1>6, <2>1, <3>3
  <2>5. CASE op = "truncate"
    <3>1. G[f] = a
      BY <1>6, <2>5, AheadIs
    <3> QED BY <1>6, <2>1, <3>1
  <2> QED BY <1>6, <2>2, <2>3, <2>4, <2>5 DEF Runs
<1> QED BY <1>5, <1>6

\* When a call returns, what is in the files is kept, and f_sync has saved one.
LEMMA EndIs ==
    ASSUME NEW v \in Volumes, NEW d \in Volumes, NEW w, Agree(v, d, w), NEW sv \in [Ids -> Int], NEW F, NEW G,
           NEW op, NEW f, NEW a, NEW sh, Ahead(F, G, op, f, a), Runs(v, sv, F, op, f, a, <<>>),
           NEW j, j = JobOf(op, f, a, F, sh), op # "rename" => Fine(v, G, sh),
           op \in {"rename", "sync"} => w = NoSector,
           Intact(v, d, w, sv, sh, F, G, op, f, <<>>),
           NEW sv1, op = "sync" => sv1 = [sv EXCEPT ![F[f].id] = F[f].size], op # "sync" => sv1 = sv,
           NEW H, H = j.then, NEW sg, sg = j.sg
    PROVE  /\ Intact(v, d, w, sv1, sg, H, H, "idle", "none", <<>>)
           /\ sv1 \in [Ids -> Int]
<1>1. /\ EntriesFull(v, CutPlaces(G, Cut(op, f, F, sh, <<>>))) /\ FilsFull(v, F, G)
      /\ (op # "rename" /\ sh = {} => DiskFull(v, d))
      /\ SavedFull(v, d, sv, sh) /\ EntriesWritten(v, d) /\ IsTable(v, 0) /\ Rooted(v) /\ Rooted(d)
  BY DEF Intact, Written, Flushes
<1>2. sg = IF op = "sync" THEN sh \ {F[f].id} ELSE sh
  BY DEF JobOf
<1>3. EntriesFull(v, CutPlaces(H, sg))
  <2>1. CutPlaces(G, Cut(op, f, F, sh, <<>>)) \subseteq CutPlaces(H, sg)
    BY CutEnds
  <2> QED BY <1>1, <2>1 DEF EntriesFull
<1>4. FilsFull(v, H, H)
  BY <1>1, FilsEnd
<1>5. op \in {"rename", "sync"} => d = v
  BY AgreeClean
<1>6. ASSUME sg = {}  PROVE DiskFull(v, d)
  <2>1. CASE op \in {"rename", "sync"}
    <3>1. CutPlaces(H, sg) = {}
      BY <1>6 DEF CutPlaces
    <3> QED BY <1>3, <1>5, <2>1, <3>1 DEF EntriesFull, DiskFull, BothFull, Full
  <2>2. CASE op \notin {"rename", "sync"}
    BY <1>1, <1>2, <1>6, <2>2
  <2> QED BY <2>1, <2>2
<1>7. op = "sync" => f \in Fils /\ F[f].open /\ SyncRuns(v, F[f], a, <<>>)
  BY DEF Runs
<1>8. op = "sync" => F[f] \in OpenFils /\ F[f].id \in Ids /\ F[f].size \in Nat
  BY <1>7, AheadIs
<1>9. sv1 \in [Ids -> Int]
  BY <1>8
<1>10. SavedFull(v, d, sv1, sg)
  <2>1. CASE op # "sync"
    BY <1>1, <1>2, <2>1
  <2>2. CASE op = "sync"
    <3> SUFFICES ASSUME NEW id \in Ids, sv1[id] # NotSaved
                 PROVE  id \notin sg /\ sv1[id] \in Nat /\ SavedIn(v, d, id, sv1[id])
      BY DEF SavedFull
    <3>1. CASE id # F[f].id
      <4>1. sv1[id] = sv[id] /\ id \notin sh
        BY <1>1, <1>8, <2>2, <3>1 DEF SavedFull
      <4> QED BY <1>1, <1>2, <2>2, <4>1 DEF SavedFull
    <3>2. CASE id = F[f].id
      <4> DEFINE o == F[f]
                 p == Place(o)
      <4>1. sv1[id] = o.size /\ o.size \in Nat /\ id \notin sg
        BY <1>2, <1>8, <2>2, <3>2
      <4>2. Fine(v, F, sh) /\ G = F
        BY <2>2 DEF Ahead
      <4>3. p \in All(v) /\ ~ At(v, p).dir /\ At(v, p).id = id /\ p \in Spots
        <5>1. p \in All(v) /\ ~ At(v, p).dir /\ At(v, p).id = o.id
          BY <1>7, <2>2, <4>2, HeldEntry
        <5> QED BY <3>2, <5>1 DEF All
      <4>4. At(v, p).clst = o.clst /\ At(v, p).size = o.size /\ (o.dirty = 0 \/ v.has[o.dirty] = Data(o.id, o.part))
        BY <1>7, <2>2 DEF SyncRuns, SetRuns
      <4>5. PICK s \in Seq(Clusters) : FilFull(v, o, o, s)
        BY <1>1, <1>7, <2>2, <4>2 DEF FilsFull
      <4> HIDE DEF o, p
      <4>6. Parts(v, o.id, o.clst, o.size, 0, 0, s)
        <5>1. Parts(v, o.id, o.clst, o.size, o.dirty, o.part, s)
          BY <4>5 DEF FilFull
        <5> QED BY <4>4, <5>1, PartsWritten
      <4>7. id = o.id
        BY <3>2 DEF o
      <4>8. SavedAt(v, id, o.size, p, s)
        BY <4>1, <4>3, <4>4, <4>6, <4>7 DEF SavedAt
      <4>9. SavedIn(v, d, id, o.size)
        BY <1>5, <2>2, <4>3, <4>5, <4>8 DEF SavedIn
      <4> QED BY <4>1, <4>9
    <3> QED BY <3>1, <3>2
  <2> QED BY <2>1, <2>2
<1>11. Cut("idle", "none", H, sg, <<>>) = sg
  BY DEF Cut
<1> QED BY <1>1, <1>3, <1>4, <1>6, <1>9, <1>10, <1>11 DEF Intact, Written
-----------------------------------------------------------------------------
(* The steps *)

\* A change of a sector keeps the invariant.
LEMMA StepKeeps == Inv /\ SInv /\ Step => SInv'
<1> SUFFICES ASSUME Inv, SInv, Step, ~ hurt'  PROVE SInv'
  BY DEF SInv
<1> DEFINE todo == call.todo
           ch == Head(todo)
           rest == Tail(todo)
           op == call.op
           f == call.f
           a == call.leaves
           G == Job.cur
           d1 == DiskAfter(now, disk, win, ch)
           v1 == Changed(now, ch)
           w1 == WinAfter(win, ch)
<1>1. call.op # "idle" /\ (ThroughWindow(ch) \/ Direct(ch))
  BY DEF Step
<1>2. Do(ch)
  BY <1>1 DEF ThroughWindow, Direct
<1>3. ~ hurt
  BY <1>2 DEF Do
<1>4. /\ rest # <<>> => /\ call' = [op |-> op, f |-> f, leaves |-> a, todo |-> rest] /\ fil' = fil
                        /\ saved' = saved /\ shrunk' = shrunk
      /\ rest = <<>> => /\ call' = Idle /\ fil' = IF f \in Fils THEN [fil EXCEPT ![f] = a] ELSE fil
                        /\ saved' = IF op = "sync" THEN [saved EXCEPT ![fil[f].id] = fil[f].size] ELSE saved
                        /\ shrunk' = IF op = "sync" THEN shrunk \ {fil[f].id} ELSE shrunk
  BY <1>2 DEF Do, Rest
<1>5. /\ now \in Volumes /\ disk \in Volumes /\ Agree(now, disk, win)
      /\ fil \in [Fils -> FilRecs] /\ BusyFine /\ call # Idle
  BY <1>1, <1>3 DEF Inv, IdleFine, Idle
<1>6. todo # <<>> /\ Goes(Job, now, win, ch) /\ Safe(Job, v1, w1, rest)
  BY <1>5, SafeStep DEF BusyFine
<1>7. Legal(now, win, ch) /\ StepSafe(now, disk, win, ch)
  BY <1>5, <1>6, StepIsSafe DEF Goes
<1>8. now' = v1 /\ disk' = d1 /\ win' = w1
  <2>1. CASE ThroughWindow(ch)
    <3>1. Flushed = now
      BY <1>5, AgreeFlushed
    <3> QED BY <2>1, <3>1 DEF ThroughWindow, DiskAfter, WinAfter, Forgot
  <2>2. CASE Direct(ch)
    BY <2>2 DEF Direct, DiskAfter, WinAfter
  <2> QED BY <1>1, <2>1, <2>2
<1>9. v1 \in Volumes /\ d1 \in Volumes /\ Agree(v1, d1, w1)
  BY <1>7 DEF StepSafe
<1>10. /\ saved \in [Ids -> Int] /\ Intact(now, disk, win, saved, shrunk, fil, G, op, f, todo)
       /\ Runs(now, saved, fil, op, f, a, todo)
  BY <1>3, <1>5 DEF SInv, Ready, Job
<1>11. Job = JobOf(op, f, a, fil, shrunk) /\ Job.op = op /\ Job.sh = shrunk
  BY DEF Job, JobOf
<1>12. Ahead(fil, G, op, f, a)
  BY <1>5, <1>10, <1>11, AheadJob
<1>13. op # "rename" => Fine(now, G, shrunk) /\ Fine(v1, G, shrunk)
  BY <1>5, <1>6, <1>11 DEF BusyFine, Goes
<1>14. op = "rename" /\ rest \in {<<>>, <<Sync>>} => Fine(v1, G, shrunk)
  <2> SUFFICES ASSUME op = "rename", rest \in {<<>>, <<Sync>>}  PROVE Fine(v1, G, shrunk)
    OBVIOUS
  <2>1. f \notin Fils
    BY <1>10 DEF Runs
  <2>2. Job.then = Job.cur /\ Job.sg = Job.sh
    BY <2>1 DEF Job, JobOf
  <2> QED BY <1>6, <1>11, <2>2, RenameDone
<1>15. Kind(now, saved, fil, op, f, a, ch, rest) /\ (op = "sync" /\ ch = Sync => todo = <<Sync>>)
  <2>1. op = "truncate" => Fine(now, G, shrunk) /\ G[f] = a /\ a.open
    <3> SUFFICES ASSUME op = "truncate"  PROVE G[f] = a /\ a.open
      BY <1>13
    <3>1. f \in Fils /\ fil[f].open
      BY <1>10 DEF Runs
    <3> QED BY <1>12, <3>1, AheadIs
  <2> QED BY <1>5, <1>6, <1>10, <2>1, RunsKind
<1>16. FilsFull(now, fil, G) /\ IsTable(now, 0) /\ Rooted(now) /\ Rooted(disk)
  BY <1>10 DEF Intact
<1> HIDE DEF ch, todo, rest, op, f, a, G, d1, v1, w1
<1>17. Turn(now, disk, win, shrunk, saved, fil, G, op, f, a, ch, rest, v1, d1)
  BY <1>5, <1>7, <1>9, <1>12, <1>13, <1>14, <1>15, <1>16 DEF Turn, v1, d1
<1>18. /\ Intact(v1, d1, w1, saved, shrunk, fil, G, op, f, rest)
       /\ Runs(v1, saved, fil, op, f, a, rest)
  BY <1>6, <1>10, <1>15, <1>17, IntactStays DEF ch, rest, w1
<1>19. CASE rest # <<>>
  <2>1. /\ call' = [op |-> op, f |-> f, leaves |-> a, todo |-> rest] /\ fil' = fil
        /\ saved' = saved /\ shrunk' = shrunk
    BY <1>4, <1>19
  <2>2. call'.op = op /\ call'.f = f /\ call'.leaves = a /\ call'.todo = rest /\ call' # Idle
    <3>1. call'.op = op
      BY <2>1
    <3> QED BY <1>1, <2>1, <3>1 DEF Idle, op
  <2>3. JobOf(op, f, a, fil, shrunk).cur = G
    BY <1>11 DEF G
  <2>4. Ready(now', disk', win', saved', shrunk', fil', call'.op, call'.f, call'.leaves, call'.todo)
    BY <1>8, <1>18, <2>1, <2>2, <2>3 DEF Ready
  <2> QED BY <1>10, <2>1, <2>2, <2>4 DEF SInv
<1>20. CASE rest = <<>>
  <2> DEFINE sv1 == IF op = "sync" THEN [saved EXCEPT ![fil[f].id] = fil[f].size] ELSE saved
             H == Job.then
             sg == Job.sg
  <2>1. call' = Idle /\ fil' = H /\ saved' = sv1 /\ shrunk' = sg
    BY <1>4, <1>11, <1>20 DEF JobOf
  <2>2. op \in {"rename", "sync"} => w1 = NoSector
    BY <1>6, <1>11, <1>20, SafeDone
  <2>3. op # "rename" => Fine(v1, G, shrunk)
    BY <1>13
  <2>4. Intact(v1, d1, w1, saved, shrunk, fil, G, op, f, <<>>) /\ Runs(v1, saved, fil, op, f, a, <<>>)
    BY <1>18, <1>20
  <2>5. Intact(v1, d1, w1, sv1, sg, H, H, "idle", "none", <<>>) /\ sv1 \in [Ids -> Int]
    <3> DEFINE j == Job
    <3>1. /\ op = "sync" => sv1 = [saved EXCEPT ![fil[f].id] = fil[f].size]
          /\ op # "sync" => sv1 = saved
          /\ H = j.then /\ sg = j.sg /\ j = JobOf(op, f, a, fil, shrunk) /\ saved \in [Ids -> Int]
      BY <1>10, <1>11
    <3> HIDE DEF sv1, H, sg, j
    <3> QED BY ONLY <1>9, <1>12, <2>2, <2>3, <2>4, <3>1, EndIs
  <2> QED BY <1>8, <2>1, <2>5 DEF SInv
<1> QED BY <1>19, <1>20
-----------------------------------------------------------------------------

\* So it is in the beginning.
LEMMA InitKeeps == Init => SInv
<1> SUFFICES ASSUME Init  PROVE SInv
  OBVIOUS
<1>1. /\ now = [fat |-> [c \in Clusters |-> 0],
                has |-> [t \in Tables |-> IF t = 0 THEN Table(0) ELSE Nothing]]
      /\ disk = now /\ fil = [f \in Fils |-> Closed] /\ call = Idle /\ shrunk = {}
      /\ saved = [id \in Ids |-> NotSaved] /\ ~ hurt
  BY DEF Init
<1>2. \A t \in Tables : now.has[t] = IF t = 0 THEN Table(0) ELSE Nothing
  BY <1>1
<1>3. Table(0).kind = "table" /\ Nothing.kind # "table" /\ \A s \in 1 .. Slots : Table(0).ent[s] = Unused
  BY DEF Table, Nothing
<1>4. All(now) = {}
  <2> SUFFICES ASSUME NEW p \in All(now)  PROVE FALSE
    OBVIOUS
  <2>1. p[1] \in Tables /\ p[2] \in 1 .. Slots /\ IsTable(now, p[1]) /\ At(now, p) # Unused
    BY SpotParts DEF All
  <2> QED BY <1>2, <1>3, <2>1 DEF IsTable, At, Entry
<1>5. EntriesFull(now, CutPlaces(fil, Cut("idle", "none", fil, shrunk, <<>>))) /\ DiskFull(now, disk)
  BY <1>1, <1>4 DEF EntriesFull, DiskFull
<1>6. FilsFull(now, fil, fil)
  BY <1>1, ClosedTyped DEF FilsFull
<1>7. SavedFull(now, disk, saved, shrunk) /\ saved \in [Ids -> Int]
  BY <1>1 DEF SavedFull, NotSaved
<1>8. Written(now, disk, win, <<>>)
  BY <1>1, <1>4 DEF Written, EntriesWritten
<1>9. IsTable(now, 0) /\ Rooted(now) /\ Rooted(disk)
  <2>1. Inv
    BY InitInv
  <2>2. Fine(now, fil, shrunk)
    BY <1>1, <2>1, IdleIs
  <2> QED BY <1>1, <2>2, FineParts
<1> QED BY <1>1, <1>5, <1>6, <1>7, <1>8, <1>9 DEF SInv, Intact

\* Another sector is read.
LEMMA LookKeeps == Inv /\ SInv /\ Look => SInv'
<1> SUFFICES ASSUME Inv, SInv, Look, ~ hurt'  PROVE SInv'
  BY DEF SInv
<1>1. /\ call = Idle /\ disk' = Flushed /\ win' = NoSector /\ now' = now /\ fil' = fil
      /\ call' = call /\ shrunk' = shrunk /\ hurt' = hurt /\ saved' = saved
  BY DEF Look
<1>2. now \in Volumes /\ disk \in Volumes /\ Agree(now, disk, win)
  BY <1>1 DEF Inv
<1>3. disk' = now
  BY <1>1, <1>2, AgreeFlushed
<1>4. saved \in [Ids -> Int] /\ Intact(now, disk, win, saved, shrunk, fil, fil, "idle", "none", <<>>)
  BY <1>1 DEF SInv
<1>5. Cut("idle", "none", fil, shrunk, <<>>) = shrunk
  BY DEF Cut
<1>6. EntriesFull(now, CutPlaces(fil, shrunk))
  BY <1>4, <1>5 DEF Intact
<1>7. shrunk = {} => DiskFull(now, now)
  BY <1>6 DEF CutPlaces, EntriesFull, DiskFull, BothFull, Full
<1>8. SavedFull(now, now, saved, shrunk)
  <2>1. SavedFull(now, disk, saved, shrunk)
    BY <1>4 DEF Intact
  <2>2. ASSUME NEW id, NEW n, SavedIn(now, disk, id, n)  PROVE SavedIn(now, now, id, n)
    BY <2>2 DEF SavedIn
  <2> QED BY <2>1, <2>2 DEF SavedFull
<1>9. Written(now, now, NoSector, <<>>)
  BY DEF Written, EntriesWritten
<1>10. Intact(now, now, NoSector, saved, shrunk, fil, fil, "idle", "none", <<>>)
  BY <1>4, <1>7, <1>8, <1>9 DEF Intact
<1> QED BY <1>1, <1>3, <1>4, <1>10 DEF SInv

\* The power is cut.
LEMMA PowerCutKeeps == Inv /\ SInv /\ PowerCut => SInv'
<1> SUFFICES ASSUME Inv, SInv, PowerCut, ~ hurt'  PROVE SInv'
  BY DEF SInv
<1>1. /\ now' = disk /\ win' = NoSector /\ fil' = AllClosed /\ call' = Idle /\ shrunk' = {}
      /\ disk' = disk /\ ~ hurt /\ shrunk = {} /\ call.op # "rename" /\ saved' = saved
  BY DEF PowerCut, AllClosed
<1>2. Fine(disk, AllClosed, {})
  BY <1>1 DEF Inv, DiskFine
<1>3. PICK op, f, G, todo : Intact(now, disk, win, saved, shrunk, fil, G, op, f, todo) /\ op # "rename"
  <2>1. CASE call = Idle
    BY <1>1, <2>1 DEF SInv
  <2>2. CASE call # Idle
    BY <1>1, <2>2 DEF SInv, Ready
  <2> QED BY <2>1, <2>2
<1>4. DiskFull(now, disk) /\ SavedFull(now, disk, saved, {}) /\ Rooted(disk) /\ saved \in [Ids -> Int]
  BY <1>1, <1>3 DEF Intact, SInv
<1>5. EntriesFull(disk, CutPlaces(AllClosed, Cut("idle", "none", AllClosed, {}, <<>>))) /\ DiskFull(disk, disk)
  BY <1>4 DEF EntriesFull, DiskFull, BothFull, Full
<1>6. FilsFull(disk, AllClosed, AllClosed)
  BY ClosedTyped DEF FilsFull, AllClosed
<1>7. SavedFull(disk, disk, saved, {})
  <2>1. ASSUME NEW id, NEW n, SavedIn(now, disk, id, n)  PROVE SavedIn(disk, disk, id, n)
    BY <2>1 DEF SavedIn
  <2> QED BY <1>4, <2>1 DEF SavedFull
<1>8. Written(disk, disk, NoSector, <<>>)
  BY DEF Written, EntriesWritten
<1>9. IsTable(disk, 0)
  BY <1>2, FineParts
<1>10. Intact(disk, disk, NoSector, saved, {}, AllClosed, AllClosed, "idle", "none", <<>>)
  BY <1>4, <1>5, <1>6, <1>7, <1>8, <1>9 DEF Intact
<1> QED BY <1>1, <1>4, <1>10 DEF SInv
-----------------------------------------------------------------------------
(* The calls begin *)

\* The file objects when a call has done what comes first have what they say.
LEMMA FilsBegin ==
    ASSUME NEW v, NEW F, NEW G, NEW op, NEW f, NEW a, FilsFull(v, F, F), Ahead(F, G, op, f, a),
           op = "truncate" => a.size <= F[f].size
    PROVE  FilsFull(v, F, G)
<1> SUFFICES ASSUME NEW g \in Fils, F[g].open
             PROVE  \E s \in Seq(Clusters) : FilFull(v, F[g], G[g], s)
  BY DEF FilsFull
<1>1. PICK s \in Seq(Clusters) : FilFull(v, F[g], F[g], s)
  BY DEF FilsFull
<1>2. CASE op # "truncate" \/ g # f
  BY <1>1, <1>2, AheadIs
<1>3. CASE op = "truncate" /\ g = f
  <2> DEFINE o == F[f]
  <2>1. o \in OpenFils /\ G[f] = a /\ a = CutTo(o, a.size) /\ a.size \in Nat /\ a.size <= o.size
        /\ o.size \in Nat
    BY <1>3, AheadIs DEF Ahead
  <2>2. a.size > 0 => a.clst = o.clst
    BY <2>1, CutToIs
  <2> HIDE DEF o
  <2>3. /\ Parts(v, o.id, o.clst, o.size, o.dirty, o.part, s)
        /\ (o.dirty # 0 => o.part \in 1 .. o.size /\ (o.part <= o.size => s[o.part] = o.dirty))
    BY <1>1, <1>3 DEF FilFull, o
  <2>4. PICK u \in Seq(Clusters) : /\ Parts(v, o.id, o.clst, a.size, o.dirty, o.part, u)
                                   /\ \A i \in 1 .. a.size : u[i] = s[i]
    BY <2>1, <2>3, PartsFirst
  <2>5. Parts(v, o.id, a.clst, a.size, o.dirty, o.part, u)
    BY <2>2, <2>4, PartsMoved
  <2>6. o.dirty # 0 => o.part \in 1 .. o.size /\ (o.part <= a.size => u[o.part] = o.dirty)
    BY <2>1, <2>3, <2>4
  <2>7. FilFull(v, o, a, u)
    BY <2>5, <2>6 DEF FilFull
  <2> QED BY <1>3, <2>1, <2>4, <2>7 DEF o
<1> QED BY <1>2, <1>3

\* What is intact between the calls is intact as a call begins.
LEMMA BeginIntact ==
    ASSUME NEW v, NEW d, NEW w, NEW sv, NEW sh, NEW F, Intact(v, d, w, sv, sh, F, F, "idle", "none", <<>>),
           NEW op, NEW f, NEW a, NEW todo, NEW sv1, NEW sh1, NEW G, Ahead(F, G, op, f, a),
           \A id \in Ids : sv1[id] \in {sv[id], NotSaved},
           op # "truncate" => sh1 = sh,
           op = "truncate" => sh1 = sh \cup {F[f].id} /\ sv1[F[f].id] = NotSaved /\ a.size <= F[f].size,
           op = "sync" => todo \notin {<<>>, <<Sync>>}
    PROVE  Intact(v, d, w, sv1, sh1, F, G, op, f, todo)
<1>1. Cut("idle", "none", F, sh, <<>>) = sh /\ Cut(op, f, F, sh1, todo) = sh1
  BY DEF Cut
<1>2. /\ EntriesFull(v, CutPlaces(F, sh)) /\ FilsFull(v, F, F) /\ (sh = {} => DiskFull(v, d))
      /\ SavedFull(v, d, sv, sh) /\ EntriesWritten(v, d) /\ IsTable(v, 0) /\ Rooted(v) /\ Rooted(d)
  BY <1>1 DEF Intact, Written, Flushes
<1>3. EntriesFull(v, CutPlaces(G, sh1))
  <2>1. CutPlaces(F, sh) \subseteq CutPlaces(G, sh1)
    <3> SUFFICES ASSUME NEW g \in Fils, F[g].open, F[g].id \in sh
                 PROVE  G[g].open /\ G[g].id \in sh1 /\ Place(G[g]) = Place(F[g])
      BY DEF CutPlaces
    <3>1. G[g].open /\ G[g].id = F[g].id /\ Place(G[g]) = Place(F[g])
      BY AheadIs
    <3> QED BY <3>1
  <2> QED BY <1>2, <2>1 DEF EntriesFull
<1>4. FilsFull(v, F, G)
  BY <1>2, FilsBegin
<1>5. op # "rename" /\ sh1 = {} => DiskFull(v, d)
  BY <1>2
<1>6. SavedFull(v, d, sv1, sh1)
  <2> SUFFICES ASSUME NEW id \in Ids, sv1[id] # NotSaved
               PROVE  id \notin sh1 /\ sv1[id] \in Nat /\ SavedIn(v, d, id, sv1[id])
    BY DEF SavedFull
  <2>1. sv1[id] = sv[id] /\ id \notin sh1 \ sh
    OBVIOUS
  <2>2. id \notin sh /\ sv[id] \in Nat /\ SavedIn(v, d, id, sv[id])
    BY <1>2, <2>1 DEF SavedFull
  <2> QED BY <2>1, <2>2
<1> QED BY <1>1, <1>2, <1>3, <1>4, <1>5, <1>6 DEF Intact, Written

\* A call that begins keeps the invariant.
LEMMA BeginReady ==
    ASSUME Inv, SInv, ~ hurt, call = Idle, NEW op, NEW f, NEW a, NEW todo, Begin(op, f, a, todo),
           op = "truncate" /\ todo = <<>> => Inv',
           Runs(now, saved', fil, op, f, a, todo), saved' \in [Ids -> Int],
           \A id \in Ids : saved'[id] \in {saved[id], NotSaved},
           op # "truncate" => shrunk' = shrunk,
           op = "truncate" => /\ shrunk' = shrunk \cup {fil[f].id} /\ saved'[fil[f].id] = NotSaved
                              /\ a.size <= fil[f].size,
           op = "sync" => todo \notin {<<>>, <<Sync>>}, op = "rename" => todo # <<>>
    PROVE  SInv'
<1> DEFINE G == JobOf(op, f, a, fil, shrunk').cur
<1>1. /\ now' = now /\ disk' = disk /\ win' = win /\ hurt' = hurt
      /\ todo # <<>> => /\ call' = [op |-> op, f |-> f, leaves |-> a, todo |-> todo] /\ fil' = fil
      /\ todo = <<>> => /\ call' = Idle /\ fil' = IF f \in Fils THEN [fil EXCEPT ![f] = a] ELSE fil
  BY DEF Begin, Rest
<1>2. /\ now \in Volumes /\ disk \in Volumes /\ Agree(now, disk, win) /\ fil \in [Fils -> FilRecs]
      /\ Fine(now, fil, shrunk)
  BY IdleIs DEF Inv
<1>3. Intact(now, disk, win, saved, shrunk, fil, fil, "idle", "none", <<>>)
  BY DEF SInv
<1>4. G = JobOf(op, f, a, fil, shrunk').cur
  OBVIOUS
<1> HIDE DEF G
<1>5. Ahead(fil, G, op, f, a)
  BY <1>2, <1>4, AheadJob
<1>6. Intact(now, disk, win, saved', shrunk', fil, G, op, f, todo)
  <2> DEFINE sv1 == saved'
             sh1 == shrunk'
  <2>1. /\ \A id \in Ids : sv1[id] \in {saved[id], NotSaved}
        /\ (op # "truncate" => sh1 = shrunk) /\ (op = "sync" => todo \notin {<<>>, <<Sync>>})
        /\ op = "truncate" => sh1 = shrunk \cup {fil[f].id} /\ sv1[fil[f].id] = NotSaved /\ a.size <= fil[f].size
    OBVIOUS
  <2> HIDE DEF sv1, sh1
  <2>2. Intact(now, disk, win, sv1, sh1, fil, G, op, f, todo)
    BY ONLY <1>3, <1>5, <2>1, BeginIntact
  <2> QED BY <2>2 DEF sv1, sh1
<1>7. CASE todo # <<>>
  <2>1. call'.op = op /\ call'.f = f /\ call'.leaves = a /\ call'.todo = todo
    BY <1>1, <1>7
  <2>2. op # "idle"
    BY DEF Runs
  <2>3. call' # Idle
    BY <2>1, <2>2 DEF Idle
  <2>4. Ready(now', disk', win', saved', shrunk', fil', call'.op, call'.f, call'.leaves, call'.todo)
    BY <1>1, <1>4, <1>6, <1>7, <2>1 DEF Ready
  <2> QED BY <2>3, <2>4 DEF SInv
<1>8. CASE todo = <<>>
  <2> DEFINE j == JobOf(op, f, a, fil, shrunk')
             H == j.then
             sg == j.sg
  <2>1. call' = Idle /\ fil' = H /\ op \notin {"sync", "rename"} /\ shrunk' = sg
    BY <1>1, <1>8 DEF JobOf
  <2>2. op # "rename" => Fine(now, G, shrunk')
    <3>1. CASE op = "truncate"
      <4>1. f \in Fils
        BY <1>5, <3>1 DEF Ahead
      <4>2. fil' = G
        BY <1>1, <1>4, <1>8, <3>1, <4>1 DEF JobOf
      <4>3. Inv' /\ call' = Idle /\ ~ hurt'
        BY <1>1, <1>8, <3>1
      <4>4. Fine(now, fil, shrunk)'
        BY <4>3 DEF Inv, IdleFine, BusyFine, Ops, Idle
      <4> QED BY <1>1, <4>2, <4>4
    <3>2. CASE op # "truncate"
      BY <1>2, <1>4, <3>2 DEF JobOf
    <3> QED BY <3>1, <3>2
  <2>3. Intact(now, disk, win, saved', sg, H, H, "idle", "none", <<>>)
    <3> DEFINE sv == saved'
               sh == shrunk'
    <3>1. /\ j = JobOf(op, f, a, fil, sh) /\ H = j.then /\ sg = j.sg /\ sv \in [Ids -> Int]
          /\ Runs(now, sv, fil, op, f, a, <<>>) /\ Intact(now, disk, win, sv, sh, fil, G, op, f, <<>>)
          /\ (op = "sync" => sv = [sv EXCEPT ![fil[f].id] = fil[f].size])
          /\ (op # "sync" => sv = sv) /\ (op # "rename" => Fine(now, G, sh))
          /\ (op \in {"rename", "sync"} => win = NoSector)
      BY <1>6, <1>8, <2>1, <2>2
    <3> HIDE DEF sv, sh, H, sg, j
    <3>2. Intact(now, disk, win, sv, sg, H, H, "idle", "none", <<>>)
      BY ONLY <1>2, <1>5, <3>1, EndIs
    <3> QED BY <3>2 DEF sv
  <2> QED BY <1>1, <2>1, <2>3 DEF SInv
<1> QED BY <1>7, <1>8
-----------------------------------------------------------------------------
(* f_open *)

\* What the calls begin with.
LEMMA BeginIs ==
    ASSUME Inv, SInv, ~ hurt, call = Idle
    PROVE  /\ Fine(now, fil, shrunk) /\ now \in Volumes /\ saved \in [Ids -> Int]
           /\ fil \in [Fils -> FilRecs] /\ IsTable(now, 0)
           /\ Intact(now, disk, win, saved, shrunk, fil, fil, "idle", "none", <<>>)
           /\ EntriesFull(now, CutPlaces(fil, shrunk)) /\ FilsFull(now, fil, fil)
<1>1. Cut("idle", "none", fil, shrunk, <<>>) = shrunk
  BY DEF Cut
<1> QED BY <1>1, IdleIs DEF Inv, SInv, Intact

\* f_open that creates a file.
LEMMA CreateKeeps ==
    ASSUME Inv, SInv, ~ hurt, call = Idle, NEW f \in Fils, NEW id \in Ids \ Known, NEW t \in Reach(now),
           NEW name \in Names, Create(f, t, name, id)
    PROVE  SInv'
<1> DEFINE n == File(name, id, 0, 0)
           s == Room(t)
           o == NewFil(n, t, s, TRUE)
           todo == <<SetEntry(t, s, n)>>
<1>0. Fine(now, fil, shrunk) /\ saved \in [Ids -> Int]
  BY BeginIs
<1>1. ~ fil[f].open /\ s # 0 /\ shrunk' = shrunk /\ saved' = saved /\ Begin("open", f, o, todo)
  BY DEF Create
<1>2. t \in Tables /\ s \in 1 .. Slots /\ <<t, s>> \notin All(now)
  BY <1>0, <1>1, RoomEnter
<1>3. n \in Entries /\ ~ n.dir /\ n.size = 0
  BY NewEntries
<1>4. o.open /\ o.size = 0 /\ o.dirty = 0
  BY <1>3 DEF NewFil
<1>5. todo # <<>> /\ Head(todo) = SetEntry(t, s, n) /\ Tail(todo) = <<>> /\ <<>> \in Seq(Frees)
  OBVIOUS
<1> HIDE DEF n, s, o, todo
<1>6. EntryRuns(now, saved', todo)
  BY <1>2, <1>3, <1>5 DEF EntryRuns
<1>7. Runs(now, saved', fil, "open", f, o, todo)
  BY <1>1, <1>4, <1>6 DEF Runs
<1>8. \A x \in Ids : saved'[x] \in {saved[x], NotSaved}
  BY <1>1
<1> QED BY <1>0, <1>1, <1>7, <1>8, BeginReady

\* f_open that empties a file.
LEMMA OverwriteKeeps ==
    ASSUME Inv, SInv, ~ hurt, call = Idle, NEW f \in Fils, NEW p \in Places(now), Overwrite(f, p[1], p[2])
    PROVE  SInv'
<1> DEFINE e == At(now, p)
           t == p[1]
           s == p[2]
           n == File(e.name, e.id, 0, 0)
           o == NewFil(n, t, s, TRUE)
           r == Chain(now, e.clst)
           end == <<Move(TableSector(t))>>
           todo == <<SetEntry(t, s, n)>> \o FreeAll(r) \o end
           rest == FreeAll(r) \o end
<1>0. Fine(now, fil, shrunk) /\ IsTable(now, 0) /\ saved \in [Ids -> Int] /\ now \in Volumes
  BY BeginIs
<1>1. At(now, p) = Entry(now, p[1], p[2])
  BY DEF At
<1>2. /\ ~ fil[f].open /\ ~ e.dir /\ Unheld(now, fil, p) /\ shrunk' = shrunk
      /\ saved' = [saved EXCEPT ![e.id] = NotSaved] /\ Begin("open", f, o, todo)
  BY <1>1 DEF Overwrite, InUse, Open, Unheld
<1>3. /\ p \in All(now) /\ t \in Tables /\ s \in 1 .. Slots /\ p = <<t, s>> /\ e \in Entries /\ e # Unused
  BY <1>0, PlaceIs, AllTyped
<1>4. e.id \in Ids /\ e.name \in Names /\ e \in FileEntries /\ e.size \in Nat
  BY <1>2, <1>3, EntryTyped
<1>5. n \in Entries /\ ~ n.dir /\ n.size = 0
  BY <1>4, NewEntries
<1>6. o.open /\ o.size = 0 /\ o.dirty = 0
  BY <1>5 DEF NewFil
<1>7. Chained(now, e.clst) /\ Len(r) >= e.size
  BY <1>0, <1>2, <1>3, UnheldIs
<1>8. r \in Seq(Clusters) /\ (r = <<>> => e.clst = 0 /\ e.size = 0)
  <2>1. r \in Seq(Clusters) /\ Len(r) \in Nat /\ (e.clst # 0 => Len(r) >= 1)
    BY <1>7, ChainTyped
  <2>2. r = <<>> => Len(r) = 0
    OBVIOUS
  <2> QED BY <1>4, <1>7, <2>1, <2>2
<1>9. e.clst = 0 /\ e.size = 0 => n = e
  BY <1>4 DEF File, FileEntries
<1>10. end \in Seq(Frees)
  BY <1>3 DEF Frees
<1>11. FreeAll(r) \in Seq(Frees)
  <2>1. FreeAll(r) \in Seq({SetFat(c, 0) : c \in Clusters})
    BY <1>8, FreesIs
  <2> QED BY <2>1 DEF Frees
<1> HIDE DEF n, o, e, r, s, t, end
<1>12. todo = <<SetEntry(t, s, n)>> \o rest /\ rest \in Seq(Frees)
  BY <1>10, <1>11, ConsOn
<1> HIDE DEF todo
<1>13. r # <<>> => Flushes(rest)
  <2> SUFFICES ASSUME r # <<>>  PROVE Flushes(rest)
    OBVIOUS
  <2>1. rest # <<>> /\ Head(rest) = SetFat(r[1], 0)
    BY <1>8, <1>10, FreeAllOn
  <2> QED BY <2>1 DEF Flushes, FlushesBy, SetFat
<1> HIDE DEF rest
<1>14. todo # <<>> /\ Head(todo) = SetEntry(t, s, n) /\ Tail(todo) = rest
  BY <1>12, ConsIs
<1>15. saved'[e.id] = NotSaved /\ saved' \in [Ids -> Int] /\ \A x \in Ids : saved'[x] \in {saved[x], NotSaved}
  BY <1>0, <1>2, <1>4 DEF NotSaved
<1>16. EntryRuns(now, saved', todo)
  <2>1. At(now, <<t, s>>) = e
    BY <1>3 DEF e
  <2>2. (e = n \/ Flushes(rest)) /\ saved'[e.id] = NotSaved
    BY <1>8, <1>9, <1>13, <1>15
  <2> QED BY <1>3, <1>5, <1>12, <1>14, <2>1, <2>2 DEF EntryRuns
<1>17. Runs(now, saved', fil, "open", f, o, todo)
  BY <1>2, <1>6, <1>16 DEF Runs
<1> QED BY <1>2, <1>15, <1>17, BeginReady
-----------------------------------------------------------------------------

\* A call that changes no more than its file object.
LEMMA ObjectKeeps ==
    ASSUME Inv, SInv, ~ hurt, call = Idle, NEW op, NEW f \in Fils, NEW a, Begin(op, f, a, <<>>),
           saved' = saved, shrunk' = shrunk, NEW H, H = [fil EXCEPT ![f] = a],
           EntriesFull(now, CutPlaces(H, shrunk)),
           a.open => \E s \in Seq(Clusters) : FilFull(now, a, a, s)
    PROVE  SInv'
<1>1. /\ now' = now /\ disk' = disk /\ win' = win /\ hurt' = hurt /\ call' = Idle /\ fil' = H
  BY DEF Begin, Rest
<1>2. /\ fil \in [Fils -> FilRecs] /\ saved \in [Ids -> Int] /\ FilsFull(now, fil, fil)
      /\ Intact(now, disk, win, saved, shrunk, fil, fil, "idle", "none", <<>>)
  BY BeginIs
<1>3. Cut("idle", "none", fil, shrunk, <<>>) = shrunk /\ Cut("idle", "none", H, shrunk, <<>>) = shrunk
  BY DEF Cut
<1>4. FilsFull(now, H, H)
  <2> SUFFICES ASSUME NEW g \in Fils, H[g].open
               PROVE  \E s \in Seq(Clusters) : FilFull(now, H[g], H[g], s)
    BY DEF FilsFull
  <2>1. H[g] = IF g = f THEN a ELSE fil[g]
    BY <1>2
  <2> QED BY <1>2, <2>1 DEF FilsFull
<1>5. Intact(now, disk, win, saved, shrunk, H, H, "idle", "none", <<>>)
  BY <1>2, <1>3, <1>4 DEF Intact
<1> QED BY <1>1, <1>2, <1>5 DEF SInv

\* f_open of a file that is there.
LEMMA OpenKeeps ==
    ASSUME Inv, SInv, ~ hurt, call = Idle, NEW f \in Fils, NEW p \in Places(now), OpenExisting(f, p[1], p[2])
    PROVE  SInv'
<1> DEFINE e == At(now, p)
           o == NewFil(e, p[1], p[2], FALSE)
           H == [fil EXCEPT ![f] = o]
<1>0. /\ Fine(now, fil, shrunk) /\ now \in Volumes /\ fil \in [Fils -> FilRecs] /\ IsTable(now, 0)
      /\ EntriesFull(now, CutPlaces(fil, shrunk))
  BY BeginIs
<1>1. At(now, p) = Entry(now, p[1], p[2])
  BY DEF At
<1>2. /\ ~ fil[f].open /\ ~ e.dir /\ Unheld(now, fil, p) /\ shrunk' = shrunk /\ saved' = saved
      /\ Begin("open", f, o, <<>>)
  BY <1>1 DEF OpenExisting, InUse, Open, Unheld
<1>3. p \in All(now)
  BY <1>0, PlaceIs
<1>4. p \notin CutPlaces(fil, shrunk)
  <2> SUFFICES ASSUME NEW g \in Fils, fil[g].open, Place(fil[g]) = p  PROVE FALSE
    BY DEF CutPlaces
  <2>1. Holders(fil, p) = {}
    BY <1>0, <1>2, <1>3, UnheldIs
  <2> QED BY <2>1 DEF Holders
<1>5. PICK s \in Seq(Clusters) : Parts(now, e.id, e.clst, e.size, 0, 0, s)
  BY <1>0, <1>2, <1>3, <1>4 DEF EntriesFull, Full
<1>6. FilFull(now, o, o, s)
  BY <1>5 DEF FilFull, NewFil
<1>7. CutPlaces(fil, shrunk) \subseteq CutPlaces(H, shrunk)
  <2> SUFFICES ASSUME NEW g \in Fils, fil[g].open
               PROVE  H[g] = fil[g]
    BY DEF CutPlaces
  <2>1. g # f
    BY <1>2
  <2> QED BY <1>0, <2>1
<1>8. EntriesFull(now, CutPlaces(H, shrunk))
  BY <1>0, <1>7 DEF EntriesFull
<1> HIDE DEF o
<1> QED BY <1>2, <1>6, <1>8, ObjectKeeps

\* f_close of a file that is not changed.
LEMMA CloseKeeps ==
    ASSUME Inv, SInv, ~ hurt, call = Idle, NEW f \in Fils, fil[f].open, ~ fil[f].mod,
           Begin("sync", f, Closed, <<>>), saved' = saved, shrunk' = shrunk
    PROVE  SInv'
<1> DEFINE o == fil[f]
           H == [fil EXCEPT ![f] = Closed]
           q == Place(o)
<1>0. /\ Fine(now, fil, shrunk) /\ now \in Volumes /\ fil \in [Fils -> FilRecs]
      /\ EntriesFull(now, CutPlaces(fil, shrunk)) /\ FilsFull(now, fil, fil)
  BY BeginIs
<1>1. FilFits(now, o, shrunk)
  BY <1>0, OpenFile
<1>2. /\ o.dirty = 0 /\ At(now, q).id = o.id /\ At(now, q).clst = o.clst /\ At(now, q).size = o.size
  BY <1>1 DEF FilFits
<1>3. PICK s \in Seq(Clusters) : FilFull(now, o, o, s)
  BY <1>0 DEF FilsFull
<1>4. Parts(now, o.id, o.clst, o.size, 0, 0, s)
  <2>1. Parts(now, o.id, o.clst, o.size, o.dirty, o.part, s)
    BY <1>3 DEF FilFull
  <2> QED BY <1>2, <2>1, PartsWritten
<1>5. EntriesFull(now, CutPlaces(H, shrunk))
  <2> SUFFICES ASSUME NEW p \in All(now), ~ At(now, p).dir, p \notin CutPlaces(H, shrunk)
               PROVE  Full(now, At(now, p).id, At(now, p).clst, At(now, p).size)
    BY DEF EntriesFull
  <2>1. CASE p = q
    <3>1. Full(now, o.id, o.clst, o.size)
      BY <1>4 DEF Full
    <3> QED BY <1>2, <2>1, <3>1
  <2>2. CASE p # q
    <3>1. p \notin CutPlaces(fil, shrunk)
      <4> SUFFICES ASSUME NEW g \in Fils, fil[g].open, fil[g].id \in shrunk, Place(fil[g]) = p  PROVE FALSE
        BY DEF CutPlaces
      <4>1. g # f
        BY <2>2
      <4>2. H[g] = fil[g]
        BY <1>0, <4>1
      <4> QED BY <4>2 DEF CutPlaces
    <3> QED BY <1>0, <3>1 DEF EntriesFull
  <2> QED BY <2>1, <2>2
<1>6. ~ Closed.open
  BY DEF Closed
<1> QED BY <1>5, <1>6, ObjectKeeps
-----------------------------------------------------------------------------
(* f_sync and f_close *)

\* f_sync, and f_close, of a file that is changed.
LEMMA SyncBegins ==
    ASSUME NEW v, NEW o \in OpenFils, NEW a \in {Synced(o), Closed}, NEW n, n = SyncEntry(At(v, Place(o)), o),
           NEW todo, todo = WriteBuffer(o) \o <<SetEntry(o.t, o.s, n), Sync>>
    PROVE  SyncRuns(v, o, a, todo) /\ todo \notin {<<>>, <<Sync>>}
<1> DEFINE x == SetEntry(o.t, o.s, n)
           u == <<x, Sync>>
           S == {x, Sync}
<1>1. u \in Seq(S) /\ u # <<>> /\ Head(u) = x /\ Tail(u) = <<Sync>> /\ Len(u) = 2
  OBVIOUS
<1>2. x # Sync /\ Buffer(o) # Sync
  BY DEF SetEntry, Sync, Buffer, Put
<1>3. SetRuns(v, o, u)
  BY <1>1 DEF SetRuns
<1> HIDE DEF x, S
<1>4. Head(<<Sync>>) = Sync
  OBVIOUS
<1> HIDE DEF u
<1>5. CASE o.dirty = 0
  <2>1. todo = u
    <3>1. WriteBuffer(o) = <<>>
      BY <1>5, WriteBufferIs
    <3>2. <<>> \o u = u
      BY <1>1
    <3> QED BY <3>1, <3>2 DEF u, x
  <2>2. todo \notin {<<>>, <<Sync>>}
    BY <1>1, <1>2, <1>4, <2>1
  <2> QED BY <1>3, <1>5, <2>1, <2>2 DEF SyncRuns
<1>6. CASE o.dirty # 0
  <2>1. todo = <<Buffer(o)>> \o u
    BY <1>6, WriteBufferIs DEF u, x
  <2>2. todo # <<>> /\ Head(todo) = Buffer(o) /\ Tail(todo) = u
    BY <1>1, <2>1, ConsIs
  <2>3. todo \notin {<<>>, <<Sync>>}
    BY <1>2, <1>4, <2>2
  <2> QED BY <1>3, <1>6, <2>2, <2>3 DEF SyncRuns
<1> QED BY <1>5, <1>6

\* f_sync, and f_close.
LEMMA SyncKeeps ==
    ASSUME Inv, SInv, ~ hurt, call = Idle, NEW f \in Fils, NEW close \in BOOLEAN, SyncFile(f, close)
    PROVE  SInv'
<1> DEFINE o == fil[f]
           a == IF close THEN Closed ELSE Synced(o)
           n == SyncEntry(At(now, Place(o)), o)
           todo == WriteBuffer(o) \o <<SetEntry(o.t, o.s, n), Sync>>
<1>0. Fine(now, fil, shrunk) /\ saved \in [Ids -> Int]
  BY BeginIs
<1>1. At(now, Place(o)) = Entry(now, o.t, o.s)
  BY DEF At, Place
<1>2. /\ o.open /\ (o.mod \/ close) /\ shrunk' = shrunk /\ saved' = saved
      /\ o.mod => Begin("sync", f, a, todo)
      /\ ~ o.mod => Begin("sync", f, a, <<>>)
  BY <1>1 DEF SyncFile, Synced, SyncEntry
<1>3. CASE ~ o.mod
  <2>1. a = Closed
    BY <1>2, <1>3
  <2> HIDE DEF a
  <2> QED BY <1>2, <1>3, <2>1, CloseKeeps
<1>4. CASE o.mod
  <2>1. o \in OpenFils /\ a \in {Synced(o), Closed}
    BY <1>0, <1>2, OpenFile
  <2>2. SyncRuns(now, o, a, todo) /\ todo \notin {<<>>, <<Sync>>}
    BY <2>1, SyncBegins
  <2> HIDE DEF a, todo
  <2>3. Runs(now, saved', fil, "sync", f, a, todo)
    BY <1>2, <2>2 DEF Runs
  <2>4. \A x \in Ids : saved'[x] \in {saved[x], NotSaved}
    BY <1>2
  <2> QED BY <1>0, <1>2, <1>4, <2>2, <2>3, <2>4, BeginReady
<1> QED BY <1>3, <1>4
-----------------------------------------------------------------------------
(* f_write *)

\* The clusters of an open file are the first of its chain.
LEMMA OpenParts ==
    ASSUME NEW v, NEW F, NEW sh, Fine(v, F, sh), FilsFull(v, F, F), NEW f \in Fils, F[f].open,
           NEW o, o = F[f], NEW h, h = Chain(v, o.clst)
    PROVE  /\ o \in OpenFils /\ o.size \in Nat /\ Chained(v, o.clst) /\ Len(h) \in Nat /\ Len(h) >= o.size
           /\ (o.dirty # 0 => o.part \in 1 .. o.size /\ o.dirty = h[o.part])
           /\ \E s \in Seq(Clusters) : FilFull(v, o, o, s) /\ \A i \in 1 .. o.size : s[i] = h[i]
<1>1. /\ o \in OpenFils /\ o.size \in Nat /\ Chained(v, o.clst) /\ Len(h) >= o.size
  BY OpenFile
<1>2. Len(h) \in Nat
  BY <1>1, ChainTyped
<1>3. PICK s \in Seq(Clusters) : FilFull(v, o, o, s)
  BY DEF FilsFull
<1>4. /\ Parts(v, o.id, o.clst, o.size, o.dirty, o.part, s)
      /\ (o.dirty # 0 => o.part \in 1 .. o.size /\ (o.part <= o.size => s[o.part] = o.dirty))
  BY <1>3 DEF FilFull
<1>5. \A i \in 1 .. o.size : s[i] = h[i]
  BY <1>1, <1>4, PartsInChain
<1>6. o.dirty # 0 => o.part \in 1 .. o.size /\ o.dirty = h[o.part]
  BY <1>1, <1>4, <1>5
<1> QED BY <1>1, <1>2, <1>3, <1>5, <1>6

\* f_write of what is in the buffer.
LEMMA RewriteKeeps ==
    ASSUME Inv, SInv, ~ hurt, call = Idle, NEW f \in Fils, fil[f].open, NEW o, o = fil[f],
           NEW h, h = Chain(now, o.clst), NEW k \in 1 .. Len(h), NEW c, c = h[k], o.dirty = c, c \in Clusters,
           NEW a, a = Wrote(o, c, k), Begin("write", f, a, <<>>), saved' = saved, shrunk' = shrunk
    PROVE  SInv'
<1> DEFINE H == [fil EXCEPT ![f] = a]
<1>0. /\ Fine(now, fil, shrunk) /\ now \in Volumes /\ fil \in [Fils -> FilRecs] /\ FilsFull(now, fil, fil)
      /\ EntriesFull(now, CutPlaces(fil, shrunk))
  BY BeginIs
<1>1. /\ o \in OpenFils /\ o.size \in Nat /\ Chained(now, o.clst) /\ Len(h) \in Nat /\ Len(h) >= o.size
      /\ (o.dirty # 0 => o.part \in 1 .. o.size /\ o.dirty = h[o.part])
  BY <1>0, OpenParts
<1>2. PICK s \in Seq(Clusters) : FilFull(now, o, o, s) /\ \A i \in 1 .. o.size : s[i] = h[i]
  BY <1>0, OpenParts
<1>3. o.part = k /\ k <= o.size /\ k \in Nat
  <2>1. c # 0
    BY Constants
  <2>2. Differ(h)
    BY <1>1, ChainTyped
  <2>3. o.part \in 1 .. Len(h) /\ h[o.part] = h[k]
    BY <1>1, <2>1
  <2>4. o.part = k
    BY <2>2, <2>3 DEF Differ
  <2> QED BY <1>1, <2>1, <2>4
<1>4. o.clst # 0
  <2>1. o.clst = 0 => Len(h) = 0
    BY ChainNone
  <2> QED BY <1>1, <2>1
<1>5. /\ a.open /\ a.id = o.id /\ Place(a) = Place(o) /\ a.dirty = c /\ a.clst = o.clst /\ a.size = o.size
      /\ a.part = k
  <2>1. /\ a.open /\ a.id = o.id /\ Place(a) = Place(o) /\ a.dirty = c
        /\ a.clst = (IF o.clst = 0 THEN c ELSE o.clst) /\ a.size = (IF k > o.size THEN k ELSE o.size)
    BY <1>1, <1>3, WroteIs
  <2>2. a.part = k
    BY <1>1 DEF Wrote, OpenFils
  <2> QED BY <1>1, <1>3, <1>4, <2>1, <2>2
<1>6. FilFull(now, a, a, s)
  BY <1>2, <1>3, <1>5 DEF FilFull
<1>7. CutPlaces(fil, shrunk) \subseteq CutPlaces(H, shrunk)
  <2> SUFFICES ASSUME NEW g \in Fils, fil[g].open, fil[g].id \in shrunk
               PROVE  H[g].open /\ H[g].id \in shrunk /\ Place(H[g]) = Place(fil[g])
    BY DEF CutPlaces
  <2>1. H[g] = IF g = f THEN a ELSE fil[g]
    BY <1>0
  <2> QED BY <1>5, <2>1
<1>8. EntriesFull(now, CutPlaces(H, shrunk))
  BY <1>0, <1>7 DEF EntriesFull
<1>9. \E u \in Seq(Clusters) : FilFull(now, a, a, u)
  BY <1>2, <1>6
<1>10. H = [fil EXCEPT ![f] = a]
  OBVIOUS
<1> HIDE DEF H
<1> QED BY <1>8, <1>9, <1>10, ObjectKeeps

\* f_write to a cluster the file has.
LEMMA OldBegins ==
    ASSUME NEW v, NEW F, NEW sh, Fine(v, F, sh), FilsFull(v, F, F), NEW f \in Fils, F[f].open,
           NEW o, o = F[f], NEW h, h = Chain(v, o.clst), NEW k \in 1 .. Len(h), k <= o.size + 1,
           NEW c \in Clusters, c = h[k], NEW a, a = Wrote(o, c, k)
    PROVE  WriteRuns(v, o, a, WriteBuffer(o))
<1>1. /\ o \in OpenFils /\ o.size \in Nat /\ Chained(v, o.clst) /\ Len(h) \in Nat /\ Len(h) >= o.size
  BY OpenParts
<1>2. PICK s \in Seq(Clusters) : FilFull(v, o, o, s) /\ \A i \in 1 .. o.size : s[i] = h[i]
  BY OpenParts
<1>3. k \in Nat /\ k >= 1 /\ k \in 1 .. o.size + 1
  BY <1>1
<1>4. o.clst # 0
  <2>1. o.clst = 0 => Len(h) = 0
    BY ChainNone
  <2> QED BY <1>1, <2>1
<1>5. v.fat[c] # 0
  <2>1. c \in Own(v, o.clst)
    BY <1>1, ChainTyped
  <2> QED BY <1>1, <2>1, ChainUsed
<1>6. k = 1 => o.clst = c
  BY <1>1, <1>4, ChainTyped
<1>7. k = o.size + 1 /\ k > 1 => v.fat[s[k - 1]] = c
  <2> SUFFICES ASSUME k = o.size + 1, k > 1  PROVE v.fat[s[k - 1]] = c
    OBVIOUS
  <2>1. k - 1 \in 1 .. Len(h) /\ k - 1 # Len(h) /\ k - 1 \in 1 .. o.size /\ (k - 1) + 1 = k
    BY <1>1, <1>3
  <2>2. v.fat[h[k - 1]] = h[k]
    BY <1>1, <1>4, <2>1, ChainLeads
  <2> QED BY <1>2, <2>1, <2>2
<1>8. Linked(v, o, c, k, s)
  <2>1. k <= o.size => s[k] = c
    BY <1>2, <1>3
  <2>2. k <= o.size \/ k = o.size + 1
    BY <1>1, <1>3
  <2>3. k = 1 \/ k > 1
    BY <1>3
  <2> QED BY <1>5, <1>6, <1>7, <2>1, <2>2, <2>3 DEF Linked
<1>9. a.dirty = c /\ a.part = k
  BY <1>1 DEF Wrote, OpenFils
<1>10. BufferRuns(v, o, WriteBuffer(o))
  BY DEF BufferRuns
<1> QED BY <1>2, <1>3, <1>8, <1>9, <1>10 DEF WriteRuns

\* f_write to a cluster c it gets.
Extends(v, F, sh, f, o, h, k, c, a, todo) ==
    /\ Fine(v, F, sh) /\ FilsFull(v, F, F) /\ f \in Fils /\ F[f].open
    /\ o = F[f] /\ h = Chain(v, o.clst) /\ k = Len(h) + 1 /\ k <= o.size + 1
    /\ c \in Clusters /\ v.fat[c] = 0 /\ a = Wrote(o, c, k)
    /\ k = 1 => todo = <<SetFat(c, EOC)>> \o <<>> \o WriteBuffer(o)
    /\ k # 1 => todo = <<SetFat(c, EOC)>> \o <<SetFat(h[k - 1], c)>> \o WriteBuffer(o)

\* Its changes.
LEMMA NewBegins ==
    ASSUME NEW v, NEW F, NEW sh, NEW f, NEW o, NEW h, NEW k, NEW c, NEW a, NEW todo,
           Extends(v, F, sh, f, o, h, k, c, a, todo)
    PROVE  WriteRuns(v, o, a, todo)
<1>0. /\ Fine(v, F, sh) /\ FilsFull(v, F, F) /\ f \in Fils /\ F[f].open
      /\ o = F[f] /\ h = Chain(v, o.clst) /\ k = Len(h) + 1 /\ k <= o.size + 1
      /\ c \in Clusters /\ v.fat[c] = 0 /\ a = Wrote(o, c, k)
      /\ (k = 1 => todo = <<SetFat(c, EOC)>> \o <<>> \o WriteBuffer(o))
      /\ (k # 1 => todo = <<SetFat(c, EOC)>> \o <<SetFat(h[k - 1], c)>> \o WriteBuffer(o))
  BY DEF Extends
<1>1. /\ o \in OpenFils /\ o.size \in Nat /\ Chained(v, o.clst) /\ Len(h) \in Nat /\ Len(h) >= o.size
  BY <1>0, OpenParts
<1>2. PICK s \in Seq(Clusters) : FilFull(v, o, o, s) /\ \A i \in 1 .. o.size : s[i] = h[i]
  BY <1>0, OpenParts
<1>3. k = o.size + 1 /\ Len(h) = o.size /\ k \in Nat /\ k >= 1 /\ k \in 1 .. o.size + 1
  BY <1>0, <1>1
<1>4. a.dirty = c /\ a.part = k
  BY <1>0, <1>1 DEF Wrote, OpenFils
<1> DEFINE b == WriteBuffer(o)
           x == SetFat(c, EOC)
           y == SetFat(h[k - 1], c)
<1>5. b \in Seq({Buffer(o)}) /\ BufferRuns(v, o, b)
  <2>1. BufferRuns(v, o, b)
    BY DEF BufferRuns
  <2>2. b = <<>> \/ b = <<Buffer(o)>>
    BY WriteBufferIs
  <2>3. \A z : <<>> \in Seq({z}) /\ <<z>> \in Seq({z})
    OBVIOUS
  <2> HIDE DEF b
  <2>4. b \in Seq({Buffer(o)})
    BY <2>2, <2>3
  <2> QED BY <2>1, <2>4
<1>6. /\ k = 1 => todo = <<x>> \o <<>> \o b
      /\ k # 1 => todo = <<x>> \o <<y>> \o b
      /\ x = SetFat(c, EOC)
  BY <1>0
<1> HIDE DEF b, x
<1>7. NewRuns(v, o, c, k, s, todo)
  <2>1. CASE k = 1
    <3>1. o.clst = 0 /\ o.size = 0
      <4>1. o.size = 0 /\ Len(h) = 0
        BY <1>1, <1>3, <2>1
      <4>2. o.clst # 0 => Len(h) >= 1
        BY <1>0, <1>1, ChainTyped
      <4> QED BY <4>1, <4>2
    <3>2. todo = <<x>> \o b
      <4>1. <<x>> \o <<>> = <<x>>
        OBVIOUS
      <4> QED BY <1>6, <2>1, <4>1
    <3>3. todo # <<>> /\ Head(todo) = x /\ Tail(todo) = b
      BY <1>5, <3>2, ConsIs
    <3> QED BY <1>0, <1>3, <1>5, <1>6, <2>1, <3>1, <3>3 DEF NewRuns
  <2>2. CASE k # 1
    <3>1. k > 1 /\ k - 1 \in 1 .. o.size /\ k - 1 \in 1 .. Len(h) /\ k - 1 = Len(h)
      BY <1>3, <2>2
    <3>2. o.clst # 0
      <4>1. o.clst = 0 => Len(h) = 0
        BY <1>0, ChainNone
      <4> QED BY <3>1, <4>1
    <3>3. v.fat[h[k - 1]] = EOC /\ s[k - 1] = h[k - 1]
      BY <1>0, <1>1, <1>2, <3>1, <3>2, ChainLeads
    <3>4. y = SetFat(s[k - 1], c)
      BY <3>3
    <3> HIDE DEF y
    <3>5. todo = <<x>> \o (<<y>> \o b)
      BY <1>5, <1>6, <2>2, ConsTwo
    <3>6. <<y>> \o b # <<>> /\ Head(<<y>> \o b) = y /\ Tail(<<y>> \o b) = b
      BY <1>5, ConsIs
    <3>7. <<y>> \o b \in Seq({Buffer(o), y})
      <4>1. b \in Seq({Buffer(o), y}) /\ <<y>> \in Seq({Buffer(o), y})
        BY <1>5
      <4> QED BY <4>1, ConcatProperties
    <3>8. todo # <<>> /\ Head(todo) = x /\ Tail(todo) = <<y>> \o b
      BY <3>5, <3>7, ConsIs
    <3> QED BY <1>0, <1>3, <1>5, <1>6, <3>1, <3>3, <3>4, <3>6, <3>8 DEF NewRuns
  <2> QED BY <2>1, <2>2
<1> QED BY <1>0, <1>2, <1>3, <1>4, <1>7 DEF WriteRuns

\* f_write.
LEMMA WriteKeeps ==
    ASSUME Inv, SInv, ~ hurt, call = Idle, NEW f \in Fils, NEW k \in 1 .. MaxSize, NEW c \in Clusters,
           Write(f, k, c)
    PROVE  SInv'
<1> DEFINE o == fil[f]
           h == Chain(now, o.clst)
           a == Wrote(o, c, k)
           new == k > Len(h)
           link == IF ~new THEN <<>>
                   ELSE <<SetFat(c, EOC)>> \o (IF k = 1 THEN <<>> ELSE <<SetFat(h[k - 1], c)>>)
           todo == link \o WriteBuffer(o)
<1>0. /\ Fine(now, fil, shrunk) /\ now \in Volumes /\ saved \in [Ids -> Int] /\ FilsFull(now, fil, fil)
  BY BeginIs
<1>1. /\ o.open /\ k \in 1 .. o.size + 1 /\ (IF new THEN c \in FreeSet ELSE c = h[k])
      /\ (o.dirty = c => Begin("write", f, a, <<>>)) /\ (o.dirty # c => Begin("write", f, a, todo))
      /\ shrunk' = shrunk /\ saved' = saved
  BY DEF Write, Wrote
<1>2. /\ o \in OpenFils /\ o.size \in Nat /\ Chained(now, o.clst) /\ Len(h) \in Nat /\ Len(h) >= o.size
      /\ (o.dirty # 0 => o.part \in 1 .. o.size /\ o.dirty = h[o.part])
  BY <1>0, <1>1, OpenParts
<1>3. k \in Nat /\ k >= 1 /\ k <= o.size + 1
  BY <1>1, <1>2
<1>4. CASE ~ new /\ o.dirty = c
  <2>1. k \in 1 .. Len(h) /\ c = h[k] /\ Begin("write", f, a, <<>>)
    BY <1>1, <1>2, <1>3, <1>4
  <2> DEFINE oo == o
             aa == a
             hh == h
  <2>2. /\ oo = fil[f] /\ oo.open /\ hh = Chain(now, oo.clst) /\ k \in 1 .. Len(hh) /\ c = hh[k] /\ oo.dirty = c
        /\ aa = Wrote(oo, c, k) /\ Begin("write", f, aa, <<>>)
    BY <1>1, <1>4, <2>1
  <2> HIDE DEF oo, aa, hh
  <2> QED BY <1>1, <2>2, RewriteKeeps
<1>5. CASE new \/ o.dirty # c
  <2>1. Begin("write", f, a, todo)
    <3>1. new => o.dirty # c
      <4> SUFFICES ASSUME new, o.dirty = c  PROVE FALSE
        OBVIOUS
      <4>1. now.fat[c] = 0 /\ c # 0
        BY <1>1, Constants DEF FreeSet
      <4>2. c \in Own(now, o.clst)
        BY <1>2, <4>1, ChainTyped
      <4> QED BY <1>2, <4>1, <4>2, ChainUsed
    <3> QED BY <1>1, <1>5, <3>1
  <2>2. WriteRuns(now, o, a, todo)
    <3>1. CASE ~ new
      <4>1. todo = WriteBuffer(o)
        <5>1. WriteBuffer(o) = <<>> \/ WriteBuffer(o) = <<Buffer(o)>>
          BY WriteBufferIs
        <5>2. \A x : <<>> \o <<x>> = <<x>> /\ <<>> \o <<>> = <<>>
          OBVIOUS
        <5> HIDE DEF o
        <5> QED BY <3>1, <5>1, <5>2
      <4>2. k \in 1 .. Len(h) /\ c = h[k]
        BY <1>1, <1>2, <1>3, <3>1
      <4>3. WriteRuns(now, o, a, WriteBuffer(o))
        BY <1>0, <1>1, <1>3, <4>2, OldBegins
      <4> QED BY <4>1, <4>3
    <3>2. CASE new
      <4>1. now.fat[c] = 0
        BY <1>1, <3>2 DEF FreeSet
      <4>2. k = Len(h) + 1
        BY <1>2, <1>3, <3>2
      <4>3. /\ k = 1 => todo = <<SetFat(c, EOC)>> \o <<>> \o WriteBuffer(o)
            /\ k # 1 => todo = <<SetFat(c, EOC)>> \o <<SetFat(h[k - 1], c)>> \o WriteBuffer(o)
        BY <3>2
      <4>4. Extends(now, fil, shrunk, f, o, h, k, c, a, todo)
        BY <1>0, <1>1, <1>3, <4>1, <4>2, <4>3 DEF Extends
      <4> HIDE DEF o, h, a, todo
      <4> QED BY <4>4, NewBegins
    <3> QED BY <3>1, <3>2
  <2> HIDE DEF a, todo
  <2>3. Runs(now, saved', fil, "write", f, a, todo)
    BY <1>1, <2>2 DEF Runs
  <2>4. \A x \in Ids : saved'[x] \in {saved[x], NotSaved}
    BY <1>1
  <2> QED BY <1>0, <1>1, <2>1, <2>3, <2>4, BeginReady
<1> QED BY <1>4, <1>5
-----------------------------------------------------------------------------
(* f_truncate *)

\* An open file of the clusters h is cut after k clusters, and the rest r is freed.
Shrinks(v, F, sh, f, o, h, k, r, a, todo) ==
    /\ Fine(v, F, sh) /\ FilsFull(v, F, F) /\ f \in Fils /\ F[f].open
    /\ o = F[f] /\ h = Chain(v, o.clst) /\ k \in Nat /\ k < o.size
    /\ r = SubSeq(h, k + 1, Len(h)) /\ a = CutTo(o, k)
    /\ k = 0 => todo = <<>> \o FreeAll(r) \o WriteBuffer(o)
    /\ k # 0 => todo = <<SetFat(h[k], EOC)>> \o FreeAll(r) \o WriteBuffer(o)

\* Its changes.
LEMMA CutBegins ==
    ASSUME NEW v, NEW F, NEW sh, NEW f, NEW o, NEW h, NEW k, NEW r, NEW a, NEW todo,
           Shrinks(v, F, sh, f, o, h, k, r, a, todo)
    PROVE  TruncateRuns(v, o, a, todo)
<1>0. /\ Fine(v, F, sh) /\ FilsFull(v, F, F) /\ f \in Fils /\ F[f].open
      /\ o = F[f] /\ h = Chain(v, o.clst) /\ k \in Nat /\ k < o.size
      /\ r = SubSeq(h, k + 1, Len(h)) /\ a = CutTo(o, k)
      /\ (k = 0 => todo = <<>> \o FreeAll(r) \o WriteBuffer(o))
      /\ (k # 0 => todo = <<SetFat(h[k], EOC)>> \o FreeAll(r) \o WriteBuffer(o))
  BY DEF Shrinks
<1>1. /\ o \in OpenFils /\ o.size \in Nat /\ Chained(v, o.clst) /\ Len(h) \in Nat /\ Len(h) >= o.size
      /\ (o.dirty # 0 => o.part \in 1 .. o.size /\ o.dirty = h[o.part])
  BY <1>0, OpenParts
<1>2. a.size = k /\ (k # 0 => a.clst = o.clst)
  BY <1>0, <1>1, CutToIs
<1>3. r \in Seq(Clusters) /\ Len(r) = Len(h) - k /\ \A i \in 1 .. Len(r) : r[i] = h[k + i]
  <2>1. h \in Seq(Clusters)
    BY <1>0, <1>1, ChainTyped
  <2> QED BY <1>0, <1>1, <2>1, RestIs
<1>4. o.dirty # 0 /\ o.part > k => o.dirty \in Range(r)
  <2> SUFFICES ASSUME o.dirty # 0, o.part > k  PROVE o.dirty \in Range(r)
    OBVIOUS
  <2> DEFINE i == o.part - k
  <2>1. i \in 1 .. Len(r) /\ k + i = o.part
    <3>1. /\ k \in Nat /\ o.size \in Nat /\ Len(h) \in Nat /\ Len(h) >= o.size
          /\ Len(r) = Len(h) - k
      BY <1>0, <1>1, <1>3
    <3>2. o.part \in 1 .. o.size /\ o.part > k
      BY <1>1
    <3> QED BY ONLY <3>1, <3>2 DEF i
  <2>2. r[i] = o.dirty
    BY <1>1, <1>3, <2>1
  <2>3. DOMAIN r = 1 .. Len(r)
    BY <1>3
  <2> HIDE DEF i
  <2> QED BY <2>1, <2>2, <2>3 DEF Range
<1> DEFINE b == WriteBuffer(o)
           x == SetFat(h[k], EOC)
           S == {SetFat(c, 0) : c \in Clusters} \cup {Buffer(o)}
<1>5. b \in Seq(S) /\ FreeAll(r) \in Seq(S)
  <2>1. b = <<>> \/ b = <<Buffer(o)>>
    BY WriteBufferIs
  <2>2. \A z : z \in S => <<>> \in Seq(S) /\ <<z>> \in Seq(S)
    OBVIOUS
  <2>3. Buffer(o) \in S
    OBVIOUS
  <2>4. FreeAll(r) \in Seq({SetFat(c, 0) : c \in Clusters})
    BY <1>3, FreesIs
  <2>5. FreeAll(r) \in Seq(S)
    BY <2>4
  <2> HIDE DEF b, S
  <2> QED BY <2>1, <2>2, <2>3, <2>5
<1>6. /\ k = 0 => todo = <<>> \o FreeAll(r) \o b
      /\ k # 0 => todo = <<x>> \o FreeAll(r) \o b
  BY <1>0
<1>7. FreeRuns(v, o, a, FreeAll(r) \o b)
  BY <1>2, <1>3, <1>4 DEF FreeRuns
<1> HIDE DEF b, S
<1>8. CASE k = 0
  <2>1. <<>> \o FreeAll(r) = FreeAll(r)
    BY <1>5
  <2> QED BY <1>0, <1>2, <1>6, <1>7, <1>8, <2>1 DEF TruncateRuns
<1>9. CASE k # 0
  <2>1. x = SetFat(Chain(v, a.clst)[a.size], EOC)
    BY <1>0, <1>2, <1>9
  <2> HIDE DEF x
  <2>2. todo = <<x>> \o (FreeAll(r) \o b) /\ FreeAll(r) \o b \in Seq(S)
    BY <1>5, <1>6, <1>9, ConsOn
  <2> DEFINE u == FreeAll(r) \o b
  <2>3. u \in Seq(S) /\ FreeRuns(v, o, a, u) /\ todo = <<x>> \o u
    BY <1>7, <2>2
  <2> HIDE DEF u
  <2>4. todo # <<>> /\ Head(todo) = x /\ Tail(todo) = u
    BY <2>3, ConsIs
  <2>5. a.size > 0
    BY <1>0, <1>2, <1>9
  <2> QED BY <1>0, <1>2, <2>1, <2>3, <2>4, <2>5 DEF TruncateRuns
<1> QED BY <1>8, <1>9

\* f_truncate.
LEMMA TruncateKeeps ==
    ASSUME Inv, SInv, ~ hurt, call = Idle, NEW f \in Fils, NEW k \in 0 .. MaxSize, Truncate(f, k)
    PROVE  SInv'
<1> DEFINE o == fil[f]
           h == Chain(now, o.clst)
           r == SubSeq(h, k + 1, Len(h))
           a == CutTo(o, k)
           cut == IF k = 0 \/ r = <<>> THEN <<>> ELSE <<SetFat(h[k], EOC)>>
           todo == cut \o FreeAll(r) \o WriteBuffer(o)
<1>0. /\ Fine(now, fil, shrunk) /\ now \in Volumes /\ saved \in [Ids -> Int] /\ FilsFull(now, fil, fil)
  BY BeginIs
<1>1. /\ o.open /\ k < o.size /\ Begin("truncate", f, a, todo) /\ shrunk' = shrunk \cup {o.id}
      /\ saved' = [saved EXCEPT ![o.id] = NotSaved]
  BY DEF Truncate, CutTo
<1>2. Inv'
  BY TruncateInv
<1>3. /\ o \in OpenFils /\ o.size \in Nat /\ Chained(now, o.clst) /\ Len(h) \in Nat /\ Len(h) >= o.size
  BY <1>0, <1>1, OpenParts
<1>4. k \in Nat
  BY SizeAssumption
<1>5. o.id \in Ids /\ a.size = k
  <2>1. o.id \in Ids
    BY <1>3 DEF OpenFils
  <2>2. a.size = k
    BY <1>3, <1>4, CutToIs
  <2> QED BY <2>1, <2>2
<1>6. r # <<>>
  <2>1. h \in Seq(Clusters)
    BY <1>3, ChainTyped
  <2>2. Len(r) = Len(h) - k
    BY <1>1, <1>3, <1>4, <2>1, RestIs
  <2>3. Len(r) # 0
    BY <1>1, <1>3, <1>4, <2>2
  <2> HIDE DEF r
  <2> QED BY <2>3
<1>7. /\ k = 0 => todo = <<>> \o FreeAll(r) \o WriteBuffer(o)
      /\ k # 0 => todo = <<SetFat(h[k], EOC)>> \o FreeAll(r) \o WriteBuffer(o)
  BY <1>6
<1>8. Shrinks(now, fil, shrunk, f, o, h, k, r, a, todo)
  BY <1>0, <1>1, <1>4, <1>7 DEF Shrinks
<1> HIDE DEF a, todo, r, h
<1>9. TruncateRuns(now, o, a, todo)
  BY <1>8, CutBegins
<1>10. Runs(now, saved', fil, "truncate", f, a, todo)
  BY <1>1, <1>9 DEF Runs
<1>11. saved'[o.id] = NotSaved /\ saved' \in [Ids -> Int] /\ \A x \in Ids : saved'[x] \in {saved[x], NotSaved}
  BY <1>0, <1>1, <1>5 DEF NotSaved
<1>12. a.size <= o.size
  BY <1>1, <1>3, <1>4, <1>5
<1> QED BY <1>1, <1>2, <1>10, <1>11, <1>12, BeginReady
-----------------------------------------------------------------------------
(* f_unlink *)

\* The clusters of a file or directory are to be freed.
LEMMA FreesBegin ==
    ASSUME NEW v, NEW c, Chained(v, c), NEW end, NEW b, end = <<b>>, b \in Frees, FlushesBy(b) \/ c # 0,
           NEW r, r = Chain(v, c), NEW rest, rest = FreeAll(r) \o end
    PROVE  rest \in Seq(Frees) /\ FreeAll(r) \in Seq(Frees) /\ end \in Seq(Frees) /\ Flushes(rest)
<1>1. r \in Seq(Clusters) /\ Len(r) \in Nat /\ (c # 0 => Len(r) >= 1)
  BY ChainTyped
<1>2. end \in Seq(Frees) /\ end # <<>> /\ Head(end) = b
  OBVIOUS
<1>3. FreeAll(r) \in Seq(Frees)
  <2>1. FreeAll(r) \in Seq({SetFat(x, 0) : x \in Clusters})
    BY <1>1, FreesIs
  <2> QED BY <2>1 DEF Frees
<1>4. rest \in Seq(Frees)
  BY <1>2, <1>3, ConcatProperties
<1>5. Flushes(rest)
  <2>1. CASE r # <<>>
    <3>1. rest # <<>> /\ Head(rest) = SetFat(r[1], 0)
      BY <1>1, <1>2, <2>1, FreeAllOn
    <3> QED BY <3>1 DEF Flushes, FlushesBy, SetFat
  <2>2. CASE r = <<>>
    <3>1. Len(r) = 0 /\ c = 0
      BY <1>1, <2>2
    <3>2. rest = end
      BY <1>2, <2>2, FreeAllNone
    <3> QED BY <1>2, <3>1, <3>2 DEF Flushes
  <2> QED BY <2>1, <2>2
<1> QED BY <1>2, <1>3, <1>4, <1>5

\* f_unlink of a file that is not open, or of an empty directory.
LEMMA UnlinkKeeps ==
    ASSUME Inv, SInv, ~ hurt, call = Idle, NEW p \in Places(now), Unlink(p[1], p[2])
    PROVE  SInv'
<1> DEFINE e == At(now, p)
           t == p[1]
           s == p[2]
           r == Chain(now, e.clst)
           end == <<Sync>>
           rest == FreeAll(r) \o end
           todo == <<SetEntry(t, s, Unused)>> \o FreeAll(r) \o end
<1>0. Fine(now, fil, shrunk) /\ IsTable(now, 0) /\ saved \in [Ids -> Int] /\ now \in Volumes
  BY BeginIs
<1>1. At(now, p) = Entry(now, p[1], p[2])
  BY DEF At
<1>2. /\ IF e.dir THEN Used(now, e.clst) = {} ELSE Unheld(now, fil, p)
      /\ Begin("unlink", "none", Closed, todo) /\ shrunk' = shrunk
      /\ saved' = [id \in Ids |-> IF id = e.id THEN NotSaved ELSE saved[id]]
  BY <1>1 DEF Unlink, InUse, Open, Unheld, BeginVol
<1>3. /\ p \in All(now) /\ t \in Tables /\ s \in 1 .. Slots /\ p = <<t, s>> /\ e \in Entries /\ e # Unused
  BY <1>0, PlaceIs, AllTyped
<1>4. ~ e.dir => e.id \in Ids
  BY <1>3, EntryTyped
<1>5. Chained(now, e.clst)
  <2>1. CASE ~ e.dir
    BY <1>0, <1>2, <1>3, <2>1, UnheldIs
  <2>2. CASE e.dir
    <3>1. ObjectLaid(now, fil, p)
      BY <1>0, <1>3, FineParts
    <3>2. e.clst \in Clusters /\ now.fat[e.clst] = EOC
      BY <2>2, <3>1 DEF ObjectLaid, DirLaid
    <3> QED BY <3>2, ChainOne
  <2> QED BY <2>1, <2>2
<1>6. Sync \in Frees /\ FlushesBy(Sync)
  BY DEF Frees, FlushesBy
<1> HIDE DEF s, t, e
<1>7. rest \in Seq(Frees) /\ FreeAll(r) \in Seq(Frees) /\ end \in Seq(Frees) /\ Flushes(rest)
  BY <1>5, <1>6, FreesBegin
<1> HIDE DEF end, r
<1>8. todo = <<SetEntry(t, s, Unused)>> \o rest
  BY <1>7, ConsOn
<1> HIDE DEF rest, todo
<1>9. todo # <<>> /\ Head(todo) = SetEntry(t, s, Unused) /\ Tail(todo) = rest
  BY <1>7, <1>8, ConsIs
<1>10. saved' \in [Ids -> Int] /\ \A x \in Ids : saved'[x] \in {saved[x], NotSaved}
  BY <1>0, <1>2 DEF NotSaved
<1>11. e.dir \/ saved'[e.id] = NotSaved
  BY <1>2, <1>4
<1>12. EntryRuns(now, saved', todo)
  <2>1. At(now, <<t, s>>) = e
    BY <1>3 DEF e
  <2>2. Unused \in Entries
    BY DEF Entries
  <2> QED BY <1>3, <1>7, <1>9, <1>11, <2>1, <2>2 DEF EntryRuns
<1>13. Runs(now, saved', fil, "unlink", "none", Closed, todo)
  BY <1>12, SizeAssumption DEF Runs
<1> QED BY <1>2, <1>10, <1>13, BeginReady
-----------------------------------------------------------------------------
(* f_mkdir *)

\* Three changes before one, or before two.
LEMMA FourIs ==
    ASSUME NEW a, NEW b, NEW c, NEW d, NEW e
    PROVE  /\ <<a, b, c>> \o <<d>> = <<a, b, c, d>>
           /\ <<a, b, c>> \o <<d, e>> = <<a, b, c, d, e>>
<1> DEFINE T == {a, b, c, d, e}
           m == <<a, b, c>>
           x == <<d>>
           y == <<d, e>>
           u == <<a, b, c, d>>
           w == <<a, b, c, d, e>>
<1>1. m \in Seq(T) /\ Len(m) = 3 /\ m[1] = a /\ m[2] = b /\ m[3] = c
  OBVIOUS
<1>2. x \in Seq(T) /\ Len(x) = 1 /\ x[1] = d /\ y \in Seq(T) /\ Len(y) = 2 /\ y[1] = d /\ y[2] = e
  OBVIOUS
<1>3. u \in Seq(T) /\ Len(u) = 4 /\ u[1] = a /\ u[2] = b /\ u[3] = c /\ u[4] = d
  OBVIOUS
<1>4. w \in Seq(T) /\ Len(w) = 5 /\ w[1] = a /\ w[2] = b /\ w[3] = c /\ w[4] = d /\ w[5] = e
  OBVIOUS
<1> HIDE DEF T, m, x, y, u, w
<1>5. m \o x = u
  <2>1. /\ m \o x \in Seq(T) /\ Len(m \o x) = Len(m) + Len(x)
        /\ \A i \in 1 .. Len(m) + Len(x) : (m \o x)[i] = IF i <= Len(m) THEN m[i] ELSE x[i - Len(m)]
    BY <1>1, <1>2, ConcatProperties
  <2>2. \A i \in 1 .. 4 : i = 1 \/ i = 2 \/ i = 3 \/ i = 4
    OBVIOUS
  <2>3. Len(m \o x) = 4 /\ \A i \in 1 .. Len(u) : (m \o x)[i] = u[i]
    BY <1>1, <1>2, <1>3, <2>1, <2>2
  <2> QED BY <1>3, <2>1, <2>3, SeqEqual
<1>6. m \o y = w
  <2>1. /\ m \o y \in Seq(T) /\ Len(m \o y) = Len(m) + Len(y)
        /\ \A i \in 1 .. Len(m) + Len(y) : (m \o y)[i] = IF i <= Len(m) THEN m[i] ELSE y[i - Len(m)]
    BY <1>1, <1>2, ConcatProperties
  <2>2. \A i \in 1 .. 5 : i = 1 \/ i = 2 \/ i = 3 \/ i = 4 \/ i = 5
    OBVIOUS
  <2>3. Len(m \o y) = 5 /\ \A i \in 1 .. Len(w) : (m \o y)[i] = w[i]
    BY <1>1, <1>2, <1>4, <2>1, <2>2
  <2> QED BY <1>4, <2>1, <2>3, SeqEqual
<1> QED BY <1>5, <1>6 DEF m, x, y, u, w

\* f_mkdir.
LEMMA MakeDirKeeps ==
    ASSUME Inv, SInv, ~ hurt, call = Idle, NEW t \in Reach(now), NEW name \in Names, NEW c \in Clusters,
           MakeDir(t, name, c)
    PROVE  SInv'
<1> DEFINE n == Dir(name, c)
           u == IF Room(t) = 0 THEN <<SetFat(c, 0)>> ELSE <<SetEntry(t, Room(t), n), Sync>>
           todo == <<SetFat(c, EOC), Sync, Put(c, Table(t))>> \o u
<1>0. Fine(now, fil, shrunk) /\ now \in Volumes /\ saved \in [Ids -> Int] /\ IsTable(now, 0)
  BY BeginIs
<1>1. /\ now.fat[c] = 0 /\ shrunk' = shrunk /\ saved' = saved /\ Begin("mkdir", "none", Closed, todo)
  BY DEF MakeDir, BeginVol, FreeSet
<1>2. t \in Tables /\ ~ IsTable(now, c)
  <2>1. t \in Tables
    BY <1>0, ReachTables
  <2>2. NoFreeTable(now)
    BY <1>0, FineParts
  <2> QED BY <1>1, <2>1, <2>2 DEF NoFreeTable
<1>3. EntryRuns(now, saved, u)
  <2>1. CASE Room(t) = 0
    <3>1. SetFat(c, 0) \in Frees
      BY DEF Frees
    <3>2. \A z \in Frees : <<z>> \in Seq(Frees)
      OBVIOUS
    <3> QED BY <2>1, <3>1, <3>2 DEF EntryRuns
  <2>2. CASE Room(t) # 0
    <3>1. Room(t) \in 1 .. Slots /\ <<t, Room(t)>> \notin All(now)
      BY <1>0, <2>2, RoomEnter
    <3>2. n \in Entries /\ n.dir
      BY NewEntries
    <3>3. Sync \in Frees
      BY DEF Frees
    <3> DEFINE x == SetEntry(t, Room(t), n)
    <3>4. u = <<x, Sync>> /\ x = SetEntry(t, Room(t), n)
      BY <2>2
    <3> HIDE DEF x, n
    <3>5. u # <<>> /\ Head(u) = x /\ Tail(u) = <<Sync>>
      BY <3>4
    <3>6. \A z \in Frees : <<z>> \in Seq(Frees)
      OBVIOUS
    <3>7. Tail(u) \in Seq(Frees)
      BY <3>3, <3>5, <3>6
    <3> QED BY <1>2, <3>1, <3>2, <3>4, <3>5, <3>7 DEF EntryRuns
  <2> QED BY <2>1, <2>2
<1>4. /\ todo # <<>> /\ Head(todo) = SetFat(c, EOC)
      /\ Tail(todo) # <<>> /\ Head(Tail(todo)) = Sync
      /\ Tail(Tail(todo)) # <<>> /\ Head(Tail(Tail(todo))) = Put(c, Table(t)) /\ Tail(Tail(Tail(todo))) = u
  <2> DEFINE x == SetFat(c, EOC)
             y == Sync
             z == Put(c, Table(t))
             free == SetFat(c, 0)
             enter == SetEntry(t, Room(t), n)
  <2>1. todo = <<x, y, z>> \o u
    OBVIOUS
  <2>2. u = <<free>> \/ u = <<enter, y>>
    OBVIOUS
  <2> HIDE DEF u, x, y, z, todo, free, enter
  <2>3. \/ todo = <<x, y, z, free>> /\ u = <<free>>
        \/ todo = <<x, y, z, enter, y>> /\ u = <<enter, y>>
    <3>1. <<x, y, z>> \o <<free>> = <<x, y, z, free>>
      BY ONLY FourIs
    <3>2. <<x, y, z>> \o <<enter, y>> = <<x, y, z, enter, y>>
      BY ONLY FourIs
    <3> QED BY ONLY <2>1, <2>2, <3>1, <3>2
  <2>4. /\ todo # <<>> /\ Head(todo) = x
        /\ Tail(todo) # <<>> /\ Head(Tail(todo)) = y
        /\ Tail(Tail(todo)) # <<>> /\ Head(Tail(Tail(todo))) = z /\ Tail(Tail(Tail(todo))) = u
    <3>1. CASE todo = <<x, y, z, free>> /\ u = <<free>>
      BY ONLY <3>1
    <3>2. CASE todo = <<x, y, z, enter, y>> /\ u = <<enter, y>>
      BY ONLY <3>2
    <3> QED BY <2>3, <3>1, <3>2
  <2> QED BY <2>4 DEF x, y, z
<1> HIDE DEF todo, u
<1>5. TableRuns(now, saved, Tail(Tail(todo)))
  BY <1>2, <1>3, <1>4 DEF TableRuns
<1>6. SyncTable(now, saved, Tail(todo))
  BY <1>4, <1>5 DEF SyncTable
<1>7. MakeRuns(now, saved, todo)
  BY <1>1, <1>4, <1>6 DEF MakeRuns
<1>8. Runs(now, saved', fil, "mkdir", "none", Closed, todo)
  BY <1>1, <1>7, SizeAssumption DEF Runs
<1>9. \A x \in Ids : saved'[x] \in {saved[x], NotSaved}
  BY <1>1
<1> QED BY <1>0, <1>1, <1>8, <1>9, BeginReady
-----------------------------------------------------------------------------
(* f_rename *)

\* Its changes: the new entry, ".." if it is set, and the old entry.
Renaming(a, b, u, up, todo) ==
    /\ up = <<>> \/ up = <<u>>
    /\ todo = <<a>> \o up \o <<b, Sync>>

\* One after the other.
LEMMA RenameBegins ==
    ASSUME NEW a, NEW b, NEW u, NEW up, NEW todo, Renaming(a, b, u, up, todo)
    PROVE  /\ todo # <<>> /\ Head(todo) = a /\ Tail(todo) # <<>>
           /\ up = <<>> => Head(Tail(todo)) = b /\ Tail(Tail(todo)) = <<Sync>>
           /\ up = <<u>> => /\ Head(Tail(todo)) = u /\ Tail(Tail(todo)) # <<>>
                            /\ Head(Tail(Tail(todo))) = b /\ Tail(Tail(Tail(todo))) = <<Sync>>
<1> DEFINE S == {a, b, u, Sync}
           end == <<b, Sync>>
           y == <<u>> \o end
<1>1. end \in Seq(S) /\ end # <<>> /\ Head(end) = b /\ Tail(end) = <<Sync>>
  OBVIOUS
<1>2. <<u>> \in Seq(S) /\ <<a>> \in Seq(S) /\ <<>> \in Seq(S)
  OBVIOUS
<1>3. todo = <<a>> \o up \o end
  BY DEF Renaming
<1>4. <<u>> # <<>>
  OBVIOUS
<1> HIDE DEF S, end
<1>5. CASE up = <<>>
  <2>1. <<a>> \o <<>> = <<a>>
    OBVIOUS
  <2>2. todo = <<a>> \o end
    BY <1>3, <1>5, <2>1
  <2>3. todo # <<>> /\ Head(todo) = a /\ Tail(todo) = end
    BY <1>1, <2>2, ConsIs
  <2> QED BY <1>1, <1>4, <1>5, <2>3
<1>6. CASE up = <<u>>
  <2>1. y \in Seq(S)
    BY <1>1, <1>2, ConcatProperties
  <2>2. y # <<>> /\ Head(y) = u /\ Tail(y) = end
    BY <1>1, ConsIs
  <2>3. todo = <<a>> \o y
    <3>1. (<<a>> \o <<u>>) \o end = <<a>> \o (<<u>> \o end)
      BY <1>1, <1>2, ConcatAssociative
    <3> QED BY <1>3, <1>6, <3>1
  <2> HIDE DEF y
  <2>4. todo # <<>> /\ Head(todo) = a /\ Tail(todo) = y
    BY <2>1, <2>3, ConsIs
  <2> QED BY <1>1, <1>4, <1>6, <2>2, <2>4
<1>7. up = <<>> \/ up = <<u>>
  BY DEF Renaming
<1> QED BY <1>5, <1>6, <1>7

\* f_rename.
LEMMA RenameKeeps ==
    ASSUME Inv, SInv, ~ hurt, call = Idle, NEW p \in Places(now), NEW to \in Reach(now), NEW name \in Names,
           Rename(p[1], p[2], to, name)
    PROVE  SInv'
<1> DEFINE t == p[1]
           s == p[2]
           r == Room(to)
           q == <<to, r>>
           e == At(now, p)
           n == [e EXCEPT !.name = name]
           u == SetUp(e.clst, to)
           up == IF e.dir /\ to # t THEN <<u>> ELSE <<>>
           a == SetEntry(to, r, n)
           b == SetEntry(t, s, Unused)
           todo == <<a>> \o up \o <<b, Sync>>
           w == Changed(now, a)
<1>0. Fine(now, fil, shrunk) /\ now \in Volumes /\ IsTable(now, 0) /\ saved \in [Ids -> Int]
  BY BeginIs
<1>1. e = Entry(now, t, s)
  BY DEF At
<1>2. /\ ~ e.dir => Unheld(now, fil, p)
      /\ r # 0 /\ Begin("rename", "none", Closed, todo) /\ shrunk' = shrunk /\ saved' = saved
  BY <1>1 DEF Rename, InUse, Open, Unheld, BeginVol
<1>3. /\ p \in All(now) /\ t \in Tables /\ s \in 1 .. Slots /\ p = <<t, s>>
      /\ e \in Entries /\ e # Unused
  BY <1>0, PlaceIs, AllTyped
<1>4. /\ to \in Tables /\ IsTable(now, to) /\ r \in 1 .. Slots /\ q \notin All(now)
  BY <1>0, <1>2, RoomEnter
<1>5. /\ n \in Entries /\ n # Unused /\ n.dir = e.dir /\ n.clst = e.clst /\ n.size = e.size
  BY <1>3, RenamedIs
<1>6. n.id = e.id
  BY <1>3 DEF Entries, FileEntries, DirEntries
<1>7. \A f \in Fils : fil[f].open => Place(fil[f]) # p
  <2> SUFFICES ASSUME NEW f \in Fils, fil[f].open, Place(fil[f]) = p  PROVE FALSE
    OBVIOUS
  <2>1. CASE e.dir
    BY <1>0, <2>1, HeldEntry
  <2>2. CASE ~ e.dir
    <3>1. Holders(fil, p) = {}
      BY <1>0, <1>2, <1>3, <2>2, UnheldIs
    <3> QED BY <3>1 DEF Holders
  <2> QED BY <2>1, <2>2
<1>8. u = SetUp(e.clst, to) /\ (up = <<u>> => e.clst \in Tables)
  <2>1. e.dir => e.clst \in Clusters
    BY <1>3, EntryTyped
  <2>2. up = <<u>> => e.dir
    <3>1. <<>> # <<u>>
      OBVIOUS
    <3> QED BY <3>1
  <2> QED BY <2>1, <2>2, Constants
<1>c. up = <<>> \/ up = <<u>>
  OBVIOUS
<1>e. Renaming(a, b, u, up, todo)
  BY <1>c DEF Renaming
<1>d. a = SetEntry(q[1], q[2], n) /\ b = SetEntry(p[1], p[2], Unused) /\ w = Changed(now, a) /\ q[1] = to
      /\ e = At(now, p) /\ a = SetEntry(to, r, n)
  OBVIOUS
<1> HIDE DEF e, n, r, q, t, s, u, up
<1>9. q \in All(w) /\ At(w, q) = n /\ q \in Spots /\ p \in Spots
  <2>1. q = <<to, r>>
    BY DEF q
  <2>2. w = Changed(now, SetEntry(to, r, n))
    OBVIOUS
  <2> HIDE DEF w, a
  <2>3. q \in All(w) /\ At(w, q) = n
    BY ONLY <1>0, <1>4, <1>5, <2>1, <2>2, EntrySpots
  <2> QED BY <1>3, <2>3 DEF All
<1>10. p # q /\ q[1] \in Reach(now)
  BY <1>3, <1>4, <1>d
<1> HIDE DEF a, b, w, todo
<1>11. /\ todo # <<>> /\ Head(todo) = a /\ Tail(todo) # <<>>
       /\ up = <<>> => Head(Tail(todo)) = b /\ Tail(Tail(todo)) = <<Sync>>
       /\ up = <<u>> => /\ Head(Tail(todo)) = u /\ Tail(Tail(todo)) # <<>>
                        /\ Head(Tail(Tail(todo))) = b /\ Tail(Tail(Tail(todo))) = <<Sync>>
  BY ONLY <1>e, RenameBegins
<1>12. OldRuns(w, p, q, n, Tail(todo)) \/ UpRuns(w, p, q, n, Tail(todo))
  <2>1. CASE up = <<>>
    BY <1>9, <1>11, <1>d, <2>1 DEF OldRuns
  <2>2. CASE up = <<u>>
    <3>1. OldRuns(w, p, q, n, Tail(Tail(todo)))
      BY <1>9, <1>11, <1>d, <2>2 DEF OldRuns
    <3> QED BY <1>4, <1>8, <1>9, <1>11, <2>2, <3>1 DEF UpRuns
  <2> QED BY <1>c, <2>1, <2>2
<1>13. RenameRuns(now, fil, todo)
  BY <1>3, <1>4, <1>5, <1>6, <1>7, <1>9, <1>10, <1>11, <1>12, <1>d DEF RenameRuns
<1>14. Runs(now, saved', fil, "rename", "none", Closed, todo)
  BY <1>13, SizeAssumption DEF Runs
<1>15. \A x \in Ids : saved'[x] \in {saved[x], NotSaved}
  BY <1>2
<1> QED BY <1>0, <1>2, <1>11, <1>14, <1>15, BeginReady
-----------------------------------------------------------------------------
(* Every step *)

\* Every step keeps what is in the files.
LEMMA NextKeeps == Inv /\ SInv /\ [Next]_vars => SInv'
<1> SUFFICES ASSUME Inv, SInv, [Next]_vars  PROVE SInv'
  OBVIOUS
<1>1. CASE call = Idle /\ FileCalls /\ ~ hurt
  <2>1. PICK f \in Fils :
          \/ \E p \in Places(now) : OpenExisting(f, p[1], p[2]) \/ Overwrite(f, p[1], p[2])
          \/ \E id \in Ids \ Known, t \in Reach(now), name \in Names : Create(f, t, name, id)
          \/ \E k \in 1 .. MaxSize, c \in Clusters : Write(f, k, c)
          \/ \E k \in 0 .. MaxSize : Truncate(f, k)
          \/ \E close \in BOOLEAN : SyncFile(f, close)
    BY <1>1 DEF FileCalls
  <2>2. ASSUME NEW p \in Places(now), OpenExisting(f, p[1], p[2])  PROVE SInv'
    BY <1>1, <2>2, OpenKeeps
  <2>3. ASSUME NEW p \in Places(now), Overwrite(f, p[1], p[2])  PROVE SInv'
    BY <1>1, <2>3, OverwriteKeeps
  <2>4. ASSUME NEW id \in Ids \ Known, NEW t \in Reach(now), NEW name \in Names, Create(f, t, name, id)
        PROVE  SInv'
    BY <1>1, <2>4, CreateKeeps
  <2>5. ASSUME NEW k \in 1 .. MaxSize, NEW c \in Clusters, Write(f, k, c)  PROVE SInv'
    BY <1>1, <2>5, WriteKeeps
  <2>6. ASSUME NEW k \in 0 .. MaxSize, Truncate(f, k)  PROVE SInv'
    BY <1>1, <2>6, TruncateKeeps
  <2>7. ASSUME NEW close \in BOOLEAN, SyncFile(f, close)  PROVE SInv'
    BY <1>1, <2>7, SyncKeeps
  <2> QED BY <2>1, <2>2, <2>3, <2>4, <2>5, <2>6, <2>7
<1>2. CASE call = Idle /\ DirCalls /\ ~ hurt
  <2>1. ASSUME NEW p \in Places(now), Unlink(p[1], p[2])  PROVE SInv'
    BY <1>2, <2>1, UnlinkKeeps
  <2>2. ASSUME NEW t \in Reach(now), NEW name \in Names, NEW c \in Clusters, MakeDir(t, name, c)  PROVE SInv'
    BY <1>2, <2>2, MakeDirKeeps
  <2>3. ASSUME NEW p \in Places(now), NEW to \in Reach(now), NEW name \in Names, Rename(p[1], p[2], to, name)
        PROVE  SInv'
    BY <1>2, <2>3, RenameKeeps
  <2> QED BY <1>2, <2>1, <2>2, <2>3 DEF DirCalls
<1>3. CASE (FileCalls \/ DirCalls) /\ hurt
  BY <1>3, HurtStays DEF SInv
<1>4. CASE Look
  BY <1>4, LookKeeps
<1>5. CASE Step
  BY <1>5, StepKeeps
<1>6. CASE PowerCut
  BY <1>6, PowerCutKeeps
<1>7. CASE UNCHANGED vars
  <2>1. /\ now' = now /\ disk' = disk /\ win' = win /\ fil' = fil /\ call' = call
        /\ saved' = saved /\ shrunk' = shrunk /\ hurt' = hurt
    BY <1>7 DEF vars
  <2> QED BY <2>1 DEF SInv
<1> QED BY <1>1, <1>2, <1>3, <1>4, <1>5, <1>6, <1>7 DEF Next
-----------------------------------------------------------------------------
(* A chain that may not end *)

\* One step of Walk, and its first m steps.
Longer(v, u) == IF u[Len(u)] \in Clusters THEN Append(u, v.fat[u[Len(u)]]) ELSE u
Follows(v, c, m, w) == w = [i \in 0 .. m |-> IF i = 0 THEN <<c>> ELSE Longer(v, w[i - 1])]

\* There is a walk of any length.
LEMMA WalkThere ==
    ASSUME NEW v, NEW c, NEW m \in Nat
    PROVE  \E w : Follows(v, c, m, w)
<1> DEFINE Bad == {i \in Nat : ~ \E w : Follows(v, c, i, w)}
<1> SUFFICES ASSUME Bad # {}  PROVE FALSE
  OBVIOUS
<1>1. PICK i \in Bad : \A j \in Bad : i <= j
  <2>1. Bad \in SUBSET Nat
    OBVIOUS
  <2> QED BY <2>1, Least
<1>2. i \in Nat /\ ~ \E w : Follows(v, c, i, w)
  OBVIOUS
<1>3. i # 0
  <2> DEFINE w == [j \in 0 .. 0 |-> <<c>>]
  <2>1. w = [j \in 0 .. 0 |-> IF j = 0 THEN <<c>> ELSE Longer(v, w[j - 1])]
    OBVIOUS
  <2>2. Follows(v, c, 0, w)
    BY ONLY <2>1 DEF Follows
  <2> QED BY <1>2, <2>2
<1>4. i - 1 \in Nat /\ ~ (i <= i - 1)
  BY <1>2, <1>3
<1>5. PICK w : Follows(v, c, i - 1, w)
  BY <1>1, <1>4
<1> DEFINE x == [j \in 0 .. i |-> IF j = i THEN Longer(v, w[i - 1]) ELSE w[j]]
           y == [j \in 0 .. i |-> IF j = 0 THEN <<c>> ELSE Longer(v, x[j - 1])]
<1>6. ASSUME NEW j \in 0 .. i  PROVE x[j] = y[j]
  <2>1. CASE j = i
    <3>1. x[j] = Longer(v, w[i - 1])
      BY <2>1
    <3>2. i - 1 \in 0 .. i /\ i - 1 # i
      BY <1>4
    <3>3. x[i - 1] = w[i - 1]
      BY <3>2
    <3> QED BY <1>3, <2>1, <3>1, <3>3
  <2>2. CASE j # i
    <3>1. j \in 0 .. i - 1 /\ x[j] = w[j]
      BY <1>2, <2>2
    <3>2. w[j] = IF j = 0 THEN <<c>> ELSE Longer(v, w[j - 1])
      BY <1>5, <3>1 DEF Follows
    <3>3. j # 0 => j - 1 \in 0 .. i /\ j - 1 # i
      BY <1>2, <2>2
    <3>4. j # 0 => x[j - 1] = w[j - 1]
      BY <3>3
    <3> QED BY <3>1, <3>2, <3>4
  <2> QED BY <2>1, <2>2
<1>7. x = y
  <2>1. x = [j \in 0 .. i |-> x[j]] /\ y = [j \in 0 .. i |-> y[j]]
    OBVIOUS
  <2> HIDE DEF x, y
  <2> QED BY <1>6, <2>1
<1>8. Follows(v, c, i, x)
  BY <1>7 DEF Follows
<1> QED BY <1>2, <1>8

\* After i steps the walk has gone along s as far as that.
Along(s, i, u) ==
    /\ u \in Seq(Nat)
    /\ i < Len(s) => Len(u) = i + 1 /\ \A k \in 1 .. i + 1 : u[k] = s[k]
    /\ i >= Len(s) => Len(u) > Len(s) /\ \A k \in 1 .. Len(s) : u[k] = s[k]

\* The FAT of v links s, which need not end there.
Joins(v, s) == \A i \in 1 .. Len(s) - 1 : v.fat[s[i]] = s[i + 1]

\* One step of the walk.
LEMMA AlongNext ==
    ASSUME NEW v, v.fat \in [Clusters -> Nat], NEW s \in Seq(Clusters), s # <<>>, Joins(v, s), NEW i \in Nat,
           NEW u, Along(s, i, u)
    PROVE  Along(s, i + 1, Longer(v, u))
<1> DEFINE l == u[Len(u)]
           x == v.fat[l]
<1>1. Len(s) \in Nat /\ Len(s) # 0 /\ \A k \in 1 .. Len(s) : s[k] \in Clusters
  BY EmptySeq, LenProperties, ElementOfSeq
<1>2. u \in Seq(Nat) /\ Len(u) \in Nat
  BY LenProperties DEF Along
<1>3. ASSUME l \in Clusters
      PROVE  /\ Longer(v, u) \in Seq(Nat) /\ Len(Longer(v, u)) = Len(u) + 1
             /\ Longer(v, u)[Len(u) + 1] = x /\ \A k \in 1 .. Len(u) : Longer(v, u)[k] = u[k]
  <2>1. x \in Nat
    BY <1>3
  <2>2. Longer(v, u) = Append(u, x)
    BY <1>3 DEF Longer
  <2> HIDE DEF x
  <2> QED BY <1>2, <2>1, <2>2
<1>4. CASE i < Len(s)
  <2>1. Len(u) = i + 1 /\ \A k \in 1 .. i + 1 : u[k] = s[k]
    BY <1>4 DEF Along
  <2>2. i + 1 \in 1 .. i + 1 /\ i + 1 \in 1 .. Len(s)
    BY <1>1, <1>4
  <2>3. l = s[i + 1] /\ l \in Clusters
    BY <1>1, <2>1, <2>2
  <2>4. /\ Longer(v, u) \in Seq(Nat) /\ Len(Longer(v, u)) = i + 2
        /\ Longer(v, u)[i + 2] = x /\ \A k \in 1 .. i + 1 : Longer(v, u)[k] = s[k]
    BY <1>3, <2>1, <2>3
  <2> HIDE DEF l
  <2>5. CASE i + 1 < Len(s)
    <3>1. i + 1 \in 1 .. Len(s) - 1 /\ (i + 1) + 1 = i + 2
      BY <1>1, <2>5
    <3>2. x = s[i + 2]
      BY <2>3, <3>1 DEF Joins
    <3>3. \A k \in 1 .. (i + 1) + 1 : Longer(v, u)[k] = s[k]
      <4> SUFFICES ASSUME NEW k \in 1 .. (i + 1) + 1  PROVE Longer(v, u)[k] = s[k]
        OBVIOUS
      <4>1. k = i + 2 \/ k \in 1 .. i + 1
        OBVIOUS
      <4> QED BY <2>4, <3>2, <4>1
    <3>4. ~ (i + 1 >= Len(s))
      BY <1>1, <2>5
    <3> QED BY <2>4, <3>1, <3>3, <3>4 DEF Along
  <2>6. CASE i + 1 >= Len(s)
    <3>1. i + 1 = Len(s) /\ ~ (i + 1 < Len(s)) /\ i + 2 > Len(s)
      BY <1>1, <1>4, <2>6
    <3> QED BY <2>4, <3>1 DEF Along
  <2> QED BY <1>1, <2>5, <2>6
<1>5. CASE i >= Len(s)
  <2>1. Len(u) > Len(s) /\ \A k \in 1 .. Len(s) : u[k] = s[k]
    BY <1>5 DEF Along
  <2>2. ~ (i + 1 < Len(s)) /\ \A k \in 1 .. Len(s) : k \in 1 .. Len(u)
    BY <1>1, <1>2, <1>5, <2>1
  <2>3. CASE l \in Clusters
    <3>1. Len(Longer(v, u)) > Len(s)
      BY <1>1, <1>2, <1>3, <2>1, <2>3
    <3> HIDE DEF l, x
    <3> QED BY <1>3, <2>1, <2>2, <2>3, <3>1 DEF Along
  <2>4. CASE l \notin Clusters
    <3>1. Longer(v, u) = u
      BY <2>4 DEF Longer
    <3> QED BY <1>2, <2>1, <2>2, <3>1 DEF Along
  <2> QED BY <2>3, <2>4
<1> QED BY <1>1, <1>4, <1>5

\* Following the FAT of v from the first of s goes along s.
LEMMA WalkAlong ==
    ASSUME NEW v, v.fat \in [Clusters -> Nat], NEW s \in Seq(Clusters), s # <<>>, Differ(s), Joins(v, s)
    PROVE  \A k \in 1 .. Len(s) : Chain(v, s[1])[k] = s[k]
<1> USE Constants
<1>1. Len(s) \in Nat /\ Len(s) <= N - 2 /\ Len(s) # 0 /\ \A k \in 1 .. Len(s) : s[k] \in Clusters
  BY EmptySeq, LenProperties, FewClusters, ElementOfSeq
<1> DEFINE to == CHOOSE w : WalkRec(v, s[1], w)
<1>2. WalkRec(v, s[1], to)
  <2>1. PICK w : Follows(v, s[1], N - 2, w)
    BY WalkThere
  <2>2. WalkRec(v, s[1], w)
    BY <2>1 DEF Follows, WalkRec, Longer
  <2> QED BY <2>2
<1>3. Walk(v, s[1]) = to[N - 2]
  BY DEF Walk, WalkRec
<1> HIDE DEF to
<1> DEFINE Bad == {i \in 0 .. N - 2 : ~ Along(s, i, to[i])}
<1>4. Bad = {}
  <2> SUFFICES ASSUME Bad # {}  PROVE FALSE
    OBVIOUS
  <2>1. Bad \in SUBSET Nat
    OBVIOUS
  <2>2. PICK i \in Bad : \A j \in Bad : i <= j
    BY <2>1, Least
  <2>3. i \in 0 .. N - 2 /\ ~ Along(s, i, to[i])
    OBVIOUS
  <2>4. to[i] = IF i = 0 THEN <<s[1]>> ELSE Longer(v, to[i - 1])
    BY <1>2, <2>3 DEF WalkRec, Longer
  <2>5. Along(s, 0, <<s[1]>>)
    <3>1. s[1] \in Nat /\ 0 < Len(s) /\ ~ (0 >= Len(s)) /\ 1 \in 1 .. Len(s)
      BY <1>1
    <3>2. <<s[1]>> \in Seq(Nat) /\ Len(<<s[1]>>) = 1 /\ <<s[1]>>[1] = s[1]
      BY <3>1
    <3>3. \A k \in 1 .. 0 + 1 : k = 1
      OBVIOUS
    <3> QED BY <3>1, <3>2, <3>3 DEF Along
  <2>6. i # 0
    BY <2>3, <2>4, <2>5
  <2>7. i - 1 \in Nat /\ i - 1 \in 0 .. N - 2 /\ (i - 1) + 1 = i /\ ~ (i <= i - 1)
    BY <2>3, <2>6
  <2>8. Along(s, i - 1, to[i - 1])
    BY <2>2, <2>7
  <2> HIDE DEF Bad
  <2>9. Along(s, (i - 1) + 1, Longer(v, to[i - 1]))
    BY <2>7, <2>8, AlongNext
  <2> QED BY <2>3, <2>4, <2>6, <2>7, <2>9
<1> DEFINE w == to[N - 2]
           h == SubSeq(w, 1, Len(w) - 1)
<1>5. Along(s, N - 2, w)
  <2>1. N - 2 \in 0 .. N - 2
    OBVIOUS
  <2> QED BY <1>4, <2>1
<1>6. w \in Seq(Nat) /\ Len(w) > Len(s) /\ \A k \in 1 .. Len(s) : w[k] = s[k]
  BY <1>1, <1>5 DEF Along
<1>7. Chain(v, s[1]) = h
  BY <1>3 DEF Chain
<1> HIDE DEF w
<1>8. \A k \in 1 .. Len(s) : h[k] = w[k]
  BY <1>1, <1>6
<1> HIDE DEF h
<1> QED BY <1>6, <1>7, <1>8
-----------------------------------------------------------------------------
(* What has been saved is on the medium *)

\* The parts of a file are in different clusters, and in its chain.
LEMMA PartsAre ==
    ASSUME NEW v, v.fat \in [Clusters -> Nat], NEW id, NEW c, NEW n \in Nat, NEW s, Parts(v, id, c, n, 0, 0, s)
    PROVE  \A k \in 1 .. n : v.has[Chain(v, c)[k]] = Data(id, k)
<1>1. /\ s \in Seq(Clusters) /\ Len(s) = n /\ (n > 0 => s[1] = c)
      /\ \A i \in 1 .. n : v.has[s[i]] = Data(id, i) \/ s[i] = 0
      /\ \A i \in 1 .. n - 1 : v.fat[s[i]] = s[i + 1]
  BY DEF Parts
<1>2. \A i \in 1 .. n : s[i] \in Clusters /\ s[i] # 0
  BY <1>1, ElementOfSeq, Constants
<1>3. \A i \in 1 .. n : v.has[s[i]] = Data(id, i)
  BY <1>1, <1>2
<1>4. \A i, j : Data(id, i) = Data(id, j) => i = j
  <2> SUFFICES ASSUME NEW i, NEW j, Data(id, i) = Data(id, j)  PROVE i = j
    OBVIOUS
  <2>1. Data(id, i).k = i /\ Data(id, j).k = j
    BY DEF Data
  <2> QED BY <2>1
<1>5. Differ(s)
  <2> SUFFICES ASSUME NEW i \in 1 .. n, NEW j \in 1 .. n, s[i] = s[j]  PROVE i = j
    BY <1>1 DEF Differ
  <2>1. Data(id, i) = Data(id, j)
    BY <1>3
  <2> QED BY <1>4, <2>1
<1>6. Joins(v, s)
  BY <1>1 DEF Joins
<1>7. ASSUME NEW k \in 1 .. n  PROVE v.has[Chain(v, c)[k]] = Data(id, k)
  <2>1. n > 0 /\ s # <<>>
    BY <1>1, EmptySeq
  <2>2. Chain(v, s[1])[k] = s[k]
    BY <1>1, <1>5, <1>6, <2>1, WalkAlong
  <2> QED BY <1>1, <1>3, <2>1, <2>2
<1> QED BY <1>7

\* The invariants give what is promised.
LEMMA SavedThere == Inv /\ SInv => SavedFilesSurvive
<1> SUFFICES ASSUME Inv, SInv, ~ hurt, NEW id \in Ids, saved[id] # NotSaved
             PROVE  \E p \in Places(disk) :
                       LET e == At(disk, p)
                       IN  /\ e.id = id /\ e.size >= saved[id]
                           /\ \A k \in 1 .. saved[id] : disk.has[Chain(disk, e.clst)[k]] = Data(id, k)
  BY DEF SavedFilesSurvive
<1>1. disk \in Volumes /\ Agree(now, disk, win)
  BY DEF Inv
<1>2. /\ SavedFull(now, disk, saved, shrunk) /\ IsTable(now, 0) /\ Rooted(disk)
  BY DEF SInv, Intact, Ready
<1>3. IsTable(disk, 0)
  BY <1>1, <1>2, Constants DEF Agree
<1>4. saved[id] \in Nat /\ SavedIn(now, disk, id, saved[id])
  BY <1>2 DEF SavedFull
<1>5. PICK q \in Spots, s \in Seq(Clusters) : SavedAt(disk, id, saved[id], q, s)
  BY <1>4 DEF SavedIn
<1>6. /\ q \in All(disk) /\ At(disk, q).id = id /\ At(disk, q).size >= saved[id]
      /\ Parts(disk, id, At(disk, q).clst, saved[id], 0, 0, s)
  BY <1>5 DEF SavedAt
<1>7. q \in Places(disk)
  <2>1. /\ q[1] \in Tables /\ q[2] \in 1 .. Slots /\ q = <<q[1], q[2]>>
        /\ IsTable(disk, q[1]) /\ At(disk, q) # Unused
    BY <1>6, SpotParts DEF All
  <2>2. q[2] \in Used(disk, q[1])
    BY <2>1 DEF Used, At
  <2>3. q[1] \in Reach(disk)
    BY <1>2, <2>1, <2>2 DEF Rooted
  <2> QED BY <2>1, <2>2, <2>3 DEF Places
<1>8. disk.fat \in [Clusters -> Nat]
  BY <1>1 DEF Volumes
<1>9. \A k \in 1 .. saved[id] : disk.has[Chain(disk, At(disk, q).clst)[k]] = Data(id, k)
  BY <1>4, <1>6, <1>8, PartsAre
<1> QED BY <1>6, <1>7, <1>9

\* What f_sync or f_close has saved is on the medium, whatever else is written, created,
\* removed, moved or cut off and wherever the power is cut, until the program changes that
\* file, for volumes of every size.
THEOREM VolumeKeepsSaved == Spec => []SavedFilesSurvive
<1>1. Init => Inv /\ SInv
  BY InitInv, InitKeeps
<1>2. (Inv /\ SInv) /\ [Next]_vars => (Inv /\ SInv)'
  BY NextInv, NextKeeps
<1>3. Inv /\ SInv => SavedFilesSurvive
  BY SavedThere
<1> QED BY <1>1, <1>2, <1>3, PTL DEF Spec
=============================================================================
