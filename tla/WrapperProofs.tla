----------------------------- MODULE WrapperProofs -----------------------------
(***************************************************************************)
(* Proofs about the classes around FatFs: File and FS above it, the card    *)
(* drivers below.                                                          *)
(* Handles: whatever a program does with its Files, the pointers whose      *)
(* object was not freed lead to live objects and account for all objects   *)
(* but those that went out of scope; and a File that was never copied has   *)
(* a stale _fno at most, once it is closed.                                *)
(* Drives: for every number of drives, objects, cards and files, the       *)
(* tables of the three layers agree for every program, and for one that    *)
(* calls end behind each begin an accepted file is on its own card.        *)
(* Blocks: what the SPI driver reads and writes, for every set of blocks,  *)
(* every length of call and every sequence of refused commands, lost or    *)
(* rejected blocks and failed programming.                                 *)
(* Cards: the SPI driver knows the card it has initialised, for every set  *)
(* of cards and for answers lost or wrong at any point.                    *)
(* SDMMC: a write which the driver reports as done is on the card, for      *)
(* every card, number of blocks and moment of removal.                     *)
(***************************************************************************)
EXTENDS FileHandles, DriveRegistry, SdCard, SdInit, SdMmc, TLAPS
-----------------------------------------------------------------------------
(* Handles *)

ObjectKinds == {"free", "FIL", "DIR", "FILINFO"}
Pointers == [Fields -> Addresses \cup {Null}]

\* What a File with the pointers p, of which s are stale, holds.
Owns(p, s) == {p[k] : k \in Fields \ s} \ {Null}

HandleTypes(h, p, s, sh, l) ==
    /\ h \in [Addresses -> ObjectKinds]
    /\ p \in [Vars -> Pointers]
    /\ s \in [Vars -> SUBSET Fields]
    /\ sh \subseteq Vars /\ l \subseteq Addresses
    /\ \A v \in Vars : \A k \in s[v] : p[v][k] # Null

\* A pointer that is not stale leads to a live object of its kind.
Live(h, q, s) == \A k \in Fields \ s : q[k] # Null => q[k] \in Addresses /\ h[q[k]] = Kind[k]
AllLive(h, p, s) == \A v \in Vars : Live(h, p[v], s[v])

\* Each object that is allocated is held by a File or lost, and not both.
Accounted(h, p, s, l) ==
    /\ \A o \in Addresses : h[o] # "free" => o \in l \/ \E v \in Vars : o \in Owns(p[v], s[v])
    /\ \A o \in l : h[o] # "free" /\ \A v \in Vars : o \notin Owns(p[v], s[v])

\* A File that was never copied holds its objects alone.
Alone(p, s, sh) ==
    \A v \in Vars \ sh : \A w \in Vars : w # v => Owns(p[v], s[v]) \cap Owns(p[w], s[w]) = {}

\* It has no stale pointer while it is open.
FnoOnly(q, s) == s # {} => s = {"fno"} /\ q["file"] = Null /\ q["dir"] = Null
NotStale(p, s, sh) == \A v \in Vars \ sh : FnoOnly(p[v], s[v])

Sound(h, p, s, sh, l) ==
    /\ HandleTypes(h, p, s, sh, l) /\ AllLive(h, p, s) /\ Accounted(h, p, s, l)
    /\ Alone(p, s, sh) /\ NotStale(p, s, sh)

HandlesInv == Sound(heap, ptr, stale, shared, lost)

\* The claims are parts of the inductive invariant.
LEMMA InvGivesSafe == HandlesInv => HandlesSafe /\ StaleByCopy
<1> SUFFICES ASSUME HandlesInv PROVE HandlesSafe /\ StaleByCopy
  OBVIOUS
<1>1. \A v \in Vars : Owned(v) = Owns(ptr[v], stale[v])
  BY DEF Owned, Owns
<1>2. \A v \in Vars : \A k \in Fields \ stale[v] :
         ptr[v][k] # Null => ptr[v][k] \in Addresses /\ heap[ptr[v][k]] = Kind[k]
  BY DEF HandlesInv, Sound, AllLive, Live
<1>3. {o \in Addresses : heap[o] # "free"} = lost \cup UNION {Owned(v) : v \in Vars}
  <2>1. ASSUME NEW o \in Addresses, heap[o] # "free"
        PROVE  o \in lost \cup UNION {Owned(v) : v \in Vars}
    BY <1>1, <2>1 DEF HandlesInv, Sound, Accounted
  <2>2. ASSUME NEW v \in Vars, NEW o \in Owned(v) PROVE o \in Addresses /\ heap[o] # "free"
    BY <1>2, <2>2 DEF Owned, Kind, Fields
  <2>3. ASSUME NEW o \in lost PROVE o \in Addresses /\ heap[o] # "free"
    BY <2>3 DEF HandlesInv, Sound, Accounted, HandleTypes
  <2> QED BY <2>1, <2>2, <2>3
<1>4. StaleByCopy
  BY DEF HandlesInv, Sound, NotStale, FnoOnly, StaleByCopy, IsOpen
<1> QED BY <1>2, <1>3, <1>4 DEF HandlesSafe

\* It holds of a program whose Files are empty.
LEMMA HandlesStart == HandlesInit => HandlesInv
<1> SUFFICES ASSUME HandlesInit PROVE HandlesInv
  OBVIOUS
<1>1. \A k \in Fields : Empty[k] = Null
  BY DEF Empty
<1>2. Empty \in Pointers
  BY DEF Empty, Pointers
<1> QED BY <1>1, <1>2 DEF HandlesInit, HandlesInv, Sound, HandleTypes, AllLive, Live, Accounted, Alone,
        NotStale, FnoOnly, Owns, ObjectKinds
-----------------------------------------------------------------------------
(* Closing and assigning *)

\* The objects F that v alone was left with are deleted, N are allocated, and v gets
\* the pointers q, of which t are stale.
Replaced(h, p, s, v, F, N, q, t, h2, p2, s2) ==
    /\ h2 = [o \in Addresses |-> IF o \in F THEN "free"
                                 ELSE IF o \in DOMAIN N THEN N[o] ELSE h[o]]
    /\ p2 = [p EXCEPT ![v] = q]
    /\ s2 = [x \in Vars |-> IF x = v THEN t ELSE StaleOf(p[x], s[x], F)]

\* The new pointers of v are as good as any: live, with all that is new among them and
\* nothing else that is not held by another File which may share it.
Fitting(p, s, sh, v, N, q, t, h2, sh2) ==
    /\ q \in Pointers /\ t \subseteq {k \in Fields : q[k] # Null} /\ sh2 \subseteq Vars
    /\ Live(h2, q, t)
    /\ DOMAIN N \subseteq Owns(q, t)
    /\ \A o \in Owns(q, t) : o \in DOMAIN N \/ \E w \in Vars \ {v} : o \in Owns(p[w], s[w])
    /\ v \notin sh2 => Owns(q, t) \subseteq DOMAIN N /\ FnoOnly(q, t)
    /\ \A w \in Vars \ sh2 : w # v => w \notin sh /\ Owns(q, t) \cap Owns(p[w], s[w]) = {}

\* What the other Files hold shrinks by what is deleted.
LEMMA OthersShrink ==
    ASSUME NEW p, NEW s, NEW F PROVE Owns(p, StaleOf(p, s, F)) = Owns(p, s) \ F
  BY DEF Owns, StaleOf

\* Files and heap stay sound.
LEMMA ReplacedIsSound ==
    ASSUME NEW h, NEW p, NEW s, NEW sh, NEW l, Sound(h, p, s, sh, l),
           NEW v \in Vars, NEW N, NEW q, NEW t, NEW h2, NEW p2, NEW s2, NEW sh2,
           s[v] = {}, DOMAIN N \subseteq Addresses,
           \A o \in DOMAIN N : h[o] = "free" /\ N[o] \in ObjectKinds \ {"free"},
           Replaced(h, p, s, v, Held(p[v]), N, q, t, h2, p2, s2),
           Fitting(p, s, sh, v, N, q, t, h2, sh2)
    PROVE  Sound(h2, p2, s2, sh2, l)
<1> DEFINE F == Held(p[v])
<1>1. /\ HandleTypes(h, p, s, sh, l) /\ AllLive(h, p, s) /\ Accounted(h, p, s, l)
      /\ Alone(p, s, sh) /\ NotStale(p, s, sh)
  BY DEF Sound
<1>2. F = Owns(p[v], s[v])
  BY DEF Held, Owns
<1>3. \A w \in Vars : \A o \in Owns(p[w], s[w]) : o \in Addresses /\ h[o] # "free"
  BY <1>1 DEF AllLive, Live, Owns, Kind, Fields
<1>4. F \cap DOMAIN N = {}
  BY <1>2, <1>3
<1>5. \A o \in Addresses : h2[o] = IF o \in F THEN "free"
                                   ELSE IF o \in DOMAIN N THEN N[o] ELSE h[o]
  BY DEF Replaced
<1>6. /\ p2[v] = q /\ s2[v] = t
      /\ \A w \in Vars \ {v} : /\ p2[w] = p[w] /\ s2[w] = StaleOf(p[w], s[w], F)
                               /\ Owns(p2[w], s2[w]) = Owns(p[w], s[w]) \ F
  BY <1>1, OthersShrink DEF Replaced, HandleTypes
<1> HIDE DEF F
<1>7. HandleTypes(h2, p2, s2, sh2, l)
  <2>1. h2 \in [Addresses -> ObjectKinds]
    BY <1>1 DEF Replaced, HandleTypes, ObjectKinds
  <2>2. p2 \in [Vars -> Pointers]
    BY <1>1 DEF Replaced, HandleTypes, Fitting
  <2>3. s2 \in [Vars -> SUBSET Fields]
    BY DEF Replaced, Fitting, StaleOf
  <2>4. ASSUME NEW w \in Vars, NEW k \in s2[w] PROVE p2[w][k] # Null
    BY <1>6, <2>4 DEF Fitting, StaleOf
  <2> QED BY <1>1, <2>1, <2>2, <2>3, <2>4 DEF HandleTypes, Fitting
<1>8. AllLive(h2, p2, s2)
  <2> SUFFICES ASSUME NEW w \in Vars PROVE Live(h2, p2[w], s2[w])
    BY DEF AllLive
  <2>1. CASE w = v
    BY <1>6, <2>1 DEF Fitting
  <2>2. CASE w # v
    <3> SUFFICES ASSUME NEW k \in Fields \ s2[w], p2[w][k] # Null
                 PROVE  p2[w][k] \in Addresses /\ h2[p2[w][k]] = Kind[k]
      BY DEF Live
    <3>1. p2[w] = p[w] /\ k \in Fields \ s[w] /\ p[w][k] \notin F
      BY <1>6, <2>2 DEF StaleOf
    <3>2. p[w][k] \in Addresses /\ h[p[w][k]] = Kind[k]
      BY <1>1, <3>1 DEF AllLive, Live
    <3>3. p[w][k] \notin DOMAIN N
      BY <3>2 DEF Kind, Fields
    <3> QED BY <1>5, <3>1, <3>2, <3>3
  <2> QED BY <2>1, <2>2
<1>9. Accounted(h2, p2, s2, l)
  <2>1. ASSUME NEW o \in Addresses, h2[o] # "free", o \notin l
        PROVE  \E w \in Vars : o \in Owns(p2[w], s2[w])
    <3>1. CASE o \in DOMAIN N
      BY <1>6, <3>1 DEF Fitting
    <3>2. CASE o \notin DOMAIN N
      <4>1. h[o] # "free" /\ o \notin F
        BY <1>5, <2>1, <3>2
      <4>2. PICK w \in Vars : o \in Owns(p[w], s[w])
        BY <1>1, <2>1, <4>1 DEF Accounted
      <4> QED BY <1>2, <1>6, <4>1, <4>2
    <3> QED BY <3>1, <3>2
  <2>2. ASSUME NEW o \in l PROVE h2[o] # "free" /\ \A w \in Vars : o \notin Owns(p2[w], s2[w])
    <3>1. o \in Addresses /\ h[o] # "free" /\ \A w \in Vars : o \notin Owns(p[w], s[w])
      BY <1>1, <2>2 DEF Accounted, HandleTypes
    <3>2. o \notin F /\ o \notin DOMAIN N
      BY <1>2, <3>1
    <3>3. o \notin Owns(q, t)
      BY <3>1, <3>2 DEF Fitting
    <3> QED BY <1>5, <1>6, <3>1, <3>2, <3>3
  <2> QED BY <2>1, <2>2 DEF Accounted
<1>10. Alone(p2, s2, sh2)
  <2> SUFFICES ASSUME NEW x \in Vars \ sh2, NEW w \in Vars, w # x
               PROVE  Owns(p2[x], s2[x]) \cap Owns(p2[w], s2[w]) = {}
    BY DEF Alone
  <2>1. CASE x = v
    <3>1. Owns(p2[x], s2[x]) \subseteq DOMAIN N
      BY <1>6, <2>1 DEF Fitting
    <3> QED BY <1>3, <1>6, <2>1, <3>1
  <2>2. CASE x # v /\ w = v
    BY <1>6, <2>2 DEF Fitting
  <2>3. CASE x # v /\ w # v
    <3>1. x \notin sh
      BY <2>3 DEF Fitting
    <3> QED BY <1>1, <1>6, <2>3, <3>1 DEF Alone
  <2> QED BY <2>1, <2>2, <2>3
<1>11. NotStale(p2, s2, sh2)
  <2> SUFFICES ASSUME NEW x \in Vars \ sh2 PROVE FnoOnly(p2[x], s2[x])
    BY DEF NotStale
  <2>1. CASE x = v
    BY <1>6, <2>1 DEF Fitting
  <2>2. CASE x # v
    <3>1. x \notin sh
      BY <2>2 DEF Fitting
    <3>2. FnoOnly(p[x], s[x]) /\ Owns(p[x], s[x]) \cap F = {}
      BY <1>1, <1>2, <2>2, <3>1 DEF NotStale, Alone
    <3>3. s2[x] \subseteq s[x] /\ p2[x] = p[x]
      BY <1>6, <2>2, <3>2 DEF StaleOf, Owns
    <3> QED BY <3>2, <3>3 DEF FnoOnly
  <2> QED BY <2>1, <2>2
<1> QED BY <1>7, <1>8, <1>9, <1>10, <1>11 DEF Sound

\* The first part of openNextFile: the FILINFO n of the directory d.
LEMMA ListingIsSound ==
    ASSUME NEW h, NEW p, NEW s, NEW sh, NEW l, Sound(h, p, s, sh, l),
           NEW d \in Vars, NEW n \in Addresses, p[d]["fno"] = Null, h[n] = "free",
           NEW h2, h2 = [h EXCEPT ![n] = "FILINFO"],
           NEW p2, p2 = [p EXCEPT ![d] = [p[d] EXCEPT !["fno"] = n]]
    PROVE  Sound(h2, p2, s, sh, l)
<1>1. /\ HandleTypes(h, p, s, sh, l) /\ AllLive(h, p, s) /\ Accounted(h, p, s, l)
      /\ Alone(p, s, sh) /\ NotStale(p, s, sh)
  BY DEF Sound
<1>2. \A w \in Vars : \A o \in Owns(p[w], s[w]) : o \in Addresses /\ h[o] # "free"
  BY <1>1 DEF AllLive, Live, Owns, Kind, Fields
<1>3. "fno" \notin s[d] /\ n # Null /\ p[d] \in Pointers
  BY <1>1, HeapAssumption DEF HandleTypes
<1>4. /\ p2[d] \in Pointers /\ p2[d]["fno"] = n
      /\ p2[d]["file"] = p[d]["file"] /\ p2[d]["dir"] = p[d]["dir"]
      /\ \A w \in Vars \ {d} : p2[w] = p[w]
  BY <1>1, <1>3 DEF HandleTypes, Pointers, Fields
<1>5. Owns(p2[d], s[d]) = Owns(p[d], s[d]) \cup {n}
  BY <1>3, <1>4 DEF Owns, Fields
<1>6. HandleTypes(h2, p2, s, sh, l)
  <2>1. h2 \in [Addresses -> ObjectKinds] /\ p2 \in [Vars -> Pointers]
    BY <1>1, <1>4 DEF HandleTypes, ObjectKinds
  <2>2. ASSUME NEW w \in Vars, NEW k \in s[w] PROVE p2[w][k] # Null
    BY <1>1, <1>3, <1>4, <2>2 DEF HandleTypes, Fields
  <2> QED BY <1>1, <2>1, <2>2 DEF HandleTypes
<1>7. AllLive(h2, p2, s)
  <2> SUFFICES ASSUME NEW w \in Vars, NEW k \in Fields \ s[w], p2[w][k] # Null
               PROVE  p2[w][k] \in Addresses /\ h2[p2[w][k]] = Kind[k]
    BY DEF AllLive, Live
  <2>1. CASE w = d /\ k = "fno"
    BY <1>1, <1>4, <2>1 DEF HandleTypes, Kind
  <2>2. CASE w # d \/ k # "fno"
    <3>1. p2[w][k] = p[w][k]
      BY <1>4, <2>2 DEF Fields
    <3>2. p[w][k] \in Addresses /\ h[p[w][k]] = Kind[k]
      BY <1>1, <3>1 DEF AllLive, Live
    <3>3. p[w][k] # n
      BY <3>2 DEF Kind, Fields
    <3> QED BY <1>1, <3>1, <3>2, <3>3 DEF HandleTypes
  <2> QED BY <2>1, <2>2
<1>8. Accounted(h2, p2, s, l)
  <2>1. ASSUME NEW o \in Addresses, h2[o] # "free", o \notin l
        PROVE  \E w \in Vars : o \in Owns(p2[w], s[w])
    BY <1>1, <1>4, <1>5, <2>1 DEF Accounted, HandleTypes
  <2>2. ASSUME NEW o \in l, NEW w \in Vars PROVE h2[o] # "free" /\ o \notin Owns(p2[w], s[w])
    <3>1. h[o] # "free" /\ o \notin Owns(p[w], s[w]) /\ o \in Addresses
      BY <1>1, <2>2 DEF Accounted, HandleTypes
    <3>2. o # n /\ h2[o] = h[o]
      BY <1>1, <3>1 DEF HandleTypes
    <3> QED BY <1>4, <1>5, <3>1, <3>2
  <2> QED BY <2>1, <2>2, <1>1 DEF Accounted, HandleTypes
<1>9. Alone(p2, s, sh)
  <2>1. \A w \in Vars : n \notin Owns(p[w], s[w])
    BY <1>2
  <2> QED BY <1>1, <1>4, <1>5, <2>1 DEF Alone
<1>10. NotStale(p2, s, sh)
  BY <1>1, <1>4 DEF NotStale, FnoOnly
<1> QED BY <1>6, <1>7, <1>8, <1>9, <1>10 DEF Sound
-----------------------------------------------------------------------------
(* The steps *)

\* What is deleted has been held with no stale pointer.
LEMMA NoneStale ==
    ASSUME HandlesInv, NEW v \in Vars, stale[v] \cap Fields = {}
    PROVE  stale[v] = {}
  BY DEF HandlesInv, Sound, HandleTypes

\* The steps that close a File and give it other pointers.
LEMMA ReplaceStep ==
    ASSUME HandlesInv, NEW v \in Vars, stale[v] \cap Fields = {},
           NEW N, NEW q, NEW were, DOMAIN N \subseteq Fresh,
           \A o \in DOMAIN N : N[o] \in ObjectKinds \ {"free"},
           Replace(ptr[v], N, v, q, were), ptr' = [ptr EXCEPT ![v] = q], lost' = lost,
           Fitting(ptr, stale, shared, v, N, q, StaleOf(q, were, Held(ptr[v])), heap', shared')
    PROVE  HandlesInv'
<1> DEFINE t == StaleOf(q, were, Held(ptr[v]))
<1>1. stale[v] = {}
  BY NoneStale
<1>2. Replaced(heap, ptr, stale, v, Held(ptr[v]), N, q, t, heap', ptr', stale')
  BY DEF Replace, Replaced, Deleted
<1>3. DOMAIN N \subseteq Addresses /\ \A o \in DOMAIN N : heap[o] = "free"
  BY DEF Fresh
<1> HIDE DEF t
<1>4. Fitting(ptr, stale, shared, v, N, q, t, heap', shared')
  BY DEF t
<1>5. Sound(heap', ptr', stale', shared', lost)
  BY <1>1, <1>2, <1>3, <1>4, ReplacedIsSound DEF HandlesInv
<1> QED BY <1>5 DEF HandlesInv

\* close leaves nothing but a FILINFO that is gone.
LEMMA CloseStep ==
    ASSUME HandlesInv, NEW v \in Vars, CloseFile(v), stale[v] \cap Fields = {}
    PROVE  HandlesInv'
<1> DEFINE q == AfterClose(ptr[v])
           t == StaleOf(q, {}, Held(ptr[v]))
           N == <<>>
<1>1. DOMAIN N = {}
  OBVIOUS
<1>2. /\ Replace(ptr[v], N, v, q, {}) /\ ptr' = [ptr EXCEPT ![v] = q]
      /\ lost' = lost /\ shared' = shared
  BY DEF CloseFile, Using, HandlesInv, Sound, HandleTypes
<1>3. ptr[v] \in Pointers /\ shared \subseteq Vars
  BY DEF HandlesInv, Sound, HandleTypes
<1>4. q \in Pointers /\ q["fno"] = ptr[v]["fno"] /\ q["file"] = Null /\ q["dir"] = Null
  BY <1>3 DEF AfterClose, Empty, Pointers, Fields
<1>5. t = IF q["fno"] = Null THEN {} ELSE {"fno"}
  BY <1>4 DEF StaleOf, Held, Fields
<1> HIDE DEF q, t, N
<1>6. \A k \in Fields \ t : q[k] = Null
  BY <1>4, <1>5 DEF Fields
<1>7. Fitting(ptr, stale, shared, v, N, q, t, heap', shared')
  <2>1. Owns(q, t) = {}
    BY <1>6 DEF Owns
  <2>2. FnoOnly(q, t)
    BY <1>4, <1>5 DEF FnoOnly
  <2>3. t \subseteq {k \in Fields : q[k] # Null}
    BY <1>5 DEF Fields
  <2> QED BY <1>1, <1>2, <1>3, <1>4, <1>6, <2>1, <2>2, <2>3 DEF Fitting, Live
<1> QED BY <1>1, <1>2, <1>7, ReplaceStep DEF t

\* v = w: the two share what is left of w.
LEMMA CopyStep ==
    ASSUME HandlesInv, NEW v \in Vars, NEW w \in Vars, Copy(v, w), stale[v] \cap Fields = {}
    PROVE  HandlesInv'
<1> DEFINE t == StaleOf(ptr[w], stale[w], Held(ptr[v]))
           N == <<>>
<1>1. DOMAIN N = {}
  OBVIOUS
<1>2. /\ v # w /\ Replace(ptr[v], N, v, ptr[w], stale[w]) /\ ptr' = [ptr EXCEPT ![v] = ptr[w]]
      /\ lost' = lost /\ shared' = shared \cup {v, w}
  BY DEF Copy, Using
<1>3. /\ ptr[w] \in Pointers /\ shared \subseteq Vars
      /\ AllLive(heap, ptr, stale) /\ Alone(ptr, stale, shared)
  BY DEF HandlesInv, Sound, HandleTypes
<1>4. Owns(ptr[w], t) = Owns(ptr[w], stale[w]) \ Held(ptr[v])
  BY OthersShrink
<1>5. t \subseteq {k \in Fields : ptr[w][k] # Null}
  BY DEF StaleOf
<1>6. Live(heap', ptr[w], t)
  <2> SUFFICES ASSUME NEW k \in Fields \ t, ptr[w][k] # Null
               PROVE  ptr[w][k] \in Addresses /\ heap'[ptr[w][k]] = Kind[k]
    BY DEF Live
  <2>1. k \notin stale[w] /\ ptr[w][k] \notin Held(ptr[v])
    BY DEF StaleOf
  <2>2. ptr[w][k] \in Addresses /\ heap[ptr[w][k]] = Kind[k]
    BY <1>3, <2>1 DEF AllLive, Live
  <2> QED BY <1>1, <1>2, <2>1, <2>2 DEF Replace, Deleted
<1> HIDE DEF t, N
<1>7. \A o \in Owns(ptr[w], t) : \E x \in Vars \ {v} : o \in Owns(ptr[x], stale[x])
  BY <1>2, <1>4
<1>8. \A x \in Vars \ shared' : x # v => /\ x \notin shared
                                        /\ Owns(ptr[w], t) \cap Owns(ptr[x], stale[x]) = {}
  BY <1>2, <1>3, <1>4 DEF Alone
<1>9. Fitting(ptr, stale, shared, v, N, ptr[w], t, heap', shared')
  BY <1>1, <1>2, <1>3, <1>5, <1>6, <1>7, <1>8 DEF Fitting
<1> QED BY <1>1, <1>2, <1>9, ReplaceStep DEF t

\* What is opened at o.
LEMMA FoundIs ==
    ASSUME NEW found \in {"none", "FIL", "DIR"}, NEW o \in Addresses
    PROVE  /\ Found(found, o) \in Pointers
           /\ Held(Found(found, o)) = IF found = "none" THEN {} ELSE {o}
           /\ \A k \in Fields : Found(found, o)[k] # Null => Kind[k] = found /\ Found(found, o)[k] = o
  BY HeapAssumption DEF Found, Pointers, Held, Kind, Fields

\* An object that is new is of no other File.
LEMMA FoundFits ==
    ASSUME NEW h, NEW p, NEW s, NEW sh, NEW l, Sound(h, p, s, sh, l), NEW v \in Vars,
           NEW found \in {"none", "FIL", "DIR"}, NEW o \in Addresses,
           found # "none" => h[o] = "free",
           NEW N, N = [x \in Held(Found(found, o)) |-> found], NEW h2,
           \A x \in Addresses : x \in DOMAIN N => h2[x] = N[x]
    PROVE  Fitting(p, s, sh, v, N, Found(found, o), {}, h2, sh \ {v})
<1> DEFINE q == Found(found, o)
<1>1. /\ q \in Pointers /\ Held(q) = IF found = "none" THEN {} ELSE {o}
      /\ \A k \in Fields : q[k] # Null => Kind[k] = found /\ q[k] = o
  BY FoundIs
<1>2. DOMAIN N = Held(q) /\ \A x \in DOMAIN N : N[x] = found
  OBVIOUS
<1> HIDE DEF q
<1>3. Owns(q, {}) = Held(q)
  BY DEF Owns, Held
<1>4. Live(h2, q, {})
  <2> SUFFICES ASSUME NEW k \in Fields, q[k] # Null PROVE q[k] \in Addresses /\ h2[q[k]] = Kind[k]
    BY DEF Live
  <2>1. q[k] \in Held(q)
    BY DEF Held
  <2> QED BY <1>1, <1>2, <2>1
<1>5. \A w \in Vars : \A x \in Owns(p[w], s[w]) : h[x] # "free"
  BY DEF Sound, AllLive, Live, Owns, Kind, Fields
<1>6. \A w \in Vars : Owns(q, {}) \cap Owns(p[w], s[w]) = {}
  BY <1>1, <1>3, <1>5
<1>7. sh \subseteq Vars
  BY DEF Sound, HandleTypes
<1>8. FnoOnly(q, {})
  BY DEF FnoOnly
<1>9. Fitting(p, s, sh, v, N, q, {}, h2, sh \ {v})
  BY <1>1, <1>2, <1>3, <1>4, <1>6, <1>7, <1>8 DEF Fitting
<1> QED BY <1>9 DEF q

\* open.
LEMMA OpenStep ==
    ASSUME HandlesInv, NEW v \in Vars, NEW found \in {"none", "FIL", "DIR"}, NEW o \in Addresses,
           OpenPath(v, found, o), stale[v] \cap Fields = {}
    PROVE  HandlesInv'
<1> DEFINE q == Found(found, o)
           N == [x \in Held(q) |-> found]
<1>1. /\ Replace(ptr[v], N, v, q, {}) /\ ptr' = [ptr EXCEPT ![v] = q]
      /\ lost' = lost /\ shared' = shared \ {v}
      /\ found # "none" => heap[o] = "free"
  BY DEF OpenPath, Using, Fresh
<1>2. /\ Held(q) = IF found = "none" THEN {} ELSE {o}
      /\ \A k \in Fields : q[k] # Null => q[k] = o /\ found # "none"
  BY FoundIs DEF Kind, Fields
<1>3. DOMAIN N \subseteq Fresh /\ \A x \in DOMAIN N : N[x] \in ObjectKinds \ {"free"}
  BY <1>1, <1>2 DEF Fresh, ObjectKinds
<1>4. \A x \in Held(ptr[v]) : heap[x] # "free"
  BY NoneStale DEF HandlesInv, Sound, AllLive, Live, Held, Kind, Fields
<1>5. StaleOf(q, {}, Held(ptr[v])) = {}
  BY <1>1, <1>2, <1>4 DEF StaleOf
<1>6. \A x \in Addresses : x \in DOMAIN N => heap'[x] = N[x]
  <2>1. \A x \in DOMAIN N : x \notin Held(ptr[v])
    BY <1>3, <1>4 DEF Fresh
  <2> QED BY <1>1, <2>1 DEF Replace, Deleted
<1>7. Fitting(ptr, stale, shared, v, N, q, {}, heap', shared \ {v})
  BY <1>1, <1>6, FoundFits DEF HandlesInv
<1> HIDE DEF N, q
<1> QED BY <1>1, <1>3, <1>5, <1>7, ReplaceStep

\* The FILINFO that openNextFile uses is new or the directory's own.
ForListing(d, n) == IF ptr[d]["fno"] = Null THEN n \in Fresh ELSE n = ptr[d]["fno"]
Listing(d, n) == [ptr[d] EXCEPT !["fno"] = n]

\* Heap and pointers when d has it.
HeapListing(d, n) == IF ptr[d]["fno"] = Null THEN [heap EXCEPT ![n] = "FILINFO"] ELSE heap
PtrListing(d, n) == [ptr EXCEPT ![d] = Listing(d, n)]

\* They are sound then.
LEMMA ListingSound ==
    ASSUME HandlesInv, NEW d \in Vars, NEW n \in Addresses, ForListing(d, n)
    PROVE  Sound(HeapListing(d, n), PtrListing(d, n), stale, shared, lost)
<1>1. CASE ptr[d]["fno"] = Null
  <2>1. heap[n] = "free"
    BY <1>1 DEF ForListing, Fresh
  <2> QED BY <1>1, <2>1, ListingIsSound DEF HeapListing, PtrListing, Listing, HandlesInv
<1>2. CASE ptr[d]["fno"] # Null
  <2>1. n = ptr[d]["fno"] /\ ptr \in [Vars -> Pointers]
    BY <1>2 DEF ForListing, HandlesInv, Sound, HandleTypes
  <2>2. PtrListing(d, n) = ptr
    BY <2>1 DEF PtrListing, Listing, Pointers
  <2> QED BY <1>2, <2>2 DEF HeapListing, HandlesInv
<1> QED BY <1>1, <1>2

\* openNextFile: d gets its FILINFO, and then v what is found.
LEMMA ListedStep ==
    ASSUME HandlesInv, NEW v \in Vars, NEW d \in Vars, NEW n \in Addresses, NEW o \in Addresses,
           NEW found \in {"none", "FIL", "DIR"}, OpenNextFile(v, d, n, found, o),
           ~UNCHANGED <<heap, ptr, stale, shared, lost>>
    PROVE  HandlesInv'
<1> DEFINE first == IF ptr[d]["fno"] = Null THEN {n} ELSE {}
           new == [x \in first \cup Held(Found(found, o)) |-> IF x \in first THEN "FILINFO" ELSE found]
<1>0. /\ ForListing(d, n) /\ stale[v] \cap Fields = {}
      /\ found # "none" => o \in Fresh \ {n}
      /\ Replace(IF v = d THEN Listing(d, n) ELSE ptr[v], new, v, Found(found, o), {})
      /\ ptr' = [ptr EXCEPT ![d] = Listing(d, n), ![v] = Found(found, o)]
      /\ shared' = shared \ {v} /\ lost' = lost
  BY DEF OpenNextFile, Using, ForListing, Listing
<1> DEFINE q == Found(found, o)
           N == [x \in Held(q) |-> found]
           h1 == HeapListing(d, n)
           p1 == PtrListing(d, n)
           F == Held(p1[v])
<1>1. Sound(h1, p1, stale, shared, lost)
  BY <1>0, ListingSound
<1>2. /\ Held(q) = IF found = "none" THEN {} ELSE {o}
      /\ \A k \in Fields : q[k] # Null => q[k] = o /\ found # "none"
  BY FoundIs DEF Kind, Fields
<1>3. ptr \in [Vars -> Pointers] /\ heap \in [Addresses -> ObjectKinds] /\ stale[v] = {}
  BY <1>0, NoneStale DEF HandlesInv, Sound, HandleTypes
<1>4. p1[v] = IF v = d THEN Listing(d, n) ELSE ptr[v]
  BY <1>3 DEF PtrListing
<1>5. \A x \in F : x \in Addresses /\ h1[x] # "free"
  BY <1>1, <1>3 DEF Sound, AllLive, Live, Held, Kind, Fields
<1>6. found # "none" => o # n /\ heap[o] = "free" /\ h1[o] = "free" /\ o \notin F
  BY <1>0, <1>3, <1>5 DEF Fresh, HeapListing
<1>7. heap' = [x \in Addresses |-> IF x \in F THEN "free"
                                   ELSE IF x \in DOMAIN N THEN N[x] ELSE h1[x]]
  <2>1. heap' = [x \in Addresses |-> IF x \in F THEN "free"
                                     ELSE IF x \in DOMAIN new THEN new[x] ELSE heap[x]]
    BY <1>0, <1>4 DEF Replace, Deleted
  <2>2. \A x \in Addresses : (IF x \in DOMAIN new THEN new[x] ELSE heap[x])
                             = (IF x \in DOMAIN N THEN N[x] ELSE h1[x])
    BY <1>2, <1>3, <1>6 DEF HeapListing
  <2> QED BY <2>1, <2>2
<1>8. ptr' = [p1 EXCEPT ![v] = q]
  BY <1>0, <1>3 DEF PtrListing
<1>9. StaleOf(q, {}, F) = {}
  BY <1>2, <1>6 DEF StaleOf
<1>10. stale' = [x \in Vars |-> IF x = v THEN {} ELSE StaleOf(p1[x], stale[x], F)]
  <2>1. stale' = [x \in Vars |-> IF x = v THEN StaleOf(q, {}, F)
                                ELSE StaleOf(ptr[x], stale[x], F)]
    BY <1>0, <1>4 DEF Replace, Deleted
  <2>2. ASSUME NEW x \in Vars, x # v PROVE StaleOf(ptr[x], stale[x], F) = StaleOf(p1[x], stale[x], F)
    <3>1. CASE x # d
      BY <1>3, <3>1 DEF PtrListing
    <3>2. CASE x = d /\ ptr[d]["fno"] # Null
      <4>1. p1[d] = ptr[d]
        BY <1>0, <1>3, <3>2 DEF PtrListing, Listing, ForListing, Pointers
      <4> QED BY <3>2, <4>1
    <3>3. CASE x = d /\ ptr[d]["fno"] = Null
      <4>1. /\ p1[d]["fno"] = n /\ p1[d]["file"] = ptr[d]["file"] /\ p1[d]["dir"] = ptr[d]["dir"]
        BY <1>3 DEF PtrListing, Listing, Pointers, Fields
      <4>2. heap[n] = "free"
        BY <1>0, <3>3 DEF ForListing, Fresh
      <4>3. n \notin F
        <5>1. \A y \in Held(ptr[v]) : heap[y] # "free"
          BY <1>3 DEF HandlesInv, Sound, AllLive, Live, Held, Kind, Fields
        <5> QED BY <1>4, <2>2, <3>3, <4>2, <5>1
      <4>4. "fno" \notin stale[d]
        BY <3>3 DEF HandlesInv, Sound, HandleTypes
      <4> QED BY <3>3, <4>1, <4>3, <4>4 DEF StaleOf, Fields
    <3> QED BY <3>1, <3>2, <3>3
  <2> QED BY <1>9, <2>1, <2>2
<1>11. \A x \in DOMAIN N : h1[x] = "free" /\ N[x] \in ObjectKinds \ {"free"}
  BY <1>2, <1>6 DEF ObjectKinds
<1>12. Fitting(p1, stale, shared, v, N, q, {}, heap', shared')
  <2>1. \A x \in Addresses : x \in DOMAIN N => heap'[x] = N[x]
    BY <1>2, <1>6, <1>7
  <2>2. found # "none" => h1[o] = "free"
    BY <1>6
  <2> HIDE DEF h1, p1
  <2> QED BY <1>0, <1>1, <2>1, <2>2, FoundFits
<1>13. Replaced(h1, p1, stale, v, F, N, q, {}, heap', ptr', stale')
  BY <1>7, <1>8, <1>10 DEF Replaced
<1>14. DOMAIN N \subseteq Addresses
  BY <1>2
<1> HIDE DEF q, N, h1, p1, first, new
<1>15. Sound(heap', ptr', stale', shared', lost)
  BY <1>1, <1>3, <1>11, <1>12, <1>13, <1>14, ReplacedIsSound
<1> QED BY <1>0, <1>15 DEF HandlesInv

\* A File that goes out of scope frees nothing; what it held alone is lost.
LEMMA ScopeEndsStep ==
    ASSUME HandlesInv, NEW v \in Vars, ScopeEnds(v) PROVE HandlesInv'
<1>1. /\ HandleTypes(heap, ptr, stale, shared, lost) /\ AllLive(heap, ptr, stale)
      /\ Accounted(heap, ptr, stale, lost)
      /\ Alone(ptr, stale, shared) /\ NotStale(ptr, stale, shared)
  BY DEF HandlesInv, Sound
<1>2. /\ heap' = heap /\ shared' = shared \ {v}
      /\ lost' = lost \cup (Owns(ptr[v], stale[v]) \ UNION {Owns(ptr[w], stale[w]) : w \in Vars \ {v}})
  BY DEF ScopeEnds, Owned, Owns
<1>3. /\ ptr'[v] = Empty /\ stale'[v] = {}
      /\ \A w \in Vars \ {v} : ptr'[w] = ptr[w] /\ stale'[w] = stale[w]
  BY <1>1 DEF ScopeEnds, HandleTypes
<1>4. Empty \in Pointers /\ (\A k \in Fields : Empty[k] = Null) /\ Owns(Empty, {}) = {}
  BY DEF Empty, Pointers, Owns
<1>5. \A w \in Vars : \A o \in Owns(ptr[w], stale[w]) : o \in Addresses /\ heap[o] # "free"
  BY <1>1 DEF AllLive, Live, Owns, Kind, Fields
<1>6. HandleTypes(heap', ptr', stale', shared', lost')
  <2>1. ptr' \in [Vars -> Pointers] /\ stale' \in [Vars -> SUBSET Fields]
    BY <1>1, <1>4 DEF ScopeEnds, HandleTypes
  <2>2. lost' \subseteq Addresses
    BY <1>1, <1>2, <1>5 DEF HandleTypes
  <2> QED BY <1>1, <1>2, <1>3, <2>1, <2>2 DEF HandleTypes
<1>7. AllLive(heap', ptr', stale')
  BY <1>1, <1>2, <1>3, <1>4 DEF AllLive, Live
<1>8. Accounted(heap', ptr', stale', lost')
  <2>1. ASSUME NEW o \in Addresses, heap'[o] # "free", o \notin lost'
        PROVE  \E w \in Vars : o \in Owns(ptr'[w], stale'[w])
    <3>1. PICK w \in Vars : o \in Owns(ptr[w], stale[w])
      BY <1>1, <1>2, <2>1 DEF Accounted
    <3>2. PICK x \in Vars \ {v} : o \in Owns(ptr[x], stale[x])
      BY <1>2, <2>1, <3>1
    <3> QED BY <1>3, <3>2
  <2>2. ASSUME NEW o \in lost', NEW w \in Vars
        PROVE  heap'[o] # "free" /\ o \notin Owns(ptr'[w], stale'[w])
    <3>1. CASE o \in lost
      BY <1>1, <1>2, <1>3, <1>4, <3>1 DEF Accounted
    <3>2. CASE o \notin lost
      <4>1. o \in Owns(ptr[v], stale[v]) /\ \A x \in Vars \ {v} : o \notin Owns(ptr[x], stale[x])
        BY <1>2, <2>2, <3>2
      <4>2. heap[o] # "free"
        BY <1>5, <4>1
      <4>3. CASE w = v
        BY <1>2, <1>3, <1>4, <4>2, <4>3
      <4>4. CASE w # v
        BY <1>2, <1>3, <4>1, <4>2, <4>4
      <4> QED BY <4>3, <4>4
    <3> QED BY <3>1, <3>2
  <2> QED BY <2>1, <2>2 DEF Accounted
<1>9. Alone(ptr', stale', shared')
  BY <1>1, <1>2, <1>3, <1>4 DEF Alone
<1>10. NotStale(ptr', stale', shared')
  BY <1>1, <1>2, <1>3 DEF NotStale, FnoOnly
<1> QED BY <1>6, <1>7, <1>8, <1>9, <1>10 DEF HandlesInv, Sound

\* Every operation of a program keeps it.
LEMMA HandlesStep == HandlesInv /\ [HandlesNext]_handleVars => HandlesInv'
<1> SUFFICES ASSUME HandlesInv, [HandlesNext]_handleVars PROVE HandlesInv'
  OBVIOUS
<1>1. ASSUME UNCHANGED <<heap, ptr, stale, shared, lost>> PROVE HandlesInv'
  BY <1>1 DEF HandlesInv
<1>2. ASSUME NEW v \in Vars, CloseFile(v) PROVE HandlesInv'
  BY <1>1, <1>2, CloseStep DEF CloseFile, Using
<1>3. ASSUME NEW v \in Vars, NEW w \in Vars, Copy(v, w) PROVE HandlesInv'
  BY <1>1, <1>3, CopyStep DEF Copy, Using
<1>4. ASSUME NEW v \in Vars, AssignSelf(v) \/ UseFile(v) \/ Size(v) \/ RewindDirectory(v)
      PROVE  HandlesInv'
  BY <1>1, <1>4 DEF AssignSelf, UseFile, Size, RewindDirectory, Using, handleVars
<1>5. ASSUME NEW v \in Vars, NEW found \in {"none", "FIL", "DIR"}, NEW o \in Addresses,
             OpenPath(v, found, o)
      PROVE  HandlesInv'
  BY <1>1, <1>5, OpenStep DEF OpenPath, Using
<1>6. ASSUME NEW v \in Vars, NEW found \in {"none", "FIL", "DIR"}, NEW o \in Addresses,
             NEW d \in Vars, NEW n \in Addresses, OpenNextFile(v, d, n, found, o)
      PROVE  HandlesInv'
  BY <1>1, <1>6, ListedStep
<1>7. CASE UNCHANGED handleVars
  BY <1>1, <1>7 DEF handleVars
<1> QED BY <1>2, <1>3, <1>4, <1>5, <1>6, <1>7, ScopeEndsStep DEF HandlesNext

\* The inductive invariant holds throughout.
LEMMA HandlesAlways == HandlesSpec => []HandlesInv
  BY HandlesStart, HandlesStep, PTL DEF HandlesSpec

\* For every number of File variables, every heap and every program: pointers whose object
\* has not been freed lead to live objects of their kind, and each object that is allocated
\* has such a pointer to it, or went out of scope with its last File.
THEOREM FilesAreSafe == HandlesSpec => []HandlesSafe
  BY HandlesAlways, InvGivesSafe, PTL

\* A File that was never copied has no stale pointer while it is open, and no other than
\* _fno when it is closed: what a program does with other Files cannot free what it holds.
THEOREM UncopiedFilesAreSafe == HandlesSpec => []StaleByCopy
  BY HandlesAlways, InvGivesSafe, PTL
-----------------------------------------------------------------------------
(* Drives *)

Drivers == {Nobody, "sd", "mmc"}
CardEntries == [owner : SdObjects, noinit : BOOLEAN] \cup {NoEntry}
Roots == [mounted : BOOLEAN, drv : Drives, id : Nat]
FileObjects == [fs : Objects, id : Nat, by : Objects, card : Cards \cup {NoCard}]
                  \cup {Closed}
-----------------------------------------------------------------------------
(* The inductive invariants *)

TypeOK ==
    /\ impls \in [Drives -> Drivers]
    /\ scards \in [Drives -> CardEntries]
    /\ fatfs \in [Drives -> Objects \cup {Nobody}]
    /\ root \in [Objects -> Roots] /\ fsid \in Nat
    /\ pdrv \in [Objects -> Drives \cup {NoDrive}]
    /\ letter \in [Objects -> Drives \cup {Bad}]
    /\ slot \in [Objects -> Cards \cup {NoCard}] /\ ready \in BOOLEAN
    /\ begun \in [Objects -> {"no", "yes", "failed"}]

\* An object that may end names a drive, and an SDFS one drive in both places.
NamesDrive ==
    /\ \A o \in Objects : pdrv[o] # NoDrive => letter[o] \in Drives
    /\ \A o \in MmcObjects : letter[o] \in Drives
    /\ \A o \in SdObjects : pdrv[o] # NoDrive => letter[o] = pdrv[o]
    /\ \A d \in Drives : impls[d] = "mmc" => MmcObjects # {}

RegistryInv == TypeOK /\ NamesDrive /\ TablesAgree

\* Of a program that calls end behind each begin: an entry in s_cards belongs to
\* an object that has begun and names that drive, and the other way round; what
\* FatFs[] names has begun there; a mounted object's card has been in its slot since.
Linked ==
    /\ \A d \in Drives : scards[d] # NoEntry =>
          begun[scards[d].owner] # "no" /\ pdrv[scards[d].owner] = d
    /\ \A o \in SdObjects : begun[o] # "no" /\ pdrv[o] # NoDrive => scards[pdrv[o]].owner = o
    /\ \A d \in Drives : fatfs[d] \in SdObjects => scards[d].owner = fatfs[d]
    /\ \A d \in Drives : fatfs[d] \in MmcObjects =>
          /\ impls[d] = "mmc" /\ begun[fatfs[d]] = "yes"
          /\ letter[fatfs[d]] = d /\ pdrv[fatfs[d]] = d
    /\ \A o \in Objects : root[o].mounted => begun[o] # "no" /\ slot[o] # NoCard

\* Mount IDs grow, and a file with the mount ID of its volume is on the card there.
FilesKnown ==
    /\ files \in [Files -> FileObjects]
    /\ \A o \in Objects : root[o].id <= fsid
    /\ \A h \in Files : files[h] # Closed =>
          /\ files[h].id <= fsid
          /\ root[files[h].fs].mounted /\ root[files[h].fs].id = files[h].id =>
                slot[files[h].fs] = files[h].card
-----------------------------------------------------------------------------
(* What the operators yield *)

\* Drives and names are told apart.
LEMMA Distinct ==
    /\ NoDrive \notin Drives /\ Bad \notin Drives
    /\ \A e \in [owner : SdObjects, noinit : BOOLEAN] : e # NoEntry /\ e.owner \in SdObjects
    /\ Nobody \notin SdObjects /\ Nobody \notin MmcObjects
    /\ \A o \in Objects : o \in SdObjects <=> o \notin MmcObjects
  BY DriveAssumption, ObjectAssumption DEF Drives, NoDrive, Bad, NoEntry, Objects

\* The object behind a drive with a driver.
LEMMA SlotIsObject ==
    ASSUME NEW d \in Drives, NEW sc \in [Drives -> CardEntries],
           sc[d] = NoEntry => MmcObjects # {}
    PROVE  /\ Slot(d, sc) \in Objects
           /\ sc[d] # NoEntry => Slot(d, sc) = sc[d].owner
           /\ sc[d] = NoEntry => \A m \in MmcObjects : Slot(d, sc) = m
<1>1. CASE sc[d] # NoEntry
  BY <1>1, Distinct DEF Slot, CardEntries, Objects
<1>2. CASE sc[d] = NoEntry
  <2>1. (CHOOSE o \in MmcObjects : TRUE) \in MmcObjects
    BY <1>2
  <2> QED BY <2>1, <1>2, ObjectAssumption DEF Slot, Objects
<1> QED BY <1>1, <1>2

\* f_mount changes the root of the volume it unmounts, and no other.
LEMMA UnmountedRoots ==
    ASSUME TypeOK, NEW d \in Drives
    PROVE  /\ Unmounted(d) \in [Objects -> Roots]
           /\ \A o \in Objects :
                 /\ Unmounted(d)[o].drv = root[o].drv /\ Unmounted(d)[o].id = root[o].id
                 /\ Unmounted(d)[o].mounted <=> root[o].mounted /\ fatfs[d] # o
<1>1. CASE fatfs[d] = Nobody
  BY <1>1, ObjectAssumption DEF TypeOK, Unmounted
<1>2. CASE fatfs[d] # Nobody
  <2> DEFINE fs == fatfs[d]
             r == [root[fs] EXCEPT !.mounted = FALSE]
  <2>1. fs \in Objects /\ root \in [Objects -> Roots]
    BY <1>2 DEF TypeOK
  <2>2. r \in Roots /\ ~r.mounted /\ r.drv = root[fs].drv /\ r.id = root[fs].id
    BY <2>1 DEF Roots
  <2>3. Unmounted(d) = [root EXCEPT ![fs] = r]
    BY <1>2, <2>1 DEF Unmounted
  <2> HIDE DEF fs, r
  <2>4. Unmounted(d) \in [Objects -> Roots] /\ Unmounted(d)[fs] = r
        /\ \A o \in Objects : o # fs => Unmounted(d)[o] = root[o]
    BY <2>1, <2>2, <2>3
  <2> QED BY <2>1, <2>2, <2>4 DEF fs
<1> QED BY <1>1, <1>2

\* What find_volume leaves: the volume of drive d as it was, unmounted, or mounted
\* from drive d under a new ID when there is a card, and every other volume alone.
LEMMA FindVolumeResult ==
    ASSUME NEW d \in Drives, NEW fs \in Objects, fatfs'[d] = fs, fsid \in Nat,
           NEW rt \in [Objects -> Roots], NEW im \in [Drives -> Drivers],
           NEW sc \in [Drives -> CardEntries], im[d] = "sd" => sc[d] # NoEntry,
           FindVolume(d, rt, im, sc)
    PROVE  /\ root' \in [Objects -> Roots] /\ fsid' \in Nat /\ fsid <= fsid'
           /\ scards' \in [Drives -> CardEntries]
           /\ \A e \in Drives : /\ scards'[e] = NoEntry <=> sc[e] = NoEntry
                                /\ scards'[e].owner = sc[e].owner
           /\ \A o \in Objects : o # fs => root'[o] = rt[o]
           /\ \/ root'[fs] = rt[fs] /\ scards' = sc /\ fsid' = fsid
              \/ ~root'[fs].mounted /\ root'[fs].drv = d /\ root'[fs].id = rt[fs].id
              \/ /\ root'[fs].mounted /\ root'[fs].drv = d
                 /\ root'[fs].id = fsid + 1 /\ fsid' = fsid + 1
                 /\ slot[Slot(d, sc)] # NoCard /\ im[d] # Nobody
<1> DEFINE stays == rt[fs].mounted /\ IsReady(rt[fs].drv, im, sc)
           cleared == [rt EXCEPT ![fs].mounted = FALSE, ![fs].drv = d]
           up == IF im[d] = "sd" THEN [sc EXCEPT ![d].noinit = FALSE] ELSE sc
           again == [cleared EXCEPT ![fs].mounted = TRUE, ![fs].id = NextMountId]
<1>1. \/ stays /\ root' = rt /\ scards' = sc /\ fsid' = fsid
      \/ ~stays /\ root' = cleared /\ scards' = sc /\ fsid' = fsid
      \/ /\ ~stays /\ IsReady(d, im, up) /\ slot[Slot(d, sc)] # NoCard
         /\ scards' = up
         /\ \/ root' = cleared /\ fsid' = fsid
            \/ root' = again /\ fsid' = NextMountId
  BY DEF FindVolume
<1>2. /\ cleared \in [Objects -> Roots]
      /\ ~cleared[fs].mounted /\ cleared[fs].drv = d /\ cleared[fs].id = rt[fs].id
      /\ \A o \in Objects : o # fs => cleared[o] = rt[o]
  <2> DEFINE r == [rt[fs] EXCEPT !.mounted = FALSE]
             q == [r EXCEPT !.drv = d]
  <2>1. q \in Roots /\ ~q.mounted /\ q.drv = d /\ q.id = rt[fs].id
    BY DEF Roots
  <2>2. cleared = [rt EXCEPT ![fs] = q]
    OBVIOUS
  <2> QED BY <2>1, <2>2
<1>3. NextMountId = fsid + 1 /\ NextMountId \in Nat
  BY DEF NextMountId
<1>4. /\ again \in [Objects -> Roots]
      /\ again[fs].mounted /\ again[fs].drv = d /\ again[fs].id = fsid + 1
      /\ \A o \in Objects : o # fs => again[o] = rt[o]
  <2> DEFINE q == [[cleared[fs] EXCEPT !.mounted = TRUE] EXCEPT !.id = NextMountId]
  <2>1. again = [cleared EXCEPT ![fs] = q]
    BY <1>2
  <2> HIDE DEF cleared, again
  <2>2. q \in Roots /\ q.mounted /\ q.drv = d /\ q.id = fsid + 1
    BY ZenonT(40), <1>2, <1>3 DEF Roots
  <2> QED BY <1>2, <2>1, <2>2
<1>5. /\ up \in [Drives -> CardEntries]
      /\ \A e \in Drives : (up[e] = NoEntry <=> sc[e] = NoEntry) /\ up[e].owner = sc[e].owner
  <2>1. CASE im[d] = "sd"
    <3>1. sc[d] \in [owner : SdObjects, noinit : BOOLEAN]
      BY <2>1 DEF CardEntries
    <3>2. /\ [sc[d] EXCEPT !.noinit = FALSE] \in [owner : SdObjects, noinit : BOOLEAN]
          /\ [sc[d] EXCEPT !.noinit = FALSE].owner = sc[d].owner
      BY <3>1
    <3>3. up = [sc EXCEPT ![d] = [sc[d] EXCEPT !.noinit = FALSE]]
      BY <2>1
    <3> QED BY <3>1, <3>2, <3>3, Distinct DEF CardEntries
  <2>2. CASE im[d] # "sd"
    BY <2>2
  <2> QED BY <2>1, <2>2
<1>6. IsReady(d, im, up) => im[d] # Nobody
  BY DEF IsReady, Nobody
<1> HIDE DEF stays, cleared, up, again
<1> QED BY <1>1, <1>2, <1>3, <1>4, <1>5, <1>6
-----------------------------------------------------------------------------
(* The tables agree, whatever the program does *)

USE DEF TablesAgree

\* It holds of a program that has begun no object.
LEMMA RegistryInit == DrivesInit => RegistryInv
<1> SUFFICES ASSUME DrivesInit PROVE RegistryInv
  OBVIOUS
<1>1. 0 \in Drives /\ NoEntry \in CardEntries
  BY DriveAssumption DEF Drives, CardEntries
<1>2. TypeOK
  BY <1>1 DEF DrivesInit, TypeOK, Drivers, Roots
<1>3. NamesDrive
  BY <1>1 DEF DrivesInit, NamesDrive, Objects, Nobody
<1>4. DriversThere /\ MountedIsRegistered
  BY <1>1 DEF DrivesInit, DriversThere, MountedIsRegistered, Nobody
<1> QED BY <1>2, <1>3, <1>4 DEF RegistryInv

\* A drive that is taken has no volume and no card entry, and nothing is mounted from it.
LEMMA TakenIsFree ==
    ASSUME RegistryInv, NEW d \in Drives, Takes(d)
    PROVE  /\ impls[d] = Nobody /\ fatfs[d] = Nobody /\ scards[d] = NoEntry
           /\ Unmounted(d) = root
           /\ \A o \in Objects : root[o].mounted => root[o].drv # d
  BY Distinct, ObjectAssumption
  DEF RegistryInv, DriversThere, MountedIsRegistered, Takes, FreeDrives, Unmounted, Nobody

\* Steps that leave the tables and the volumes alone.
LEMMA TablesSame ==
    ASSUME RegistryInv, UNCHANGED <<tables, root>>
    PROVE  (DriversThere /\ MountedIsRegistered)'
  BY DEF RegistryInv, DriversThere, MountedIsRegistered, tables

\* SDFS::begin enters a driver, a card and a volume for the drive it takes.
LEMMA SdBeginTables ==
    ASSUME RegistryInv, NEW o \in SdObjects, NEW d \in Drives, SdBegin(o, d)
    PROVE  RegistryInv'
<1> DEFINE im == [impls EXCEPT ![d] = "sd"]
           sc == [scards EXCEPT ![d] = [owner |-> o, noinit |-> TRUE]]
           rt == [root EXCEPT ![o].mounted = FALSE]
<1>1. /\ o \in Objects /\ Takes(d) /\ impls' = im /\ fatfs' = [fatfs EXCEPT ![d] = o]
      /\ pdrv' = [pdrv EXCEPT ![o] = d] /\ letter' = [letter EXCEPT ![o] = d]
      /\ UNCHANGED <<slot, ready>>
      /\ begun' = [begun EXCEPT ![o] = IF root'[o].mounted THEN "yes" ELSE "failed"]
      /\ FindVolume(d, rt, im, sc)
  BY TakenIsFree DEF SdBegin, Registers, Registered, world, Objects
<1>2. TypeOK /\ fatfs'[d] = o
  BY <1>1 DEF RegistryInv, TypeOK
<1>3. /\ rt \in [Objects -> Roots] /\ ~rt[o].mounted /\ rt[o].id = root[o].id
      /\ \A p \in Objects : p # o => rt[p] = root[p]
  <2> DEFINE r == [root[o] EXCEPT !.mounted = FALSE]
  <2>1. r \in Roots /\ ~r.mounted /\ r.id = root[o].id
    BY <1>1, <1>2 DEF TypeOK, Roots
  <2>2. rt = [root EXCEPT ![o] = r]
    OBVIOUS
  <2> HIDE DEF r, rt
  <2> QED BY <2>1, <2>2, <1>1, <1>2 DEF TypeOK
<1>4. /\ im \in [Drives -> Drivers] /\ sc \in [Drives -> CardEntries]
      /\ im[d] = "sd" /\ sc[d].owner = o /\ sc[d] # NoEntry
      /\ \A e \in Drives : e # d => im[e] = impls[e] /\ sc[e] = scards[e]
  <2>1. [owner |-> o, noinit |-> TRUE] \in CardEntries
    BY DEF CardEntries
  <2>2. o # Nobody
    BY Distinct
  <2> QED BY <1>2, <2>1, <2>2 DEF TypeOK, Drivers, NoEntry
<1> HIDE DEF im, sc, rt
<1>5. /\ root' \in [Objects -> Roots] /\ fsid' \in Nat
      /\ scards' \in [Drives -> CardEntries]
      /\ \A e \in Drives : scards'[e] = NoEntry <=> sc[e] = NoEntry
      /\ \A p \in Objects : p # o => root'[p] = root[p]
      /\ root'[o].mounted => root'[o].drv = d
  BY <1>1, <1>2, <1>3, <1>4, FindVolumeResult DEF TypeOK
<1>6. TypeOK'
  BY <1>1, <1>2, <1>4, <1>5 DEF TypeOK
<1>7. NamesDrive'
  BY <1>1, <1>2, <1>4 DEF NamesDrive, TypeOK, RegistryInv
<1>8. DriversThere'
  <2> SUFFICES ASSUME NEW e \in Drives
               PROVE  /\ fatfs'[e] # Nobody => impls'[e] # Nobody
                      /\ impls'[e] = "sd" <=> scards'[e] # NoEntry
                      /\ fatfs'[e] # Nobody /\ root'[fatfs'[e]].mounted =>
                            impls'[root'[fatfs'[e]].drv] # Nobody
    BY DEF DriversThere
  <2>1. /\ fatfs[e] # Nobody => impls[e] # Nobody
        /\ impls[e] = "sd" <=> scards[e] # NoEntry
        /\ fatfs[e] # Nobody /\ root[fatfs[e]].mounted => impls[root[fatfs[e]].drv] # Nobody
    BY DEF RegistryInv, DriversThere
  <2>2. fatfs'[e] = IF e = d THEN o ELSE fatfs[e]
    BY <1>1, <1>2 DEF TypeOK
  <2>3. fatfs[e] # Nobody => fatfs[e] \in Objects
    BY <1>2 DEF TypeOK
  <2>4. \A x \in Drives : impls[x] # Nobody => impls'[x] # Nobody
    BY <1>1, <1>4 DEF Nobody
  <2>5. impls'[d] # Nobody
    BY <1>1, <1>4 DEF Nobody
  <2>6. \A p \in Objects : root[p].drv \in Drives
    BY <1>2 DEF TypeOK, Roots
  <2> QED BY <2>1, <2>2, <2>3, <2>4, <2>5, <2>6, <1>1, <1>4, <1>5
<1>9. MountedIsRegistered'
  <2> SUFFICES ASSUME NEW p \in Objects, root'[p].mounted PROVE fatfs'[root'[p].drv] = p
    BY DEF MountedIsRegistered
  <2>1. CASE p = o
    BY <2>1, <1>2, <1>5
  <2>2. CASE p # o
    <3>1. root'[p] = root[p] /\ root[p].drv # d /\ fatfs[root[p].drv] = p
      BY <2>2, <1>1, <1>5, TakenIsFree DEF RegistryInv, MountedIsRegistered
    <3> QED BY <3>1, <1>1, <1>2 DEF TypeOK, Roots
  <2> QED BY <2>1, <2>2
<1> QED BY <1>6, <1>7, <1>8, <1>9 DEF RegistryInv

\* Behind f_mount(NULL) the tables agree still: the drivers stay for a moment.
LEMMA UnmountTables ==
    ASSUME RegistryInv, NEW d \in Drives, Unmount(d)
    PROVE  /\ root' \in [Objects -> Roots] /\ fatfs' \in [Drives -> Objects \cup {Nobody}]
           /\ \A e \in Drives : fatfs'[e] = IF e = d THEN Nobody ELSE fatfs[e]
           /\ \A o \in Objects :
                 /\ root'[o].drv = root[o].drv /\ root'[o].id = root[o].id
                 /\ root'[o].mounted => root[o].mounted /\ root[o].drv # d
           /\ MountedIsRegistered'
<1>1. TypeOK
  BY DEF RegistryInv
<1>2. /\ root' = Unmounted(d) /\ fatfs' = [fatfs EXCEPT ![d] = Nobody]
  BY DEF Unmount
<1>3. \A o \in Objects :
         /\ root'[o].drv = root[o].drv /\ root'[o].id = root[o].id
         /\ root'[o].mounted => root[o].mounted /\ fatfs[root[o].drv] = o /\ root[o].drv # d
  BY <1>1, <1>2, UnmountedRoots DEF RegistryInv, MountedIsRegistered
<1>4. \A e \in Drives : fatfs'[e] = IF e = d THEN Nobody ELSE fatfs[e]
  BY <1>1, <1>2 DEF TypeOK
<1>5. root' \in [Objects -> Roots] /\ fatfs' \in [Drives -> Objects \cup {Nobody}]
  BY <1>1, <1>2, UnmountedRoots DEF TypeOK
<1>6. MountedIsRegistered'
  BY <1>1, <1>3, <1>4 DEF MountedIsRegistered, TypeOK, Roots
<1> QED BY <1>3, <1>4, <1>5, <1>6

\* SDFS::end unmounts the volume of the drive whose driver it removes.
LEMMA SdEndTables ==
    ASSUME RegistryInv, NEW o \in SdObjects, SdEnd(o) PROVE RegistryInv'
<1> DEFINE d == pdrv[o]
<1>1. o \in Objects /\ TypeOK /\ NamesDrive /\ DriversThere
  BY DEF Objects, RegistryInv
<1>2. d \in Drives /\ letter[o] = d
  BY <1>1 DEF SdEnd, MayEnd, TypeOK, NamesDrive
<1>3. Unmount(d) /\ Uninit(d) /\ UNCHANGED <<fsid, letter, slot, ready>>
      /\ pdrv' = [pdrv EXCEPT ![o] = NoDrive] /\ begun' = [begun EXCEPT ![o] = "no"]
  BY <1>2 DEF SdEnd, world
<1> HIDE DEF d
<1>4. /\ scards' \in [Drives -> CardEntries] /\ impls' \in [Drives -> Drivers]
      /\ \A e \in Drives : scards'[e] = IF e = d THEN NoEntry ELSE scards[e]
      /\ \A e \in Drives : impls'[e] = IF e = d /\ scards[d] # NoEntry THEN Nobody ELSE impls[e]
  BY <1>1, <1>2, <1>3 DEF Uninit, TypeOK, CardEntries, Drivers
<1>5. /\ root' \in [Objects -> Roots] /\ fatfs' \in [Drives -> Objects \cup {Nobody}]
      /\ \A e \in Drives : fatfs'[e] = IF e = d THEN Nobody ELSE fatfs[e]
      /\ \A p \in Objects :
            /\ root'[p].drv = root[p].drv
            /\ root'[p].mounted => root[p].mounted /\ root[p].drv # d
      /\ MountedIsRegistered'
  BY <1>2, <1>3, UnmountTables
<1>6. TypeOK'
  BY <1>1, <1>3, <1>4, <1>5 DEF TypeOK
<1>7. NamesDrive'
  <2>1. \A p \in Objects : pdrv'[p] = IF p = o THEN NoDrive ELSE pdrv[p]
    BY <1>1, <1>3 DEF TypeOK
  <2> QED BY <2>1, <1>1, <1>3, <1>4 DEF NamesDrive, Objects, Nobody
<1>8. DriversThere'
  <2> SUFFICES ASSUME NEW e \in Drives
               PROVE  /\ fatfs'[e] # Nobody => impls'[e] # Nobody
                      /\ impls'[e] = "sd" <=> scards'[e] # NoEntry
                      /\ fatfs'[e] # Nobody /\ root'[fatfs'[e]].mounted =>
                            impls'[root'[fatfs'[e]].drv] # Nobody
    BY DEF DriversThere
  <2>1. /\ fatfs[e] # Nobody => impls[e] # Nobody
        /\ impls[e] = "sd" <=> scards[e] # NoEntry
        /\ fatfs[e] # Nobody /\ root[fatfs[e]].mounted => impls[root[fatfs[e]].drv] # Nobody
    BY <1>1 DEF DriversThere
  <2>2. fatfs[e] # Nobody => fatfs[e] \in Objects
    BY <1>1 DEF TypeOK
  <2>3. \A p \in Objects : root[p].drv \in Drives
    BY <1>1 DEF TypeOK, Roots
  <2>4. fatfs'[e] # Nobody => impls'[e] # Nobody
    BY <2>1, <1>4, <1>5
  <2>5. impls'[e] = "sd" <=> scards'[e] # NoEntry
    BY <2>1, <1>4 DEF Nobody
  <2>6. fatfs'[e] # Nobody /\ root'[fatfs'[e]].mounted => impls'[root'[fatfs'[e]].drv] # Nobody
    BY <2>1, <2>2, <2>3, <1>4, <1>5
  <2> QED BY <2>4, <2>5, <2>6
<1> QED BY <1>5, <1>6, <1>7, <1>8 DEF RegistryInv

\* SDMMCFS::begin registers the volume and leaves it unmounted.
LEMMA MmcBeginTables ==
    ASSUME RegistryInv, NEW o \in MmcObjects, NEW d \in Drives, MmcBegin(o, d)
    PROVE  RegistryInv'
<1>1. o \in Objects /\ TypeOK /\ NamesDrive /\ DriversThere /\ MountedIsRegistered
  BY DEF Objects, RegistryInv
<1>2. /\ impls[d] = Nobody /\ fatfs[d] = Nobody /\ scards[d] = NoEntry
      /\ \A p \in Objects : root[p].mounted => root[p].drv # d
      /\ root' = [root EXCEPT ![o].mounted = FALSE]
  BY TakenIsFree DEF MmcBegin, Registered
<1>3. /\ impls' = [impls EXCEPT ![d] = "mmc"] /\ fatfs' = [fatfs EXCEPT ![d] = o]
      /\ pdrv' = [pdrv EXCEPT ![o] = d] /\ letter' = [letter EXCEPT ![o] = d]
      /\ begun' = [begun EXCEPT ![o] = "yes"] /\ ready' = TRUE
      /\ UNCHANGED <<scards, fsid, slot>>
  BY DEF MmcBegin, Registers
<1>4. /\ root' \in [Objects -> Roots] /\ ~root'[o].mounted
      /\ \A p \in Objects : p # o => root'[p] = root[p]
  <2> DEFINE r == [root[o] EXCEPT !.mounted = FALSE]
  <2>1. r \in Roots /\ ~r.mounted /\ root' = [root EXCEPT ![o] = r]
    BY <1>1, <1>2 DEF TypeOK, Roots
  <2> HIDE DEF r
  <2> QED BY <2>1, <1>1 DEF TypeOK
<1>5. TypeOK'
  BY <1>1, <1>3, <1>4 DEF TypeOK, Drivers
<1>6. NamesDrive'
  <2>1. \A p \in Objects : /\ pdrv'[p] = IF p = o THEN d ELSE pdrv[p]
                           /\ letter'[p] = IF p = o THEN d ELSE letter[p]
    BY <1>1, <1>3 DEF TypeOK
  <2> QED BY <2>1, <1>1, <1>3 DEF NamesDrive, Objects
<1>7. \A e \in Drives : /\ impls'[e] = IF e = d THEN "mmc" ELSE impls[e]
                        /\ fatfs'[e] = IF e = d THEN o ELSE fatfs[e]
  BY <1>1, <1>3 DEF TypeOK
<1>8. \A p \in Objects : root[p].drv \in Drives
  BY <1>1 DEF TypeOK, Roots
<1>9. DriversThere'
  <2> SUFFICES ASSUME NEW e \in Drives
               PROVE  /\ fatfs'[e] # Nobody => impls'[e] # Nobody
                      /\ impls'[e] = "sd" <=> scards'[e] # NoEntry
                      /\ fatfs'[e] # Nobody /\ root'[fatfs'[e]].mounted =>
                            impls'[root'[fatfs'[e]].drv] # Nobody
    BY DEF DriversThere
  <2>1. /\ fatfs[e] # Nobody => impls[e] # Nobody
        /\ impls[e] = "sd" <=> scards[e] # NoEntry
        /\ fatfs[e] # Nobody /\ root[fatfs[e]].mounted => impls[root[fatfs[e]].drv] # Nobody
    BY <1>1 DEF DriversThere
  <2>2. fatfs[e] # Nobody => fatfs[e] \in Objects
    BY <1>1 DEF TypeOK
  <2>3. fatfs'[e] # Nobody => impls'[e] # Nobody
    BY <2>1, <1>7 DEF Nobody
  <2>4. impls'[e] = "sd" <=> scards'[e] # NoEntry
    BY <2>1, <1>2, <1>3, <1>7
  <2>5. fatfs'[e] # Nobody /\ root'[fatfs'[e]].mounted => impls'[root'[fatfs'[e]].drv] # Nobody
    BY <2>1, <2>2, <1>2, <1>4, <1>7, <1>8
  <2> QED BY <2>3, <2>4, <2>5
<1>10. MountedIsRegistered'
  BY <1>1, <1>2, <1>4, <1>7, <1>8 DEF MountedIsRegistered
<1> QED BY <1>5, <1>6, <1>9, <1>10 DEF RegistryInv

\* SDMMCFS::end unmounts a volume and leaves the drivers.
LEMMA MmcEndTables ==
    ASSUME RegistryInv, NEW o \in MmcObjects, MmcEnd(o) PROVE RegistryInv'
<1> DEFINE d == letter[o]
<1>1. o \in Objects /\ TypeOK /\ NamesDrive /\ DriversThere
  BY DEF Objects, RegistryInv
<1>2. d \in Drives
  BY <1>1 DEF MmcEnd, MayEnd, NamesDrive
<1>3. Unmount(d) /\ UNCHANGED <<impls, scards, fsid, letter, slot>> /\ ready' = FALSE
      /\ pdrv' = [pdrv EXCEPT ![o] = NoDrive] /\ begun' = [begun EXCEPT ![o] = "no"]
  BY DEF MmcEnd
<1> HIDE DEF d
<1>4. /\ root' \in [Objects -> Roots] /\ fatfs' \in [Drives -> Objects \cup {Nobody}]
      /\ \A e \in Drives : fatfs'[e] = IF e = d THEN Nobody ELSE fatfs[e]
      /\ \A p \in Objects :
            /\ root'[p].drv = root[p].drv
            /\ root'[p].mounted => root[p].mounted /\ root[p].drv # d
      /\ MountedIsRegistered'
  BY <1>2, <1>3, UnmountTables
<1>5. TypeOK'
  BY <1>1, <1>3, <1>4 DEF TypeOK
<1>6. NamesDrive'
  <2>1. \A p \in Objects : pdrv'[p] = IF p = o THEN NoDrive ELSE pdrv[p]
    BY <1>1, <1>3 DEF TypeOK
  <2> QED BY <2>1, <1>1, <1>3 DEF NamesDrive, Objects
<1>7. DriversThere'
  <2>1. \A e \in Drives : fatfs[e] # Nobody => fatfs[e] \in Objects
    BY <1>1 DEF TypeOK
  <2> QED BY <2>1, <1>1, <1>3, <1>4 DEF DriversThere
<1> QED BY <1>4, <1>5, <1>6, <1>7 DEF RegistryInv

\* FS::open mounts the volume again if find_volume finds it gone.
LEMMA OpenTables ==
    ASSUME RegistryInv, NEW h \in Files, NEW o \in Objects, Open(h, o)
    PROVE  RegistryInv'
<1> DEFINE d == PathDrive(o)
           fs == fatfs[d]
<1>1. TypeOK /\ NamesDrive /\ DriversThere /\ MountedIsRegistered
  BY DEF RegistryInv
<1>2. /\ d \in Drives /\ fs \in Objects /\ fatfs' = fatfs
      /\ FindVolume(d, root, impls, scards)
      /\ UNCHANGED <<impls, pdrv, letter, begun, slot, ready>>
  BY <1>1 DEF Open, TypeOK, objects, world
<1> HIDE DEF d, fs
<1>3. /\ root \in [Objects -> Roots] /\ impls \in [Drives -> Drivers] /\ fsid \in Nat
      /\ scards \in [Drives -> CardEntries] /\ (impls[d] = "sd" => scards[d] # NoEntry)
      /\ fatfs'[d] = fs /\ impls[d] # Nobody
  BY <1>1, <1>2, ObjectAssumption DEF TypeOK, DriversThere, fs
<1>4. /\ root' \in [Objects -> Roots] /\ fsid' \in Nat
      /\ scards' \in [Drives -> CardEntries]
      /\ \A e \in Drives : scards'[e] = NoEntry <=> scards[e] = NoEntry
      /\ \A p \in Objects : p # fs => root'[p] = root[p]
      /\ root'[fs] = root[fs] \/ root'[fs].drv = d
  BY <1>2, <1>3, FindVolumeResult
<1>5. TypeOK'
  BY <1>1, <1>2, <1>4 DEF TypeOK
<1>6. NamesDrive'
  BY <1>1, <1>2 DEF NamesDrive
<1>7. MountedIsRegistered'
  BY <1>1, <1>2, <1>3, <1>4 DEF MountedIsRegistered
<1>8. DriversThere'
  <2>1. \A e \in Drives : fatfs[e] # Nobody => fatfs[e] \in Objects
    BY <1>1 DEF TypeOK
  <2> QED BY <2>1, <1>1, <1>2, <1>3, <1>4 DEF DriversThere
<1> QED BY <1>5, <1>6, <1>7, <1>8 DEF RegistryInv

\* Every call keeps it.
LEMMA RegistryNext == RegistryInv /\ [DrivesNext]_driveVars => RegistryInv'
<1> SUFFICES ASSUME RegistryInv, [DrivesNext]_driveVars PROVE RegistryInv'
  OBVIOUS
<1>1. TypeOK /\ NamesDrive
  BY DEF RegistryInv
<1>2. ASSUME UNCHANGED <<tables, root, fsid>>, UNCHANGED pdrv, UNCHANGED letter,
             slot' \in [Objects -> Cards \cup {NoCard}], ready' \in BOOLEAN,
             begun' \in [Objects -> {"no", "yes", "failed"}]
      PROVE  RegistryInv'
  <2>1. (DriversThere /\ MountedIsRegistered)'
    BY <1>2, TablesSame
  <2>2. TypeOK' /\ NamesDrive'
    BY <1>1, <1>2 DEF TypeOK, NamesDrive, tables
  <2> QED BY <2>1, <2>2 DEF RegistryInv
<1>3. ASSUME NEW o \in Objects, EndNothing(o) PROVE RegistryInv'
  BY <1>1, <1>2, <1>3 DEF EndNothing, TypeOK, world
<1>4. ASSUME NEW o \in Objects, NEW c \in Cards \cup {NoCard}, ChangeCard(o, c)
      PROVE  RegistryInv'
  BY <1>1, <1>2, <1>4 DEF ChangeCard, TypeOK, objects
<1>5. ASSUME NEW o \in SdObjects, SdBeginNoDrive(o) PROVE RegistryInv'
  <2>1. (DriversThere /\ MountedIsRegistered)'
    BY <1>5, TablesSame DEF SdBeginNoDrive
  <2>2. \A p \in Objects : /\ pdrv'[p] = IF p = o THEN NoDrive ELSE pdrv[p]
                           /\ letter'[p] = IF p = o THEN Bad ELSE letter[p]
    BY <1>1, <1>5 DEF SdBeginNoDrive, TypeOK
  <2>3. TypeOK' /\ NamesDrive'
    BY <2>2, <1>1, <1>5, Distinct DEF SdBeginNoDrive, TypeOK, NamesDrive, tables, world, Objects
  <2> QED BY <2>1, <2>3 DEF RegistryInv
<1>6. ASSUME NEW o \in MmcObjects, MmcBeginNoDrive(o) PROVE RegistryInv'
  <2>1. (DriversThere /\ MountedIsRegistered)'
    BY <1>6, TablesSame DEF MmcBeginNoDrive
  <2>2. \A p \in Objects : pdrv'[p] = IF p = o THEN NoDrive ELSE pdrv[p]
    BY <1>1, <1>6 DEF MmcBeginNoDrive, TypeOK
  <2>3. TypeOK' /\ NamesDrive'
    BY <2>2, <1>1, <1>6 DEF MmcBeginNoDrive, TypeOK, NamesDrive, tables, world, Objects
  <2> QED BY <2>1, <2>3 DEF RegistryInv
<1>7. ASSUME NEW o \in MmcObjects, NEW d \in Drives, MmcBeginFails(o, d) PROVE RegistryInv'
  <2>1. (DriversThere /\ MountedIsRegistered)'
    BY <1>7, TablesSame DEF MmcBeginFails
  <2>2. \A p \in Objects : pdrv'[p] = IF p = o THEN d ELSE pdrv[p]
    BY <1>1, <1>7 DEF MmcBeginFails, TypeOK
  <2>3. TypeOK' /\ NamesDrive'
    BY <2>2, <1>1, <1>7, Distinct DEF MmcBeginFails, TypeOK, NamesDrive, tables, Objects
  <2> QED BY <2>1, <2>3 DEF RegistryInv
<1>8. ASSUME NEW h \in Files, Close(h) PROVE RegistryInv'
  BY <1>1, <1>2, <1>8 DEF Close, TypeOK, objects, world
<1>9. CASE Busy
  BY <1>1, <1>2, <1>9 DEF Busy, TypeOK, objects
<1>10. CASE UNCHANGED driveVars
  BY <1>1, <1>2, <1>10 DEF driveVars, TypeOK, objects, world
<1> QED BY <1>3, <1>4, <1>5, <1>6, <1>7, <1>8, <1>9, <1>10, SdBeginTables, SdEndTables,
           MmcBeginTables, MmcEndTables, OpenTables DEF DrivesNext

\* It holds throughout.
LEMMA RegistryAlways == DrivesSpec => []RegistryInv
  BY RegistryInit, RegistryNext, PTL DEF DrivesSpec

\* For every number of drives and objects, and for programs that call begin and end
\* in any order: no volume in FatFs[] is without its driver in s_impls, no SPI driver
\* without its card in s_cards, and no volume mounted that f_mount does not know of
\* (ff_diskio_register, sdcard_init, sdcard_uninit, f_mount, find_volume).
THEOREM TablesAlwaysAgree == DrivesSpec => []TablesAgree
  BY RegistryAlways, PTL DEF RegistryInv
-----------------------------------------------------------------------------
(* Files, of a program that calls end behind each begin *)

FilesInv == RegistryInv /\ Linked /\ FilesKnown

\* The slot behind a drive that has a volume is the one of that volume's object.
LEMMA VolumeSlot ==
    ASSUME RegistryInv, Linked, NEW d \in Drives, fatfs[d] # Nobody
    PROVE  fatfs[d] \in Objects /\ Slot(d, scards) = fatfs[d]
<1>1. TypeOK /\ DriversThere /\ NamesDrive
  BY DEF RegistryInv
<1>2. fatfs[d] \in Objects /\ scards \in [Drives -> CardEntries]
  BY <1>1 DEF TypeOK
<1>3. CASE fatfs[d] \in SdObjects
  <2>1. scards[d].owner = fatfs[d] /\ scards[d] # NoEntry
    BY <1>3, Distinct DEF Linked, NoEntry
  <2> QED BY <2>1, <1>2 DEF Slot
<1>4. CASE fatfs[d] \in MmcObjects
  <2>1. impls[d] = "mmc"
    BY <1>4 DEF Linked
  <2>2. scards[d] = NoEntry
    BY <2>1, <1>1 DEF DriversThere
  <2>3. Slot(d, scards) = fatfs[d]
    BY <2>2, <1>2, <1>4, SlotIsObject
  <2> QED BY <2>3, <1>2
<1> QED BY <1>2, <1>3, <1>4 DEF Objects

\* A file stays known while every volume either stays mounted as it was, with its
\* slot, or is unmounted, or has got a new ID.
LEMMA FilesStay ==
    ASSUME FilesInv, files' = files, fsid \in Nat, fsid' \in Nat, fsid <= fsid',
           root' \in [Objects -> Roots],
           \A o \in Objects :
              \/ root'[o].mounted => root[o].mounted /\ slot'[o] = slot[o]
                 /\ root'[o].id = root[o].id
              \/ root'[o].id > fsid,
           \A o \in Objects : root'[o].id <= fsid'
    PROVE  FilesKnown'
<1>1. ASSUME NEW h \in Files, files[h] # Closed
      PROVE  /\ files[h].fs \in Objects /\ files[h].id \in Nat /\ files[h].id <= fsid
             /\ root[files[h].fs].mounted /\ root[files[h].fs].id = files[h].id =>
                   slot[files[h].fs] = files[h].card
  BY <1>1 DEF FilesInv, FilesKnown, FileObjects
<1>2. ASSUME NEW h \in Files, files'[h] # Closed
      PROVE  /\ files'[h].id <= fsid'
             /\ root'[files'[h].fs].mounted /\ root'[files'[h].fs].id = files'[h].id =>
                   slot'[files'[h].fs] = files'[h].card
  BY <1>1, <1>2 DEF Roots
<1> QED BY <1>2 DEF FilesInv, FilesKnown

\* It holds of a program that has begun no object.
LEMMA FilesInit == DrivesInit => FilesInv
<1> SUFFICES ASSUME DrivesInit PROVE FilesInv
  OBVIOUS
<1>1. Linked
  BY Distinct DEF DrivesInit, Linked, NoEntry, Objects
<1>2. FilesKnown
  BY DEF DrivesInit, FilesKnown, FileObjects
<1> QED BY <1>1, <1>2, RegistryInit DEF FilesInv

\* SDFS::begin: the drive is the object's in every table, and its volume is mounted
\* with a new ID or not at all.
LEMMA SdBeginFiles ==
    ASSUME ~Retries, FilesInv, NEW o \in SdObjects, NEW d \in Drives, SdBegin(o, d)
    PROVE  Linked' /\ FilesKnown'
<1> DEFINE im == [impls EXCEPT ![d] = "sd"]
           sc == [scards EXCEPT ![d] = [owner |-> o, noinit |-> TRUE]]
           rt == [root EXCEPT ![o].mounted = FALSE]
<1>1. /\ o \in Objects /\ Takes(d) /\ impls' = im /\ fatfs' = [fatfs EXCEPT ![d] = o]
      /\ pdrv' = [pdrv EXCEPT ![o] = d] /\ letter' = [letter EXCEPT ![o] = d]
      /\ UNCHANGED <<slot, files>> /\ begun[o] = "no"
      /\ begun' = [begun EXCEPT ![o] = IF root'[o].mounted THEN "yes" ELSE "failed"]
      /\ FindVolume(d, rt, im, sc)
  BY TakenIsFree DEF SdBegin, MayBegin, Registers, Registered, world, Objects, FilesInv
<1>2. TypeOK /\ DriversThere /\ RegistryInv /\ Linked /\ fatfs'[d] = o
  BY <1>1 DEF FilesInv, RegistryInv, TypeOK
<1>3. /\ rt \in [Objects -> Roots] /\ ~rt[o].mounted /\ rt[o].id = root[o].id
      /\ \A p \in Objects : p # o => rt[p] = root[p]
  <2> DEFINE r == [root[o] EXCEPT !.mounted = FALSE]
  <2>1. r \in Roots /\ ~r.mounted /\ r.id = root[o].id
    BY ZenonT(40), <1>1, <1>2 DEF TypeOK, Roots
  <2>2. rt = [root EXCEPT ![o] = r]
    OBVIOUS
  <2> HIDE DEF r, rt
  <2> QED BY <2>1, <2>2, <1>1, <1>2 DEF TypeOK
<1>4. /\ im \in [Drives -> Drivers] /\ sc \in [Drives -> CardEntries]
      /\ im[d] = "sd" /\ sc[d].owner = o /\ sc[d] # NoEntry
      /\ \A e \in Drives : e # d => im[e] = impls[e] /\ sc[e] = scards[e]
  <2>1. [owner |-> o, noinit |-> TRUE] \in CardEntries
    BY DEF CardEntries
  <2>2. o # Nobody
    BY Distinct
  <2> QED BY <1>2, <2>1, <2>2 DEF TypeOK, Drivers, NoEntry
<1>5. Slot(d, sc) = o
  BY <1>4, SlotIsObject
<1> HIDE DEF im, sc, rt
<1>6. /\ root' \in [Objects -> Roots] /\ fsid' \in Nat /\ fsid <= fsid'
      /\ \A e \in Drives : /\ scards'[e] = NoEntry <=> sc[e] = NoEntry
                           /\ scards'[e].owner = sc[e].owner
      /\ \A p \in Objects : p # o => root'[p] = root[p]
      /\ \/ ~root'[o].mounted /\ root'[o].id = root[o].id
         \/ /\ root'[o].mounted /\ root'[o].id = fsid + 1 /\ fsid' = fsid + 1
            /\ slot[o] # NoCard
  <2>1. fsid \in Nat /\ (im[d] = "sd" => sc[d] # NoEntry)
    BY <1>2, <1>4 DEF TypeOK
  <2> QED BY <1>1, <1>2, <1>3, <1>4, <1>5, <2>1, FindVolumeResult
<1>7. \A p \in Objects : /\ pdrv'[p] = IF p = o THEN d ELSE pdrv[p]
                         /\ letter'[p] = IF p = o THEN d ELSE letter[p]
                         /\ p # o => begun'[p] = begun[p]
                         /\ begun'[o] # "no"
  BY <1>1, <1>2 DEF TypeOK
<1>8. \A e \in Drives : /\ fatfs'[e] = IF e = d THEN o ELSE fatfs[e]
                        /\ impls'[e] = IF e = d THEN "sd" ELSE impls[e]
                        /\ scards'[e] = NoEntry <=> e # d /\ scards[e] = NoEntry
                        /\ scards'[e].owner = IF e = d THEN o ELSE scards[e].owner
  BY <1>1, <1>2, <1>4, <1>6 DEF TypeOK
<1>9. \A e \in Drives : scards[e] # NoEntry => scards[e].owner \in Objects
                                               /\ scards[e].owner # o
  BY <1>1, <1>2, Distinct DEF TypeOK, CardEntries, Linked, Objects
<1>10. Linked'
  <2>1. ASSUME NEW e \in Drives, scards'[e] # NoEntry
        PROVE  begun'[scards'[e].owner] # "no" /\ pdrv'[scards'[e].owner] = e
    BY <2>1, <1>1, <1>2, <1>7, <1>8, <1>9 DEF Linked
  <2>2. ASSUME NEW p \in SdObjects, begun'[p] # "no" /\ pdrv'[p] # NoDrive
        PROVE  scards'[pdrv'[p]].owner = p
    <3>1. CASE p = o
      BY <3>1, <1>1, <1>7, <1>8
    <3>2. CASE p # o
      <4>1. p \in Objects /\ pdrv[p] \in Drives /\ begun[p] # "no" /\ scards[pdrv[p]].owner = p
        BY <2>2, <3>2, <1>2, <1>7 DEF Linked, TypeOK, Objects
      <4>2. pdrv[p] # d
        BY <4>1, <1>1, <1>2, TakenIsFree, Distinct DEF NoEntry
      <4> QED BY <3>2, <4>1, <4>2, <1>7, <1>8
    <3> QED BY <3>1, <3>2
  <2>3. ASSUME NEW e \in Drives, fatfs'[e] \in SdObjects PROVE scards'[e].owner = fatfs'[e]
    BY <2>3, <1>2, <1>8 DEF Linked
  <2>4. ASSUME NEW e \in Drives, fatfs'[e] \in MmcObjects
        PROVE  /\ impls'[e] = "mmc" /\ begun'[fatfs'[e]] = "yes"
               /\ letter'[fatfs'[e]] = e /\ pdrv'[fatfs'[e]] = e
    <3>1. e # d /\ fatfs[e] \in MmcObjects /\ fatfs[e] # o /\ fatfs[e] \in Objects
      BY <2>4, <1>1, <1>8, Distinct DEF Objects
    <3> QED BY <3>1, <1>2, <1>7, <1>8 DEF Linked
  <2>5. ASSUME NEW p \in Objects, root'[p].mounted PROVE begun'[p] # "no" /\ slot'[p] # NoCard
    BY <2>5, <1>1, <1>2, <1>6, <1>7 DEF Linked
  <2> QED BY <2>1, <2>2, <2>3, <2>4, <2>5 DEF Linked
<1>11. FilesKnown'
  <2>1. \A p \in Objects : root[p].id <= fsid /\ root[p].id \in Nat
    BY <1>2 DEF FilesInv, FilesKnown, TypeOK, Roots
  <2>2. \A p \in Objects : root'[p].id <= fsid'
    BY <2>1, <1>2, <1>6 DEF TypeOK
  <2>3. \A p \in Objects :
           \/ root'[p].mounted => root[p].mounted /\ slot'[p] = slot[p]
              /\ root'[p].id = root[p].id
           \/ root'[p].id > fsid
    BY <1>1, <1>2, <1>6 DEF TypeOK
  <2>4. files' = files /\ fsid \in Nat
    BY <1>1, <1>2 DEF TypeOK
  <2> QED BY <2>2, <2>3, <2>4, <1>6, FilesStay
<1> QED BY <1>10, <1>11

\* A volume that is unmounted no file is accepted on: what end does to FatFs[].
LEMMA EndFiles ==
    ASSUME FilesInv, NEW o \in Objects, NEW d \in Drives, Unmount(d),
           UNCHANGED <<slot, files, fsid>>
    PROVE  FilesKnown' /\ \A p \in Objects : root'[p].mounted => root[p].mounted /\ root[p].drv # d
<1>1. RegistryInv /\ TypeOK
  BY DEF FilesInv, RegistryInv
<1>2. /\ root' \in [Objects -> Roots]
      /\ \A p \in Objects :
            /\ root'[p].id = root[p].id
            /\ root'[p].mounted => root[p].mounted /\ root[p].drv # d
  BY <1>1, UnmountTables
<1>3. \A p \in Objects : root'[p].id <= fsid'
  BY <1>2 DEF FilesInv, FilesKnown
<1>4. fsid \in Nat /\ fsid' \in Nat /\ fsid <= fsid'
  BY <1>1 DEF TypeOK
<1> QED BY <1>2, <1>3, <1>4, FilesStay

\* SDFS::end takes the object out of every table.
LEMMA SdEndFiles ==
    ASSUME ~Retries, FilesInv, NEW o \in SdObjects, SdEnd(o)
    PROVE  Linked' /\ FilesKnown'
<1> DEFINE d == pdrv[o]
<1>1. o \in Objects /\ TypeOK /\ NamesDrive /\ RegistryInv /\ Linked
  BY DEF Objects, FilesInv, RegistryInv
<1>2. d \in Drives /\ letter[o] = d /\ begun[o] # "no"
  BY <1>1 DEF SdEnd, MayEnd, TypeOK, NamesDrive
<1>3. Unmount(d) /\ Uninit(d) /\ UNCHANGED <<fsid, letter, slot, files>>
      /\ pdrv' = [pdrv EXCEPT ![o] = NoDrive] /\ begun' = [begun EXCEPT ![o] = "no"]
  BY <1>2 DEF SdEnd, world
<1>4. scards[d].owner = o
  BY <1>1, <1>2, Distinct DEF Linked
<1> HIDE DEF d
<1>5. FilesKnown' /\ \A p \in Objects : root'[p].mounted => root[p].mounted /\ root[p].drv # d
  BY <1>1, <1>2, <1>3, EndFiles
<1>6. \A e \in Drives : /\ fatfs'[e] = IF e = d THEN Nobody ELSE fatfs[e]
                        /\ scards'[e] = IF e = d THEN NoEntry ELSE scards[e]
                        /\ e # d => impls'[e] = impls[e]
  BY <1>1, <1>2, <1>3 DEF Uninit, Unmount, TypeOK
<1>7. \A p \in Objects : /\ pdrv'[p] = IF p = o THEN NoDrive ELSE pdrv[p]
                         /\ begun'[p] = IF p = o THEN "no" ELSE begun[p]
  BY <1>1, <1>3 DEF TypeOK
\* No other drive names the object.
<1>8. ASSUME NEW e \in Drives, e # d
      PROVE  scards[e] # NoEntry => scards[e].owner # o /\ scards[e].owner \in Objects
  <2>1. CASE scards[e] # NoEntry
    <3>1. pdrv[scards[e].owner] = e
      BY <2>1, <1>1 DEF Linked
    <3>2. scards[e].owner \in Objects
      BY <2>1, <1>1 DEF TypeOK, CardEntries, Objects
    <3> QED BY <3>1, <3>2, <1>8 DEF d
  <2> QED BY <2>1
<1>9. ASSUME NEW p \in Objects, root'[p].mounted PROVE p # o
  <2>1. root[p].mounted /\ root[p].drv # d /\ fatfs[root[p].drv] = p /\ root[p].drv \in Drives
    BY <1>1, <1>5, <1>9 DEF RegistryInv, MountedIsRegistered, TypeOK, Roots
  <2>2. p = o => scards[root[p].drv].owner = o /\ scards[root[p].drv] # NoEntry
    BY <2>1, <1>1, Distinct DEF Linked, NoEntry
  <2> QED BY <2>1, <2>2, <1>8
<1>10. Linked'
  <2>1. ASSUME NEW e \in Drives, scards'[e] # NoEntry
        PROVE  begun'[scards'[e].owner] # "no" /\ pdrv'[scards'[e].owner] = e
    BY <2>1, <1>1, <1>6, <1>7, <1>8 DEF Linked
  <2>2. ASSUME NEW p \in SdObjects, begun'[p] # "no" /\ pdrv'[p] # NoDrive
        PROVE  scards'[pdrv'[p]].owner = p
    <3>1. p # o /\ p \in Objects /\ pdrv[p] \in Drives /\ scards[pdrv[p]].owner = p
      BY <2>2, <1>1, <1>7 DEF Linked, TypeOK, Objects
    <3>2. pdrv[p] # d
      BY <3>1, <1>4
    <3> QED BY <3>1, <3>2, <1>6, <1>7
  <2>3. ASSUME NEW e \in Drives, fatfs'[e] \in SdObjects PROVE scards'[e].owner = fatfs'[e]
    BY <2>3, <1>1, <1>6, Distinct DEF Linked
  <2>4. ASSUME NEW e \in Drives, fatfs'[e] \in MmcObjects
        PROVE  /\ impls'[e] = "mmc" /\ begun'[fatfs'[e]] = "yes"
               /\ letter'[fatfs'[e]] = e /\ pdrv'[fatfs'[e]] = e
    <3>1. e # d /\ fatfs[e] \in MmcObjects /\ fatfs[e] # o /\ fatfs[e] \in Objects
      BY <2>4, <1>1, <1>6, Distinct DEF Objects
    <3> QED BY <3>1, <1>1, <1>3, <1>6, <1>7 DEF Linked
  <2>5. ASSUME NEW p \in Objects, root'[p].mounted PROVE begun'[p] # "no" /\ slot'[p] # NoCard
    BY <2>5, <1>1, <1>3, <1>5, <1>7, <1>9 DEF Linked
  <2> QED BY <2>1, <2>2, <2>3, <2>4, <2>5 DEF Linked
<1> QED BY <1>5, <1>10

\* The volume of SDMMCFS is in FatFs[] only between begin and end.
LEMMA MmcIdle ==
    ASSUME Linked, NEW o \in MmcObjects, NEW d \in Drives, begun[o] # "yes"
    PROVE  fatfs[d] # o
  BY DEF Linked

\* SDMMCFS::begin.
LEMMA MmcBeginFiles ==
    ASSUME ~Retries, FilesInv, NEW o \in MmcObjects, NEW d \in Drives, MmcBegin(o, d)
    PROVE  Linked' /\ FilesKnown'
<1>1. o \in Objects /\ TypeOK /\ RegistryInv /\ Linked
  BY DEF Objects, FilesInv, RegistryInv
<1>2. /\ impls[d] = Nobody /\ fatfs[d] = Nobody /\ scards[d] = NoEntry
      /\ root' = [root EXCEPT ![o].mounted = FALSE] /\ begun[o] = "no"
  BY <1>1, TakenIsFree DEF MmcBegin, Registered, MayBegin
<1>3. /\ impls' = [impls EXCEPT ![d] = "mmc"] /\ fatfs' = [fatfs EXCEPT ![d] = o]
      /\ pdrv' = [pdrv EXCEPT ![o] = d] /\ letter' = [letter EXCEPT ![o] = d]
      /\ begun' = [begun EXCEPT ![o] = "yes"]
      /\ UNCHANGED <<scards, fsid, slot, files>>
  BY DEF MmcBegin, Registers
<1>4. /\ root' \in [Objects -> Roots] /\ ~root'[o].mounted /\ root'[o].id = root[o].id
      /\ \A p \in Objects : p # o => root'[p] = root[p]
  <2> DEFINE r == [root[o] EXCEPT !.mounted = FALSE]
  <2>1. r \in Roots /\ ~r.mounted /\ r.id = root[o].id /\ root' = [root EXCEPT ![o] = r]
    BY <1>1, <1>2 DEF TypeOK, Roots
  <2> HIDE DEF r
  <2> QED BY <2>1, <1>1 DEF TypeOK
<1>5. \A p \in Objects : /\ pdrv'[p] = IF p = o THEN d ELSE pdrv[p]
                         /\ letter'[p] = IF p = o THEN d ELSE letter[p]
                         /\ begun'[p] = IF p = o THEN "yes" ELSE begun[p]
  BY <1>1, <1>3 DEF TypeOK
<1>6. \A e \in Drives : /\ fatfs'[e] = IF e = d THEN o ELSE fatfs[e]
                        /\ impls'[e] = IF e = d THEN "mmc" ELSE impls[e]
  BY <1>1, <1>3 DEF TypeOK
<1>7. \A e \in Drives : scards[e] # NoEntry => scards[e].owner \in Objects \ {o}
  BY <1>1, Distinct DEF TypeOK, CardEntries, Objects
<1>8. Linked'
  <2>1. ASSUME NEW e \in Drives, scards'[e] # NoEntry
        PROVE  begun'[scards'[e].owner] # "no" /\ pdrv'[scards'[e].owner] = e
    BY <2>1, <1>1, <1>3, <1>5, <1>7 DEF Linked
  <2>2. ASSUME NEW p \in SdObjects, begun'[p] # "no" /\ pdrv'[p] # NoDrive
        PROVE  scards'[pdrv'[p]].owner = p
    <3>1. p # o /\ p \in Objects
      BY Distinct DEF Objects
    <3> QED BY <2>2, <3>1, <1>1, <1>3, <1>5 DEF Linked
  <2>3. ASSUME NEW e \in Drives, fatfs'[e] \in SdObjects PROVE scards'[e].owner = fatfs'[e]
    BY <2>3, <1>1, <1>3, <1>6, Distinct DEF Linked
  <2>4. ASSUME NEW e \in Drives, fatfs'[e] \in MmcObjects
        PROVE  /\ impls'[e] = "mmc" /\ begun'[fatfs'[e]] = "yes"
               /\ letter'[fatfs'[e]] = e /\ pdrv'[fatfs'[e]] = e
    <3>1. fatfs'[e] = o
      BY <2>4, ObjectAssumption
    <3>2. e = d
      BY <3>1, <1>1, <1>2, <1>6, MmcIdle
    <3> QED BY <3>1, <3>2, <1>1, <1>5, <1>6
  <2>5. ASSUME NEW p \in Objects, root'[p].mounted PROVE begun'[p] # "no" /\ slot'[p] # NoCard
    BY <2>5, <1>1, <1>3, <1>4, <1>5 DEF Linked
  <2> QED BY <2>1, <2>2, <2>3, <2>4, <2>5 DEF Linked
<1>9. FilesKnown'
  <2>1. \A p \in Objects : root[p].id <= fsid
    BY DEF FilesInv, FilesKnown
  <2>2. \A p \in Objects : root'[p].id <= fsid'
    BY <2>1, <1>3, <1>4
  <2>3. fsid \in Nat /\ fsid' \in Nat /\ fsid <= fsid'
    BY <1>1, <1>3 DEF TypeOK
  <2>4. \A p \in Objects : root'[p].mounted => root[p].mounted /\ slot'[p] = slot[p]
                                               /\ root'[p].id = root[p].id
    BY <1>3, <1>4
  <2> QED BY <2>2, <2>3, <2>4, <1>3, <1>4, FilesStay
<1> QED BY <1>8, <1>9

\* SDMMCFS::end.
LEMMA MmcEndFiles ==
    ASSUME ~Retries, FilesInv, NEW o \in MmcObjects, MmcEnd(o)
    PROVE  Linked' /\ FilesKnown'
<1> DEFINE d == letter[o]
<1>1. o \in Objects /\ TypeOK /\ NamesDrive /\ RegistryInv /\ Linked
  BY DEF Objects, FilesInv, RegistryInv
<1>2. d \in Drives
  BY <1>1 DEF NamesDrive
<1>3. Unmount(d) /\ UNCHANGED <<impls, scards, fsid, letter, slot, files>>
      /\ pdrv' = [pdrv EXCEPT ![o] = NoDrive] /\ begun' = [begun EXCEPT ![o] = "no"]
  BY DEF MmcEnd
<1>4. \A e \in Drives : fatfs[e] = o => e = d
  BY <1>1 DEF Linked
<1> HIDE DEF d
<1>5. FilesKnown' /\ \A p \in Objects : root'[p].mounted => root[p].mounted /\ root[p].drv # d
  BY <1>1, <1>2, <1>3, EndFiles
<1>6. \A e \in Drives : fatfs'[e] = IF e = d THEN Nobody ELSE fatfs[e]
  BY <1>1, <1>2, <1>3 DEF Unmount, TypeOK
<1>7. \A p \in Objects : /\ pdrv'[p] = IF p = o THEN NoDrive ELSE pdrv[p]
                         /\ begun'[p] = IF p = o THEN "no" ELSE begun[p]
  BY <1>1, <1>3 DEF TypeOK
<1>8. Linked'
  <2>1. ASSUME NEW e \in Drives, scards'[e] # NoEntry
        PROVE  begun'[scards'[e].owner] # "no" /\ pdrv'[scards'[e].owner] = e
    <3>1. scards[e].owner \in Objects \ {o}
      BY <2>1, <1>1, <1>3, Distinct DEF TypeOK, CardEntries, Objects
    <3> QED BY <2>1, <3>1, <1>1, <1>3, <1>7 DEF Linked
  <2>2. ASSUME NEW p \in SdObjects, begun'[p] # "no" /\ pdrv'[p] # NoDrive
        PROVE  scards'[pdrv'[p]].owner = p
    BY <2>2, <1>1, <1>3, <1>7 DEF Linked, Objects
  <2>3. ASSUME NEW e \in Drives, fatfs'[e] \in SdObjects PROVE scards'[e].owner = fatfs'[e]
    BY <2>3, <1>1, <1>3, <1>6, Distinct DEF Linked
  <2>4. ASSUME NEW e \in Drives PROVE fatfs'[e] \notin MmcObjects
    <3>1. fatfs'[e] # o
      BY <1>2, <1>4, <1>6, Distinct
    <3> QED BY <3>1, ObjectAssumption
  <2>5. ASSUME NEW p \in Objects, root'[p].mounted PROVE begun'[p] # "no" /\ slot'[p] # NoCard
    <3>1. root[p].mounted /\ root[p].drv # d /\ root[p].drv \in Drives /\ fatfs[root[p].drv] = p
      BY <2>5, <1>1, <1>5 DEF RegistryInv, MountedIsRegistered, TypeOK, Roots
    <3> QED BY <3>1, <1>1, <1>3, <1>4, <1>7 DEF Linked
  <2> QED BY <2>1, <2>2, <2>3, <2>4, <2>5 DEF Linked
<1> QED BY <1>5, <1>8

\* FS::open notes the card of the volume it opens the file on, which is mounted from
\* the drive of its own object.
LEMMA OpenFiles ==
    ASSUME FilesInv, NEW h \in Files, NEW o \in Objects, Open(h, o)
    PROVE  Linked' /\ FilesKnown'
<1> DEFINE d == PathDrive(o)
           fs == fatfs[d]
           opened == [fs |-> fs, id |-> root'[fs].id, by |-> o,
                      card |-> slot[Slot(root'[fs].drv, scards')]]
<1>1. TypeOK /\ DriversThere /\ MountedIsRegistered /\ RegistryInv /\ Linked
  BY DEF FilesInv, RegistryInv
<1>2. /\ d \in Drives /\ fs # Nobody /\ fatfs' = fatfs
      /\ FindVolume(d, root, impls, scards)
      /\ files' = files \/ (root'[fs].mounted /\ files' = [files EXCEPT ![h] = opened])
      /\ UNCHANGED <<impls, pdrv, letter, begun, slot, ready>>
  BY DEF Open, objects, world
<1>3. fs \in Objects /\ Slot(d, scards) = fs
  BY <1>1, <1>2, VolumeSlot
<1> HIDE DEF d, fs
<1>4. /\ fatfs'[d] = fs /\ impls[d] # Nobody
      /\ (impls[d] = "sd" => scards[d] # NoEntry)
  BY <1>1, <1>2, <1>3, ObjectAssumption DEF DriversThere, fs
<1>5. /\ root' \in [Objects -> Roots] /\ fsid' \in Nat /\ fsid <= fsid'
      /\ \A e \in Drives : /\ scards'[e] = NoEntry <=> scards[e] = NoEntry
                           /\ scards'[e].owner = scards[e].owner
      /\ \A p \in Objects : p # fs => root'[p] = root[p]
      /\ \/ root'[fs] = root[fs] /\ scards' = scards /\ fsid' = fsid
         \/ ~root'[fs].mounted /\ root'[fs].drv = d /\ root'[fs].id = root[fs].id
         \/ /\ root'[fs].mounted /\ root'[fs].drv = d
            /\ root'[fs].id = fsid + 1 /\ fsid' = fsid + 1
            /\ slot[fs] # NoCard
  BY <1>1, <1>2, <1>3, <1>4, FindVolumeResult DEF TypeOK
<1>6. \A e \in Drives : Slot(e, scards') = Slot(e, scards)
  BY <1>5 DEF Slot
\* A mounted volume has its card, and its object has begun.
<1>7. ASSUME NEW p \in Objects, root'[p].mounted PROVE begun'[p] # "no" /\ slot'[p] # NoCard
  <2>1. CASE root[p].mounted
    BY <2>1, <1>1, <1>2 DEF Linked
  <2>2. CASE ~root[p].mounted
    <3>1. p = fs /\ slot[fs] # NoCard
      BY <2>2, <1>3, <1>5, <1>7
    <3>2. CASE fs \in SdObjects
      <4>1. scards[d].owner = fs /\ scards[d] # NoEntry
        BY <3>2, <1>1, <1>2, Distinct DEF Linked, NoEntry, fs
      <4> QED BY <3>1, <4>1, <1>1, <1>2 DEF Linked
    <3>3. CASE fs \in MmcObjects
      BY <3>1, <3>3, <1>1, <1>2 DEF Linked, fs
    <3> QED BY <3>2, <3>3, <1>3 DEF Objects
  <2> QED BY <2>1, <2>2
<1>8. Linked'
  <2>1. \A e \in Drives : scards'[e] # NoEntry =>
           begun'[scards'[e].owner] # "no" /\ pdrv'[scards'[e].owner] = e
    BY <1>1, <1>2, <1>5 DEF Linked
  <2>2. \A p \in SdObjects : begun'[p] # "no" /\ pdrv'[p] # NoDrive => scards'[pdrv'[p]].owner = p
    BY <1>1, <1>2, <1>5 DEF Linked, TypeOK, Objects
  <2>3. \A e \in Drives : fatfs'[e] \in SdObjects => scards'[e].owner = fatfs'[e]
    BY <1>1, <1>2, <1>5 DEF Linked
  <2>4. \A e \in Drives : fatfs'[e] \in MmcObjects =>
           /\ impls'[e] = "mmc" /\ begun'[fatfs'[e]] = "yes"
           /\ letter'[fatfs'[e]] = e /\ pdrv'[fatfs'[e]] = e
    BY <1>1, <1>2 DEF Linked
  <2> QED BY <2>1, <2>2, <2>3, <2>4, <1>7 DEF Linked
<1>9. \A p \in Objects : root[p].id <= fsid /\ root[p].id \in Nat
  BY <1>1 DEF FilesInv, FilesKnown, TypeOK, Roots
<1>10. fsid \in Nat
  BY <1>1 DEF TypeOK
<1>11. \A p \in Objects : root'[p].id <= fsid'
  BY <1>5, <1>9, <1>10
\* The volume just accepted is reached through the slot of its object.
<1>12. root'[fs].mounted => Slot(root'[fs].drv, scards') = fs
  <2>1. CASE root'[fs].mounted /\ root'[fs] = root[fs]
    <3>1. root[fs].drv \in Drives /\ fatfs[root[fs].drv] = fs /\ fs # Nobody
      BY <2>1, <1>1, <1>2, <1>3 DEF MountedIsRegistered, TypeOK, Roots
    <3> QED BY <2>1, <3>1, <1>1, <1>6, VolumeSlot
  <2>2. CASE root'[fs].drv = d
    BY <2>2, <1>2, <1>3, <1>6
  <2> QED BY <2>1, <2>2, <1>5
<1>13. ASSUME NEW g \in Files, files[g] # Closed
       PROVE  /\ files[g].fs \in Objects /\ files[g].id \in Nat /\ files[g].id <= fsid
              /\ root[files[g].fs].mounted /\ root[files[g].fs].id = files[g].id =>
                    slot[files[g].fs] = files[g].card
  BY <1>13 DEF FilesInv, FilesKnown, FileObjects
<1>14. ASSUME NEW g \in Files, files[g] # Closed
       PROVE  /\ files[g].id <= fsid'
              /\ root'[files[g].fs].mounted /\ root'[files[g].fs].id = files[g].id =>
                    slot'[files[g].fs] = files[g].card
  BY <1>2, <1>5, <1>10, <1>13, <1>14
<1>15. ASSUME files' = files PROVE FilesKnown'
  <2>1. files' \in [Files -> FileObjects]
    BY <1>15 DEF FilesInv, FilesKnown
  <2> QED BY <2>1, <1>15, <1>11, <1>14 DEF FilesKnown
<1>16. ASSUME root'[fs].mounted, files' = [files EXCEPT ![h] = opened] PROVE FilesKnown'
  <2>1. /\ opened.fs = fs /\ opened.id = root'[fs].id /\ opened.card = slot[fs]
        /\ opened \in FileObjects
    <3>1. slot[fs] \in Cards \cup {NoCard} /\ root'[fs].id \in Nat
      BY <1>1, <1>3, <1>5 DEF TypeOK, Roots
    <3> QED BY <3>1, <1>3, <1>12, <1>16 DEF FileObjects
  <2> HIDE DEF opened
  <2>2. files \in [Files -> FileObjects]
    BY DEF FilesInv, FilesKnown
  <2>3. \A g \in Files : files'[g] = IF g = h THEN opened ELSE files[g]
    BY <2>2, <1>16
  <2>4. files' \in [Files -> FileObjects]
    BY <2>1, <2>2, <1>16
  <2>5. ASSUME NEW g \in Files, files'[g] # Closed
        PROVE  /\ files'[g].id <= fsid'
               /\ root'[files'[g].fs].mounted /\ root'[files'[g].fs].id = files'[g].id =>
                     slot'[files'[g].fs] = files'[g].card
    BY <2>1, <2>3, <2>5, <1>2, <1>3, <1>11, <1>14
  <2> QED BY <2>4, <2>5, <1>11 DEF FilesKnown
<1>17. files' = files \/ (root'[fs].mounted /\ files' = [files EXCEPT ![h] = opened])
  BY <1>2
<1> HIDE DEF opened
<1> QED BY <1>8, <1>15, <1>16, <1>17

\* The tables do not name an object that has not begun, or has no drive.
LEMMA IdleObject ==
    ASSUME RegistryInv, Linked, NEW o \in Objects, begun[o] = "no" \/ pdrv[o] = NoDrive
    PROVE  /\ \A d \in Drives : fatfs[d] # o /\ (scards[d] # NoEntry => scards[d].owner # o)
           /\ ~root[o].mounted
<1>1. \A d \in Drives : scards[d] # NoEntry => scards[d].owner # o
  BY Distinct DEF Linked
<1>2. \A d \in Drives : fatfs[d] # o
  BY <1>1, Distinct DEF Linked, Objects, NoEntry
<1>3. ~root[o].mounted
  BY <1>2 DEF RegistryInv, MountedIsRegistered, TypeOK, Roots
<1> QED BY <1>1, <1>2, <1>3

\* Steps of such an object, or of its slot, that enter nothing in the tables.
LEMMA IdleStep ==
    ASSUME FilesInv, NEW o \in Objects, UNCHANGED <<tables, root, fsid, files>>,
           \A d \in Drives : fatfs[d] # o /\ (scards[d] # NoEntry => scards[d].owner # o),
           ~root[o].mounted,
           \A p \in Objects : p # o => /\ begun'[p] = begun[p] /\ pdrv'[p] = pdrv[p]
                                       /\ letter'[p] = letter[p] /\ slot'[p] = slot[p],
           o \in SdObjects => \/ begun'[o] = "no" \/ pdrv'[o] = NoDrive
                              \/ begun'[o] = begun[o] /\ pdrv'[o] = pdrv[o]
    PROVE  Linked' /\ FilesKnown'
<1>1. TypeOK /\ Linked
  BY DEF FilesInv, RegistryInv
<1>2. Linked'
  <2>1. \A d \in Drives : scards[d] # NoEntry => scards[d].owner \in Objects \ {o}
    BY <1>1, Distinct DEF TypeOK, CardEntries, Objects
  <2>2. \A d \in Drives : fatfs[d] \in MmcObjects => fatfs[d] \in Objects \ {o}
    BY DEF Objects
  <2>3. SdObjects \subseteq Objects
    BY DEF Objects
  <2> QED BY <2>1, <2>2, <2>3, <1>1 DEF Linked, tables
<1>3. FilesKnown'
  <2>1. /\ root' \in [Objects -> Roots] /\ fsid \in Nat /\ fsid' \in Nat /\ fsid <= fsid'
        /\ \A p \in Objects : root'[p].id <= fsid'
        /\ \A p \in Objects : root'[p].mounted =>
              root[p].mounted /\ slot'[p] = slot[p] /\ root'[p].id = root[p].id
    BY <1>1 DEF TypeOK, FilesInv, FilesKnown
  <2> QED BY <2>1, FilesStay
<1> QED BY <1>2, <1>3

\* Every call of such a program keeps it.
LEMMA FilesNext == ~Retries /\ FilesInv /\ [DrivesNext]_driveVars => FilesInv'
<1> SUFFICES ASSUME ~Retries, FilesInv, [DrivesNext]_driveVars PROVE Linked' /\ FilesKnown'
  BY RegistryNext DEF FilesInv
<1>1. TypeOK /\ Linked /\ FilesKnown /\ RegistryInv
  BY DEF FilesInv, RegistryInv
<1>2. ASSUME NEW o \in Objects, EndNothing(o) PROVE Linked' /\ FilesKnown'
  <2>1. /\ UNCHANGED <<tables, root, fsid, files, pdrv, letter, slot>>
        /\ begun' = [begun EXCEPT ![o] = "no"] /\ pdrv[o] = NoDrive
    BY <1>2 DEF EndNothing, world
  <2>2. begun'[o] = "no" /\ \A p \in Objects : p # o => begun'[p] = begun[p]
    BY <2>1, <1>1 DEF TypeOK
  <2> QED BY <2>1, <2>2, <1>1, IdleObject, IdleStep
<1>3. ASSUME NEW o \in Objects, NEW c \in Cards \cup {NoCard}, ChangeCard(o, c)
      PROVE  Linked' /\ FilesKnown'
  <2>1. /\ UNCHANGED <<tables, root, fsid, files, pdrv, letter, begun>>
        /\ slot' = [slot EXCEPT ![o] = c]
        /\ begun[o] = "no" \/ slot[o] = NoCard
    BY <1>3 DEF ChangeCard, objects
  <2>2. \A p \in Objects : p # o => slot'[p] = slot[p]
    BY <2>1, <1>1 DEF TypeOK
  <2>3. ~root[o].mounted
    BY <2>1, <1>1 DEF Linked
  <2>4. Linked'
    BY <2>1, <2>2, <2>3, <1>1 DEF Linked, tables
  <2>5. /\ root' \in [Objects -> Roots] /\ fsid \in Nat /\ fsid' \in Nat /\ fsid <= fsid'
        /\ \A p \in Objects : root'[p].id <= fsid'
        /\ \A p \in Objects : root'[p].mounted =>
              root[p].mounted /\ slot'[p] = slot[p] /\ root'[p].id = root[p].id
    BY <2>1, <2>2, <2>3, <1>1 DEF TypeOK, FilesKnown
  <2> QED BY <2>1, <2>4, <2>5, FilesStay
<1>4. ASSUME NEW o \in SdObjects, SdBeginNoDrive(o) PROVE Linked' /\ FilesKnown'
  <2>1. /\ UNCHANGED <<tables, root, fsid, files, slot>> /\ o \in Objects
        /\ pdrv' = [pdrv EXCEPT ![o] = NoDrive] /\ letter' = [letter EXCEPT ![o] = Bad]
        /\ begun' = [begun EXCEPT ![o] = "failed"] /\ begun[o] = "no"
    BY <1>4 DEF SdBeginNoDrive, MayBegin, world, Objects
  <2>2. /\ pdrv'[o] = NoDrive
        /\ \A p \in Objects : p # o => /\ begun'[p] = begun[p] /\ pdrv'[p] = pdrv[p]
                                       /\ letter'[p] = letter[p]
    BY <2>1, <1>1 DEF TypeOK
  <2> QED BY <2>1, <2>2, <1>1, IdleObject, IdleStep
<1>5. ASSUME NEW o \in MmcObjects,
             MmcBeginNoDrive(o) \/ \E d \in Drives : MmcBeginFails(o, d)
      PROVE  Linked' /\ FilesKnown'
  <2>1. /\ UNCHANGED <<tables, root, fsid, files, slot, letter>> /\ o \in Objects \ SdObjects
        /\ \E d : pdrv' = [pdrv EXCEPT ![o] = d]
        /\ begun' = [begun EXCEPT ![o] = "failed"] /\ begun[o] = "no"
    BY <1>5, Distinct DEF MmcBeginNoDrive, MmcBeginFails, MayBegin, world, Objects
  <2>2. \A p \in Objects : p # o => begun'[p] = begun[p] /\ pdrv'[p] = pdrv[p]
    BY <2>1, <1>1 DEF TypeOK
  <2> QED BY <2>1, <2>2, <1>1, IdleObject, IdleStep
<1>6. ASSUME NEW h \in Files, Close(h) PROVE Linked' /\ FilesKnown'
  <2>1. /\ UNCHANGED <<tables, root, fsid, pdrv, letter, begun, slot>>
        /\ files' = [files EXCEPT ![h] = Closed]
    BY <1>6 DEF Close, objects, world
  <2>2. /\ files' \in [Files -> FileObjects]
        /\ \A g \in Files : files'[g] # Closed => files'[g] = files[g]
    BY <2>1, <1>1 DEF FilesKnown, FileObjects
  <2> QED BY <2>1, <2>2, <1>1 DEF Linked, FilesKnown, tables
<1>7. ASSUME Busy \/ UNCHANGED driveVars PROVE Linked' /\ FilesKnown'
  <2>1. UNCHANGED <<tables, root, fsid, objects, slot, files>>
    BY <1>7 DEF Busy, driveVars, world
  <2> QED BY <2>1, <1>1 DEF Linked, FilesKnown, tables, objects
<1> QED BY <1>2, <1>3, <1>4, <1>5, <1>6, <1>7, SdBeginFiles, SdEndFiles, MmcBeginFiles,
           MmcEndFiles, OpenFiles DEF DrivesNext

\* It holds throughout.
LEMMA FilesAlways == ASSUME ~Retries PROVE DrivesSpec => []FilesInv
<1>1. FilesInv /\ [DrivesNext]_driveVars => FilesInv'
  BY FilesNext
<1> QED BY <1>1, FilesInit, PTL DEF DrivesSpec

\* For every number of drives, objects, files and cards, and programs that call end
\* behind each begin: a file that FatFs accepts is on the card it was opened on
\* (validate compares the mount ID; ++Fsid in find_volume, f_mount in begin and end).
THEOREM FilesOnTheirCard == ASSUME ~Retries PROVE DrivesSpec => []FilesReachTheirCard
<1>1. FilesInv => FilesReachTheirCard
  <2> SUFFICES ASSUME FilesInv, NEW h \in Files, Validate(h)
               PROVE  slot[Slot(root[files[h].fs].drv, scards)] = files[h].card
    BY DEF FilesReachTheirCard
  <2> DEFINE fs == files[h].fs
  <2>1. TypeOK /\ MountedIsRegistered /\ RegistryInv /\ Linked
    BY DEF FilesInv, RegistryInv
  <2>2. files[h] \in FileObjects /\ files[h] # Closed
    BY DEF Validate, FilesInv, FilesKnown
  <2>3. fs \in Objects /\ root[fs].mounted /\ slot[fs] = files[h].card
    BY <2>2 DEF Validate, FilesInv, FilesKnown, FileObjects
  <2>4. root[fs].drv \in Drives /\ fatfs[root[fs].drv] = fs /\ fs # Nobody
    BY <2>1, <2>3, ObjectAssumption DEF MountedIsRegistered, TypeOK, Roots
  <2>5. Slot(root[fs].drv, scards) = fs
    BY <2>1, <2>4, VolumeSlot
  <2> QED BY <2>3, <2>5
<1> QED BY <1>1, FilesAlways, PTL

\* ... and begin lacks a drive only if other objects have them all, as long as the
\* program leaves SDMMC alone (Seeed_SDMMC.h:24; ff_diskio_get_drive, sdcard_uninit).
THEOREM NewCardAlwaysAllowed == ASSUME ~Retries PROVE DrivesSpec => []NewSdCardAllowed
<1>1. FilesInv => NewSdCardAllowed
  <2> SUFFICES ASSUME FilesInv, \A d \in Drives : impls[d] # "mmc",
                      NEW o \in Objects, begun[o] = "no", FreeDrives = {}, NEW d \in Drives
               PROVE  \E p \in Objects \ {o} : begun[p] # "no" /\ pdrv[p] = d
    BY DEF NewSdCardAllowed, NewCardAllowed
  <2>1. TypeOK /\ DriversThere /\ Linked
    BY DEF FilesInv, RegistryInv
  <2>2. impls[d] = "sd"
    BY <2>1 DEF FreeDrives, TypeOK, Drivers
  <2>3. scards[d] # NoEntry /\ scards[d].owner \in Objects
    BY <2>1, <2>2, Distinct DEF DriversThere, TypeOK, CardEntries, Objects
  <2> QED BY <2>1, <2>3 DEF Linked
<1> QED BY <1>1, FilesAlways, PTL
-----------------------------------------------------------------------------
(* The block transfers of the SPI driver: the inductive invariant *)

ReadPlaces == {"command", "data", "stop"}
WritePlaces == {"erasecount", "command", "send", "ready", "stop", "written", "status"}

TransferTypeOK ==
    /\ DOMAIN store = Blocks
    /\ mode \in {"tran", "send", "recv"}
    /\ cpos \in Nat /\ nwr \in Nat /\ erase \in Int
    /\ call \in [op : {"read", "write", "sync"}, at : Nat, n : Nat,
                 type : Types, slow : SlowCards]
    /\ pos \in Nat /\ sec \in Nat /\ left \in Int /\ f \in Nat

\* Where each kind of call can be, and that its blocks are the card's.
Places ==
    /\ pc \in {"idle", "select"} \cup ReadPlaces \cup WritePlaces
    /\ pc = "select" => call.op = "sync"
    /\ pc \in ReadPlaces \cup WritePlaces =>
          /\ \/ call.op = "read" /\ pc \in ReadPlaces
             \/ call.op = "write" /\ pc \in WritePlaces
          /\ call.n >= 1 /\ call.at .. call.at + call.n - 1 \subseteq Blocks
          /\ DOMAIN buf = 1 .. call.n

\* The card programs with its line low, and sends with its line high, in step with the
\* call that reads.
CardBusy == prog # Nothing => busy
CardSends == mode = "send" => ~busy /\ (pc = "data" => cpos = sec)

\* A read call is as far in the buffer as on the card, and has read what is there; the
\* card is not busy any more when the first block has come.
ReadCounts ==
    pc \in ReadPlaces /\ call.op = "read" =>
        /\ pos + left = call.n /\ sec = call.at + pos /\ left >= 0
        /\ pc # "stop" => left >= 1
        /\ pos > 0 => ~busy
        /\ call.n = 1 => pos = 0
ReadSoFar ==
    pc \in ReadPlaces /\ call.op = "read" =>
        \A i \in 1 .. pos : buf[i] = store[call.at + i - 1]

\* A card that is ready in time is busy only where a write call waits for it.
InTime ==
    ~call.slow =>
        /\ late => pc = "data"
        /\ busy => call.op = "write" /\ pc \in {"send", "ready", "status"}

\* The blocks the card has been given since the last command and not reported.
Pending == IF prog = Nothing THEN 0 ELSE 1

Writes == pc \in WritePlaces /\ call.op = "write" /\ ~call.slow

\* What is left of a write call; where the card is in step with it; and that the
\* card does not count more blocks than it has been given.
WriteCounts ==
    Writes =>
        /\ pos + left = call.n /\ left >= 0
        /\ pc \notin {"ready", "status"} => left >= 1
        /\ call.n = 1 => /\ pos = 0 /\ sec = call.at
                         /\ pc \in {"command", "send", "status"}
        /\ pc \in {"erasecount", "command"} => sec = call.at + pos
        /\ pc = "send" => mode = "recv" /\ cpos = call.at + pos
        /\ call.n > 1 /\ pc \in {"send", "ready", "stop", "written"} => nwr + Pending <= pos
        /\ pc = "status" => call.n = 1 \/ left = 0

\* The blocks to erase are among those that are left; an MMC has not heard of them.
EraseLeft ==
    /\ MMC => erase = 0 /\ pc # "erasecount"
    /\ Writes /\ ~MMC /\ pc = "command" /\ call.n > 1 => erase <= left

\* What the card programs is a block of the running write call.
ProgramsOwn ==
    ~call.slow /\ prog # Nothing =>
        \E i \in 1 .. call.n : prog = [block |-> call.at + i - 1, value |-> buf[i]]

\* Block i of the call is on the card or on its way there.
OnCard(i) ==
    \/ store[call.at + i - 1] = buf[i]
    \/ prog = [block |-> call.at + i - 1, value |-> buf[i]]

\* So is each block that the call has left behind, or that was the only one and has been
\* accepted, unless the card has noted an error.
WrittenSoFar ==
    Writes /\ ~fault =>
        \A i \in 1 .. call.n : i <= pos \/ (pc = "status" /\ token = Accepted) => OnCard(i)

CardInv == TransferTypeOK /\ Places /\ CardBusy /\ CardSends
ReadInv == ReadCounts /\ ReadSoFar
WriteInv == InTime /\ WriteCounts /\ EraseLeft /\ ProgramsOwn /\ WrittenSoFar

SdInv == CardInv /\ ReadInv /\ WriteInv
-----------------------------------------------------------------------------
(* Starting a call *)

\* It holds of a card that has been initialised.
LEMMA SdStarts == Init => SdInv
  BY ModeAssumption DEF Init, SdInv, CardInv, ReadInv, WriteInv, TransferTypeOK, Places, CardBusy,
     CardSends, ReadCounts, ReadSoFar, InTime, WriteCounts, EraseLeft, ProgramsOwn,
     WrittenSoFar, Writes, ReadPlaces, WritePlaces, MMC, Nothing

\* The record of a call.
LEMMA CallFields ==
    ASSUME TransferTypeOK, NEW op \in {"read", "write", "sync"}, NEW a \in Nat, NEW n \in Nat
    PROVE  LET c == Call(op, a, n) IN
           /\ c \in [op : {"read", "write", "sync"}, at : Nat, n : Nat,
                     type : Types, slow : SlowCards]
           /\ c.op = op /\ c.at = a /\ c.n = n
           /\ c.type = call.type /\ c.slow = call.slow
  BY SMT DEF TransferTypeOK, Call

\* What Start asks of a call is what Places says of it.
LEMMA CallArguments ==
    ASSUME NEW a \in Blocks, NEW n \in 1 .. IF call.slow THEN MaxSlow ELSE MaxCount
    PROVE  a \in Nat /\ n \in Nat /\ n >= 1 /\ n <= MaxCount
  BY BlockAssumption, BoundAssumption

LEMMA DiskReadStep ==
    ASSUME SdInv, NEW a \in Nat, NEW n \in Nat, n >= 1,
           a .. a + n - 1 \subseteq Blocks, DiskRead(a, n)
    PROVE  SdInv'
<1> DEFINE c == Call("read", a, n)
<1>1. /\ pc = "idle" /\ call' = c /\ buf' = [i \in 1 .. n |-> Blank]
      /\ pos' = 0 /\ sec' = a /\ left' = n /\ f' = 0
      /\ pc' = "command" /\ late' = FALSE
      /\ UNCHANGED <<store, prog, busy, mode, cpos, nwr, erase, fault>>
  BY DEF DiskRead, Goto, card
<1>2. /\ c \in [op : {"read", "write", "sync"}, at : Nat, n : Nat,
                 type : Types, slow : SlowCards]
      /\ c.op = "read" /\ c.at = a /\ c.n = n
      /\ c.type = call.type /\ c.slow = call.slow
  BY CallFields DEF SdInv, CardInv
<1> HIDE DEF c
<1>3. CardInv'
  BY <1>1, <1>2 DEF SdInv, CardInv, TransferTypeOK, Places, CardBusy, CardSends, ReadPlaces, WritePlaces
<1>4. ReadInv'
  BY <1>1, <1>2 DEF ReadInv, ReadCounts, ReadSoFar, ReadPlaces
<1>5. WriteInv'
  BY <1>1, <1>2 DEF SdInv, CardInv, CardBusy, WriteInv, InTime, WriteCounts, EraseLeft,
     ProgramsOwn, WrittenSoFar, Writes, ReadPlaces, WritePlaces, MMC
<1> QED BY <1>3, <1>4, <1>5 DEF SdInv

LEMMA DiskWriteStep ==
    ASSUME SdInv, NEW a \in Nat, NEW n \in Nat, NEW b, n >= 1,
           a .. a + n - 1 \subseteq Blocks, DiskWrite(a, n, b)
    PROVE  SdInv'
<1> DEFINE c == Call("write", a, n)
<1>1. /\ pc = "idle" /\ call' = c /\ buf' = [i \in 1 .. n |-> b[i]]
      /\ pos' = 0 /\ sec' = a /\ left' = n /\ f' = 0
      /\ pc' = (IF n > 1 /\ ~MMC THEN "erasecount" ELSE "command") /\ late' = FALSE
      /\ UNCHANGED <<store, prog, busy, mode, cpos, nwr, erase, fault>>
  BY DEF DiskWrite, Goto, card
<1>2. /\ c \in [op : {"read", "write", "sync"}, at : Nat, n : Nat,
                 type : Types, slow : SlowCards]
      /\ c.op = "write" /\ c.at = a /\ c.n = n
      /\ c.type = call.type /\ c.slow = call.slow
  BY CallFields DEF SdInv, CardInv
<1> HIDE DEF c
<1>3. CardInv'
  BY <1>1, <1>2 DEF SdInv, CardInv, TransferTypeOK, Places, CardBusy, CardSends, ReadPlaces, WritePlaces
<1>4. ReadInv'
  BY <1>1, <1>2 DEF ReadInv, ReadCounts, ReadSoFar, ReadPlaces
<1>5. InTime' /\ ProgramsOwn' /\ WrittenSoFar'
  BY <1>1, <1>2 DEF SdInv, CardInv, CardBusy, WriteInv, InTime,
     ProgramsOwn, WrittenSoFar, Writes, WritePlaces
<1>6. WriteCounts' /\ EraseLeft'
  BY <1>1, <1>2 DEF SdInv, WriteInv, WriteCounts, EraseLeft, Writes, WritePlaces, MMC
<1> QED BY <1>3, <1>4, <1>5, <1>6 DEF SdInv, WriteInv

LEMMA DiskSyncStep == ASSUME SdInv, DiskSync PROVE SdInv'
<1> DEFINE c == Call("sync", 0, 0)
<1>1. /\ pc = "idle" /\ call' = c /\ pc' = "select" /\ late' = FALSE
      /\ UNCHANGED <<store, prog, busy, mode, cpos, nwr, erase, fault, buf, pos, sec, left, f>>
  BY DEF DiskSync, Goto, card, place
<1>2. /\ c \in [op : {"read", "write", "sync"}, at : Nat, n : Nat,
                 type : Types, slow : SlowCards]
      /\ c.op = "sync" /\ c.type = call.type /\ c.slow = call.slow
  BY CallFields DEF SdInv, CardInv
<1> HIDE DEF c
<1>3. CardInv'
  BY <1>1, <1>2 DEF SdInv, CardInv, TransferTypeOK, Places, CardBusy, CardSends, ReadPlaces, WritePlaces
<1>4. ReadInv' /\ WriteInv'
  BY <1>1, <1>2 DEF SdInv, CardInv, CardBusy, ReadInv, ReadCounts, ReadSoFar, WriteInv, InTime,
     WriteCounts, EraseLeft, ProgramsOwn, WrittenSoFar, Writes, ReadPlaces, WritePlaces, MMC
<1> QED BY <1>3, <1>4 DEF SdInv
-----------------------------------------------------------------------------
(* The card, and the places of a call *)

\* Every other step than one that starts a call.
Step == Driver \/ CardWorks \/ TimePasses

\* The variables keep their types.
LEMMA TypeStep == ASSUME SdInv, Step PROVE TransferTypeOK'
<1> USE BlockAssumption DEF SdInv, CardInv, TransferTypeOK, Places, ReadPlaces, WritePlaces
<1> USE DEF Waited, Goto, Return, AgainFrom, Restart, Resume, Answered, Multi, MMC, Commands,
            card, place, Attempts, Accepted, Rejected, WriteError, NoAnswer, NotSent,
            CrcAnswers, ErrorAnswers
<1>1. CASE Program
  BY <1>1 DEF Program
<1>2. CASE BusyEnds
  BY <1>2 DEF BusyEnds
<1>3. CASE TimePasses
  BY <1>3 DEF TimePasses
<1>4. CASE CommandAgain
  BY <1>4 DEF CommandAgain
<1>5. CASE CommandFails
  BY <1>5 DEF CommandFails
<1>6. CASE ReadCommand
  BY <1>6 DEF ReadCommand
<1>7. CASE ReadBlock
  BY <1>7 DEF ReadBlock
<1>8. CASE ReadBlockFails
  BY <1>8 DEF ReadBlockFails
<1>9. CASE StopRead
  BY <1>9 DEF StopRead
<1>10. CASE EraseCount \/ WriteCommand
  BY <1>10 DEF EraseCount, WriteCommand
<1>11. CASE SendBlock
  BY <1>11 DEF SendBlock
<1>12. CASE BlockRejected
  BY <1>12 DEF BlockRejected
<1>13. CASE BlockWriteError
  BY <1>13 DEF BlockWriteError
<1>14. CASE BlockIgnored
  BY <1>14 DEF BlockIgnored
<1>15. CASE BlockNotSent
  BY <1>15 DEF BlockNotSent
<1>16. CASE AfterBlocks
  BY <1>16 DEF AfterBlocks
<1>17. CASE StopWrite
  BY <1>17 DEF StopWrite
<1>18. CASE Written \/ Status \/ SyncEnds
  BY <1>18 DEF Written, Status, SyncEnds
<1> QED BY <1>1, <1>2, <1>3, <1>4, <1>5, <1>6, <1>7, <1>8, <1>9, <1>10, <1>11, <1>12,
       <1>13, <1>14, <1>15, <1>16, <1>17, <1>18 DEF Step, Driver, Reading, Writing,
       CardWorks

\* The calls keep to their places.
LEMMA PlacesStep == ASSUME SdInv, Step PROVE Places'
<1> USE DEF SdInv, CardInv, Places, ReadPlaces, WritePlaces
<1> USE DEF Waited, Goto, Return, AgainFrom, Restart, Resume, Answered, Multi, MMC, Commands,
            card, place, Attempts, Accepted, Rejected, WriteError, NoAnswer, NotSent,
            CrcAnswers, ErrorAnswers
<1>1. CASE Program \/ BusyEnds \/ TimePasses
  BY <1>1 DEF Program, BusyEnds, TimePasses
<1>2. CASE CommandAgain \/ CommandFails
  BY <1>2 DEF CommandAgain, CommandFails
<1>3. CASE ReadCommand \/ ReadBlock
  BY <1>3 DEF ReadCommand, ReadBlock
<1>4. CASE ReadBlockFails \/ StopRead
  BY <1>4 DEF ReadBlockFails, StopRead
<1>5. CASE EraseCount \/ WriteCommand
  BY <1>5 DEF EraseCount, WriteCommand
<1>6. CASE SendBlock \/ BlockRejected
  BY <1>6 DEF SendBlock, BlockRejected
<1>7. CASE BlockWriteError \/ BlockIgnored \/ BlockNotSent
  BY <1>7 DEF BlockWriteError, BlockIgnored, BlockNotSent
<1>8. CASE AfterBlocks \/ StopWrite
  BY <1>8 DEF AfterBlocks, StopWrite
<1>9. CASE Written \/ Status \/ SyncEnds
  BY <1>9 DEF Written, Status, SyncEnds
<1> QED BY <1>1, <1>2, <1>3, <1>4, <1>5, <1>6, <1>7, <1>8, <1>9 DEF Step, Driver,
       Reading, Writing, CardWorks

\* The card is busy when it programs and sends in step.
LEMMA CardStep == ASSUME SdInv, Step PROVE CardBusy' /\ CardSends'
<1> USE DEF SdInv, CardInv, TransferTypeOK, CardBusy, CardSends
<1> USE DEF Waited, Goto, Return, AgainFrom, Restart, Resume, Answered, Multi, MMC, Commands,
            card, place, Attempts, Accepted, Rejected, WriteError, NoAnswer, NotSent,
            CrcAnswers, ErrorAnswers
<1>1. CASE Program \/ BusyEnds \/ TimePasses
  BY <1>1 DEF Program, BusyEnds, TimePasses
<1>2. CASE CommandAgain \/ CommandFails
  BY <1>2 DEF CommandAgain, CommandFails
<1>3. CASE ReadCommand \/ ReadBlock
  BY <1>3 DEF ReadCommand, ReadBlock
<1>4. CASE ReadBlockFails \/ StopRead
  BY <1>4 DEF ReadBlockFails, StopRead
<1>5. CASE EraseCount \/ WriteCommand
  BY <1>5 DEF EraseCount, WriteCommand
<1>6. CASE SendBlock \/ BlockRejected
  BY <1>6 DEF SendBlock, BlockRejected
<1>7. CASE BlockWriteError \/ BlockIgnored \/ BlockNotSent
  BY <1>7 DEF BlockWriteError, BlockIgnored, BlockNotSent
<1>8. CASE AfterBlocks \/ StopWrite
  BY <1>8 DEF AfterBlocks, StopWrite
<1>9. CASE Written \/ Status \/ SyncEnds
  BY <1>9 DEF Written, Status, SyncEnds
<1> QED BY <1>1, <1>2, <1>3, <1>4, <1>5, <1>6, <1>7, <1>8, <1>9 DEF Step, Driver,
       Reading, Writing, CardWorks

-----------------------------------------------------------------------------
(* Reading *)

\* The buffer and the card stay in step.
LEMMA ReadCountsStep == ASSUME SdInv, Step PROVE ReadCounts'
<1> USE DEF SdInv, CardInv, TransferTypeOK, Places, ReadPlaces, WritePlaces, CardBusy,
            CardSends, ReadInv, ReadCounts
<1> USE DEF Waited, Goto, Return, AgainFrom, Restart, Resume, Answered, Multi, MMC, Commands,
            card, place, Attempts, Accepted, Rejected, WriteError, NoAnswer, NotSent,
            CrcAnswers, ErrorAnswers
<1>1. CASE Program \/ BusyEnds \/ TimePasses
  BY <1>1 DEF Program, BusyEnds, TimePasses
<1>2. CASE CommandAgain \/ CommandFails
  BY <1>2 DEF CommandAgain, CommandFails
<1>3. CASE ReadCommand
  BY <1>3 DEF ReadCommand
<1>4. CASE ReadBlock
  BY <1>4 DEF ReadBlock
<1>5. CASE ReadBlockFails
  BY <1>5 DEF ReadBlockFails
<1>6. CASE StopRead
  BY <1>6 DEF StopRead
<1>7. CASE EraseCount \/ WriteCommand
  BY <1>7 DEF EraseCount, WriteCommand
<1>8. CASE SendBlock \/ BlockRejected
  BY <1>8 DEF SendBlock, BlockRejected
<1>9. CASE BlockWriteError \/ BlockIgnored \/ BlockNotSent
  BY <1>9 DEF BlockWriteError, BlockIgnored, BlockNotSent
<1>10. CASE AfterBlocks \/ StopWrite
  BY <1>10 DEF AfterBlocks, StopWrite
<1>11. CASE Written \/ Status \/ SyncEnds
  BY <1>11 DEF Written, Status, SyncEnds
<1> QED BY <1>1, <1>2, <1>3, <1>4, <1>5, <1>6, <1>7, <1>8, <1>9, <1>10, <1>11 DEF Step,
       Driver, Reading, Writing, CardWorks

\* What has been read stays what is on the card.
LEMMA ReadSoFarStep == ASSUME SdInv, Step PROVE ReadSoFar'
<1> USE DEF SdInv, CardInv, TransferTypeOK, Places, ReadPlaces, WritePlaces, CardBusy,
            CardSends, ReadInv, ReadCounts, ReadSoFar
<1> USE DEF Waited, Goto, Return, AgainFrom, Restart, Resume, Answered, Multi, MMC, Commands,
            card, place, Attempts, Accepted, Rejected, WriteError, NoAnswer, NotSent,
            CrcAnswers, ErrorAnswers
<1>1. CASE Program
  BY <1>1 DEF Program
<1>2. CASE BusyEnds
  BY <1>2 DEF BusyEnds
<1>3. CASE TimePasses
  BY <1>3 DEF TimePasses
<1>4. CASE CommandAgain \/ CommandFails
  BY <1>4 DEF CommandAgain, CommandFails
<1>5. CASE ReadCommand
  BY <1>5 DEF ReadCommand
<1>6. CASE ReadBlock
  BY <1>6, SMTT(30) DEF ReadBlock
<1>7. CASE ReadBlockFails \/ StopRead
  BY <1>7 DEF ReadBlockFails, StopRead
<1>8. CASE EraseCount \/ WriteCommand
  BY <1>8 DEF EraseCount, WriteCommand
<1>9. CASE SendBlock \/ BlockRejected
  BY <1>9 DEF SendBlock, BlockRejected
<1>10. CASE BlockWriteError \/ BlockIgnored \/ BlockNotSent
  BY <1>10 DEF BlockWriteError, BlockIgnored, BlockNotSent
<1>11. CASE AfterBlocks \/ StopWrite
  BY <1>11 DEF AfterBlocks, StopWrite
<1>12. CASE Written \/ Status \/ SyncEnds
  BY <1>12 DEF Written, Status, SyncEnds
<1> QED BY <1>1, <1>2, <1>3, <1>4, <1>5, <1>6, <1>7, <1>8, <1>9, <1>10, <1>11, <1>12 DEF
       Step, Driver, Reading, Writing, CardWorks

-----------------------------------------------------------------------------
(* Writing *)

\* Who is ready in time is waited for.
LEMMA InTimeStep == ASSUME SdInv, Step PROVE InTime'
<1> USE DEF SdInv, CardInv, TransferTypeOK, Places, ReadPlaces, WritePlaces, CardBusy, WriteInv,
            InTime, Writes
<1> USE DEF Waited, Goto, Return, AgainFrom, Restart, Resume, Answered, Multi, MMC, Commands,
            card, place, Attempts, Accepted, Rejected, WriteError, NoAnswer, NotSent,
            CrcAnswers, ErrorAnswers
<1>1. CASE Program \/ BusyEnds \/ TimePasses
  BY <1>1 DEF Program, BusyEnds, TimePasses
<1>2. CASE CommandAgain \/ CommandFails
  BY <1>2 DEF CommandAgain, CommandFails
<1>3. CASE ReadCommand \/ ReadBlock
  BY <1>3 DEF ReadCommand, ReadBlock
<1>4. CASE ReadBlockFails \/ StopRead
  BY <1>4 DEF ReadBlockFails, StopRead
<1>5. CASE EraseCount
  BY <1>5 DEF EraseCount
<1>6. CASE WriteCommand
  BY <1>6 DEF WriteCommand
<1>7. CASE SendBlock
  BY <1>7 DEF SendBlock
<1>8. CASE BlockRejected
  BY <1>8 DEF BlockRejected
<1>9. CASE BlockWriteError
  BY <1>9 DEF BlockWriteError
<1>10. CASE BlockIgnored \/ BlockNotSent
  BY <1>10 DEF BlockIgnored, BlockNotSent
<1>11. CASE AfterBlocks
  BY <1>11 DEF AfterBlocks
<1>12. CASE StopWrite
  BY <1>12 DEF StopWrite
<1>13. CASE Written
  BY <1>13 DEF Written
<1>14. CASE Status \/ SyncEnds
  BY <1>14 DEF Status, SyncEnds
<1> QED BY <1>1, <1>2, <1>3, <1>4, <1>5, <1>6, <1>7, <1>8, <1>9, <1>10, <1>11, <1>12,
       <1>13, <1>14 DEF Step, Driver, Reading, Writing, CardWorks

\* A block with its contents is something.
LEMMA NotNothing == \A a, v : [block |-> a, value |-> v] # Nothing
<1> SUFFICES ASSUME NEW a, NEW v PROVE DOMAIN [block |-> a, value |-> v] # DOMAIN Nothing
  OBVIOUS
<1>1. "block" \in DOMAIN [block |-> a, value |-> v]
  OBVIOUS
<1>2. DOMAIN Nothing = {}
  BY DEF Nothing
<1> QED BY <1>1, <1>2

\* The card takes the next block of the buffer to where it belongs.
LEMMA BlockSent ==
    ASSUME SdInv, SendBlock, ~call.slow
    PROVE  /\ pc = "send" /\ call.op = "write" /\ ~fault /\ prog = Nothing
           /\ pos + 1 \in 1 .. call.n
           /\ prog' = [block |-> call.at + pos, value |-> buf[pos + 1]]
           /\ cpos' = cpos + 1 /\ UNCHANGED <<store, call, buf, nwr, fault, sec>>
           /\ \/ /\ call.n = 1 /\ pos = 0 /\ left = 1
                 /\ pos' = 0 /\ left' = 1 /\ pc' = "status"
              \/ /\ call.n > 1 /\ pos' = pos + 1 /\ left' = left - 1 /\ mode' = "recv"
                 /\ pc' = IF left = 1 THEN "ready" ELSE "send"
<1>1. /\ pc = "send" /\ ~busy /\ mode = "recv" /\ ~fault
      /\ prog' = [block |-> cpos, value |-> Data]
      /\ cpos' = cpos + 1 /\ UNCHANGED <<store, call, buf, nwr, fault>>
  BY DEF SendBlock
<1>2. /\ call.op = "write" /\ prog = Nothing
      /\ call.at \in Nat /\ call.n \in Nat /\ call.n >= 1 /\ pos \in Nat /\ left \in Int
  BY <1>1 DEF SdInv, CardInv, TransferTypeOK, Places, CardBusy, ReadPlaces, WritePlaces
<1>3. /\ pos + left = call.n /\ left >= 1 /\ cpos = call.at + pos
      /\ call.n = 1 => pos = 0
  BY <1>1, <1>2 DEF SdInv, WriteInv, WriteCounts, Writes, WritePlaces
<1>4. pos < call.n /\ Data = buf[pos + 1]
  BY <1>2, <1>3 DEF Data
<1>5. CASE Multi
  BY <1>1, <1>2, <1>3, <1>4, <1>5 DEF SendBlock, Answered, Goto, Multi
<1>6. CASE ~Multi
  BY <1>1, <1>2, <1>3, <1>4, <1>6, SMT DEF SendBlock, Answered, Goto, Multi, place, Accepted,
     Rejected, WriteError
<1> QED BY <1>5, <1>6

\* A write call goes on where the card has got to.
LEMMA WriteCountsStep == ASSUME SdInv, Step PROVE WriteCounts'
<1> USE DEF SdInv, CardInv, TransferTypeOK, Places, ReadPlaces, WritePlaces, CardBusy, WriteInv,
            InTime, Writes, WriteCounts, Pending
<1> USE DEF Waited, Goto, Return, AgainFrom, Restart, Resume, Answered, Multi, MMC, Commands,
            card, place, Attempts, Accepted, Rejected, WriteError, NoAnswer, NotSent,
            CrcAnswers, ErrorAnswers
<1>1. CASE Program
  BY <1>1 DEF Program
<1>2. CASE BusyEnds
  BY <1>2 DEF BusyEnds
<1>3. CASE TimePasses
  BY <1>3 DEF TimePasses
<1>4. CASE CommandAgain
  BY <1>4 DEF CommandAgain
<1>5. CASE CommandFails
  BY <1>5 DEF CommandFails
<1>6. CASE ReadCommand \/ ReadBlock
  BY <1>6 DEF ReadCommand, ReadBlock
<1>7. CASE ReadBlockFails \/ StopRead
  BY <1>7 DEF ReadBlockFails, StopRead
<1>8. CASE EraseCount
  BY <1>8 DEF EraseCount
<1>9. CASE WriteCommand
  BY <1>9 DEF WriteCommand
<1>10. CASE SendBlock
  <2> SUFFICES ASSUME ~call.slow PROVE WriteCounts'
    BY <1>10 DEF SendBlock
  <2>1. Pending' <= 1 /\ Pending = 0 /\ Pending' \in Nat
    BY BlockSent, <1>10
  <2>2. /\ pc = "send" /\ call.op = "write" /\ pos + left = call.n /\ left >= 1
        /\ cpos = call.at + pos /\ sec \in Nat /\ nwr \in Nat
        /\ call.n > 1 => nwr <= pos
        /\ call.n = 1 => sec = call.at
    BY BlockSent, <1>10, <2>1
  <2>3. call.n \in Nat /\ call.at \in Nat /\ call.n >= 1 /\ pos \in Nat /\ left \in Int
        /\ Writes /\ Writes' = (pc' \in WritePlaces)
    BY BlockSent, <1>10
  <2> HIDE DEF Pending, SdInv, Writes
  <2> QED BY BlockSent, <1>10, <2>1, <2>2, <2>3
<1>11. CASE BlockRejected
  BY <1>11 DEF BlockRejected
<1>12. CASE BlockWriteError
  BY <1>12 DEF BlockWriteError
<1>13. CASE BlockIgnored \/ BlockNotSent
  BY <1>13 DEF BlockIgnored, BlockNotSent
<1>14. CASE AfterBlocks
  BY <1>14 DEF AfterBlocks
<1>15. CASE StopWrite
  BY <1>15 DEF StopWrite
<1>16. CASE Written
  BY <1>16 DEF Written
<1>17. CASE Status \/ SyncEnds
  BY <1>17 DEF Status, SyncEnds
<1> QED BY <1>1, <1>2, <1>3, <1>4, <1>5, <1>6, <1>7, <1>8, <1>9, <1>10, <1>11, <1>12,
       <1>13, <1>14, <1>15, <1>16, <1>17 DEF Step, Driver, Reading, Writing, CardWorks

\* No more blocks are announced than are left.
LEMMA EraseLeftStep == ASSUME SdInv, Step PROVE EraseLeft'
<1> USE DEF SdInv, CardInv, TransferTypeOK, Places, ReadPlaces, WritePlaces, CardBusy, WriteInv,
            InTime, Writes, WriteCounts, EraseLeft
<1> USE DEF Waited, Goto, Return, AgainFrom, Restart, Resume, Answered, Multi, MMC, Commands,
            card, place, Attempts, Accepted, Rejected, WriteError, NoAnswer, NotSent,
            CrcAnswers, ErrorAnswers
<1>1. CASE Program \/ BusyEnds \/ TimePasses
  BY <1>1 DEF Program, BusyEnds, TimePasses
<1>2. CASE CommandAgain \/ CommandFails
  BY <1>2 DEF CommandAgain, CommandFails
<1>3. CASE ReadCommand \/ ReadBlock
  BY <1>3 DEF ReadCommand, ReadBlock
<1>4. CASE ReadBlockFails \/ StopRead
  BY <1>4 DEF ReadBlockFails, StopRead
<1>5. CASE EraseCount
  BY <1>5 DEF EraseCount
<1>6. CASE WriteCommand
  BY <1>6 DEF WriteCommand
<1>7. CASE SendBlock
  BY <1>7 DEF SendBlock
<1>8. CASE BlockRejected
  BY <1>8 DEF BlockRejected
<1>9. CASE BlockWriteError
  BY <1>9 DEF BlockWriteError
<1>10. CASE BlockIgnored \/ BlockNotSent
  BY <1>10 DEF BlockIgnored, BlockNotSent
<1>11. CASE AfterBlocks
  BY <1>11 DEF AfterBlocks
<1>12. CASE StopWrite
  BY <1>12 DEF StopWrite
<1>13. CASE Written
  BY <1>13 DEF Written
<1>14. CASE Status \/ SyncEnds
  BY <1>14 DEF Status, SyncEnds
<1> QED BY <1>1, <1>2, <1>3, <1>4, <1>5, <1>6, <1>7, <1>8, <1>9, <1>10, <1>11, <1>12,
       <1>13, <1>14 DEF Step, Driver, Reading, Writing, CardWorks

\* The card is given blocks of the call.
LEMMA ProgramsOwnStep == ASSUME SdInv, Step PROVE ProgramsOwn'
<1> USE DEF SdInv, CardInv, TransferTypeOK, Places, ReadPlaces, WritePlaces, CardBusy, WriteInv,
            InTime, Writes, WriteCounts, ProgramsOwn, Data
<1> USE DEF Waited, Goto, Return, AgainFrom, Restart, Resume, Answered, Multi, MMC, Commands,
            card, place, Attempts, Accepted, Rejected, WriteError, NoAnswer, NotSent,
            CrcAnswers, ErrorAnswers
<1>1. CASE Program \/ BusyEnds \/ TimePasses
  BY <1>1 DEF Program, BusyEnds, TimePasses
<1>2. CASE CommandAgain \/ CommandFails
  BY <1>2 DEF CommandAgain, CommandFails
<1>3. CASE ReadCommand \/ ReadBlock
  BY <1>3 DEF ReadCommand, ReadBlock
<1>4. CASE ReadBlockFails \/ StopRead
  BY <1>4 DEF ReadBlockFails, StopRead
<1>5. CASE EraseCount
  BY <1>5 DEF EraseCount
<1>6. CASE WriteCommand
  BY <1>6 DEF WriteCommand
<1>7. CASE SendBlock
  <2> SUFFICES ASSUME ~call.slow PROVE ProgramsOwn'
    BY <1>7 DEF SendBlock
  <2> DEFINE i == pos + 1
  <2>1. i \in 1 .. call.n /\ call.at + i - 1 = call.at + pos
    BY BlockSent, <1>7, SMT
  <2> QED BY BlockSent, <1>7, <2>1
<1>8. CASE BlockRejected
  BY <1>8 DEF BlockRejected
<1>9. CASE BlockWriteError
  BY <1>9 DEF BlockWriteError
<1>10. CASE BlockIgnored \/ BlockNotSent
  BY <1>10 DEF BlockIgnored, BlockNotSent
<1>11. CASE AfterBlocks
  BY <1>11 DEF AfterBlocks
<1>12. CASE StopWrite
  BY <1>12 DEF StopWrite
<1>13. CASE Written
  BY <1>13 DEF Written
<1>14. CASE Status \/ SyncEnds
  BY <1>14 DEF Status, SyncEnds
<1> QED BY <1>1, <1>2, <1>3, <1>4, <1>5, <1>6, <1>7, <1>8, <1>9, <1>10, <1>11, <1>12,
       <1>13, <1>14 DEF Step, Driver, Reading, Writing, CardWorks

\* What has been written stays so.
LEMMA WrittenSoFarStep == ASSUME SdInv, Step PROVE WrittenSoFar'
<1> USE DEF SdInv, CardInv, TransferTypeOK, Places, ReadPlaces, WritePlaces, CardBusy, WriteInv,
            InTime, Writes, WriteCounts, EraseLeft, ProgramsOwn, WrittenSoFar, OnCard,
            Data
<1> USE DEF Waited, Goto, Return, AgainFrom, Restart, Resume, Answered, Multi, MMC, Commands,
            card, place, Attempts, Accepted, Rejected, WriteError, NoAnswer, NotSent,
            CrcAnswers, ErrorAnswers
<1>1. CASE Program
  <2> SUFFICES ASSUME Writes, ~fault, ~fault', NEW i \in 1 .. call.n,
                      i <= pos \/ (pc = "status" /\ token = Accepted)
               PROVE  OnCard(i)'
    BY <1>1 DEF Program
  <2>1. OnCard(i)
    OBVIOUS
  <2>2. PICK j \in 1 .. call.n : prog = [block |-> call.at + j - 1, value |-> buf[j]]
    BY <1>1 DEF Program
  <2>3. /\ store' = [store EXCEPT ![call.at + j - 1] = buf[j]]
        /\ UNCHANGED <<call, buf>>
    BY <1>1, <2>2 DEF Program
  <2>4. call.at + i - 1 \in DOMAIN store
    <3>1. call.at + i - 1 \in call.at .. call.at + call.n - 1
      OBVIOUS
    <3> QED BY <3>1
  <2>5. CASE i = j
    BY <2>3, <2>4, <2>5
  <2>6. CASE i # j
    <3>1. call.at + i - 1 # call.at + j - 1
      BY <2>6
    <3>2. prog # [block |-> call.at + i - 1, value |-> buf[i]]
      BY <2>2, <3>1
    <3> QED BY <2>1, <2>3, <2>4, <3>1, <3>2
  <2> QED BY <2>5, <2>6
<1>2. CASE BusyEnds \/ TimePasses
  BY <1>2 DEF BusyEnds, TimePasses
<1>3. CASE CommandAgain
  BY <1>3 DEF CommandAgain
<1>4. CASE CommandFails
  BY <1>4 DEF CommandFails
<1>5. CASE ReadCommand \/ ReadBlock
  BY <1>5 DEF ReadCommand, ReadBlock
<1>6. CASE ReadBlockFails \/ StopRead
  BY <1>6 DEF ReadBlockFails, StopRead
<1>7. CASE EraseCount
  BY <1>7 DEF EraseCount
<1>8. CASE WriteCommand
  BY <1>8, SMTT(30) DEF WriteCommand
<1>9. CASE SendBlock
  <2> SUFFICES ASSUME ~call.slow, NEW i \in 1 .. call.n,
                      i <= pos' \/ pc' = "status"
               PROVE  OnCard(i)'
    BY <1>9 DEF SendBlock
  <2>1. i <= pos \/ i = pos + 1
    <3>1. pos \in Nat
      OBVIOUS
    <3> HIDE DEF SdInv
    <3> QED BY BlockSent, <1>9, <3>1
  <2>2. CASE i <= pos
    <3>1. OnCard(i)
      BY BlockSent, <1>9, <2>2
    <3>2. store[call.at + i - 1] = buf[i]
      BY BlockSent, NotNothing, <1>9, <3>1
    <3> QED BY BlockSent, <1>9, <3>2
  <2>3. CASE i = pos + 1
    BY BlockSent, <1>9, <2>3, SMT
  <2> QED BY <2>1, <2>2, <2>3
<1>10. CASE BlockRejected
  <2>1. /\ pos' \in {0, pos} /\ ~(pc' = "status" /\ token' = Accepted)
        /\ UNCHANGED <<store, prog, call, buf, fault>>
        /\ pc = "send" /\ call.op = "write" /\ pos \in Nat
    BY <1>10 DEF BlockRejected
  <2>2. ASSUME Writes, ~fault, NEW i \in 1 .. call.n, i <= pos PROVE OnCard(i)'
    BY <2>1, <2>2
  <2> HIDE DEF SdInv, OnCard
  <2> QED BY <2>1, <2>2
<1>11. CASE BlockWriteError
  BY <1>11 DEF BlockWriteError
<1>12. CASE BlockIgnored \/ BlockNotSent
  BY <1>12 DEF BlockIgnored, BlockNotSent
<1>13. CASE AfterBlocks
  BY <1>13 DEF AfterBlocks
<1>14. CASE StopWrite
  BY <1>14 DEF StopWrite
<1>15. CASE Written
  <2> SUFFICES ASSUME Writes, ~fault, NEW i \in 1 .. call.n, i <= pos'
               PROVE  OnCard(i)
    BY <1>15 DEF Written
  <2>1. pos' \in {0, nwr} /\ nwr <= pos
    BY <1>15 DEF Written, Pending
  <2>2. i <= pos
    BY <2>1
  <2> QED BY <2>2
<1>16. CASE Status \/ SyncEnds
  BY <1>16 DEF Status, SyncEnds
<1> QED BY <1>1, <1>2, <1>3, <1>4, <1>5, <1>6, <1>7, <1>8, <1>9, <1>10, <1>11, <1>12,
       <1>13, <1>14, <1>15, <1>16 DEF Step, Driver, Reading, Writing, CardWorks

-----------------------------------------------------------------------------
(* The invariant, and what it is for *)

\* Each step of a driver and its card keeps it.
LEMMA SdNext == SdInv /\ [Next]_vars => SdInv'
<1> SUFFICES ASSUME SdInv, [Next]_vars PROVE SdInv'
  OBVIOUS
<1>1. CASE Start
  <2>1. CASE DiskSync
    BY <2>1, DiskSyncStep
  <2>2. ASSUME NEW a \in Blocks, NEW n \in 1 .. IF call.slow THEN MaxSlow ELSE MaxCount,
               a .. a + n - 1 \subseteq Blocks,
               DiskRead(a, n) \/ \E b \in Buffers : DiskWrite(a, n, b)
        PROVE  SdInv'
    BY <2>2, CallArguments, DiskReadStep, DiskWriteStep
  <2> QED BY <1>1, <2>1, <2>2 DEF Start
<1>2. CASE Step
  BY <1>2, TypeStep, PlacesStep, CardStep, ReadCountsStep, ReadSoFarStep, InTimeStep,
     WriteCountsStep, EraseLeftStep, ProgramsOwnStep, WrittenSoFarStep
     DEF SdInv, CardInv, ReadInv, WriteInv
<1>3. CASE UNCHANGED vars
  BY <1>3 DEF vars, card, place, SdInv, CardInv, ReadInv, WriteInv, TransferTypeOK, Places, CardBusy,
     CardSends, ReadCounts, ReadSoFar, InTime, WriteCounts, EraseLeft, ProgramsOwn,
     WrittenSoFar, OnCard, Writes, Pending, MMC
<1> QED BY <1>1, <1>2, <1>3 DEF Next, Step

\* The invariant holds for every card.
THEOREM SdInvHolds == Spec => []SdInv
<1>1. Init => SdInv
  BY SdStarts
<1>2. SdInv /\ [Next]_vars => SdInv'
  BY SdNext
<1> QED BY <1>1, <1>2, PTL DEF Spec

\* sdWriteSectors sends no block from behind the caller's buffer, wherever the calls go on
\* after a rejected block: the count of the blocks that the card has written is below
\* that of the blocks to write.
THEOREM BufferNotLeft == Spec => []StaysInBuffer
<1>1. SdInv => StaysInBuffer
  BY DEF SdInv, CardInv, TransferTypeOK, Places, WriteInv, WriteCounts, Writes, StaysInBuffer,
     ReadPlaces, WritePlaces
<1> QED BY <1>1, SdInvHolds, PTL

\* A step that ends a read call with success has read its last block.
LEMMA ReadEnds ==
    ASSUME SdInv, Next, Ends("read"), NEW i \in 1 .. call.n
    PROVE  buf'[i] = store[call.at + i - 1]
<1>1. /\ pc \in ReadPlaces /\ pc # "idle" /\ pc' = "idle" /\ res' = "OK"
      /\ call.op = "read" /\ DOMAIN buf = 1 .. call.n /\ call.at \in Nat /\ call.n \in Nat
      /\ pos + left = call.n /\ sec = call.at + pos /\ pos \in Nat
      /\ mode = "send" /\ pc = "data" => cpos = sec
      /\ call.n = 1 => pos = 0
      /\ \A j \in 1 .. pos : buf[j] = store[call.at + j - 1]
  <2>1. pc # "idle" /\ pc' = "idle" /\ res' = "OK" /\ call.op = "read"
    BY DEF Ends
  <2>2. Next => pc # "select"
    BY <2>1 DEF SdInv, CardInv, Places
  <2> QED BY <2>1, <2>2 DEF SdInv, CardInv, TransferTypeOK, Places, CardSends, ReadInv, ReadCounts,
             ReadSoFar, ReadPlaces, WritePlaces
<1>2. ReadBlock \/ (StopRead /\ left = 0)
  <2>1. ~Start /\ ~CardWorks /\ ~TimePasses /\ ~CommandAgain
    BY <1>1 DEF Start, DiskSync, DiskRead, DiskWrite, CardWorks, Program, BusyEnds,
       TimePasses, CommandAgain
  <2>2. ~CommandFails /\ ~ReadCommand /\ ~ReadBlockFails
    BY <1>1 DEF CommandFails, ReadCommand, ReadBlockFails, AgainFrom, Return, Goto, ReadPlaces
  <2>3. StopRead => left = 0
    BY <1>1 DEF StopRead, Return, Goto
  <2>4. ~Writing /\ ~BlockRejected /\ ~SyncEnds
    BY <1>1 DEF Writing, EraseCount, WriteCommand, SendBlock, BlockRejected, BlockWriteError,
       BlockIgnored, BlockNotSent, AfterBlocks, StopWrite, Written, Status, SyncEnds, ReadPlaces
  <2> QED BY <2>1, <2>2, <2>3, <2>4 DEF Next, Driver, Reading
<1>3. CASE StopRead /\ left = 0
  BY <1>1, <1>3 DEF StopRead
<1>4. CASE ReadBlock
  <2>1. call.n = 1
    BY <1>1, <1>4 DEF ReadBlock, Multi, Goto, SdInv, CardInv, Places, ReadPlaces
  <2> QED BY <1>1, <1>4, <2>1 DEF ReadBlock
<1> QED BY <1>2, <1>3, <1>4

\* A read call that has reported success has given the program the blocks it asked for,
\* in order, although a multiple read goes on in the middle after an error.
THEOREM BlocksAreRead == Spec => ReadReported
<1>1. SdInv /\ [Next]_vars =>
         [Ends("read") => \A i \in 1 .. call.n : buf'[i] = store[call.at + i - 1]]_vars
  BY ReadEnds
<1> QED BY <1>1, SdInvHolds, PTL DEF Spec, ReadReported

\* A step that ends a write call with success is the card's status without an error, of a
\* card that is not programming any more.
LEMMA WriteEnds ==
    ASSUME SdInv, Next, Ends("write"), ~call.slow, Multi \/ token = Accepted,
           NEW i \in 1 .. call.n
    PROVE  store'[call.at + i - 1] = buf[i]
<1>1. pc # "idle" /\ pc' = "idle" /\ res' = "OK" /\ call.op = "write"
  BY DEF Ends
<1>2. pc \in WritePlaces /\ (busy => ~late)
  <2>1. pc \in WritePlaces \/ pc = "select"
    BY <1>1 DEF SdInv, CardInv, Places, ReadPlaces
  <2> QED BY <1>1, <2>1 DEF SdInv, CardInv, Places, WriteInv, InTime, ReadPlaces
<1>3. Status
  <2>1. ~Start /\ ~CardWorks /\ ~TimePasses /\ ~CommandAgain
    BY <1>1 DEF Start, DiskSync, DiskRead, DiskWrite, CardWorks, Program, BusyEnds,
       TimePasses, CommandAgain
  <2>2. ~CommandFails /\ ~Written
    BY <1>1 DEF CommandFails, Written, Restart, Resume, Return, Goto
  <2>3. ~Reading /\ ~SyncEnds
    BY <1>1, <1>2 DEF Reading, ReadCommand, ReadBlock, ReadBlockFails, StopRead, SyncEnds,
       WritePlaces
  <2>4. ~EraseCount /\ ~WriteCommand /\ ~AfterBlocks /\ ~StopWrite
    BY <1>1, <1>2 DEF EraseCount, WriteCommand, AfterBlocks, StopWrite, Restart, Resume, Return,
       Goto
  <2>5. ~SendBlock /\ ~BlockRejected /\ ~BlockWriteError /\ ~BlockIgnored /\ ~BlockNotSent
    BY <1>1, SMT DEF SendBlock, BlockRejected, BlockWriteError, BlockIgnored, BlockNotSent,
       Answered, AgainFrom, Return, Goto, Accepted, Rejected, WriteError, NoAnswer, NotSent
  <2> QED BY <2>1, <2>2, <2>3, <2>4, <2>5 DEF Next, Driver, Writing
<1>4. pc = "status" /\ ~fault /\ ~busy /\ UNCHANGED store
  BY <1>1, <1>2, <1>3 DEF Status, Waited, Return
<1>5. i <= pos \/ token = Accepted
  <2>1. CASE Multi
    BY <1>1, <1>4, <2>1 DEF SdInv, CardInv, TransferTypeOK, WriteInv, WriteCounts, Writes,
       WritePlaces, Multi
  <2> QED BY <2>1
<1>6. OnCard(i)
  BY <1>1, <1>4, <1>5 DEF SdInv, WriteInv, WrittenSoFar, Writes, WritePlaces
<1>7. prog = Nothing
  BY <1>4 DEF SdInv, CardInv, CardBusy
<1>8. prog # [block |-> call.at + i - 1, value |-> buf[i]]
  BY <1>7, NotNothing
<1> QED BY <1>4, <1>6, <1>8 DEF OnCard

\* A call that reports success has programmed its blocks, whatever was lost, rejected or
\* sent again before, if the card is ready in time: all blocks of a multiple write, and
\* the block of a single one unless the card gave it another answer than "accepted".
THEOREM BlocksAreWritten == Spec => AcceptedIsWritten
<1>1. SdInv /\ [Next]_vars =>
         [Ends("write") /\ ~call.slow /\ (Multi \/ token = Accepted) =>
             \A i \in 1 .. call.n : store'[call.at + i - 1] = buf[i]]_vars
  BY WriteEnds
<1> QED BY <1>1, SdInvHolds, PTL DEF Spec, AcceptedIsWritten

\* A step that changes a block of the card ends its programming, or erases before a write.
LEMMA OwnBlock ==
    ASSUME SdInv, Next, NEW b \in Blocks, store'[b] # store[b], ~call.slow
    PROVE  /\ call.op = "write" /\ b \in call.at .. call.at + call.n - 1
           /\ store'[b] \in {Blank, buf[b - call.at + 1]}
<1>1. Program \/ WriteCommand
  BY DEF Next, Start, DiskSync, DiskRead, DiskWrite, Driver, Reading, Writing, CardWorks,
     BusyEnds, TimePasses, CommandAgain, CommandFails, ReadCommand, ReadBlock, ReadBlockFails,
     StopRead, EraseCount, SendBlock, BlockRejected, BlockWriteError, BlockIgnored,
     BlockNotSent, AfterBlocks, StopWrite, Written, Status, SyncEnds, card
<1>2. /\ DOMAIN store = Blocks /\ Blocks \subseteq Nat
      /\ call.at \in Nat /\ call.n \in Nat /\ pos \in Nat /\ left \in Int /\ erase \in Int
  BY BlockAssumption DEF SdInv, CardInv, TransferTypeOK
<1>3. CASE Program
  <2>1. prog # Nothing /\ store' = [store EXCEPT ![prog.block] = prog.value]
    BY <1>3 DEF Program
  <2>2. PICK i \in 1 .. call.n : prog = [block |-> call.at + i - 1, value |-> buf[i]]
    BY <2>1 DEF SdInv, WriteInv, ProgramsOwn
  <2>3. b = call.at + i - 1 /\ store'[b] = buf[i]
    BY <1>2, <2>1, <2>2
  <2>4. i = b - call.at + 1 /\ b \in call.at .. call.at + call.n - 1
    BY <1>2, <2>3
  <2>5. call.op = "write"
    BY <2>1 DEF SdInv, CardInv, CardBusy, WriteInv, InTime
  <2> QED BY <2>3, <2>4, <2>5
<1>4. CASE WriteCommand
  <2>1. /\ pc = "command" /\ call.op = "write" /\ Multi
        /\ b \in sec .. sec + erase - 1 /\ store'[b] = Blank
    BY <1>2, <1>4 DEF WriteCommand
  <2>2. /\ sec = call.at + pos /\ pos + left = call.n
        /\ erase <= left
    BY <1>2, <2>1 DEF SdInv, WriteInv, WriteCounts, EraseLeft, Writes, WritePlaces, Multi
  <2> QED BY <1>2, <2>1, <2>2
<1> QED BY <1>1, <1>3, <1>4

\* A write changes the call's blocks only: neither restarting it nor the count of blocks to
\* erase reaches beyond them.
THEOREM OthersAreKept == Spec => OnlyOwnBlocks
<1>1. SdInv /\ [Next]_vars =>
         [\A b \in Blocks : store'[b] # store[b] /\ ~call.slow =>
             /\ call.op = "write" /\ b \in call.at .. call.at + call.n - 1
             /\ store'[b] \in {Blank, buf[b - call.at + 1]}]_vars
  BY OwnBlock
<1> QED BY <1>1, SdInvHolds, PTL DEF Spec, OnlyOwnBlocks
-----------------------------------------------------------------------------
(* The SPI driver learns the card: what it may rely on before a command *)

\* Commands that are sent to a card only; the two sequences for SD cards of version
\* 1 and for MMC, which keep quiet about high capacity; and those to a known card.
ToCard == {"crc", "cond", "ocr2", "op2", "ccs", "ocr1", "op1", "opmmc", "detect",
           "blocklen", "csd"}
Quiet == {"crc", "cond", "ocr2", "ocr1", "op1", "opmmc"}
Known == {"detect", "blocklen", "csd"}

SlotTypeOK ==
    /\ step \in {"idle", "reset"} \cup ToCard
    /\ csd \in Sizes /\ started \in BOOLEAN /\ hcs \in BOOLEAN /\ volt \in BOOLEAN

\* A slot that is empty, or whose line is stuck, does not get past GO_IDLE_STATE.
Answering == step \in ToCard => kind \notin {"none", "stuck"}

\* The voltage has been looked at before the operating conditions are sent.
VoltageSeen == step \in {"op2", "ccs", "op1", "opmmc"} \cup Known => volt

\* A card of high capacity has not started while the host has not named it.
NotStarted == step \in Quiet => ~hcs /\ (kind = "SDHC" => ~started)

\* A card whose type is set is ready, and the type is right about its capacity.
Started ==
    /\ step = "ccs" => started
    /\ step \in Known => started /\ RightAddressing

InitInv ==
    /\ SlotTypeOK /\ Answering /\ VoltageSeen /\ NotStarted /\ Started
    /\ step # "idle" => noinit
    /\ CardKnown
-----------------------------------------------------------------------------
(* The size *)

\* The factors that C_SIZE_MULT and READ_BL_LEN stand for.
MultFactors == {4, 8, 16, 32, 64, 128, 256, 512}
LenFactors == {1, 2, 4}

\* They are the powers of two that the driver computes.
LEMMA Powers ==
    /\ \A m \in 0 .. 7 : 2^(m + 2) \in MultFactors
    /\ \A l \in 9 .. 11 : 2^(l - 9) \in LenFactors
<1>1. ASSUME NEW e \in 0 .. 9
      PROVE  /\ e \in 2 .. 9 => 2^e \in MultFactors
             /\ e \in 0 .. 2 => 2^e \in LenFactors
  <2>1. ASSUME e = 0 PROVE 2^e = 1
    BY <2>1, SMT
  <2>2. ASSUME e = 1 PROVE 2^e = 2
    BY <2>2, SMT
  <2>3. ASSUME e = 2 PROVE 2^e = 4
    BY <2>3, SMT
  <2>4. ASSUME e = 3 PROVE 2^e = 8
    BY <2>4, SMT
  <2>5. ASSUME e = 4 PROVE 2^e = 16
    BY <2>5, SMT
  <2>6. ASSUME e = 5 PROVE 2^e = 32
    BY <2>6, SMT
  <2>7. ASSUME e = 6 PROVE 2^e = 64
    BY <2>7, SMT
  <2>8. ASSUME e = 7 PROVE 2^e = 128
    BY <2>8, SMT
  <2>9. ASSUME e = 8 PROVE 2^e = 256
    BY <2>9, SMT
  <2>10. ASSUME e = 9 PROVE 2^e = 512
    BY <2>10, SMT
  <2> QED BY <2>1, <2>2, <2>3, <2>4, <2>5, <2>6, <2>7, <2>8, <2>9, <2>10, SMT
          DEF MultFactors, LenFactors
<1>2. \A m \in 0 .. 7 : m + 2 \in 0 .. 9 /\ m + 2 \in 2 .. 9
  BY SMT
<1>3. \A l \in 9 .. 11 : l - 9 \in 0 .. 9 /\ l - 9 \in 0 .. 2
  BY SMT
<1> QED BY <1>1, <1>2, <1>3

\* The words of 32 bits lose nothing but the two capacities that become 0.
LEMMA CapacityRight ==
    ASSUME NEW c \in Sizes PROVE Capacity(c) \in {0, SectorCount(c)}
<1>1. CASE c.v = 2
  <2>1. c.size \in Nat /\ c.size < 2^22
    BY <1>1, SizeAssumption, SMT
  <2>2. (c.size + 1) % 2^22 \in {0, c.size + 1}
    BY <2>1, SMT
  <2>3. 2^10 = 1024
    BY SMT
  <2>4. Capacity(c) = ((c.size + 1) % 2^22) * 1024 /\ SectorCount(c) = (c.size + 1) * 1024
    BY <1>1, <2>3 DEF Capacity, SectorCount
  <2> QED BY <2>1, <2>2, <2>4
<1>2. CASE c.v = 1
  <2> DEFINE p == 2^(c.mult + 2)
             q == 2^(c.len - 9)
             n == c.size + 1
  <2>1. n \in Nat /\ n <= 4096
    BY <1>2, SizeAssumption, SMT
  <2>2. p \in MultFactors /\ q \in LenFactors
    <3>1. c.mult \in 0 .. 7 /\ c.len \in 9 .. 11
      BY SizeAssumption
    <3> QED BY <3>1, Powers
  <2>3. Capacity(c) = (n * p * q) % 2^23 /\ SectorCount(c) = n * p * q
    BY <1>2 DEF Capacity, SectorCount
  <2> HIDE DEF p, q, n
  <2>4. n * p \in Nat /\ n * p <= 2097152
    BY <2>1, <2>2, SMT DEF MultFactors
  <2>5. n * p * q \in Nat /\ n * p * q <= 8388608
    BY <2>2, <2>4, SMT DEF LenFactors
  <2> DEFINE x == n * p * q
  <2> HIDE DEF x
  <2>6. x \in Nat /\ x <= 8388608
    BY <2>5 DEF x
  <2>7. x % 2^23 \in {0, x}
    BY <2>6, SMT
  <2> QED BY <2>3, <2>7 DEF x
<1> QED BY <1>1, <1>2, SizeAssumption
-----------------------------------------------------------------------------
(* The steps *)

\* A card answers what it means, or its answer is lost or damaged.
LEMMA Heard ==
    ASSUME kind \notin {"none", "stuck"}, NEW a, NEW t \in Answers(a)
    PROVE  t = a \/ t \in {BadCrc, NoReply}
  BY DEF Answers

\* It holds of a slot whose card has not been initialised.
LEMMA SdInitInit == SlotInit => InitInv
  BY FlagAssumption DEF SlotInit, InitInv, SlotTypeOK, Answering, VoltageSeen, NotStarted, Started,
     CardKnown, Initialized, ToCard, Quiet, Known

\* A command after which the driver knows no card.
LEMMA UnknownStep ==
    ASSUME InitInv, step # "idle", UnknownCard, UNCHANGED inSlot,
           started' \in BOOLEAN, hcs' \in BOOLEAN
    PROVE  InitInv'
  BY DEF InitInv, UnknownCard, inSlot, SlotTypeOK, Answering, VoltageSeen, NotStarted, Started,
     CardKnown, Initialized, ToCard, Quiet, Known

\* A command behind which the next one is due, and nothing about the card is settled.
LEMMA GotoStep ==
    ASSUME InitInv, NEW p \in ToCard, Proceed(p), step # "idle", UNCHANGED inSlot,
           started' \in BOOLEAN, hcs' \in BOOLEAN,
           kind \notin {"none", "stuck"},
           p \in {"op2", "ccs", "op1", "opmmc"} \cup Known => volt,
           p \in Quiet => ~hcs' /\ (kind = "SDHC" => ~started'),
           p = "ccs" => started',
           p \in Known => started' /\ RightAddressing
    PROVE  InitInv'
  BY DEF InitInv, Proceed, inSlot, SlotTypeOK, Answering, VoltageSeen, NotStarted, Started, RightAddressing,
     CardKnown, Initialized, ToCard, Quiet, Known

\* The card has told what it is.
LEMMA FoundStep ==
    ASSUME InitInv, NEW t, NEW p \in Known, KnownAs(t, p), step # "idle", UNCHANGED inSlot,
           started' = TRUE, hcs' \in BOOLEAN,
           kind \notin {"none", "stuck"}, volt,
           t = "SDHC" <=> kind = "SDHC"
    PROVE  InitInv'
  BY DEF InitInv, KnownAs, inSlot, SlotTypeOK, Answering, VoltageSeen, NotStarted, Started,
     RightAddressing, CardKnown, Initialized, ToCard, Quiet, Known

\* A loop goes round again, or time passes in it.
LEMMA LoopStep ==
    ASSUME InitInv, UNCHANGED <<noinit, type, sectors, step>>, UNCHANGED inSlot,
           step \in {"op2", "op1", "opmmc"},
           started' \in BOOLEAN, hcs' \in BOOLEAN,
           step \in Quiet => ~hcs' /\ (kind = "SDHC" => ~started')
    PROVE  InitInv'
  BY DEF InitInv, inSlot, SlotTypeOK, Answering, VoltageSeen, NotStarted, Started,
     CardKnown, Initialized, ToCard, Quiet, Known

\* The commands up to the operating conditions, which change nothing on the card
\* but GO_IDLE_STATE.
LEMMA FirstCommands ==
    ASSUME InitInv,
           Reset \/ CrcOff \/ SendIfCond \/ ReadOcr("ocr2", "op2") \/ ReadOcr("ocr1", "op1")
    PROVE  InitInv'
<1>1. SlotTypeOK
  BY DEF InitInv
<1>2. CASE Reset
  <2>1. step = "reset" /\ ~started' /\ ~hcs' /\ started' \in BOOLEAN /\ hcs' \in BOOLEAN
        /\ UNCHANGED inSlot
    BY <1>2 DEF Reset
  <2>2. PICK t \in Answers(Idle) : IF t = Idle THEN Proceed("crc") ELSE UnknownCard
    BY <1>2 DEF Reset
  <2>3. CASE t = Idle
    <3>1. kind \notin {"none", "stuck"}
      BY <2>2, <2>3 DEF Answers, Idle, NoReply, Ready
    <3>2. Proceed("crc")
      BY <2>2, <2>3
    <3> QED BY <2>1, <3>1, <3>2, GotoStep DEF ToCard, Quiet, Known
  <2>4. CASE t # Idle
    BY <2>1, <2>2, <2>4, UnknownStep
  <2> QED BY <2>3, <2>4
<1>3. CASE CrcOff
  <2>1. step = "crc" /\ UNCHANGED <<kind, csd, volt, started, hcs>> /\ UNCHANGED inSlot
    BY <1>3 DEF CrcOff, CardSame, inSlot
  <2>2. Proceed("cond") \/ UnknownCard
    BY <1>3 DEF CrcOff
  <2>3. CASE Proceed("cond")
    BY <1>1, <2>1, <2>3, GotoStep DEF InitInv, Answering, NotStarted, SlotTypeOK, ToCard, Quiet, Known
  <2>4. CASE UnknownCard
    BY <1>1, <2>1, <2>4, UnknownStep DEF SlotTypeOK
  <2> QED BY <2>2, <2>3, <2>4
<1>4. CASE SendIfCond
  <2>1. step = "cond" /\ UNCHANGED <<kind, csd, volt, started, hcs>> /\ UNCHANGED inSlot
    BY <1>4 DEF SendIfCond, CardSame, inSlot
  <2>2. Proceed("ocr2") \/ Proceed("ocr1") \/ UnknownCard
    BY <1>4 DEF SendIfCond
  <2>3. CASE Proceed("ocr2")
    BY <1>1, <2>1, <2>3, GotoStep DEF InitInv, Answering, NotStarted, SlotTypeOK, ToCard, Quiet, Known
  <2>4. CASE Proceed("ocr1")
    BY <1>1, <2>1, <2>4, GotoStep DEF InitInv, Answering, NotStarted, SlotTypeOK, ToCard, Quiet, Known
  <2>5. CASE UnknownCard
    BY <1>1, <2>1, <2>5, UnknownStep DEF SlotTypeOK
  <2> QED BY <2>2, <2>3, <2>4, <2>5
<1>5. ASSUME NEW p \in {"ocr1", "ocr2"}, NEW q \in {"op1", "op2"}, ReadOcr(p, q),
             p = "ocr1" <=> q = "op1"
      PROVE  InitInv'
  <2>1. step = p /\ UNCHANGED <<kind, csd, volt, started, hcs>> /\ UNCHANGED inSlot
    BY <1>5 DEF ReadOcr, CardSame, inSlot
  <2>2. (volt /\ Proceed(q)) \/ UnknownCard
    BY <1>5 DEF ReadOcr
  <2>3. CASE volt /\ Proceed(q)
    BY <1>1, <1>5, <2>1, <2>3, GotoStep
    DEF InitInv, Answering, NotStarted, SlotTypeOK, ToCard, Quiet, Known
  <2>4. CASE UnknownCard
    BY <1>1, <2>1, <2>4, UnknownStep DEF SlotTypeOK
  <2> QED BY <2>2, <2>3, <2>4
<1> QED BY <1>2, <1>3, <1>4, <1>5

\* What a card does with its operating conditions.
LEMMA ConditionsStep ==
    ASSUME InitInv, NEW host \in BOOLEAN, Conditions(host)
    PROVE  /\ started' \in BOOLEAN /\ hcs' \in BOOLEAN /\ UNCHANGED <<kind, csd, volt>>
           /\ UNCHANGED inSlot
           /\ ~host /\ step \in Quiet => ~hcs' /\ (kind = "SDHC" => ~started')
  BY DEF InitInv, SlotTypeOK, NotStarted, Conditions, inSlot

\* APP_OP_COND and SEND_OP_COND: an answer "ready" comes from a card that is.
LEMMA OpConditions ==
    ASSUME InitInv, OpCond2 \/ OpCond1 \/ OpCondMmc PROVE InitInv'
<1>1. SlotTypeOK /\ Answering /\ VoltageSeen /\ NotStarted
  BY DEF InitInv
<1>2. CASE OpCond2
  <2>1. /\ step = "op2" /\ kind \notin {"none", "stuck"} /\ volt
        /\ started' \in BOOLEAN /\ hcs' \in BOOLEAN /\ UNCHANGED inSlot
    BY <1>1, <1>2, ConditionsStep DEF OpCond2, Answering, VoltageSeen, ToCard
  <2>2. PICK t \in Answers(Answer) :
          \/ t = Idle /\ ~overdue /\ UNCHANGED <<noinit, type, sectors, step, overdue, tries>>
          \/ t = Idle /\ overdue /\ UnknownCard
          \/ t = Ready /\ Proceed("ccs")
          \/ t \notin {Idle, Ready} /\ UnknownCard
    BY <1>2 DEF OpCond2
  <2>3. CASE UNCHANGED <<noinit, type, sectors, step, overdue, tries>>
    BY <2>1, <2>3, LoopStep DEF Quiet
  <2>4. CASE UnknownCard
    BY <2>1, <2>4, UnknownStep
  <2>5. CASE t = Ready /\ Proceed("ccs")
    <3>1. started'
      BY <2>1, <2>2, <2>5, Heard DEF Answer, Ready, Idle, Illegal, BadCrc, NoReply
    <3> QED BY <2>1, <2>5, <3>1, GotoStep DEF ToCard, Quiet, Known
  <2> QED BY <2>2, <2>3, <2>4, <2>5
<1>3. CASE OpCond1
  <2>1. /\ step = "op1" /\ kind \notin {"none", "stuck"} /\ volt
        /\ started' \in BOOLEAN /\ hcs' \in BOOLEAN /\ UNCHANGED inSlot
        /\ ~hcs' /\ (kind = "SDHC" => ~started')
    BY <1>1, <1>3, ConditionsStep DEF OpCond1, Answering, VoltageSeen, ToCard, Quiet
  <2>2. PICK t \in Answers(Answer) :
          \/ t = Idle /\ ~overdue /\ UNCHANGED <<noinit, type, sectors, step, overdue, tries>>
          \/ t = Ready /\ KnownAs("SD", "detect")
          \/ t # Ready /\ (t = Idle => overdue) /\ Proceed("opmmc")
    BY <1>3 DEF OpCond1
  <2>3. CASE UNCHANGED <<noinit, type, sectors, step, overdue, tries>>
    BY <2>1, <2>3, LoopStep
  <2>4. CASE t = Ready /\ KnownAs("SD", "detect")
    <3>1. started'
      BY <2>1, <2>2, <2>4, Heard DEF Answer, Ready, Idle, Illegal, BadCrc, NoReply
    <3> QED BY <2>1, <2>4, <3>1, FoundStep DEF Known
  <2>5. CASE Proceed("opmmc")
    BY <2>1, <2>5, GotoStep DEF ToCard, Known
  <2> QED BY <2>2, <2>3, <2>4, <2>5
<1>4. CASE OpCondMmc
  <2>1. /\ step = "opmmc" /\ kind \notin {"none", "stuck"} /\ volt
        /\ started' \in BOOLEAN /\ hcs' \in BOOLEAN /\ UNCHANGED inSlot
        /\ ~hcs' /\ (kind = "SDHC" => ~started')
    BY <1>1, <1>4, ConditionsStep DEF OpCondMmc, Answering, VoltageSeen, ToCard, Quiet
  <2>2. PICK t \in Answers(IF started' THEN Ready ELSE Idle) :
          \/ t = Ready /\ KnownAs("MMC", "blocklen")
          \/ t # Ready /\ ~overdue /\ UNCHANGED <<noinit, type, sectors, step, overdue, tries>>
          \/ t # Ready /\ overdue /\ UnknownCard
    BY <1>4 DEF OpCondMmc
  <2>3. CASE UNCHANGED <<noinit, type, sectors, step, overdue, tries>>
    BY <2>1, <2>3, LoopStep
  <2>4. CASE t = Ready /\ KnownAs("MMC", "blocklen")
    <3>1. started'
      BY <2>1, <2>2, <2>4, Heard DEF Ready, Idle, BadCrc, NoReply
    <3> QED BY <2>1, <2>4, <3>1, FoundStep DEF Known
  <2>5. CASE UnknownCard
    BY <2>1, <2>5, UnknownStep
  <2> QED BY <2>2, <2>3, <2>4, <2>5
<1> QED BY <1>2, <1>3, <1>4

\* The commands to a card that is ready.
LEMMA LastCommands ==
    ASSUME InitInv, ReadCcs \/ ClearDetect \/ SetBlockLen \/ ReadCsd PROVE InitInv'
<1>1. SlotTypeOK /\ Answering /\ VoltageSeen /\ Started /\ (step # "idle" => noinit)
  BY DEF InitInv
<1>2. /\ step \in {"ccs"} \cup Known /\ UNCHANGED <<kind, csd, volt, started, hcs>>
      /\ UNCHANGED inSlot
  BY DEF ReadCcs, ClearDetect, SetBlockLen, ReadCsd, CardSame, inSlot, Known
<1>3. /\ kind \notin {"none", "stuck"} /\ volt /\ started /\ step # "idle"
      /\ started' = TRUE /\ hcs' \in BOOLEAN /\ started' \in BOOLEAN
      /\ step \in Known => RightAddressing
  BY <1>1, <1>2 DEF Answering, VoltageSeen, Started, ToCard, Known, SlotTypeOK
<1>4. ASSUME UnknownCard PROVE InitInv'
  BY <1>2, <1>3, <1>4, UnknownStep
<1>5. CASE ReadCcs
  <2>1. \/ kind = "SDHC" /\ KnownAs("SDHC", "detect")
        \/ kind # "SDHC" /\ KnownAs("SD", "detect")
        \/ UnknownCard
    BY <1>5 DEF ReadCcs
  <2> QED BY <1>2, <1>3, <1>4, <2>1, FoundStep DEF Known
<1>6. CASE ClearDetect \/ SetBlockLen
  <2>1. step \in Known /\ (Proceed("csd") \/ Proceed("blocklen") \/ UnknownCard)
    BY <1>6 DEF ClearDetect, SetBlockLen, Known
  <2> QED BY <1>2, <1>3, <1>4, <2>1, GotoStep DEF Known, ToCard, Quiet
<1>7. CASE ReadCsd
  <2>1. step = "csd" /\ RightAddressing
    BY <1>3, <1>7 DEF ReadCsd, Known
  <2>2. CASE \E n \in {0, Capacity(csd)} : Done(n)
    <3>1. sectors' \in {0, Capacity(csd)} /\ noinit' = FALSE /\ step' = "idle" /\ type' = type
      BY <2>2 DEF Done
    <3>2. Capacity(csd) \in {0, SectorCount(csd)}
      BY <1>1, CapacityRight DEF SlotTypeOK
    <3>3. SectorsRight' /\ IsCard' /\ RightAddressing'
      BY <1>2, <1>3, <2>1, <3>1, <3>2 DEF SectorsRight, IsCard, RightAddressing
    <3> QED BY <1>1, <1>2, <1>3, <3>1, <3>3
            DEF InitInv, SlotTypeOK, Answering, VoltageSeen, NotStarted, Started, CardKnown,
                ToCard, Quiet, Known
  <2>3. CASE UNCHANGED <<noinit, type, sectors, step, overdue>>
    BY <1>2, <2>1, <2>3
    DEF InitInv, SlotTypeOK, Answering, VoltageSeen, NotStarted, Started, CardKnown, Initialized,
        RightAddressing, ToCard, Quiet, Known
  <2> QED BY <1>7, <2>2, <2>3 DEF ReadCsd
<1> QED BY <1>5, <1>6, <1>7

\* Every step keeps it.
LEMMA SdInitNext == InitInv /\ [SlotNext]_slotVars => InitInv'
<1> SUFFICES ASSUME InitInv, [SlotNext]_slotVars PROVE InitInv'
  OBVIOUS
<1>1. CASE Initialize
  BY <1>1 DEF Initialize, Proceed, CardSame, inSlot, InitInv, SlotTypeOK, Answering, VoltageSeen,
     NotStarted, Started, CardKnown, Initialized, ToCard, Quiet, Known
<1>2. CASE SecondPasses
  BY <1>2, LoopStep DEF SecondPasses, CardSame, InitInv, NotStarted, SlotTypeOK, inSlot
<1>3. CASE NewCard
  BY <1>3, FlagAssumption DEF NewCard, InitInv, SlotTypeOK, Answering, VoltageSeen,
     NotStarted, Started, CardKnown, Initialized, ToCard, Quiet, Known
<1>4. CASE UNCHANGED slotVars
  BY <1>4 DEF slotVars, inSlot, InitInv, SlotTypeOK, Answering, VoltageSeen, NotStarted, Started,
     CardKnown, Initialized, IsCard, RightAddressing, SectorsRight
<1> QED BY <1>1, <1>2, <1>3, <1>4, FirstCommands, OpConditions, LastCommands DEF SlotNext, Identifying

\* For every set of cards, whatever answers are lost or wrong on the way: a drive that
\* sd_disk_initialize makes ready has a card that is ready, works at the slot's voltage,
\* is addressed the way it expects, and whose capacity is right or unknown.
THEOREM CardAlwaysKnown == SlotSpec => []CardKnown
<1>1. InitInv => CardKnown
  BY DEF InitInv
<1> QED BY <1>1, SdInitInit, SdInitNext, PTL DEF SlotSpec
-----------------------------------------------------------------------------
(* SDMMC.  The inductive invariant *)

MmcTypeOK ==
    /\ contents \in [MmcBlocks -> Values]
    /\ DOMAIN buffered \subseteq MmcBlocks /\ buffered \in [DOMAIN buffered -> Values]
    /\ range \subseteq MmcBlocks
    /\ cardState \in {"transfer", "busy", "gone"} /\ running \in {"none", "read", "write"}

\* Only a busy card has blocks left to program.
BufferedBusy == buffered # None => cardState = "busy"

\* Until the card is gone, each block of a running write is on it or about to be.
OnTheWay ==
    running = "write" /\ cardState # "gone" =>
       \A b \in range : IF b \in DOMAIN buffered THEN buffered[b] = data[b]
                                                 ELSE contents[b] = data[b]

MmcInv == MmcTypeOK /\ BufferedBusy /\ OnTheWay
-----------------------------------------------------------------------------
\* A card that has just been switched on has nothing to program.
LEMMA MmcStarts == MmcInit => MmcInv
  BY DEF MmcInit, MmcInv, MmcTypeOK, BufferedBusy, OnTheWay, None

\* Programming a block moves it from the buffer to the store.
LEMMA ProgramStep == ASSUME MmcInv, MmcPrograms PROVE MmcInv'
<1>1. /\ MmcTypeOK /\ BufferedBusy /\ OnTheWay
      /\ cardState = "busy" /\ UNCHANGED <<running, range, data>>
      /\ cardState' = IF buffered' = None THEN "transfer" ELSE "busy"
  BY DEF MmcInv, MmcPrograms
<1>2. PICK b \in DOMAIN buffered :
          /\ contents' = [contents EXCEPT ![b] = buffered[b]]
          /\ buffered' = [x \in DOMAIN buffered \ {b} |-> buffered[x]]
  BY DEF MmcPrograms
<1>3. buffered[b] \in Values /\ b \in MmcBlocks
  BY <1>1, <1>2 DEF MmcTypeOK
<1>4. /\ \A x \in MmcBlocks : contents'[x] = IF x = b THEN buffered[b] ELSE contents[x]
      /\ DOMAIN buffered' = DOMAIN buffered \ {b}
      /\ \A x \in DOMAIN buffered' : buffered'[x] = buffered[x]
  BY <1>1, <1>2, <1>3 DEF MmcTypeOK
<1>5. MmcTypeOK'
  <2>1. contents' \in [MmcBlocks -> Values]
    BY <1>1, <1>2, <1>3 DEF MmcTypeOK
  <2>2. buffered' \in [DOMAIN buffered' -> Values]
    BY <1>1, <1>2 DEF MmcTypeOK
  <2> QED BY <2>1, <2>2, <1>1, <1>4 DEF MmcTypeOK
<1>6. OnTheWay'
  BY <1>1, <1>4 DEF OnTheWay, MmcTypeOK
<1> QED BY <1>1, <1>5, <1>6 DEF MmcInv, BufferedBusy

\* SD_write starts with all its blocks in the card's buffer.
LEMMA WriteStep ==
    ASSUME MmcInv, NEW S \in SUBSET MmcBlocks, NEW d \in Values, SDWrite(S, d) PROVE MmcInv'
<1>1. /\ MmcTypeOK /\ running' = "write" /\ range' = S /\ data' = [b \in S |-> d]
      /\ buffered' = data' /\ cardState' = "busy" /\ contents' = contents
  BY DEF MmcInv, SDWrite
<1>2. DOMAIN buffered' = S /\ buffered' \in [DOMAIN buffered' -> Values]
  BY <1>1
<1> QED BY <1>1, <1>2 DEF MmcInv, MmcTypeOK, BufferedBusy, OnTheWay

\* A write that fails may leave blocks to program; no call runs then.
LEMMA WriteFailsStep ==
    ASSUME MmcInv, NEW S \in SUBSET MmcBlocks, NEW d \in Values, WriteFails(S, d) PROVE MmcInv'
<1>1. MmcTypeOK /\ BufferedBusy /\ running' = "none" /\ range' = S /\ contents' = contents
  BY DEF MmcInv, WriteFails, MmcReturn
<1>2. \/ UNCHANGED <<buffered, cardState>>
      \/ cardState' = "busy" /\ \E n \in S : buffered' = [b \in {x \in S : x <= n} |-> d]
  BY DEF WriteFails
<1>3. CASE UNCHANGED <<buffered, cardState>>
  BY <1>1, <1>3 DEF MmcInv, MmcTypeOK, BufferedBusy, OnTheWay
<1>4. CASE cardState' = "busy" /\ \E n \in S : buffered' = [b \in {x \in S : x <= n} |-> d]
  <2>1. PICK n \in S : buffered' = [b \in {x \in S : x <= n} |-> d]
    BY <1>4
  <2>2. DOMAIN buffered' \subseteq MmcBlocks /\ buffered' \in [DOMAIN buffered' -> Values]
    BY <2>1
  <2> QED BY <1>1, <1>4, <2>2 DEF MmcInv, MmcTypeOK, BufferedBusy, OnTheWay
<1> QED BY <1>2, <1>3, <1>4

\* Every step of the driver and the card keeps it.
LEMMA MmcSteps == MmcInv /\ [MmcNext]_mmcVars => MmcInv'
<1> SUFFICES ASSUME MmcInv, [MmcNext]_mmcVars PROVE MmcInv'
  OBVIOUS
<1> USE DEF MmcInv, MmcTypeOK, BufferedBusy, OnTheWay
<1>1. ASSUME GetsReady PROVE MmcInv'
  BY <1>1 DEF GetsReady
<1>2. ASSUME Pulled PROVE MmcInv'
  BY <1>2 DEF Pulled, None
<1>3. ASSUME CheckStatus \/ SDSync PROVE MmcInv'
  BY <1>3 DEF CheckStatus, SDSync
<1>4. ASSUME Wait PROVE MmcInv'
  BY <1>4 DEF Wait, MmcReturn
<1>5. ASSUME NEW S \in SUBSET MmcBlocks, SDRead(S) PROVE MmcInv'
  BY <1>5 DEF SDRead, TransferOK
<1>6. ASSUME NEW S \in SUBSET MmcBlocks, ReadFails(S) PROVE MmcInv'
  BY <1>6 DEF ReadFails, MmcReturn, TransferOK
<1>7. CASE UNCHANGED mmcVars
  BY <1>7 DEF mmcVars
<1> QED BY <1>1, <1>2, <1>3, <1>4, <1>5, <1>6, <1>7, ProgramStep, WriteStep, WriteFailsStep
        DEF MmcNext, MmcWorks

\* It holds throughout.
LEMMA MmcAlways == MmcSpec => []MmcInv
  BY MmcStarts, MmcSteps, PTL DEF MmcSpec

\* For every card and every number of blocks, also if the card is pulled out at any
\* time: when SD_write returns RES_OK, every block holds what was written, and none
\* waits in the card any more (the loop on BSP_SD_GetCardState in SD_write).
THEOREM WritesAreDurable == MmcSpec => WriteIsDurable
<1>1. MmcInv /\ [MmcNext]_mmcVars =>
         (running = "write" /\ running' = "none" /\ result' = "OK" => \A b \in range : contents'[b] = data[b])
  <2> SUFFICES ASSUME MmcInv, [MmcNext]_mmcVars, running = "write", running' = "none", result' = "OK",
                      NEW b \in range
               PROVE  contents'[b] = data[b]
    OBVIOUS
  <2>1. Wait
    BY DEF MmcNext, mmcVars, MmcWorks, MmcPrograms, GetsReady, Pulled, CheckStatus, SDSync, SDRead,
           ReadFails, SDWrite, WriteFails
  <2>2. cardState = "transfer" /\ contents' = contents
    BY <2>1 DEF Wait, TransferOK
  <2>3. buffered = None
    BY <2>2 DEF MmcInv, BufferedBusy
  <2>4. b \notin DOMAIN buffered
    BY <2>3 DEF None
  <2> QED BY <2>2, <2>4 DEF MmcInv, OnTheWay
<1> QED BY <1>1, MmcAlways, PTL DEF MmcSpec, WriteIsDurable
=============================================================================
