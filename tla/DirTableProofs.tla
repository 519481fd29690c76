----------------------------- MODULE DirTableProofs -----------------------------
(***************************************************************************)
(* Proofs about one directory table, for every set of names, every choice  *)
(* of checksums and every size of sectors and tables: what a listing shows *)
(* is found, no call touches another object, a walk misses none.           *)
(***************************************************************************)
EXTENDS DirTable, TLAPS, SequenceTheorems, WellFoundedInduction
-----------------------------------------------------------------------------
(* Numbers *)

\* The constants' types.
LEMMA Constants ==
    /\ SPE \in Nat /\ SPE >= 1 /\ MinLen \in Nat /\ MinLen % SPE = 0 /\ MaxNum \in Nat
    /\ Ghost \notin Ids /\ NoOrd = 255
  BY SizeAssumption DEF NoOrd

\* Every nonempty set of naturals has a least element.
LEMMA Least ==
    ASSUME NEW S \in SUBSET Nat, S # {}
    PROVE  \E x \in S : \A y \in S : x <= y
<1> DEFINE R == OpToRel(<, Nat)
<1>1. IsWellFoundedOn(R, Nat)
  BY NatLessThanWellFounded
<1>2. \A x, y \in Nat : x < y => <<x, y>> \in R
  BY DEF OpToRel
<1> HIDE DEF R
<1>3. PICK x \in S : \A y \in S : ~ (<<y, x>> \in R)
  BY <1>1, WFMin
<1>4. ASSUME NEW y \in S  PROVE x <= y
  <2>1. x \in Nat /\ y \in Nat /\ ~ (y < x)
    BY <1>2, <1>3
  <2> QED BY <2>1
<1> QED BY <1>3, <1>4

\* A number lies in the sector that it belongs to.
LEMMA SectorIs ==
    ASSUME NEW i \in Nat, i >= 1
    PROVE  SectorOf(i) \in Nat /\ SectorOf(i) >= 1 /\ i \in InSector(SectorOf(i))
<1> DEFINE q == (i - 1) \div SPE
           r == (i - 1) % SPE
<1>1. i - 1 \in Nat /\ SPE \in Nat /\ SPE >= 1
  BY Constants
<1>2. q \in Nat /\ r \in 0 .. SPE - 1 /\ i - 1 = SPE * q + r
  BY <1>1
<1>3. SectorOf(i) = q + 1
  BY DEF SectorOf
<1> HIDE DEF q, r
<1>4. InSector(q + 1) = q * SPE + 1 .. (q + 1) * SPE
  <2>1. (q + 1) - 1 = q
    BY <1>2
  <2> QED BY <2>1 DEF InSector
<1>5. (q + 1) * SPE = SPE * q + SPE /\ q * SPE = SPE * q /\ SPE * q \in Nat
  BY <1>1, <1>2
<1>6. i \in InSector(q + 1)
  <2> DEFINE p == SPE * q
  <2>1. p \in Nat /\ i - 1 = p + r /\ InSector(q + 1) = p + 1 .. p + SPE
    BY <1>2, <1>4, <1>5
  <2> HIDE DEF p
  <2> QED BY <2>1, <1>1, <1>2
<1> QED BY <1>2, <1>3, <1>6

\* The entries of the sector that is added to whole ones are those behind them.
LEMMA LastSector ==
    ASSUME NEW n \in Nat, (n % SPE) = 0, NEW i \in 1 .. n + SPE
    PROVE  SectorOf(i) = SectorOf(n + SPE) <=> i > n
<1>1. SPE \in Nat /\ SPE >= 1 /\ i - 1 \in Nat
  BY Constants
<1> DEFINE q == (i - 1) \div SPE
           r == (i - 1) % SPE
           m == n \div SPE
<1>2. q \in Nat /\ r \in 0 .. SPE - 1 /\ i - 1 = SPE * q + r
  BY <1>1
<1>3. m \in Nat /\ n = SPE * m
  BY <1>1
<1>4. (n + SPE - 1) \div SPE = m
  BY <1>1, <1>3
<1>5. SectorOf(i) = q + 1 /\ SectorOf(n + SPE) = m + 1
  BY <1>1, <1>4 DEF SectorOf
<1> HIDE DEF q, r, m
<1>6. q = m => i > n
  BY <1>1, <1>2, <1>3
<1>7. ASSUME i > n  PROVE q = m
  <2>1. CASE q < m
    <3>1. SPE * (q + 1) <= SPE * m
      BY <2>1, <1>1, <1>2, <1>3
    <3>2. SPE * (q + 1) = SPE * q + SPE
      BY <1>1, <1>2
    <3> DEFINE a == SPE * q
               b == SPE * m
    <3>3. a \in Nat /\ b \in Nat /\ a + SPE <= b /\ i - 1 = a + r /\ n = b
      BY <3>1, <3>2, <1>1, <1>2, <1>3
    <3> HIDE DEF a, b
    <3> QED BY <3>3, <1>1, <1>2, <1>7
  <2>2. CASE q > m
    <3>1. SPE * (m + 1) <= SPE * q
      BY <2>2, <1>1, <1>2, <1>3
    <3>2. SPE * (m + 1) = SPE * m + SPE
      BY <1>1, <1>3
    <3> DEFINE a == SPE * q
               b == SPE * m
    <3>3. a \in Nat /\ b \in Nat /\ b + SPE <= a /\ i - 1 = a + r /\ n = b
      BY <3>1, <3>2, <1>1, <1>2, <1>3
    <3> HIDE DEF a, b
    <3> QED BY <3>3, <1>1, <1>2
  <2> QED BY <2>1, <2>2, <1>2, <1>3
<1> QED BY <1>2, <1>3, <1>5, <1>6, <1>7
-----------------------------------------------------------------------------
(* The scans *)

\* What dir_read makes of entry i, and w is the function that ReadState(t) is.
ReadStep(t, s, i) == IF t[i].kind = "lfn" THEN Part(s, t[i], i, TRUE) ELSE Outside
ReadRec(t, n, w) ==
    w = [i \in 0 .. n |->
           IF i = 0 THEN Outside
           ELSE LET e == t[i]
                IN  IF e.kind = "lfn" THEN Part(w[i - 1], e, i, TRUE) ELSE Outside]

\* dir_read goes from entry to entry.
LEMMA ReadIs ==
    ASSUME NEW t, Len(t) \in Nat
    PROVE  /\ ReadState(t)[0] = Outside
           /\ \A i \in 1 .. Len(t) : ReadState(t)[i] = ReadStep(t, ReadState(t)[i - 1], i)
<1> DEFINE Bad == {n \in Nat : ~ \E w : ReadRec(t, n, w)}
<1>1. Bad = {}
  <2> SUFFICES ASSUME Bad # {}  PROVE FALSE
    OBVIOUS
  <2>1. PICK n \in Bad : \A m \in Bad : n <= m
    <3>1. Bad \in SUBSET Nat
      OBVIOUS
    <3> QED BY <3>1, Least
  <2>2. n # 0
    <3> DEFINE v == [i \in 0 .. 0 |-> Outside]
    <3>1. ReadRec(t, 0, v)
      BY DEF ReadRec
    <3> QED BY <3>1
  <2>3. n \in Nat /\ n - 1 \in Nat /\ n - 1 \notin Bad
    BY <2>1, <2>2
  <2>4. PICK w : ReadRec(t, n - 1, w)
    BY <2>3
  <2> DEFINE v == [i \in 0 .. n |-> IF i = n THEN ReadStep(t, w[n - 1], n) ELSE w[i]]
  <2>5. ASSUME NEW i \in 0 .. n
        PROVE  v[i] = IF i = 0 THEN Outside
                      ELSE LET e == t[i]
                           IN  IF e.kind = "lfn" THEN Part(v[i - 1], e, i, TRUE) ELSE Outside
    <3>1. CASE i = n
      <4>1. v[i] = ReadStep(t, w[n - 1], n) /\ v[i - 1] = w[n - 1]
        BY <2>2, <2>3, <3>1
      <4> QED BY <4>1, <2>2, <3>1 DEF ReadStep
    <3>2. CASE i # n
      <4>1. i \in 0 .. n - 1 /\ v[i] = w[i] /\ (i # 0 => v[i - 1] = w[i - 1])
        BY <2>3, <3>2
      <4> QED BY <4>1, <2>4 DEF ReadRec
    <3> QED BY <3>1, <3>2
  <2>6. ReadRec(t, n, v)
    BY <2>5 DEF ReadRec
  <2> QED BY <2>1, <2>6
<1>2. PICK w : ReadRec(t, Len(t), w)
  BY <1>1
<1> DEFINE to == CHOOSE u : ReadRec(t, Len(t), u)
<1>3. ReadRec(t, Len(t), to)
  BY <1>2
<1>4. ReadState(t) = to
  BY DEF ReadState, ReadRec
<1> HIDE DEF to
<1>5. ReadRec(t, Len(t), ReadState(t))
  BY <1>3, <1>4
<1> DEFINE st == ReadState(t)
<1> HIDE DEF st
<1>6. ReadRec(t, Len(t), st)
  BY <1>5 DEF st
<1>7. st[0] = Outside
  BY <1>6 DEF ReadRec
<1>8. ASSUME NEW i \in 1 .. Len(t)  PROVE st[i] = ReadStep(t, st[i - 1], i)
  <2>1. i \in 0 .. Len(t) /\ i # 0
    OBVIOUS
  <2> QED BY <2>1, <1>6 DEF ReadRec, ReadStep
<1> QED BY <1>7, <1>8 DEF st

\* What dir_find makes of entry i.
FindStep(t, nm, nolfn, s, i) ==
    LET e == t[i]
        reset == [s EXCEPT !.ord = NoOrd, !.blk = 0]
    IN  IF s.stop THEN s
        ELSE IF e.kind = "end" THEN [s EXCEPT !.stop = TRUE]
        ELSE IF e.kind = "del" THEN reset
        ELSE IF e.kind = "lfn" THEN IF nolfn THEN s ELSE Part(s, e, i, Matches(nm.segs, e))
        ELSE IF Closes(s, e) \/ (~nm.loss /\ e.short = nm.short)
             THEN [s EXCEPT !.hit = i, !.stop = TRUE]
        ELSE reset

\* w is the function of which FindScan(t, nm, nolfn) is the last value.
FindRec(t, nm, nolfn, n, w) ==
    w = [i \in 0 .. n |-> IF i = 0 THEN Outside ELSE FindStep(t, nm, nolfn, w[i - 1], i)]

\* The states of a scan, one for each entry.
IsScan(t, nm, nolfn, st) ==
    /\ st[0] = Outside
    /\ \A i \in 1 .. Len(t) : st[i] = FindStep(t, nm, nolfn, st[i - 1], i)

\* dir_find goes from entry to entry.
LEMMA FindIs ==
    ASSUME NEW t, Len(t) \in Nat, NEW nm, NEW nolfn
    PROVE  \E st : IsScan(t, nm, nolfn, st) /\ FindScan(t, nm, nolfn) = st[Len(t)]
<1> DEFINE Bad == {n \in Nat : ~ \E w : FindRec(t, nm, nolfn, n, w)}
<1>1. Bad = {}
  <2> SUFFICES ASSUME Bad # {}  PROVE FALSE
    OBVIOUS
  <2>1. PICK n \in Bad : \A m \in Bad : n <= m
    <3>1. Bad \in SUBSET Nat
      OBVIOUS
    <3> QED BY <3>1, Least
  <2>2. n # 0
    <3> DEFINE v == [i \in 0 .. 0 |-> Outside]
    <3>1. FindRec(t, nm, nolfn, 0, v)
      BY DEF FindRec
    <3> QED BY <3>1
  <2>3. n \in Nat /\ n - 1 \in Nat /\ n - 1 \notin Bad
    BY <2>1, <2>2
  <2>4. PICK w : FindRec(t, nm, nolfn, n - 1, w)
    BY <2>3
  <2> DEFINE v == [i \in 0 .. n |-> IF i = n THEN FindStep(t, nm, nolfn, w[n - 1], n) ELSE w[i]]
  <2>5. ASSUME NEW i \in 0 .. n
        PROVE  v[i] = IF i = 0 THEN Outside ELSE FindStep(t, nm, nolfn, v[i - 1], i)
    <3>1. CASE i = n
      <4>1. v[i] = FindStep(t, nm, nolfn, w[n - 1], n) /\ v[i - 1] = w[n - 1]
        BY <2>2, <2>3, <3>1
      <4> QED BY <4>1, <2>2, <3>1
    <3>2. CASE i # n
      <4>1. i \in 0 .. n - 1 /\ v[i] = w[i] /\ (i # 0 => v[i - 1] = w[i - 1])
        BY <2>3, <3>2
      <4>2. w[i] = IF i = 0 THEN Outside ELSE FindStep(t, nm, nolfn, w[i - 1], i)
        BY <4>1, <2>4 DEF FindRec
      <4> QED BY <4>1, <4>2
    <3> QED BY <3>1, <3>2
  <2>6. FindRec(t, nm, nolfn, n, v)
    BY <2>5 DEF FindRec
  <2> QED BY <2>1, <2>6
<1>2. PICK w : FindRec(t, nm, nolfn, Len(t), w)
  BY <1>1
<1> DEFINE to == CHOOSE u : FindRec(t, nm, nolfn, Len(t), u)
<1>3. FindRec(t, nm, nolfn, Len(t), to)
  BY <1>2
<1>4. FindScan(t, nm, nolfn) = to[Len(t)]
  BY DEF FindScan, FindRec, FindStep
<1> HIDE DEF to
<1>5. to[0] = Outside
  BY <1>3 DEF FindRec
<1>6. ASSUME NEW i \in 1 .. Len(t)  PROVE to[i] = FindStep(t, nm, nolfn, to[i - 1], i)
  <2>1. i \in 0 .. Len(t) /\ i # 0
    OBVIOUS
  <2> QED BY <2>1, <1>3 DEF FindRec
<1> QED BY <1>4, <1>5, <1>6 DEF IsScan
-----------------------------------------------------------------------------
(* Entries *)

Entries ==
    [kind : {"end", "del"}]
    \cup [kind : {"lfn"}, seg : Segs, ord : 1 .. NoOrd - 1, last : BOOLEAN,
          sum : {Sum[s] : s \in Shorts}]
    \cup [kind : {"sfn"}, short : Shorts, id : Ids \cup {Ghost}]

\* What a scan knows.
States == [ord : 0 .. NoOrd, sum : {Sum[s] : s \in Shorts} \cup {NoOrd}, blk : Nat, hit : Nat,
           stop : BOOLEAN]

\* The kinds of entries.
LEMMA EntryIs ==
    ASSUME NEW e \in Entries
    PROVE  /\ e.kind \in {"end", "del", "lfn", "sfn"}
           /\ e.kind = "end" <=> e = End
           /\ e.kind = "del" <=> e = Del
           /\ e.kind = "lfn" => /\ e.ord \in 1 .. 254 /\ e.last \in BOOLEAN
                                /\ e.sum \in {Sum[s] : s \in Shorts} /\ e.seg \in Segs
           /\ e.kind = "sfn" => e.short \in Shorts /\ e.id \in Ids \cup {Ghost}
           /\ IsFree(e) <=> e = End \/ e = Del
  BY DEF Entries, NoOrd, End, Del, IsFree

\* The entries that calls write.
IsSfn(e, short, id) == e \in Entries /\ e.kind = "sfn" /\ e.short = short /\ e.id = id
IsLfn(e, seg, ord, last, sum) ==
    e \in Entries /\ e.kind = "lfn" /\ e.seg = seg /\ e.ord = ord /\ e.last = last /\ e.sum = sum

\* An end mark and a deleted entry.
LEMMA FreeWritten ==
    End \in Entries /\ Del \in Entries /\ End.kind = "end" /\ Del.kind = "del"
  BY DEF Entries, End, Del

\* A short entry.
LEMMA SfnWritten ==
    ASSUME NEW short \in Shorts, NEW id \in Ids \cup {Ghost}
    PROVE  IsSfn(Sfn(short, id), short, id)
  BY DEF Entries, Sfn, IsSfn

\* A part of a long name.
LEMMA LfnWritten ==
    ASSUME NEW seg \in Segs, NEW ord \in 1 .. 254, NEW last \in BOOLEAN, NEW short \in Shorts
    PROVE  IsLfn(Lfn(seg, ord, last, Sum[short]), seg, ord, last, Sum[short])
  BY DEF Entries, Lfn, NoOrd, IsLfn

\* The entries of a table.
LEMMA TableIs ==
    ASSUME NEW t \in Seq(Entries)
    PROVE  Len(t) \in Nat /\ \A i \in 1 .. Len(t) : t[i] \in Entries
  BY LenProperties, ElementOfSeq

\* What a part of a long name does to a scan.
LEMMA PartIs ==
    ASSUME NEW s \in States, NEW e \in Entries, e.kind = "lfn", NEW i \in Nat, NEW ok \in BOOLEAN
    PROVE  /\ Part(s, e, i, ok) \in States
           /\ Part(s, e, i, ok).hit = s.hit /\ Part(s, e, i, ok).stop = s.stop
           /\ Part(s, e, i, ok).blk = IF e.last THEN i ELSE s.blk
           /\ Part(s, e, i, ok).sum = IF e.last THEN e.sum ELSE s.sum
           /\ Part(s, e, i, ok).ord = IF (e.last \/ (e.ord = s.ord /\ e.sum = s.sum)) /\ ok
                                      THEN e.ord - 1 ELSE NoOrd
<1> DEFINE b == IF e.last THEN [s EXCEPT !.ord = e.ord, !.sum = e.sum, !.blk = i] ELSE s
           k == IF e.ord = b.ord /\ e.sum = b.sum /\ ok THEN b.ord - 1 ELSE NoOrd
           p == [b EXCEPT !.ord = k]
<1>1. e.ord \in 1 .. 254 /\ e.last \in BOOLEAN /\ e.sum \in {Sum[x] : x \in Shorts}
  BY EntryIs
<1>2. /\ b \in States /\ b.hit = s.hit /\ b.stop = s.stop
      /\ b.blk = IF e.last THEN i ELSE s.blk
      /\ b.sum = IF e.last THEN e.sum ELSE s.sum
      /\ b.ord = IF e.last THEN e.ord ELSE s.ord
  <2>1. CASE e.last
    <3>1. b = [s EXCEPT !.ord = e.ord, !.sum = e.sum, !.blk = i]
      BY <2>1
    <3>2. /\ b = [ord |-> e.ord, sum |-> e.sum, blk |-> i, hit |-> s.hit, stop |-> s.stop]
          /\ s.hit \in Nat /\ s.stop \in BOOLEAN
      BY <3>1 DEF States
    <3> HIDE DEF b
    <3>3. e.ord \in 0 .. NoOrd
      BY <1>1 DEF NoOrd
    <3> QED BY <3>2, <3>3, <2>1, <1>1 DEF States
  <2>2. CASE ~e.last
    BY <2>2
  <2> QED BY <2>1, <2>2
<1>3. Part(s, e, i, ok) = p
  <2>1. p = [b EXCEPT !.ord = IF e.ord = b.ord /\ e.sum = b.sum /\ ok THEN @ - 1 ELSE NoOrd]
    BY <1>2 DEF States
  <2> QED BY <2>1 DEF Part
<1> HIDE DEF b
<1>4. k \in 0 .. NoOrd
  BY <1>1, <1>2 DEF NoOrd
<1>5. k = IF (e.last \/ (e.ord = s.ord /\ e.sum = s.sum)) /\ ok THEN e.ord - 1 ELSE NoOrd
  BY <1>1, <1>2
<1> HIDE DEF k
<1>6. p \in States /\ p.ord = k /\ p.hit = b.hit /\ p.stop = b.stop /\ p.blk = b.blk /\ p.sum = b.sum
  BY <1>2, <1>4 DEF States
<1> QED BY <1>2, <1>3, <1>5, <1>6

\* A scan that begins.
LEMMA OutsideIs ==
    /\ Outside \in States /\ Outside.ord = NoOrd /\ Outside.blk = 0 /\ Outside.hit = 0
    /\ Outside.stop = FALSE
  BY DEF Outside, States, NoOrd

\* What dir_read knows of a long name lies in a row up to the entry.
ReadGood(t, s, i) ==
    /\ s \in States
    /\ s.ord = NoOrd \/ (s.blk \in 1 .. i /\ \A j \in s.blk .. i : t[j].kind = "lfn")

\* It holds at each entry.
LEMMA ReadStates ==
    ASSUME NEW t \in Seq(Entries), NEW i \in 0 .. Len(t)
    PROVE  ReadGood(t, ReadState(t)[i], i)
<1> DEFINE st == ReadState(t)
           Bad == {n \in 0 .. Len(t) : ~ ReadGood(t, st[n], n)}
<1>1. Len(t) \in Nat /\ \A n \in 1 .. Len(t) : t[n] \in Entries
  BY TableIs
<1>2. st[0] = Outside /\ \A n \in 1 .. Len(t) : st[n] = ReadStep(t, st[n - 1], n)
  BY <1>1, ReadIs
<1> HIDE DEF st
<1> SUFFICES ASSUME Bad # {}  PROVE FALSE
  BY DEF st
<1>3. PICK n \in Bad : \A m \in Bad : n <= m
  <2>1. Bad \in SUBSET Nat
    BY <1>1
  <2> QED BY <2>1, Least
<1>4. n # 0
  BY <1>2, <1>3, OutsideIs DEF ReadGood
<1>5. n \in 1 .. Len(t) /\ n - 1 \in 0 .. Len(t) /\ n - 1 \notin Bad
  BY <1>1, <1>3, <1>4
<1>6. ReadGood(t, st[n - 1], n - 1)
  BY <1>5
<1>7. st[n] = ReadStep(t, st[n - 1], n) /\ t[n] \in Entries
  BY <1>1, <1>2, <1>5
<1>8. ~ ReadGood(t, st[n], n)
  BY <1>3
<1> HIDE DEF Bad
<1> DEFINE s == st[n - 1]
<1>9. CASE t[n].kind # "lfn"
  BY <1>7, <1>8, <1>9, OutsideIs DEF ReadStep, ReadGood
<1>10. CASE t[n].kind = "lfn"
  <2>1. st[n] = Part(s, t[n], n, TRUE)
    BY <1>7, <1>10 DEF ReadStep
  <2>2. s \in States
    BY <1>6 DEF ReadGood
  <2> HIDE DEF s
  <2>a. TRUE \in BOOLEAN /\ n \in Nat /\ t[n] \in Entries
    BY <1>1, <1>5
  <2> DEFINE p == Part(s, t[n], n, TRUE)
  <2>b. /\ p \in States
        /\ p.blk = IF t[n].last THEN n ELSE s.blk
        /\ p.ord = IF (t[n].last \/ (t[n].ord = s.ord /\ t[n].sum = s.sum)) /\ TRUE
                       THEN t[n].ord - 1 ELSE NoOrd
    BY <2>a, <2>2, <1>10, PartIs
  <2>3. /\ st[n] \in States
        /\ st[n].blk = IF t[n].last THEN n ELSE s.blk
        /\ st[n].ord = IF (t[n].last \/ (t[n].ord = s.ord /\ t[n].sum = s.sum)) /\ TRUE
                       THEN t[n].ord - 1 ELSE NoOrd
    BY <2>1, <2>b
  <2>4. CASE t[n].last
    BY <2>3, <2>4, <1>1, <1>5, <1>8, <1>10 DEF ReadGood
  <2>5. CASE ~t[n].last
    <3>1. CASE st[n].ord = NoOrd
      BY <3>1, <2>3, <1>8 DEF ReadGood
    <3>2. CASE st[n].ord # NoOrd
      <4>1. t[n].ord = s.ord /\ t[n].ord \in 1 .. 254
        BY <3>2, <2>3, <2>5, <1>7, <1>10, EntryIs
      <4>2. s.ord # NoOrd
        <5>1. NoOrd \notin 1 .. 254
          BY DEF NoOrd
        <5> QED BY <4>1, <5>1
      <4>3. s.blk \in 1 .. n - 1 /\ \A j \in s.blk .. n - 1 : t[j].kind = "lfn"
        BY <4>2, <1>6 DEF ReadGood, s
      <4>4. st[n].blk = s.blk
        BY <2>3, <2>5
      <4>5. s.blk \in 1 .. n
        BY <4>3, <1>1, <1>5
      <4>6. \A j \in s.blk .. n : j = n \/ j \in s.blk .. n - 1
        BY <4>3, <1>1, <1>5
      <4> QED BY <4>3, <4>4, <4>5, <4>6, <2>3, <1>8, <1>10 DEF ReadGood
    <3> QED BY <3>1, <3>2
  <2> QED BY <2>4, <2>5
<1> QED BY <1>9, <1>10

\* Behind an entry that is no part of a long name dir_read starts anew.
LEMMA ReadAnew ==
    ASSUME NEW t \in Seq(Entries), NEW i \in 0 .. Len(t), i = 0 \/ t[i].kind # "lfn"
    PROVE  ReadState(t)[i] = Outside
<1>1. Len(t) \in Nat
  BY TableIs
<1>2. ReadState(t)[0] = Outside /\ \A n \in 1 .. Len(t) : ReadState(t)[n] = ReadStep(t, ReadState(t)[n - 1], n)
  BY <1>1, ReadIs
<1>3. CASE i = 0
  BY <1>2, <1>3
<1>4. CASE i # 0
  <2>1. i \in 1 .. Len(t) /\ t[i].kind # "lfn"
    BY <1>1, <1>4
  <2> QED BY <1>2, <2>1 DEF ReadStep
<1> QED BY <1>3, <1>4

\* Two tables are the same from behind entry a to b, and a is no part of a long name.
Alike(t, u, a, b) ==
    /\ a \in Nat /\ b \in Nat /\ a <= b /\ b <= Len(t) /\ b <= Len(u)
    /\ a = 0 \/ (t[a].kind # "lfn" /\ u[a].kind # "lfn")
    /\ \A j \in a + 1 .. b : t[j] = u[j]

\* There dir_read knows the same of both.
LEMMA ReadLocal ==
    ASSUME NEW t \in Seq(Entries), NEW u \in Seq(Entries), NEW a, NEW b, Alike(t, u, a, b)
    PROVE  ReadState(t)[b] = ReadState(u)[b]
<1> DEFINE st == ReadState(t)
           su == ReadState(u)
           Bad == {n \in a .. b : st[n] # su[n]}
<1>1. Len(t) \in Nat /\ Len(u) \in Nat /\ a \in Nat /\ b \in Nat /\ a <= b /\ b <= Len(t) /\ b <= Len(u)
  BY TableIs DEF Alike
<1>2. /\ \A n \in 1 .. Len(t) : st[n] = ReadStep(t, st[n - 1], n)
      /\ \A n \in 1 .. Len(u) : su[n] = ReadStep(u, su[n - 1], n)
  BY <1>1, ReadIs
<1>3. st[a] = Outside /\ su[a] = Outside
  <2>1. a \in 0 .. Len(t) /\ a \in 0 .. Len(u)
    BY <1>1
  <2> QED BY <2>1, ReadAnew DEF Alike
<1> HIDE DEF st, su
<1> SUFFICES ASSUME Bad # {}  PROVE FALSE
  BY <1>1 DEF st, su
<1>4. PICK n \in Bad : \A m \in Bad : n <= m
  <2>1. Bad \in SUBSET Nat
    BY <1>1
  <2> QED BY <2>1, Least
<1>5. n \in a .. b /\ st[n] # su[n] /\ n # a
  BY <1>3, <1>4
<1>6. n \in a + 1 .. b /\ n - 1 \in a .. b /\ n \in 1 .. Len(t) /\ n \in 1 .. Len(u) /\ n - 1 < n
  BY <1>1, <1>5
<1>7. n - 1 \notin Bad
  BY <1>1, <1>4, <1>6
<1>8. st[n - 1] = su[n - 1]
  BY <1>6, <1>7
<1>9. t[n] = u[n]
  BY <1>6 DEF Alike
<1> QED BY <1>2, <1>5, <1>6, <1>8, <1>9 DEF ReadStep

\* So a listing shows the same name for a short entry there.
LEMMA SameListing ==
    ASSUME NEW t \in Seq(Entries), NEW u \in Seq(Entries), NEW a, NEW i,
           Alike(t, u, a, i), a < i, t[i].kind = "sfn"
    PROVE  ListedAs(t, i) = ListedAs(u, i)
<1>1. Len(t) \in Nat /\ Len(u) \in Nat /\ a \in Nat /\ i \in Nat /\ i <= Len(t) /\ i <= Len(u)
  BY TableIs DEF Alike
<1>2. Alike(t, u, a, i - 1)
  BY <1>1 DEF Alike
<1>3. ReadState(t)[i - 1] = ReadState(u)[i - 1]
  BY <1>2, ReadLocal
<1> DEFINE s == ReadState(t)[i - 1]
<1>4. i - 1 \in 0 .. Len(t)
  BY <1>1
<1>5. ReadGood(t, s, i - 1)
  BY <1>4, ReadStates
<1>6. i \in a + 1 .. i /\ t[i] = u[i]
  BY <1>1 DEF Alike
<1> HIDE DEF s
<1>7. CASE Closes(s, t[i])
  <2>1. s.ord = 0 /\ s.ord # NoOrd
    BY <1>7 DEF Closes, NoOrd
  <2>2. s.blk \in 1 .. i - 1 /\ \A j \in s.blk .. i - 1 : t[j].kind = "lfn"
    BY <1>5, <2>1 DEF ReadGood
  <2>3. a < s.blk
    <3>1. a = 0 \/ t[a].kind # "lfn"
      BY DEF Alike
    <3>2. a \notin s.blk .. i - 1
      BY <1>1, <2>2, <3>1
    <3> QED BY <1>1, <2>2, <3>2
  <2>4. ASSUME NEW k \in 1 .. i - s.blk  PROVE t[i - k].seg = u[i - k].seg
    <3>1. i - k \in a + 1 .. i
      BY <1>1, <2>2, <2>3
    <3> QED BY <3>1 DEF Alike
  <2>5. [k \in 1 .. i - s.blk |-> t[i - k].seg] = [k \in 1 .. i - s.blk |-> u[i - k].seg]
    BY <2>4
  <2> QED BY <1>3, <1>6, <1>7, <2>5 DEF ListedAs, s
<1>8. CASE ~Closes(s, t[i])
  BY <1>3, <1>6, <1>8 DEF ListedAs, s
<1> QED BY <1>7, <1>8
-----------------------------------------------------------------------------
(* What dir_find finds *)

\* A scan that starts anew at an entry that ends a long name.
LEMMA ResetIs ==
    ASSUME NEW s \in States, NEW r, r = [s EXCEPT !.ord = NoOrd, !.blk = 0]
    PROVE  r \in States /\ r.ord = NoOrd /\ r.blk = 0 /\ r.hit = s.hit /\ r.stop = s.stop
<1>1. /\ r = [ord |-> NoOrd, sum |-> s.sum, blk |-> 0, hit |-> s.hit, stop |-> s.stop]
      /\ s.hit \in Nat /\ s.stop \in BOOLEAN /\ s.sum \in {Sum[x] : x \in Shorts} \cup {NoOrd}
  BY DEF States
<1>2. NoOrd \in 0 .. NoOrd /\ 0 \in Nat
  BY DEF NoOrd
<1> QED BY <1>1, <1>2 DEF States

\* A scan that ends.
LEMMA EndIs ==
    ASSUME NEW s \in States, NEW r, r = [s EXCEPT !.stop = TRUE]
    PROVE  r \in States /\ r.blk = s.blk /\ r.hit = s.hit /\ r.stop = TRUE
  BY DEF States

\* A scan that finds entry i.
LEMMA HitIs ==
    ASSUME NEW s \in States, NEW i \in Nat, NEW r, r = [s EXCEPT !.hit = i, !.stop = TRUE]
    PROVE  r \in States /\ r.blk = s.blk /\ r.hit = i /\ r.stop = TRUE
  BY DEF States

\* A short entry that is not the one of a name without loss.
NoMatch(t, nm, j) == t[j].kind = "sfn" => nm.loss = TRUE \/ t[j].short # nm.short

\* The scan goes on behind entry i: nothing found, and blk is the start of a long name.
Going(t, nm, st, i) ==
    /\ st[i] \in States /\ st[i].stop = FALSE /\ st[i].hit = 0
    /\ \A j \in 1 .. i : t[j].kind # "end" /\ NoMatch(t, nm, j)
    /\ \A j \in 0 .. i : st[j].stop = FALSE
    /\ st[i].blk = 0 \/ (st[i].blk \in 1 .. i /\ \A j \in st[i].blk .. i : t[j].kind = "lfn")

\* The scan has come to an end mark.
Missed(t, nm, st, i) ==
    /\ st[i] \in States /\ st[i].stop = TRUE /\ st[i].hit = 0
    /\ \E e \in 1 .. i : t[e].kind = "end" /\ \A j \in 1 .. e : NoMatch(t, nm, j)

\* The scan has found short entry h.
Got(t, nm, st, i, h) ==
    /\ h \in 1 .. i /\ t[h].kind = "sfn" /\ Going(t, nm, st, h - 1)
    /\ st[i] \in States /\ st[i].stop = TRUE /\ st[i].hit = h /\ st[i].blk = st[h - 1].blk
    /\ Closes(st[h - 1], t[h]) \/ (nm.loss = FALSE /\ t[h].short = nm.short)

\* One of the three holds behind every entry.
Scanned(t, nm, st, i) ==
    Going(t, nm, st, i) \/ Missed(t, nm, st, i) \/ \E h \in 1 .. i : Got(t, nm, st, i, h)

\* A part of a long name leaves the scan going.
LEMMA GoingPart ==
    ASSUME NEW t \in Seq(Entries), NEW nm, NEW st, NEW i \in 1 .. Len(t), NEW ok \in BOOLEAN,
           Going(t, nm, st, i - 1), t[i].kind = "lfn", st[i] = Part(st[i - 1], t[i], i, ok)
    PROVE  Going(t, nm, st, i)
<1>1. Len(t) \in Nat /\ t[i] \in Entries /\ i \in Nat /\ i - 1 \in Nat
  BY TableIs
<1> DEFINE s == st[i - 1]
<1>2. s \in States
  BY DEF Going
<1> HIDE DEF s
<1> DEFINE p == Part(s, t[i], i, ok)
<1>3. p \in States /\ p.hit = s.hit /\ p.stop = s.stop /\ p.blk = IF t[i].last THEN i ELSE s.blk
  BY <1>1, <1>2, PartIs
<1>4. st[i] = p
  BY DEF s
<1> HIDE DEF p
<1>5. /\ s.stop = FALSE /\ s.hit = 0
      /\ \A j \in 1 .. i - 1 : t[j].kind # "end" /\ NoMatch(t, nm, j)
      /\ \A j \in 0 .. i - 1 : st[j].stop = FALSE
      /\ s.blk = 0 \/ (s.blk \in 1 .. i - 1 /\ \A j \in s.blk .. i - 1 : t[j].kind = "lfn")
  BY DEF Going, s
<1>6. \A j \in 1 .. i : j = i \/ j \in 1 .. i - 1
  BY <1>1
<1>7. \A j \in 0 .. i : j = i \/ j \in 0 .. i - 1
  BY <1>1
<1>8. t[i].kind # "end" /\ NoMatch(t, nm, i)
  BY DEF NoMatch
<1>9. p.blk = 0 \/ (p.blk \in 1 .. i /\ \A j \in p.blk .. i : t[j].kind = "lfn")
  <2>1. CASE t[i].last
    BY <1>1, <1>3, <2>1
  <2>2. CASE ~t[i].last
    <3>1. p.blk = s.blk
      BY <1>3, <2>2
    <3>2. CASE s.blk = 0
      BY <3>1, <3>2
    <3>3. CASE s.blk # 0
      <4>1. s.blk \in 1 .. i - 1 /\ \A j \in s.blk .. i - 1 : t[j].kind = "lfn"
        BY <1>5, <3>3
      <4>2. s.blk \in 1 .. i
        BY <4>1, <1>1
      <4>3. \A j \in s.blk .. i : j = i \/ j \in s.blk .. i - 1
        BY <4>1, <1>1
      <4> QED BY <3>1, <4>1, <4>2, <4>3
    <3> QED BY <3>2, <3>3
  <2> QED BY <2>1, <2>2
<1> QED BY <1>3, <1>4, <1>5, <1>6, <1>7, <1>8, <1>9 DEF Going

\* An entry that ends a long name leaves the scan going, too.
LEMMA GoingReset ==
    ASSUME NEW t \in Seq(Entries), NEW nm, NEW st, NEW i \in 1 .. Len(t),
           Going(t, nm, st, i - 1), t[i].kind # "end", NoMatch(t, nm, i),
           \/ st[i] = [st[i - 1] EXCEPT !.ord = NoOrd, !.blk = 0]
           \/ st[i] = st[i - 1] /\ st[i].blk = 0
    PROVE  Going(t, nm, st, i)
<1>1. Len(t) \in Nat /\ i \in Nat /\ i - 1 \in Nat
  BY TableIs
<1> DEFINE s == st[i - 1]
<1>2. s \in States
  BY DEF Going
<1>3. st[i] \in States /\ st[i].hit = s.hit /\ st[i].stop = s.stop /\ st[i].blk = 0
  <2>1. CASE st[i] = [st[i - 1] EXCEPT !.ord = NoOrd, !.blk = 0]
    BY <1>2, <2>1, ResetIs
  <2>2. CASE st[i] = st[i - 1] /\ st[i].blk = 0
    BY <1>2, <2>2
  <2> QED BY <2>1, <2>2
<1>5. /\ s.stop = FALSE /\ s.hit = 0
      /\ \A j \in 1 .. i - 1 : t[j].kind # "end" /\ NoMatch(t, nm, j)
      /\ \A j \in 0 .. i - 1 : st[j].stop = FALSE
  BY DEF Going
<1> HIDE DEF s
<1>6. \A j \in 1 .. i : j = i \/ j \in 1 .. i - 1
  BY <1>1
<1>7. \A j \in 0 .. i : j = i \/ j \in 0 .. i - 1
  BY <1>1
<1> QED BY <1>3, <1>5, <1>6, <1>7 DEF Going

\* An end mark ends the scan without a hit.
LEMMA GoingEnds ==
    ASSUME NEW t \in Seq(Entries), NEW nm, NEW st, NEW i \in 1 .. Len(t),
           Going(t, nm, st, i - 1), t[i].kind = "end", st[i] = [st[i - 1] EXCEPT !.stop = TRUE]
    PROVE  Missed(t, nm, st, i)
<1>1. Len(t) \in Nat /\ i \in Nat /\ i - 1 \in Nat
  BY TableIs
<1> DEFINE s == st[i - 1]
<1>2. s \in States /\ s.hit = 0 /\ \A j \in 1 .. i - 1 : NoMatch(t, nm, j)
  BY DEF Going
<1>3. st[i] \in States /\ st[i].hit = s.hit /\ st[i].stop = TRUE
  BY <1>2, EndIs
<1> HIDE DEF s
<1>4. \A j \in 1 .. i : j = i \/ j \in 1 .. i - 1
  BY <1>1
<1>5. NoMatch(t, nm, i) /\ i \in 1 .. i
  BY <1>1 DEF NoMatch
<1> QED BY <1>2, <1>3, <1>4, <1>5 DEF Missed

\* The short entry that fits ends it with a hit.
LEMMA GoingHits ==
    ASSUME NEW t \in Seq(Entries), NEW nm, NEW st, NEW i \in 1 .. Len(t),
           Going(t, nm, st, i - 1), t[i].kind = "sfn",
           Closes(st[i - 1], t[i]) \/ (nm.loss = FALSE /\ t[i].short = nm.short),
           st[i] = [st[i - 1] EXCEPT !.hit = i, !.stop = TRUE]
    PROVE  Got(t, nm, st, i, i)
<1>1. Len(t) \in Nat /\ i \in Nat /\ i \in 1 .. i
  BY TableIs
<1> DEFINE s == st[i - 1]
<1>2. s \in States
  BY DEF Going
<1> DEFINE r == st[i]
<1>4. r = [s EXCEPT !.hit = i, !.stop = TRUE]
  OBVIOUS
<1> HIDE DEF s, r
<1>5. r \in States /\ r.hit = i /\ r.stop = TRUE /\ r.blk = s.blk
  <2>1. i \in Nat
    BY <1>1
  <2> QED BY <2>1, <1>2, <1>4 DEF States
<1>3. st[i] \in States /\ st[i].hit = i /\ st[i].stop = TRUE /\ st[i].blk = s.blk
  BY <1>5 DEF r
<1> USE DEF s
<1> QED BY <1>1, <1>3 DEF Got

\* What dir_find knows behind entry i.
LEMMA ScanIs ==
    ASSUME NEW t \in Seq(Entries), NEW nm, nm.loss \in BOOLEAN, NEW nolfn \in BOOLEAN, NEW st,
           IsScan(t, nm, nolfn, st), NEW i \in 0 .. Len(t)
    PROVE  Scanned(t, nm, st, i)
<1> DEFINE Good(n) == /\ Scanned(t, nm, st, n)
                      /\ nolfn = TRUE /\ Going(t, nm, st, n) => st[n].blk = 0
           Bad == {n \in 0 .. Len(t) : ~ Good(n)}
<1>1. Len(t) \in Nat /\ \A n \in 1 .. Len(t) : t[n] \in Entries
  BY TableIs
<1> SUFFICES ASSUME Bad # {}  PROVE FALSE
  OBVIOUS
<1>2. PICK n \in Bad : \A m \in Bad : n <= m
  <2>1. Bad \in SUBSET Nat
    BY <1>1
  <2> QED BY <2>1, Least
<1>3. n # 0
  <2>1. st[0] = Outside
    BY DEF IsScan
  <2>2. Going(t, nm, st, 0)
    BY <2>1, OutsideIs DEF Going
  <2>3. Good(0)
    BY <2>1, <2>2, OutsideIs DEF Scanned
  <2> QED BY <1>2, <2>3
<1>4. n \in 1 .. Len(t) /\ n - 1 \in 0 .. Len(t) /\ n - 1 \notin Bad
  BY <1>1, <1>2, <1>3
<1>5. Good(n - 1)
  BY <1>4
<1>6. ~ Good(n)
  BY <1>2
<1> HIDE DEF Bad
<1>7. st[n] = FindStep(t, nm, nolfn, st[n - 1], n)
  BY <1>4 DEF IsScan
<1>8. n \in Nat /\ t[n] \in Entries /\ t[n].kind \in {"end", "del", "lfn", "sfn"}
  BY <1>1, <1>4, EntryIs
<1> DEFINE s == st[n - 1]
<1>9. CASE Going(t, nm, st, n - 1)
  <2>1. s.stop = FALSE
    BY <1>9 DEF Going
  <2>2. CASE t[n].kind = "end"
    <3>1. st[n] = [st[n - 1] EXCEPT !.stop = TRUE]
      BY <1>7, <2>1, <2>2 DEF FindStep
    <3>2. Missed(t, nm, st, n)
      BY <1>4, <1>9, <2>2, <3>1, GoingEnds
    <3>3. ~ Going(t, nm, st, n)
      BY <3>2 DEF Missed, Going
    <3> QED BY <1>6, <3>2, <3>3 DEF Scanned
  <2>3. CASE t[n].kind = "del"
    <3>1. st[n] = [st[n - 1] EXCEPT !.ord = NoOrd, !.blk = 0]
      BY <1>7, <2>1, <2>3 DEF FindStep
    <3>2. Going(t, nm, st, n)
      BY <1>4, <1>9, <2>3, <3>1, GoingReset DEF NoMatch
    <3>3. st[n].blk = 0
      BY <1>9, <3>1, ResetIs DEF Going
    <3> QED BY <1>6, <3>2, <3>3 DEF Scanned
  <2>4. CASE t[n].kind = "lfn"
    <3>1. CASE nolfn = TRUE
      <4>1. st[n] = st[n - 1]
        BY <1>7, <2>1, <2>4, <3>1 DEF FindStep
      <4>2. st[n].blk = 0
        BY <1>5, <1>9, <3>1, <4>1
      <4>3. Going(t, nm, st, n)
        BY <1>4, <1>9, <2>4, <4>1, <4>2, GoingReset DEF NoMatch
      <4> QED BY <1>6, <4>2, <4>3 DEF Scanned
    <3>2. CASE nolfn = FALSE
      <4> DEFINE ok == Matches(nm.segs, t[n])
      <4>1. st[n] = Part(st[n - 1], t[n], n, ok)
        BY <1>7, <2>1, <2>4, <3>2 DEF FindStep
      <4>2. ok \in BOOLEAN
        BY DEF Matches
      <4> HIDE DEF ok
      <4>3. Going(t, nm, st, n)
        BY <1>4, <1>9, <2>4, <4>1, <4>2, GoingPart
      <4> QED BY <1>6, <3>2, <4>3 DEF Scanned
    <3> QED BY <3>1, <3>2
  <2>5. CASE t[n].kind = "sfn"
    <3>1. CASE Closes(s, t[n]) \/ (nm.loss = FALSE /\ t[n].short = nm.short)
      <4>1. st[n] = [st[n - 1] EXCEPT !.hit = n, !.stop = TRUE]
        BY <1>7, <2>1, <2>5, <3>1 DEF FindStep
      <4>2. Got(t, nm, st, n, n)
        BY <1>4, <1>9, <2>5, <3>1, <4>1, GoingHits
      <4>3. ~ Going(t, nm, st, n)
        BY <4>2 DEF Got, Going
      <4>4. n \in 1 .. n
        BY <1>4, <1>8
      <4> QED BY <1>6, <4>2, <4>3, <4>4 DEF Scanned
    <3>2. CASE ~ (Closes(s, t[n]) \/ (nm.loss = FALSE /\ t[n].short = nm.short))
      <4>1. st[n] = [st[n - 1] EXCEPT !.ord = NoOrd, !.blk = 0]
        BY <1>7, <2>1, <2>5, <3>2 DEF FindStep
      <4>2. NoMatch(t, nm, n)
        BY <3>2 DEF NoMatch
      <4>3. Going(t, nm, st, n)
        BY <1>4, <1>9, <2>5, <4>1, <4>2, GoingReset
      <4>4. st[n].blk = 0
        BY <1>9, <4>1, ResetIs DEF Going
      <4> QED BY <1>6, <4>3, <4>4 DEF Scanned
    <3> QED BY <3>1, <3>2
  <2> QED BY <1>8, <2>2, <2>3, <2>4, <2>5
<1>10. CASE ~ Going(t, nm, st, n - 1)
  <2>1. s.stop = TRUE
    BY <1>5, <1>10 DEF Scanned, Missed, Got
  <2>2. st[n] = st[n - 1]
    BY <1>7, <2>1 DEF FindStep
  <2>3. ~ Going(t, nm, st, n)
    BY <2>1, <2>2 DEF Going
  <2>4. \A j \in 1 .. n - 1 : j \in 1 .. n
    BY <1>8
  <2>5. CASE Missed(t, nm, st, n - 1)
    <3>1. Missed(t, nm, st, n)
      BY <2>2, <2>4, <2>5 DEF Missed
    <3> QED BY <1>6, <2>3, <3>1 DEF Scanned
  <2>6. ASSUME NEW h \in 1 .. n - 1, Got(t, nm, st, n - 1, h)  PROVE FALSE
    <3>1. Got(t, nm, st, n, h) /\ h \in 1 .. n
      BY <2>2, <2>4, <2>6 DEF Got
    <3> QED BY <1>6, <2>3, <3>1 DEF Scanned
  <2> QED BY <1>5, <1>10, <2>5, <2>6 DEF Scanned
<1> QED BY <1>9, <1>10

\* When dir_find finds nothing, no visible short entry is that of a name without loss.
LEMMA NotFound ==
    ASSUME NEW t \in Seq(Entries), NEW nm, nm.loss \in BOOLEAN, NEW nolfn \in BOOLEAN,
           FindScan(t, nm, nolfn).hit = 0, NEW i \in Visible(t)
    PROVE  NoMatch(t, nm, i)
<1>1. Len(t) \in Nat
  BY TableIs
<1>2. PICK st : IsScan(t, nm, nolfn, st) /\ FindScan(t, nm, nolfn) = st[Len(t)]
  BY <1>1, FindIs
<1>3. Len(t) \in 0 .. Len(t)
  BY <1>1
<1>4. Scanned(t, nm, st, Len(t))
  BY <1>2, <1>3, ScanIs
<1>5. i \in 1 .. Len(t) /\ \A j \in 1 .. i : t[j].kind # "end"
  BY DEF Visible
<1>6. CASE Going(t, nm, st, Len(t))
  BY <1>5, <1>6 DEF Going
<1>7. CASE Missed(t, nm, st, Len(t))
  <2>1. PICK e \in 1 .. Len(t) : t[e].kind = "end" /\ \A j \in 1 .. e : NoMatch(t, nm, j)
    BY <1>7 DEF Missed
  <2>2. e \notin 1 .. i
    BY <1>5, <2>1
  <2>3. i \in 1 .. e
    BY <1>1, <1>5, <2>2
  <2> QED BY <2>1, <2>3
<1>8. ASSUME NEW h \in 1 .. Len(t), Got(t, nm, st, Len(t), h)  PROVE FALSE
  <2>1. st[Len(t)].hit = h /\ h # 0
    BY <1>8 DEF Got
  <2> QED BY <1>2, <2>1
<1> QED BY <1>4, <1>6, <1>7, <1>8 DEF Scanned

\* What dir_find finds is a visible short entry, and blk the start of the parts before it.
Located(t, r) ==
    /\ r.hit \in Visible(t)
    /\ r.blk = 0 \/ (r.blk \in 1 .. r.hit - 1 /\ \A j \in r.blk .. r.hit - 1 : t[j].kind = "lfn")

\* It finds it, or reports 0.
LEMMA FoundIs ==
    ASSUME NEW t \in Seq(Entries), NEW nm, nm.loss \in BOOLEAN, NEW nolfn \in BOOLEAN, NEW st,
           IsScan(t, nm, nolfn, st), st[Len(t)].hit # 0
    PROVE  /\ Located(t, st[Len(t)])
           /\ Got(t, nm, st, Len(t), st[Len(t)].hit)
<1>1. Len(t) \in Nat
  BY TableIs
<1>3. Len(t) \in 0 .. Len(t)
  BY <1>1
<1>4. Scanned(t, nm, st, Len(t))
  BY <1>3, ScanIs
<1>5. ~ Going(t, nm, st, Len(t)) /\ ~ Missed(t, nm, st, Len(t))
  BY DEF Going, Missed
<1>6. PICK h \in 1 .. Len(t) : Got(t, nm, st, Len(t), h)
  BY <1>4, <1>5 DEF Scanned
<1> DEFINE r == st[Len(t)]
<1>7. r.hit = h /\ r.blk = st[h - 1].blk /\ t[h].kind = "sfn"
  BY <1>6 DEF Got
<1>8. /\ \A j \in 1 .. h - 1 : t[j].kind # "end"
      /\ st[h - 1].blk = 0
         \/ (st[h - 1].blk \in 1 .. h - 1 /\ \A j \in st[h - 1].blk .. h - 1 : t[j].kind = "lfn")
  BY <1>6 DEF Got, Going
<1>9. \A j \in 1 .. h : j = h \/ j \in 1 .. h - 1
  BY <1>1
<1>10. h \in Visible(t)
  BY <1>7, <1>8, <1>9 DEF Visible
<1> HIDE DEF r
<1>11. Located(t, r)
  BY <1>7, <1>8, <1>10 DEF Located
<1> QED BY <1>6, <1>7, <1>11 DEF r
-----------------------------------------------------------------------------
(* Names *)

\* The parts of a long name of L segments lie before entry i.
Parts(t, i, segs, L, sum) == \A k \in 1 .. L : t[i - k] = Lfn(segs[k], k, k = L, sum)

\* A scan that comes to one of them, which the caller can use or not.
PartUsed(p, s, e, x) ==
    /\ p \in States
    /\ e.last = TRUE => p.blk = x /\ p.sum = e.sum /\ p.ord = e.ord - 1
    /\ e.last = FALSE => /\ p.blk = s.blk /\ p.sum = s.sum
                         /\ e.ord = s.ord /\ e.sum = s.sum => p.ord = e.ord - 1
                         /\ e.ord # s.ord => p.ord = NoOrd
PartRefused(p, s, e, x) ==
    /\ p \in States /\ p.ord = NoOrd
    /\ e.last = TRUE => p.blk = x /\ p.sum = e.sum
    /\ e.last = FALSE => p.blk = s.blk /\ p.sum = s.sum

\* It goes on with the next one only if it can use this one.
LEMMA PartStep ==
    ASSUME NEW s \in States, NEW e \in Entries, e.kind = "lfn", NEW x \in Nat
    PROVE  PartUsed(Part(s, e, x, TRUE), s, e, x) /\ PartRefused(Part(s, e, x, FALSE), s, e, x)
<1>1. PartUsed(Part(s, e, x, TRUE), s, e, x)
  <2> DEFINE p == Part(s, e, x, TRUE)
  <2>1. /\ p \in States
        /\ p.blk = IF e.last THEN x ELSE s.blk
        /\ p.sum = IF e.last THEN e.sum ELSE s.sum
        /\ p.ord = IF (e.last \/ (e.ord = s.ord /\ e.sum = s.sum)) /\ TRUE
                                  THEN e.ord - 1 ELSE NoOrd
    BY PartIs
  <2> HIDE DEF p
  <2>2. PartUsed(p, s, e, x)
    BY <2>1 DEF PartUsed
  <2> QED BY <2>2 DEF p
<1>2. PartRefused(Part(s, e, x, FALSE), s, e, x)
  <2> DEFINE p == Part(s, e, x, FALSE)
  <2>1. /\ p \in States
        /\ p.blk = IF e.last THEN x ELSE s.blk
        /\ p.sum = IF e.last THEN e.sum ELSE s.sum
        /\ p.ord = IF (e.last \/ (e.ord = s.ord /\ e.sum = s.sum)) /\ FALSE
                                  THEN e.ord - 1 ELSE NoOrd
    BY PartIs
  <2> HIDE DEF p
  <2>2. PartRefused(p, s, e, x)
    BY <2>1 DEF PartRefused
  <2> QED BY <2>2 DEF p
<1> QED BY <1>1, <1>2

\* The states f of a scan that comes through them; ok says which parts the caller can use.
Through(f, t, i, L, ok) ==
    \A k \in 1 .. L : ok[k] \in BOOLEAN /\ f[i - k] = Part(f[i - k - 1], t[i - k], i - k, ok[k])

\* What it knows at part k.
RunAt(f, i, L, sum, ok, k) ==
    /\ f[i - k] \in States /\ f[i - k].blk = i - L /\ f[i - k].sum = sum
    /\ f[i - k].ord = IF \A q \in k .. L : ok[q] THEN k - 1 ELSE NoOrd

\* Such a scan knows the whole of the name if it can use all of them.
LEMMA PartRun ==
    ASSUME NEW t \in Seq(Entries), NEW i \in 1 .. Len(t), NEW L \in 1 .. 254, L < i,
           NEW segs, NEW sum, Parts(t, i, segs, L, sum), NEW f, NEW ok,
           NEW b \in Nat, b = i - L - 1, f[b] \in States, Through(f, t, i, L, ok), NEW k \in 1 .. L
    PROVE  RunAt(f, i, L, sum, ok, k)
<1> DEFINE Good(n) == /\ f[i - n] \in States /\ f[i - n].blk = i - L /\ f[i - n].sum = sum
                      /\ f[i - n].ord = IF \A q \in n .. L : ok[q] THEN n - 1 ELSE NoOrd
           Bad == {m \in 0 .. L - 1 : ~ Good(L - m)}
<1>1. Len(t) \in Nat /\ i \in Nat /\ L \in Nat /\ \A n \in 1 .. Len(t) : t[n] \in Entries
  BY TableIs
<1> SUFFICES ASSUME Bad # {}  PROVE FALSE
  <2>1. L - k \in 0 .. L - 1 /\ L - (L - k) = k
    BY <1>1
  <2>2. L - k \notin Bad => Good(k)
    BY <2>1
  <2> QED BY <2>2 DEF RunAt
<1>2. PICK m \in Bad : \A x \in Bad : m <= x
  <2>1. Bad \in SUBSET Nat
    BY <1>1
  <2> QED BY <2>1, Least
<1>3. m \in 0 .. L - 1 /\ ~ Good(L - m)
  BY <1>2
<1>a. m # 0 => m - 1 \in 0 .. L - 1 /\ Good(L - (m - 1))
  <2> SUFFICES ASSUME m # 0  PROVE m - 1 \in 0 .. L - 1 /\ Good(L - (m - 1))
    OBVIOUS
  <2>0. m \in 0 .. L - 1 /\ L \in Nat
    BY <1>1, <1>3
  <2> HIDE DEF Bad, Good
  <2>1. m - 1 \in 0 .. L - 1 /\ ~ (m <= m - 1)
    BY <2>0
  <2>2. m - 1 \notin Bad
    BY <1>2, <2>1
  <2> USE DEF Bad
  <2> QED BY <2>1, <2>2
<1> HIDE DEF Bad, Good
<1>b. PICK n \in 1 .. L : n = L - m
  BY <1>1, <1>3
<1>c. m # 0 => n + 1 \in 1 .. L /\ n + 1 = L - (m - 1)
  BY <1>1, <1>3, <1>b
<1>4. m # 0 => n + 1 \in 1 .. L /\ Good(n + 1)
  BY <1>a, <1>c
<1>5. m = 0 <=> n = L
  BY <1>1, <1>3, <1>b
<1>d. n \in 1 .. L /\ n \in 1 .. 254 /\ ~ Good(n)
  BY <1>1, <1>3, <1>b
<1> USE DEF Good
<1> DEFINE e == t[i - n]
           s == f[i - n - 1]
<1>6. i - n \in 1 .. Len(t) /\ i - n \in Nat /\ e \in Entries
  BY <1>1, <1>d
<1>7. e = Lfn(segs[n], n, n = L, sum)
  BY <1>d DEF Parts
<1>8. e.kind = "lfn" /\ e.ord = n /\ e.sum = sum /\ e.last = (n = L)
  BY <1>7 DEF Lfn
<1>9. /\ ok[n] = TRUE \/ ok[n] = FALSE
      /\ ok[n] = TRUE => f[i - n] = Part(s, e, i - n, TRUE)
      /\ ok[n] = FALSE => f[i - n] = Part(s, e, i - n, FALSE)
  BY <1>d DEF Through
<1>10. s \in States
  <2>1. CASE n = L
    BY <2>1
  <2>2. CASE n # L
    <3>1. i - (n + 1) = i - n - 1
      BY <1>1, <1>d
    <3> QED BY <2>2, <3>1, <1>4, <1>5
  <2> QED BY <2>1, <2>2
<1>11. n # L => /\ s.blk = i - L /\ s.sum = sum
                /\ s.ord = IF \A q \in n + 1 .. L : ok[q] THEN n ELSE NoOrd
  <2> SUFFICES ASSUME n # L
               PROVE  /\ s.blk = i - L /\ s.sum = sum
                      /\ s.ord = IF \A q \in n + 1 .. L : ok[q] THEN n ELSE NoOrd
    OBVIOUS
  <2>1. i - (n + 1) = i - n - 1 /\ (n + 1) - 1 = n
    BY <1>1, <1>d
  <2> QED BY <2>1, <1>4, <1>5
<1> HIDE DEF e, s, Good
<1> DEFINE p == f[i - n]
<1>e. /\ ok[n] = TRUE => PartUsed(p, s, e, i - n)
      /\ ok[n] = FALSE => PartRefused(p, s, e, i - n)
  <2> DEFINE x == i - n
  <2>1. s \in States /\ e \in Entries /\ e.kind = "lfn" /\ x \in Nat
    BY <1>6, <1>8, <1>10
  <2> HIDE DEF x
  <2>2. PartUsed(Part(s, e, x, TRUE), s, e, x) /\ PartRefused(Part(s, e, x, FALSE), s, e, x)
    BY <2>1, PartStep
  <2> QED BY <1>9, <2>2 DEF x
<1> HIDE DEF p
<1>12. p \in States
  BY <1>9, <1>e DEF PartUsed, PartRefused
<1>14. p.blk = i - L /\ p.sum = sum
  <2>1. CASE n = L
    <3>1. e.last = TRUE
      BY <1>8, <2>1
    <3> QED BY <1>8, <1>9, <1>e, <2>1, <3>1 DEF PartUsed, PartRefused
  <2>2. CASE n # L
    <3>1. e.last = FALSE
      BY <1>8, <2>2
    <3> QED BY <1>8, <1>9, <1>11, <1>e, <2>2, <3>1 DEF PartUsed, PartRefused
  <2> QED BY <2>1, <2>2
<1>15. p.ord = IF \A q \in n .. L : ok[q] THEN n - 1 ELSE NoOrd
  <2>1. CASE n = L
    <3>1. e.last = TRUE /\ e.ord = n
      BY <1>8, <2>1
    <3>2. (\A q \in n .. L : ok[q]) <=> ok[n]
      BY <2>1, <1>1, <1>d
    <3>3. CASE ok[n] = TRUE
      BY <1>e, <3>1, <3>2, <3>3 DEF PartUsed
    <3>4. CASE ok[n] = FALSE
      BY <1>e, <3>1, <3>2, <3>4 DEF PartRefused
    <3> QED BY <1>9, <3>3, <3>4
  <2>2. CASE n # L
    <3>1. (\A q \in n .. L : ok[q]) <=> ok[n] /\ \A q \in n + 1 .. L : ok[q]
      <4>1. n \in n .. L
        BY <1>1, <1>d
      <4>2. \A q \in n .. L : q = n \/ q \in n + 1 .. L
        BY <1>1, <1>d
      <4>3. \A q \in n + 1 .. L : q \in n .. L
        BY <1>1, <1>d
      <4> QED BY <4>1, <4>2, <4>3
    <3>2. n # NoOrd
      <4>1. NoOrd \notin 1 .. 254
        BY DEF NoOrd
      <4> QED BY <1>d, <4>1
    <3>3. e.last = FALSE /\ e.ord = n /\ e.sum = s.sum
      BY <1>8, <1>11, <2>2
    <3>5. n = s.ord <=> \A q \in n + 1 .. L : ok[q]
      BY <1>11, <2>2, <3>2
    <3>6. CASE ok[n] = FALSE
      BY <1>e, <3>1, <3>6 DEF PartRefused
    <3>7. CASE ok[n] = TRUE
      <4>1. CASE n = s.ord
        BY <1>e, <3>1, <3>3, <3>5, <3>7, <4>1 DEF PartUsed
      <4>2. CASE n # s.ord
        BY <1>e, <3>1, <3>3, <3>5, <3>7, <4>2 DEF PartUsed
      <4> QED BY <4>1, <4>2
    <3> QED BY <1>9, <3>6, <3>7
  <2> QED BY <2>1, <2>2
<1> QED BY <1>d, <1>12, <1>14, <1>15 DEF p, Good

\* What it knows behind them.
DoneAt(s, i, L, sum, ok) ==
    /\ s \in States /\ s.blk = i - L /\ s.sum = sum
    /\ s.ord = 0 <=> \A q \in 1 .. L : ok[q] = TRUE

\* At the entry behind the parts.
LEMMA PartsDone ==
    ASSUME NEW t \in Seq(Entries), NEW i \in 1 .. Len(t), NEW L \in 1 .. 254, L < i,
           NEW segs, NEW sum, Parts(t, i, segs, L, sum), NEW f, NEW ok,
           NEW b \in Nat, b = i - L - 1, f[b] \in States, Through(f, t, i, L, ok), NEW a \in Nat, a = i - 1
    PROVE  DoneAt(f[a], i, L, sum, ok)
<1>1. PICK k \in 1 .. L : k = 1
  OBVIOUS
<1>a. RunAt(f, i, L, sum, ok, k)
  BY PartRun
<1>2. /\ f[i - k] \in States /\ f[i - k].blk = i - L /\ f[i - k].sum = sum
      /\ f[i - k].ord = IF \A q \in k .. L : ok[q] THEN k - 1 ELSE NoOrd
  BY <1>a DEF RunAt
<1>3. \A q \in 1 .. L : ok[q] = TRUE \/ ok[q] = FALSE
  BY DEF Through
<1>4. (\A q \in k .. L : ok[q]) <=> \A q \in 1 .. L : ok[q] = TRUE
  BY <1>1, <1>3
<1>5. NoOrd # 0
  BY DEF NoOrd
<1>6. f[i - k].ord = 0 <=> \A q \in 1 .. L : ok[q] = TRUE
  BY <1>1, <1>2, <1>4, <1>5
<1> QED BY <1>1, <1>2, <1>6 DEF DoneAt

\* The type of a name.
LEMMA NameType ==
    ASSUME NEW n \in Names
    PROVE  n.segs \in Seq(Segs) /\ n.short \in Shorts /\ n.loss \in BOOLEAN /\ n.lfn \in BOOLEAN
<1>1. n \in [segs : Seq(Segs), short : Shorts, loss : BOOLEAN, lfn : BOOLEAN]
  BY NameAssumption
<1> QED BY <1>1

\* Its parts fit a long name.
LEMMA NameLen ==
    ASSUME NEW n \in Names
    PROVE  Len(n.segs) \in 1 .. 254
<1>1. NoOrd - 1 = 254
  BY DEF NoOrd
<1>2. Len(n.segs) \in 1 .. NoOrd - 1
  BY NameAssumption
<1> QED BY <1>1, <1>2

\* A name without a long one is its short form.
LEMMA NameShort ==
    ASSUME NEW n \in Names
    PROVE  /\ n.loss = TRUE => n.lfn = TRUE
           /\ n.lfn = FALSE => n.segs = <<n.short>> /\ n.loss = FALSE /\ n = ShortName(n.short)
<1>1. n.loss \in BOOLEAN /\ n.lfn \in BOOLEAN
  BY NameType
<1>2. (n.loss => n.lfn) /\ (~n.lfn => n = ShortName(n.short))
  BY NameAssumption
<1>3. n.lfn = FALSE => n = ShortName(n.short)
  BY <1>2
<1>4. ShortName(n.short).segs = <<n.short>> /\ ShortName(n.short).loss = FALSE
  BY DEF ShortName
<1> QED BY <1>1, <1>2, <1>3, <1>4

\* Names differ in their parts.
LEMMA NameOnly ==
    ASSUME NEW n \in Names, NEW m \in Names, n.segs = m.segs
    PROVE  n = m
  BY NameAssumption

\* Name n is the name of short entry i: its parts are before it, and its letters in it.
Named(t, i, n) ==
    /\ n.loss = TRUE \/ t[i].short = n.short
    /\ IF n.lfn THEN Len(n.segs) < i /\ Parts(t, i, n.segs, Len(n.segs), Sum[t[i].short])
       ELSE i = 1 \/ t[i - 1].kind # "lfn"

\* The same, field by field.
LongAt(t, i, n, L) ==
    /\ L \in 1 .. 254 /\ L = Len(n.segs) /\ L < i
    /\ \A k \in 1 .. L : /\ t[i - k].kind = "lfn" /\ t[i - k].seg = n.segs[k] /\ t[i - k].ord = k
                         /\ t[i - k].last = (k = L) /\ t[i - k].sum = Sum[t[i].short]
ShortAt(t, i, n) ==
    t[i].short = n.short /\ n = ShortName(n.short) /\ (i = 1 \/ t[i - 1].kind # "lfn")

\* A long name has its parts before the entry.
LEMMA NamedLong ==
    ASSUME NEW t, NEW i \in Nat, NEW n \in Names, Named(t, i, n), n.lfn = TRUE
    PROVE  /\ LongAt(t, i, n, Len(n.segs))
           /\ Parts(t, i, n.segs, Len(n.segs), Sum[t[i].short])
<1> DEFINE L == Len(n.segs)
<1>1. L \in 1 .. 254
  BY NameLen
<1>2. L < i /\ Parts(t, i, n.segs, L, Sum[t[i].short])
  BY DEF Named
<1> HIDE DEF L
<1>3. ASSUME NEW k \in 1 .. L
      PROVE  /\ t[i - k].kind = "lfn" /\ t[i - k].seg = n.segs[k] /\ t[i - k].ord = k
             /\ t[i - k].last = (k = L) /\ t[i - k].sum = Sum[t[i].short]
  <2>1. t[i - k] = Lfn(n.segs[k], k, k = L, Sum[t[i].short])
    BY <1>2 DEF Parts
  <2> QED BY <2>1 DEF Lfn
<1>4. L = Len(n.segs)
  BY DEF L
<1>5. LongAt(t, i, n, L)
  BY <1>1, <1>2, <1>3, <1>4 DEF LongAt
<1> QED BY <1>2, <1>5 DEF L

\* A name without a long one has none before the entry.
LEMMA NamedShort ==
    ASSUME NEW t, NEW i \in Nat, NEW n \in Names, Named(t, i, n), n.lfn = FALSE
    PROVE  ShortAt(t, i, n)
<1>1. n.loss = FALSE /\ n = ShortName(n.short)
  BY NameShort
<1> QED BY <1>1 DEF Named, ShortAt

\* Before a long name's entry there is a part.
LEMMA LongHasPart ==
    ASSUME NEW t, NEW i \in Nat, NEW n, NEW L, LongAt(t, i, n, L)
    PROVE  i > 1 /\ t[i - 1].kind = "lfn"
<1>1. L \in 1 .. 254 /\ L < i
  BY DEF LongAt
<1>2. 1 \in 1 .. L /\ i > 1
  BY <1>1
<1>3. t[i - 1].kind = "lfn"
  BY <1>2 DEF LongAt
<1> QED BY <1>2, <1>3

\* The last part of a long name is marked, and no other one.
LEMMA LongLast ==
    ASSUME NEW t, NEW i \in Nat, NEW n, NEW L, NEW m, NEW K, LongAt(t, i, n, L), LongAt(t, i, m, K)
    PROVE  ~ (L < K)
<1> SUFFICES ASSUME L < K  PROVE FALSE
  OBVIOUS
<1>1. L \in 1 .. 254 /\ K \in 1 .. 254
  BY DEF LongAt
<1>2. L \in 1 .. L /\ L \in 1 .. K /\ L # K
  BY <1>1
<1>3. t[i - L].last = (L = L) /\ t[i - L].last = (L = K)
  BY <1>2 DEF LongAt
<1> QED BY <1>2, <1>3

\* No part of a name is before a short one.
LEMMA ShortAlone ==
    ASSUME NEW t, NEW i \in Nat, NEW n, NEW m, NEW L, LongAt(t, i, n, L), ShortAt(t, i, m)
    PROVE  FALSE
<1>1. i > 1 /\ t[i - 1].kind = "lfn"
  BY LongHasPart
<1>2. i = 1 \/ t[i - 1].kind # "lfn"
  BY DEF ShortAt
<1>3. i # 1
  BY <1>1
<1> QED BY <1>1, <1>2, <1>3

\* An entry has one name.
LEMMA NamedOnce ==
    ASSUME NEW t, NEW i \in Nat, NEW n \in Names, NEW m \in Names, Named(t, i, n), Named(t, i, m)
    PROVE  n = m
<1>1. n.lfn \in BOOLEAN /\ m.lfn \in BOOLEAN /\ n.segs \in Seq(Segs) /\ m.segs \in Seq(Segs)
  BY NameType
<1>2. n.lfn = TRUE => LongAt(t, i, n, Len(n.segs))
  BY NamedLong
<1>3. m.lfn = TRUE => LongAt(t, i, m, Len(m.segs))
  BY NamedLong
<1>4. n.lfn = FALSE => ShortAt(t, i, n)
  BY NamedShort
<1>5. m.lfn = FALSE => ShortAt(t, i, m)
  BY NamedShort
<1>6. CASE n.lfn = FALSE /\ m.lfn = FALSE
  BY <1>4, <1>5, <1>6 DEF ShortAt
<1>7. CASE n.lfn = TRUE /\ m.lfn = TRUE
  <2> DEFINE L == Len(n.segs)
             K == Len(m.segs)
  <2>1. LongAt(t, i, n, L) /\ LongAt(t, i, m, K)
    BY <1>2, <1>3, <1>7
  <2> HIDE DEF L, K
  <2>2. ~ (L < K) /\ ~ (K < L)
    BY <2>1, LongLast
  <2>3. L \in 1 .. 254 /\ K \in 1 .. 254
    BY <2>1 DEF LongAt
  <2>4. L = K
    BY <2>2, <2>3
  <2>5. ASSUME NEW k \in 1 .. L  PROVE n.segs[k] = m.segs[k]
    <3>1. k \in 1 .. K
      BY <2>4
    <3>2. t[i - k].seg = n.segs[k]
      BY <2>1 DEF LongAt
    <3>3. t[i - k].seg = m.segs[k]
      BY <2>1, <3>1 DEF LongAt
    <3> QED BY <3>2, <3>3
  <2>6. n.segs = m.segs
    BY <1>1, <2>4, <2>5, SeqEqual DEF L, K
  <2> QED BY <2>6, NameOnly
<1>8. CASE n.lfn # m.lfn
  <2>1. n.lfn = TRUE /\ m.lfn = FALSE => FALSE
    BY <1>2, <1>5, ShortAlone
  <2>2. m.lfn = TRUE /\ n.lfn = FALSE => FALSE
    BY <1>3, <1>4, ShortAlone
  <2> QED BY <1>1, <1>8, <2>1, <2>2
<1> QED BY <1>1, <1>6, <1>7, <1>8

\* Such a name is read part by part.
Spread(t, i, L) ==
    /\ i - L - 1 \in 0 .. Len(t) /\ i - L - 1 \in 0 .. i - 1 /\ 1 \in 1 .. L
    /\ \A k \in 1 .. L : i - k \in 1 .. Len(t) /\ i - k \in 1 .. i - 1 /\ i - k - 1 \in 0 .. i - 1
                         /\ t[i - k].kind = "lfn"

\* Its parts have their places.
LEMMA LongKinds ==
    ASSUME NEW t, NEW i \in 1 .. Len(t), Len(t) \in Nat, NEW n, NEW L \in 1 .. 254,
           LongAt(t, i, n, L)
    PROVE  Spread(t, i, L)
<1>0. L \in 1 .. 254 /\ L < i
  BY DEF LongAt
<1>1. L \in 1 .. 254 /\ L < i /\ i \in Nat
  BY <1>0
<1>2. \A k \in 1 .. L : t[i - k].kind = "lfn"
  BY DEF LongAt
<1>3. ASSUME NEW k \in 1 .. L
      PROVE  i - k \in 1 .. Len(t) /\ i - k \in 1 .. i - 1 /\ i - k - 1 \in 0 .. i - 1
  BY <1>1
<1>4. i - L - 1 \in 0 .. Len(t) /\ i - L - 1 \in 0 .. i - 1 /\ 1 \in 1 .. L
  BY <1>1
<1> QED BY <1>2, <1>3, <1>4 DEF Spread

\* A listing shows the name.
LEMMA ListedNamed ==
    ASSUME NEW t \in Seq(Entries), NEW i \in 1 .. Len(t), t[i].kind = "sfn", NEW n \in Names,
           Named(t, i, n)
    PROVE  ListedAs(t, i) = n.segs
<1>1. n.segs \in Seq(Segs) /\ n.lfn \in BOOLEAN
  BY NameType
<1>2. Len(t) \in Nat /\ i \in Nat
  BY TableIs
<1> DEFINE f == ReadState(t)
<1>3. \A j \in 1 .. Len(t) : f[j] = ReadStep(t, f[j - 1], j)
  BY <1>2, ReadIs
<1>4. CASE n.lfn = FALSE
  <2>1. ShortAt(t, i, n)
    BY <1>2, <1>4, NamedShort
  <2>2. i - 1 \in 0 .. Len(t) /\ (i - 1 = 0 \/ t[i - 1].kind # "lfn")
    BY <1>2, <2>1 DEF ShortAt
  <2>3. f[i - 1] = Outside
    BY <2>2, ReadAnew
  <2>4. ~ Closes(f[i - 1], t[i])
    BY <2>3, OutsideIs DEF Closes, NoOrd
  <2>5. ListedAs(t, i) = <<t[i].short>>
    BY <2>4 DEF ListedAs
  <2>6. n.segs = <<n.short>>
    BY <1>4, NameShort
  <2> QED BY <2>1, <2>5, <2>6 DEF ShortAt
<1>5. CASE n.lfn = TRUE
  <2>0. PICK L \in 1 .. 254 : L = Len(n.segs)
    BY NameLen
  <2> DEFINE sum == Sum[t[i].short]
             ok == [k \in 1 .. L |-> TRUE]
  <2>1. LongAt(t, i, n, L) /\ Parts(t, i, n.segs, L, sum)
    BY <1>2, <1>5, <2>0, NamedLong
  <2> HIDE DEF f
  <2>a. \A q \in 1 .. L : ok[q] = TRUE
    OBVIOUS
  <2> HIDE DEF ok
  <2>b. /\ i - L - 1 \in 0 .. Len(t) /\ 1 \in 1 .. L
        /\ \A k \in 1 .. L : i - k \in 1 .. Len(t) /\ t[i - k].kind = "lfn"
    <3>1. Spread(t, i, L)
      BY <1>2, <2>1, LongKinds
    <3> QED BY <3>1 DEF Spread
  <2>2. ASSUME NEW k \in 1 .. L
        PROVE  ok[k] \in BOOLEAN /\ f[i - k] = Part(f[i - k - 1], t[i - k], i - k, ok[k])
    <3>2. f[i - k] = ReadStep(t, f[i - k - 1], i - k)
      BY <1>3, <2>b
    <3> QED BY <3>2, <2>a, <2>b DEF ReadStep
  <2>3. f[i - L - 1] \in States
    BY <2>b, ReadStates DEF ReadGood, f
  <2>5. Through(f, t, i, L, ok)
    BY <2>2 DEF Through
  <2> HIDE DEF sum
  <2>6. L \in 1 .. 254 /\ L < i
    BY <2>1 DEF LongAt
  <2>7. /\ f[i - 1].blk = i - L /\ f[i - 1].sum = sum
        /\ f[i - 1].ord = 0 <=> \A q \in 1 .. L : ok[q] = TRUE
    <3>1. PICK a \in Nat, b \in Nat : a = i - 1 /\ b = i - L - 1
      BY <1>2, <2>6
    <3>2. f[b] \in States
      BY <2>3, <3>1
    <3>3. DoneAt(f[a], i, L, sum, ok)
      BY <2>1, <2>5, <2>6, <3>1, <3>2, PartsDone
    <3> QED BY <3>1, <3>3 DEF DoneAt
  <2>8. Closes(f[i - 1], t[i])
    BY <2>a, <2>7 DEF Closes, sum
  <2>9. i - f[i - 1].blk = L
    BY <1>2, <2>6, <2>7
  <2>10. ListedAs(t, i) = [k \in 1 .. L |-> t[i - k].seg]
    BY <2>8, <2>9 DEF ListedAs, f
  <2>11. \A k \in 1 .. L : t[i - k].seg = n.segs[k]
    BY <2>1 DEF LongAt
  <2>12. ListedAs(t, i) = [k \in 1 .. L |-> n.segs[k]]
    BY <2>10, <2>11
  <2>13. n.segs = [k \in 1 .. L |-> n.segs[k]]
    BY <1>1, LenProperties, <2>0
  <2> QED BY <2>12, <2>13
<1> QED BY <1>1, <1>4, <1>5

\* dir_find knows the states of every scan.
LEMMA ScanTyped ==
    ASSUME NEW t \in Seq(Entries), NEW nm, nm.loss \in BOOLEAN, NEW nolfn \in BOOLEAN, NEW st,
           IsScan(t, nm, nolfn, st), NEW i \in 0 .. Len(t)
    PROVE  st[i] \in States
<1>1. Scanned(t, nm, st, i)
  BY ScanIs
<1> QED BY <1>1 DEF Scanned, Going, Missed, Got

\* The scan of dir_find, which looks at long names.
IsFind(t, nm, st) == IsScan(t, nm, FALSE, st)

\* Its states.
LEMMA FindScanned ==
    ASSUME NEW t \in Seq(Entries), NEW nm, nm.loss \in BOOLEAN, NEW st,
           IsFind(t, nm, st), NEW i \in 0 .. Len(t)
    PROVE  Scanned(t, nm, st, i) /\ st[i] \in States
<1>1. PICK no \in BOOLEAN : no = FALSE
  OBVIOUS
<1>2. IsScan(t, nm, no, st)
  BY <1>1 DEF IsFind
<1> QED BY <1>2, ScanIs, ScanTyped

\* Each part of the name is that of name nm.
PartsMatch(n, m) ==
    Len(n.segs) = Len(m.segs) /\ \A k \in 1 .. Len(n.segs) : n.segs[k] = m.segs[k]

\* When dir_find comes to an entry with a long name, it knows where that starts, and it is
\* the one that is looked for if its parts are.
ScanKnows(t, i, n, nm, s) ==
    /\ s.blk = IF n.lfn THEN i - Len(n.segs) ELSE 0
    /\ Closes(s, t[i]) <=> n.lfn = TRUE /\ PartsMatch(n, nm)

\* dir_find goes on to short entry i, whose name is n.
ComesTo(t, i, n, nm, st, a) ==
    /\ i \in 1 .. Len(t) /\ t[i].kind = "sfn" /\ n \in Names /\ Named(t, i, n)
    /\ nm.loss \in BOOLEAN /\ Len(nm.segs) \in Nat /\ IsFind(t, nm, st)
    /\ a \in Nat /\ a = i - 1 /\ Going(t, nm, st, a)

\* That is so for a long name.
LEMMA ScanLong ==
    ASSUME NEW t \in Seq(Entries), NEW i \in 1 .. Len(t), NEW n \in Names, NEW nm, NEW st,
           NEW a \in Nat, ComesTo(t, i, n, nm, st, a), n.lfn = TRUE
    PROVE  ScanKnows(t, i, n, nm, st[a])
<1>0. /\ t[i].kind = "sfn" /\ Named(t, i, n) /\ nm.loss \in BOOLEAN /\ Len(nm.segs) \in Nat
      /\ IsFind(t, nm, st) /\ a = i - 1 /\ Going(t, nm, st, a)
  BY DEF ComesTo
<1> USE <1>0
<1>1. Len(t) \in Nat /\ i \in Nat
  BY TableIs
<1>2. PICK L \in 1 .. 254 : L = Len(n.segs)
  BY NameLen
<1>3. PICK M \in Nat : M = Len(nm.segs)
  OBVIOUS
<1> DEFINE sum == Sum[t[i].short]
           ok == [k \in 1 .. L |-> Matches(nm.segs, t[i - k])]
<1>4. LongAt(t, i, n, L) /\ Parts(t, i, n.segs, L, sum)
  BY <1>1, <1>2, NamedLong
<1>5. Spread(t, i, L)
  BY <1>1, <1>4, LongKinds
<1>6. /\ i - L - 1 \in 0 .. Len(t) /\ 1 \in 1 .. L
      /\ \A k \in 1 .. L : i - k \in 1 .. Len(t) /\ i - k - 1 \in 0 .. i - 1 /\ t[i - k].kind = "lfn"
  BY <1>5 DEF Spread
<1>7. \A k \in 1 .. L : ok[k] = Matches(nm.segs, t[i - k]) /\ ok[k] \in BOOLEAN
  BY DEF Matches
<1> HIDE DEF ok
<1>8. ASSUME NEW k \in 1 .. L
      PROVE  ok[k] \in BOOLEAN /\ st[i - k] = Part(st[i - k - 1], t[i - k], i - k, ok[k])
  <2>1. st[i - k - 1].stop = FALSE
    BY <1>6 DEF Going
  <2>2. st[i - k] = FindStep(t, nm, FALSE, st[i - k - 1], i - k)
    BY <1>6 DEF IsScan, IsFind
  <2>3. t[i - k].kind = "lfn" /\ ok[k] = Matches(nm.segs, t[i - k]) /\ ok[k] \in BOOLEAN
    BY <1>6, <1>7
  <2>4. st[i - k] = Part(st[i - k - 1], t[i - k], i - k, Matches(nm.segs, t[i - k]))
    BY <2>1, <2>2, <2>3 DEF FindStep
  <2> QED BY <2>3, <2>4
<1>9. Through(st, t, i, L, ok)
  BY <1>8 DEF Through
<1>10. PICK b \in Nat : b = i - L - 1
  BY <1>6
<1>11. st[b] \in States
  <2>1. b \in 0 .. Len(t)
    BY <1>6, <1>10
  <2> QED BY <2>1, FindScanned
<1>12. L < i
  BY <1>4 DEF LongAt
<1>13. DoneAt(st[a], i, L, sum, ok)
  BY <1>4, <1>9, <1>10, <1>11, <1>12, PartsDone
<1>14. (\A q \in 1 .. L : ok[q] = TRUE) <=> PartsMatch(n, nm)
  <2>1. ASSUME NEW q \in 1 .. L
        PROVE  ok[q] = TRUE <=> q <= M /\ nm.segs[q] = n.segs[q] /\ (q = L => q = M)
    <3>1. t[i - q].seg = n.segs[q] /\ t[i - q].ord = q /\ t[i - q].last = (q = L)
      BY <1>4 DEF LongAt
    <3>2. ok[q] = Matches(nm.segs, t[i - q])
      BY <1>7
    <3> QED BY <3>1, <3>2, <1>3 DEF Matches
  <2>2. ASSUME \A q \in 1 .. L : ok[q] = TRUE  PROVE PartsMatch(n, nm)
    <3>1. L = M
      <4>1. L \in 1 .. L
        OBVIOUS
      <4>2. ok[L] = TRUE
        BY <2>2, <4>1
      <4> QED BY <2>1, <4>1, <4>2
    <3>2. \A q \in 1 .. L : n.segs[q] = nm.segs[q]
      BY <2>1, <2>2
    <3> QED BY <3>1, <3>2, <1>2, <1>3 DEF PartsMatch
  <2>3. ASSUME PartsMatch(n, nm)  PROVE \A q \in 1 .. L : ok[q] = TRUE
    <3>1. L = M /\ \A q \in 1 .. L : n.segs[q] = nm.segs[q]
      BY <2>3, <1>2, <1>3 DEF PartsMatch
    <3>2. \A q \in 1 .. L : q <= M
      BY <3>1
    <3> QED BY <2>1, <3>1, <3>2
  <2> QED BY <2>2, <2>3
<1>15. Closes(st[a], t[i]) <=> PartsMatch(n, nm)
  BY <1>13, <1>14 DEF DoneAt, Closes, sum
<1>16. st[a].blk = i - Len(n.segs)
  BY <1>2, <1>13 DEF DoneAt
<1> QED BY <1>15, <1>16 DEF ScanKnows

\* And for a name without one.
LEMMA ScanShort ==
    ASSUME NEW t \in Seq(Entries), NEW i \in 1 .. Len(t), NEW n \in Names, NEW nm, NEW st,
           NEW a \in Nat, ComesTo(t, i, n, nm, st, a), n.lfn = FALSE
    PROVE  ScanKnows(t, i, n, nm, st[a])
<1>0. /\ t[i].kind = "sfn" /\ Named(t, i, n) /\ nm.loss \in BOOLEAN
      /\ IsFind(t, nm, st) /\ a = i - 1 /\ Going(t, nm, st, a)
  BY DEF ComesTo
<1> USE <1>0
<1>1. Len(t) \in Nat /\ i \in Nat /\ \A j \in 1 .. Len(t) : t[j] \in Entries
  BY TableIs
<1>2. a = 0 \/ t[a].kind # "lfn"
  <2>1. ShortAt(t, i, n)
    BY <1>1, NamedShort
  <2> QED BY <1>1, <2>1 DEF ShortAt
<1>3. st[a].ord = NoOrd /\ st[a].blk = 0
  <2>1. CASE a = 0
    BY <2>1, OutsideIs DEF IsScan, IsFind
  <2>2. CASE a # 0
    <3>1. a \in 1 .. Len(t) /\ a - 1 \in 0 .. Len(t) /\ a - 1 \in 0 .. a /\ a \in 0 .. a /\ a \in 1 .. a
      BY <1>1, <2>2
    <3>2. st[a] = FindStep(t, nm, FALSE, st[a - 1], a)
      BY <3>1 DEF IsScan, IsFind
    <3>3. st[a - 1].stop = FALSE /\ st[a].stop = FALSE /\ st[a].hit = 0 /\ t[a].kind # "end"
      BY <3>1 DEF Going
    <3>4. st[a - 1] \in States
      <4>1. a - 1 \in 0 .. Len(t)
        BY <3>1
      <4> QED BY <4>1, FindScanned
    <3>5. t[a].kind \in {"end", "del", "lfn", "sfn"}
      BY <1>1, <3>1, EntryIs
    <3>6. st[a] # [st[a - 1] EXCEPT !.hit = a, !.stop = TRUE]
      BY <3>1, <3>3, <3>4, HitIs
    <3>7. st[a] = [st[a - 1] EXCEPT !.ord = NoOrd, !.blk = 0]
      <4>1. CASE t[a].kind = "del"
        BY <3>2, <3>3, <4>1 DEF FindStep
      <4>2. CASE t[a].kind = "sfn"
        BY <3>2, <3>3, <3>6, <4>2 DEF FindStep
      <4> QED BY <1>2, <2>2, <3>3, <3>5, <4>1, <4>2
    <3> QED BY <3>4, <3>7, ResetIs
  <2> QED BY <2>1, <2>2
<1>4. ~ Closes(st[a], t[i])
  BY <1>3 DEF Closes, NoOrd
<1> QED BY <1>3, <1>4 DEF ScanKnows

\* A scan that has ended stays as it is.
LEMMA StopStays ==
    ASSUME NEW t, Len(t) \in Nat, NEW nm, NEW nolfn, NEW st, IsScan(t, nm, nolfn, st),
           NEW i \in 0 .. Len(t), st[i].stop = TRUE
    PROVE  st[Len(t)] = st[i]
<1> DEFINE Bad == {n \in i .. Len(t) : st[n] # st[i]}
<1> SUFFICES ASSUME Bad # {}  PROVE FALSE
  BY DEF Bad
<1>1. PICK n \in Bad : \A m \in Bad : n <= m
  <2>1. Bad \in SUBSET Nat
    OBVIOUS
  <2> QED BY <2>1, Least
<1>2. n \in 1 .. Len(t) /\ n - 1 \in i .. Len(t) /\ n - 1 < n
  BY <1>1
<1>3. n - 1 \notin Bad
  BY <1>1, <1>2
<1>4. st[n - 1] = st[i]
  BY <1>2, <1>3
<1>5. st[n] = FindStep(t, nm, nolfn, st[n - 1], n)
  BY <1>2 DEF IsScan
<1>6. st[n] = st[n - 1]
  BY <1>4, <1>5 DEF FindStep
<1> QED BY <1>1, <1>4, <1>6

\* So does that of dir_find.
StopsAt(t, st, i) == Len(t) \in Nat /\ i \in 0 .. Len(t) /\ st[i].stop = TRUE
StaysAt(t, st, i) == st[Len(t)] = st[i]

\* From where it stops.
LEMMA FindStays ==
    ASSUME NEW t, NEW nm, NEW st, IsFind(t, nm, st), NEW i, StopsAt(t, st, i)
    PROVE  StaysAt(t, st, i)
<1>1. PICK no : no = FALSE
  OBVIOUS
<1>2. IsScan(t, nm, no, st)
  BY <1>1 DEF IsFind
<1>3. Len(t) \in Nat /\ i \in 0 .. Len(t) /\ st[i].stop = TRUE
  BY DEF StopsAt
<1>4. st[Len(t)] = st[i]
  BY <1>2, <1>3, StopStays
<1> QED BY <1>4 DEF StaysAt

\* dir_find goes from entry to entry.
LEMMA FindScans ==
    ASSUME NEW t, Len(t) \in Nat, NEW nm
    PROVE  \E st : IsFind(t, nm, st) /\ Find(t, nm) = st[Len(t)]
  BY FindIs DEF Find, IsFind

\* What it knows when it comes to a short entry.
LEMMA ScanNamed ==
    ASSUME NEW t \in Seq(Entries), NEW i, NEW n, NEW nm, NEW st, NEW a, ComesTo(t, i, n, nm, st, a)
    PROVE  ScanKnows(t, i, n, nm, st[a])
<1>1. i \in 1 .. Len(t) /\ n \in Names /\ a \in Nat
  BY DEF ComesTo
<1>2. n.lfn = TRUE \/ n.lfn = FALSE
  BY <1>1, NameType
<1>3. CASE n.lfn = TRUE
  BY <1>1, <1>3, ScanLong
<1>4. CASE n.lfn = FALSE
  BY <1>1, <1>4, ScanShort
<1> QED BY <1>2, <1>3, <1>4

\* The short entries before i have other names and other short names.
OthersBefore(t, i, n) ==
    \A j \in 1 .. i - 1 : t[j].kind = "sfn" =>
       t[j].short # t[i].short /\ \E m \in Names : Named(t, j, m) /\ m # n

\* A name that is as good as n to dir_find.
AsGood(nm, n) == nm.segs = n.segs /\ nm.short = n.short /\ nm.loss = n.loss

\* Then dir_find comes to entry i.
LEMMA FindComes ==
    ASSUME NEW t \in Seq(Entries), NEW i \in Visible(t), NEW n \in Names, Named(t, i, n),
           OthersBefore(t, i, n), NEW nm, AsGood(nm, n), NEW st, IsFind(t, nm, st),
           NEW a \in Nat, a = i - 1
    PROVE  Going(t, nm, st, a)
<1>1. Len(t) \in Nat /\ i \in 1 .. Len(t) /\ i \in Nat /\ t[i].kind = "sfn"
      /\ \A j \in 1 .. i : t[j].kind # "end"
  BY TableIs DEF Visible
<1>2. nm.loss \in BOOLEAN /\ Len(nm.segs) \in Nat /\ n.segs \in Seq(Segs)
  <2>1. n.segs \in Seq(Segs) /\ n.loss \in BOOLEAN /\ Len(n.segs) \in 1 .. 254
    BY NameType, NameLen
  <2> QED BY <2>1 DEF AsGood
<1>3. a \in 0 .. Len(t)
  BY <1>1
<1>4. Scanned(t, nm, st, a)
  BY <1>2, <1>3, FindScanned
<1>5. ~ Missed(t, nm, st, a)
  <2> SUFFICES ASSUME Missed(t, nm, st, a)  PROVE FALSE
    OBVIOUS
  <2>1. PICK e \in 1 .. a : t[e].kind = "end"
    BY DEF Missed
  <2>2. e \in 1 .. i
    BY <1>1, <2>1
  <2> QED BY <1>1, <2>1, <2>2
<1>6. ASSUME NEW h \in 1 .. a, Got(t, nm, st, a, h)  PROVE FALSE
  <2>1. h \in 1 .. i - 1 /\ h \in 1 .. Len(t) /\ h \in Nat
    BY <1>1
  <2>2. /\ t[h].kind = "sfn" /\ Going(t, nm, st, h - 1)
        /\ Closes(st[h - 1], t[h]) \/ (nm.loss = FALSE /\ t[h].short = nm.short)
    BY <1>6 DEF Got
  <2>3. PICK b \in Nat : b = h - 1
    BY <2>1
  <2>4. t[h].short # t[i].short /\ \E m \in Names : Named(t, h, m) /\ m # n
    BY <2>1, <2>2 DEF OthersBefore
  <2>5. PICK m \in Names : Named(t, h, m) /\ m # n
    BY <2>4
  <2>6. ScanKnows(t, h, m, nm, st[b])
    <3>1. ComesTo(t, h, m, nm, st, b)
      BY <1>2, <2>1, <2>2, <2>3, <2>5 DEF ComesTo
    <3> QED BY <3>1, ScanNamed
  <2>7. ~ PartsMatch(m, nm)
    <3> SUFFICES ASSUME PartsMatch(m, nm)  PROVE FALSE
      OBVIOUS
    <3>1. m.segs \in Seq(Segs) /\ nm.segs = n.segs
      BY NameType DEF AsGood
    <3>2. m.segs = n.segs
      BY <1>2, <3>1, SeqEqual DEF PartsMatch
    <3> QED BY <2>5, <3>2, NameOnly
  <2>8. ~ Closes(st[h - 1], t[h])
    BY <2>3, <2>6, <2>7 DEF ScanKnows
  <2>9. nm.loss = FALSE /\ t[h].short = nm.short
    BY <2>2, <2>8
  <2>10. n.loss = FALSE /\ nm.short = n.short
    BY <2>9 DEF AsGood
  <2>11. t[i].short = n.short
    BY <2>10 DEF Named
  <2> QED BY <2>4, <2>9, <2>10, <2>11
<1> QED BY <1>4, <1>5, <1>6 DEF Scanned

\* And finds it.
LEMMA FindsNamed ==
    ASSUME NEW t \in Seq(Entries), NEW i \in Visible(t), NEW n \in Names, Named(t, i, n),
           OthersBefore(t, i, n), NEW nm, AsGood(nm, n)
    PROVE  Find(t, nm).hit = i
<1>1. Len(t) \in Nat /\ i \in 1 .. Len(t) /\ i \in Nat /\ t[i].kind = "sfn"
  BY TableIs DEF Visible
<1>2. nm.loss \in BOOLEAN /\ Len(nm.segs) \in Nat
  <2>1. n.loss \in BOOLEAN /\ Len(n.segs) \in 1 .. 254
    BY NameType, NameLen
  <2> QED BY <2>1 DEF AsGood
<1>3. PICK st : IsFind(t, nm, st) /\ Find(t, nm) = st[Len(t)]
  BY <1>1, FindScans
<1>4. PICK a \in Nat : a = i - 1
  BY <1>1
<1>5. Going(t, nm, st, a)
  BY <1>3, <1>4, FindComes
<1>6. ScanKnows(t, i, n, nm, st[a])
  <2>1. ComesTo(t, i, n, nm, st, a)
    BY <1>1, <1>2, <1>3, <1>4, <1>5 DEF ComesTo
  <2> QED BY <2>1, ScanNamed
<1>7. Closes(st[a], t[i]) \/ (nm.loss = FALSE /\ t[i].short = nm.short)
  <2>1. CASE n.lfn = TRUE
    <3>1. PartsMatch(n, nm)
      BY DEF PartsMatch, AsGood
    <3> QED BY <1>6, <2>1, <3>1 DEF ScanKnows
  <2>2. CASE n.lfn = FALSE
    <3>1. n.loss = FALSE
      BY <2>2, NameShort
    <3> QED BY <3>1 DEF Named, AsGood
  <2>3. n.lfn = TRUE \/ n.lfn = FALSE
    BY NameType
  <2> QED BY <2>1, <2>2, <2>3
<1>8. st[i] = FindStep(t, nm, FALSE, st[a], i)
  BY <1>1, <1>3, <1>4 DEF IsFind, IsScan
<1>9. st[a].stop = FALSE /\ st[a] \in States
  BY <1>5 DEF Going
<1>10. st[i] = [st[a] EXCEPT !.hit = i, !.stop = TRUE]
  BY <1>1, <1>7, <1>8, <1>9 DEF FindStep
<1>11. st[i].hit = i /\ st[i].stop = TRUE
  <2>1. PICK s \in States : s = st[a]
    BY <1>9
  <2>2. PICK r : r = st[i] /\ r = [s EXCEPT !.hit = i, !.stop = TRUE]
    BY <1>10, <2>1
  <2>3. r.hit = i /\ r.stop = TRUE
    BY <2>2 DEF States
  <2> QED BY <2>2, <2>3
<1>12. st[Len(t)] = st[i]
  <2>1. i \in 0 .. Len(t)
    BY <1>1
  <2>2. StopsAt(t, st, i)
    BY <1>1, <1>11, <2>1 DEF StopsAt
  <2>3. StaysAt(t, st, i)
    BY <1>3, <2>2, FindStays
  <2> QED BY <2>3 DEF StaysAt
<1> QED BY <1>3, <1>11, <1>12

\* What dir_find finds, and where its long name starts.
LEMMA FindBlock ==
    ASSUME NEW t \in Seq(Entries), NEW nm, nm.loss \in BOOLEAN, Len(nm.segs) \in Nat,
           Find(t, nm).hit # 0
    PROVE  /\ Located(t, Find(t, nm))
           /\ \A n \in Names : Named(t, Find(t, nm).hit, n) =>
                 Find(t, nm).blk = IF n.lfn THEN Find(t, nm).hit - Len(n.segs) ELSE 0
<1>1. Len(t) \in Nat
  BY TableIs
<1>2. PICK st : IsFind(t, nm, st) /\ Find(t, nm) = st[Len(t)]
  BY <1>1, FindScans
<1>3. PICK no \in BOOLEAN : no = FALSE
  OBVIOUS
<1>4. IsScan(t, nm, no, st)
  BY <1>2, <1>3 DEF IsFind
<1> DEFINE r == st[Len(t)]
<1>5. r.hit # 0
  BY <1>2
<1>6. Located(t, r) /\ Got(t, nm, st, Len(t), r.hit)
  BY <1>4, <1>5, FoundIs
<1>7. PICK h \in 1 .. Len(t) : h = r.hit
  BY <1>6 DEF Got
<1> HIDE DEF r
<1>8. PICK a \in Nat : a = h - 1
  BY <1>1
<1>9. t[h].kind = "sfn" /\ Going(t, nm, st, a) /\ r.blk = st[a].blk
  BY <1>6, <1>7, <1>8 DEF Got, r
<1>10. ASSUME NEW n \in Names, Named(t, h, n)
       PROVE  r.blk = IF n.lfn THEN h - Len(n.segs) ELSE 0
  <2>1. ScanKnows(t, h, n, nm, st[a])
    <3>1. ComesTo(t, h, n, nm, st, a)
      BY <1>2, <1>8, <1>9, <1>10 DEF ComesTo
    <3> QED BY <3>1, ScanNamed
  <2> QED BY <1>9, <2>1 DEF ScanKnows
<1>11. Find(t, nm) = r
  BY <1>2 DEF r
<1> QED BY <1>6, <1>7, <1>10, <1>11
-----------------------------------------------------------------------------
(* Objects that a change of the table keeps *)

\* All entries behind an end mark are end marks.
Ended(t) == \A i, j \in 1 .. Len(t) : i < j /\ t[i].kind = "end" => t[j].kind = "end"

\* Short entry i is in both tables, no end mark comes before it, and it is listed alike.
KeptAt(t, u, i) ==
    /\ i \in 1 .. Len(t) /\ i \in 1 .. Len(u) /\ t[i] = u[i]
    /\ \A j \in 1 .. i : t[j].kind # "end" => u[j].kind # "end"
    /\ ListedAs(t, i) = ListedAs(u, i)

\* So are the visible entries of all objects of X.
Keeps(t, u, X) == \A i \in Visible(t) : t[i].id \in X => KeptAt(t, u, i)

\* An entry that is kept stays visible.
LEMMA KeptVisible ==
    ASSUME NEW t, NEW u, NEW i \in Visible(t), KeptAt(t, u, i)
    PROVE  i \in Visible(u)
  BY DEF KeptAt, Visible

\* An object that is kept is listed as before.
LEMMA KeptListing ==
    ASSUME NEW t, NEW u, NEW X, Keeps(t, u, X), NEW id \in X
    PROVE  ListingOf(t, id) \subseteq ListingOf(u, id)
<1> SUFFICES ASSUME NEW i \in Visible(t), t[i].id = id
             PROVE  ListedAs(t, i) \in ListingOf(u, id)
  BY DEF ListingOf
<1>1. KeptAt(t, u, i)
  BY DEF Keeps
<1>2. i \in Visible(u)
  BY <1>1, KeptVisible
<1>3. u[i].id = id /\ ListedAs(t, i) = ListedAs(u, i)
  BY <1>1 DEF KeptAt
<1> QED BY <1>2, <1>3 DEF ListingOf

\* Nothing changes up to entry n, and no object of X is behind it.
LEMMA PrefixKeeps ==
    ASSUME NEW t \in Seq(Entries), NEW u \in Seq(Entries), NEW X, NEW n \in Nat,
           n <= Len(t), n <= Len(u), \A j \in 1 .. n : t[j] = u[j],
           \A j \in n + 1 .. Len(t) : t[j].kind = "sfn" => t[j].id \notin X
    PROVE  Keeps(t, u, X)
<1>1. Len(t) \in Nat /\ Len(u) \in Nat
  BY TableIs
<1> SUFFICES ASSUME NEW i \in Visible(t), t[i].id \in X  PROVE KeptAt(t, u, i)
  BY DEF Keeps
<1>2. i \in 1 .. Len(t) /\ t[i].kind = "sfn"
  BY DEF Visible
<1>3. i \in 1 .. n
  <2>1. i \notin n + 1 .. Len(t)
    BY <1>2
  <2> QED BY <1>1, <1>2, <2>1
<1>4. /\ i \in 1 .. Len(u) /\ \A j \in 1 .. i : j \in 1 .. n
      /\ 0 \in Nat /\ 0 <= i /\ 0 < i /\ i \in Nat /\ i <= Len(t) /\ i <= Len(u)
      /\ \A j \in 0 + 1 .. i : j \in 1 .. n
  BY <1>1, <1>3
<1>5. Alike(t, u, 0, i)
  BY <1>4 DEF Alike
<1>6. ListedAs(t, i) = ListedAs(u, i)
  BY <1>2, <1>4, <1>5, SameListing
<1> QED BY <1>2, <1>3, <1>4, <1>6 DEF KeptAt

\* Entry at is written, up to entry to no object of X is near, and no long name goes
\* across entry to.
PutApart(t, u, at, to, X) ==
    /\ at \in 1 .. Len(t) /\ to \in at .. Len(t)
    /\ Len(u) = Len(t) /\ \A j \in 1 .. Len(t) : j # at => u[j] = t[j]
    /\ t[to].kind # "lfn" /\ u[to].kind # "lfn"
    /\ \A j \in at .. to : t[j].kind = "sfn" => t[j].id \notin X
    /\ \A j \in at .. to : u[j].kind = "sfn" => u[j].id \notin X

\* Then the others are kept if no end mark comes before them.
LEMMA PutKeeps ==
    ASSUME NEW t \in Seq(Entries), NEW u \in Seq(Entries), NEW at, NEW to, NEW X,
           PutApart(t, u, at, to, X),
           t[at].kind # "end" /\ u[at].kind = "end" => Ended(u)
    PROVE  Keeps(t, u, X)
<1>1. /\ Len(t) \in Nat /\ Len(u) = Len(t) /\ at \in 1 .. Len(t) /\ to \in at .. Len(t)
      /\ at \in Nat /\ to \in Nat
  <2>1. Len(t) \in Nat
    BY TableIs
  <2> QED BY <2>1 DEF PutApart
<1> SUFFICES ASSUME NEW i \in Visible(t), t[i].id \in X  PROVE KeptAt(t, u, i)
  BY DEF Keeps
<1>2. i \in 1 .. Len(t) /\ t[i].kind = "sfn"
  BY DEF Visible
<1>3. i \notin at .. to
  BY <1>2 DEF PutApart
<1>4. i # at /\ u[i] = t[i] /\ i \in 1 .. Len(u)
  <2>1. at \in at .. to
    BY <1>1
  <2> QED BY <1>1, <1>2, <1>3, <2>1 DEF PutApart
<1>5. ListedAs(t, i) = ListedAs(u, i)
  <2>1. CASE i < at
    <3>1. \A j \in 0 + 1 .. i : j \in 1 .. Len(t) /\ j # at
      BY <1>1, <1>2, <2>1
    <3>2. 0 \in Nat /\ i \in Nat /\ 0 <= i /\ 0 < i /\ i <= Len(t) /\ i <= Len(u)
      BY <1>1, <1>2
    <3>3. Alike(t, u, 0, i)
      BY <3>1, <3>2 DEF Alike, PutApart
    <3> QED BY <1>2, <3>2, <3>3, SameListing
  <2>2. CASE to < i
    <3>1. \A j \in to + 1 .. i : j \in 1 .. Len(t) /\ j # at
      BY <1>1, <1>2, <2>2
    <3>2. i \in Nat /\ to <= i /\ i <= Len(t) /\ i <= Len(u)
      BY <1>1, <1>2, <2>2
    <3>3. Alike(t, u, to, i)
      BY <1>1, <3>1, <3>2 DEF Alike, PutApart
    <3> QED BY <1>2, <2>2, <3>3, SameListing
  <2> QED BY <1>1, <1>2, <1>3, <2>1, <2>2
<1>6. ASSUME NEW j \in 1 .. i, t[j].kind # "end"  PROVE u[j].kind # "end"
  <2>1. j \in 1 .. Len(t)
    BY <1>1, <1>2
  <2>2. CASE j = at
    <3> SUFFICES ASSUME u[at].kind = "end"  PROVE FALSE
      BY <2>2
    <3>1. Ended(u)
      BY <1>6, <2>2
    <3>2. at < i /\ at \in 1 .. Len(u) /\ i \in 1 .. Len(u)
      BY <1>1, <1>2, <1>4, <2>2
    <3>3. u[i].kind = "end"
      BY <3>1, <3>2 DEF Ended
    <3> QED BY <1>2, <1>4, <3>3
  <2>3. CASE j # at
    BY <1>6, <2>1, <2>3 DEF PutApart
  <2> QED BY <2>2, <2>3
<1> QED BY <1>2, <1>4, <1>5, <1>6 DEF KeptAt
-----------------------------------------------------------------------------
(* The state *)

Calls ==
    [op : {"idle"}]
    \cup [op : {"link", "clear"}, name : Names, short : Shorts, id : Ids]
    \cup [op : {"store"}, at : Nat, to : Nat, name : Names, short : Shorts, id : Ids]
    \cup [op : {"mark"}, at : Nat, to : Nat, id : Ids \cup {Ghost}]

Walks == [at : Nat, seen : SUBSET (Ids \cup {Ghost}), stay : SUBSET Ids]

\* The type of every variable.
Types ==
    /\ tbl \in Seq(Entries) /\ disk \in Seq(Entries) /\ Len(disk) = Len(tbl)
    /\ Len(tbl) \in Nat \ {0} /\ Len(tbl) % SPE = 0 /\ dirty \in Nat /\ call \in Calls
    /\ walk \in Walks /\ torn \in {"", "name", "cluster"}

\* The medium differs from the table only where the window is dirty.
Agree ==
    /\ dirty = 0 => disk = tbl
    /\ \A i \in 1 .. Len(tbl) : i \notin InSector(dirty) => disk[i] = tbl[i]

\* An object has one short entry.
Unique(t) == \A i, j \in 1 .. Len(t) :
    t[i].kind = "sfn" /\ t[j].kind = "sfn" /\ t[i].id = t[j].id /\ t[i].id \in Ids => i = j

Registering == call.op \in {"link", "clear", "store"}
First == call.to - NEnt(call.name) + 1

\* What is registered has no entry yet.
NewObject == Registering => /\ call.id \notin Held(tbl)
                            /\ call.name.loss = TRUE \/ call.short = call.name.short

\* The entries that are left to write are free.
StoreFits ==
    call.op = "store" =>
       /\ 1 <= First /\ First <= call.at /\ call.at <= call.to /\ call.to <= Len(tbl)
       /\ \A j \in call.at .. call.to : tbl[j].kind \in {"end", "del"}

\* Those left to mark are parts of a long name, and the object's short entry is the last.
MarkFits ==
    call.op = "mark" =>
       /\ 1 <= call.at /\ call.at <= call.to /\ call.to <= Len(tbl)
       /\ tbl[call.to].kind = "sfn" /\ tbl[call.to].id = call.id /\ call.id \notin walk.stay
       /\ \A j \in call.at .. call.to - 1 : tbl[j].kind = "lfn"
       /\ \A j \in 1 .. call.to : tbl[j].kind # "end"

\* A cluster that is not yet cleared holds nothing but what it held before.
Stale(e) == e.kind = "end" \/ (e.kind = "sfn" /\ e.id = Ghost)
ClearFits ==
    call.op = "clear" =>
       /\ dirty = 0
       /\ \A i \in 1 .. Len(tbl) : SectorOf(i) = SectorOf(Len(tbl)) => Stale(tbl[i])

\* Each object that stayed is visible, before the position of the walk if it was returned.
Stays(t, w, id) == \E i \in Visible(t) : t[i].id = id /\ (i < w.at <=> id \in w.seen)
Walking == /\ walk.at = 0 => walk = NoWalk
           /\ \A id \in walk.stay : Stays(tbl, walk, id)

Basic == /\ Types /\ Agree /\ Unique(tbl) /\ Unique(disk) /\ NewObject /\ StoreFits /\ MarkFits
         /\ ClearFits /\ Walking

\* What is known of a call by what it does.
LEMMA CallIs ==
    ASSUME NEW c \in Calls
    PROVE  /\ c.op \in {"idle", "link", "clear", "store", "mark"}
           /\ c.op = "idle" <=> c = Idle
           /\ c.op \in {"link", "clear", "store"} =>
                 c.name \in Names /\ c.short \in Shorts /\ c.id \in Ids
           /\ c.op \in {"store", "mark"} => c.at \in Nat /\ c.to \in Nat
           /\ c.op = "mark" => c.id \in Ids \cup {Ghost}
  BY DEF Calls, Idle

\* What a step makes of a call.
LEMMA CallsMade ==
    /\ Idle \in Calls /\ Idle.op = "idle"
    /\ \A n \in Names, short \in Shorts, id \in Ids :
          [op |-> "link", name |-> n, short |-> short, id |-> id] \in Calls
    /\ \A at, to \in Nat, n \in Names, short \in Shorts, id \in Ids :
          [op |-> "store", at |-> at, to |-> to, name |-> n, short |-> short, id |-> id] \in Calls
    /\ \A at, to \in Nat, id \in Ids \cup {Ghost} :
          [op |-> "mark", at |-> at, to |-> to, id |-> id] \in Calls
<1>1. Idle \in Calls /\ Idle.op = "idle"
  BY DEF Calls, Idle
<1>2. ASSUME NEW n \in Names, NEW short \in Shorts, NEW id \in Ids
      PROVE  [op |-> "link", name |-> n, short |-> short, id |-> id] \in Calls
  BY DEF Calls
<1>3. ASSUME NEW at \in Nat, NEW to \in Nat, NEW n \in Names, NEW short \in Shorts, NEW id \in Ids
      PROVE  [op |-> "store", at |-> at, to |-> to, name |-> n, short |-> short, id |-> id] \in Calls
  BY DEF Calls
<1>4. ASSUME NEW at \in Nat, NEW to \in Nat, NEW id \in Ids \cup {Ghost}
      PROVE  [op |-> "mark", at |-> at, to |-> to, id |-> id] \in Calls
  BY DEF Calls
<1> QED BY <1>1, <1>2, <1>3, <1>4

\* A call that writes goes on with the next entry.
LEMMA CallMoves ==
    ASSUME NEW c \in Calls, c.op \in {"store", "mark"}, NEW d, d = [c EXCEPT !.at = @ + 1]
    PROVE  /\ d \in Calls /\ d.op = c.op /\ d.at = c.at + 1 /\ d.to = c.to /\ d.id = c.id
           /\ c.op = "store" => d.name = c.name /\ d.short = c.short
<1>1. CASE c.op = "store"
  <2>1. c \in [op : {"store"}, at : Nat, to : Nat, name : Names, short : Shorts, id : Ids]
    BY <1>1 DEF Calls
  <2>2. d = [op |-> "store", at |-> c.at + 1, to |-> c.to, name |-> c.name, short |-> c.short,
             id |-> c.id]
    BY <2>1
  <2>3. d \in [op : {"store"}, at : Nat, to : Nat, name : Names, short : Shorts, id : Ids]
    BY <2>1, <2>2
  <2> QED BY <1>1, <2>1, <2>2, <2>3 DEF Calls
<1>2. CASE c.op = "mark"
  <2>1. c \in [op : {"mark"}, at : Nat, to : Nat, id : Ids \cup {Ghost}]
    BY <1>2 DEF Calls
  <2>2. d = [op |-> "mark", at |-> c.at + 1, to |-> c.to, id |-> c.id]
    BY <2>1
  <2>3. d \in [op : {"mark"}, at : Nat, to : Nat, id : Ids \cup {Ghost}]
    BY <2>1, <2>2
  <2> QED BY <1>2, <2>1, <2>2, <2>3 DEF Calls
<1> QED BY <1>1, <1>2

\* The window holds what the medium lacks.
LEMMA FlushedIs ==
    ASSUME Types, Agree
    PROVE  Flushed = tbl
<1>1. Len(tbl) \in Nat /\ Len(disk) = Len(tbl)
  BY DEF Types
<1>2. ASSUME NEW i \in 1 .. Len(tbl)
      PROVE  (IF dirty # 0 /\ i \in InSector(dirty) THEN tbl[i] ELSE disk[i]) = tbl[i]
  BY <1>2 DEF Agree
<1>3. Flushed = [i \in 1 .. Len(tbl) |-> tbl[i]]
  BY <1>1, <1>2 DEF Flushed
<1>4. tbl = [i \in 1 .. Len(tbl) |-> tbl[i]]
  BY LenProperties DEF Types
<1> QED BY <1>3, <1>4

\* An entry is written.
LEMMA PutIs ==
    ASSUME Types, Agree, NEW i \in 1 .. Len(tbl), NEW e \in Entries, Put(i, e)
    PROVE  /\ tbl' \in Seq(Entries) /\ Len(tbl') = Len(tbl) /\ tbl'[i] = e
           /\ \A j \in 1 .. Len(tbl) : j # i => tbl'[j] = tbl[j]
           /\ disk' = disk \/ disk' = tbl
           /\ dirty' \in Nat /\ Agree'
<1>1. Len(tbl) \in Nat /\ Len(disk) = Len(tbl) /\ tbl \in Seq(Entries)
  BY DEF Types
<1>2. tbl' = [tbl EXCEPT ![i] = e] /\ dirty' = SectorOf(i)
  BY DEF Put
<1>3. tbl' \in Seq(Entries) /\ Len(tbl') = Len(tbl)
  <2>1. tbl \in [1 .. Len(tbl) -> Entries] /\ DOMAIN tbl = 1 .. Len(tbl)
    BY <1>1, LenProperties
  <2>2. tbl' \in [1 .. Len(tbl) -> Entries]
    BY <1>2, <2>1
  <2>3. tbl' \in Seq(Entries)
    BY <1>1, <2>2, SeqDef
  <2>4. DOMAIN tbl' = 1 .. Len(tbl)
    BY <2>2
  <2> QED BY <1>1, <2>3, <2>4, LenProperties
<1>4. /\ tbl'[i] = e /\ \A j \in 1 .. Len(tbl) : j # i => tbl'[j] = tbl[j]
  BY <1>1, <1>2, LenProperties
<1>5. disk' = disk \/ disk' = tbl
  BY FlushedIs DEF Put
<1>6. i \in Nat /\ i >= 1
  BY <1>1
<1>7. dirty' \in Nat /\ dirty' # 0 /\ i \in InSector(dirty')
  BY <1>2, <1>6, SectorIs
<1>8. ASSUME NEW j \in 1 .. Len(tbl), j \notin InSector(dirty')  PROVE disk'[j] = tbl'[j]
  <2>1. tbl'[j] = tbl[j]
    BY <1>4, <1>7, <1>8
  <2>2. CASE dirty = SectorOf(i)
    <3>1. disk' = disk /\ dirty' = dirty
      BY <1>2, <2>2 DEF Put
    <3> QED BY <1>8, <2>1, <3>1 DEF Agree
  <2>3. CASE dirty # SectorOf(i)
    <3>1. disk' = tbl
      BY <2>3, FlushedIs DEF Put
    <3> QED BY <2>1, <3>1
  <2> QED BY <2>2, <2>3
<1>9. Agree'
  BY <1>3, <1>7, <1>8 DEF Agree
<1> QED BY <1>3, <1>4, <1>5, <1>7, <1>9

\* No object has come from one table to the other.
NoNew(t, u) == \A i \in 1 .. Len(u) :
    u[i].kind = "sfn" /\ u[i].id \in Ids => i \in 1 .. Len(t) /\ u[i] = t[i]

\* Then each still has one entry, and what had none has none.
LEMMA NoNewUnique ==
    ASSUME NEW t, NEW u, NoNew(t, u)
    PROVE  /\ Unique(t) => Unique(u)
           /\ \A id \in Ids : id \notin Held(t) => id \notin Held(u)
<1>1. ASSUME Unique(t)  PROVE Unique(u)
  BY <1>1 DEF Unique, NoNew
<1>2. ASSUME NEW id \in Ids, id \in Held(u)  PROVE id \in Held(t)
  <2>1. PICK i \in 1 .. Len(u) : u[i].kind = "sfn" /\ u[i].id = id
    BY <1>2 DEF Held
  <2>2. i \in 1 .. Len(t) /\ u[i] = t[i]
    BY <2>1 DEF NoNew
  <2> QED BY <2>1, <2>2 DEF Held
<1> QED BY <1>1, <1>2

\* What dir_register decides for a table.
Chosen(t, c, n, short, id) ==
    \/ c = Idle
    \/ c = [op |-> "link", name |-> n, short |-> short, id |-> id]
    \/ \E i \in Allocated(t, NEnt(n)) :
          c = [op |-> "store", at |-> i - NEnt(n) + 1, to |-> i,
               name |-> n, short |-> short, id |-> id]

\* It does so when the table is allocated.
LEMMA StoringIs ==
    ASSUME NEW n, NEW short, NEW id, Storing(n, short, id)
    PROVE  Chosen(tbl', call', n, short, id)
  BY DEF Storing, Chosen

\* The entries of a name.
LEMMA NEntIs ==
    ASSUME NEW n \in Names
    PROVE  /\ NEnt(n) \in 1 .. 255
           /\ n.lfn = TRUE => NEnt(n) = Len(n.segs) + 1
           /\ n.lfn = FALSE => NEnt(n) = 1
<1>1. n.lfn \in BOOLEAN
  BY NameType
<1>2. PICK L \in 1 .. 254 : L = Len(n.segs)
  BY NameLen
<1>3. CASE n.lfn = TRUE
  <2>1. NEnt(n) = L + 1
    BY <1>2, <1>3 DEF NEnt
  <2>2. L + 1 \in 1 .. 255
    OBVIOUS
  <2>3. NEnt(n) \in 1 .. 255
    BY <2>1, <2>2
  <2>4. NEnt(n) = Len(n.segs) + 1
    BY <1>2, <2>1
  <2> QED BY <1>3, <2>3, <2>4
<1>4. CASE n.lfn = FALSE
  BY <1>4 DEF NEnt
<1> QED BY <1>1, <1>3, <1>4

\* The block that is found.
LEMMA AllocatedIs ==
    ASSUME NEW t \in Seq(Entries), NEW k \in 1 .. 255, NEW i \in Allocated(t, k)
    PROVE  /\ i \in 1 .. Len(t) /\ i \in Nat /\ i - k + 1 \in Nat /\ 1 <= i - k + 1 /\ i - k + 1 <= i
           /\ \A j \in i - k + 1 .. i : t[j].kind \in {"end", "del"}
           /\ \A j \in 1 .. i - 1 : ~ Block(t, k, j)
<1>1. Len(t) \in Nat
  BY TableIs
<1>2. i \in 1 .. Len(t) /\ Block(t, k, i) /\ \A j \in 1 .. i - 1 : ~ Block(t, k, j)
  BY DEF Allocated
<1>3. i >= k /\ \A j \in i - k + 1 .. i : t[j].kind \in {"end", "del"}
  BY <1>2 DEF Block, IsFree
<1>4. i \in Nat /\ i - k + 1 \in Nat /\ 1 <= i - k + 1 /\ i - k + 1 <= i
  <2>1. PICK x \in 1 .. Len(t) : x = i
    BY <1>2
  <2>2. x >= k
    BY <1>3, <2>1
  <2>3. x \in Nat /\ x - k + 1 \in Nat /\ 1 <= x - k + 1 /\ x - k + 1 <= x
    BY <1>1, <2>2
  <2> QED BY <2>1, <2>3
<1> QED BY <1>2, <1>3, <1>4

\* A call that begins to register.
LEMMA ChosenBasic ==
    ASSUME NEW n \in Names, NEW short \in Shorts, NEW id \in Ids,
           Chosen(tbl', call', n, short, id), tbl' \in Seq(Entries),
           id \notin Held(tbl'), n.loss = TRUE \/ short = n.short
    PROVE  /\ call' \in Calls /\ call'.op \in {"idle", "link", "store"}
           /\ NewObject' /\ StoreFits' /\ MarkFits' /\ ClearFits'
           /\ call'.op # "idle" => call'.name = n /\ call'.short = short /\ call'.id = id
           /\ call'.op = "store" => First' = call'.at /\ call'.to \in Allocated(tbl', NEnt(n))
<1>1. CASE call' = Idle
  BY <1>1, CallsMade DEF NewObject, StoreFits, MarkFits, ClearFits, Registering
<1>2. CASE call' = [op |-> "link", name |-> n, short |-> short, id |-> id]
  <2>1. call' \in Calls
    BY <1>2, CallsMade
  <2>2. call'.op = "link" /\ call'.name = n /\ call'.short = short /\ call'.id = id
    BY <1>2
  <2> QED BY <2>1, <2>2 DEF NewObject, StoreFits, MarkFits, ClearFits
<1>3. ASSUME NEW i \in Allocated(tbl', NEnt(n)),
             call' = [op |-> "store", at |-> i - NEnt(n) + 1, to |-> i,
                      name |-> n, short |-> short, id |-> id]
      PROVE  /\ call' \in Calls /\ call'.op = "store"
             /\ NewObject' /\ StoreFits' /\ MarkFits' /\ ClearFits'
             /\ call'.name = n /\ call'.short = short /\ call'.id = id
             /\ First' = call'.at /\ call'.to \in Allocated(tbl', NEnt(n))
  <2>1. PICK k \in 1 .. 255 : k = NEnt(n)
    BY NEntIs
  <2>2. /\ i \in 1 .. Len(tbl') /\ i \in Nat /\ i - k + 1 \in Nat /\ 1 <= i - k + 1 /\ i - k + 1 <= i
        /\ \A j \in i - k + 1 .. i : tbl'[j].kind \in {"end", "del"}
    BY <1>3, <2>1, AllocatedIs
  <2>3. /\ call'.op = "store" /\ call'.name = n /\ call'.short = short /\ call'.id = id
        /\ call'.at = i - k + 1 /\ call'.to = i
    BY <1>3, <2>1
  <2>4. call' \in Calls
    <3>1. call' = [op |-> "store", at |-> i - k + 1, to |-> i,
                   name |-> n, short |-> short, id |-> id]
      BY <1>3, <2>1
    <3> QED BY <2>2, <3>1, CallsMade
  <2>5. First' = call'.at
    BY <2>1, <2>3 DEF First
  <2>6. Len(tbl') \in Nat
    BY TableIs
  <2>7. StoreFits'
    BY <2>2, <2>3, <2>5, <2>6 DEF StoreFits
  <2>8. NewObject' /\ MarkFits' /\ ClearFits'
    BY <2>3 DEF NewObject, MarkFits, ClearFits
  <2>9. call'.to \in Allocated(tbl', NEnt(n))
    BY <1>3, <2>3
  <2> QED BY <2>3, <2>4, <2>5, <2>7, <2>8, <2>9
<1> QED BY <1>1, <1>2, <1>3, CallsMade DEF Chosen
-----------------------------------------------------------------------------
(* Steps *)

\* What OthersUntouched and a walk need of the table.
Free == Ids \ Own

\* The objects that a walk waits for are not those of the call.
LEMMA StayFree ==
    ASSUME Basic
    PROVE  walk.stay \subseteq Free
<1> SUFFICES ASSUME NEW id \in walk.stay, id \in Own  PROVE FALSE
  <2>1. walk.stay \subseteq Ids
    BY DEF Basic, Types, Walks
  <2> QED BY <2>1 DEF Free
<1>1. call.op # "idle" /\ id = call.id
  BY DEF Own
<1>2. call.op \in {"link", "clear", "store", "mark"}
  BY <1>1, CallIs DEF Basic, Types
<1>3. Stays(tbl, walk, id)
  BY DEF Basic, Walking
<1>4. id \in Held(tbl)
  BY <1>3 DEF Stays, Held, Visible
<1>5. call.op = "mark" => id \notin walk.stay
  BY <1>1 DEF Basic, MarkFits
<1>6. call.op # "mark" => id \notin Held(tbl)
  BY <1>1, <1>2 DEF Basic, NewObject, Registering
<1> QED BY <1>4, <1>5, <1>6

\* A walk goes on over a table that keeps these objects.
LEMMA WalkKept ==
    ASSUME Walking, NEW X, walk.stay \subseteq X, Keeps(tbl, tbl', X), UNCHANGED walk
    PROVE  Walking'
<1>1. ASSUME NEW id \in walk.stay  PROVE Stays(tbl', walk, id)
  <2>1. PICK i \in Visible(tbl) : tbl[i].id = id /\ (i < walk.at <=> id \in walk.seen)
    BY DEF Walking, Stays
  <2>2. KeptAt(tbl, tbl', i)
    BY <2>1 DEF Keeps
  <2>3. i \in Visible(tbl') /\ tbl'[i].id = id
    BY <2>1, <2>2, KeptVisible DEF KeptAt
  <2> QED BY <2>1, <2>3 DEF Stays
<1> QED BY <1>1 DEF Walking

\* What a step leaves alone.
StillBasic ==
    /\ tbl' = tbl
    /\ disk' = disk \/ disk' = tbl
    /\ Agree'

\* Then a step that ends a call, or does none, keeps the invariant.
LEMMA StillIdle ==
    ASSUME Basic, StillBasic, call' = Idle, dirty' \in Nat, torn' \in {"", "name", "cluster"},
           walk' \in Walks, Walking'
    PROVE  Basic'
<1>1. Types'
  BY CallsMade DEF Basic, Types, StillBasic
<1>2. Unique(tbl)' /\ Unique(disk)'
  <2>1. Unique(tbl) /\ Unique(disk)
    BY DEF Basic
  <2>2. CASE disk' = disk
    BY <2>1, <2>2 DEF StillBasic, Unique
  <2>3. CASE disk' = tbl
    BY <2>1, <2>3 DEF StillBasic, Unique
  <2> QED BY <2>2, <2>3 DEF StillBasic
<1>3. NewObject' /\ StoreFits' /\ MarkFits' /\ ClearFits'
  BY CallsMade DEF NewObject, StoreFits, MarkFits, ClearFits, Registering
<1> QED BY <1>1, <1>2, <1>3 DEF Basic, StillBasic

\* The window is written back, or not.
LEMMA FlushOrNot ==
    ASSUME Types, Agree, UNCHANGED tbl,
           UNCHANGED <<disk, dirty>> \/ (disk' = Flushed /\ dirty' = 0)
    PROVE  StillBasic /\ dirty' \in Nat
<1>1. CASE UNCHANGED <<disk, dirty>>
  BY <1>1 DEF StillBasic, Agree, Types
<1>2. CASE disk' = Flushed /\ dirty' = 0
  <2>1. disk' = tbl
    BY <1>2, FlushedIs
  <2> QED BY <1>2, <2>1 DEF StillBasic, Agree
<1> QED BY <1>1, <1>2

\* Evict, StretchFails and AccessFails keep it.
LEMMA BasicEnds ==
    ASSUME Basic, Evict \/ StretchFails \/ AccessFails
    PROVE  Basic'
<1>1. UNCHANGED <<tbl, walk>> /\ call' = Idle /\ torn' \in {"", "name", "cluster"}
      /\ (UNCHANGED <<disk, dirty>> \/ (disk' = Flushed /\ dirty' = 0))
  BY DEF Evict, StretchFails, AccessFails, PutFails, Basic, Types
<1>2. StillBasic /\ dirty' \in Nat
  BY <1>1, FlushOrNot DEF Basic
<1>3. Walking' /\ walk' \in Walks
  BY <1>1 DEF Walking, Stays, Basic, Types
<1> QED BY <1>1, <1>2, <1>3, StillIdle

\* A name that can be looked up.
LEMMA KnownIs ==
    ASSUME NEW nm \in Known
    PROVE  nm.loss \in BOOLEAN /\ Len(nm.segs) \in Nat
<1>1. CASE nm \in Names
  <2>1. nm.loss \in BOOLEAN /\ Len(nm.segs) \in 1 .. 254
    BY <1>1, NameType, NameLen
  <2> QED BY <2>1
<1>2. ASSUME NEW s \in Shorts, nm = ShortName(s)  PROVE nm.loss \in BOOLEAN /\ Len(nm.segs) \in Nat
  <2>1. nm.loss = FALSE /\ nm.segs = <<s>>
    BY <1>2 DEF ShortName
  <2> QED BY <2>1
<1> QED BY <1>1, <1>2 DEF Known

\* A name with its number in place of what was lost.
Numbered(nm, k) == [nm EXCEPT !.short = <<nm.short[1], k>>, !.loss = FALSE]

\* gen_numname gives a number that no short entry has.
LEMMA NumberIs ==
    ASSUME NEW t, NEW nm, Number(t, nm) # 0
    PROVE  Number(t, nm) \in 1 .. MaxNum /\ FindScan(t, Numbered(nm, Number(t, nm)), TRUE).hit = 0
<1> DEFINE unused == {k \in 1 .. MaxNum : FindScan(t, Numbered(nm, k), TRUE).hit = 0}
<1>1. Number(t, nm) = IF unused = {} THEN 0
                      ELSE CHOOSE k \in unused : \A m \in unused : k <= m
  BY DEF Number, Numbered
<1>2. unused # {}
  BY <1>1
<1>3. PICK x \in unused : \A m \in unused : x <= m
  <2>1. unused \in SUBSET Nat
    <3>1. \A x \in 1 .. MaxNum : x \in Nat
      BY Constants
    <3> QED BY <3>1
  <2> QED BY <1>2, <2>1, Least
<1> DEFINE k == CHOOSE z \in unused : \A m \in unused : z <= m
<1>4. k \in unused
  BY <1>3
<1>5. Number(t, nm) = k
  BY <1>1, <1>2
<1> QED BY <1>4, <1>5

\* The letters of a name, numbered.
LEMMA NumberedIs ==
    ASSUME NEW nm \in Names, NEW k \in 1 .. MaxNum
    PROVE  <<nm.short[1], k>> \in Shorts /\ Numbered(nm, k).short = <<nm.short[1], k>>
           /\ Numbered(nm, k).loss = FALSE
<1>1. nm \in [segs : Seq(Segs), short : Shorts, loss : BOOLEAN, lfn : BOOLEAN]
  BY NameAssumption
<1>2. k \in 0 .. MaxNum
  BY Constants
<1>3. <<nm.short[1], k>> \in Shorts
  BY <1>2 DEF Shorts
<1>4. Numbered(nm, k).short = <<nm.short[1], k>> /\ Numbered(nm, k).loss = FALSE
  BY <1>1 DEF Numbered
<1> QED BY <1>3, <1>4

\* What dir_register begins with: a short name that no visible entry has.
Begins(nm, short, id) ==
    /\ short \in Shorts /\ (nm.loss = TRUE \/ short = nm.short)
    /\ \A i \in Visible(tbl) : tbl[i].short # short
    /\ Chosen(tbl, call', nm, short, id)

\* Or it gives up.
LEMMA RegisterBegins ==
    ASSUME Types, NEW nm \in Names, NEW id \in Ids, Register(nm, id)
    PROVE  /\ call = Idle /\ id \notin Held(tbl) /\ Find(tbl, nm).hit = 0
           /\ UNCHANGED <<tbl, disk, dirty, walk, torn>>
           /\ call' = Idle \/ \E short \in Shorts : Begins(nm, short, id)
<1>1. /\ call = Idle /\ id \notin Held(tbl) /\ Find(tbl, nm).hit = 0
      /\ UNCHANGED <<tbl, disk, dirty, walk, torn>>
  BY DEF Register
<1>2. nm.loss \in BOOLEAN /\ nm.short \in Shorts /\ tbl \in Seq(Entries)
  BY NameType DEF Types
<1>3. CASE call' = Idle
  BY <1>1, <1>3
<1>4. CASE call' # Idle
  <2> DEFINE k == Number(tbl, nm)
             short == IF nm.loss THEN <<nm.short[1], k>> ELSE nm.short
  <2>1. ~ (nm.loss /\ k = 0) /\ Storing(nm, short, id)
    BY <1>4 DEF Register
  <2>2. Chosen(tbl, call', nm, short, id)
    BY <1>1, <2>1, StoringIs
  <2> HIDE DEF k
  <2>3. CASE nm.loss = TRUE
    <3>1. k \in 1 .. MaxNum /\ FindScan(tbl, Numbered(nm, k), TRUE).hit = 0
      BY <2>1, <2>3, NumberIs DEF k
    <3>2. short \in Shorts /\ Numbered(nm, k).short = short /\ Numbered(nm, k).loss = FALSE
      BY <2>3, <3>1, NumberedIs
    <3>3. ASSUME NEW i \in Visible(tbl)  PROVE tbl[i].short # short
      <4> DEFINE nn == Numbered(nm, k)
      <4>1. PICK yes \in BOOLEAN : yes = TRUE
        OBVIOUS
      <4>2. nn.loss \in BOOLEAN /\ FindScan(tbl, nn, yes).hit = 0
        BY <3>1, <3>2, <4>1
      <4>3. NoMatch(tbl, nn, i)
        <5> HIDE DEF nn
        <5> QED BY <1>2, <3>3, <4>2, NotFound
      <4>4. tbl[i].kind = "sfn"
        BY <3>3 DEF Visible
      <4> QED BY <3>2, <4>3, <4>4 DEF NoMatch
    <3> QED BY <1>1, <2>2, <2>3, <3>2, <3>3 DEF Begins
  <2>4. CASE nm.loss = FALSE
    <3>1. short = nm.short
      BY <2>4
    <3>2. ASSUME NEW i \in Visible(tbl)  PROVE tbl[i].short # nm.short
      <4>1. PICK no \in BOOLEAN : no = FALSE
        OBVIOUS
      <4>2. FindScan(tbl, nm, no).hit = 0
        BY <1>1, <4>1 DEF Find
      <4>3. NoMatch(tbl, nm, i)
        BY <1>2, <3>2, <4>2, NotFound
      <4>4. tbl[i].kind = "sfn"
        BY <3>2 DEF Visible
      <4> QED BY <2>4, <4>3, <4>4 DEF NoMatch
    <3> QED BY <1>1, <1>2, <2>2, <2>4, <3>1, <3>2 DEF Begins
  <2> QED BY <1>2, <2>3, <2>4
<1> QED BY <1>3, <1>4

\* Register keeps the invariant.
LEMMA BasicRegister ==
    ASSUME Basic, NEW nm \in Names, NEW id \in Ids, Register(nm, id)
    PROVE  Basic'
<1>1. /\ call = Idle /\ id \notin Held(tbl)
      /\ UNCHANGED <<tbl, disk, dirty, walk, torn>>
      /\ call' = Idle \/ \E short \in Shorts : Begins(nm, short, id)
  BY RegisterBegins DEF Basic
<1>2. /\ call' \in Calls /\ NewObject' /\ StoreFits' /\ MarkFits' /\ ClearFits'
  <2>1. CASE call' = Idle
    BY <2>1, CallsMade DEF NewObject, StoreFits, MarkFits, ClearFits, Registering
  <2>2. ASSUME NEW short \in Shorts, Begins(nm, short, id)
        PROVE  call' \in Calls /\ NewObject' /\ StoreFits' /\ MarkFits' /\ ClearFits'
    <3>1. Chosen(tbl', call', nm, short, id) /\ (nm.loss = TRUE \/ short = nm.short)
      BY <1>1, <2>2 DEF Begins
    <3>2. tbl' \in Seq(Entries) /\ id \notin Held(tbl')
      BY <1>1 DEF Basic, Types
    <3> QED BY <3>1, <3>2, ChosenBasic
  <2> QED BY <1>1, <2>1, <2>2
<1>3. Types' /\ Agree' /\ Unique(tbl)' /\ Unique(disk)' /\ Walking'
  BY <1>1, <1>2 DEF Basic, Types, Agree, Unique, Walking, Stays
<1> QED BY <1>2, <1>3 DEF Basic

\* What a walk knows.
LEMMA WalkIs ==
    ASSUME NEW w \in Walks
    PROVE  /\ w.at \in Nat /\ w.seen \subseteq Ids \cup {Ghost} /\ w.stay \subseteq Ids
           /\ w = [at |-> w.at, seen |-> w.seen, stay |-> w.stay]
  BY DEF Walks

\* Where a walk has come to in a table.
WalkAt(t, w) == /\ w.at = 0 => w = NoWalk
                /\ \A o \in w.stay : Stays(t, w, o)

\* A walk that no longer waits for an object.
LEMMA WalkLeft ==
    ASSUME NEW t, NEW w \in Walks, NEW id, NEW v, v = [w EXCEPT !.stay = @ \ {id}], WalkAt(t, w)
    PROVE  v \in Walks /\ id \notin v.stay /\ WalkAt(t, v)
<1>1. /\ w.at \in Nat /\ w.seen \subseteq Ids \cup {Ghost} /\ w.stay \subseteq Ids
      /\ w = [at |-> w.at, seen |-> w.seen, stay |-> w.stay]
  BY WalkIs
<1>2. v = [at |-> w.at, seen |-> w.seen, stay |-> w.stay \ {id}]
  BY <1>1
<1>3. v.at = w.at /\ v.seen = w.seen /\ v.stay = w.stay \ {id}
  BY <1>2
<1>4. v \in Walks
  BY <1>1, <1>2 DEF Walks
<1>5. ASSUME v.at = 0  PROVE v = NoWalk
  <2>1. w = NoWalk
    BY <1>3, <1>5 DEF WalkAt
  <2>2. w.at = 0 /\ w.seen = {} /\ w.stay = {}
    BY <2>1 DEF NoWalk
  <2>3. w.stay \ {id} = {}
    BY <2>2
  <2> QED BY <1>2, <2>2, <2>3 DEF NoWalk
<1>6. \A o \in v.stay : Stays(t, v, o)
  BY <1>3 DEF Stays, WalkAt
<1> QED BY <1>3, <1>4, <1>5, <1>6 DEF WalkAt

\* What dir_remove begins with.
LEMMA RemoveBegins ==
    ASSUME Types, NEW nm \in Known, Remove(nm)
    PROVE  \E h \in Visible(tbl), at \in Nat :
              /\ h = Find(tbl, nm).hit /\ at = IF Find(tbl, nm).blk = 0 THEN h ELSE Find(tbl, nm).blk
              /\ 1 <= at /\ at <= h /\ \A j \in at .. h - 1 : tbl[j].kind = "lfn"
              /\ call' = [op |-> "mark", at |-> at, to |-> h, id |-> tbl[h].id]
              /\ walk' = [walk EXCEPT !.stay = @ \ {tbl[h].id}]
<1>1. nm.loss \in BOOLEAN /\ Len(nm.segs) \in Nat /\ tbl \in Seq(Entries)
  BY KnownIs DEF Types
<1> DEFINE s == Find(tbl, nm)
<1>2. s.hit # 0 /\ call' = [op |-> "mark", at |-> IF s.blk = 0 THEN s.hit ELSE s.blk,
                            to |-> s.hit, id |-> tbl[s.hit].id]
      /\ walk' = [walk EXCEPT !.stay = @ \ {tbl[s.hit].id}]
  BY DEF Remove
<1>3. Located(tbl, s)
  BY <1>1, <1>2, FindBlock
<1> HIDE DEF s
<1>4. Len(tbl) \in Nat
  BY TableIs DEF Types
<1>5. PICK h \in Visible(tbl) : h = s.hit
  BY <1>3 DEF Located
<1>6. h \in 1 .. Len(tbl)
  BY DEF Visible
<1>7. s.blk = 0 \/ (s.blk \in 1 .. h - 1 /\ \A j \in s.blk .. h - 1 : tbl[j].kind = "lfn")
  BY <1>3, <1>5 DEF Located
<1>8. PICK at : at = IF s.blk = 0 THEN h ELSE s.blk
  OBVIOUS
<1>9. at \in Nat /\ 1 <= at /\ at <= h /\ \A j \in at .. h - 1 : tbl[j].kind = "lfn"
  BY <1>4, <1>6, <1>7, <1>8
<1>10. call' = [op |-> "mark", at |-> at, to |-> h, id |-> tbl[h].id]
       /\ walk' = [walk EXCEPT !.stay = @ \ {tbl[h].id}]
  BY <1>2, <1>5, <1>8
<1> QED BY <1>5, <1>8, <1>9, <1>10 DEF s

\* Remove keeps the invariant.
LEMMA BasicRemove ==
    ASSUME Basic, NEW nm \in Known, Remove(nm)
    PROVE  Basic'
<1>1. PICK h \in Visible(tbl), at \in Nat :
              /\ h = Find(tbl, nm).hit /\ at = IF Find(tbl, nm).blk = 0 THEN h ELSE Find(tbl, nm).blk
              /\ 1 <= at /\ at <= h /\ \A j \in at .. h - 1 : tbl[j].kind = "lfn"
              /\ call' = [op |-> "mark", at |-> at, to |-> h, id |-> tbl[h].id]
              /\ walk' = [walk EXCEPT !.stay = @ \ {tbl[h].id}]
  BY RemoveBegins DEF Basic
<1>2. UNCHANGED <<tbl, disk, dirty, torn>>
  BY DEF Remove
<1>3. Len(tbl) \in Nat /\ h \in 1 .. Len(tbl) /\ h \in Nat /\ tbl[h] \in Entries /\ tbl[h].kind = "sfn"
      /\ \A j \in 1 .. h : tbl[j].kind # "end"
  <2>1. tbl \in Seq(Entries)
    BY DEF Basic, Types
  <2>2. h \in 1 .. Len(tbl) /\ tbl[h].kind = "sfn" /\ \A j \in 1 .. h : tbl[j].kind # "end"
    BY DEF Visible
  <2> QED BY <2>1, <2>2, TableIs
<1>4. tbl[h].id \in Ids \cup {Ghost}
  BY <1>3, EntryIs
<1>5. call' \in Calls
  BY <1>1, <1>3, <1>4, CallsMade
<1>6. call'.op = "mark" /\ call'.at = at /\ call'.to = h /\ call'.id = tbl[h].id
  BY <1>1
<1>7. walk' \in Walks /\ tbl[h].id \notin walk'.stay /\ WalkAt(tbl, walk')
  <2>1. walk \in Walks /\ WalkAt(tbl, walk)
    BY DEF Basic, Types, Walking, WalkAt
  <2> QED BY <1>1, <2>1, WalkLeft
<1>8. MarkFits'
  BY <1>1, <1>2, <1>3, <1>6, <1>7 DEF MarkFits
<1>9. NewObject' /\ StoreFits' /\ ClearFits'
  BY <1>6 DEF NewObject, Registering, StoreFits, ClearFits
<1>10. Walking'
  BY <1>2, <1>7 DEF Walking, WalkAt
<1>11. Types' /\ Agree' /\ Unique(tbl)' /\ Unique(disk)'
  BY <1>2, <1>5, <1>7 DEF Basic, Types, Agree, Unique
<1> QED BY <1>8, <1>9, <1>10, <1>11 DEF Basic

\* So do the steps of a walk.
LEMMA BasicWalk ==
    ASSUME Basic, OpenDir \/ ReadDirEnds \/ \E i \in 1 .. MaxLen : ReadDir(i)
    PROVE  Basic'
<1>1. UNCHANGED <<tbl, disk, dirty, call, torn>> /\ call = Idle
  BY DEF OpenDir, ReadDirEnds, ReadDir
<1>2. /\ tbl \in Seq(Entries) /\ walk \in Walks /\ Len(tbl) \in Nat
      /\ (walk.at = 0 => walk = NoWalk) /\ \A o \in walk.stay : Stays(tbl, walk, o)
  BY TableIs DEF Basic, Types, Walking
<1>3. NoWalk \in Walks /\ NoWalk.stay = {} /\ NoWalk.at = 0
  BY DEF NoWalk, Walks
<1>4. walk' \in Walks /\ Walking'
  <2>1. CASE OpenDir
    <3>1. walk' = [at |-> 1, seen |-> {}, stay |-> Live(tbl) \cap Ids]
      BY <2>1 DEF OpenDir
    <3>2. walk'.at = 1 /\ walk'.seen = {} /\ walk'.stay = Live(tbl) \cap Ids /\ walk' \in Walks
      BY <3>1 DEF Walks
    <3>3. ASSUME NEW o \in walk'.stay  PROVE Stays(tbl', walk', o)
      <4>1. PICK i \in Visible(tbl) : tbl[i].id = o
        BY <3>2 DEF Live
      <4>2. ~ (i < 1)
        BY <1>2 DEF Visible
      <4> QED BY <1>1, <3>2, <4>1, <4>2 DEF Stays
    <3> QED BY <3>2, <3>3 DEF Walking
  <2>2. CASE ReadDirEnds
    <3>1. walk' = NoWalk
      BY <2>2 DEF ReadDirEnds
    <3> QED BY <1>3, <3>1 DEF Walking
  <2>3. ASSUME NEW i \in 1 .. MaxLen, ReadDir(i)  PROVE walk' \in Walks /\ Walking'
    <3>1. walk' = [walk EXCEPT !.at = i + 1, !.seen = @ \cup {tbl[i].id}] /\ NextShort(i)
      BY <2>3 DEF ReadDir
    <3>2. walk = [at |-> walk.at, seen |-> walk.seen, stay |-> walk.stay]
          /\ walk.at \in Nat /\ walk.seen \subseteq Ids \cup {Ghost} /\ walk.stay \subseteq Ids
      BY <1>2, WalkIs
    <3>3. walk' = [at |-> i + 1, seen |-> walk.seen \cup {tbl[i].id}, stay |-> walk.stay]
      BY <3>1, <3>2
    <3>4. walk'.at = i + 1 /\ walk'.seen = walk.seen \cup {tbl[i].id} /\ walk'.stay = walk.stay
      BY <3>3
    <3>5. i \in Visible(tbl) /\ i >= walk.at /\ \A j \in Visible(tbl) : j >= walk.at => i <= j
      BY <3>1 DEF NextShort
    <3>6. i \in 1 .. Len(tbl) /\ i \in Nat /\ tbl[i].kind = "sfn"
      BY <1>2, <3>5 DEF Visible
    <3>7. tbl[i].id \in Ids \cup {Ghost}
      BY <1>2, <3>6, TableIs, EntryIs
    <3>8. walk' \in Walks
      BY <3>2, <3>3, <3>6, <3>7 DEF Walks
    <3>9. ASSUME NEW o \in walk'.stay  PROVE Stays(tbl', walk', o)
      <4>1. PICK j \in Visible(tbl) : tbl[j].id = o /\ (j < walk.at <=> o \in walk.seen)
        BY <1>2, <3>4 DEF Stays
      <4>2. j \in 1 .. Len(tbl) /\ j \in Nat /\ tbl[j].kind = "sfn"
        BY <1>2 DEF Visible
      <4>3. tbl[i].id = o => i = j
        <5>1. o \in Ids
          BY <3>2, <3>4
        <5>2. Unique(tbl)
          BY DEF Basic
        <5> QED BY <3>6, <4>1, <4>2, <5>1, <5>2 DEF Unique
      <4>4. j < i + 1 <=> o \in walk.seen \cup {tbl[i].id}
        <5>1. CASE j < walk.at
          <6>1. j < i + 1
            BY <3>2, <3>5, <3>6, <4>2, <5>1
          <6> QED BY <4>1, <5>1, <6>1
        <5>2. CASE ~ (j < walk.at)
          <6>1. i <= j
            BY <3>2, <3>5, <4>2, <5>2
          <6>2. j < i + 1 <=> j = i
            BY <3>6, <4>2, <6>1
          <6>3. o \notin walk.seen
            BY <4>1, <5>2
          <6> QED BY <4>1, <4>3, <6>2, <6>3
        <5> QED BY <5>1, <5>2
      <4> QED BY <1>1, <3>4, <4>1, <4>4 DEF Stays
    <3>10. walk'.at # 0
      BY <3>4, <3>6
    <3> QED BY <3>8, <3>9, <3>10 DEF Walking
  <2> QED BY <2>1, <2>2, <2>3
<1>5. NewObject' /\ StoreFits' /\ MarkFits' /\ ClearFits'
  BY <1>1, CallsMade DEF NewObject, StoreFits, MarkFits, ClearFits, Registering
<1>6. Types' /\ Agree' /\ Unique(tbl)' /\ Unique(disk)'
  BY <1>1, <1>4 DEF Basic, Types, Agree, Unique
<1> QED BY <1>4, <1>5, <1>6 DEF Basic

\* A power cut leaves what is on the medium.
LEMMA BasicCut ==
    ASSUME Basic, PowerCut
    PROVE  Basic'
<1>1. /\ tbl' = disk /\ disk' = disk /\ dirty' = 0 /\ call' = Idle /\ walk' = NoWalk
      /\ torn' \in {"", "name", "cluster"}
  BY DEF PowerCut
<1>2. NoWalk \in Walks /\ NoWalk.stay = {}
  BY DEF NoWalk, Walks
<1>3. Types'
  BY <1>1, <1>2, CallsMade DEF Basic, Types
<1>4. Agree' /\ Unique(tbl)' /\ Unique(disk)' /\ Walking'
  BY <1>1, <1>2 DEF Basic, Agree, Unique, Walking
<1>5. NewObject' /\ StoreFits' /\ MarkFits' /\ ClearFits'
  BY <1>1, CallsMade DEF NewObject, StoreFits, MarkFits, ClearFits, Registering
<1> QED BY <1>3, <1>4, <1>5 DEF Basic

\* Whole sectors and one more are whole sectors.
LEMMA SectorsMore ==
    ASSUME NEW n \in Nat, (n % SPE) = 0
    PROVE  ((n + SPE) % SPE) = 0
<1>1. SPE \in Nat /\ SPE >= 1
  BY Constants
<1>2. PICK q \in Nat : n = q * SPE
  <2>1. n = SPE * (n \div SPE) + (n % SPE)
    BY <1>1
  <2>2. n \div SPE \in Nat
    BY <1>1
  <2> QED BY <1>1, <2>1, <2>2
<1>3. n + SPE = (q + 1) * SPE
  BY <1>1, <1>2
<1>4. (((q + 1) * SPE) % SPE) = 0
  BY <1>1
<1> QED BY <1>3, <1>4

\* And one less.
LEMMA SectorsLess ==
    ASSUME NEW m \in Nat \ {0}, (m % SPE) = 0
    PROVE  \E n \in Nat : m = n + SPE /\ (n % SPE) = 0
<1>1. SPE \in Nat /\ SPE >= 1
  BY Constants
<1>2. PICK q \in Nat : m = q * SPE
  <2>1. m = SPE * (m \div SPE) + (m % SPE)
    BY <1>1
  <2>2. m \div SPE \in Nat
    BY <1>1
  <2> QED BY <1>1, <2>1, <2>2
<1>3. q # 0
  BY <1>1, <1>2
<1>4. PICK p \in Nat : q = p + 1
  <2>1. q - 1 \in Nat /\ q = (q - 1) + 1
    BY <1>3
  <2> QED BY <2>1
<1>5. m = p * SPE + SPE
  BY <1>1, <1>2, <1>4
<1>6. p * SPE \in Nat /\ ((p * SPE) % SPE) = 0
  BY <1>1
<1> QED BY <1>5, <1>6

\* A table that is stretched by entries e.
Longer(t, u, e) ==
    /\ u \in Seq(Entries) /\ Len(u) = Len(t) + SPE
    /\ \A j \in 1 .. Len(t) : u[j] = t[j]
    /\ \A j \in Len(t) + 1 .. Len(u) : u[j] = e

\* It holds what the cluster held.
LEMMA StretchedIs ==
    ASSUME Types, Agree, Stretch
    PROVE  disk' = tbl' /\ \E e \in Entries : Stale(e) /\ Longer(tbl, tbl', e)
<1>1. PICK e \in {End, Sfn(call.short, Ghost)} :
         LET old == [i \in 1 .. SPE |-> e] IN tbl' = tbl \o old /\ disk' = Flushed \o old
  BY DEF Stretch
<1> DEFINE old == [i \in 1 .. SPE |-> e]
<1>2. tbl' = tbl \o old /\ disk' = tbl \o old
  BY <1>1, FlushedIs
<1>3. SPE \in Nat /\ tbl \in Seq(Entries) /\ Len(tbl) \in Nat
  BY Constants DEF Types
<1>4. e \in Entries /\ Stale(e)
  <2>1. CASE e = End
    BY <2>1, FreeWritten DEF Stale
  <2>2. CASE e = Sfn(call.short, Ghost)
    <3>1. call.short \in Shorts
      BY CallIs DEF Stretch, Types
    <3>2. IsSfn(e, call.short, Ghost)
      BY <2>2, <3>1, SfnWritten
    <3> QED BY <3>2 DEF IsSfn, Stale
  <2> QED BY <2>1, <2>2
<1>5. old \in Seq(Entries) /\ Len(old) = SPE /\ \A j \in 1 .. SPE : old[j] = e
  <2>1. old \in [1 .. SPE -> Entries] /\ DOMAIN old = 1 .. SPE /\ \A j \in 1 .. SPE : old[j] = e
    BY <1>4
  <2>2. old \in Seq(Entries)
    BY <1>3, <2>1, SeqDef
  <2> HIDE DEF old
  <2> QED BY <1>3, <2>1, <2>2, LenProperties
<1> HIDE DEF old
<1>6. /\ tbl \o old \in Seq(Entries) /\ Len(tbl \o old) = Len(tbl) + SPE
      /\ \A j \in 1 .. Len(tbl) + SPE :
            (tbl \o old)[j] = IF j <= Len(tbl) THEN tbl[j] ELSE old[j - Len(tbl)]
  BY <1>3, <1>5, ConcatProperties
<1>7. ASSUME NEW j \in 1 .. Len(tbl)  PROVE tbl'[j] = tbl[j]
  <2>1. j \in 1 .. Len(tbl) + SPE /\ j <= Len(tbl)
    BY <1>3
  <2> QED BY <1>2, <1>6, <2>1
<1>8. ASSUME NEW j \in Len(tbl) + 1 .. Len(tbl) + SPE  PROVE tbl'[j] = e
  <2>1. j \in 1 .. Len(tbl) + SPE /\ ~ (j <= Len(tbl))
    BY <1>3
  <2>2. PICK k \in 1 .. SPE : k = j - Len(tbl)
    BY <1>3
  <2> QED BY <1>2, <1>5, <1>6, <2>1, <2>2
<1> QED BY <1>2, <1>4, <1>6, <1>7, <1>8 DEF Longer

\* A table whose entries behind n are cleared.
Shorter(t, u, n) ==
    /\ n \in Nat /\ n + SPE = Len(t) /\ (n % SPE) = 0
    /\ u \in Seq(Entries) /\ Len(u) = Len(t)
    /\ \A j \in 1 .. n : u[j] = t[j]
    /\ \A j \in n + 1 .. Len(t) : u[j] = End /\ SectorOf(j) = SectorOf(Len(t))

\* The last cluster is cleared.
ClearedOf(t) == [i \in 1 .. Len(t) |-> IF SectorOf(i) = SectorOf(Len(t)) THEN End ELSE t[i]]

\* And no other one.
LEMMA ClearedOfIs ==
    ASSUME NEW t \in Seq(Entries), Len(t) \in Nat \ {0}, (Len(t) % SPE) = 0
    PROVE  \E n \in Nat : Shorter(t, ClearedOf(t), n)
<1>1. SPE \in Nat /\ SPE >= 1 /\ Len(t) \in Nat
  BY Constants
<1>2. PICK n \in Nat : Len(t) = n + SPE /\ (n % SPE) = 0
  BY SectorsLess
<1>3. ASSUME NEW j \in 1 .. Len(t)  PROVE SectorOf(j) = SectorOf(Len(t)) <=> j > n
  <2>1. j \in 1 .. n + SPE
    BY <1>2
  <2> QED BY <1>2, <2>1, LastSector
<1>4. ClearedOf(t) = [i \in 1 .. Len(t) |-> IF i > n THEN End ELSE t[i]]
  BY <1>3 DEF ClearedOf
<1>5. \A j \in 1 .. Len(t) : t[j] \in Entries
  BY <1>1, TableIs
<1>6. ClearedOf(t) \in [1 .. Len(t) -> Entries] /\ DOMAIN ClearedOf(t) = 1 .. Len(t)
  BY <1>4, <1>5, FreeWritten
<1>7. ClearedOf(t) \in Seq(Entries)
  BY <1>1, <1>6, SeqDef
<1>8. Len(ClearedOf(t)) = Len(t)
  BY <1>1, <1>6, <1>7, LenProperties
<1>9. \A j \in 1 .. n : ClearedOf(t)[j] = t[j]
  BY <1>1, <1>2, <1>4
<1>10. \A j \in n + 1 .. Len(t) : ClearedOf(t)[j] = End /\ SectorOf(j) = SectorOf(Len(t))
  BY <1>1, <1>2, <1>3, <1>4
<1> QED BY <1>2, <1>7, <1>8, <1>9, <1>10 DEF Shorter

\* Clear and ClearFails do so.
LEMMA ClearedIs ==
    ASSUME Types
    PROVE  \E n \in Nat : Shorter(tbl, Cleared, n)
<1>1. tbl \in Seq(Entries) /\ Len(tbl) \in Nat \ {0} /\ (Len(tbl) % SPE) = 0
  BY DEF Types
<1>2. Cleared = ClearedOf(tbl)
  BY DEF Cleared, ClearedOf
<1> QED BY <1>1, <1>2, ClearedOfIs

\* Clearing takes away nothing but what was stale.
LEMMA ClearKeeps ==
    ASSUME Basic, call.op = "clear"
    PROVE  /\ Keeps(tbl, Cleared, Ids) /\ Keeps(Cleared, tbl, Ids)
           /\ NoNew(tbl, Cleared)
<1>1. PICK n \in Nat : Shorter(tbl, Cleared, n)
  BY ClearedIs DEF Basic
<1>2. tbl \in Seq(Entries) /\ Len(tbl) \in Nat
  BY DEF Basic, Types
<1>3. /\ n + SPE = Len(tbl) /\ Cleared \in Seq(Entries) /\ Len(Cleared) = Len(tbl)
      /\ \A j \in 1 .. n : Cleared[j] = tbl[j]
      /\ \A j \in n + 1 .. Len(tbl) : Cleared[j] = End /\ SectorOf(j) = SectorOf(Len(tbl))
  BY <1>1 DEF Shorter
<1>4. SPE \in Nat /\ n <= Len(tbl) /\ n <= Len(Cleared)
  BY <1>3, Constants
<1>5. \A j \in n + 1 .. Len(Cleared) : Cleared[j].kind # "sfn"
  BY <1>3 DEF End
<1>6. ASSUME NEW j \in n + 1 .. Len(tbl), tbl[j].kind = "sfn"  PROVE tbl[j].id \notin Ids
  <2>1. j \in 1 .. Len(tbl)
    BY <1>2, <1>4
  <2>2. Stale(tbl[j])
    BY <1>3, <2>1 DEF Basic, ClearFits
  <2> QED BY <1>6, <2>2, Constants DEF Stale
<1>7. Keeps(tbl, Cleared, Ids)
  BY <1>2, <1>3, <1>4, <1>6, PrefixKeeps
<1>8. Keeps(Cleared, tbl, Ids)
  BY <1>2, <1>3, <1>4, <1>5, PrefixKeeps
<1>9. NoNew(tbl, Cleared)
  <2> SUFFICES ASSUME NEW j \in 1 .. Len(Cleared), Cleared[j].kind = "sfn"
               PROVE  j \in 1 .. Len(tbl) /\ Cleared[j] = tbl[j]
    BY DEF NoNew
  <2>1. j \notin n + 1 .. Len(Cleared)
    BY <1>5
  <2>2. j \in 1 .. n
    BY <1>2, <1>3, <1>4, <2>1
  <2> QED BY <1>3, <2>2
<1> QED BY <1>7, <1>8, <1>9

\* Stretching brings nothing but what is stale.
LEMMA StretchKeeps ==
    ASSUME Basic, Stretch
    PROVE  Keeps(tbl, tbl', Ids) /\ Keeps(tbl', tbl, Ids) /\ NoNew(tbl, tbl')
<1>1. PICK e \in Entries : Stale(e) /\ Longer(tbl, tbl', e)
  BY StretchedIs DEF Basic
<1>2. tbl \in Seq(Entries) /\ Len(tbl) \in Nat
  BY DEF Basic, Types
<1>3. /\ tbl' \in Seq(Entries) /\ Len(tbl') = Len(tbl) + SPE
      /\ \A j \in 1 .. Len(tbl) : tbl'[j] = tbl[j]
      /\ \A j \in Len(tbl) + 1 .. Len(tbl') : tbl'[j] = e
  BY <1>1 DEF Longer
<1>4. SPE \in Nat /\ Len(tbl) <= Len(tbl) /\ Len(tbl) <= Len(tbl')
  BY <1>2, <1>3, Constants
<1>5. \A j \in Len(tbl) + 1 .. Len(tbl) : FALSE
  BY <1>2
<1>6. ASSUME NEW j \in Len(tbl) + 1 .. Len(tbl'), tbl'[j].kind = "sfn"  PROVE tbl'[j].id \notin Ids
  <2>1. Stale(tbl'[j])
    BY <1>1, <1>3
  <2> QED BY <1>6, <2>1, Constants DEF Stale
<1>7. Keeps(tbl, tbl', Ids)
  BY <1>2, <1>3, <1>4, <1>5, PrefixKeeps
<1>8. Keeps(tbl', tbl, Ids)
  BY <1>2, <1>3, <1>4, <1>6, PrefixKeeps
<1>9. NoNew(tbl, tbl')
  <2> SUFFICES ASSUME NEW j \in 1 .. Len(tbl'), tbl'[j].kind = "sfn", tbl'[j].id \in Ids
               PROVE  j \in 1 .. Len(tbl) /\ tbl'[j] = tbl[j]
    BY DEF NoNew
  <2>1. j \notin Len(tbl) + 1 .. Len(tbl')
    BY <1>6
  <2>2. j \in 1 .. Len(tbl)
    BY <1>2, <1>3, <1>4, <2>1
  <2> QED BY <1>3, <2>2
<1> QED BY <1>7, <1>8, <1>9

\* Stretch keeps the invariant.
LEMMA BasicStretch ==
    ASSUME Basic, Stretch
    PROVE  Basic'
<1>1. /\ call.op = "link" /\ dirty' = 0 /\ call' = [call EXCEPT !.op = "clear"]
      /\ UNCHANGED <<walk, torn>>
  BY DEF Stretch
<1>2. PICK e \in Entries : Stale(e) /\ Longer(tbl, tbl', e)
  BY StretchedIs DEF Basic
<1>3. disk' = tbl'
  BY StretchedIs DEF Basic
<1>4. /\ tbl' \in Seq(Entries) /\ Len(tbl') = Len(tbl) + SPE
      /\ \A j \in Len(tbl) + 1 .. Len(tbl') : tbl'[j] = e
  BY <1>2 DEF Longer
<1>5. Keeps(tbl, tbl', Ids) /\ NoNew(tbl, tbl')
  BY StretchKeeps
<1>6. Len(tbl) \in Nat \ {0} /\ (Len(tbl) % SPE) = 0 /\ SPE \in Nat /\ SPE >= 1
  BY Constants DEF Basic, Types
<1>7. Len(tbl') \in Nat \ {0} /\ (Len(tbl') % SPE) = 0
  BY <1>4, <1>6, SectorsMore
<1>8. PICK n \in Names, short \in Shorts, id \in Ids :
         call = [op |-> "link", name |-> n, short |-> short, id |-> id]
  BY <1>1 DEF Basic, Types, Calls
<1>9. call' = [op |-> "clear", name |-> n, short |-> short, id |-> id]
  BY <1>1, <1>8
<1>10. call' \in Calls /\ call'.op = "clear"
  BY <1>9 DEF Calls
<1>11. Types'
  BY <1>1, <1>3, <1>4, <1>7, <1>10 DEF Basic, Types
<1>12. Agree'
  BY <1>3 DEF Agree
<1>13. Unique(tbl)' /\ Unique(disk)'
  <2>1. Unique(tbl')
    BY <1>5, NoNewUnique DEF Basic
  <2> QED BY <1>3, <2>1
<1>14. NewObject'
  <2>1. id \notin Held(tbl) /\ (n.loss = TRUE \/ short = n.short)
    BY <1>1, <1>8 DEF Basic, NewObject, Registering
  <2>2. id \notin Held(tbl')
    BY <1>5, <2>1, NoNewUnique
  <2>3. call'.id = id /\ call'.name = n /\ call'.short = short
    BY <1>9
  <2> QED BY <2>1, <2>2, <2>3 DEF NewObject
<1>15. StoreFits' /\ MarkFits'
  BY <1>10 DEF StoreFits, MarkFits
<1>16. ClearFits'
  <2> SUFFICES ASSUME NEW i \in 1 .. Len(tbl'), SectorOf(i) = SectorOf(Len(tbl'))
               PROVE  Stale(tbl'[i])
    BY <1>1 DEF ClearFits
  <2>1. i \in 1 .. Len(tbl) + SPE /\ SectorOf(i) = SectorOf(Len(tbl) + SPE)
    BY <1>4
  <2>2. i > Len(tbl)
    BY <1>6, <2>1, LastSector
  <2>3. i \in Len(tbl) + 1 .. Len(tbl')
    BY <1>4, <1>6, <2>1, <2>2
  <2> QED BY <1>2, <1>4, <2>3
<1>17. Walking'
  <2>1. walk.stay \subseteq Ids
    BY DEF Basic, Types, Walks
  <2> QED BY <1>1, <1>5, <2>1, WalkKept DEF Basic
<1> QED BY <1>11, <1>12, <1>13, <1>14, <1>15, <1>16, <1>17 DEF Basic

\* Clear keeps it.
LEMMA BasicClear ==
    ASSUME Basic, Clear
    PROVE  Basic'
<1>1. /\ call.op = "clear" /\ tbl' = Cleared /\ disk' = Cleared
      /\ Storing(call.name, call.short, call.id) /\ UNCHANGED <<dirty, walk, torn>>
  BY DEF Clear
<1>2. PICK n \in Nat : Shorter(tbl, Cleared, n)
  BY ClearedIs DEF Basic
<1>3. Cleared \in Seq(Entries) /\ Len(Cleared) = Len(tbl)
  BY <1>2 DEF Shorter
<1>4. Keeps(tbl, Cleared, Ids) /\ NoNew(tbl, Cleared)
  BY <1>1, ClearKeeps
<1>5. call.name \in Names /\ call.short \in Shorts /\ call.id \in Ids
  BY <1>1, CallIs DEF Basic, Types
<1>6. call.id \notin Held(tbl) /\ (call.name.loss = TRUE \/ call.short = call.name.short)
  BY <1>1 DEF Basic, NewObject, Registering
<1>7. call.id \notin Held(tbl')
  BY <1>1, <1>4, <1>5, <1>6, NoNewUnique
<1>8. /\ call' \in Calls /\ NewObject' /\ StoreFits' /\ MarkFits' /\ ClearFits'
  <2> DEFINE m == call.name
             short == call.short
             id == call.id
  <2>1. Chosen(tbl', call', m, short, id)
    BY <1>1, StoringIs
  <2>2. m \in Names /\ short \in Shorts /\ id \in Ids /\ tbl' \in Seq(Entries) /\ id \notin Held(tbl')
        /\ (m.loss = TRUE \/ short = m.short)
    BY <1>1, <1>3, <1>5, <1>6, <1>7
  <2> HIDE DEF m, short, id
  <2> QED BY <2>1, <2>2, ChosenBasic
<1>9. dirty = 0
  BY <1>1 DEF Basic, ClearFits
<1>10. Types'
  BY <1>1, <1>3, <1>8 DEF Basic, Types
<1>11. Agree'
  BY <1>1 DEF Agree
<1>12. Unique(tbl)' /\ Unique(disk)'
  <2>1. Unique(Cleared)
    BY <1>4, NoNewUnique DEF Basic
  <2> QED BY <1>1, <2>1
<1>13. Walking'
  <2>1. walk.stay \subseteq Ids
    BY DEF Basic, Types, Walks
  <2> QED BY <1>1, <1>4, <2>1, WalkKept DEF Basic
<1> QED BY <1>8, <1>10, <1>11, <1>12, <1>13 DEF Basic

\* ClearFails keeps it.
LEMMA BasicClearFails ==
    ASSUME Basic, ClearFails
    PROVE  Basic'
<1>1. /\ call.op = "clear" /\ call' = Idle /\ torn' = "cluster" /\ UNCHANGED <<disk, walk>>
      /\ \/ UNCHANGED <<tbl, dirty>>
         \/ tbl' = Cleared /\ dirty' = SectorOf(Len(tbl))
  BY DEF ClearFails
<1>2. dirty = 0 /\ disk = tbl
  BY <1>1 DEF Basic, ClearFits, Agree
<1>3. NewObject' /\ StoreFits' /\ MarkFits' /\ ClearFits'
  BY <1>1, CallsMade DEF NewObject, StoreFits, MarkFits, ClearFits, Registering
<1>4. CASE UNCHANGED <<tbl, dirty>>
  BY <1>1, <1>3, <1>4, CallsMade DEF Basic, Types, Agree, Unique, Walking, Stays
<1>5. CASE tbl' = Cleared /\ dirty' = SectorOf(Len(tbl))
  <2>1. PICK n \in Nat : Shorter(tbl, Cleared, n)
    BY ClearedIs DEF Basic
  <2>2. /\ n + SPE = Len(tbl) /\ Cleared \in Seq(Entries) /\ Len(Cleared) = Len(tbl)
        /\ \A j \in 1 .. n : Cleared[j] = tbl[j]
        /\ \A j \in n + 1 .. Len(tbl) : Cleared[j] = End /\ SectorOf(j) = SectorOf(Len(tbl))
    BY <2>1 DEF Shorter
  <2>3. Keeps(tbl, Cleared, Ids) /\ NoNew(tbl, Cleared)
    BY <1>1, ClearKeeps
  <2>4. Len(tbl) \in Nat /\ Len(tbl) >= 1
    <3>1. Len(tbl) \in Nat \ {0}
      BY DEF Basic, Types
    <3> QED BY <3>1
  <2>5. SectorOf(Len(tbl)) \in Nat /\ SectorOf(Len(tbl)) >= 1
    BY <2>4, SectorIs
  <2>6. Types'
    BY <1>1, <1>5, <2>2, <2>5, CallsMade DEF Basic, Types
  <2>7. Agree'
    <3>1. ASSUME NEW i \in 1 .. Len(tbl), i \notin InSector(SectorOf(Len(tbl)))
          PROVE  tbl[i] = Cleared[i]
      <4>1. i \in InSector(SectorOf(i))
        BY <2>4, SectorIs
      <4>2. i \notin n + 1 .. Len(tbl)
        BY <2>2, <3>1, <4>1
      <4>3. i \in 1 .. n
        BY <2>4, <4>2
      <4> QED BY <2>2, <4>3
    <3> QED BY <1>1, <1>2, <1>5, <2>2, <2>5, <3>1 DEF Agree
  <2>8. Unique(tbl)' /\ Unique(disk)'
    <3>1. Unique(Cleared) /\ Unique(disk)
      BY <2>3, NoNewUnique DEF Basic
    <3> QED BY <1>1, <1>5, <3>1
  <2>9. Walking'
    <3>1. walk.stay \subseteq Ids
      BY DEF Basic, Types, Walks
    <3> QED BY <1>1, <1>5, <2>3, <3>1, WalkKept DEF Basic
  <2> QED BY <1>3, <2>6, <2>7, <2>8, <2>9 DEF Basic
<1> QED BY <1>1, <1>4, <1>5

\* What is stored next: the short entry, or a part of the long name.
LEMMA NextEntryIs ==
    ASSUME Basic, call.op = "store"
    PROVE  /\ call.at = call.to => IsSfn(NextEntry, call.short, call.id)
           /\ call.at # call.to =>
                 /\ call.name.lfn = TRUE
                 /\ \E o \in 1 .. 254, last \in BOOLEAN :
                       /\ o = call.to - call.at /\ o <= Len(call.name.segs)
                       /\ last = (o = Len(call.name.segs))
                       /\ IsLfn(NextEntry, call.name.segs[o], o, last, Sum[call.short])
<1>1. call.name \in Names /\ call.short \in Shorts /\ call.id \in Ids /\ call.at \in Nat /\ call.to \in Nat
  BY CallIs DEF Basic, Types
<1>2. First <= call.at /\ call.at <= call.to
  BY DEF Basic, StoreFits
<1>3. PICK k \in 1 .. 255 : k = NEnt(call.name)
  BY <1>1, NEntIs
<1>4. PICK o \in Nat : o = call.to - call.at
  BY <1>1, <1>2
<1>5. o <= k - 1
  BY <1>1, <1>2, <1>3, <1>4 DEF First
<1>6. ASSUME call.at = call.to  PROVE IsSfn(NextEntry, call.short, call.id)
  <2>1. o = 0
    BY <1>1, <1>4, <1>6
  <2>2. NextEntry = Sfn(call.short, call.id)
    BY <1>4, <2>1 DEF NextEntry
  <2> QED BY <1>1, <2>2, SfnWritten
<1>7. ASSUME call.at # call.to
      PROVE  /\ call.name.lfn = TRUE
             /\ \E p \in 1 .. 254, last \in BOOLEAN :
                   /\ p = call.to - call.at /\ p <= Len(call.name.segs)
                   /\ last = (p = Len(call.name.segs))
                   /\ IsLfn(NextEntry, call.name.segs[p], p, last, Sum[call.short])
  <2>1. o # 0 /\ o \in 1 .. 254
    BY <1>1, <1>4, <1>5, <1>7
  <2>2. k # 1
    BY <1>5, <2>1
  <2>3. call.name.lfn = TRUE
    BY <1>1, <1>3, <2>2, NameType, NEntIs
  <2>4. PICK L \in 1 .. 254 : L = Len(call.name.segs)
    BY <1>1, NameLen
  <2>5. k = L + 1
    BY <1>1, <1>3, <2>3, <2>4, NEntIs
  <2>6. o \in 1 .. L
    BY <1>5, <2>1, <2>5
  <2>7. call.name.segs[o] \in Segs
    <3>1. call.name.segs \in Seq(Segs)
      BY <1>1, NameType
    <3> QED BY <2>4, <2>6, <3>1, ElementOfSeq
  <2>8. PICK last \in BOOLEAN : last = (o = L)
    OBVIOUS
  <2>9. NextEntry = Lfn(call.name.segs[o], o, last, Sum[call.short])
    BY <1>4, <2>1, <2>4, <2>8 DEF NextEntry
  <2>10. IsLfn(NextEntry, call.name.segs[o], o, last, Sum[call.short])
    <3>1. PICK seg \in Segs, short \in Shorts : seg = call.name.segs[o] /\ short = call.short
      BY <1>1, <2>7
    <3>2. PICK q \in 1 .. 254 : q = o
      BY <2>1
    <3>3. NextEntry = Lfn(seg, q, last, Sum[short])
      BY <2>9, <3>1, <3>2
    <3>4. IsLfn(NextEntry, seg, q, last, Sum[short])
      BY <3>3, LfnWritten
    <3> QED BY <3>1, <3>2, <3>4
  <2>11. o = call.to - call.at /\ o <= Len(call.name.segs) /\ last = (o = Len(call.name.segs))
    <3>1. o = call.to - call.at /\ o <= Len(call.name.segs)
      <4>1. o <= L
        BY <2>6
      <4> QED BY <1>4, <2>4, <4>1
    <3>2. last = (o = Len(call.name.segs))
      BY <2>4, <2>8
    <3> QED BY <3>1, <3>2
  <2> QED BY <2>1, <2>3, <2>10, <2>11
<1> QED BY <1>6, <1>7

\* A step that writes an entry of a name.
PutStep(e) ==
    /\ call.op \in {"store", "mark"} /\ Put(call.at, e)
    /\ call' = IF call.at = call.to THEN Idle ELSE [call EXCEPT !.at = @ + 1]
    /\ UNCHANGED <<walk, torn>>

\* What holds of the entries of both.
LEMMA PutTypes ==
    ASSUME Basic, NEW e \in Entries, PutStep(e)
    PROVE  /\ call.at \in 1 .. Len(tbl) /\ call.to \in call.at .. Len(tbl)
           /\ Len(tbl) \in Nat /\ call.at \in Nat /\ call.to \in Nat
           /\ tbl' \in Seq(Entries) /\ Len(tbl') = Len(tbl) /\ tbl'[call.at] = e
           /\ \A j \in 1 .. Len(tbl) : j # call.at => tbl'[j] = tbl[j]
           /\ disk' = disk \/ disk' = tbl
           /\ IF call.at = call.to THEN call' = Idle
              ELSE /\ call'.op = call.op /\ call'.at = call.at + 1 /\ call'.to = call.to
                   /\ call'.id = call.id
                   /\ call.op = "store" => call'.name = call.name /\ call'.short = call.short
           /\ Types' /\ Agree' /\ Unique(disk)'
<1>1. call.at \in Nat /\ call.to \in Nat /\ call \in Calls /\ Len(tbl) \in Nat /\ Types /\ Agree
  BY CallIs DEF Basic, Types, PutStep
<1>2. 1 <= call.at /\ call.at <= call.to /\ call.to <= Len(tbl)
  <2>1. CASE call.op = "mark"
    BY <2>1 DEF Basic, MarkFits
  <2>2. CASE call.op = "store"
    <3>1. PICK k \in 1 .. 255 : k = NEnt(call.name)
      BY <1>1, <2>2, CallIs, NEntIs
    <3>2. 1 <= First /\ First <= call.at /\ call.at <= call.to /\ call.to <= Len(tbl)
      BY <2>2 DEF Basic, StoreFits
    <3> QED BY <1>1, <3>1, <3>2 DEF First
  <2> QED BY <2>1, <2>2 DEF PutStep
<1>3. call.at \in 1 .. Len(tbl) /\ call.to \in call.at .. Len(tbl)
  BY <1>1, <1>2
<1>4. /\ tbl' \in Seq(Entries) /\ Len(tbl') = Len(tbl) /\ tbl'[call.at] = e
      /\ \A j \in 1 .. Len(tbl) : j # call.at => tbl'[j] = tbl[j]
      /\ disk' = disk \/ disk' = tbl
      /\ dirty' \in Nat /\ Agree'
  BY <1>1, <1>3, PutIs DEF PutStep
<1>5. IF call.at = call.to THEN call' = Idle
      ELSE /\ call'.op = call.op /\ call'.at = call.at + 1 /\ call'.to = call.to
           /\ call'.id = call.id
           /\ call.op = "store" => call'.name = call.name /\ call'.short = call.short
  <2>1. CASE call.at = call.to
    BY <2>1 DEF PutStep
  <2>2. CASE call.at # call.to
    <3>1. call' = [call EXCEPT !.at = @ + 1]
      BY <2>2 DEF PutStep
    <3> QED BY <1>1, <2>2, <3>1, CallMoves DEF PutStep
  <2> QED BY <2>1, <2>2
<1>6. call' \in Calls
  <2>1. CASE call.at = call.to
    BY <2>1, CallsMade DEF PutStep
  <2>2. CASE call.at # call.to
    <3>1. call' = [call EXCEPT !.at = @ + 1]
      BY <2>2 DEF PutStep
    <3> QED BY <1>1, <2>2, <3>1, CallMoves DEF PutStep
  <2> QED BY <2>1, <2>2
<1>7. disk' \in Seq(Entries) /\ Len(disk') = Len(tbl)
  BY <1>1, <1>4 DEF Types
<1>8. Types'
  BY <1>1, <1>4, <1>6, <1>7 DEF Types, PutStep
<1>9. Unique(disk)'
  BY <1>4 DEF Basic, Unique
<1> QED BY <1>1, <1>3, <1>4, <1>5, <1>8, <1>9

\* The entry that a Store writes is of the call's object, and no end mark.
LEMMA StoreIs ==
    ASSUME Basic, Store
    PROVE  /\ NextEntry \in Entries /\ PutStep(NextEntry) /\ NextEntry.kind \in {"sfn", "lfn"}
           /\ NextEntry.kind = "sfn" <=> call.at = call.to
           /\ NextEntry.kind = "sfn" => NextEntry.id = call.id
<1>1. call.op = "store"
  BY DEF Store
<1>2. CASE call.at = call.to
  <2>1. IsSfn(NextEntry, call.short, call.id)
    BY <1>1, <1>2, NextEntryIs
  <2> QED BY <1>1, <1>2, <2>1 DEF IsSfn, Store, PutStep
<1>3. CASE call.at # call.to
  <2>1. PICK o \in 1 .. 254, last \in BOOLEAN :
           IsLfn(NextEntry, call.name.segs[o], o, last, Sum[call.short])
    BY <1>1, <1>3, NextEntryIs
  <2> QED BY <1>1, <1>3, <2>1 DEF IsLfn, Store, PutStep
<1> QED BY <1>2, <1>3

\* No other object is near what a Store or a Mark writes.
LEMMA StoreApart ==
    ASSUME Basic, Store
    PROVE  PutApart(tbl, tbl', call.at, call.to, Free) /\ PutApart(tbl', tbl, call.at, call.to, Free)
<1>1. /\ NextEntry \in Entries /\ PutStep(NextEntry) /\ NextEntry.kind \in {"sfn", "lfn"}
      /\ NextEntry.kind = "sfn" <=> call.at = call.to
      /\ NextEntry.kind = "sfn" => NextEntry.id = call.id
  BY StoreIs
<1>2. /\ call.at \in 1 .. Len(tbl) /\ call.to \in call.at .. Len(tbl)
      /\ Len(tbl) \in Nat /\ call.at \in Nat /\ call.to \in Nat
      /\ tbl' \in Seq(Entries) /\ Len(tbl') = Len(tbl) /\ tbl'[call.at] = NextEntry
      /\ \A j \in 1 .. Len(tbl) : j # call.at => tbl'[j] = tbl[j]
  BY <1>1, PutTypes
<1>3. call.op = "store" /\ call.id \notin Free
  BY DEF Store, Free, Own
<1>4. \A j \in call.at .. call.to : tbl[j].kind \in {"end", "del"}
  BY <1>3 DEF Basic, StoreFits
<1>5. /\ call.at \in call.at .. call.to /\ call.to \in call.at .. call.to
      /\ \A j \in call.at .. call.to : j \in 1 .. Len(tbl)
  BY <1>2
<1>6. tbl[call.to].kind # "lfn"
  BY <1>4, <1>5
<1>7. tbl'[call.to].kind # "lfn"
  <2>1. CASE call.to = call.at
    BY <1>1, <1>2, <2>1
  <2>2. CASE call.to # call.at
    BY <1>2, <1>5, <1>6, <2>2
  <2> QED BY <2>1, <2>2
<1>8. ASSUME NEW j \in call.at .. call.to  PROVE tbl[j].kind # "sfn"
  BY <1>4
<1>9. ASSUME NEW j \in call.at .. call.to, tbl'[j].kind = "sfn"  PROVE tbl'[j].id \notin Free
  <2>1. j = call.at
    BY <1>2, <1>5, <1>8, <1>9
  <2> QED BY <1>1, <1>2, <1>3, <1>9, <2>1
<1> QED BY <1>2, <1>5, <1>6, <1>7, <1>8, <1>9 DEF PutApart

\* Marking an entry leaves apart what lies outside the entries to be marked.
LEMMA MarkApart ==
    ASSUME Basic, Mark
    PROVE  PutApart(tbl, tbl', call.at, call.to, Free) /\ PutApart(tbl', tbl, call.at, call.to, Free)
<1>1. Del \in Entries /\ PutStep(Del) /\ Del.kind = "del"
  BY FreeWritten DEF Mark, PutStep
<1>2. /\ call.at \in 1 .. Len(tbl) /\ call.to \in call.at .. Len(tbl)
      /\ Len(tbl) \in Nat /\ call.at \in Nat /\ call.to \in Nat
      /\ tbl' \in Seq(Entries) /\ Len(tbl') = Len(tbl) /\ tbl'[call.at] = Del
      /\ \A j \in 1 .. Len(tbl) : j # call.at => tbl'[j] = tbl[j]
  BY <1>1, PutTypes
<1>3. call.op = "mark" /\ call.id \notin Free
  BY DEF Mark, Free, Own
<1>4. /\ tbl[call.to].kind = "sfn" /\ tbl[call.to].id = call.id
      /\ \A j \in call.at .. call.to - 1 : tbl[j].kind = "lfn"
  BY <1>3 DEF Basic, MarkFits
<1>5. /\ call.at \in call.at .. call.to /\ call.to \in call.at .. call.to
      /\ \A j \in call.at .. call.to : j \in 1 .. Len(tbl)
      /\ \A j \in call.at .. call.to : j = call.to \/ j \in call.at .. call.to - 1
  BY <1>2
<1>6. tbl'[call.to].kind # "lfn"
  <2>1. CASE call.to = call.at
    BY <1>1, <1>2, <2>1
  <2>2. CASE call.to # call.at
    BY <1>2, <1>4, <1>5, <2>2
  <2> QED BY <2>1, <2>2
<1>7. ASSUME NEW j \in call.at .. call.to, tbl[j].kind = "sfn"  PROVE tbl[j].id \notin Free
  <2>1. j = call.to
    BY <1>4, <1>5, <1>7
  <2> QED BY <1>3, <1>4, <2>1
<1>8. ASSUME NEW j \in call.at .. call.to, tbl'[j].kind = "sfn"  PROVE tbl'[j].id \notin Free
  <2>1. tbl'[j] = tbl[j]
    BY <1>1, <1>2, <1>5, <1>8
  <2> QED BY <1>7, <1>8, <2>1
<1> QED BY <1>2, <1>4, <1>5, <1>6, <1>7, <1>8 DEF PutApart

\* Store keeps the invariant.
LEMMA BasicStore ==
    ASSUME Basic, Store
    PROVE  Basic'
<1>1. /\ NextEntry \in Entries /\ PutStep(NextEntry) /\ NextEntry.kind \in {"sfn", "lfn"}
      /\ NextEntry.kind = "sfn" <=> call.at = call.to
      /\ NextEntry.kind = "sfn" => NextEntry.id = call.id
  BY StoreIs
<1>2. /\ call.at \in 1 .. Len(tbl) /\ call.to \in call.at .. Len(tbl)
      /\ Len(tbl) \in Nat /\ call.at \in Nat /\ call.to \in Nat
      /\ tbl' \in Seq(Entries) /\ Len(tbl') = Len(tbl) /\ tbl'[call.at] = NextEntry
      /\ \A j \in 1 .. Len(tbl) : j # call.at => tbl'[j] = tbl[j]
      /\ IF call.at = call.to THEN call' = Idle
         ELSE /\ call'.op = call.op /\ call'.at = call.at + 1 /\ call'.to = call.to
              /\ call'.id = call.id
              /\ call.op = "store" => call'.name = call.name /\ call'.short = call.short
      /\ Types' /\ Agree' /\ Unique(disk)'
  BY <1>1, PutTypes
<1>3. call.op = "store" /\ UNCHANGED walk
  BY DEF Store
<1>4. /\ call.id \notin Held(tbl) /\ (call.name.loss = TRUE \/ call.short = call.name.short)
      /\ 1 <= First /\ First <= call.at /\ \A j \in call.at .. call.to : tbl[j].kind \in {"end", "del"}
  BY <1>3 DEF Basic, NewObject, Registering, StoreFits
<1>5. Unique(tbl)'
  <2> SUFFICES ASSUME NEW i \in 1 .. Len(tbl), NEW j \in 1 .. Len(tbl),
                      tbl'[i].kind = "sfn", tbl'[j].kind = "sfn", tbl'[i].id = tbl'[j].id,
                      tbl'[i].id \in Ids
               PROVE  i = j
    BY <1>2 DEF Unique
  <2>1. ASSUME NEW k \in 1 .. Len(tbl), k # call.at, tbl[k].kind = "sfn"  PROVE tbl[k].id # call.id
    BY <1>4, <2>1 DEF Held
  <2>2. CASE i # call.at /\ j # call.at
    BY <1>2, <2>2 DEF Basic, Unique
  <2>3. CASE i = call.at /\ j # call.at
    BY <1>1, <1>2, <2>1, <2>3
  <2>4. CASE i # call.at /\ j = call.at
    BY <1>1, <1>2, <2>1, <2>4
  <2> QED BY <2>2, <2>3, <2>4
<1>6. Walking'
  <2>1. PutApart(tbl, tbl', call.at, call.to, Free)
    BY StoreApart
  <2>2. Keeps(tbl, tbl', Free)
    <3>1. tbl \in Seq(Entries) /\ tbl'[call.at].kind # "end"
      BY <1>1, <1>2 DEF Basic, Types
    <3> QED BY <1>2, <2>1, <3>1, PutKeeps
  <2> QED BY <1>3, <2>2, StayFree, WalkKept DEF Basic
<1>7. CASE call.at = call.to
  <2>1. call' = Idle
    BY <1>2, <1>7
  <2>2. NewObject' /\ StoreFits' /\ MarkFits' /\ ClearFits'
    BY <2>1, CallsMade DEF NewObject, StoreFits, MarkFits, ClearFits, Registering
  <2> QED BY <1>2, <1>5, <1>6, <2>2 DEF Basic
<1>8. CASE call.at # call.to
  <2>1. /\ call'.op = "store" /\ call'.at = call.at + 1 /\ call'.to = call.to /\ call'.id = call.id
        /\ call'.name = call.name /\ call'.short = call.short
    BY <1>2, <1>3, <1>8
  <2>2. call.id \notin Held(tbl')
    <3> SUFFICES ASSUME NEW i \in 1 .. Len(tbl), tbl'[i].kind = "sfn"  PROVE tbl'[i].id # call.id
      BY <1>2 DEF Held
    <3>1. i # call.at
      BY <1>1, <1>2, <1>8
    <3> QED BY <1>2, <1>4, <3>1 DEF Held
  <2>3. NewObject'
    BY <1>4, <2>1, <2>2 DEF NewObject
  <2>4. First' = First
    BY <2>1 DEF First
  <2>5. StoreFits'
    <3>1. PICK k \in 1 .. 255 : k = NEnt(call.name)
      BY <1>3, CallIs, NEntIs DEF Basic, Types
    <3>2. PICK f \in Int : f = First
      BY <1>2, <3>1 DEF First
    <3>3. 1 <= f /\ f <= call.at + 1 /\ call.at + 1 <= call.to /\ call.to <= Len(tbl)
      BY <1>2, <1>4, <1>8, <3>2
    <3>4. ASSUME NEW j \in call.at + 1 .. call.to  PROVE tbl'[j].kind \in {"end", "del"}
      <4>1. j \in call.at .. call.to /\ j \in 1 .. Len(tbl) /\ j # call.at
        BY <1>2
      <4> QED BY <1>2, <1>4, <4>1
    <3> QED BY <1>2, <2>1, <2>4, <3>2, <3>3, <3>4 DEF StoreFits
  <2>6. MarkFits' /\ ClearFits'
    BY <2>1 DEF MarkFits, ClearFits
  <2> QED BY <1>2, <1>5, <1>6, <2>3, <2>5, <2>6 DEF Basic
<1> QED BY <1>7, <1>8

\* Mark keeps it.
LEMMA BasicMark ==
    ASSUME Basic, Mark
    PROVE  Basic'
<1>1. Del \in Entries /\ PutStep(Del) /\ Del.kind = "del"
  BY FreeWritten DEF Mark, PutStep
<1>2. /\ call.at \in 1 .. Len(tbl) /\ call.to \in call.at .. Len(tbl)
      /\ Len(tbl) \in Nat /\ call.at \in Nat /\ call.to \in Nat
      /\ tbl' \in Seq(Entries) /\ Len(tbl') = Len(tbl) /\ tbl'[call.at] = Del
      /\ \A j \in 1 .. Len(tbl) : j # call.at => tbl'[j] = tbl[j]
      /\ IF call.at = call.to THEN call' = Idle
         ELSE /\ call'.op = call.op /\ call'.at = call.at + 1 /\ call'.to = call.to
              /\ call'.id = call.id
              /\ call.op = "store" => call'.name = call.name /\ call'.short = call.short
      /\ Types' /\ Agree' /\ Unique(disk)'
  BY <1>1, PutTypes
<1>3. call.op = "mark" /\ UNCHANGED walk
  BY DEF Mark
<1>4. /\ tbl[call.to].kind = "sfn" /\ tbl[call.to].id = call.id /\ call.id \notin walk.stay
      /\ \A j \in call.at .. call.to - 1 : tbl[j].kind = "lfn"
      /\ \A j \in 1 .. call.to : tbl[j].kind # "end"
  BY <1>3 DEF Basic, MarkFits
<1>5. Unique(tbl)'
  <2>1. NoNew(tbl, tbl')
    BY <1>1, <1>2 DEF NoNew
  <2> QED BY <2>1, NoNewUnique DEF Basic
<1>6. Walking'
  <2>1. PutApart(tbl, tbl', call.at, call.to, Free)
    BY MarkApart
  <2>2. Keeps(tbl, tbl', Free)
    <3>1. tbl \in Seq(Entries) /\ tbl'[call.at].kind # "end"
      BY <1>1, <1>2 DEF Basic, Types
    <3> QED BY <1>2, <2>1, <3>1, PutKeeps
  <2> QED BY <1>3, <2>2, StayFree, WalkKept DEF Basic
<1>7. CASE call.at = call.to
  <2>1. call' = Idle
    BY <1>2, <1>7
  <2>2. NewObject' /\ StoreFits' /\ MarkFits' /\ ClearFits'
    BY <2>1, CallsMade DEF NewObject, StoreFits, MarkFits, ClearFits, Registering
  <2> QED BY <1>2, <1>5, <1>6, <2>2 DEF Basic
<1>8. CASE call.at # call.to
  <2>1. call'.op = "mark" /\ call'.at = call.at + 1 /\ call'.to = call.to /\ call'.id = call.id
    BY <1>2, <1>3, <1>8
  <2>2. MarkFits'
    <3>1. 1 <= call.at + 1 /\ call.at + 1 <= call.to /\ call.to <= Len(tbl)
      BY <1>2, <1>8
    <3>2. tbl'[call.to] = tbl[call.to]
      BY <1>2, <1>8
    <3>3. ASSUME NEW j \in call.at + 1 .. call.to - 1  PROVE tbl'[j].kind = "lfn"
      <4>1. j \in call.at .. call.to - 1 /\ j \in 1 .. Len(tbl) /\ j # call.at
        BY <1>2
      <4> QED BY <1>2, <1>4, <4>1
    <3>4. ASSUME NEW j \in 1 .. call.to  PROVE tbl'[j].kind # "end"
      <4>1. j \in 1 .. Len(tbl)
        BY <1>2
      <4> QED BY <1>1, <1>2, <1>4, <4>1
    <3> QED BY <1>2, <1>3, <1>4, <2>1, <3>1, <3>2, <3>3, <3>4 DEF MarkFits
  <2>3. NewObject' /\ StoreFits' /\ ClearFits'
    BY <2>1 DEF NewObject, StoreFits, ClearFits, Registering
  <2> QED BY <1>2, <1>5, <1>6, <2>2, <2>3 DEF Basic
<1> QED BY <1>7, <1>8

\* It holds at first: a table of end marks.
LEMMA BasicInit ==
    ASSUME Init
    PROVE  Basic
<1>1. /\ tbl = [i \in 1 .. MinLen |-> End] /\ disk = tbl /\ dirty = 0
      /\ call = Idle /\ walk = NoWalk /\ torn = ""
  BY DEF Init
<1>2. MinLen \in Nat /\ (MinLen % SPE) = 0
  BY Constants
<1>3. tbl \in [1 .. MinLen -> Entries] /\ DOMAIN tbl = 1 .. MinLen /\ \A i \in 1 .. MinLen : tbl[i] = End
  BY <1>1, FreeWritten
<1>4. tbl \in Seq(Entries)
  BY <1>2, <1>3, SeqDef
<1>5. Len(tbl) = MinLen
  BY <1>2, <1>3, <1>4, LenProperties
<1>6. MinLen # 0
  BY SizeAssumption
<1>7. NoWalk \in Walks /\ NoWalk.stay = {} /\ NoWalk.at = 0
  BY DEF NoWalk, Walks
<1>8. Types
  BY <1>1, <1>2, <1>4, <1>5, <1>6, <1>7, CallsMade DEF Types
<1>9. Agree /\ Walking
  BY <1>1, <1>7 DEF Agree, Walking
<1>10. Unique(tbl) /\ Unique(disk)
  BY <1>1, <1>3, <1>5, FreeWritten DEF Unique
<1>11. NewObject /\ StoreFits /\ MarkFits /\ ClearFits
  BY <1>1, CallsMade DEF NewObject, StoreFits, MarkFits, ClearFits, Registering
<1> QED BY <1>8, <1>9, <1>10, <1>11 DEF Basic

\* Every step keeps it.
LEMMA BasicNext ==
    ASSUME Basic, [Next]_vars
    PROVE  Basic'
<1>1. CASE UNCHANGED vars
  <2>1. UNCHANGED tbl /\ UNCHANGED disk /\ UNCHANGED dirty /\ UNCHANGED call /\ UNCHANGED walk
        /\ UNCHANGED torn
    BY <1>1 DEF vars
  <2>2. Types' /\ Agree' /\ Unique(tbl)' /\ Unique(disk)'
    BY <2>1 DEF Basic, Types, Agree, Unique
  <2>3. NewObject' /\ StoreFits'
    BY <2>1 DEF Basic, NewObject, Registering, Held, StoreFits, First
  <2>4. MarkFits' /\ ClearFits' /\ Walking'
    BY <2>1 DEF Basic, MarkFits, ClearFits, Walking, Stays, Visible
  <2> QED BY <2>2, <2>3, <2>4 DEF Basic
<1>2. CASE Start
  BY <1>2, BasicRegister, BasicRemove, BasicWalk DEF Start
<1>3. CASE Stretch
  BY <1>3, BasicStretch
<1>4. CASE Clear
  BY <1>4, BasicClear
<1>5. CASE ClearFails
  BY <1>5, BasicClearFails
<1>6. CASE Store
  BY <1>6, BasicStore
<1>7. CASE Mark
  BY <1>7, BasicMark
<1>8. CASE StretchFails \/ AccessFails \/ Evict
  BY <1>8, BasicEnds
<1>9. CASE PowerCut
  BY <1>9, BasicCut
<1> QED BY <1>1, <1>2, <1>3, <1>4, <1>5, <1>6, <1>7, <1>8, <1>9 DEF Next

\* After any calls, errors and power cuts the table, the medium, the dirty sector, the
\* running call and the open DIR fit together.
THEOREM TableIsKnown == Spec => []Basic
<1>1. Init => Basic
  BY BasicInit
<1>2. Basic /\ [Next]_vars => Basic'
  BY BasicNext
<1> QED BY <1>1, <1>2, PTL DEF Spec
-----------------------------------------------------------------------------
(* A walk *)

\* Where a walk is, no object is returned twice.
LEMMA WalkOnce ==
    ASSUME Basic, NEW i \in Visible(tbl), walk.at <= i
    PROVE  tbl[i].id \notin walk.seen \cap walk.stay
<1> SUFFICES ASSUME tbl[i].id \in walk.seen, tbl[i].id \in walk.stay  PROVE FALSE
  OBVIOUS
<1>1. Stays(tbl, walk, tbl[i].id)
  BY DEF Basic, Walking
<1>2. PICK j \in Visible(tbl) : tbl[j].id = tbl[i].id /\ j < walk.at
  BY <1>1 DEF Stays
<1>3. tbl[i].id \in Ids /\ walk.at \in Nat /\ Len(tbl) \in Nat
  BY WalkIs DEF Basic, Types
<1>4. i \in 1 .. Len(tbl) /\ j \in 1 .. Len(tbl) /\ tbl[i].kind = "sfn" /\ tbl[j].kind = "sfn"
  BY DEF Visible
<1>5. i = j
  BY <1>2, <1>3, <1>4 DEF Basic, Unique
<1> QED BY <1>2, <1>3, <1>4, <1>5

\* At the end of the table each object that stayed has been returned.
LEMMA WalkAll ==
    ASSUME Basic, \A i \in Visible(tbl) : i < walk.at
    PROVE  walk.stay \subseteq walk.seen
<1> SUFFICES ASSUME NEW o \in walk.stay  PROVE o \in walk.seen
  OBVIOUS
<1> QED BY DEF Basic, Walking, Stays

\* A listing returns each object that is there all the time, and none twice,
\* although others come and go between two calls of dir_read.
THEOREM WalkMissesNone == Spec => WalkComplete
<1>1. Basic /\ [Next]_vars =>
         [/\ walk.at # 0 /\ walk' = NoWalk /\ torn' = torn => walk.stay \subseteq walk.seen
          /\ walk.at # 0 => \A i \in Visible(tbl) \cap (walk.at .. walk'.at - 1) :
                               tbl[i].id \notin walk.seen \cap walk.stay]_vars
  <2> SUFFICES ASSUME Basic, Next
               PROVE  /\ walk.at # 0 /\ walk' = NoWalk /\ torn' = torn => walk.stay \subseteq walk.seen
                      /\ walk.at # 0 => \A i \in Visible(tbl) \cap (walk.at .. walk'.at - 1) :
                                           tbl[i].id \notin walk.seen \cap walk.stay
    OBVIOUS
  <2>1. ASSUME walk.at # 0, NEW i \in Visible(tbl), i \in walk.at .. walk'.at - 1
        PROVE  tbl[i].id \notin walk.seen \cap walk.stay
    <3>1. walk.at <= i
      BY <2>1
    <3> QED BY <3>1, WalkOnce
  <2>2. ASSUME walk.at # 0, walk' = NoWalk, torn' = torn  PROVE walk.stay \subseteq walk.seen
    <3>1. walk' # walk
      BY <2>2 DEF NoWalk
    <3>2. CASE ReadDirEnds
      BY <3>2, WalkAll DEF ReadDirEnds
    <3>3. CASE OpenDir
      BY <2>2, <3>3 DEF OpenDir, NoWalk
    <3>4. ASSUME NEW j \in 1 .. MaxLen, ReadDir(j)  PROVE FALSE
      <4>1. walk' = [walk EXCEPT !.at = j + 1, !.seen = @ \cup {tbl[j].id}]
        BY <3>4 DEF ReadDir
      <4>2. walk = [at |-> walk.at, seen |-> walk.seen, stay |-> walk.stay]
        BY WalkIs DEF Basic, Types
      <4>3. walk'.at = j + 1
        BY <4>1, <4>2
      <4>4. j \in Nat
        BY SizeAssumption
      <4> QED BY <2>2, <4>3, <4>4 DEF NoWalk
    <3>5. ASSUME NEW nm \in Known, Remove(nm)  PROVE FALSE
      <4>1. PICK h : walk' = [walk EXCEPT !.stay = @ \ {tbl[h].id}]
        BY <3>5 DEF Remove
      <4>2. walk = [at |-> walk.at, seen |-> walk.seen, stay |-> walk.stay]
        BY WalkIs DEF Basic, Types
      <4>3. walk'.at = walk.at
        BY <4>1, <4>2
      <4> QED BY <2>2, <4>3 DEF NoWalk
    <3>6. CASE PowerCut
      BY <2>2, <3>6 DEF PowerCut, MayFail
    <3>7. CASE UNCHANGED walk
      BY <3>1, <3>7
    <3> QED BY <3>2, <3>3, <3>4, <3>5, <3>6, <3>7 DEF Next, Start, Register, Stretch, Clear, StretchFails,
               ClearFails, Store, Mark, AccessFails, Evict
  <2> QED BY <2>1, <2>2
<1> QED BY <1>1, TableIsKnown, PTL DEF Spec, WalkComplete
-----------------------------------------------------------------------------
(* A table whose clusters have all been cleared *)

\* What the table is when the new cluster is cleared.
Base == IF call.op = "clear" THEN Cleared ELSE tbl

\* End marks are at its end, and its short entries are those of objects, each with
\* a short name of its own.
NoGhost(t) == \A i \in 1 .. Len(t) : t[i].kind = "sfn" => t[i].id # Ghost
OwnShort(t) == \A i, j \in 1 .. Len(t) :
    t[i].kind = "sfn" /\ t[j].kind = "sfn" /\ t[i].short = t[j].short => i = j
Sound(t) == Ended(t) /\ NoGhost(t) /\ OwnShort(t)

\* No short entry has this short name.
Untaken(t, short) == \A i \in 1 .. Len(t) : t[i].kind = "sfn" => t[i].short # short

\* The entries are stored from behind the used ones.
Behind(t, at) == \A j \in 1 .. at - 1 : t[j].kind # "end"

\* While every linked cluster has been or will be cleared: table and medium are such
\* tables, the short name that is being registered is free, and it ends up visible.
Apart ==
    torn # "cluster" =>
       /\ Sound(Base) /\ (call.op # "clear" => Sound(disk))
       /\ Registering => Untaken(Base, call.short)
       /\ call.op = "store" => Behind(tbl, call.at)

\* Every short entry of such a table is visible.
LEMMA EndedVisible ==
    ASSUME NEW t \in Seq(Entries), Ended(t), NEW i \in 1 .. Len(t), t[i].kind = "sfn"
    PROVE  i \in Visible(t)
<1>1. Len(t) \in Nat
  BY TableIs
<1>2. ASSUME NEW j \in 1 .. i, t[j].kind = "end"  PROVE FALSE
  <2>1. j \in 1 .. Len(t) /\ j # i /\ j < i
    BY <1>1, <1>2
  <2> QED BY <1>2, <2>1 DEF Ended
<1> QED BY <1>2 DEF Visible

\* dir_alloc takes the first end marks at the latest.
LEMMA AllocatedFirst ==
    ASSUME NEW t \in Seq(Entries), Ended(t), NEW k \in 1 .. 255, NEW i \in Allocated(t, k)
    PROVE  Behind(t, i - k + 1)
<1>1. /\ i \in 1 .. Len(t) /\ i \in Nat /\ \A j \in 1 .. i - 1 : ~ Block(t, k, j)
      /\ Len(t) \in Nat
  BY AllocatedIs, TableIs
<1> SUFFICES ASSUME NEW j \in 1 .. (i - k + 1) - 1, t[j].kind = "end"  PROVE FALSE
  BY DEF Behind
<1>2. PICK x \in Nat : x = j + k - 1
  BY <1>1
<1>3. x \in 1 .. i - 1 /\ x >= k /\ j \in 1 .. Len(t)
  BY <1>1, <1>2
<1>4. ASSUME NEW y \in x - k + 1 .. x  PROVE IsFree(t[y])
  <2>1. y \in 1 .. Len(t) /\ (j = y \/ j < y)
    BY <1>1, <1>2, <1>3
  <2>2. t[y].kind = "end"
    BY <1>3, <2>1 DEF Ended
  <2> QED BY <2>2 DEF IsFree
<1>5. Block(t, k, x)
  BY <1>3, <1>4 DEF Block
<1> QED BY <1>1, <1>3, <1>5

\* A call that begins, or goes on, to register.
LEMMA ChosenApart ==
    ASSUME NEW n \in Names, NEW short \in Shorts, NEW id \in Ids,
           Chosen(tbl', call', n, short, id), tbl' \in Seq(Entries), Len(disk') = Len(tbl'),
           id \notin Held(tbl'), n.loss = TRUE \/ short = n.short,
           torn' # "cluster" => Sound(tbl') /\ Sound(disk') /\ Untaken(tbl', short)
    PROVE  Apart'
<1>1. /\ call' \in Calls /\ call'.op \in {"idle", "link", "store"}
      /\ call'.op # "idle" => call'.name = n /\ call'.short = short /\ call'.id = id
      /\ call'.op = "store" => First' = call'.at /\ call'.to \in Allocated(tbl', NEnt(n))
  BY ChosenBasic
<1> SUFFICES ASSUME torn' # "cluster"
             PROVE  /\ Sound(Base') /\ Sound(disk')
                    /\ Registering' => Untaken(Base', call'.short)
                    /\ call'.op = "store" => Behind(tbl', call'.at)
  BY <1>1 DEF Apart
<1>2. Base' = tbl'
  BY <1>1 DEF Base
<1>3. Registering' => Untaken(Base', call'.short)
  BY <1>1, <1>2 DEF Registering
<1>4. ASSUME call'.op = "store"  PROVE Behind(tbl', call'.at)
  <2>1. PICK k \in 1 .. 255 : k = NEnt(n)
    BY NEntIs
  <2>2. PICK i \in Allocated(tbl', k) : i = call'.to
    BY <1>1, <1>4, <2>1
  <2>3. call'.at = i - k + 1
    BY <1>1, <1>4, <2>1, <2>2 DEF First
  <2>4. Behind(tbl', i - k + 1)
    BY <2>2, AllocatedFirst DEF Sound
  <2> QED BY <2>3, <2>4
<1> QED BY <1>2, <1>3, <1>4

\* Register keeps them apart.
LEMMA ApartRegister ==
    ASSUME Basic, Apart, NEW nm \in Names, NEW id \in Ids, Register(nm, id)
    PROVE  Apart'
<1>1. /\ call = Idle /\ id \notin Held(tbl)
      /\ UNCHANGED <<tbl, disk, dirty, walk, torn>>
      /\ call' = Idle \/ \E short \in Shorts : Begins(nm, short, id)
  BY RegisterBegins DEF Basic
<1>2. call.op = "idle" /\ Base = tbl /\ tbl \in Seq(Entries) /\ Len(disk) = Len(tbl)
  BY <1>1, CallsMade DEF Base, Basic, Types
<1>3. torn # "cluster" => Sound(tbl) /\ Sound(disk)
  BY <1>2 DEF Apart
<1>4. CASE call' = Idle
  <2>1. call'.op = "idle" /\ Base' = tbl
    BY <1>1, <1>4, CallsMade DEF Base
  <2> QED BY <1>1, <1>3, <2>1 DEF Apart, Registering
<1>5. ASSUME NEW short \in Shorts, Begins(nm, short, id)  PROVE Apart'
  <2>1. Chosen(tbl', call', nm, short, id) /\ (nm.loss = TRUE \/ short = nm.short)
    BY <1>1, <1>5 DEF Begins
  <2>2. ASSUME torn # "cluster"  PROVE Untaken(tbl, short)
    <3>1. Ended(tbl)
      BY <1>3, <2>2 DEF Sound
    <3> QED BY <1>2, <1>5, <3>1, EndedVisible DEF Begins, Untaken
  <2>3. torn' # "cluster" => Sound(tbl') /\ Sound(disk') /\ Untaken(tbl', short)
    BY <1>1, <1>3, <2>2
  <2>4. tbl' \in Seq(Entries) /\ Len(disk') = Len(tbl') /\ id \notin Held(tbl')
    BY <1>1, <1>2
  <2> QED BY <2>1, <2>3, <2>4, ChosenApart
<1> QED BY <1>1, <1>4, <1>5

\* A step that leaves the table, and begins no registration.
LEMMA ApartStill ==
    ASSUME Apart, call.op # "clear", tbl' = tbl, disk' = disk \/ disk' = tbl,
           call'.op \in {"idle", "mark"}, torn' # "cluster" => torn # "cluster"
    PROVE  Apart'
<1>1. Base = tbl /\ Base' = tbl
  BY DEF Base
<1>2. torn # "cluster" => Sound(tbl) /\ Sound(disk)
  BY <1>1 DEF Apart
<1> QED BY <1>1, <1>2 DEF Apart, Registering

\* A stretched table, when it is cleared, is the one before with end marks behind it.
LEMMA StretchedBase ==
    ASSUME Basic, Stretch
    PROVE  Longer(tbl, Cleared', End)
<1>1. PICK e \in Entries : Longer(tbl, tbl', e)
  BY StretchedIs DEF Basic
<1>2. Basic'
  BY BasicStretch
<1>3. PICK n \in Nat : Shorter(tbl', ClearedOf(tbl'), n)
  BY <1>2, ClearedOfIs DEF Basic, Types
<1>4. Cleared' = ClearedOf(tbl')
  BY DEF Cleared, ClearedOf
<1>5. Len(tbl) \in Nat /\ SPE \in Nat /\ Len(tbl') = Len(tbl) + SPE
  BY <1>1, Constants DEF Basic, Types, Longer
<1>6. n = Len(tbl)
  BY <1>3, <1>5 DEF Shorter
<1> QED BY <1>1, <1>3, <1>4, <1>5, <1>6 DEF Shorter, Longer

\* What the call that stretched it goes on with.
LEMMA StretchedCall ==
    ASSUME Basic, Stretch
    PROVE  /\ call.op = "link" /\ call'.op = "clear" /\ call.name \in Names /\ call.short \in Shorts
           /\ call'.short = call.short /\ call'.name = call.name
<1>1. call.op = "link" /\ call' = [call EXCEPT !.op = "clear"]
  BY DEF Stretch
<1>2. PICK m \in Names, short \in Shorts, id \in Ids :
         call = [op |-> "link", name |-> m, short |-> short, id |-> id]
  BY <1>1 DEF Basic, Types, Calls
<1>3. call' = [op |-> "clear", name |-> m, short |-> short, id |-> id]
  BY <1>1, <1>2
<1> QED BY <1>2, <1>3

\* The objects and short names stay apart in it.
LEMMA ApartStretch ==
    ASSUME Basic, Apart, Stretch
    PROVE  Apart'
<1>1. call.op = "link" /\ UNCHANGED torn
  BY DEF Stretch
<1>2. Longer(tbl, Cleared', End)
  BY StretchedBase
<1>6. PICK u \in Seq(Entries) : u = Cleared'
  BY <1>2 DEF Longer
<1>7. Len(tbl) \in Nat /\ SPE \in Nat
  BY Constants DEF Basic, Types
<1>9. /\ Len(u) = Len(tbl) + SPE
      /\ \A j \in 1 .. Len(tbl) : u[j] = tbl[j]
      /\ \A j \in Len(tbl) + 1 .. Len(u) : u[j] = End
  BY <1>2, <1>6 DEF Longer
<1>10. call.short \in Shorts /\ call'.op = "clear" /\ call'.short = call.short
  BY StretchedCall
<1> SUFFICES ASSUME torn # "cluster"  PROVE Sound(u) /\ Untaken(u, call.short)
  BY <1>1, <1>6, <1>10 DEF Apart, Base, Registering
<1>11. Sound(tbl) /\ Untaken(tbl, call.short)
  BY <1>1 DEF Apart, Base, Registering
<1>12. ASSUME NEW i \in 1 .. Len(u), u[i].kind # "end"  PROVE i \in 1 .. Len(tbl) /\ u[i] = tbl[i]
  <2>1. i \notin Len(tbl) + 1 .. Len(u)
    BY <1>9, <1>12, FreeWritten
  <2>2. i \in 1 .. Len(tbl)
    BY <1>7, <1>9, <2>1
  <2> QED BY <1>9, <2>2
<1>13. Ended(u)
  <2> SUFFICES ASSUME NEW i \in 1 .. Len(u), NEW j \in 1 .. Len(u), i < j, u[i].kind = "end",
                      u[j].kind # "end"
               PROVE  FALSE
    BY DEF Ended
  <2>1. j \in 1 .. Len(tbl) /\ u[j] = tbl[j]
    BY <1>12
  <2>2. i \in 1 .. Len(tbl)
    BY <1>7, <2>1
  <2>3. tbl[i].kind = "end"
    BY <1>9, <2>2
  <2> QED BY <1>11, <2>1, <2>2, <2>3 DEF Sound, Ended
<1>14. NoGhost(u) /\ OwnShort(u) /\ Untaken(u, call.short)
  BY <1>11, <1>12 DEF Sound, NoGhost, OwnShort, Untaken
<1> QED BY <1>13, <1>14 DEF Sound

\* Clear keeps them apart.
LEMMA ApartClear ==
    ASSUME Basic, Apart, Clear
    PROVE  Apart'
<1>1. /\ call.op = "clear" /\ tbl' = Cleared /\ disk' = Cleared
      /\ Storing(call.name, call.short, call.id) /\ UNCHANGED torn
  BY DEF Clear
<1>2. PICK n \in Nat : Shorter(tbl, Cleared, n)
  BY ClearedIs DEF Basic
<1>3. tbl' \in Seq(Entries) /\ Len(disk') = Len(tbl') /\ NoNew(tbl, Cleared)
  BY <1>1, <1>2, ClearKeeps DEF Shorter
<1>4. call.name \in Names /\ call.short \in Shorts /\ call.id \in Ids
  BY <1>1, CallIs DEF Basic, Types
<1>5. call.id \notin Held(tbl) /\ (call.name.loss = TRUE \/ call.short = call.name.short)
  BY <1>1 DEF Basic, NewObject, Registering
<1>6. call.id \notin Held(tbl')
  BY <1>1, <1>3, <1>4, <1>5, NoNewUnique
<1>7. torn' # "cluster" => Sound(tbl') /\ Sound(disk') /\ Untaken(tbl', call.short)
  BY <1>1 DEF Apart, Base, Registering
<1> DEFINE m == call.name
           short == call.short
           id == call.id
<1>8. Chosen(tbl', call', m, short, id)
  BY <1>1, StoringIs
<1>9. m \in Names /\ short \in Shorts /\ id \in Ids /\ id \notin Held(tbl')
      /\ (m.loss = TRUE \/ short = m.short)
      /\ (torn' # "cluster" => Sound(tbl') /\ Sound(disk') /\ Untaken(tbl', short))
  BY <1>4, <1>5, <1>6, <1>7
<1> HIDE DEF m, short, id
<1> QED BY <1>3, <1>8, <1>9, ChosenApart

\* A Store in a table whose clusters have all been cleared.
LEMMA ApartStore ==
    ASSUME Basic, Apart, Store
    PROVE  Apart'
<1>1. /\ NextEntry \in Entries /\ PutStep(NextEntry) /\ NextEntry.kind \in {"sfn", "lfn"}
      /\ NextEntry.kind = "sfn" <=> call.at = call.to
      /\ NextEntry.kind = "sfn" => NextEntry.id = call.id
  BY StoreIs
<1>2. /\ call.at \in 1 .. Len(tbl) /\ call.to \in call.at .. Len(tbl)
      /\ Len(tbl) \in Nat /\ call.at \in Nat /\ call.to \in Nat
      /\ tbl' \in Seq(Entries) /\ Len(tbl') = Len(tbl) /\ tbl'[call.at] = NextEntry
      /\ \A j \in 1 .. Len(tbl) : j # call.at => tbl'[j] = tbl[j]
      /\ disk' = disk \/ disk' = tbl
      /\ IF call.at = call.to THEN call' = Idle
         ELSE /\ call'.op = call.op /\ call'.at = call.at + 1 /\ call'.to = call.to
              /\ call'.id = call.id
              /\ call.op = "store" => call'.name = call.name /\ call'.short = call.short
  BY <1>1, PutTypes
<1>3. call.op = "store" /\ UNCHANGED torn /\ call.id \in Ids
  BY CallIs DEF Store, Basic, Types
<1>4. Base = tbl /\ Base' = tbl'
  <2>1. call'.op # "clear"
    BY <1>2, <1>3, CallsMade
  <2> QED BY <1>3, <2>1 DEF Base
<1> SUFFICES ASSUME torn # "cluster"
             PROVE  /\ Sound(tbl') /\ Sound(disk')
                    /\ Registering' => Untaken(tbl', call'.short)
                    /\ call'.op = "store" => Behind(tbl', call'.at)
  BY <1>3, <1>4 DEF Apart
<1>5. Sound(tbl) /\ Sound(disk) /\ Untaken(tbl, call.short) /\ Behind(tbl, call.at)
  BY <1>3, <1>4 DEF Apart, Registering
<1>6. \A j \in 1 .. call.at - 1 : tbl[j].kind # "end"
  BY <1>5 DEF Behind
<1>7. NextEntry.kind = "sfn" => NextEntry.short = call.short
  <2>1. NextEntry.kind = "sfn" => IsSfn(NextEntry, call.short, call.id)
    BY <1>1, <1>3, NextEntryIs
  <2> QED BY <2>1 DEF IsSfn
<1>8. Ended(tbl')
  <2> SUFFICES ASSUME NEW i \in 1 .. Len(tbl), NEW j \in 1 .. Len(tbl), i < j,
                      tbl'[i].kind = "end"
               PROVE  tbl'[j].kind = "end"
    BY <1>2 DEF Ended
  <2>1. i # call.at /\ tbl[i].kind = "end"
    BY <1>1, <1>2
  <2>2. ~ (i < call.at)
    <3> SUFFICES ASSUME i < call.at  PROVE FALSE
      OBVIOUS
    <3>1. i \in 1 .. call.at - 1
      BY <1>2
    <3> QED BY <1>6, <2>1, <3>1
  <2>3. j # call.at /\ tbl[j].kind = "end"
    BY <1>2, <1>5, <2>1, <2>2 DEF Sound, Ended
  <2> QED BY <1>2, <2>3
<1>9. NoGhost(tbl')
  <2> SUFFICES ASSUME NEW i \in 1 .. Len(tbl), tbl'[i].kind = "sfn"  PROVE tbl'[i].id # Ghost
    BY <1>2 DEF NoGhost
  <2>1. CASE i = call.at
    BY <1>1, <1>2, <1>3, <2>1, Constants
  <2>2. CASE i # call.at
    BY <1>2, <1>5, <2>2 DEF Sound, NoGhost
  <2> QED BY <2>1, <2>2
<1>10. OwnShort(tbl')
  <2> SUFFICES ASSUME NEW i \in 1 .. Len(tbl), NEW j \in 1 .. Len(tbl),
                      tbl'[i].kind = "sfn", tbl'[j].kind = "sfn", tbl'[i].short = tbl'[j].short
               PROVE  i = j
    BY <1>2 DEF OwnShort
  <2>1. ASSUME NEW k \in 1 .. Len(tbl), k # call.at, tbl[k].kind = "sfn"
        PROVE  tbl[k].short # call.short
    BY <1>5, <2>1 DEF Untaken
  <2>2. CASE i # call.at /\ j # call.at
    BY <1>2, <1>5, <2>2 DEF Sound, OwnShort
  <2>3. CASE i = call.at /\ j # call.at
    BY <1>2, <1>7, <2>1, <2>3
  <2>4. CASE i # call.at /\ j = call.at
    BY <1>2, <1>7, <2>1, <2>4
  <2> QED BY <2>2, <2>3, <2>4
<1>11. Sound(tbl') /\ Sound(disk')
  BY <1>2, <1>5, <1>8, <1>9, <1>10 DEF Sound
<1>12. CASE call.at = call.to
  BY <1>2, <1>11, <1>12, CallsMade DEF Registering
<1>13. CASE call.at # call.to
  <2>1. call'.at = call.at + 1 /\ call'.short = call.short
    BY <1>2, <1>3, <1>13
  <2>2. Untaken(tbl', call.short)
    BY <1>1, <1>2, <1>5, <1>13 DEF Untaken
  <2>3. Behind(tbl', call.at + 1)
    <3> SUFFICES ASSUME NEW j \in 1 .. (call.at + 1) - 1  PROVE tbl'[j].kind # "end"
      BY DEF Behind
    <3>1. j = call.at \/ (j # call.at /\ j \in 1 .. call.at - 1 /\ j \in 1 .. Len(tbl))
      BY <1>2
    <3> QED BY <1>1, <1>2, <1>6, <3>1
  <2> QED BY <1>11, <2>1, <2>2, <2>3
<1> QED BY <1>12, <1>13

\* And a Mark.
LEMMA ApartMark ==
    ASSUME Basic, Apart, Mark
    PROVE  Apart'
<1>1. Del \in Entries /\ PutStep(Del) /\ Del.kind = "del"
  BY FreeWritten DEF Mark, PutStep
<1>2. /\ call.at \in 1 .. Len(tbl) /\ call.to \in call.at .. Len(tbl)
      /\ Len(tbl) \in Nat /\ call.at \in Nat /\ call.to \in Nat
      /\ tbl' \in Seq(Entries) /\ Len(tbl') = Len(tbl) /\ tbl'[call.at] = Del
      /\ \A j \in 1 .. Len(tbl) : j # call.at => tbl'[j] = tbl[j]
      /\ disk' = disk \/ disk' = tbl
      /\ IF call.at = call.to THEN call' = Idle
         ELSE /\ call'.op = call.op /\ call'.at = call.at + 1 /\ call'.to = call.to
              /\ call'.id = call.id
              /\ call.op = "store" => call'.name = call.name /\ call'.short = call.short
  BY <1>1, PutTypes
<1>3. call.op = "mark" /\ UNCHANGED torn /\ \A j \in 1 .. call.to : tbl[j].kind # "end"
  BY DEF Mark, Basic, MarkFits
<1>4. call'.op \in {"idle", "mark"} /\ Base = tbl /\ Base' = tbl'
  <2>1. call'.op \in {"idle", "mark"}
    BY <1>2, <1>3, CallsMade
  <2> QED BY <1>3, <2>1 DEF Base
<1> SUFFICES ASSUME torn # "cluster"  PROVE Sound(tbl') /\ Sound(disk')
  BY <1>3, <1>4 DEF Apart, Registering
<1>5. Sound(tbl) /\ Sound(disk)
  BY <1>3, <1>4 DEF Apart
<1>6. tbl[call.at].kind # "end"
  BY <1>2, <1>3
<1>7. Ended(tbl')
  <2> SUFFICES ASSUME NEW i \in 1 .. Len(tbl), NEW j \in 1 .. Len(tbl), i < j,
                      tbl'[i].kind = "end"
               PROVE  tbl'[j].kind = "end"
    BY <1>2 DEF Ended
  <2>1. tbl[i].kind = "end"
    BY <1>1, <1>2
  <2>2. tbl[j].kind = "end"
    BY <1>5, <2>1 DEF Sound, Ended
  <2> QED BY <1>2, <1>6, <2>2
<1>8. NoGhost(tbl') /\ OwnShort(tbl')
  BY <1>1, <1>2, <1>5 DEF Sound, NoGhost, OwnShort
<1> QED BY <1>2, <1>5, <1>7, <1>8 DEF Sound

\* A power cut between two entries.
LEMMA ApartCut ==
    ASSUME Apart, PowerCut
    PROVE  Apart'
<1>1. /\ tbl' = disk /\ disk' = disk /\ call' = Idle /\ torn = ""
      /\ torn' = IF call.op = "clear" THEN "cluster" ELSE "name"
  BY DEF PowerCut, MayFail
<1>2. call'.op = "idle" /\ Base' = disk
  BY <1>1, CallsMade DEF Base
<1>3. torn' # "cluster" => Sound(disk)
  BY <1>1 DEF Apart
<1> QED BY <1>1, <1>2, <1>3 DEF Apart, Registering

\* They are apart at first.
LEMMA ApartInit ==
    ASSUME Init
    PROVE  Apart
<1>1. tbl = [i \in 1 .. MinLen |-> End] /\ disk = tbl /\ call = Idle
  BY DEF Init
<1>2. call.op = "idle" /\ Base = tbl
  BY <1>1, CallsMade DEF Base
<1>3. \A i \in 1 .. Len(tbl) : tbl[i].kind = "end"
  <2>1. tbl \in Seq(Entries) /\ Basic
    BY BasicInit DEF Basic, Types
  <2>2. DOMAIN tbl = 1 .. MinLen /\ DOMAIN tbl = 1 .. Len(tbl)
    BY <1>1, <2>1, LenProperties
  <2> QED BY <1>1, <2>2, FreeWritten
<1>4. Sound(tbl)
  BY <1>3 DEF Sound, Ended, NoGhost, OwnShort
<1> QED BY <1>1, <1>2, <1>4 DEF Apart, Registering

\* Every step keeps them apart.
LEMMA ApartNext ==
    ASSUME Basic, Apart, [Next]_vars
    PROVE  Apart'
<1>1. CASE UNCHANGED vars
  BY <1>1 DEF vars, Apart, Base, Cleared, Registering
<1>2. CASE Start
  <2>1. ASSUME NEW nm \in Names, NEW id \in Ids, Register(nm, id)  PROVE Apart'
    BY <2>1, ApartRegister
  <2>2. ASSUME NEW nm \in Known, Remove(nm)  PROVE Apart'
    <3>1. call.op # "clear" /\ tbl' = tbl /\ disk' = disk /\ torn' = torn /\ call'.op = "mark"
      BY <2>2, CallsMade DEF Remove
    <3> QED BY <3>1, ApartStill
  <2>3. CASE OpenDir \/ ReadDirEnds \/ \E i \in 1 .. MaxLen : ReadDir(i)
    <3>1. call.op # "clear" /\ tbl' = tbl /\ disk' = disk /\ torn' = torn /\ call'.op = "idle"
      BY <2>3, CallsMade DEF OpenDir, ReadDirEnds, ReadDir
    <3> QED BY <3>1, ApartStill
  <2> QED BY <1>2, <2>1, <2>2, <2>3 DEF Start
<1>3. CASE Stretch
  BY <1>3, ApartStretch
<1>4. CASE Clear
  BY <1>4, ApartClear
<1>5. CASE ClearFails
  BY <1>5 DEF ClearFails, Apart
<1>6. CASE Store
  BY <1>6, ApartStore
<1>7. CASE Mark
  BY <1>7, ApartMark
<1>8. CASE StretchFails \/ AccessFails \/ Evict
  <2>1. Flushed = tbl
    BY FlushedIs DEF Basic
  <2>2. call.op # "clear" /\ tbl' = tbl /\ (disk' = disk \/ disk' = tbl) /\ call'.op = "idle"
        /\ (torn' # "cluster" => torn # "cluster")
    BY <1>8, <2>1, CallsMade DEF StretchFails, AccessFails, Evict, PutFails, MayFail
  <2> QED BY <2>2, ApartStill
<1>9. CASE PowerCut
  BY <1>9, ApartCut
<1> QED BY <1>1, <1>2, <1>3, <1>4, <1>5, <1>6, <1>7, <1>8, <1>9 DEF Next

\* While no fault left a linked cluster uncleared, table and medium have their end
\* marks at the end, nothing of an earlier use, and no short name twice.
THEOREM ObjectsStayApart == Spec => []Apart
<1>1. Init => Apart
  BY ApartInit
<1>2. Basic /\ Apart /\ [Next]_vars => Apart'
  BY ApartNext
<1> QED BY <1>1, <1>2, TableIsKnown, PTL DEF Spec
-----------------------------------------------------------------------------
(* Other objects *)

\* A step that keeps the visible entries of the other objects, and brings none.
LEMMA KeptUntouched ==
    ASSUME Keeps(tbl, tbl', Free), torn # "cluster" => Keeps(tbl', tbl, Free),
           NEW id \in Ids \ Own
    PROVE  /\ ListingOf(tbl, id) \subseteq ListingOf(tbl', id)
           /\ torn # "cluster" => ListingOf(tbl', id) = ListingOf(tbl, id)
<1>1. id \in Free
  BY DEF Free
<1>2. ListingOf(tbl, id) \subseteq ListingOf(tbl', id)
  BY <1>1, KeptListing
<1>3. ASSUME torn # "cluster"  PROVE ListingOf(tbl', id) \subseteq ListingOf(tbl, id)
  BY <1>1, <1>3, KeptListing
<1> QED BY <1>2, <1>3

\* Fewer objects are kept, too.
LEMMA KeepsLess ==
    ASSUME NEW t, NEW u, NEW X, NEW Y, Keeps(t, u, X), Y \subseteq X
    PROVE  Keeps(t, u, Y)
  BY DEF Keeps

\* No step of dir_register or dir_remove, nor the stretching of the table, changes the
\* visibility or the name of another object, before a fault or after it.
THEOREM OthersAreUntouched == Spec => OthersUntouched
<1>1. Basic /\ Apart /\ [Next]_vars =>
         [torn' = torn => \A id \in Ids \ Own :
             /\ ListingOf(tbl, id) \subseteq ListingOf(tbl', id)
             /\ torn # "cluster" => ListingOf(tbl', id) = ListingOf(tbl, id)]_vars
  <2> SUFFICES ASSUME Basic, Apart, Next, torn' = torn, NEW id \in Ids \ Own
               PROVE  /\ ListingOf(tbl, id) \subseteq ListingOf(tbl', id)
                      /\ torn # "cluster" => ListingOf(tbl', id) = ListingOf(tbl, id)
    OBVIOUS
  <2>1. CASE tbl' = tbl
    BY <2>1
  <2>2. Free \subseteq Ids
    BY DEF Free
  <2>3. CASE Stretch
    BY <2>2, <2>3, StretchKeeps, KeepsLess, KeptUntouched
  <2>4. CASE Clear
    <3>1. call.op = "clear" /\ tbl' = Cleared
      BY <2>4 DEF Clear
    <3> QED BY <2>2, <3>1, ClearKeeps, KeepsLess, KeptUntouched
  <2>5. CASE Store
    <3>1. PutApart(tbl, tbl', call.at, call.to, Free) /\ PutApart(tbl', tbl, call.at, call.to, Free)
      BY <2>5, StoreApart
    <3>2. /\ tbl \in Seq(Entries) /\ tbl' \in Seq(Entries) /\ tbl'[call.at] = NextEntry
          /\ NextEntry.kind \in {"sfn", "lfn"}
      BY <2>5, StoreIs, PutTypes DEF Basic, Types
    <3>3. Keeps(tbl, tbl', Free)
      BY <3>1, <3>2, PutKeeps
    <3>4. ASSUME torn # "cluster"  PROVE Keeps(tbl', tbl, Free)
      <4>1. Base = tbl
        BY <2>5 DEF Base, Store
      <4>2. Ended(tbl)
        BY <3>4, <4>1 DEF Apart, Sound
      <4> QED BY <3>1, <3>2, <4>2, PutKeeps
    <3> QED BY <3>3, <3>4, KeptUntouched
  <2>6. CASE Mark
    <3>1. PutApart(tbl, tbl', call.at, call.to, Free) /\ PutApart(tbl', tbl, call.at, call.to, Free)
      BY <2>6, MarkApart
    <3>2. PutStep(Del) /\ Del \in Entries /\ Del.kind = "del"
      BY <2>6, FreeWritten DEF Mark, PutStep
    <3>3. /\ tbl \in Seq(Entries) /\ tbl' \in Seq(Entries) /\ tbl'[call.at] = Del
          /\ call.at \in Nat /\ call.to \in call.at .. Len(tbl) /\ call.at \in 1 .. Len(tbl)
      BY <3>2, PutTypes DEF Basic, Types
    <3>4. tbl[call.at].kind # "end"
      <4>1. \A j \in 1 .. call.to : tbl[j].kind # "end"
        BY <2>6 DEF Mark, Basic, MarkFits
      <4>2. Len(tbl) \in Nat
        BY DEF Basic, Types
      <4> QED BY <3>3, <4>1, <4>2
    <3>5. Keeps(tbl, tbl', Free) /\ Keeps(tbl', tbl, Free)
      BY <3>1, <3>2, <3>3, <3>4, PutKeeps
    <3> QED BY <3>5, KeptUntouched
  <2>7. CASE ClearFails
    <3>1. torn = "" /\ torn' = "cluster"
      BY <2>7 DEF ClearFails, MayFail
    <3> QED BY <3>1
  <2>8. CASE PowerCut
    <3>1. torn = "" /\ torn' \in {"cluster", "name"}
      BY <2>8 DEF PowerCut, MayFail
    <3> QED BY <3>1
  <2> QED BY <2>1, <2>3, <2>4, <2>5, <2>6, <2>7, <2>8 DEF Next, Start, Register, Remove, OpenDir,
             ReadDirEnds, ReadDir, StretchFails, AccessFails, PutFails, Evict
<1> QED BY <1>1, TableIsKnown, ObjectsStayApart, PTL DEF Spec, OthersUntouched
-----------------------------------------------------------------------------
(* Names *)

\* Up to short entry i the tables are the same from behind an entry that is no part.
AlikeAt(t, u, i) == \E a \in Nat : a < i /\ Alike(t, u, a, i)

\* Then its name is the same.
LEMMA NamedAlike ==
    ASSUME NEW t \in Seq(Entries), NEW u \in Seq(Entries), NEW i \in Nat, AlikeAt(t, u, i),
           NEW n \in Names, Named(t, i, n)
    PROVE  Named(u, i, n)
<1>1. PICK a \in Nat : a < i /\ Alike(t, u, a, i)
  BY DEF AlikeAt
<1>2. /\ a = 0 \/ (t[a].kind # "lfn" /\ u[a].kind # "lfn")
      /\ \A j \in a + 1 .. i : t[j] = u[j]
  BY <1>1 DEF Alike
<1>3. t[i] = u[i]
  BY <1>1, <1>2
<1>4. n.lfn \in BOOLEAN
  BY NameType
<1>5. CASE n.lfn = TRUE
  <2>1. PICK L \in 1 .. 254 : L = Len(n.segs)
    BY NameLen
  <2>2. LongAt(t, i, n, L) /\ Parts(t, i, n.segs, L, Sum[t[i].short])
    BY <1>5, <2>1, NamedLong
  <2>3. L < i /\ \A k \in 1 .. L : t[i - k].kind = "lfn"
    BY <2>2 DEF LongAt
  <2>4. a < i - L
    <3> SUFFICES ASSUME ~ (a < i - L)  PROVE FALSE
      OBVIOUS
    <3>1. PICK k \in 1 .. L : k = i - a
      BY <1>1, <2>3
    <3>2. i - k = a /\ a # 0
      BY <1>1, <2>3, <3>1
    <3> QED BY <1>2, <2>3, <3>2
  <2>5. ASSUME NEW k \in 1 .. L  PROVE u[i - k] = Lfn(n.segs[k], k, k = L, Sum[t[i].short])
    <3>1. PICK x \in a + 1 .. i : x = i - k
      BY <1>1, <2>4
    <3>2. u[x] = t[x]
      BY <1>2
    <3>3. t[i - k] = Lfn(n.segs[k], k, k = L, Sum[t[i].short])
      BY <2>2 DEF Parts
    <3> QED BY <3>1, <3>2, <3>3
  <2>6. Parts(u, i, n.segs, L, Sum[t[i].short])
    BY <2>5 DEF Parts
  <2> QED BY <1>3, <1>5, <2>1, <2>3, <2>6 DEF Named
<1>6. CASE n.lfn = FALSE
  <2>1. i = 1 \/ t[i - 1].kind # "lfn"
    BY <1>6 DEF Named
  <2>2. PICK b \in Nat : b = i - 1
    BY <1>1
  <2>3. CASE b = a
    BY <1>2, <1>3, <1>6, <2>2, <2>3 DEF Named
  <2>4. CASE b # a
    <3>1. b \in a + 1 .. i
      BY <1>1, <2>2, <2>4
    <3> QED BY <1>2, <1>3, <1>6, <2>1, <2>2, <3>1 DEF Named
  <2> QED BY <2>3, <2>4
<1> QED BY <1>4, <1>5, <1>6

\* What is alike is alike both ways.
LEMMA AlikeBack ==
    ASSUME NEW t, NEW u, NEW i, AlikeAt(t, u, i)
    PROVE  AlikeAt(u, t, i)
  BY DEF AlikeAt, Alike

\* The short entries of objects, but for one that is removed.
Objs(t, S) == {i \in 1 .. Len(t) : t[i].kind = "sfn" /\ i \notin S}

\* Each has a name that programs use, no two the same, and none has name n.
AllNamed(t, S) == \A i \in Objs(t, S) : \E n \in Names : Named(t, i, n)
NamesDiffer(t, S) == \A i, j \in Objs(t, S), n \in Names : Named(t, i, n) /\ Named(t, j, n) => i = j
NotNamed(t, S, n) == \A i \in Objs(t, S) : ~ Named(t, i, n)

\* The objects of u are objects of t, with the same names.
Spans(t, u, S, R) == \A i \in Objs(u, R) : i \in Objs(t, S) /\ AlikeAt(t, u, i)

\* So what is known of their names is still known.
LEMMA SameNames ==
    ASSUME NEW t \in Seq(Entries), NEW u \in Seq(Entries), NEW S, NEW R, Spans(t, u, S, R)
    PROVE  /\ AllNamed(t, S) => AllNamed(u, R)
           /\ NamesDiffer(t, S) => NamesDiffer(u, R)
           /\ \A n \in Names : NotNamed(t, S, n) => NotNamed(u, R, n)
<1>1. ASSUME NEW i \in Objs(u, R)  PROVE i \in Objs(t, S) /\ i \in Nat /\ AlikeAt(t, u, i) /\ AlikeAt(u, t, i)
  BY AlikeBack, TableIs DEF Spans, Objs
<1>2. ASSUME AllNamed(t, S), NEW i \in Objs(u, R)  PROVE \E n \in Names : Named(u, i, n)
  <2>1. i \in Objs(t, S) /\ i \in Nat /\ AlikeAt(t, u, i)
    BY <1>1
  <2>2. PICK n \in Names : Named(t, i, n)
    BY <1>2, <2>1 DEF AllNamed
  <2> QED BY <2>1, <2>2, NamedAlike
<1>3. ASSUME NEW i \in Objs(u, R), NEW n \in Names, Named(u, i, n)
      PROVE  i \in Objs(t, S) /\ Named(t, i, n)
  BY <1>1, <1>3, NamedAlike
<1>4. ASSUME NamesDiffer(t, S)  PROVE NamesDiffer(u, R)
  BY <1>3, <1>4 DEF NamesDiffer
<1>5. ASSUME NEW n \in Names, NotNamed(t, S, n)  PROVE NotNamed(u, R, n)
  BY <1>3, <1>5 DEF NotNamed
<1>6. AllNamed(t, S) => AllNamed(u, R)
  BY <1>2 DEF AllNamed
<1> QED BY <1>4, <1>5, <1>6

\* Behind a part of a long name comes the next one, or the short entry.
Followed(t, i) ==
    /\ i < Len(t)
    /\ IF t[i].ord = 1 THEN t[i + 1].kind = "sfn"
       ELSE t[i + 1].kind = "lfn" /\ t[i + 1].ord = t[i].ord - 1 /\ t[i + 1].last = FALSE
Linked(t, S) == \A i \in 1 .. Len(t) : i \notin S /\ t[i].kind = "lfn" => Followed(t, i)

\* Away from where an entry is written, the tables are alike.
LEMMA PutAlike ==
    ASSUME NEW t \in Seq(Entries), NEW u \in Seq(Entries), NEW at, NEW to, NEW X,
           PutApart(t, u, at, to, X), NEW i \in 1 .. Len(t), i \notin at .. to
    PROVE  AlikeAt(t, u, i) /\ t[i] = u[i]
<1>1. /\ Len(t) \in Nat /\ Len(u) = Len(t) /\ at \in 1 .. Len(t) /\ to \in at .. Len(t)
      /\ at \in Nat /\ to \in Nat
  <2>1. Len(t) \in Nat
    BY TableIs
  <2> QED BY <2>1 DEF PutApart
<1>2. CASE i < at
  <2>1. \A j \in 0 + 1 .. i : j \in 1 .. Len(t) /\ j # at
    BY <1>1, <1>2
  <2>2. 0 \in Nat /\ i \in Nat /\ 0 <= i /\ 0 < i /\ i <= Len(t) /\ i <= Len(u) /\ i # at
    BY <1>1, <1>2
  <2>3. Alike(t, u, 0, i)
    BY <2>1, <2>2 DEF Alike, PutApart
  <2> QED BY <2>2, <2>3 DEF AlikeAt, PutApart
<1>3. CASE to < i
  <2>1. \A j \in to + 1 .. i : j \in 1 .. Len(t) /\ j # at
    BY <1>1, <1>3
  <2>2. i \in Nat /\ to <= i /\ i <= Len(t) /\ i <= Len(u) /\ i # at
    BY <1>1, <1>3
  <2>3. Alike(t, u, to, i)
    BY <1>1, <2>1, <2>2 DEF Alike, PutApart
  <2> QED BY <1>1, <1>3, <2>2, <2>3 DEF AlikeAt, PutApart
<1> QED BY <1>1, <1>2, <1>3

\* Where an entry is written, the parts before and behind stay linked: none comes before
\* it, or the linked one is known.
PutLinks(t, u, at, S, R) ==
    /\ at \in 1 .. Len(t) /\ Len(u) = Len(t)
    /\ \A j \in 1 .. Len(t) : j # at => u[j] = t[j]
    /\ \A i \in 1 .. Len(t) : i \notin R /\ u[i].kind = "lfn" =>
          i # at /\ (i \notin S \/ Followed(u, i)) /\ (i + 1 = at => Followed(u, i))

\* Then the table stays linked.
LEMMA PutLinked ==
    ASSUME NEW t \in Seq(Entries), NEW u, NEW at, NEW S, NEW R, Linked(t, S), PutLinks(t, u, at, S, R)
    PROVE  Linked(u, R)
<1>1. Len(t) \in Nat
  BY TableIs
<1>0. Len(u) = Len(t)
  BY DEF PutLinks
<1> SUFFICES ASSUME NEW i \in 1 .. Len(t), i \notin R, u[i].kind = "lfn"  PROVE Followed(u, i)
  BY <1>0 DEF Linked
<1>2. /\ i # at /\ u[i] = t[i] /\ (i \notin S \/ Followed(u, i)) /\ (i + 1 = at => Followed(u, i))
      /\ \A j \in 1 .. Len(t) : j # at => u[j] = t[j]
  BY DEF PutLinks
<1>3. CASE i \notin S /\ i + 1 # at
  <2>1. Followed(t, i)
    BY <1>2, <1>3 DEF Linked
  <2>2. i < Len(t)
    BY <2>1 DEF Followed
  <2>3. PICK x \in 1 .. Len(t) : x = i + 1
    BY <1>1, <2>2
  <2>4. u[i + 1] = t[i + 1]
    BY <1>2, <1>3, <2>3
  <2> QED BY <1>0, <1>2, <2>1, <2>4 DEF Followed
<1> QED BY <1>2, <1>3
-----------------------------------------------------------------------------
(* Before the fault every entry is of a whole name, but for those of the call *)

\* The parts that a call has stored, and the object that it removes.
Stored == IF call.op = "store" THEN First .. call.at - 1 ELSE {}
Leaving == IF call.op = "mark" THEN {call.to} ELSE {}

\* Entry j is the part of the name that belongs there.
StoredPart(t, c, j) ==
    t[j] = Lfn(c.name.segs[c.to - j], c.to - j, c.to - j = Len(c.name.segs), Sum[c.short])

\* Each object has one of the programs' names and no two the same, each part of a
\* name is followed by the next, and what a call has stored is its own name's.
NamesWhole ==
    torn = "" =>
       /\ Linked(Base, Stored) /\ AllNamed(Base, Leaving) /\ NamesDiffer(Base, Leaving)
       /\ Registering => NotNamed(Base, Leaving, call.name)
       /\ \A j \in Stored : StoredPart(tbl, call, j)
       /\ call.op = "mark" => call.at = 1 \/ tbl[call.at - 1].kind # "lfn"

\* Nothing is stored when a call begins.
LEMMA StoredNone ==
    ASSUME NEW a \in Nat
    PROVE  a .. a - 1 = {}
  OBVIOUS

\* A step that leaves what the table will be.
LEMMA WholeQuiet ==
    ASSUME NamesWhole, call.op \in {"idle", "link", "clear"}, Base' = Base, torn' = "" => torn = "",
           call' \in Calls, call'.op \in {"idle", "link", "clear", "store"},
           call'.op = "store" => First' = call'.at,
           Registering' /\ torn = "" => NotNamed(Base, {}, call'.name)
    PROVE  NamesWhole'
<1>1. Stored = {} /\ Leaving = {} /\ Leaving' = {}
  BY DEF Stored, Leaving
<1>2. Stored' = {}
  <2>1. CASE call'.op = "store"
    <3>1. call'.at \in Nat
      BY <2>1, CallIs
    <3>2. Stored' = call'.at .. call'.at - 1
      BY <2>1 DEF Stored
    <3> QED BY <3>1, <3>2, StoredNone
  <2>2. CASE call'.op # "store"
    BY <2>2 DEF Stored
  <2> QED BY <2>1, <2>2
<1>3. CASE torn' = ""
  <2>1. Linked(Base, {}) /\ AllNamed(Base, {}) /\ NamesDiffer(Base, {})
    BY <1>1, <1>3 DEF NamesWhole
  <2> QED BY <1>1, <1>2, <1>3, <2>1 DEF NamesWhole
<1> QED BY <1>3 DEF NamesWhole

\* In a table where every object has a name of its own, before an object there
\* are only objects with other names.
LEMMA OthersDiffer ==
    ASSUME NEW t \in Seq(Entries), Sound(t), AllNamed(t, {}), NamesDiffer(t, {}),
           NEW i \in Objs(t, {}), NEW n \in Names, Named(t, i, n)
    PROVE  OthersBefore(t, i, n)
<1>1. Len(t) \in Nat /\ i \in 1 .. Len(t) /\ t[i].kind = "sfn"
  BY TableIs DEF Objs
<1> SUFFICES ASSUME NEW j \in 1 .. i - 1, t[j].kind = "sfn"
             PROVE  t[j].short # t[i].short /\ \E m \in Names : Named(t, j, m) /\ m # n
  BY DEF OthersBefore
<1>2. j \in 1 .. Len(t) /\ j # i
  BY <1>1
<1>3. j \in Objs(t, {})
  BY <1>2 DEF Objs
<1>4. t[j].short # t[i].short
  BY <1>1, <1>2 DEF Sound, OwnShort
<1>5. PICK m \in Names : Named(t, j, m)
  BY <1>3 DEF AllNamed
<1>6. m # n
  BY <1>2, <1>3, <1>5 DEF NamesDiffer
<1> QED BY <1>4, <1>5, <1>6

\* No other object has the name that dir_find has not found.
LEMMA NameNew ==
    ASSUME NEW t \in Seq(Entries), Sound(t), AllNamed(t, {}), NamesDiffer(t, {}),
           NEW nm \in Names, Find(t, nm).hit = 0
    PROVE  NotNamed(t, {}, nm)
<1> SUFFICES ASSUME NEW i \in Objs(t, {}), Named(t, i, nm)  PROVE FALSE
  BY DEF NotNamed
<1>1. Len(t) \in Nat /\ i \in 1 .. Len(t) /\ t[i].kind = "sfn"
  BY TableIs DEF Objs
<1>2. i \in Visible(t)
  BY <1>1, EndedVisible DEF Sound
<1>3. OthersBefore(t, i, nm)
  BY OthersDiffer
<1>4. Find(t, nm).hit = i
  BY <1>2, <1>3, FindsNamed DEF AsGood
<1> QED BY <1>1, <1>4

\* Register keeps the names whole.
LEMMA WholeRegister ==
    ASSUME Basic, Apart, NamesWhole, NEW nm \in Names, NEW id \in Ids, Register(nm, id)
    PROVE  NamesWhole'
<1>1. /\ call = Idle /\ id \notin Held(tbl) /\ Find(tbl, nm).hit = 0
      /\ UNCHANGED <<tbl, disk, dirty, walk, torn>>
      /\ call' = Idle \/ \E short \in Shorts : Begins(nm, short, id)
  BY RegisterBegins DEF Basic
<1>2. call.op = "idle" /\ Base = tbl /\ tbl \in Seq(Entries)
  BY <1>1, CallsMade DEF Base, Basic, Types
<1>3. /\ call' \in Calls /\ call'.op \in {"idle", "link", "store"}
      /\ call'.op # "idle" => call'.name = nm
      /\ call'.op = "store" => First' = call'.at
  <2>1. CASE call' = Idle
    BY <2>1, CallsMade
  <2>2. ASSUME NEW short \in Shorts, Begins(nm, short, id)
        PROVE  /\ call' \in Calls /\ call'.op \in {"idle", "link", "store"}
               /\ call'.op # "idle" => call'.name = nm
               /\ call'.op = "store" => First' = call'.at
    <3>1. Chosen(tbl', call', nm, short, id) /\ (nm.loss = TRUE \/ short = nm.short)
      BY <1>1, <2>2 DEF Begins
    <3>2. tbl' \in Seq(Entries) /\ id \notin Held(tbl')
      BY <1>1, <1>2
    <3> QED BY <3>1, <3>2, ChosenBasic
  <2> QED BY <1>1, <2>1, <2>2
<1>4. Base' = Base
  BY <1>1, <1>2, <1>3 DEF Base
<1>5. ASSUME torn = ""  PROVE NotNamed(Base, {}, nm)
  <2>1. Sound(tbl)
    BY <1>2, <1>5 DEF Apart
  <2>2. AllNamed(tbl, {}) /\ NamesDiffer(tbl, {})
    BY <1>2, <1>5 DEF NamesWhole, Leaving
  <2> QED BY <1>1, <1>2, <2>1, <2>2, NameNew
<1>6. Registering' /\ torn = "" => NotNamed(Base, {}, call'.name)
  BY <1>3, <1>5 DEF Registering
<1> QED BY <1>1, <1>2, <1>3, <1>4, <1>6, WholeQuiet

\* Clear keeps them.
LEMMA WholeClear ==
    ASSUME Basic, NamesWhole, Clear
    PROVE  NamesWhole'
<1>1. /\ call.op = "clear" /\ tbl' = Cleared /\ Storing(call.name, call.short, call.id)
      /\ UNCHANGED torn
  BY DEF Clear
<1>2. PICK n \in Nat : Shorter(tbl, Cleared, n)
  BY ClearedIs DEF Basic
<1>3. tbl' \in Seq(Entries) /\ NoNew(tbl, Cleared)
  BY <1>1, <1>2, ClearKeeps DEF Shorter
<1>4. call.name \in Names /\ call.short \in Shorts /\ call.id \in Ids
  BY <1>1, CallIs DEF Basic, Types
<1>5. call.id \notin Held(tbl) /\ (call.name.loss = TRUE \/ call.short = call.name.short)
  BY <1>1 DEF Basic, NewObject, Registering
<1>6. call.id \notin Held(tbl')
  BY <1>1, <1>3, <1>4, <1>5, NoNewUnique
<1>7. /\ call' \in Calls /\ call'.op \in {"idle", "link", "store"}
      /\ call'.op # "idle" => call'.name = call.name
      /\ call'.op = "store" => First' = call'.at
  <2> DEFINE m == call.name
             short == call.short
             id == call.id
  <2>1. Chosen(tbl', call', m, short, id)
    BY <1>1, StoringIs
  <2>2. m \in Names /\ short \in Shorts /\ id \in Ids /\ id \notin Held(tbl')
        /\ (m.loss = TRUE \/ short = m.short)
    BY <1>4, <1>5, <1>6
  <2> HIDE DEF m, short, id
  <2>3. /\ call' \in Calls /\ call'.op \in {"idle", "link", "store"}
        /\ call'.op # "idle" => call'.name = m
        /\ call'.op = "store" => First' = call'.at
    BY <1>3, <2>1, <2>2, ChosenBasic
  <2> QED BY <2>3 DEF m
<1>8. Base' = Base
  BY <1>1, <1>7 DEF Base
<1>9. torn = "" => NotNamed(Base, {}, call.name)
  BY <1>1 DEF NamesWhole, Registering, Leaving
<1>10. Registering' /\ torn = "" => NotNamed(Base, {}, call'.name)
  BY <1>7, <1>9 DEF Registering
<1> QED BY <1>1, <1>7, <1>8, <1>10, WholeQuiet

\* Stretch keeps them.
LEMMA WholeStretch ==
    ASSUME Basic, NamesWhole, Stretch
    PROVE  NamesWhole'
<1>1. /\ call.op = "link" /\ call'.op = "clear" /\ call.name \in Names /\ call'.name = call.name
  BY StretchedCall
<1>2. Len(tbl) \in Nat /\ SPE \in Nat
  BY Constants DEF Basic, Types
<1>0. UNCHANGED torn /\ tbl \in Seq(Entries)
  BY DEF Stretch, Basic, Types
<1>3. Longer(tbl, Cleared', End)
  BY StretchedBase
<1>4. PICK u \in Seq(Entries) : u = Cleared'
  BY <1>3 DEF Longer
<1>5. /\ Len(u) = Len(tbl) + SPE
      /\ \A j \in 1 .. Len(tbl) : u[j] = tbl[j]
      /\ \A j \in Len(tbl) + 1 .. Len(u) : u[j] = End
  BY <1>3, <1>4 DEF Longer
<1>6. Base = tbl /\ Base' = u /\ Stored = {} /\ Stored' = {} /\ Leaving = {} /\ Leaving' = {}
  BY <1>1, <1>4 DEF Base, Stored, Leaving
<1>7. torn = "" => /\ Linked(tbl, {}) /\ AllNamed(tbl, {}) /\ NamesDiffer(tbl, {})
                   /\ NotNamed(tbl, {}, call.name)
  BY <1>1, <1>6 DEF NamesWhole, Registering
<1>8. ASSUME NEW i \in 1 .. Len(u), u[i].kind # "end"  PROVE i \in 1 .. Len(tbl) /\ u[i] = tbl[i]
  <2>1. i \notin Len(tbl) + 1 .. Len(u)
    BY <1>5, <1>8, FreeWritten
  <2>2. i \in 1 .. Len(tbl)
    BY <1>2, <1>5, <2>1
  <2> QED BY <1>5, <2>2
<1>9. Linked(tbl, {}) => Linked(u, {})
  <2> SUFFICES ASSUME Linked(tbl, {}), NEW i \in 1 .. Len(u), u[i].kind = "lfn"  PROVE Followed(u, i)
    BY DEF Linked
  <2>1. i \in 1 .. Len(tbl) /\ u[i] = tbl[i]
    BY <1>8
  <2>2. Followed(tbl, i)
    BY <2>1 DEF Linked
  <2>3. i < Len(tbl) /\ i < Len(u)
    BY <1>2, <1>5, <2>2 DEF Followed
  <2>4. PICK x \in 1 .. Len(tbl) : x = i + 1
    BY <1>2, <2>3
  <2>5. u[i + 1] = tbl[i + 1]
    BY <1>5, <2>4
  <2> QED BY <2>1, <2>2, <2>3, <2>5 DEF Followed
<1>10. Spans(tbl, u, {}, {})
  <2> SUFFICES ASSUME NEW i \in Objs(u, {})  PROVE i \in Objs(tbl, {}) /\ AlikeAt(tbl, u, i)
    BY DEF Spans
  <2>1. i \in 1 .. Len(u) /\ u[i].kind = "sfn"
    BY DEF Objs
  <2>2. i \in 1 .. Len(tbl) /\ u[i] = tbl[i]
    BY <1>8, <2>1
  <2>3. \A j \in 0 + 1 .. i : j \in 1 .. Len(tbl)
    BY <1>2, <2>2
  <2>4. 0 \in Nat /\ i \in Nat /\ 0 <= i /\ 0 < i /\ i <= Len(tbl) /\ i <= Len(u)
    BY <1>2, <1>5, <2>2
  <2>5. Alike(tbl, u, 0, i)
    BY <1>5, <2>3, <2>4 DEF Alike
  <2> QED BY <2>1, <2>2, <2>4, <2>5 DEF Objs, AlikeAt
<1>11. torn = "" => /\ Linked(u, {}) /\ AllNamed(u, {}) /\ NamesDiffer(u, {})
                    /\ NotNamed(u, {}, call.name)
  BY <1>0, <1>1, <1>7, <1>9, <1>10, SameNames
<1> QED BY <1>0, <1>1, <1>6, <1>11 DEF NamesWhole

\* Where dir_remove begins to mark, no part comes before.
LEMMA BlockBegins ==
    ASSUME NEW t \in Seq(Entries), Linked(t, {}), NEW h \in Objs(t, {}), NEW n \in Names,
           Named(t, h, n), NEW at \in Nat, at = IF n.lfn THEN h - Len(n.segs) ELSE h
    PROVE  at = 1 \/ t[at - 1].kind # "lfn"
<1>1. Len(t) \in Nat /\ h \in 1 .. Len(t) /\ h \in Nat /\ n.lfn \in BOOLEAN
  BY TableIs, NameType DEF Objs
<1>2. CASE n.lfn = FALSE
  BY <1>2 DEF Named
<1>3. CASE n.lfn = TRUE
  <2>1. PICK L \in 1 .. 254 : L = Len(n.segs)
    BY NameLen
  <2>2. LongAt(t, h, n, L)
    BY <1>1, <1>3, <2>1, NamedLong
  <2>3. L < h /\ L \in 1 .. L
    <3>1. L < h
      BY <2>2 DEF LongAt
    <3> QED BY <3>1
  <2>4. t[h - L].kind = "lfn" /\ t[h - L].last = TRUE
    BY <2>2, <2>3 DEF LongAt
  <2>5. at = h - L
    BY <1>3, <2>1
  <2> SUFFICES ASSUME at # 1, t[at - 1].kind = "lfn"  PROVE FALSE
    OBVIOUS
  <2>6. PICK x \in 1 .. Len(t) : x = at - 1
    BY <1>1, <2>3, <2>5
  <2>7. t[x].kind = "lfn" /\ x + 1 = at
    BY <2>6
  <2>8. Followed(t, x)
    BY <2>7 DEF Linked
  <2>9. t[x + 1].kind = "lfn" /\ t[x + 1].last = TRUE
    BY <2>4, <2>5, <2>7
  <2> QED BY <2>8, <2>9 DEF Followed
<1> QED BY <1>1, <1>2, <1>3

\* Remove keeps the names whole.
LEMMA WholeRemove ==
    ASSUME Basic, NamesWhole, NEW nm \in Known, Remove(nm)
    PROVE  NamesWhole'
<1>1. PICK h \in Visible(tbl), at \in Nat :
              /\ h = Find(tbl, nm).hit /\ at = IF Find(tbl, nm).blk = 0 THEN h ELSE Find(tbl, nm).blk
              /\ call' = [op |-> "mark", at |-> at, to |-> h, id |-> tbl[h].id]
  BY RemoveBegins DEF Basic
<1>2. call.op = "idle" /\ UNCHANGED tbl /\ UNCHANGED torn /\ Find(tbl, nm).hit # 0
  BY CallsMade DEF Remove
<1>3. call'.op = "mark" /\ call'.at = at /\ call'.to = h
  BY <1>1
<1>4. /\ Base = tbl /\ Base' = tbl /\ Stored = {} /\ Stored' = {} /\ Leaving = {} /\ Leaving' = {h}
      /\ ~ Registering'
  BY <1>2, <1>3 DEF Base, Stored, Leaving, Registering
<1>5. tbl \in Seq(Entries) /\ h \in Objs(tbl, {}) /\ Len(tbl) \in Nat /\ h \in Nat
  <2>1. tbl \in Seq(Entries)
    BY DEF Basic, Types
  <2>2. Len(tbl) \in Nat
    BY <2>1, TableIs
  <2> QED BY <2>1, <2>2 DEF Visible, Objs
<1>6. ASSUME AllNamed(tbl, {}), Linked(tbl, {})  PROVE at = 1 \/ tbl[at - 1].kind # "lfn"
  <2>1. PICK n \in Names : Named(tbl, h, n)
    BY <1>5, <1>6 DEF AllNamed
  <2>2. nm.loss \in BOOLEAN /\ Len(nm.segs) \in Nat
    BY KnownIs
  <2>3. Find(tbl, nm).blk = IF n.lfn THEN h - Len(n.segs) ELSE 0
    BY <1>1, <1>2, <1>5, <2>1, <2>2, FindBlock
  <2>4. at = IF n.lfn THEN h - Len(n.segs) ELSE h
    <3>1. n.lfn = TRUE => Len(n.segs) < h /\ Len(n.segs) \in 1 .. 254
      BY <2>1, NameLen DEF Named
    <3>2. n.lfn = TRUE => h - Len(n.segs) # 0
      BY <1>5, <3>1
    <3>3. n.lfn \in BOOLEAN
      BY NameType
    <3> QED BY <1>1, <2>3, <3>2, <3>3
  <2> QED BY <1>5, <1>6, <2>1, <2>4, BlockBegins
<1>7. AllNamed(tbl, {}) => AllNamed(tbl, {h})
  BY DEF AllNamed, Objs
<1>8. NamesDiffer(tbl, {}) => NamesDiffer(tbl, {h})
  BY DEF NamesDiffer, Objs
<1>9. torn = "" => Linked(tbl, {}) /\ AllNamed(tbl, {}) /\ NamesDiffer(tbl, {})
  BY <1>4 DEF NamesWhole
<1>10. torn = "" => /\ Linked(tbl, {}) /\ AllNamed(tbl, {h}) /\ NamesDiffer(tbl, {h})
                    /\ at = 1 \/ tbl[at - 1].kind # "lfn"
  BY <1>6, <1>7, <1>8, <1>9
<1> QED BY <1>2, <1>3, <1>4, <1>10 DEF NamesWhole

\* Mark keeps them.
LEMMA WholeMark ==
    ASSUME Basic, NamesWhole, Mark
    PROVE  NamesWhole'
<1>1. Del \in Entries /\ PutStep(Del) /\ Del.kind = "del"
  BY FreeWritten DEF Mark, PutStep
<1>2. /\ call.at \in 1 .. Len(tbl) /\ call.to \in call.at .. Len(tbl)
      /\ Len(tbl) \in Nat /\ call.at \in Nat /\ call.to \in Nat
      /\ tbl' \in Seq(Entries) /\ Len(tbl') = Len(tbl) /\ tbl'[call.at] = Del
      /\ \A j \in 1 .. Len(tbl) : j # call.at => tbl'[j] = tbl[j]
      /\ IF call.at = call.to THEN call' = Idle
         ELSE /\ call'.op = call.op /\ call'.at = call.at + 1 /\ call'.to = call.to
              /\ call'.id = call.id
              /\ call.op = "store" => call'.name = call.name /\ call'.short = call.short
  BY <1>1, PutTypes
<1>3. call.op = "mark" /\ \A j \in call.at .. call.to - 1 : tbl[j].kind = "lfn"
  BY DEF Mark, Basic, MarkFits
<1>4. UNCHANGED torn /\ tbl \in Seq(Entries)
  BY DEF Mark, Basic, Types
<1>5. call'.op \in {"idle", "mark"} /\ ~ Registering' /\ Base = tbl /\ Base' = tbl'
      /\ Stored = {} /\ Stored' = {} /\ Leaving = {call.to}
  <2>1. call'.op \in {"idle", "mark"}
    BY <1>2, <1>3, CallsMade
  <2> QED BY <1>3, <2>1 DEF Base, Stored, Leaving, Registering
<1>6. PutApart(tbl, tbl', call.at, call.to, Free)
  BY MarkApart
<1>7. Spans(tbl, tbl', {call.to}, Leaving')
  <2> SUFFICES ASSUME NEW i \in Objs(tbl', Leaving')
               PROVE  i \in Objs(tbl, {call.to}) /\ AlikeAt(tbl, tbl', i)
    BY DEF Spans
  <2>1. i \in 1 .. Len(tbl) /\ tbl'[i].kind = "sfn" /\ i \notin Leaving'
    BY <1>2 DEF Objs
  <2>2. i # call.at /\ tbl[i].kind = "sfn"
    BY <1>1, <1>2, <2>1
  <2>3. i # call.to
    <3>1. CASE call.at = call.to
      BY <2>2, <3>1
    <3>2. CASE call.at # call.to
      <4>1. Leaving' = {call.to}
        BY <1>2, <1>3, <3>2 DEF Leaving
      <4> QED BY <2>1, <4>1
    <3> QED BY <3>1, <3>2
  <2>4. i \notin call.at .. call.to
    <3> SUFFICES ASSUME i \in call.at .. call.to  PROVE FALSE
      OBVIOUS
    <3>1. i \in call.at .. call.to - 1
      BY <1>2, <2>3
    <3>2. tbl[i].kind = "lfn"
      BY <1>3, <3>1
    <3> QED BY <2>2, <3>2
  <2>5. AlikeAt(tbl, tbl', i)
    BY <1>2, <1>4, <1>6, <2>1, <2>4, PutAlike
  <2> QED BY <2>1, <2>2, <2>3, <2>5 DEF Objs
<1>8. ASSUME Linked(tbl, {}), call.at = 1 \/ tbl[call.at - 1].kind # "lfn"
      PROVE  Linked(tbl', {})
  <2>1. ASSUME NEW i \in 1 .. Len(tbl), tbl'[i].kind = "lfn"
        PROVE  i # call.at /\ i + 1 # call.at
    <3>1. i # call.at /\ tbl[i].kind = "lfn"
      BY <1>1, <1>2, <2>1
    <3>2. ASSUME i + 1 = call.at  PROVE FALSE
      <4>1. call.at # 1 /\ call.at - 1 = i
        BY <1>2, <3>2
      <4> QED BY <1>8, <3>1, <4>1
    <3> QED BY <3>1, <3>2
  <2>2. PutLinks(tbl, tbl', call.at, {}, {})
    BY <1>2, <2>1 DEF PutLinks
  <2> QED BY <1>4, <1>8, <2>2, PutLinked
<1>9. call'.op = "mark" => call'.at = 1 \/ tbl'[call'.at - 1].kind # "lfn"
  <2> SUFFICES ASSUME call'.op = "mark"  PROVE tbl'[call'.at - 1].kind # "lfn"
    OBVIOUS
  <2>1. call.at # call.to
    BY <1>2, CallsMade
  <2>2. call'.at - 1 = call.at
    BY <1>2, <2>1
  <2> QED BY <1>1, <1>2, <2>2
<1>10. torn = "" => /\ Linked(tbl, {}) /\ AllNamed(tbl, {call.to}) /\ NamesDiffer(tbl, {call.to})
                    /\ call.at = 1 \/ tbl[call.at - 1].kind # "lfn"
  BY <1>3, <1>5 DEF NamesWhole
<1>11. torn = "" => Linked(tbl', {}) /\ AllNamed(tbl', Leaving') /\ NamesDiffer(tbl', Leaving')
  BY <1>2, <1>4, <1>7, <1>8, <1>10, SameNames
<1> QED BY <1>4, <1>5, <1>9, <1>11 DEF NamesWhole

\* Where a call stores: from First to call.to, behind First the parts of the long name.
LEMMA StoreRange ==
    ASSUME Basic, call.op = "store"
    PROVE  /\ First \in Nat /\ call.at \in Nat /\ call.to \in Nat /\ Len(tbl) \in Nat
           /\ 1 <= First /\ First <= call.at /\ call.at <= call.to /\ call.to <= Len(tbl)
           /\ call.name.lfn = TRUE => First = call.to - Len(call.name.segs)
           /\ call.name.lfn = FALSE => First = call.to
<1>1. call.name \in Names /\ call.at \in Nat /\ call.to \in Nat /\ Len(tbl) \in Nat
  BY CallIs DEF Basic, Types
<1>2. PICK k \in 1 .. 255 : k = NEnt(call.name)
  BY <1>1, NEntIs
<1>3. First = call.to - k + 1
  BY <1>2 DEF First
<1>4. 1 <= First /\ First <= call.at /\ call.at <= call.to /\ call.to <= Len(tbl)
  BY DEF Basic, StoreFits
<1>5. First \in Nat
  BY <1>1, <1>3, <1>4
<1>6. ASSUME call.name.lfn = TRUE  PROVE First = call.to - Len(call.name.segs)
  <2>1. PICK L \in 1 .. 254 : L = Len(call.name.segs)
    BY <1>1, NameLen
  <2>2. k = L + 1
    BY <1>1, <1>2, <1>6, <2>1, NEntIs
  <2>3. First = call.to - L
    BY <1>1, <1>3, <2>2
  <2> QED BY <2>1, <2>3
<1>7. ASSUME call.name.lfn = FALSE  PROVE First = call.to
  <2>1. k = 1
    BY <1>1, <1>2, <1>7, NEntIs
  <2> QED BY <1>1, <1>3, <2>1
<1> QED BY <1>1, <1>4, <1>5, <1>6, <1>7

\* The other objects are where they were.
LEMMA StoreSpans ==
    ASSUME Basic, Store
    PROVE  Spans(tbl, tbl', {}, {call.at})
<1>1. NextEntry \in Entries /\ PutStep(NextEntry)
  BY StoreIs
<1>2. /\ call.at \in 1 .. Len(tbl) /\ call.to \in call.at .. Len(tbl)
      /\ Len(tbl) \in Nat /\ tbl' \in Seq(Entries) /\ Len(tbl') = Len(tbl)
      /\ \A j \in 1 .. Len(tbl) : j # call.at => tbl'[j] = tbl[j]
  BY <1>1, PutTypes
<1>3. tbl \in Seq(Entries) /\ PutApart(tbl, tbl', call.at, call.to, Free)
  BY StoreApart DEF Basic, Types
<1>4. \A j \in call.at .. call.to : tbl[j].kind \in {"end", "del"}
  BY DEF Store, Basic, StoreFits
<1> SUFFICES ASSUME NEW i \in Objs(tbl', {call.at})
             PROVE  i \in Objs(tbl, {}) /\ AlikeAt(tbl, tbl', i)
  BY DEF Spans
<1>5. i \in 1 .. Len(tbl) /\ tbl'[i].kind = "sfn" /\ i # call.at
  BY <1>2 DEF Objs
<1>6. tbl[i].kind = "sfn"
  BY <1>2, <1>5
<1>7. i \notin call.at .. call.to
  BY <1>4, <1>6
<1>8. AlikeAt(tbl, tbl', i)
  BY <1>2, <1>3, <1>5, <1>7, PutAlike
<1> QED BY <1>5, <1>6, <1>8 DEF Objs

\* The fields of a part.
LEMMA PartFields ==
    ASSUME NEW t, NEW c, NEW j, StoredPart(t, c, j)
    PROVE  /\ t[j].kind = "lfn" /\ t[j].ord = c.to - j
           /\ t[j].last = (c.to - j = Len(c.name.segs))
  BY DEF StoredPart, Lfn

\* No part comes before the entry that is written, but for those of the call.
LEMMA StoreBefore ==
    ASSUME Basic, Store, Linked(tbl, Stored), NEW i \in 1 .. Len(tbl), i \notin Stored,
           tbl[i].kind = "lfn"
    PROVE  i + 1 # call.at
<1>1. call.at \in Nat /\ call.to \in Nat /\ call.at <= call.to
  BY StoreRange DEF Store
<1>2. \A j \in call.at .. call.to : tbl[j].kind \in {"end", "del"}
  BY DEF Store, Basic, StoreFits
<1>3. Followed(tbl, i)
  BY DEF Linked
<1> SUFFICES ASSUME i + 1 = call.at  PROVE FALSE
  OBVIOUS
<1>4. tbl[i + 1].kind \in {"end", "del"}
  BY <1>1, <1>2
<1> QED BY <1>3, <1>4 DEF Followed

\* The parts that are stored are linked with the short entry, when that is stored.
LEMMA StoredFollowed ==
    ASSUME Basic, Store, call.at = call.to, NEW i \in Stored,
           \A j \in Stored : StoredPart(tbl, call, j)
    PROVE  Followed(tbl', i)
<1>1. /\ First \in Nat /\ call.at \in Nat /\ call.to \in Nat /\ Len(tbl) \in Nat
      /\ 1 <= First /\ First <= call.at /\ call.at <= call.to /\ call.to <= Len(tbl)
      /\ call.name.lfn = TRUE => First = call.to - Len(call.name.segs)
      /\ call.name.lfn = FALSE => First = call.to
  BY StoreRange DEF Store
<1>2. /\ NextEntry \in Entries /\ PutStep(NextEntry) /\ NextEntry.kind = "sfn"
  BY StoreIs
<1>3. /\ Len(tbl') = Len(tbl) /\ tbl'[call.at] = NextEntry
      /\ \A j \in 1 .. Len(tbl) : j # call.at => tbl'[j] = tbl[j]
  BY <1>2, PutTypes
<1>4. Stored = First .. call.at - 1
  BY DEF Stored, Store
<1>5. i \in First .. call.to - 1 /\ i \in Nat
  BY <1>1, <1>4
<1>6. call.name \in Names /\ call.name.lfn = TRUE
  <2>1. call.name \in Names
    BY CallIs DEF Store, Basic, Types
  <2>2. call.name.lfn # FALSE
    <3> SUFFICES ASSUME call.name.lfn = FALSE  PROVE FALSE
      OBVIOUS
    <3>1. First = call.to
      BY <1>1
    <3> QED BY <1>1, <1>5, <3>1
  <2> QED BY <2>1, <2>2, NameType
<1>7. PICK L \in 1 .. 254 : L = Len(call.name.segs)
  BY <1>6, NameLen
<1>8. First = call.to - L
  BY <1>1, <1>6, <1>7
<1>9. tbl'[i].ord = call.to - i
  <2>1. tbl[i].ord = call.to - i
    BY PartFields
  <2>2. i \in 1 .. Len(tbl) /\ i # call.at
    BY <1>1, <1>5
  <2> QED BY <1>3, <2>1, <2>2
<1>10. i < Len(tbl')
  BY <1>1, <1>3, <1>5
<1>11. CASE i + 1 = call.to
  <2>1. tbl'[i].ord = 1
    BY <1>1, <1>5, <1>9, <1>11
  <2>2. tbl'[i + 1].kind = "sfn"
    BY <1>2, <1>3, <1>11
  <2> QED BY <1>10, <2>1, <2>2 DEF Followed
<1>12. CASE i + 1 # call.to
  <2>1. PICK x \in Nat : x = i + 1
    BY <1>5
  <2>2. x \in First .. call.at - 1 /\ x \in 1 .. Len(tbl) /\ x # call.at
    BY <1>1, <1>5, <1>12, <2>1
  <2>3. StoredPart(tbl, call, x)
    BY <1>4, <2>2
  <2>4. tbl[x].kind = "lfn" /\ tbl[x].ord = call.to - x /\ tbl[x].last = (call.to - x = L)
    <3>1. /\ tbl[x].kind = "lfn" /\ tbl[x].ord = call.to - x
          /\ tbl[x].last = (call.to - x = Len(call.name.segs))
      BY <2>3, PartFields
    <3> QED BY <1>7, <3>1
  <2>5. call.to - x # L /\ call.to - x = (call.to - i) - 1 /\ call.to - i # 1
    BY <1>1, <1>5, <1>8, <1>12, <2>1
  <2>6. tbl[x].last = FALSE
    BY <2>4, <2>5
  <2>7. tbl'[x] = tbl[x]
    BY <1>3, <2>2
  <2>8. tbl'[i + 1].kind = "lfn" /\ tbl'[i + 1].ord = tbl'[i].ord - 1 /\ tbl'[i + 1].last = FALSE
    BY <1>9, <2>1, <2>4, <2>5, <2>6, <2>7
  <2> QED BY <1>9, <1>10, <2>5, <2>8 DEF Followed
<1> QED BY <1>11, <1>12

\* The name of the object that has been registered.
LEMMA StoredNamed ==
    ASSUME Basic, Store, call.at = call.to, Linked(tbl, Stored),
           \A j \in Stored : StoredPart(tbl, call, j)
    PROVE  Named(tbl', call.to, call.name)
<1>1. /\ First \in Nat /\ call.at \in Nat /\ call.to \in Nat /\ Len(tbl) \in Nat
      /\ 1 <= First /\ First <= call.at /\ call.at <= call.to /\ call.to <= Len(tbl)
      /\ call.name.lfn = TRUE => First = call.to - Len(call.name.segs)
      /\ call.name.lfn = FALSE => First = call.to
  BY StoreRange DEF Store
<1>2. NextEntry \in Entries /\ PutStep(NextEntry)
  BY StoreIs
<1>3. /\ Len(tbl') = Len(tbl) /\ tbl'[call.at] = NextEntry
      /\ \A j \in 1 .. Len(tbl) : j # call.at => tbl'[j] = tbl[j]
  BY <1>2, PutTypes
<1>4. IsSfn(NextEntry, call.short, call.id)
  BY NextEntryIs DEF Store
<1>5. tbl'[call.to].short = call.short
  BY <1>3, <1>4 DEF IsSfn
<1>6. call.name.loss = TRUE \/ call.short = call.name.short
  BY DEF Store, Basic, NewObject, Registering
<1>7. call.name \in Names
  BY CallIs DEF Store, Basic, Types
<1>8. Stored = First .. call.at - 1
  BY DEF Stored, Store
<1>9. CASE call.name.lfn = TRUE
  <2>1. PICK L \in 1 .. 254 : L = Len(call.name.segs)
    BY <1>7, NameLen
  <2>2. First = call.to - L /\ L < call.to
    <3>1. First = call.to - Len(call.name.segs)
      BY <1>1, <1>9
    <3>2. First = call.to - L
      BY <2>1, <3>1
    <3> QED BY <1>1, <3>2
  <2>3. ASSUME NEW k \in 1 .. L
        PROVE  tbl'[call.to - k] = Lfn(call.name.segs[k], k, k = L, Sum[call.short])
    <3>1. PICK x \in First .. call.at - 1 : x = call.to - k
      BY <1>1, <2>2
    <3>2. x \in 1 .. Len(tbl) /\ x # call.at /\ call.to - x = k
      BY <1>1, <2>2, <3>1
    <3>3. StoredPart(tbl, call, x)
      BY <1>8, <3>1
    <3>4. tbl[x] = Lfn(call.name.segs[k], k, k = L, Sum[call.short])
      BY <2>1, <3>2, <3>3 DEF StoredPart
    <3> QED BY <1>3, <3>1, <3>2, <3>4
  <2>4. Parts(tbl', call.to, call.name.segs, L, Sum[call.short])
    BY <2>3 DEF Parts
  <2> QED BY <1>5, <1>6, <1>9, <2>1, <2>2, <2>4 DEF Named
<1>10. CASE call.name.lfn = FALSE
  <2>1. Stored = {}
    BY <1>1, <1>8, <1>10
  <2>2. call.to = 1 \/ tbl'[call.to - 1].kind # "lfn"
    <3> SUFFICES ASSUME call.to # 1, tbl'[call.to - 1].kind = "lfn"  PROVE FALSE
      OBVIOUS
    <3>1. PICK x \in 1 .. Len(tbl) : x = call.to - 1
      BY <1>1
    <3>2. x # call.at /\ x + 1 = call.at
      BY <1>1, <3>1
    <3>3. tbl[x].kind = "lfn"
      BY <1>3, <3>1, <3>2
    <3> QED BY <2>1, <3>2, <3>3, StoreBefore
  <2> QED BY <1>5, <1>6, <1>10, <2>2 DEF Named
<1> QED BY <1>7, <1>9, <1>10, NameType

\* Store keeps the names whole.
LEMMA WholeStore ==
    ASSUME Basic, NamesWhole, Store
    PROVE  NamesWhole'
<1>1. /\ NextEntry \in Entries /\ PutStep(NextEntry) /\ NextEntry.kind \in {"sfn", "lfn"}
      /\ NextEntry.kind = "sfn" <=> call.at = call.to
  BY StoreIs
<1>2. /\ call.at \in 1 .. Len(tbl) /\ call.to \in call.at .. Len(tbl)
      /\ Len(tbl) \in Nat /\ call.at \in Nat /\ call.to \in Nat
      /\ tbl' \in Seq(Entries) /\ Len(tbl') = Len(tbl) /\ tbl'[call.at] = NextEntry
      /\ \A j \in 1 .. Len(tbl) : j # call.at => tbl'[j] = tbl[j]
      /\ IF call.at = call.to THEN call' = Idle
         ELSE /\ call'.op = call.op /\ call'.at = call.at + 1 /\ call'.to = call.to
              /\ call'.id = call.id
              /\ call.op = "store" => call'.name = call.name /\ call'.short = call.short
  BY <1>1, PutTypes
<1>3. call.op = "store" /\ UNCHANGED torn
  BY DEF Store
<1>4. tbl \in Seq(Entries) /\ call.name \in Names
  BY <1>3, CallIs DEF Basic, Types
<1>5. First \in Nat /\ First <= call.at
  BY <1>3, StoreRange
<1>6. call'.op \in {"idle", "store"} /\ Base = tbl /\ Base' = tbl' /\ Leaving = {} /\ Leaving' = {}
      /\ Registering /\ Stored = First .. call.at - 1
  <2>1. call'.op \in {"idle", "store"}
    BY <1>2, <1>3, CallsMade
  <2> QED BY <1>3, <2>1 DEF Base, Leaving, Registering, Stored
<1> DEFINE Good == /\ Linked(tbl, Stored) /\ AllNamed(tbl, {}) /\ NamesDiffer(tbl, {})
                   /\ NotNamed(tbl, {}, call.name)
                   /\ \A j \in Stored : StoredPart(tbl, call, j)
<1>7. torn = "" => Good
  BY <1>6 DEF NamesWhole
<1>8. ASSUME Good
      PROVE  AllNamed(tbl', {call.at}) /\ NamesDiffer(tbl', {call.at}) /\ NotNamed(tbl', {call.at}, call.name)
  <2>1. Spans(tbl, tbl', {}, {call.at})
    BY StoreSpans
  <2> QED BY <1>2, <1>4, <1>8, <2>1, SameNames
<1>9. ASSUME Good, NEW i \in 1 .. Len(tbl), i \notin Stored, i # call.at, tbl'[i].kind = "lfn"
      PROVE  i + 1 # call.at
  <2>1. tbl[i].kind = "lfn"
    BY <1>2, <1>9
  <2> QED BY <1>9, <2>1, StoreBefore
<1>10. CASE call.at = call.to
  <2>1. call' = Idle /\ Stored' = {} /\ ~ Registering' /\ call'.op = "idle"
    BY <1>2, <1>10, CallsMade DEF Stored, Registering
  <2>2. tbl'[call.at].kind = "sfn"
    BY <1>1, <1>2, <1>10
  <2>3. ASSUME Good  PROVE Linked(tbl', {})
    <3>1. ASSUME NEW i \in 1 .. Len(tbl), tbl'[i].kind = "lfn"
          PROVE  /\ i # call.at /\ (i \notin Stored \/ Followed(tbl', i))
                 /\ (i + 1 = call.at => Followed(tbl', i))
      <4>1. i # call.at
        BY <2>2, <3>1
      <4>2. CASE i \in Stored
        <5>1. Followed(tbl', i)
          BY <1>10, <2>3, <4>2, StoredFollowed
        <5> QED BY <4>1, <5>1
      <4>3. CASE i \notin Stored
        BY <1>9, <2>3, <3>1, <4>1, <4>3
      <4> QED BY <4>2, <4>3
    <3>2. PutLinks(tbl, tbl', call.at, Stored, {})
      BY <1>2, <3>1 DEF PutLinks
    <3> QED BY <1>4, <2>3, <3>2, PutLinked
  <2>4. ASSUME Good  PROVE Named(tbl', call.at, call.name)
    BY <1>10, <2>4, StoredNamed
  <2>5. ASSUME NEW i \in Objs(tbl', {}), i # call.at  PROVE i \in Objs(tbl', {call.at})
    BY <2>5 DEF Objs
  <2>6. ASSUME Good  PROVE AllNamed(tbl', {})
    <3> SUFFICES ASSUME NEW i \in Objs(tbl', {})  PROVE \E n \in Names : Named(tbl', i, n)
      BY DEF AllNamed
    <3>1. CASE i = call.at
      BY <1>4, <2>4, <2>6, <3>1
    <3>2. CASE i # call.at
      BY <1>8, <2>5, <2>6, <3>2 DEF AllNamed
    <3> QED BY <3>1, <3>2
  <2>7. ASSUME Good  PROVE NamesDiffer(tbl', {})
    <3>1. ASSUME NEW i \in Objs(tbl', {}), NEW n \in Names, Named(tbl', i, n), i # call.at
          PROVE  ~ Named(tbl', call.at, n)
      <4> SUFFICES ASSUME Named(tbl', call.at, n)  PROVE FALSE
        OBVIOUS
      <4>1. n = call.name
        BY <1>2, <1>4, <2>4, <2>7, NamedOnce
      <4>2. ~ Named(tbl', i, call.name)
        BY <1>8, <2>5, <2>7, <3>1 DEF NotNamed
      <4> QED BY <3>1, <4>1, <4>2
    <3> SUFFICES ASSUME NEW i \in Objs(tbl', {}), NEW j \in Objs(tbl', {}), NEW n \in Names,
                        Named(tbl', i, n), Named(tbl', j, n), i # j
                 PROVE  FALSE
      BY DEF NamesDiffer
    <3>2. CASE i = call.at \/ j = call.at
      BY <3>1, <3>2
    <3>3. CASE i # call.at /\ j # call.at
      BY <1>8, <2>5, <2>7, <3>3 DEF NamesDiffer
    <3> QED BY <3>2, <3>3
  <2>8. torn = "" => Linked(tbl', {}) /\ AllNamed(tbl', {}) /\ NamesDiffer(tbl', {})
    BY <1>7, <2>3, <2>6, <2>7
  <2> QED BY <1>3, <1>6, <2>1, <2>8 DEF NamesWhole
<1>11. CASE call.at # call.to
  <2>1. /\ call'.op = "store" /\ call'.at = call.at + 1 /\ call'.to = call.to
        /\ call'.name = call.name /\ call'.short = call.short /\ NextEntry.kind = "lfn"
    BY <1>1, <1>2, <1>3, <1>11
  <2>2. First' = First
    BY <2>1 DEF First
  <2>3. Stored' = First .. call.at
    <3>1. Stored' = First .. (call.at + 1) - 1
      BY <2>1, <2>2 DEF Stored
    <3> QED BY <1>2, <1>5, <3>1
  <2>4. \A i : i \in Stored' <=> i \in Stored \/ i = call.at
    BY <1>2, <1>5, <1>6, <2>3
  <2>5. ASSUME Good  PROVE Linked(tbl', Stored')
    <3>1. ASSUME NEW i \in 1 .. Len(tbl), i \notin Stored', tbl'[i].kind = "lfn"
          PROVE  i # call.at /\ i \notin Stored /\ i + 1 # call.at
      BY <1>9, <2>4, <2>5, <3>1
    <3>2. PutLinks(tbl, tbl', call.at, Stored, Stored')
      BY <1>2, <3>1 DEF PutLinks
    <3> QED BY <1>4, <2>5, <3>2, PutLinked
  <2>6. Objs(tbl', {call.at}) = Objs(tbl', {})
    BY <1>2, <2>1 DEF Objs
  <2>7. ASSUME Good, NEW j \in Stored'  PROVE StoredPart(tbl', call', j)
    <3>1. CASE j = call.at
      <4>1. PICK o \in 1 .. 254 : o = call.to - call.at
        BY <1>3, <1>11, NextEntryIs
      <4>2. o # 0
        BY <4>1
      <4>3. NextEntry = IF o = 0 THEN Sfn(call.short, call.id)
                        ELSE Lfn(call.name.segs[o], o, o = Len(call.name.segs), Sum[call.short])
        BY <4>1, Zenon DEF NextEntry
      <4>4. NextEntry = Lfn(call.name.segs[o], o, o = Len(call.name.segs), Sum[call.short])
        BY <4>2, <4>3, Zenon
      <4> QED BY <1>2, <2>1, <3>1, <4>1, <4>4 DEF StoredPart
    <3>2. CASE j # call.at
      <4>1. j \in Stored /\ j \in 1 .. Len(tbl)
        <5>1. j \in Stored
          BY <2>4, <2>7, <3>2
        <5>2. 1 <= First
          BY <1>3, StoreRange
        <5> QED BY <1>2, <1>5, <1>6, <5>1, <5>2
      <4>2. StoredPart(tbl, call, j)
        BY <2>7, <4>1
      <4>3. tbl'[j] = tbl[j]
        BY <1>2, <3>2, <4>1
      <4> QED BY <2>1, <4>2, <4>3 DEF StoredPart
    <3> QED BY <3>1, <3>2
  <2>8. ASSUME Good
        PROVE  AllNamed(tbl', {}) /\ NamesDiffer(tbl', {}) /\ NotNamed(tbl', {}, call'.name)
    BY <1>8, <2>1, <2>6, <2>8 DEF AllNamed, NamesDiffer, NotNamed
  <2>9. torn = "" => /\ Linked(tbl', Stored') /\ AllNamed(tbl', {}) /\ NamesDiffer(tbl', {})
                     /\ NotNamed(tbl', {}, call'.name)
                     /\ \A j \in Stored' : StoredPart(tbl', call', j)
    BY <1>7, <2>5, <2>7, <2>8
  <2> HIDE DEF Good
  <2> QED BY <1>3, <1>6, <2>1, <2>9 DEF NamesWhole
<1> QED BY <1>10, <1>11

\* The names are whole at first.
LEMMA WholeInit ==
    ASSUME Init
    PROVE  NamesWhole
<1>1. tbl = [i \in 1 .. MinLen |-> End] /\ call = Idle
  BY DEF Init
<1>2. call.op = "idle" /\ Base = tbl /\ ~ Registering
  BY <1>1, CallsMade DEF Base, Registering
<1>3. \A i \in 1 .. Len(tbl) : tbl[i].kind = "end"
  <2>1. tbl \in Seq(Entries) /\ Basic
    BY BasicInit DEF Basic, Types
  <2>2. DOMAIN tbl = 1 .. MinLen /\ DOMAIN tbl = 1 .. Len(tbl)
    BY <1>1, <2>1, LenProperties
  <2> QED BY <1>1, <2>2, FreeWritten
<1>4. Linked(tbl, Stored) /\ Objs(tbl, Leaving) = {}
  BY <1>3 DEF Linked, Objs
<1>5. Stored = {}
  BY <1>2 DEF Stored
<1>6. AllNamed(Base, Leaving) /\ NamesDiffer(Base, Leaving)
  BY <1>2, <1>4 DEF AllNamed, NamesDiffer
<1> QED BY <1>2, <1>4, <1>5, <1>6 DEF NamesWhole

\* Every step keeps them whole.
LEMMA WholeNext ==
    ASSUME Basic, Apart, NamesWhole, [Next]_vars
    PROVE  NamesWhole'
<1>1. CASE UNCHANGED vars
  BY <1>1 DEF vars, NamesWhole, Base, Cleared, Registering, Stored, Leaving, First
<1>2. CASE Start
  <2>1. ASSUME NEW nm \in Names, NEW id \in Ids, Register(nm, id)  PROVE NamesWhole'
    BY <2>1, WholeRegister
  <2>2. ASSUME NEW nm \in Known, Remove(nm)  PROVE NamesWhole'
    BY <2>2, WholeRemove
  <2>3. CASE OpenDir \/ ReadDirEnds \/ \E i \in 1 .. MaxLen : ReadDir(i)
    <3>1. UNCHANGED <<tbl, call, torn>>
      BY <2>3 DEF OpenDir, ReadDirEnds, ReadDir
    <3> QED BY <3>1 DEF NamesWhole, Base, Cleared, Registering, Stored, Leaving, First
  <2> QED BY <1>2, <2>1, <2>2, <2>3 DEF Start
<1>3. CASE Stretch
  BY <1>3, WholeStretch
<1>4. CASE Clear
  BY <1>4, WholeClear
<1>5. CASE ClearFails \/ AccessFails \/ PowerCut
  <2>1. torn' \in {"name", "cluster"}
    BY <1>5 DEF ClearFails, AccessFails, PowerCut
  <2> QED BY <2>1 DEF NamesWhole
<1>6. CASE Store
  BY <1>6, WholeStore
<1>7. CASE Mark
  BY <1>7, WholeMark
<1>8. CASE StretchFails \/ Evict
  <2>1. call.op \in {"idle", "link"} /\ call' = Idle /\ UNCHANGED tbl /\ UNCHANGED torn
    BY <1>8, CallsMade DEF StretchFails, Evict
  <2>2. call'.op = "idle" /\ call' \in Calls /\ Base' = Base /\ ~ Registering'
    BY <2>1, CallsMade DEF Base, Registering
  <2> QED BY <2>1, <2>2, WholeQuiet
<1> QED BY <1>1, <1>2, <1>3, <1>4, <1>5, <1>6, <1>7, <1>8 DEF Next

\* Until a fault each object has a whole name that no other object has, also while
\* a name is being registered or removed entry by entry.
THEOREM NamesStayWhole == Spec => []NamesWhole
<1>1. Init => NamesWhole
  BY WholeInit
<1>2. Basic /\ Apart /\ NamesWhole /\ [Next]_vars => NamesWhole'
  BY WholeNext
<1> QED BY <1>1, <1>2, TableIsKnown, ObjectsStayApart, PTL DEF Spec

\* A program that gives a listed name back asks for the name the object has.
LEMMA GivenBack ==
    ASSUME NEW n \in Names
    PROVE  AsGood(AsGiven(n.segs), n)
<1>1. n.loss \in BOOLEAN
  BY NameType
<1>2. ASSUME NEW s \in Shorts, n.segs = <<s>>  PROVE AsGood(AsGiven(n.segs), n)
  <2>1. n.short = s /\ n.loss = FALSE
    <3>1. n.short = s /\ ~ n.loss
      BY <1>2, NameAssumption
    <3> QED BY <1>1, <3>1
  <2>2. n.segs[1] = s
    BY <1>2
  <2>3. AsGiven(n.segs) = ShortName(s)
    BY <1>2, <2>2, Zenon DEF AsGiven
  <2>4. /\ ShortName(s).segs = <<s>> /\ ShortName(s).short = s
        /\ ShortName(s).loss = FALSE
    BY DEF ShortName
  <2> QED BY <1>2, <2>1, <2>3, <2>4 DEF AsGood
<1>3. ASSUME ~ \E s \in Shorts : n.segs = <<s>>  PROVE AsGood(AsGiven(n.segs), n)
  <2>1. AsGiven(n.segs) = CHOOSE nm \in Names : nm.segs = n.segs
    BY <1>3, Zenon DEF AsGiven
  <2>2. AsGiven(n.segs) \in Names /\ AsGiven(n.segs).segs = n.segs
    BY <2>1, Zenon
  <2>3. AsGiven(n.segs) = n
    BY <2>2, NameOnly
  <2> QED BY <2>3 DEF AsGood
<1> QED BY <1>2, <1>3

\* Where every object has a name of its own, each is found under the name that a
\* listing shows for it.
LEMMA ListedFound ==
    ASSUME NEW t \in Seq(Entries), Sound(t), AllNamed(t, {}), NamesDiffer(t, {}),
           NEW i \in Visible(t)
    PROVE  Find(t, AsGiven(ListedAs(t, i))).hit = i
<1>1. i \in 1 .. Len(t) /\ t[i].kind = "sfn" /\ i \in Objs(t, {})
  BY DEF Visible, Objs
<1>2. PICK n \in Names : Named(t, i, n)
  BY <1>1 DEF AllNamed
<1>3. ListedAs(t, i) = n.segs
  BY <1>1, <1>2, ListedNamed
<1>4. AsGood(AsGiven(n.segs), n)
  BY GivenBack
<1>5. OthersBefore(t, i, n)
  BY <1>1, <1>2, OthersDiffer
<1>6. Find(t, AsGiven(n.segs)).hit = i
  BY <1>2, <1>4, <1>5, FindsNamed
<1> QED BY <1>3, <1>6

\* What a listing shows can be opened and removed, each short name is one object's,
\* and nothing of an earlier use of a cluster is seen, whatever was registered and
\* removed before, until a fault takes the reason away.
LEMMA InvariantsSound ==
    ASSUME Basic, Apart, NamesWhole
    PROVE  DirectorySound
<1>1. tbl \in Seq(Entries)
  BY DEF Basic, Types
<1>2. ASSUME Whole  PROVE Sound(tbl)
  <2>1. Base = tbl
    BY <1>2 DEF Whole, Base
  <2> QED BY <1>2, <2>1 DEF Whole, Apart
<1>3. ShortNamesDiffer
  <2> SUFFICES ASSUME Whole, NEW i \in Visible(tbl), NEW j \in Visible(tbl),
                      tbl[i].short = tbl[j].short
               PROVE  i = j
    BY DEF ShortNamesDiffer
  <2> QED BY <1>2 DEF Sound, OwnShort, Visible
<1>4. NoStaleEntries
  <2> SUFFICES ASSUME Whole, NEW i \in Visible(tbl)
               PROVE  tbl[i].id # Ghost
    BY DEF NoStaleEntries, Live
  <2> QED BY <1>2 DEF Sound, NoGhost, Visible
<1>5. FoundAsListed
  <2>1. call = Idle => call.op = "idle"
    BY CallsMade
  <2>2. call = Idle => Base = tbl /\ Leaving = {}
    BY <2>1 DEF Base, Leaving
  <2>3. torn = "" => torn # "cluster"
    OBVIOUS
  <2>4. torn = "" /\ call = Idle => Sound(tbl)
    BY <1>2, <2>1, <2>3 DEF Whole
  <2>5. torn = "" /\ call = Idle => AllNamed(tbl, {}) /\ NamesDiffer(tbl, {})
    BY <2>2 DEF NamesWhole
  <2>6. ASSUME Sound(tbl), AllNamed(tbl, {}), NamesDiffer(tbl, {})
        PROVE  \A i \in Visible(tbl) : Find(tbl, AsGiven(ListedAs(tbl, i))).hit = i
    BY <1>1, <2>6, ListedFound
  <2> QED BY <2>4, <2>5, <2>6 DEF FoundAsListed
<1> QED BY <1>3, <1>4, <1>5 DEF DirectorySound

\* A directory is sound in every state: an object that is listed is found under
\* the listed name and only it, no two objects have one short name, and no entry of
\* an earlier use of a cluster is seen before a fault leaves it there.
THEOREM DirectoryStaysSound == Spec => []DirectorySound
<1>1. Basic /\ Apart /\ NamesWhole => DirectorySound
  BY InvariantsSound
<1> QED BY <1>1, TableIsKnown, ObjectsStayApart, NamesStayWhole, PTL
===============================================================================
