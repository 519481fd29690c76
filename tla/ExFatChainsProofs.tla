--------------------------- MODULE ExFatChainsProofs ---------------------------
(***************************************************************************)
(* Proof that on an exFAT volume following a chain by its status gives the *)
(* clusters its object was given, and that the bitmap has just these: for  *)
(* every size of volume and every number of files and directories.         *)
(***************************************************************************)
EXTENDS ExFatChains, TLAPS, FiniteSetTheorems, SequenceTheorems, WellFoundedInduction
-----------------------------------------------------------------------------
(* Numbers *)

\* The constants' types.
LEMMA Constants ==
    /\ N \in Nat /\ N >= 4 /\ EOC = N + 1 /\ MaxSize \in Nat \ {0}
    /\ Clusters \subseteq Nat /\ EOC \notin Clusters /\ 0 \notin Clusters /\ 1 \notin Clusters
    /\ \A c : c \in Clusters <=> c \in Nat /\ c >= 2 /\ c <= N - 1
    /\ \A x \in Dirs : x \notin Files
  BY SizeAssumption DEF Clusters, EOC

\* Every nonempty set of naturals has a least element.
LEMMA Least ==
    ASSUME NEW S \in SUBSET Nat, S # {}
    PROVE  \E x \in S : \A y \in S : x <= y
<1> DEFINE R == OpToRel(<, Nat)
<1>1. IsWellFoundedOn(R, Nat)
  BY NatLessThanWellFounded
<1>2. \A x, y \in Nat : x < y => <<x, y>> \in R
  BY DEF OpToRel
<1> HIDE DEF R
<1>3. PICK x \in S : \A y \in S : ~ (<<y, x>> \in R)
  BY <1>1, WFMin
<1>4. ASSUME NEW y \in S  PROVE x <= y
  <2>1. x \in Nat /\ y \in Nat /\ ~ (y < x)
    BY <1>2, <1>3
  <2> QED BY <2>1
<1> QED BY <1>3, <1>4

\* The clusters of s are different.
Differ(s) == \A i, j \in 1 .. Len(s) : s[i] = s[j] => i = j

\* A sequence of different clusters is no longer than there are clusters.
LEMMA FewClusters ==
    ASSUME NEW s \in Seq(Clusters), Differ(s)
    PROVE  Len(s) <= N - 2
<1> USE Constants
<1>1. s \in [1 .. Len(s) -> Clusters] /\ Len(s) \in Nat
  BY LenProperties
<1>2. s \in Injection(1 .. Len(s), Clusters)
  BY <1>1 DEF Differ, Injection, IsInjective
<1>3. IsFiniteSet(Clusters) /\ Cardinality(Clusters) = N - 2
  BY FS_Interval DEF Clusters
<1>4. Cardinality(1 .. Len(s)) = Len(s)
  <2>1. 1 \in Int /\ Len(s) \in Int
    BY <1>1
  <2>2. Cardinality(1 .. Len(s)) = IF 1 > Len(s) THEN 0 ELSE Len(s) - 1 + 1
    BY <2>1, FS_Interval
  <2> QED BY <1>1, <2>2
<1> QED BY <1>2, <1>3, <1>4, FS_Injection
-----------------------------------------------------------------------------
(* Following a chain *)

\* What get_fat reads by the status of the chain.
LEMMA GetFatIs ==
    ASSUME NEW v, NEW o, NEW c \in Clusters, o.size # 0, o.sclust \in Nat, o.size \in Nat,
           o.n_cont \in Nat, o.stat \in {0, 2, 3}
    PROVE  /\ o.stat = 0 => GetFat(v, o, c) = v.fat[c]
           /\ o.stat = 2 /\ c - o.sclust \in 0 .. o.size - 1 =>
                GetFat(v, o, c) = IF c - o.sclust = o.size - 1 THEN EOC ELSE c + 1
           /\ o.stat = 3 /\ c - o.sclust \in 0 .. o.n_cont - 1 => GetFat(v, o, c) = c + 1
           /\ o.stat = 3 /\ c - o.sclust \notin 0 .. o.n_cont - 1 => GetFat(v, o, c) = v.fat[c]
<1> USE Constants
<1>1. CASE o.stat = 0
  BY <1>1 DEF GetFat
<1>2. CASE o.stat = 2
  <2>1. o.stat # 0 /\ o.stat # 3
    BY <1>2
  <2>2. ASSUME c - o.sclust \in 0 .. o.size - 1
        PROVE  GetFat(v, o, c) = IF c - o.sclust = o.size - 1 THEN EOC ELSE c + 1
    BY <1>2, <2>2 DEF GetFat
  <2> QED BY <2>1, <2>2
<1>3. CASE o.stat = 3
  BY <1>3 DEF GetFat
<1> QED BY <1>1, <1>2, <1>3

\* The values that following the chain of o from s[1] in v gives, when it is s.
Leads(v, o, s) ==
    \A i \in 1 .. Len(s) : GetFat(v, o, s[i]) = IF i = Len(s) THEN EOC ELSE s[i + 1]

\* w is the function that Walk(v, o, c) takes its value from.
WalkRec(v, o, c, w) ==
    w = [i \in 0 .. N |->
           IF i = 0 THEN <<c>>
           ELSE LET u == w[i - 1]
                IN  IF u[Len(u)] \in Clusters THEN Append(u, GetFat(v, o, u[Len(u)])) ELSE u]

\* The first i + 1 of the values s and EOC.
Start(s, i) == IF i < Len(s) THEN SubSeq(s, 1, i + 1) ELSE Append(s, EOC)

\* What they are.
LEMMA StartIs ==
    ASSUME NEW s \in Seq(Clusters), s # <<>>, NEW i \in Nat
    PROVE  /\ i = 0 => Start(s, i) = <<s[1]>>
           /\ i < Len(s) => /\ Len(Start(s, i)) = i + 1 /\ Start(s, i)[i + 1] = s[i + 1]
                            /\ s[i + 1] \in Clusters
           /\ i >= Len(s) => /\ Len(Start(s, i)) = Len(s) + 1
                             /\ Start(s, i)[Len(s) + 1] = EOC
           /\ i + 1 < Len(s) => Start(s, i + 1) = Append(Start(s, i), s[i + 2])
           /\ i + 1 = Len(s) => Start(s, i + 1) = Append(Start(s, i), EOC)
           /\ i >= Len(s) => Start(s, i + 1) = Start(s, i)
<1> USE Constants
<1>1. Len(s) \in Nat /\ Len(s) # 0 /\ \A j \in 1 .. Len(s) : s[j] \in Clusters
  BY EmptySeq, LenProperties, ElementOfSeq
<1>2. ASSUME NEW j \in Nat, j < Len(s)
      PROVE  /\ SubSeq(s, 1, j + 1) \in Seq(Clusters) /\ Len(SubSeq(s, 1, j + 1)) = j + 1
             /\ \A k \in 1 .. j + 1 : SubSeq(s, 1, j + 1)[k] = s[k]
  BY <1>1, <1>2, SMT
<1>3. Len(Append(s, EOC)) = Len(s) + 1 /\ Append(s, EOC)[Len(s) + 1] = EOC
  BY <1>1, SMT
<1>4. ASSUME i = 0  PROVE Start(s, i) = <<s[1]>>
  <2>1. Start(s, i) = SubSeq(s, 1, 1)
    BY <1>1, <1>4 DEF Start
  <2>2. /\ SubSeq(s, 1, 1) \in Seq(Clusters) /\ Len(SubSeq(s, 1, 1)) = 1
        /\ SubSeq(s, 1, 1)[1] = s[1]
    BY <1>1, <1>2, 0 \in Nat, 0 < Len(s), 0 + 1 = 1
  <2>3. <<s[1]>> \in Seq(Clusters) /\ Len(<<s[1]>>) = 1 /\ <<s[1]>>[1] = s[1]
    BY <1>1
  <2>4. \A k \in 1 .. 1 : SubSeq(s, 1, 1)[k] = <<s[1]>>[k]
    BY <2>2, <2>3
  <2> QED BY <2>1, <2>2, <2>3, <2>4, SeqEqual
<1>5. ASSUME i < Len(s)
      PROVE  /\ Len(Start(s, i)) = i + 1 /\ Start(s, i)[i + 1] = s[i + 1]
             /\ s[i + 1] \in Clusters
  <2>1. Start(s, i) = SubSeq(s, 1, i + 1) /\ i + 1 \in 1 .. i + 1 /\ i + 1 \in 1 .. Len(s)
    BY <1>1, <1>5 DEF Start
  <2> QED BY <2>1, <1>1, <1>2, <1>5
<1>6. ASSUME i >= Len(s)
      PROVE  /\ Start(s, i) = Append(s, EOC) /\ Start(s, i + 1) = Append(s, EOC)
  <2>1. ~(i < Len(s)) /\ ~(i + 1 < Len(s))
    BY <1>1, <1>6
  <2> QED BY <2>1 DEF Start
<1>7. ASSUME i + 1 < Len(s)  PROVE Start(s, i + 1) = Append(Start(s, i), s[i + 2])
  <2>1. Start(s, i + 1) = SubSeq(s, 1, i + 2) /\ Start(s, i) = SubSeq(s, 1, i + 1)
    BY <1>1, <1>7 DEF Start
  <2> DEFINE p == SubSeq(s, 1, i + 1)
             q == SubSeq(s, 1, i + 2)
             a == Append(p, s[i + 2])
  <2>2. p \in Seq(Clusters) /\ Len(p) = i + 1 /\ \A k \in 1 .. i + 1 : p[k] = s[k]
    BY <1>2, <1>7, <1>1
  <2>3. q \in Seq(Clusters) /\ Len(q) = i + 2 /\ \A k \in 1 .. i + 2 : q[k] = s[k]
    BY <1>2, <1>7, <1>1, i + 1 \in Nat, i + 1 < Len(s), (i + 1) + 1 = i + 2
  <2>4. s[i + 2] \in Clusters
    BY <1>1, <1>7
  <2> HIDE DEF p, q
  <2>5. a \in Seq(Clusters) /\ Len(a) = i + 2 /\ \A k \in 1 .. i + 2 : a[k] = s[k]
    <3>1. a \in Seq(Clusters) /\ Len(a) = Len(p) + 1 /\ a[Len(p) + 1] = s[i + 2]
          /\ \A k \in 1 .. Len(p) : a[k] = p[k]
      BY <2>2, <2>4
    <3>2. Len(p) + 1 = i + 2
      BY <2>2
    <3>3. ASSUME NEW k \in 1 .. i + 2  PROVE a[k] = s[k]
      <4>1. k = i + 2 \/ k \in 1 .. i + 1
        OBVIOUS
      <4> QED BY <4>1, <3>1, <3>2, <2>2
    <3> HIDE DEF a
    <3> QED BY <3>1, <3>2, <3>3
  <2>6. a = q
    BY <2>3, <2>5, SeqEqual
  <2> QED BY <2>1, <2>6 DEF p, q
<1>8. ASSUME i + 1 = Len(s)  PROVE Start(s, i + 1) = Append(Start(s, i), EOC)
  <2>1. Start(s, i + 1) = Append(s, EOC) /\ Start(s, i) = SubSeq(s, 1, Len(s))
    BY <1>1, <1>8 DEF Start
  <2>2. SubSeq(s, 1, Len(s)) = s
    BY SubSeqFull
  <2> QED BY <2>1, <2>2
<1> QED BY <1>3, <1>4, <1>5, <1>6, <1>7, <1>8

\* get_fat takes u to w, if u has not come to an end.
Onward(v, o, u, w) ==
    w = IF u[Len(u)] \in Clusters THEN Append(u, GetFat(v, o, u[Len(u)])) ELSE u

\* One step of the walk.
LEMMA StartNext ==
    ASSUME NEW v, NEW o, NEW s \in Seq(Clusters), s # <<>>, Leads(v, o, s), NEW i \in Nat
    PROVE  Onward(v, o, Start(s, i), Start(s, i + 1))
<1>1. Len(s) \in Nat
  BY LenProperties
<1>2. CASE i < Len(s)
  <2>1. /\ Len(Start(s, i)) = i + 1 /\ Start(s, i)[i + 1] = s[i + 1]
        /\ s[i + 1] \in Clusters
    BY <1>2, StartIs
  <2>2. i + 1 \in 1 .. Len(s) /\ (i + 1) + 1 = i + 2
    BY <1>1, <1>2
  <2>3. GetFat(v, o, s[i + 1]) = IF i + 1 = Len(s) THEN EOC ELSE s[i + 2]
    BY <2>2 DEF Leads
  <2>4. Start(s, i + 1) = Append(Start(s, i), GetFat(v, o, s[i + 1]))
    <3>1. CASE i + 1 = Len(s)
      <4>1. Start(s, i + 1) = Append(Start(s, i), EOC)
        BY <3>1, StartIs
      <4> QED BY <4>1, <3>1, <2>3
    <3>2. CASE i + 1 # Len(s)
      <4>1. i + 1 < Len(s)
        BY <3>2, <1>1, <1>2
      <4>2. Start(s, i + 1) = Append(Start(s, i), s[i + 2])
        BY <4>1, StartIs
      <4> QED BY <4>2, <3>2, <2>3
    <3> QED BY <3>1, <3>2
  <2> QED BY <2>1, <2>4 DEF Onward
<1>3. CASE i >= Len(s)
  <2>1. /\ Len(Start(s, i)) = Len(s) + 1 /\ Start(s, i)[Len(s) + 1] = EOC
        /\ Start(s, i + 1) = Start(s, i)
    BY <1>3, StartIs
  <2>2. Start(s, i)[Len(Start(s, i))] \notin Clusters
    BY <2>1, Constants
  <2> QED BY <2>1, <2>2 DEF Onward
<1> QED BY <1>1, <1>2, <1>3

\* Following a chain gives its clusters and the end.
LEMMA WalkIs ==
    ASSUME NEW v, NEW o, NEW s \in Seq(Clusters), s # <<>>, Differ(s), Leads(v, o, s)
    PROVE  Walk(v, o, s[1]) = Append(s, EOC)
<1> USE Constants
<1>1. Len(s) \in Nat /\ Len(s) <= N - 2
  BY LenProperties, FewClusters
<1> DEFINE all == [i \in 0 .. N |-> Start(s, i)]
           to == CHOOSE w : WalkRec(v, o, s[1], w)
<1>2. WalkRec(v, o, s[1], all)
  <2>1. ASSUME NEW i \in 0 .. N
        PROVE  all[i] = IF i = 0 THEN <<s[1]>>
                        ELSE LET u == all[i - 1]
                             IN  IF u[Len(u)] \in Clusters
                                 THEN Append(u, GetFat(v, o, u[Len(u)])) ELSE u
    <3>1. CASE i = 0
      BY <3>1, StartIs
    <3>2. CASE i # 0
      <4>1. i - 1 \in Nat /\ i - 1 \in 0 .. N /\ (i - 1) + 1 = i
        BY <3>2
      <4>2. all[i - 1] = Start(s, i - 1) /\ all[i] = Start(s, i)
        BY <4>1
      <4>3. Onward(v, o, Start(s, i - 1), Start(s, (i - 1) + 1))
        BY <4>1, StartNext
      <4>4. Onward(v, o, all[i - 1], all[i])
        BY <4>1, <4>2, <4>3
      <4> QED BY <3>2, <4>4 DEF Onward
    <3> QED BY <3>1, <3>2
  <2> QED BY <2>1 DEF WalkRec
<1>3. WalkRec(v, o, s[1], to)
  BY <1>2
<1>4. Walk(v, o, s[1]) = to[N]
  BY DEF Walk, WalkRec
<1> HIDE DEF to, all
<1> DEFINE Bad == {i \in 0 .. N : to[i] # Start(s, i)}
<1>5. Bad = {}
  <2> SUFFICES ASSUME Bad # {}  PROVE FALSE
    OBVIOUS
  <2>1. Bad \in SUBSET Nat
    OBVIOUS
  <2>2. PICK i \in Bad : \A j \in Bad : i <= j
    BY <2>1, Least
  <2>3. i \in 0 .. N /\ to[i] # Start(s, i)
    OBVIOUS
  <2>4. to[i] = IF i = 0 THEN <<s[1]>>
                ELSE LET u == to[i - 1]
                     IN  IF u[Len(u)] \in Clusters
                         THEN Append(u, GetFat(v, o, u[Len(u)])) ELSE u
    BY <1>3, <2>3 DEF WalkRec
  <2>5. i # 0
    BY <2>3, <2>4, StartIs
  <2>6. i - 1 \in Nat /\ i - 1 \in 0 .. N /\ (i - 1) + 1 = i
    BY <2>3, <2>5
  <2>7. to[i - 1] = Start(s, i - 1)
    BY <2>2, <2>6
  <2>8. Onward(v, o, Start(s, i - 1), Start(s, (i - 1) + 1))
    <3>1. i - 1 \in Nat
      BY <2>6
    <3> HIDE DEF Bad
    <3> QED BY <3>1, StartNext
  <2>9. Onward(v, o, Start(s, i - 1), to[i])
    BY <2>4, <2>5, <2>7 DEF Onward
  <2> QED BY <2>3, <2>6, <2>8, <2>9 DEF Onward
<1>6. to[N] = Start(s, N)
  <2>1. N \in 0 .. N
    OBVIOUS
  <2> QED BY <1>5, <2>1
<1>7. ~(N < Len(s))
  BY <1>1
<1> QED BY <1>4, <1>6, <1>7 DEF Start
-----------------------------------------------------------------------------
(* The inductive invariant *)

\* What an object or an entry says of a chain.
Recs == [sclust : Nat, size : Nat, stat : {0, 2, 3}, n_cont : Nat]

\* The first k clusters of s follow one another.
Block(s, k) == \A i \in 1 .. k : s[i] = s[1] + i - 1

\* Object o, with the links of fat, describes the chain s: its start, its size,
\* and a status that says truly which of the links are missing.
Describes(fat, o, s) ==
    /\ o \in Recs /\ o.size = Len(s)
    /\ s = <<>> => o.sclust = 0
    /\ s # <<>> => o.sclust = s[1]
    /\ o.stat = 2 => Block(s, Len(s))
    /\ o.stat = 3 => o.n_cont + 1 < Len(s) /\ Block(s, o.n_cont + 1)
    /\ \A i \in 1 .. Len(s) : o.stat = 0 \/ (o.stat = 3 /\ i > o.n_cont)
                                => fat[s[i]] = IF i = Len(s) THEN EOC ELSE s[i + 1]

\* The types.
Typed ==
    /\ vol \in [fat : [Clusters -> Nat], bitmap : SUBSET Clusters, last : Nat]
    /\ ent \in [Objs -> Recs] /\ obj \in [Files -> Recs]
    /\ made \subseteq Objs /\ open \subseteq Files \cap made
    /\ own \in [Objs -> Seq(Clusters)]

\* The inductive invariant: what each object says describes the clusters it was given,
\* they are different and its own, and the bitmap has just these.
ChainsInv ==
    /\ Typed
    /\ \A x \in Objs : Differ(own[x])
    /\ \A x \in Objs \ made : own[x] = <<>>
    /\ \A d \in Dirs \cap made : own[d] # <<>>
    /\ \A x \in made : Describes(vol.fat, Current(x), own[x])
    /\ \A x, y \in Objs : x # y => Range(own[x]) \cap Range(own[y]) = {}
    /\ \A c \in Clusters : c \in vol.bitmap <=> \E x \in Objs : c \in Range(own[x])
-----------------------------------------------------------------------------
(* Sequences of clusters *)

\* A sequence of clusters is a function on its positions.
LEMMA SeqIs ==
    ASSUME NEW s \in Seq(Clusters)
    PROVE  /\ Len(s) \in Nat /\ (s = <<>> <=> Len(s) = 0)
           /\ \A i \in 1 .. Len(s) : s[i] \in Clusters /\ s[i] \in Nat
           /\ Range(s) = {s[i] : i \in 1 .. Len(s)} /\ Range(s) \subseteq Clusters
           /\ \A i \in 1 .. Len(s) : s[i] \in Range(s)
           /\ s # <<>> => 1 \in 1 .. Len(s) /\ Len(s) \in 1 .. Len(s)
<1>1. Len(s) \in Nat /\ (s = <<>> <=> Len(s) = 0) /\ s \in [1 .. Len(s) -> Clusters]
  BY LenProperties, EmptySeq
<1>2. Range(s) = {s[i] : i \in 1 .. Len(s)}
  BY <1>1 DEF Range
<1> QED BY <1>1, <1>2, Constants

\* The empty sequence.
LEMMA EmptyIs == /\ <<>> \in Seq(Clusters) /\ Len(<<>>) = 0 /\ Range(<<>>) = {}
                 /\ Differ(<<>>)
<1>1. <<>> \in Seq(Clusters) /\ Len(<<>>) = 0
  BY EmptySeq
<1>2. Range(<<>>) = {(<<>>)[i] : i \in 1 .. Len(<<>>)}
  BY <1>1, SeqIs
<1>3. \A i : i \notin 1 .. Len(<<>>)
  BY <1>1
<1> QED BY <1>1, <1>2, <1>3 DEF Differ

\* One cluster more.
LEMMA AppendIs ==
    ASSUME NEW s \in Seq(Clusters), Differ(s), NEW c \in Clusters, c \notin Range(s)
    PROVE  /\ Append(s, c) \in Seq(Clusters) /\ Len(Append(s, c)) = Len(s) + 1
           /\ \A i \in 1 .. Len(s) : Append(s, c)[i] = s[i]
           /\ Append(s, c)[Len(s) + 1] = c
           /\ Differ(Append(s, c)) /\ Range(Append(s, c)) = Range(s) \cup {c}
<1> DEFINE a == Append(s, c)
<1>1. /\ Len(s) \in Nat /\ \A i \in 1 .. Len(s) : s[i] \in Range(s)
      /\ Range(s) = {s[i] : i \in 1 .. Len(s)}
  BY SeqIs
<1>2. /\ a \in Seq(Clusters) /\ Len(a) = Len(s) + 1 /\ a[Len(s) + 1] = c
      /\ \A i \in 1 .. Len(s) : a[i] = s[i]
  BY <1>1
<1> HIDE DEF a
<1>3. Range(a) = {a[i] : i \in 1 .. Len(a)}
  BY <1>2, SeqIs
<1>4. \A i : i \in 1 .. Len(a) <=> i \in 1 .. Len(s) \/ i = Len(s) + 1
  BY <1>1, <1>2
<1>5. Range(a) = Range(s) \cup {c}
  BY <1>1, <1>2, <1>3, <1>4
<1>6. Differ(a)
  BY <1>1, <1>2, <1>4 DEF Differ
<1> QED BY <1>2, <1>5, <1>6 DEF a

\* The first k clusters.
LEMMA PrefixIs ==
    ASSUME NEW s \in Seq(Clusters), Differ(s), NEW k \in Nat, k <= Len(s)
    PROVE  /\ SubSeq(s, 1, k) \in Seq(Clusters) /\ Len(SubSeq(s, 1, k)) = k
           /\ \A i \in 1 .. k : SubSeq(s, 1, k)[i] = s[i]
           /\ Differ(SubSeq(s, 1, k)) /\ Range(SubSeq(s, 1, k)) = {s[i] : i \in 1 .. k}
<1> DEFINE a == SubSeq(s, 1, k)
<1>1. Len(s) \in Nat /\ \A i \in 1 .. Len(s) : s[i] \in Clusters
  BY SeqIs
<1>2. a \in Seq(Clusters) /\ Len(a) = k /\ \A i \in 1 .. k : a[i] = s[i]
  BY <1>1
<1> HIDE DEF a
<1>3. Range(a) = {a[i] : i \in 1 .. k}
  BY <1>2, SeqIs
<1>4. \A i \in 1 .. k : i \in 1 .. Len(s)
  BY <1>1
<1>5. Differ(a)
  BY <1>2, <1>4 DEF Differ
<1>6. Range(a) = {s[i] : i \in 1 .. k}
  BY <1>2, <1>3
<1> QED BY <1>2, <1>5, <1>6 DEF a

\* The clusters behind the first k.
LEMMA SuffixIs ==
    ASSUME NEW s \in Seq(Clusters), Differ(s), NEW k \in Nat, k < Len(s)
    PROVE  LET t == SubSeq(s, k + 1, Len(s))
           IN  /\ t \in Seq(Clusters) /\ Len(t) = Len(s) - k /\ t # <<>>
               /\ \A i \in 1 .. Len(s) - k : t[i] = s[k + i]
               /\ Differ(t) /\ Range(t) = {s[i] : i \in k + 1 .. Len(s)}
<1> DEFINE t == SubSeq(s, k + 1, Len(s))
<1>1. Len(s) \in Nat /\ \A i \in 1 .. Len(s) : s[i] \in Clusters
  BY SeqIs
<1>2. t \in Seq(Clusters) /\ Len(t) = Len(s) - k /\ \A i \in 1 .. Len(s) - k : t[i] = s[k + i]
  <2>1. t \in Seq(Clusters) /\ Len(t) = Len(s) - (k + 1) + 1
        /\ \A i \in 1 .. Len(s) - (k + 1) + 1 : t[i] = s[(k + 1) + i - 1]
    BY <1>1
  <2>2. Len(s) - (k + 1) + 1 = Len(s) - k /\ \A i \in 1 .. Len(s) - k : (k + 1) + i - 1 = k + i
    BY <1>1
  <2> QED BY <2>1, <2>2
<1> HIDE DEF t
<1>3. Range(t) = {t[i] : i \in 1 .. Len(s) - k} /\ t # <<>>
  BY <1>1, <1>2, SeqIs
<1>4. \A i \in 1 .. Len(s) - k : k + i \in 1 .. Len(s) /\ k + i \in k + 1 .. Len(s)
  BY <1>1
<1>5. Differ(t)
  <2>1. ASSUME NEW i \in 1 .. Len(s) - k, NEW j \in 1 .. Len(s) - k, t[i] = t[j]
        PROVE  i = j
    <3>1. s[k + i] = s[k + j]
      BY <1>2, <2>1
    <3>2. k + i = k + j
      BY <1>4, <3>1 DEF Differ
    <3> QED BY <3>2
  <2> QED BY <1>2, <2>1 DEF Differ
<1>6. \A i \in k + 1 .. Len(s) : i - k \in 1 .. Len(s) - k /\ k + (i - k) = i
  BY <1>1
<1>7. Range(t) = {s[i] : i \in k + 1 .. Len(s)}
  <2>1. ASSUME NEW i \in 1 .. Len(s) - k  PROVE t[i] \in {s[j] : j \in k + 1 .. Len(s)}
    BY <1>2, <1>4
  <2>2. ASSUME NEW i \in k + 1 .. Len(s)  PROVE s[i] \in {t[j] : j \in 1 .. Len(s) - k}
    BY <1>2, <1>6
  <2> QED BY <1>3, <2>1, <2>2
<1> QED BY <1>2, <1>3, <1>5, <1>7 DEF t

\* The clusters of a chain are those of its start and of its rest.
LEMMA SplitIs ==
    ASSUME NEW s \in Seq(Clusters), Differ(s), NEW k \in Nat, k < Len(s)
    PROVE  /\ Range(SubSeq(s, 1, k)) = Range(s) \ Range(SubSeq(s, k + 1, Len(s)))
           /\ Range(SubSeq(s, k + 1, Len(s))) \subseteq Range(s)
<1>1. Len(s) \in Nat /\ Range(s) = {s[i] : i \in 1 .. Len(s)}
  BY SeqIs
<1>2. Range(SubSeq(s, 1, k)) = {s[i] : i \in 1 .. k}
  <2>1. k <= Len(s)
    BY <1>1
  <2> QED BY <2>1, PrefixIs
<1>3. Range(SubSeq(s, k + 1, Len(s))) = {s[i] : i \in k + 1 .. Len(s)}
  BY SuffixIs
<1>4. \A i : i \in 1 .. Len(s) <=> i \in 1 .. k \/ i \in k + 1 .. Len(s)
  BY <1>1
<1>5. \A i \in 1 .. k : \A j \in k + 1 .. Len(s) : s[i] # s[j]
  <2>1. \A i \in 1 .. k : \A j \in k + 1 .. Len(s) : i # j
    OBVIOUS
  <2> QED BY <2>1, <1>4 DEF Differ
<1> QED BY <1>1, <1>2, <1>3, <1>4, <1>5
-----------------------------------------------------------------------------
(* What a chain reads as *)

\* The walk from no cluster.
LEMMA WalkNone == ASSUME NEW v, NEW o  PROVE Walk(v, o, 0) = <<0>>
<1> USE Constants
<1> DEFINE all == [i \in 0 .. N |-> <<0>>]
           to == CHOOSE w : WalkRec(v, o, 0, w)
<1>1. Len(<<0>>) = 1 /\ <<0>>[1] = 0
  OBVIOUS
<1>2. WalkRec(v, o, 0, all)
  <2>1. ASSUME NEW i \in 0 .. N
        PROVE  all[i] = IF i = 0 THEN <<0>>
                        ELSE LET u == all[i - 1]
                             IN  IF u[Len(u)] \in Clusters
                                 THEN Append(u, GetFat(v, o, u[Len(u)])) ELSE u
    <3>1. CASE i = 0
      BY <3>1
    <3>2. CASE i # 0
      <4>1. all[i - 1] = <<0>>
        BY <3>2
      <4> QED BY <4>1, <1>1, <3>2
    <3> QED BY <3>1, <3>2
  <2> QED BY <2>1 DEF WalkRec
<1>3. WalkRec(v, o, 0, to)
  BY <1>2
<1>4. Walk(v, o, 0) = to[N]
  BY DEF Walk, WalkRec
<1> HIDE DEF to, all
<1> DEFINE Bad == {i \in 0 .. N : to[i] # <<0>>}
<1>5. Bad = {}
  <2> SUFFICES ASSUME Bad # {}  PROVE FALSE
    OBVIOUS
  <2>1. Bad \in SUBSET Nat
    OBVIOUS
  <2>2. PICK i \in Bad : \A j \in Bad : i <= j
    BY <2>1, Least
  <2>3. i \in 0 .. N /\ to[i] # <<0>>
    OBVIOUS
  <2>4. to[i] = IF i = 0 THEN <<0>>
                ELSE LET u == to[i - 1]
                     IN  IF u[Len(u)] \in Clusters
                         THEN Append(u, GetFat(v, o, u[Len(u)])) ELSE u
    BY <1>3, <2>3 DEF WalkRec
  <2>5. i # 0
    BY <2>3, <2>4
  <2>6. i - 1 \in 0 .. N /\ ~ (i <= i - 1)
    BY <2>3, <2>5
  <2>7. to[i - 1] = <<0>>
    BY <2>2, <2>6
  <2> QED BY <2>3, <2>4, <2>5, <2>7, <1>1
<1> QED BY <1>4, <1>5

\* The fields of an object that describes a chain.
LEMMA FieldsOf ==
    ASSUME NEW fat, NEW o, NEW s \in Seq(Clusters), Describes(fat, o, s)
    PROVE  /\ o.sclust \in Nat /\ o.size \in Nat /\ o.n_cont \in Nat /\ o.stat \in {0, 2, 3}
           /\ o.size = Len(s) /\ o \in Recs
           /\ o.sclust = IF s = <<>> THEN 0 ELSE s[1]
  BY DEF Describes, Recs

\* An object that describes a chain leads along it.
LEMMA DescribesLeads ==
    ASSUME NEW v, NEW o, NEW s \in Seq(Clusters), s # <<>>, Differ(s), Describes(v.fat, o, s)
    PROVE  Leads(v, o, s)
<1> SUFFICES ASSUME NEW i \in 1 .. Len(s)
             PROVE  GetFat(v, o, s[i]) = IF i = Len(s) THEN EOC ELSE s[i + 1]
  BY DEF Leads
<1>1. /\ Len(s) \in Nat /\ Len(s) # 0 /\ 1 \in 1 .. Len(s)
      /\ \A j \in 1 .. Len(s) : s[j] \in Clusters /\ s[j] \in Nat
  BY SeqIs
<1>2. /\ o.sclust \in Nat /\ o.size \in Nat /\ o.n_cont \in Nat /\ o.stat \in {0, 2, 3}
      /\ o.size = Len(s) /\ o.sclust = s[1]
  BY FieldsOf
<1>3. s[i] \in Clusters /\ o.size # 0
  BY <1>1, <1>2
<1>4. CASE o.stat = 0
  <2>1. v.fat[s[i]] = IF i = Len(s) THEN EOC ELSE s[i + 1]
    BY <1>4 DEF Describes
  <2> QED BY <1>4, <2>1, <1>2, <1>3, GetFatIs
<1>5. CASE o.stat = 2
  <2>1. \A j \in 1 .. Len(s) : s[j] = s[1] + j - 1
    BY <1>5 DEF Describes, Block
  <2>2. s[i] - s[1] = i - 1 /\ i - 1 \in 0 .. Len(s) - 1
    BY <2>1, <1>1
  <2>3. GetFat(v, o, s[i]) = IF i - 1 = Len(s) - 1 THEN EOC ELSE s[i] + 1
    <3>1. s[i] - o.sclust \in 0 .. o.size - 1 /\ s[i] - o.sclust = i - 1
      BY <1>2, <2>2
    <3>2. GetFat(v, o, s[i]) = IF s[i] - o.sclust = o.size - 1 THEN EOC ELSE s[i] + 1
      BY <1>2, <1>3, <1>5, <3>1, GetFatIs
    <3> QED BY <3>1, <3>2, <1>2
  <2>4. ASSUME i # Len(s)  PROVE s[i + 1] = s[i] + 1
    <3>1. i + 1 \in 1 .. Len(s) /\ i \in 1 .. Len(s)
      BY <2>4, <1>1
    <3>2. s[i + 1] = s[1] + (i + 1) - 1 /\ s[i] = s[1] + i - 1
      BY <3>1, <2>1
    <3> QED BY <3>2, <1>1
  <2>5. i - 1 = Len(s) - 1 <=> i = Len(s)
    BY <1>1
  <2> QED BY <2>3, <2>4, <2>5
<1>6. CASE o.stat = 3
  <2>1. /\ o.n_cont + 1 < Len(s) /\ \A j \in 1 .. o.n_cont + 1 : s[j] = s[1] + j - 1
        /\ i > o.n_cont => v.fat[s[i]] = IF i = Len(s) THEN EOC ELSE s[i + 1]
    BY <1>6 DEF Describes, Block
  <2>2. CASE i <= o.n_cont
    <3>1. i \in 1 .. o.n_cont + 1 /\ i + 1 \in 1 .. o.n_cont + 1 /\ i # Len(s)
      BY <2>1, <2>2, <1>1, <1>2
    <3>2. s[i] = s[1] + i - 1 /\ s[i + 1] = s[1] + (i + 1) - 1
      BY <2>1, <3>1
    <3>3. s[i] - s[1] \in 0 .. o.n_cont - 1 /\ s[i + 1] = s[i] + 1
      BY <3>2, <2>2, <1>1, <1>2
    <3>4. GetFat(v, o, s[i]) = s[i] + 1
      BY <1>2, <1>3, <1>6, <3>3, GetFatIs
    <3> QED BY <3>1, <3>3, <3>4
  <2>3. CASE i > o.n_cont
    <3>1. ASSUME s[i] - s[1] \in 0 .. o.n_cont - 1  PROVE FALSE
      <4> DEFINE j == s[i] - s[1] + 1
      <4>1. s[i] \in Nat /\ s[1] \in Nat
        BY <1>1
      <4>2. j \in 1 .. o.n_cont + 1 /\ j \in 1 .. Len(s) /\ j <= o.n_cont
        <5>1. j \in Nat /\ j >= 1 /\ j <= o.n_cont
          BY <4>1, <3>1, <1>2
        <5>2. o.n_cont \in Nat /\ Len(s) \in Nat /\ o.n_cont + 1 < Len(s)
          BY <2>1, <1>1, <1>2
        <5> HIDE DEF j
        <5> QED BY <5>1, <5>2
      <4>3. s[j] = s[1] + j - 1
        BY <4>2, <2>1
      <4>4. s[j] = s[i]
        BY <4>1, <4>3
      <4> HIDE DEF j
      <4>5. j = i
        BY <4>2, <4>4 DEF Differ
      <4> QED BY <4>2, <4>5, <2>3, <1>2
    <3>2. GetFat(v, o, s[i]) = v.fat[s[i]]
      BY <1>2, <1>3, <1>6, <3>1, GetFatIs
    <3> QED BY <2>1, <2>3, <3>2
  <2> QED BY <2>2, <2>3, <1>2
<1> QED BY <1>2, <1>4, <1>5, <1>6

\* What is read of it is the chain.
LEMMA ChainIs ==
    ASSUME NEW v, NEW o, NEW s \in Seq(Clusters), Differ(s), Describes(v.fat, o, s)
    PROVE  /\ Chain(v, o) = s
           /\ LastOf(v, o) = IF s = <<>> THEN 0 ELSE s[Len(s)]
           /\ s # <<>> => GetFat(v, o, s[Len(s)]) = EOC
<1>1. Chain(v, o) = s
  <2>1. CASE s = <<>>
    <3>1. Walk(v, o, o.sclust) = <<0>>
      BY <2>1, FieldsOf, WalkNone
    <3>2. SubSeq(<<0>>, 1, Len(<<0>>) - 1) = <<>>
      OBVIOUS
    <3> QED BY <2>1, <3>1, <3>2 DEF Chain
  <2>2. CASE s # <<>>
    <3>1. Walk(v, o, o.sclust) = Append(s, EOC)
      <4>1. o.sclust = s[1] /\ Leads(v, o, s)
        BY <2>2, FieldsOf, DescribesLeads
      <4> QED BY <2>2, <4>1, WalkIs
    <3>2. SubSeq(Append(s, EOC), 1, Len(Append(s, EOC)) - 1) = s
      <4>1. Len(s) \in Nat /\ s \in Seq(Nat) /\ EOC \in Nat
        BY SeqIs, Constants
      <4>2. /\ Len(Append(s, EOC)) = Len(s) + 1 /\ Append(s, EOC) \in Seq(Nat)
            /\ \A i \in 1 .. Len(s) : Append(s, EOC)[i] = s[i]
        BY <4>1
      <4> DEFINE a == Append(s, EOC)
                 b == SubSeq(a, 1, Len(s))
      <4>3. b \in Seq(Nat) /\ Len(b) = Len(s) /\ \A i \in 1 .. Len(s) : b[i] = a[i]
        <5> HIDE DEF a
        <5> QED BY <4>1, <4>2 DEF a
      <4>4. b = s
        <5> HIDE DEF b
        <5> QED BY <4>1, <4>2, <4>3, SeqEqual
      <4>5. Len(a) - 1 = Len(s)
        BY <4>1, <4>2
      <4> QED BY <4>4, <4>5
    <3> QED BY <3>1, <3>2 DEF Chain
  <2> QED BY <2>1, <2>2
<1>2. LastOf(v, o) = IF s = <<>> THEN 0 ELSE s[Len(s)]
  BY <1>1 DEF LastOf
<1>3. ASSUME s # <<>>  PROVE GetFat(v, o, s[Len(s)]) = EOC
  <2>1. Leads(v, o, s) /\ Len(s) \in 1 .. Len(s)
    BY <1>3, DescribesLeads, SeqIs
  <2> QED BY <2>1 DEF Leads
<1> QED BY <1>1, <1>2, <1>3
-----------------------------------------------------------------------------
(* Finding free clusters *)

\* A FAT, a bitmap and where the last search ended.
Vols == [fat : [Clusters -> Nat], bitmap : SUBSET Clusters, last : Nat]

\* A remainder below the modulus twice.
LEMMA Around ==
    ASSUME NEW m \in Nat \ {0}, NEW a \in Nat, a < m + m
    PROVE  (a % m) = IF a < m THEN a ELSE a - m
<1>1. CASE a < m
  BY <1>1
<1>2. CASE a >= m
  <2>1. (a % m) = ((a - m) % m)
    BY <1>2
  <2>2. a - m \in Nat /\ a - m < m
    BY <1>2
  <2>3. ((a - m) % m) = a - m
    BY <2>2
  <2> QED BY <1>2, <2>1, <2>3
<1> QED BY <1>1, <1>2

\* find_bitmap returns 0 or a cluster.
LEMMA FoundCluster ==
    ASSUME NEW v, NEW c \in Nat, NEW k \in Nat \ {0}
    PROVE  FindBitmap(v, c, k) = 0 \/ FindBitmap(v, c, k) \in Clusters
<1> USE Constants
<1> DEFINE s == IF c \in Clusters THEN c - 2 ELSE 0
           at(i) == ((s + i) % (N - 2)) + 2
           runs == {i \in 0 .. N - 2 - k : \A h \in 0 .. k - 1 : at(i + h) \notin v.bitmap}
           i == CHOOSE h \in runs : \A g \in runs : h <= g
           m == N - 2
<1>1. FindBitmap(v, c, k) = IF runs = {} THEN 0 ELSE at(i)
  BY DEF FindBitmap
<1>2. CASE runs = {}
  BY <1>1, <1>2
<1>3. CASE runs # {}
  <2>1. i \in runs
    <3>1. runs \in SUBSET Nat
      OBVIOUS
    <3> HIDE DEF runs
    <3> QED BY <1>3, <3>1, Least
  <2>2. i \in 0 .. m - k
    BY <2>1
  <2>3. s \in Nat /\ s <= m - 1 /\ m \in Nat \ {0}
    OBVIOUS
  <2>4. FindBitmap(v, c, k) = ((s + i) % m) + 2
    BY <1>1, <1>3
  <2> HIDE DEF i, runs, s, m
  <2>5. i \in Nat /\ s + i \in Nat /\ s + i < m + m
    BY <2>2, <2>3
  <2>6. ((s + i) % m) = IF s + i < m THEN s + i ELSE (s + i) - m
    BY <2>3, <2>5, Around
  <2>7. ((s + i) % m) \in 0 .. m - 1
    BY <2>3, <2>5, <2>6
  <2> QED BY <2>4, <2>7 DEF m
<1> QED BY <1>2, <1>3

\* No cluster find_bitmap stands for is in use, as long as the volume goes on.
LEMMA FoundIs ==
    ASSUME NEW v, NEW c \in Nat, NEW k \in Nat \ {0},
           FindBitmap(v, c, k) # 0, NEW j \in 0 .. k - 1, FindBitmap(v, c, k) + j <= N - 1
    PROVE  FindBitmap(v, c, k) + j \notin v.bitmap
<1> USE Constants
<1> DEFINE s == IF c \in Clusters THEN c - 2 ELSE 0
           at(i) == ((s + i) % (N - 2)) + 2
           runs == {i \in 0 .. N - 2 - k : \A h \in 0 .. k - 1 : at(i + h) \notin v.bitmap}
           i == CHOOSE h \in runs : \A g \in runs : h <= g
           m == N - 2
<1>1. FindBitmap(v, c, k) = IF runs = {} THEN 0 ELSE at(i)
  BY DEF FindBitmap
<1>2. runs # {} /\ runs \in SUBSET Nat
  BY <1>1
<1>3. i \in runs
  <2> HIDE DEF runs
  <2> QED BY <1>2, Least
<1>4. i \in 0 .. m - k /\ at(i + j) \notin v.bitmap
  BY <1>3
<1>5. s \in Nat /\ s <= m - 1 /\ m \in Nat \ {0}
  OBVIOUS
<1>6. FindBitmap(v, c, k) = ((s + i) % m) + 2
  BY <1>1, <1>2
<1> HIDE DEF i, runs, s, m
<1>7. /\ i \in Nat /\ s + i \in Nat /\ s + i < m + m
      /\ s + (i + j) \in Nat /\ s + (i + j) < m + m
  BY <1>4, <1>5
<1>8. ((s + i) % m) = IF s + i < m THEN s + i ELSE (s + i) - m
  BY <1>5, <1>7, Around
<1>9. ((s + (i + j)) % m) = IF s + (i + j) < m THEN s + (i + j) ELSE (s + (i + j)) - m
  BY <1>5, <1>7, Around
<1>10. ((s + i) % m) + j <= m - 1
  BY <1>6, <1>7, <1>8 DEF m
<1>11. ((s + (i + j)) % m) = ((s + i) % m) + j
  BY <1>5, <1>7, <1>8, <1>9, <1>10
<1>12. at(i + j) = FindBitmap(v, c, k) + j
  <2>1. at(i + j) = ((s + (i + j)) % m) + 2
    BY DEF m
  <2>2. ((s + i) % m) \in Nat
    BY <1>5, <1>7, <1>8
  <2> HIDE DEF at
  <2> QED BY <2>1, <2>2, <1>6, <1>11
<1> QED BY <1>4, <1>12
-----------------------------------------------------------------------------
(* What the operations do to the chain of one object *)

\* An object describes its chain as long as the links of its clusters stay.
LEMMA Framed ==
    ASSUME NEW fat, NEW fat2, NEW o, NEW s \in Seq(Clusters), Describes(fat, o, s),
           \A c \in Range(s) : fat2[c] = fat[c]
    PROVE  Describes(fat2, o, s)
<1>1. \A i \in 1 .. Len(s) : fat2[s[i]] = fat[s[i]]
  BY SeqIs
<1> QED BY <1>1 DEF Describes

\* An object with no chain.
LEMMA NoneIs == ASSUME NEW fat  PROVE Describes(fat, NoChain, <<>>) /\ NoChain \in Recs
<1>1. NoChain \in Recs /\ NoChain.size = 0 /\ NoChain.sclust = 0 /\ NoChain.stat = 0
  BY DEF NoChain, Recs
<1>2. Len(<<>>) = 0 /\ \A i : i \notin 1 .. Len(<<>>)
  BY EmptyIs
<1> QED BY <1>1, <1>2 DEF Describes

\* remove_chain frees all clusters up to the end of the chain.
LEMMA FreedIs ==
    ASSUME NEW s \in Seq(Clusters), s # <<>>
    PROVE  Freed(Append(s, EOC)) = Range(s)
<1> USE Constants
<1> DEFINE w == Append(s, EOC)
           n == Len(w) - 1
           ends == {i \in 1 .. n : w[i + 1] # w[i] + 1 /\ w[i + 1] \notin {0, 1}}
<1>1. /\ Len(s) \in Nat /\ Len(s) # 0 /\ Len(s) \in 1 .. Len(s)
      /\ \A i \in 1 .. Len(s) : s[i] \in Clusters
      /\ Range(s) = {s[i] : i \in 1 .. Len(s)}
  BY SeqIs
<1>2. /\ Len(w) = Len(s) + 1 /\ w[Len(s) + 1] = EOC
      /\ \A i \in 1 .. Len(s) : w[i] = s[i]
  BY <1>1
<1>3. Freed(w) = {w[i] : i \in {j \in 1 .. n : \E e \in ends : j <= e}}
  BY DEF Freed
<1> HIDE DEF w
<1>4. n = Len(s)
  BY <1>1, <1>2
<1>5. n \in ends
  <2>1. w[n] \in Clusters /\ w[n + 1] = EOC
    BY <1>1, <1>2, <1>4
  <2> QED BY <2>1, <1>1, <1>4
<1> HIDE DEF ends, n
<1>6. {j \in 1 .. n : \E e \in ends : j <= e} = 1 .. Len(s)
  BY <1>4, <1>5
<1>7. Freed(w) = {s[i] : i \in 1 .. Len(s)}
  BY <1>2, <1>3, <1>6
<1> QED BY <1>1, <1>7 DEF w

\* A block whose clusters are all different is the part that follows its first.
LEMMA InBlock ==
    ASSUME NEW s \in Seq(Clusters), Differ(s), NEW n \in Nat, NEW i \in 1 .. Len(s),
           n + 1 < Len(s), Block(s, n + 1), s[i] \in s[1] .. s[1] + n
    PROVE  i <= n + 1
<1>1. s[i] \in Nat /\ s[1] \in Nat /\ Len(s) \in Nat
  BY SeqIs
<1> DEFINE j == s[i] - s[1] + 1
<1>2. j \in 1 .. n + 1 /\ j \in 1 .. Len(s) /\ s[i] = s[1] + j - 1
  BY <1>1
<1>3. s[j] = s[1] + j - 1
  BY <1>2 DEF Block
<1> HIDE DEF j
<1>4. j = i
  BY <1>2, <1>3 DEF Differ
<1> QED BY <1>2, <1>4

\* And the clusters of a block are in it.
LEMMA BlockIn ==
    ASSUME NEW s \in Seq(Clusters), NEW n \in Nat, NEW i \in 1 .. Len(s),
           Block(s, n + 1), i <= n + 1
    PROVE  s[i] \in s[1] .. s[1] + n
<1>1. s[i] \in Nat /\ s[1] \in Nat /\ Len(s) \in Nat
  BY SeqIs
<1>2. s[i] = s[1] + i - 1
  BY DEF Block
<1> QED BY <1>1, <1>2

\* The clusters of s behind the first k; the object that keeps only these; the last
\* of them; and the volume in which it ends the chain.
Cut(s, k) == SubSeq(s, k + 1, Len(s))
Kept(o, k) == [o EXCEPT !.size = k, !.sclust = IF k = 0 THEN 0 ELSE @]
Before(s, k) == IF k = 0 THEN 0 ELSE s[k]
Unlinked(v, o, p) == IF p = 0 \/ o.stat = 2 THEN v ELSE [v EXCEPT !.fat[p] = EOC]

\* The fields of an object, and what a change of them gives.
LEMMA RecIs ==
    ASSUME NEW o \in Recs
    PROVE  /\ o.sclust \in Nat /\ o.size \in Nat /\ o.n_cont \in Nat /\ o.stat \in {0, 2, 3}
           /\ o = [sclust |-> o.sclust, size |-> o.size, stat |-> o.stat, n_cont |-> o.n_cont]
  BY DEF Recs

\* An object with another status.
LEMMA StatIs ==
    ASSUME NEW o \in Recs, NEW x \in {0, 2, 3}
    PROVE  LET q == [o EXCEPT !.stat = x]
           IN  /\ q \in Recs /\ q.sclust = o.sclust /\ q.size = o.size
               /\ q.n_cont = o.n_cont /\ q.stat = x
  BY DEF Recs

\* An object cut short.
LEMMA KeptIs ==
    ASSUME NEW o \in Recs, NEW k \in Nat
    PROVE  /\ Kept(o, k) \in Recs /\ Kept(o, k).size = k /\ Kept(o, k).stat = o.stat
           /\ Kept(o, k).n_cont = o.n_cont
           /\ Kept(o, k).sclust = IF k = 0 THEN 0 ELSE o.sclust
<1> DEFINE z == IF k = 0 THEN 0 ELSE o.sclust
<1>1. Kept(o, k) = [o EXCEPT !.size = k, !.sclust = z]
  BY DEF Kept, Recs
<1>2. z \in Nat
  BY DEF Recs
<1> HIDE DEF z
<1>3. LET q == [o EXCEPT !.size = k, !.sclust = z]
      IN  /\ q \in Recs /\ q.sclust = z /\ q.size = k
          /\ q.n_cont = o.n_cont /\ q.stat = o.stat
  BY <1>2 DEF Recs
<1> QED BY <1>1, <1>3 DEF z

\* The volume with one link changed.
LEMMA UnlinkedIs ==
    ASSUME NEW v \in Vols, NEW o, NEW p, p = 0 \/ p \in Clusters
    PROVE  /\ Unlinked(v, o, p) \in Vols /\ Unlinked(v, o, p).bitmap = v.bitmap
           /\ \A c \in Clusters \ {p} : Unlinked(v, o, p).fat[c] = v.fat[c]
           /\ p # 0 /\ o.stat # 2 => Unlinked(v, o, p).fat[p] = EOC
<1> USE Constants
<1>1. CASE p = 0 \/ o.stat = 2
  BY <1>1 DEF Unlinked
<1>2. CASE ~ (p = 0 \/ o.stat = 2)
  <2> DEFINE g == [v.fat EXCEPT ![p] = EOC]
  <2>1. v.fat \in [Clusters -> Nat] /\ v.bitmap \in SUBSET Clusters /\ v.last \in Nat
    BY DEF Vols
  <2>2. g \in [Clusters -> Nat] /\ g[p] = EOC /\ \A c \in Clusters \ {p} : g[c] = v.fat[c]
    BY <1>2, <2>1
  <2>3. Unlinked(v, o, p) = [v EXCEPT !.fat = g]
    BY <1>2 DEF Unlinked
  <2> HIDE DEF g
  <2>4. Unlinked(v, o, p) = [fat |-> g, bitmap |-> v.bitmap, last |-> v.last]
    BY <2>3 DEF Vols
  <2> QED BY <2>1, <2>2, <2>4 DEF Vols
<1> QED BY <1>1, <1>2

\* remove_chain reads and frees the rest of the chain, and changes one link.
LEMMA RemovedReads ==
    ASSUME NEW v \in Vols, NEW o, NEW s \in Seq(Clusters), Differ(s), Describes(v.fat, o, s),
           NEW k \in Nat, k < Len(s)
    PROVE  Walk(Unlinked(v, o, Before(s, k)), o, s[k + 1]) = Append(Cut(s, k), EOC)
<1> USE Constants
<1> DEFINE p == Before(s, k)
           u == Unlinked(v, o, p)
           t == Cut(s, k)
<1>1. Len(s) \in Nat /\ Len(s) # 0 /\ s # <<>> /\ \A i \in 1 .. Len(s) : s[i] \in Clusters
  BY SeqIs
<1>2. p = 0 \/ (k # 0 /\ k \in 1 .. Len(s) /\ p = s[k] /\ p \in Clusters)
  BY <1>1 DEF Before
<1> HIDE DEF p
<1>3. /\ u \in Vols /\ \A c \in Clusters \ {p} : u.fat[c] = v.fat[c]
  BY <1>2, UnlinkedIs
<1>4. /\ t \in Seq(Clusters) /\ Len(t) = Len(s) - k /\ t # <<>> /\ Differ(t)
      /\ \A i \in 1 .. Len(s) - k : t[i] = s[k + i]
  BY SuffixIs DEF Cut
<1> HIDE DEF u, t
<1>5. \A c \in Clusters \ {p} : GetFat(u, o, c) = GetFat(v, o, c)
  BY <1>3 DEF GetFat
<1>6. Leads(v, o, s)
  BY <1>1, DescribesLeads
<1>7. Leads(u, o, t)
  <2> SUFFICES ASSUME NEW i \in 1 .. Len(t)
               PROVE  GetFat(u, o, t[i]) = IF i = Len(t) THEN EOC ELSE t[i + 1]
    BY DEF Leads
  <2>1. /\ i \in 1 .. Len(s) - k /\ k + i \in 1 .. Len(s) /\ k + i # k
        /\ t[i] = s[k + i] /\ s[k + i] \in Clusters
    BY <1>1, <1>4
  <2>2. s[k + i] # p
    BY <2>1, <1>2 DEF Differ
  <2>3. GetFat(u, o, t[i]) = IF k + i = Len(s) THEN EOC ELSE s[(k + i) + 1]
    BY <2>1, <2>2, <1>5, <1>6 DEF Leads
  <2>4. k + i = Len(s) <=> i = Len(t)
    BY <2>1, <1>1, <1>4
  <2>5. i # Len(t) => t[i + 1] = s[(k + i) + 1]
    <3>1. ASSUME i # Len(t)  PROVE t[i + 1] = s[(k + i) + 1]
      <4>1. i + 1 \in 1 .. Len(s) - k /\ k + (i + 1) = (k + i) + 1
        <5>1. i \in Nat /\ i >= 1 /\ i <= Len(s) - k /\ i # Len(s) - k /\ Len(s) \in Nat
          BY <2>1, <3>1, <1>1, <1>4
        <5> QED BY <5>1
      <4>2. t[i + 1] = s[k + (i + 1)]
        BY <4>1, <1>4
      <4> QED BY <4>1, <4>2
    <3> QED BY <3>1
  <2> QED BY <2>3, <2>4, <2>5
<1>8. t[1] = s[k + 1]
  <2>1. 1 \in 1 .. Len(s) - k
    BY <1>1
  <2> QED BY <2>1, <1>4
<1>9. Walk(u, o, s[k + 1]) = Append(t, EOC)
  <2>1. Walk(u, o, t[1]) = Append(t, EOC)
    BY <1>4, <1>7, WalkIs
  <2> QED BY <2>1, <1>8
<1> QED BY <1>9 DEF u, p, t

\* remove_chain from the cluster behind the first k on, and what it is to leave.
Removed(v, o, s, k) == RemoveChain(v, o, s[k + 1], Before(s, k))
RemovedRight(v, o, s, k, r) ==
    /\ r.v \in Vols /\ r.v.bitmap = v.bitmap \ Range(Cut(s, k))
    /\ \A c \in Clusters \ Range(s) : r.v.fat[c] = v.fat[c]
    /\ Describes(r.v.fat, Kept(r.o, k), SubSeq(s, 1, k))

\* What it leaves: the chain up to there, and what o then says of it is true.
LEMMA RemovedIs ==
    ASSUME NEW v \in Vols, NEW o, NEW s \in Seq(Clusters), Differ(s), Describes(v.fat, o, s),
           NEW k \in Nat, k < Len(s)
    PROVE  RemovedRight(v, o, s, k, Removed(v, o, s, k))
<1>0. Walk(Unlinked(v, o, Before(s, k)), o, s[k + 1]) = Append(Cut(s, k), EOC)
  BY RemovedReads
<1> DEFINE p == Before(s, k)
           u == Unlinked(v, o, p)
           r == Removed(v, o, s, k)
           q == SubSeq(s, 1, k)
           t == Cut(s, k)
           w == Walk(u, o, s[k + 1])
           o2 == IF w[Len(w)] = 1 THEN o
                 ELSE IF p = 0 THEN [o EXCEPT !.stat = 0]
                 ELSE IF o.stat = 3 /\ p \in o.sclust .. o.sclust + o.n_cont THEN [o EXCEPT !.stat = 2]
                 ELSE o
<1>1. /\ Len(s) \in Nat /\ Len(s) # 0 /\ s # <<>> /\ 1 \in 1 .. Len(s)
      /\ \A i \in 1 .. Len(s) : s[i] \in Clusters /\ s[i] \in Range(s) /\ s[i] \in Nat
      /\ Range(s) \subseteq Clusters
  BY SeqIs
<1>2. /\ u \in Vols /\ u.bitmap = v.bitmap
      /\ \A c \in Clusters \ {p} : u.fat[c] = v.fat[c]
      /\ p # 0 /\ o.stat # 2 => u.fat[p] = EOC
      /\ w = Append(t, EOC)
  <2>1. p = 0 \/ p \in Clusters
    BY <1>1 DEF Before
  <2>2. w = Append(t, EOC)
    BY <1>0
  <2> HIDE DEF p, w
  <2> QED BY <2>1, <2>2, UnlinkedIs
<1>3. r = [v |-> [u EXCEPT !.bitmap = @ \ Freed(w)], o |-> o2]
  BY DEF Removed, RemoveChain, Unlinked
<1>4. t \in Seq(Clusters) /\ t # <<>>
  BY SuffixIs DEF Cut
<1>5. /\ q \in Seq(Clusters) /\ Len(q) = k /\ \A i \in 1 .. k : q[i] = s[i]
  <2>1. k <= Len(s)
    BY <1>1
  <2> QED BY <2>1, PrefixIs
<1>6. p = 0 <=> k = 0
  BY <1>1, Constants DEF Before
<1>7. k # 0 => p = s[k] /\ k \in 1 .. Len(s) /\ p \in Clusters /\ p \in Nat
  BY <1>1 DEF Before
<1> HIDE DEF u, p, r, q, t, w, o2
<1>9. Freed(w) = Range(t)
  BY <1>2, <1>4, FreedIs
<1>10. w[Len(w)] = EOC
  <2>1. Len(t) \in Nat /\ t \in Seq(Clusters)
    BY <1>4, SeqIs
  <2>2. Len(Append(t, EOC)) = Len(t) + 1 /\ Append(t, EOC)[Len(t) + 1] = EOC
    BY <2>1
  <2> QED BY <2>2, <1>2
<1>11. r.v = [u EXCEPT !.bitmap = @ \ Range(t)] /\ r.o = o2
  BY <1>3, <1>9
<1>12. r.v \in Vols /\ r.v.bitmap = v.bitmap \ Range(t) /\ r.v.fat = u.fat
  BY <1>2, <1>11 DEF Vols
<1>13. \A c \in Clusters \ Range(s) : r.v.fat[c] = v.fat[c]
  <2>1. p \notin Clusters \ Range(s)
    BY <1>1, <1>6, <1>7, Constants
  <2> QED BY <2>1, <1>2, <1>12
<1>14. Describes(u.fat, Kept(o2, k), q)
  <2>1. /\ o.sclust = s[1] /\ o.sclust \in Nat /\ o.n_cont \in Nat /\ o.stat \in {0, 2, 3}
        /\ o.size = Len(s) /\ o \in Recs
    BY <1>1, FieldsOf
  <2>2. o2 = IF p = 0 THEN [o EXCEPT !.stat = 0]
             ELSE IF o.stat = 3 /\ p \in o.sclust .. o.sclust + o.n_cont THEN [o EXCEPT !.stat = 2]
             ELSE o
    BY <1>10, Constants DEF o2
  <2>3. CASE k = 0
    <3>1. o2 \in Recs /\ o2.stat = 0
      BY <2>1, <2>2, <2>3, <1>6, StatIs
    <3>2. q = <<>> /\ \A i : i \notin 1 .. Len(q)
      BY <1>5, <2>3, SeqIs
    <3> DEFINE z == Kept(o2, k)
    <3>3. z \in Recs /\ z.size = 0 /\ z.sclust = 0 /\ z.stat = 0
      BY <3>1, <2>3, KeptIs
    <3> HIDE DEF z
    <3>4. Describes(u.fat, z, q)
      BY <3>2, <3>3, <2>3 DEF Describes
    <3> QED BY <3>4 DEF z
  <2>4. CASE k # 0
    <3>1. /\ p # 0 /\ p = s[k] /\ k \in 1 .. Len(s) /\ q # <<>> /\ q[1] = s[1] /\ k \in 1 .. k
          /\ \A i \in 1 .. k : i \in 1 .. Len(s)
      BY <2>4, <1>1, <1>5, <1>6, <1>7, SeqIs
    <3>2. \A i \in 1 .. k : i # k => u.fat[s[i]] = v.fat[s[i]]
      <4> SUFFICES ASSUME NEW i \in 1 .. k, i # k  PROVE u.fat[s[i]] = v.fat[s[i]]
        OBVIOUS
      <4>1. s[i] # s[k] /\ s[i] \in Clusters
        BY <3>1, <1>1 DEF Differ
      <4> QED BY <4>1, <3>1, <1>2
    <3>3. ASSUME o.stat = 0 \/ o.stat = 3, NEW i \in 1 .. k, o.stat = 0 \/ i > o.n_cont
          PROVE  u.fat[q[i]] = IF i = k THEN EOC ELSE q[i + 1]
      <4>1. CASE i = k
        <5>1. q[i] = p /\ o.stat # 2 /\ p # 0
          BY <4>1, <3>1, <3>3, <1>5
        <5> QED BY <4>1, <5>1, <1>2
      <4>2. CASE i # k
        <5>1. i + 1 \in 1 .. k /\ i # Len(s) /\ i \in 1 .. Len(s)
          BY <4>2, <1>1
        <5>2. v.fat[s[i]] = s[i + 1]
          BY <5>1, <3>3 DEF Describes
        <5> QED BY <5>1, <5>2, <3>2, <4>2, <1>5
      <4> QED BY <4>1, <4>2
    <3> DEFINE z == Kept(o2, k)
    <3>4. CASE o.stat = 2 \/ (o.stat = 3 /\ p \in o.sclust .. o.sclust + o.n_cont)
      <4>1. o2 \in Recs /\ o2.stat = 2 /\ o2.sclust = s[1]
        BY <3>4, <3>1, <2>1, <2>2, StatIs
      <4>2. Block(q, k)
        <5>1. \A i \in 1 .. k : s[i] = s[1] + i - 1
          <6>1. CASE o.stat = 2
            BY <6>1, <3>1 DEF Describes, Block
          <6>2. CASE o.stat = 3
            <7>1. o.n_cont + 1 < Len(s) /\ Block(s, o.n_cont + 1)
              BY <6>2 DEF Describes
            <7>2. s[k] \in s[1] .. s[1] + o.n_cont
              BY <6>2, <3>4, <3>1, <2>1
            <7>3. k <= o.n_cont + 1
              BY <7>1, <7>2, <3>1, <2>1, InBlock
            <7>4. \A i \in 1 .. k : i \in 1 .. o.n_cont + 1
              <8>1. o.n_cont \in Nat
                BY <2>1
              <8> QED BY <7>3, <8>1
            <7> QED BY <7>1, <7>4 DEF Block
          <6> QED BY <6>1, <6>2, <3>4
        <5> QED BY <5>1, <3>1, <1>5 DEF Block
      <4>3. z \in Recs /\ z.size = k /\ z.sclust = s[1] /\ z.stat = 2
        BY <4>1, <2>4, KeptIs
      <4> HIDE DEF z
      <4>4. Describes(u.fat, z, q)
        BY <4>2, <4>3, <3>1, <1>5 DEF Describes
      <4> QED BY <4>4 DEF z
    <3>5. CASE o.stat = 3 /\ p \notin o.sclust .. o.sclust + o.n_cont
      <4>1. o2 = o
        BY <3>5, <3>1, <2>2
      <4>2. Block(s, o.n_cont + 1)
        BY <3>5 DEF Describes
      <4>3. o.n_cont + 1 < k
        <5> SUFFICES ASSUME k <= o.n_cont + 1  PROVE FALSE
          BY <2>1
        <5>1. s[k] \in s[1] .. s[1] + o.n_cont
          BY <4>2, <2>1, <3>1, BlockIn
        <5> QED BY <5>1, <3>5, <3>1, <2>1
      <4>4. Block(q, o.n_cont + 1)
        <5>1. \A i \in 1 .. o.n_cont + 1 : i \in 1 .. k
          BY <4>3, <2>1
        <5> QED BY <5>1, <4>2, <3>1, <1>5 DEF Block
      <4>5. z \in Recs /\ z.size = k /\ z.sclust = s[1] /\ z.stat = 3 /\ z.n_cont = o.n_cont
        BY <4>1, <3>5, <2>1, <2>4, KeptIs
      <4> HIDE DEF z
      <4>6. Describes(u.fat, z, q)
        BY <4>3, <4>4, <4>5, <3>1, <3>3, <3>5, <1>5 DEF Describes
      <4> QED BY <4>6 DEF z
    <3>6. CASE o.stat = 0
      <4>1. o2 = o
        BY <3>6, <3>1, <2>2
      <4>2. z \in Recs /\ z.size = k /\ z.sclust = s[1] /\ z.stat = 0
        BY <4>1, <3>6, <2>1, <2>4, KeptIs
      <4> HIDE DEF z
      <4>3. Describes(u.fat, z, q)
        BY <4>2, <3>1, <3>3, <3>6, <1>5 DEF Describes
      <4> QED BY <4>3 DEF z
    <3> QED BY <3>4, <3>5, <3>6, <2>1
  <2> QED BY <2>3, <2>4
<1> QED BY <1>11, <1>12, <1>13, <1>14 DEF r, p, q, t, RemovedRight

\* What fill_fat_chain is to leave: the same chain, all of it in the FAT.
FilledRight(v, o, s, r) ==
    /\ r.v \in Vols /\ r.v.bitmap = v.bitmap
    /\ \A c \in Clusters \ Range(s) : r.v.fat[c] = v.fat[c]
    /\ Describes(r.v.fat, r.o, s) /\ r.o.sclust = o.sclust
    /\ r.o.stat # 3

\* fill_fat_chain writes the links the chain lacks, and no others.
LEMMA FilledIs ==
    ASSUME NEW v \in Vols, NEW o, NEW s \in Seq(Clusters), Differ(s), Describes(v.fat, o, s)
    PROVE  FilledRight(v, o, s, Filled(v, o))
<1> DEFINE r == Filled(v, o)
           g == [c \in Clusters |-> IF c - o.sclust \in 0 .. o.n_cont - 1 THEN c + 1 ELSE v.fat[c]]
<1>1. v.fat \in [Clusters -> Nat] /\ v.bitmap \in SUBSET Clusters /\ v.last \in Nat
  BY DEF Vols
<1>2. o \in Recs /\ o.sclust \in Nat /\ o.n_cont \in Nat /\ o.stat \in {0, 2, 3} /\ o.size = Len(s)
  BY FieldsOf
<1>3. CASE o.stat # 3
  <2>1. r = [v |-> v, o |-> o]
    BY <1>3 DEF Filled
  <2>2. r.v = v /\ r.o = o
    BY <2>1
  <2> QED BY <2>2, <1>3 DEF FilledRight
<1>4. CASE o.stat = 3
  <2>1. r = [v |-> [v EXCEPT !.fat = g], o |-> [o EXCEPT !.stat = 0]]
    BY <1>4, <1>1 DEF Filled, Vols
  <2>2. r.v = [v EXCEPT !.fat = g] /\ r.o = [o EXCEPT !.stat = 0]
    BY <2>1
  <2>3. g \in [Clusters -> Nat]
    <3>1. \A c \in Clusters : c + 1 \in Nat /\ v.fat[c] \in Nat
      BY <1>1, Constants
    <3> QED BY <3>1
  <2>4. \A c \in Clusters : g[c] = IF c - o.sclust \in 0 .. o.n_cont - 1 THEN c + 1 ELSE v.fat[c]
    OBVIOUS
  <2> HIDE DEF g
  <2>5. r.v = [fat |-> g, bitmap |-> v.bitmap, last |-> v.last]
    BY <2>2 DEF Vols
  <2>6. r.v \in Vols /\ r.v.bitmap = v.bitmap /\ r.v.fat = g
    BY <2>3, <2>5, <1>1 DEF Vols
  <2>7. /\ r.o \in Recs /\ r.o.sclust = o.sclust /\ r.o.size = o.size
        /\ r.o.n_cont = o.n_cont /\ r.o.stat = 0
    <3> HIDE DEF r
    <3>1. LET q == [o EXCEPT !.stat = 0]
          IN  /\ q \in Recs /\ q.sclust = o.sclust /\ q.size = o.size
              /\ q.n_cont = o.n_cont /\ q.stat = 0
      BY <1>2, StatIs
    <3> QED BY <3>1, <2>2
  <2> HIDE DEF r
  <2>8. o.n_cont + 1 < Len(s) /\ Block(s, o.n_cont + 1) /\ s # <<>> /\ o.sclust = s[1]
    <3>1. o.n_cont + 1 < Len(s) /\ Block(s, o.n_cont + 1) /\ (s # <<>> => o.sclust = s[1])
      BY <1>4 DEF Describes
    <3> QED BY <3>1, <1>2, SeqIs
  <2>9. /\ Len(s) \in Nat /\ \A i \in 1 .. Len(s) : s[i] \in Clusters /\ s[i] \in Nat
        /\ Range(s) = {s[i] : i \in 1 .. Len(s)} /\ s[1] \in Nat
    BY <2>8, SeqIs
  <2>10. ASSUME NEW i \in 1 .. o.n_cont  PROVE s[i] - o.sclust \in 0 .. o.n_cont - 1
    <3>1. i \in 1 .. o.n_cont + 1
      BY <1>2
    <3>2. s[i] = s[1] + i - 1
      BY <3>1, <2>8 DEF Block
    <3> QED BY <3>2, <2>8, <2>9, <1>2
  <2>11. ASSUME NEW c \in Clusters, c - o.sclust \in 0 .. o.n_cont - 1
         PROVE  c - o.sclust + 1 \in 1 .. o.n_cont /\ s[c - o.sclust + 1] = c
    <3>1. c \in Nat /\ c - o.sclust + 1 \in 1 .. o.n_cont /\ c - o.sclust + 1 \in 1 .. o.n_cont + 1
      <4>1. c \in Nat /\ o.sclust \in Nat /\ o.n_cont \in Nat
        BY <1>2, Constants
      <4> QED BY <4>1, <2>11
    <3>2. s[c - o.sclust + 1] = s[1] + (c - o.sclust + 1) - 1
      BY <3>1, <2>8 DEF Block
    <3> QED BY <3>1, <3>2, <2>8, <2>9
  <2>12. \A i \in 1 .. o.n_cont : i \in 1 .. Len(s) /\ i + 1 \in 1 .. Len(s) /\ i # Len(s)
    BY <2>8, <2>9, <1>2
  <2>13. \A c \in Clusters \ Range(s) : g[c] = v.fat[c]
    BY <2>4, <2>9, <2>11, <2>12
  <2>14. ASSUME NEW i \in 1 .. Len(s)
         PROVE  g[s[i]] = IF i = Len(s) THEN EOC ELSE s[i + 1]
    <3>1. CASE i <= o.n_cont
      <4>1. i \in 1 .. o.n_cont /\ i \in 1 .. o.n_cont + 1 /\ i + 1 \in 1 .. o.n_cont + 1
        BY <3>1, <1>2
      <4>2. s[i] = s[1] + i - 1 /\ s[i + 1] = s[1] + (i + 1) - 1
        BY <4>1, <2>8 DEF Block
      <4>3. s[i + 1] = s[i] + 1
        BY <4>2, <2>9
      <4>4. g[s[i]] = s[i] + 1
        BY <4>1, <2>4, <2>9, <2>10
      <4> QED BY <4>1, <4>3, <4>4, <2>12
    <3>2. CASE ~ (i <= o.n_cont)
      <4>1. i > o.n_cont
        BY <3>2, <1>2
      <4>2. v.fat[s[i]] = IF i = Len(s) THEN EOC ELSE s[i + 1]
        BY <4>1, <1>4 DEF Describes
      <4>3. s[i] - o.sclust \notin 0 .. o.n_cont - 1
        <5> SUFFICES ASSUME s[i] - o.sclust \in 0 .. o.n_cont - 1  PROVE FALSE
          OBVIOUS
        <5> DEFINE j == s[i] - o.sclust + 1
        <5>1. s[i] \in Clusters
          BY <2>9
        <5>2. j \in 1 .. o.n_cont /\ s[j] = s[i]
          BY <5>1, <2>11
        <5> HIDE DEF j
        <5>3. j = i
          BY <5>2, <2>12 DEF Differ
        <5> QED BY <5>2, <5>3, <4>1, <1>2
      <4> QED BY <4>2, <4>3, <2>4, <2>9
    <3> QED BY <3>1, <3>2
  <2>15. Describes(g, r.o, s)
    BY <2>7, <2>8, <2>14, <1>2 DEF Describes
  <2> QED BY <2>6, <2>7, <2>13, <2>15 DEF r, FilledRight
<1> QED BY <1>3, <1>4

\* An object whose chain gets cluster c at its end.
Grown(o, c) == [o EXCEPT !.size = @ + 1, !.sclust = IF @ = 0 THEN c ELSE @]

\* Its fields.
LEMMA GrownIs ==
    ASSUME NEW o \in Recs, NEW c \in Nat
    PROVE  /\ Grown(o, c) \in Recs /\ Grown(o, c).size = o.size + 1
           /\ Grown(o, c).stat = o.stat /\ Grown(o, c).n_cont = o.n_cont
           /\ Grown(o, c).sclust = IF o.sclust = 0 THEN c ELSE o.sclust
<1> DEFINE z == IF o.sclust = 0 THEN c ELSE o.sclust
           k == o.size + 1
<1>1. Grown(o, c) = [o EXCEPT !.size = k, !.sclust = z]
  BY DEF Grown, Recs
<1>2. z \in Nat /\ k \in Nat
  BY DEF Recs
<1> HIDE DEF z, k
<1>3. LET q == [o EXCEPT !.size = k, !.sclust = z]
      IN  /\ q \in Recs /\ q.sclust = z /\ q.size = k
          /\ q.n_cont = o.n_cont /\ q.stat = o.stat
  BY <1>2 DEF Recs
<1> QED BY <1>1, <1>3 DEF z, k

\* What create_chain is to leave: one cluster more at the end of the chain.
CreatedRight(v, o, s, r) ==
    /\ r.v \in Vols /\ r.c \notin v.bitmap /\ r.v.bitmap = v.bitmap \cup {r.c}
    /\ \A d \in Clusters \ (Range(s) \cup {r.c}) : r.v.fat[d] = v.fat[d]
    /\ Describes(r.v.fat, Grown(r.o, r.c), Append(s, r.c))
    /\ r.o.sclust = o.sclust /\ r.o \in Recs

\* create_chain takes a free cluster, and changes no link of another object.
LEMMA CreatedIs ==
    ASSUME NEW v \in Vols, NEW o, NEW s \in Seq(Clusters), Differ(s), Describes(v.fat, o, s),
           Range(s) \subseteq v.bitmap, CreateChain(v, o, LastOf(v, o)).c \in Clusters
    PROVE  CreatedRight(v, o, s, CreateChain(v, o, LastOf(v, o)))
<1> DEFINE c == LastOf(v, o)
           r == CreateChain(v, o, c)
           cs == IF c = 0 THEN EOC ELSE GetFat(v, o, c)
           n == FindBitmap(v, IF c = 0 THEN Suggested(v) ELSE c, 1)
           q == Status(o, c, n)
           linked == [d \in Clusters |-> IF q.stat = 2 \/ d \notin {c, n} THEN v.fat[d]
                                         ELSE IF d = n THEN EOC ELSE n]
           a == Append(s, n)
<1>1. v.fat \in [Clusters -> Nat] /\ v.bitmap \in SUBSET Clusters /\ v.last \in Nat
  BY DEF Vols
<1>2. /\ o \in Recs /\ o.sclust \in Nat /\ o.n_cont \in Nat /\ o.stat \in {0, 2, 3}
      /\ o.size = Len(s) /\ o.sclust = IF s = <<>> THEN 0 ELSE s[1]
  BY FieldsOf
<1>3. /\ Len(s) \in Nat /\ (s = <<>> <=> Len(s) = 0)
      /\ \A i \in 1 .. Len(s) : s[i] \in Clusters /\ s[i] \in Nat /\ s[i] \in Range(s)
      /\ s # <<>> => 1 \in 1 .. Len(s) /\ Len(s) \in 1 .. Len(s)
  BY SeqIs
<1>4. c = (IF s = <<>> THEN 0 ELSE s[Len(s)]) /\ cs = EOC
  <2>1. c = IF s = <<>> THEN 0 ELSE s[Len(s)]
    BY ChainIs
  <2>2. s # <<>> => GetFat(v, o, s[Len(s)]) = EOC
    BY ChainIs
  <2> HIDE DEF c
  <2> QED BY <2>1, <2>2
<1>5. r = IF cs # EOC \/ n = 0 THEN [v |-> v, o |-> o, c |-> IF cs # EOC THEN cs ELSE 0]
          ELSE [v |-> [fat |-> linked, bitmap |-> v.bitmap \cup {n}, last |-> n], o |-> q, c |-> n]
  BY DEF CreateChain
<1>6. r.c \in Clusters
  OBVIOUS
<1>7. c = 0 <=> s = <<>>
  BY <1>3, <1>4, Constants
<1>8. c \in Nat /\ (s # <<>> => c \in Clusters)
  BY <1>3, <1>4
<1> HIDE DEF c, r, cs, q, a
<1>9. n # 0
  <2> HIDE DEF n, linked
  <2>1. ASSUME n = 0  PROVE FALSE
    <3>1. r.c = 0
      BY <1>4, <1>5, <2>1
    <3> QED BY <3>1, <1>6, Constants
  <2> QED BY <2>1
<1>10. r.v = [fat |-> linked, bitmap |-> v.bitmap \cup {n}, last |-> n] /\ r.o = q /\ r.c = n
  <2> HIDE DEF n, linked
  <2> QED BY <1>4, <1>5, <1>9
<1>11. n \in Clusters /\ n \in Nat
  <2> HIDE DEF n, linked
  <2> QED BY <1>6, <1>10, Constants
<1>12. n \notin v.bitmap
  <2> DEFINE b == IF c = 0 THEN Suggested(v) ELSE c
  <2>1. b \in Nat
    BY <1>1, <1>8 DEF Suggested
  <2> HIDE DEF b
  <2>2. n = FindBitmap(v, b, 1)
    BY DEF b
  <2> HIDE DEF n, linked
  <2>3. n + 0 = n /\ n <= N - 1
    BY <1>11, Constants
  <2>4. FindBitmap(v, b, 1) # 0 /\ FindBitmap(v, b, 1) + 0 <= N - 1 /\ 0 \in 0 .. 1 - 1
        /\ 1 \in Nat \ {0}
    BY <2>2, <2>3, <1>9
  <2>5. FindBitmap(v, b, 1) + 0 \notin v.bitmap
    BY <2>1, <2>4, FoundIs
  <2> QED BY <2>2, <2>3, <2>5
<1> HIDE DEF n
<1>13. linked \in [Clusters -> Nat]
  <2>1. \A d \in Clusters : v.fat[d] \in Nat
    BY <1>1
  <2> QED BY <2>1, <1>11, Constants
<1>14. \A d \in Clusters : linked[d] = IF q.stat = 2 \/ d \notin {c, n} THEN v.fat[d]
                                       ELSE IF d = n THEN EOC ELSE n
  OBVIOUS
<1> HIDE DEF linked
<1>15. r.v \in Vols /\ r.v.bitmap = v.bitmap \cup {n} /\ r.v.fat = linked
  BY <1>1, <1>10, <1>11, <1>13 DEF Vols
<1>16. n \notin Range(s)
  BY <1>12
<1>17. \A d \in Clusters \ (Range(s) \cup {n}) : linked[d] = v.fat[d]
  <2>1. c \notin Clusters \ Range(s)
    BY <1>3, <1>4, <1>7, Constants
  <2> QED BY <2>1, <1>14
<1>18. /\ a \in Seq(Clusters) /\ Len(a) = Len(s) + 1 /\ a # <<>>
       /\ \A i \in 1 .. Len(s) : a[i] = s[i]
       /\ a[Len(s) + 1] = n
  <2>1. /\ a \in Seq(Clusters) /\ Len(a) = Len(s) + 1
        /\ \A i \in 1 .. Len(s) : a[i] = s[i]
        /\ a[Len(s) + 1] = n
    BY <1>11, <1>16, AppendIs DEF a
  <2> QED BY <2>1, <1>3, SeqIs
<1>19. q \in Recs /\ q.sclust = o.sclust /\ q.size = o.size
       /\ (c = 0 => q.stat = 2)
       /\ (c # 0 /\ o.stat = 2 /\ n # c + 1 => q.stat = 3 /\ q.n_cont = c - o.sclust)
       /\ (c # 0 /\ ~(o.stat = 2 /\ n # c + 1) => q = o)
  <2>1. CASE c = 0
    <3>1. q = [o EXCEPT !.stat = 2]
      BY <2>1 DEF q, Status
    <3> QED BY <3>1, <2>1, <1>2, StatIs
  <2>2. CASE c # 0 /\ o.stat = 2 /\ n # c + 1
    <3>1. q = [o EXCEPT !.stat = 3, !.n_cont = c - o.sclust]
      BY <2>2 DEF q, Status
    <3>2. c - o.sclust \in Nat
      <4>1. s # <<>> /\ o.sclust = s[1] /\ c = s[Len(s)]
        BY <2>2, <1>2, <1>4, <1>7
      <4>2. s[Len(s)] = s[1] + Len(s) - 1
        BY <2>2, <4>1, <1>3 DEF Describes, Block
      <4> QED BY <4>1, <4>2, <1>3
    <3>3. q.stat = 3 /\ q.n_cont = c - o.sclust /\ q \in Recs /\ q.sclust = o.sclust /\ q.size = o.size
      BY <3>1, <3>2, <1>2 DEF Recs
    <3> QED BY <2>2, <3>3
  <2>3. CASE c # 0 /\ ~(o.stat = 2 /\ n # c + 1)
    <3>1. q = o
      BY <2>3 DEF q, Status
    <3> QED BY <3>1, <2>3, <1>2
  <2> QED BY <2>1, <2>2, <2>3
<1> DEFINE z == Grown(q, n)
<1>20. /\ z \in Recs /\ z.size = Len(a) /\ z.stat = q.stat /\ z.n_cont = q.n_cont
       /\ z.sclust = a[1]
  <2>1. a[1] = IF s = <<>> THEN n ELSE s[1]
    BY <1>3, <1>18
  <2>2. o.sclust = 0 <=> s = <<>>
    BY <1>2, <1>3, Constants
  <2>3. /\ z \in Recs /\ z.size = q.size + 1 /\ z.stat = q.stat /\ z.n_cont = q.n_cont
        /\ z.sclust = IF q.sclust = 0 THEN n ELSE q.sclust
    BY <1>11, <1>19, GrownIs
  <2> HIDE DEF z
  <2> QED BY <2>1, <2>2, <2>3, <1>2, <1>18, <1>19
<1> HIDE DEF z
<1>21. Describes(linked, z, a)
  <2>1. CASE s = <<>>
    <3>1. Block(a, Len(a)) /\ z.stat = 2
      BY <2>1, <1>3, <1>7, <1>11, <1>18, <1>19, <1>20 DEF Block
    <3> QED BY <3>1, <1>18, <1>20 DEF Describes
  <2>2. CASE s # <<>>
    <3>1. /\ c = s[Len(s)] /\ c # 0 /\ c # n /\ c \in Clusters /\ o.sclust = s[1] /\ a[1] = s[1]
          /\ s[1] \in Nat /\ c \in Nat /\ Len(s) # 0
      BY <2>2, <1>2, <1>3, <1>4, <1>7, <1>8, <1>16, <1>18
    <3>2. \A i \in 1 .. Len(a) : i \in 1 .. Len(s) \/ i = Len(s) + 1
      BY <1>3, <1>18
    <3>3. CASE o.stat = 2 /\ n = c + 1
      <4>1. z.stat = 2
        BY <3>1, <3>3, <1>19, <1>20
      <4>2. \A i \in 1 .. Len(s) : s[i] = s[1] + i - 1
        BY <3>3 DEF Describes, Block
      <4>3. Block(a, Len(a))
        <5>1. a[Len(s) + 1] = s[1] + (Len(s) + 1) - 1
          <6>1. s[Len(s)] = s[1] + Len(s) - 1
            BY <2>2, <4>2, <1>3
          <6> QED BY <6>1, <3>1, <3>3, <1>3, <1>18
        <5> QED BY <5>1, <4>2, <3>1, <3>2, <1>18 DEF Block
      <4> QED BY <4>1, <4>3, <1>18, <1>20 DEF Describes
    <3>4. CASE o.stat = 2 /\ n # c + 1
      <4>1. z.stat = 3 /\ z.n_cont = c - s[1]
        BY <3>1, <3>4, <1>19, <1>20
      <4>2. \A i \in 1 .. Len(s) : s[i] = s[1] + i - 1
        BY <3>4 DEF Describes, Block
      <4>3. c - s[1] = Len(s) - 1
        <5>1. s[Len(s)] = s[1] + Len(s) - 1
          BY <2>2, <4>2, <1>3
        <5> QED BY <5>1, <3>1, <1>3
      <4>4. z.n_cont + 1 = Len(s) /\ z.n_cont + 1 < Len(a)
        BY <4>1, <4>3, <1>3, <1>18
      <4>5. Block(a, Len(s))
        BY <4>2, <3>1, <1>18 DEF Block
      <4>6. ASSUME NEW i \in 1 .. Len(a), i > z.n_cont
            PROVE  linked[a[i]] = IF i = Len(a) THEN EOC ELSE a[i + 1]
        <5>1. i = Len(s) \/ i = Len(s) + 1
          BY <4>1, <4>3, <4>6, <3>2, <1>3
        <5>2. q.stat = 3
          BY <4>1, <1>20
        <5>3. linked[c] = n /\ linked[n] = EOC
          BY <5>2, <3>1, <1>11, <1>14
        <5> QED BY <5>1, <5>3, <3>1, <2>2, <1>3, <1>18
      <4> QED BY <4>1, <4>4, <4>5, <4>6, <1>18, <1>20 DEF Describes
    <3>5. CASE o.stat # 2
      <4>1. q = o /\ z.stat = o.stat /\ z.n_cont = o.n_cont /\ q.stat # 2
        BY <3>1, <3>5, <1>19, <1>20
      <4>2. ASSUME o.stat = 3
            PROVE  o.n_cont + 1 < Len(a) /\ Block(a, o.n_cont + 1)
        <5>1. o.n_cont + 1 < Len(s) /\ Block(s, o.n_cont + 1)
          BY <4>2 DEF Describes
        <5>2. \A i \in 1 .. o.n_cont + 1 : i \in 1 .. Len(s)
          BY <5>1, <1>2, <1>3
        <5>3. Block(a, o.n_cont + 1)
          BY <5>1, <5>2, <3>1, <1>18 DEF Block
        <5> QED BY <5>1, <5>3, <1>2, <1>3, <1>18
      <4>3. ASSUME NEW i \in 1 .. Len(a), o.stat = 0 \/ i > o.n_cont
            PROVE  linked[a[i]] = IF i = Len(a) THEN EOC ELSE a[i + 1]
        <5>1. linked[c] = n /\ linked[n] = EOC
          BY <4>1, <3>1, <1>11, <1>14
        <5>2. CASE i = Len(s) \/ i = Len(s) + 1
          BY <5>1, <5>2, <3>1, <2>2, <1>3, <1>18
        <5>3. CASE i # Len(s) /\ i # Len(s) + 1
          <6>1. i \in 1 .. Len(s) /\ i + 1 \in 1 .. Len(s) /\ i # Len(a) /\ Len(s) \in 1 .. Len(s)
            BY <5>3, <3>1, <3>2, <1>3, <1>18
          <6>2. s[i] # c /\ s[i] # n /\ s[i] \in Clusters
            BY <6>1, <5>3, <3>1, <1>3, <1>16 DEF Differ
          <6>3. linked[s[i]] = v.fat[s[i]]
            BY <6>2, <1>14
          <6>4. o.stat \in {0, 3}
            BY <3>5, <1>2
          <6>5. v.fat[s[i]] = s[i + 1]
            BY <6>1, <6>4, <5>3, <4>3 DEF Describes
          <6> QED BY <6>1, <6>3, <6>5, <1>18
        <5> QED BY <5>2, <5>3
      <4> QED BY <4>1, <4>2, <4>3, <3>5, <1>18, <1>20 DEF Describes
    <3> QED BY <3>3, <3>4, <3>5
  <2> QED BY <2>1, <2>2
<1> QED BY <1>10, <1>12, <1>15, <1>17, <1>19, <1>21 DEF r, c, z, a, CreatedRight

\* The clusters of s are free, and all else is as before.
EmptiedRight(v, s, u) ==
    /\ u \in Vols /\ u.bitmap = v.bitmap \ Range(s)
    /\ \A c \in Clusters \ Range(s) : u.fat[c] = v.fat[c]

\* The whole chain is removed.
LEMMA EmptiedIs ==
    ASSUME NEW v \in Vols, NEW o, NEW s \in Seq(Clusters), Differ(s), Describes(v.fat, o, s),
           o.sclust # 0
    PROVE  EmptiedRight(v, s, RemoveChain(v, o, o.sclust, 0).v)
<1>1. o.sclust = s[1] /\ s # <<>>
  BY FieldsOf
<1> SUFFICES ASSUME NEW k \in Nat, k = 0
             PROVE  EmptiedRight(v, s, RemoveChain(v, o, o.sclust, 0).v)
  OBVIOUS
<1>2. k < Len(s) /\ k + 1 = 1 /\ k <= Len(s)
  BY <1>1, SeqIs
<1>3. LET r == Removed(v, o, s, k)
      IN  /\ r.v \in Vols /\ r.v.bitmap = v.bitmap \ Range(Cut(s, k))
          /\ \A c \in Clusters \ Range(s) : r.v.fat[c] = v.fat[c]
  <2>1. RemovedRight(v, o, s, k, Removed(v, o, s, k))
    BY <1>2, RemovedIs
  <2> QED BY <2>1 DEF RemovedRight
<1>4. Removed(v, o, s, k) = RemoveChain(v, o, o.sclust, 0)
  BY <1>1, <1>2 DEF Before, Removed
<1>5. Range(Cut(s, k)) = Range(s)
  <2>1. /\ Range(SubSeq(s, 1, k)) = Range(s) \ Range(Cut(s, k))
        /\ Range(Cut(s, k)) \subseteq Range(s)
    BY <1>2, SplitIs DEF Cut
  <2>2. Range(SubSeq(s, 1, k)) = {s[i] : i \in 1 .. k}
    BY <1>2, PrefixIs
  <2>3. 1 .. k = {}
    OBVIOUS
  <2> QED BY <2>1, <2>2, <2>3
<1> QED BY <1>3, <1>4, <1>5 DEF EmptiedRight

\* A cluster is in use that was not, and no link has changed.
NewRight(v, r) ==
    /\ r.v \in Vols /\ r.c \notin v.bitmap /\ r.v.bitmap = v.bitmap \cup {r.c}
    /\ r.v.fat = v.fat

\* A chain of its own, for an object that keeps none of it.
LEMMA NewChainIs ==
    ASSUME NEW v \in Vols, NEW o \in Recs, CreateChain(v, o, 0).c \in Clusters
    PROVE  NewRight(v, CreateChain(v, o, 0))
<1> DEFINE r == CreateChain(v, o, 0)
           n == FindBitmap(v, Suggested(v), 1)
           q == Status(o, 0, n)
           linked == [d \in Clusters |-> IF q.stat = 2 \/ d \notin {0, n} THEN v.fat[d]
                                         ELSE IF d = n THEN EOC ELSE n]
<1>1. v.fat \in [Clusters -> Nat] /\ v.bitmap \in SUBSET Clusters /\ v.last \in Nat
  BY DEF Vols
<1>2. r = IF n = 0 THEN [v |-> v, o |-> o, c |-> 0]
          ELSE [v |-> [fat |-> linked, bitmap |-> v.bitmap \cup {n}, last |-> n], o |-> q, c |-> n]
  BY DEF CreateChain
<1>3. q.stat = 2
  <2>1. q = [o EXCEPT !.stat = 2]
    BY DEF Status
  <2>2. LET g == [o EXCEPT !.stat = 2] IN g.stat = 2
    BY StatIs
  <2> HIDE DEF q
  <2> QED BY <2>1, <2>2
<1> HIDE DEF q
<1>4. linked = v.fat
  BY <1>1, <1>3
<1>5. r.c \in Clusters
  OBVIOUS
<1> HIDE DEF r, linked
<1>6. n # 0
  <2> HIDE DEF n
  <2> QED BY <1>2, <1>5, Constants
<1>7. r.v = [fat |-> v.fat, bitmap |-> v.bitmap \cup {n}, last |-> n] /\ r.c = n
  <2> HIDE DEF n
  <2> QED BY <1>2, <1>4, <1>6
<1>8. n \in Clusters /\ n + 0 = n /\ n <= N - 1 /\ n \in Nat
  <2> HIDE DEF n
  <2>1. n \in Clusters
    BY <1>5, <1>7
  <2> QED BY <2>1, Constants
<1>9. n \notin v.bitmap
  <2> DEFINE b == Suggested(v)
  <2>1. b \in Nat
    BY <1>1 DEF Suggested
  <2> HIDE DEF b
  <2>2. n = FindBitmap(v, b, 1)
    BY DEF b
  <2> HIDE DEF n
  <2>3. FindBitmap(v, b, 1) # 0 /\ FindBitmap(v, b, 1) + 0 <= N - 1 /\ 0 \in 0 .. 1 - 1
        /\ 1 \in Nat \ {0}
    BY <2>2, <1>6, <1>8
  <2>4. FindBitmap(v, b, 1) + 0 \notin v.bitmap
    BY <2>1, <2>3, FoundIs
  <2> QED BY <2>2, <2>4, <1>8
<1> HIDE DEF n
<1>10. r.v \in Vols /\ r.v.bitmap = v.bitmap \cup {n} /\ r.v.fat = v.fat
  BY <1>1, <1>7, <1>8 DEF Vols
<1> QED BY <1>7, <1>9, <1>10 DEF r, NewRight

\* A status that is not 3 says the same without its count.
LEMMA NoCount ==
    ASSUME NEW fat, NEW o, NEW s \in Seq(Clusters), Describes(fat, o, s), o.stat # 3
    PROVE  /\ Describes(fat, [o EXCEPT !.n_cont = 0], s)
           /\ [o EXCEPT !.n_cont = 0] \in Recs
<1> DEFINE z == [o EXCEPT !.n_cont = 0]
<1>1. o \in Recs
  BY DEF Describes
<1>2. z \in Recs /\ z.sclust = o.sclust /\ z.size = o.size /\ z.stat = o.stat
  BY <1>1 DEF Recs
<1> HIDE DEF z
<1>3. Describes(fat, z, s)
  BY <1>2 DEF Describes
<1> QED BY <1>2, <1>3 DEF z

\* A block of free clusters.
LEMMA BlockIs ==
    ASSUME NEW c \in Clusters, NEW k \in Nat \ {0}, c .. c + k - 1 \subseteq Clusters
    PROVE  LET s == [i \in 1 .. k |-> c + i - 1]
           IN  /\ s \in Seq(Clusters) /\ Len(s) = k /\ Differ(s) /\ s # <<>>
               /\ s[1] = c /\ Block(s, Len(s)) /\ Range(s) = c .. c + k - 1
<1> DEFINE s == [i \in 1 .. k |-> c + i - 1]
<1>1. c \in Nat
  BY Constants
<1>2. \A i \in 1 .. k : c + i - 1 \in c .. c + k - 1
  BY <1>1
<1>3. s \in [1 .. k -> Clusters] /\ \A i \in 1 .. k : s[i] = c + i - 1
  BY <1>2
<1> HIDE DEF s
<1>4. s \in Seq(Clusters) /\ Len(s) = k
  BY <1>3, LenProperties, SeqDef
<1>5. Differ(s)
  <2> SUFFICES ASSUME NEW i \in 1 .. k, NEW j \in 1 .. k, s[i] = s[j]  PROVE i = j
    BY <1>4 DEF Differ
  <2>1. c + i - 1 = c + j - 1
    BY <1>3
  <2> QED BY <2>1, <1>1
<1>6. s[1] = c /\ s # <<>>
  <2>1. s[1] = c + 1 - 1
    BY <1>3
  <2> QED BY <2>1, <1>1, <1>4, EmptyIs
<1>7. Block(s, Len(s))
  BY <1>3, <1>4, <1>6 DEF Block
<1>8. Range(s) = c .. c + k - 1
  <2>1. Range(s) = {s[i] : i \in 1 .. k}
    BY <1>4, SeqIs
  <2>2. ASSUME NEW e \in c .. c + k - 1  PROVE e - c + 1 \in 1 .. k /\ s[e - c + 1] = e
    <3>1. e \in Nat /\ e - c + 1 \in 1 .. k
      BY <1>1
    <3>2. s[e - c + 1] = c + (e - c + 1) - 1
      BY <3>1, <1>3
    <3> QED BY <3>1, <3>2, <1>1
  <2>3. \A i \in 1 .. k : s[i] \in c .. c + k - 1
    BY <1>2, <1>3
  <2> QED BY <2>1, <2>2, <2>3
<1> QED BY <1>4, <1>5, <1>6, <1>7, <1>8 DEF s
-----------------------------------------------------------------------------
(* The invariant holds in every state *)

\* What the invariant says of one object.
LEMMA OfObject ==
    ASSUME ChainsInv, NEW x \in Objs
    PROVE  /\ own[x] \in Seq(Clusters) /\ Differ(own[x]) /\ Range(own[x]) \subseteq vol.bitmap
           /\ vol \in Vols /\ vol.bitmap \subseteq Clusters
           /\ x \in made => Describes(vol.fat, Current(x), own[x])
           /\ x \notin made => own[x] = <<>>
           /\ x \in Dirs => Current(x) = ent[x]
           /\ ent[x] \in Recs
<1>1. own[x] \in Seq(Clusters) /\ Differ(own[x]) /\ vol \in Vols /\ vol.bitmap \subseteq Clusters
  BY DEF ChainsInv, Typed, Vols
<1>2. Range(own[x]) \subseteq Clusters
  BY <1>1, SeqIs
<1>3. Range(own[x]) \subseteq vol.bitmap
  BY <1>2 DEF ChainsInv
<1>4. x \in Dirs => x \notin open
  BY Constants DEF ChainsInv, Typed
<1>5. x \in Dirs => Current(x) = ent[x]
  BY <1>4 DEF Current
<1>6. ent[x] \in Recs
  BY DEF ChainsInv, Typed
<1> QED BY <1>1, <1>3, <1>5, <1>6 DEF ChainsInv

\* A step that gives object x the chain s out of its own and free clusters, and
\* changes no link of the others and none of the objects, except to make some.
LEMMA OneChanges ==
    ASSUME ChainsInv, Typed', NEW x \in Objs, NEW s \in Seq(Clusters), Differ(s),
           own' = [own EXCEPT ![x] = s],
           vol'.bitmap = (vol.bitmap \ Range(own[x])) \cup Range(s),
           \A c \in Range(s) : c \in Range(own[x]) \/ c \notin vol.bitmap,
           \A c \in vol.bitmap \ Range(own[x]) : vol'.fat[c] = vol.fat[c],
           x \notin made' => s = <<>>,
           x \in made' => Describes(vol'.fat, Current(x)', s),
           x \in Dirs \cap made' => s # <<>>,
           \A y \in made' \ {x} : \/ y \in made /\ Current(y)' = Current(y)
                                  \/ y \notin made /\ Current(y)' = NoChain /\ y \notin Dirs,
           made \ {x} \subseteq made'
    PROVE  ChainsInv'
<1>1. /\ own' [x] = s /\ own \in [Objs -> Seq(Clusters)]
      /\ \A y \in Objs : y # x => own'[y] = own[y]
  BY DEF ChainsInv, Typed
<1>2. made' \subseteq Objs
  BY DEF Typed
<1>3. \A y \in Objs : Differ(own'[y])
  BY <1>1 DEF ChainsInv
<1>4. \A y \in Objs \ made' : own'[y] = <<>>
  BY <1>1 DEF ChainsInv
<1>5. \A d \in Dirs \cap made' : own'[d] # <<>>
  <2>1. ASSUME NEW d \in Dirs \cap made', d # x  PROVE own'[d] # <<>>
    BY <1>1, <2>1, <1>2 DEF ChainsInv
  <2> QED BY <2>1, <1>1
<1>6. \A y, z \in Objs : y # z => Range(own'[y]) \cap Range(own'[z]) = {}
  <2>1. ASSUME NEW y \in Objs, y # x  PROVE Range(own[y]) \cap Range(s) = {}
    <3>1. Range(own[y]) \cap Range(own[x]) = {}
      BY <2>1 DEF ChainsInv
    <3>2. Range(own[y]) \subseteq vol.bitmap
      BY OfObject
    <3> QED BY <3>1, <3>2
  <2>2. ASSUME NEW y \in Objs, NEW z \in Objs, y # z
        PROVE  Range(own'[y]) \cap Range(own'[z]) = {}
    <3>1. CASE y = x
      BY <3>1, <2>1, <2>2, <1>1
    <3>2. CASE z = x
      BY <3>2, <2>1, <2>2, <1>1
    <3>3. CASE y # x /\ z # x
      BY <3>3, <2>2, <1>1 DEF ChainsInv
    <3> QED BY <3>1, <3>2, <3>3
  <2> QED BY <2>2
<1>7. \A c \in Clusters : c \in vol'.bitmap <=> \E y \in Objs : c \in Range(own'[y])
  <2> SUFFICES ASSUME NEW c \in Clusters
               PROVE  c \in vol'.bitmap <=> \E y \in Objs : c \in Range(own'[y])
    OBVIOUS
  <2>1. c \in vol.bitmap <=> \E y \in Objs : c \in Range(own[y])
    BY DEF ChainsInv
  <2>2. \A y \in Objs : y # x => Range(own[y]) \cap Range(own[x]) = {}
    BY DEF ChainsInv
  <2>3. ASSUME c \in vol'.bitmap  PROVE \E y \in Objs : c \in Range(own'[y])
    <3>1. CASE c \in Range(s)
      BY <3>1, <1>1
    <3>2. CASE c \in vol.bitmap \ Range(own[x])
      <4>1. PICK y \in Objs : c \in Range(own[y])
        BY <3>2, <2>1
      <4>2. y # x
        BY <4>1, <3>2
      <4> QED BY <4>1, <4>2, <1>1
    <3> QED BY <2>3, <3>1, <3>2
  <2>4. ASSUME NEW y \in Objs, c \in Range(own'[y])  PROVE c \in vol'.bitmap
    <3>1. CASE y = x
      BY <3>1, <2>4, <1>1
    <3>2. CASE y # x
      BY <3>2, <2>1, <2>2, <2>4, <1>1
    <3> QED BY <3>1, <3>2
  <2> QED BY <2>3, <2>4
<1>8. \A y \in made' : Describes(vol'.fat, Current(y)', own'[y])
  <2> SUFFICES ASSUME NEW y \in made'  PROVE Describes(vol'.fat, Current(y)', own'[y])
    OBVIOUS
  <2>1. CASE y = x
    BY <2>1, <1>1
  <2>2. CASE y # x /\ y \in made /\ Current(y)' = Current(y)
    <3>1. y \in Objs /\ own'[y] = own[y]
      BY <2>2, <1>1, <1>2
    <3>2. Range(own[y]) \cap Range(own[x]) = {}
      BY <3>1, <2>2 DEF ChainsInv
    <3>3. /\ own[y] \in Seq(Clusters) /\ Range(own[y]) \subseteq vol.bitmap
          /\ Describes(vol.fat, Current(y), own[y])
      BY <3>1, <2>2, OfObject
    <3>4. \A c \in Range(own[y]) : vol'.fat[c] = vol.fat[c]
      BY <3>2, <3>3
    <3>5. Describes(vol'.fat, Current(y), own[y])
      BY <3>3, <3>4, Framed
    <3> QED BY <3>1, <3>5, <2>2
  <2>3. CASE y # x /\ y \notin made /\ Current(y)' = NoChain
    <3>1. y \in Objs /\ own'[y] = <<>>
      BY <2>3, <1>1, <1>2 DEF ChainsInv
    <3> QED BY <3>1, <2>3, NoneIs
  <2> QED BY <2>1, <2>2, <2>3
<1> QED BY <1>3, <1>4, <1>5, <1>6, <1>7, <1>8 DEF ChainsInv

\* Another suggestion where to look for free clusters.
LEMMA LastIs ==
    ASSUME NEW v \in Vols, NEW n \in Nat
    PROVE  LET u == [v EXCEPT !.last = n]
           IN  u \in Vols /\ u.fat = v.fat /\ u.bitmap = v.bitmap
  BY DEF Vols

\* Opening a file.
LEMMA OpenSafe == ASSUME ChainsInv, NEW f \in Files, Open(f)  PROVE ChainsInv'
<1> USE DEF Open
<1> DEFINE s == own[f]
<1>1. f \in Objs /\ f \in made /\ f \notin open /\ f \notin Dirs
  BY Constants DEF Objs
<1>2. /\ s \in Seq(Clusters) /\ Differ(s) /\ Range(s) \subseteq vol.bitmap
      /\ Describes(vol.fat, Current(f), s) /\ ent[f] \in Recs
  BY <1>1, OfObject
<1>3. Typed'
  BY <1>1, <1>2 DEF ChainsInv, Typed
<1>4. Current(f)' = Current(f)
  BY <1>1 DEF Current, ChainsInv, Typed
<1>5. \A y \in made' \ {f} : y \in made /\ Current(y)' = Current(y)
  BY DEF Current, ChainsInv, Typed
<1>6. own' = [own EXCEPT ![f] = s]
  BY DEF ChainsInv, Typed
<1>7. vol'.bitmap = (vol.bitmap \ Range(s)) \cup Range(s) /\ vol' = vol /\ made' = made
  BY <1>2
<1> HIDE DEF Open, s
<1> QED BY <1>1, <1>2, <1>3, <1>4, <1>5, <1>6, <1>7, OneChanges DEF s

\* Opening a file to be empty.
LEMMA OverwriteSafe == ASSUME ChainsInv, NEW f \in Files, Overwrite(f)  PROVE ChainsInv'
<1> DEFINE o == ent[f]
           u == RemoveChain(vol, o, o.sclust, 0).v
<1>1. /\ f \in made /\ f \notin open /\ made' = made
      /\ vol' = IF o.sclust = 0 THEN vol ELSE [u EXCEPT !.last = o.sclust - 1]
      /\ ent' = [ent EXCEPT ![f] = NoChain] /\ obj' = [obj EXCEPT ![f] = NoChain]
      /\ open' = open \cup {f} /\ own' = [own EXCEPT ![f] = <<>>]
  BY DEF Overwrite
<1>2. f \in Objs /\ f \notin Dirs /\ Current(f) = o
  BY <1>1, Constants DEF Objs, Current
<1>3. /\ own[f] \in Seq(Clusters) /\ Differ(own[f]) /\ Range(own[f]) \subseteq vol.bitmap
      /\ Describes(vol.fat, o, own[f]) /\ o \in Recs /\ vol \in Vols
      /\ vol.bitmap \subseteq Clusters
  BY <1>1, <1>2, OfObject
<1>4. EmptiedRight(vol, own[f], vol')
  <2>1. o.sclust = IF own[f] = <<>> THEN 0 ELSE own[f][1]
    BY <1>3, FieldsOf
  <2>2. CASE o.sclust = 0
    <3>1. own[f] = <<>>
      BY <2>1, <2>2, <1>3, SeqIs, Constants
    <3> QED BY <3>1, <2>2, <1>1, <1>3, EmptyIs DEF EmptiedRight
  <2>3. CASE o.sclust # 0
    <3>1. EmptiedRight(vol, own[f], u)
      BY <2>3, <1>3, EmptiedIs
    <3>2. o.sclust - 1 \in Nat
      BY <2>3, <1>3, FieldsOf
    <3> HIDE DEF u
    <3>3. u \in Vols
      BY <3>1 DEF EmptiedRight
    <3>4. vol' \in Vols /\ vol'.fat = u.fat /\ vol'.bitmap = u.bitmap
      BY <3>2, <3>3, <2>3, <1>1, LastIs
    <3> QED BY <3>1, <3>4 DEF EmptiedRight
  <2> QED BY <2>2, <2>3
<1> HIDE DEF u, o
<1>5. Typed'
  BY <1>1, <1>2, <1>4, NoneIs, EmptyIs DEF ChainsInv, Typed, EmptiedRight, Vols
<1>6. Current(f)' = NoChain
  BY <1>1 DEF Current, ChainsInv, Typed
<1>7. \A y \in made' \ {f} : y \in made /\ Current(y)' = Current(y)
  BY <1>1 DEF Current, ChainsInv, Typed
<1>8. Describes(vol'.fat, Current(f)', <<>>)
  BY <1>6, NoneIs
<1>9. /\ vol'.bitmap = (vol.bitmap \ Range(own[f])) \cup Range(<<>>)
      /\ \A c \in Range(<<>>) : c \in Range(own[f]) \/ c \notin vol.bitmap
      /\ \A c \in vol.bitmap \ Range(own[f]) : vol'.fat[c] = vol.fat[c]
  BY <1>3, <1>4, EmptyIs DEF EmptiedRight
<1> QED BY <1>1, <1>2, <1>5, <1>7, <1>8, <1>9, EmptyIs, OneChanges

\* A file grows by one cluster.
LEMMA GrowSafe == ASSUME ChainsInv, NEW f \in Files, Grow(f)  PROVE ChainsInv'
<1> DEFINE o == obj[f]
           r == CreateChain(vol, o, LastOf(vol, o))
           s == Append(own[f], r.c)
<1>1. /\ f \in open /\ r.c \in Clusters /\ vol' = r.v
      /\ obj' = [obj EXCEPT ![f] = Grown(r.o, r.c)]
      /\ own' = [own EXCEPT ![f] = s] /\ ent' = ent /\ made' = made /\ open' = open
  BY DEF Grow, Grown
<1>2. f \in Objs /\ f \notin Dirs /\ f \in made /\ Current(f) = o
  BY <1>1, Constants DEF Objs, Current, ChainsInv, Typed
<1>3. /\ own[f] \in Seq(Clusters) /\ Differ(own[f]) /\ Range(own[f]) \subseteq vol.bitmap
      /\ Describes(vol.fat, o, own[f]) /\ vol \in Vols /\ vol.bitmap \subseteq Clusters
  BY <1>2, OfObject
<1>4. CreatedRight(vol, o, own[f], r)
  BY <1>1, <1>3, CreatedIs
<1> HIDE DEF r, o
<1>5. r.c \notin Range(own[f]) /\ r.c \notin vol.bitmap
  BY <1>3, <1>4 DEF CreatedRight
<1>6. /\ s \in Seq(Clusters) /\ Differ(s) /\ Range(s) = Range(own[f]) \cup {r.c}
  BY <1>1, <1>3, <1>5, AppendIs
<1> HIDE DEF s
<1>7. /\ vol' \in Vols /\ Describes(vol'.fat, Grown(r.o, r.c), s) /\ Grown(r.o, r.c) \in Recs
  <2>1. r.c \in Nat
    BY <1>1, Constants
  <2> QED BY <2>1, <1>1, <1>4, GrownIs DEF CreatedRight, s
<1>8. Typed'
  BY <1>1, <1>2, <1>6, <1>7 DEF ChainsInv, Typed, Vols
<1>9. Current(f)' = Grown(r.o, r.c)
  BY <1>1 DEF Current, ChainsInv, Typed
<1>10. \A y \in made' \ {f} : y \in made /\ Current(y)' = Current(y)
  BY <1>1 DEF Current, ChainsInv, Typed
<1>11. /\ vol'.bitmap = (vol.bitmap \ Range(own[f])) \cup Range(s)
       /\ \A c \in Range(s) : c \in Range(own[f]) \/ c \notin vol.bitmap
       /\ \A c \in vol.bitmap \ Range(own[f]) : vol'.fat[c] = vol.fat[c]
  BY <1>1, <1>3, <1>4, <1>5, <1>6 DEF CreatedRight
<1>12. Describes(vol'.fat, Current(f)', s)
  BY <1>7, <1>9
<1>13. f \in made' /\ own' = [own EXCEPT ![f] = s] /\ made \ {f} \subseteq made'
  BY <1>1, <1>2
<1> QED BY <1>2, <1>6, <1>8, <1>10, <1>11, <1>12, <1>13, OneChanges

\* A file is cut at the end of one of its clusters.
LEMMA TruncateSafe ==
    ASSUME ChainsInv, NEW f \in Files, NEW k \in Nat, Truncate(f, k)
    PROVE  ChainsInv'
<1> DEFINE o == obj[f]
           g == own[f]
           r == Removed(vol, o, g, k)
           s == SubSeq(g, 1, k)
<1>1. f \in open /\ k < o.size
  BY DEF Truncate
<1>2. f \in Objs /\ f \notin Dirs /\ f \in made /\ Current(f) = o
  BY <1>1, Constants DEF Objs, Current, ChainsInv, Typed
<1>3. /\ g \in Seq(Clusters) /\ Differ(g) /\ Range(g) \subseteq vol.bitmap
      /\ Describes(vol.fat, o, g) /\ vol \in Vols /\ vol.bitmap \subseteq Clusters
  BY <1>2, OfObject
<1>4. o.size = Len(g) /\ k < Len(g) /\ k <= Len(g) /\ g # <<>> /\ o.sclust = g[1]
  BY <1>1, <1>3, FieldsOf, SeqIs
<1>5. /\ vol' = r.v
      /\ obj' = [obj EXCEPT ![f] = Kept(r.o, k)]
      /\ own' = [own EXCEPT ![f] = s] /\ ent' = ent /\ made' = made /\ open' = open
  <2> DEFINE p == IF k = 0 THEN 0 ELSE Chain(vol, o)[k]
             c == IF k = 0 THEN o.sclust ELSE GetFat(vol, o, p)
  <2>1. Chain(vol, o) = g
    BY <1>3, ChainIs
  <2>2. p = Before(g, k)
    BY <2>1 DEF Before
  <2>3. c = g[k + 1]
    <3>1. CASE k = 0
      BY <3>1, <1>4
    <3>2. CASE k # 0
      <4>1. k \in 1 .. Len(g) /\ k # Len(g)
        BY <3>2, <1>3, <1>4, SeqIs
      <4>2. Leads(vol, o, g)
        BY <1>3, <1>4, DescribesLeads
      <4>3. GetFat(vol, o, g[k]) = g[k + 1]
        BY <4>1, <4>2 DEF Leads
      <4> QED BY <4>3, <3>2, <2>1
    <3> QED BY <3>1, <3>2
  <2>4. RemoveChain(vol, o, c, p) = r
    BY <2>2, <2>3 DEF Removed
  <2>5. /\ vol' = RemoveChain(vol, o, c, p).v
        /\ obj' = [obj EXCEPT ![f] = Kept(RemoveChain(vol, o, c, p).o, k)]
        /\ own' = [own EXCEPT ![f] = s] /\ ent' = ent /\ made' = made /\ open' = open
    BY DEF Truncate, Kept, ChainsInv, Typed
  <2> HIDE DEF p, c, r
  <2> QED BY <2>4, <2>5
<1>6. RemovedRight(vol, o, g, k, r)
  BY <1>3, <1>4, RemovedIs
<1>7. /\ s \in Seq(Clusters) /\ Differ(s)
      /\ Range(s) = Range(g) \ Range(Cut(g, k)) /\ Range(Cut(g, k)) \subseteq Range(g)
  BY <1>3, <1>4, PrefixIs, SplitIs DEF Cut
<1> HIDE DEF r, s
<1>8. /\ vol' \in Vols /\ Describes(vol'.fat, Kept(r.o, k), s) /\ Kept(r.o, k) \in Recs
  BY <1>5, <1>6 DEF RemovedRight, s, Describes
<1> HIDE DEF o, g
<1>9. Typed'
  BY <1>2, <1>5, <1>7, <1>8 DEF ChainsInv, Typed, Vols
<1>10. Current(f)' = Kept(r.o, k)
  BY <1>1, <1>5 DEF Current, ChainsInv, Typed
<1>11. \A y \in made' \ {f} : y \in made /\ Current(y)' = Current(y)
  BY <1>5 DEF Current, ChainsInv, Typed
<1>12. /\ vol'.bitmap = (vol.bitmap \ Range(g)) \cup Range(s)
       /\ \A c \in Range(s) : c \in Range(g)
       /\ \A c \in vol.bitmap \ Range(g) : vol'.fat[c] = vol.fat[c]
  BY <1>3, <1>5, <1>6, <1>7 DEF RemovedRight
<1>13. Describes(vol'.fat, Current(f)', s)
  BY <1>8, <1>10
<1>14. f \in made' /\ own' = [own EXCEPT ![f] = s] /\ made \ {f} \subseteq made'
  BY <1>2, <1>5
<1> QED BY <1>2, <1>7, <1>9, <1>11, <1>12, <1>13, <1>14, OneChanges DEF g

\* f_expand gives an empty file a block, or only looks for one.
LEMMA ExpandSafe ==
    ASSUME ChainsInv, NEW f \in Files, NEW k \in Nat \ {0}, NEW opt \in BOOLEAN, Expand(f, k, opt)
    PROVE  ChainsInv'
<1> DEFINE o == obj[f]
           stcl == IF vol.last \in Clusters THEN vol.last ELSE 2
           scl == FindBitmap(vol, stcl, k)
           block == scl .. scl + k - 1
           b == [i \in 1 .. k |-> scl + i - 1]
           z == [o EXCEPT !.sclust = scl, !.size = k, !.stat = 2]
<1>1. /\ f \in open /\ o.size = 0 /\ scl # 0 /\ block \subseteq Clusters
      /\ ent' = ent /\ made' = made /\ open' = open
      /\ opt => /\ vol' = [vol EXCEPT !.bitmap = @ \cup block, !.last = scl + k - 1]
                /\ obj' = [obj EXCEPT ![f] = z]
                /\ own' = [own EXCEPT ![f] = b]
      /\ ~opt => /\ vol' = [vol EXCEPT !.last = scl - 1]
                 /\ obj' = obj /\ own' = own
  BY DEF Expand, ChainsInv, Typed
<1>2. f \in Objs /\ f \notin Dirs /\ f \in made /\ Current(f) = o
  BY <1>1, Constants DEF Objs, Current, ChainsInv, Typed
<1>3. /\ own[f] \in Seq(Clusters) /\ Differ(own[f]) /\ Range(own[f]) \subseteq vol.bitmap
      /\ Describes(vol.fat, o, own[f]) /\ vol \in Vols /\ vol.bitmap \subseteq Clusters
      /\ o \in Recs /\ o.size = Len(own[f])
  BY <1>2, OfObject, FieldsOf
<1>4. own[f] = <<>> /\ Range(own[f]) = {}
  BY <1>1, <1>3, SeqIs, EmptyIs
<1>5. stcl \in Nat
  BY <1>3 DEF Vols
<1> HIDE DEF stcl
<1>6. \A j \in 0 .. k - 1 : scl + j <= N - 1 => scl + j \notin vol.bitmap
  BY <1>1, <1>5, FoundIs
<1>7. scl \in Clusters /\ scl \in Nat /\ scl - 1 \in Nat
  <2>1. scl \in Clusters
    BY <1>1, <1>5, FoundCluster
  <2> HIDE DEF scl
  <2> QED BY <2>1, Constants
<1> HIDE DEF scl, z, o, b
<1>8. /\ own[f] \in Seq(Clusters) /\ Differ(own[f])
      /\ \A y \in made' \ {f} : y \in made /\ Current(y)' = Current(y)
      /\ f \in made' /\ made \ {f} \subseteq made'
  BY <1>1, <1>2, <1>3 DEF Current, ChainsInv, Typed
<1>9. CASE opt = TRUE
  <2>1. scl \in Nat
    BY <1>7
  <2>2. scl \in Clusters
    BY <1>7
  <2>3. /\ b \in Seq(Clusters) /\ Len(b) = k /\ Differ(b) /\ b # <<>>
        /\ b[1] = scl /\ Block(b, Len(b)) /\ Range(b) = block
    BY <2>2, <1>1, BlockIs DEF b
  <2>4. \A c \in block : c \notin vol.bitmap
    <3> SUFFICES ASSUME NEW c \in block  PROVE c \notin vol.bitmap
      OBVIOUS
    <3>1. c \in Clusters /\ c \in Nat
      BY <1>1, Constants
    <3>2. c - scl \in 0 .. k - 1 /\ scl + (c - scl) = c /\ scl + (c - scl) <= N - 1
      BY <3>1, <2>1, Constants
    <3> QED BY <3>2, <1>6
  <2>5. /\ vol' \in Vols /\ vol'.fat = vol.fat /\ vol'.bitmap = vol.bitmap \cup block
    <3> DEFINE bm == vol.bitmap \cup block
               n == scl + k - 1
    <3>1. vol' = [vol EXCEPT !.bitmap = bm, !.last = n]
      BY <1>1, <1>3, <1>9 DEF Vols
    <3>2. n \in Nat /\ bm \in SUBSET Clusters
      BY <1>1, <1>3, <2>1
    <3> HIDE DEF n, bm
    <3>3. vol' \in Vols /\ vol'.fat = vol.fat /\ vol'.bitmap = bm
      BY <3>1, <3>2, <1>3 DEF Vols
    <3> QED BY <3>3 DEF bm
  <2>6. z \in Recs /\ z.sclust = scl /\ z.size = k /\ z.stat = 2
    BY <1>3, <2>1 DEF z, Recs
  <2>7. obj' = [obj EXCEPT ![f] = z] /\ own' = [own EXCEPT ![f] = b]
    BY <1>1, <1>9
  <2>8. Typed'
    BY <1>1, <1>2, <2>3, <2>5, <2>6, <2>7 DEF ChainsInv, Typed, Vols
  <2>9. Current(f)' = z
    BY <1>1, <2>7 DEF Current, ChainsInv, Typed
  <2>10. Describes(vol'.fat, Current(f)', b)
    <3>1. Describes(vol'.fat, z, b)
      BY <2>3, <2>6 DEF Describes
    <3> QED BY <3>1, <2>9
  <2>11. \A y \in made' \ {f} : y \in made /\ Current(y)' = Current(y)
    BY <1>8
  <2>12. /\ vol'.bitmap = (vol.bitmap \ Range(own[f])) \cup Range(b)
         /\ \A c \in Range(b) : c \notin vol.bitmap
         /\ \A c \in vol.bitmap \ Range(own[f]) : vol'.fat[c] = vol.fat[c]
    BY <1>4, <2>3, <2>4, <2>5
  <2> QED BY <1>2, <1>8, <2>3, <2>7, <2>8, <2>10, <2>12, OneChanges
<1>10. CASE opt = FALSE
  <2>1. vol' \in Vols /\ vol'.fat = vol.fat /\ vol'.bitmap = vol.bitmap
    <3> DEFINE n == scl - 1
    <3>1. vol' = [vol EXCEPT !.last = n] /\ n \in Nat
      BY <1>1, <1>7, <1>10
    <3> HIDE DEF n
    <3>2. LET u == [vol EXCEPT !.last = n]
          IN  u \in Vols /\ u.fat = vol.fat /\ u.bitmap = vol.bitmap
      BY <3>1, <1>3, LastIs
    <3> QED BY <3>1, <3>2
  <2>2. obj' = obj /\ own' = own
    BY <1>1, <1>10
  <2>3. Typed'
    BY <1>1, <2>1, <2>2 DEF ChainsInv, Typed, Vols
  <2>4. Current(f)' = o
    BY <1>1, <2>2 DEF Current, o
  <2>5. own' = [own EXCEPT ![f] = own[f]]
    BY <2>2 DEF ChainsInv, Typed
  <2>6. /\ vol'.bitmap = (vol.bitmap \ Range(own[f])) \cup Range(own[f])
        /\ Describes(vol'.fat, Current(f)', own[f])
    BY <1>3, <1>4, <2>1, <2>4
  <2> QED BY <1>2, <1>8, <2>1, <2>3, <2>5, <2>6, OneChanges
<1> QED BY <1>9, <1>10

\* A file is synchronised, or closed.
LEMMA SyncSafe ==
    ASSUME ChainsInv, NEW f \in Files, NEW close \in BOOLEAN, Sync(f, close)
    PROVE  ChainsInv'
<1> DEFINE o == obj[f]
           r == Filled(vol, o)
           z == [r.o EXCEPT !.n_cont = 0]
           s == own[f]
<1>1. /\ f \in open /\ vol' = r.v /\ ent' = [ent EXCEPT ![f] = z]
      /\ obj' = [obj EXCEPT ![f] = IF close THEN NoChain ELSE r.o]
      /\ open' = (IF close THEN open \ {f} ELSE open)
      /\ made' = made /\ own' = own
  BY DEF Sync
<1>2. f \in Objs /\ f \notin Dirs /\ f \in made /\ Current(f) = o
  BY <1>1, Constants DEF Objs, Current, ChainsInv, Typed
<1>3. /\ s \in Seq(Clusters) /\ Differ(s) /\ Range(s) \subseteq vol.bitmap
      /\ Describes(vol.fat, o, s) /\ vol \in Vols /\ vol.bitmap \subseteq Clusters
  BY <1>2, OfObject
<1>4. FilledRight(vol, o, s, r)
  BY <1>3, FilledIs
<1> HIDE DEF r, s, o
<1>5. /\ Describes(r.v.fat, r.o, s) /\ r.o \in Recs /\ r.o.stat # 3 /\ r.v \in Vols
  BY <1>4 DEF FilledRight, Describes
<1>6. Describes(r.v.fat, z, s) /\ z \in Recs
  BY <1>3, <1>5, NoCount
<1> HIDE DEF z
<1>7. Typed'
  BY <1>1, <1>2, <1>5, <1>6, NoneIs DEF ChainsInv, Typed, Vols
<1>8. Current(f)' = IF close THEN z ELSE r.o
  <2>1. CASE close = TRUE
    BY <1>1, <1>2, <2>1 DEF Current, ChainsInv, Typed
  <2>2. CASE close = FALSE
    BY <1>1, <1>2, <2>2 DEF Current, ChainsInv, Typed
  <2> QED BY <2>1, <2>2
<1>9. Describes(vol'.fat, Current(f)', s)
  BY <1>1, <1>5, <1>6, <1>8
<1>10. \A y \in made' \ {f} : y \in made /\ Current(y)' = Current(y)
  BY <1>1 DEF Current, ChainsInv, Typed
<1>11. own' = [own EXCEPT ![f] = s]
  BY <1>1 DEF ChainsInv, Typed, s
<1>12. /\ vol'.bitmap = (vol.bitmap \ Range(own[f])) \cup Range(s)
       /\ \A c \in Range(s) : c \in Range(own[f])
       /\ \A c \in vol.bitmap \ Range(own[f]) : vol'.fat[c] = vol.fat[c]
  BY <1>1, <1>3, <1>4 DEF FilledRight, s
<1> QED BY <1>1, <1>2, <1>3, <1>7, <1>9, <1>10, <1>11, <1>12, OneChanges

\* What a directory's table that grows is to leave.
StretchedRight(d, r) ==
    /\ r.v \in Vols /\ r.c \notin vol.bitmap /\ r.v.bitmap = vol.bitmap \cup {r.c}
    /\ \A c \in Clusters \ (Range(own[d]) \cup {r.c}) : r.v.fat[c] = vol.fat[c]
    /\ Describes(r.v.fat, r.o, Append(own[d], r.c)) /\ r.o \in Recs
    /\ Append(own[d], r.c) \in Seq(Clusters) /\ Differ(Append(own[d], r.c))
    /\ Range(Append(own[d], r.c)) = Range(own[d]) \cup {r.c}
    /\ Append(own[d], r.c) # <<>>

\* The table of a directory gets one cluster more, and its entry tells.
LEMMA StretchedIs ==
    ASSUME ChainsInv, NEW d \in Dirs \cap made, Stretched(vol, ent[d]).c \in Clusters
    PROVE  StretchedRight(d, Stretched(vol, ent[d]))
<1> DEFINE o == ent[d]
           g == own[d]
           r == CreateChain(vol, o, LastOf(vol, o))
           z == [r.o EXCEPT !.size = @ + 1]
           s == Filled(r.v, z)
           a == Append(g, r.c)
           e == [s.o EXCEPT !.n_cont = 0]
           t == Stretched(vol, o)
<1>1. t = [v |-> s.v, o |-> e, c |-> r.c]
  BY DEF Stretched
<1>2. r.c \in Clusters
  <2> HIDE DEF s, r, e
  <2> QED BY <1>1
<1>3. d \in Objs /\ d \in made /\ d \in Dirs
  BY DEF Objs
<1>4. /\ g \in Seq(Clusters) /\ Differ(g) /\ Range(g) \subseteq vol.bitmap
      /\ Describes(vol.fat, o, g) /\ vol \in Vols /\ vol.bitmap \subseteq Clusters
  BY <1>3, OfObject
<1>5. g # <<>> /\ o.sclust # 0
  <2>1. g # <<>>
    BY DEF ChainsInv
  <2> QED BY <2>1, <1>4, FieldsOf, SeqIs, Constants
<1>6. CreatedRight(vol, o, g, r)
  BY <1>2, <1>4, CreatedIs
<1> HIDE DEF t, e, s, r, o, g
<1>7. /\ r.v \in Vols /\ r.c \notin vol.bitmap /\ r.v.bitmap = vol.bitmap \cup {r.c}
      /\ \A c \in Clusters \ (Range(g) \cup {r.c}) : r.v.fat[c] = vol.fat[c]
      /\ Describes(r.v.fat, Grown(r.o, r.c), a)
      /\ r.o.sclust = o.sclust /\ r.o \in Recs
  BY <1>6 DEF CreatedRight
<1>8. z = Grown(r.o, r.c)
  <2>1. /\ z = [sclust |-> r.o.sclust, size |-> r.o.size + 1, stat |-> r.o.stat, n_cont |-> r.o.n_cont]
    BY <1>7 DEF Recs
  <2>2. Grown(r.o, r.c)
          = [sclust |-> r.o.sclust, size |-> r.o.size + 1, stat |-> r.o.stat, n_cont |-> r.o.n_cont]
    <3> DEFINE y == IF r.o.sclust = 0 THEN r.c ELSE r.o.sclust
    <3>1. Grown(r.o, r.c) = [r.o EXCEPT !.size = r.o.size + 1, !.sclust = y]
      BY <1>7 DEF Grown, Recs
    <3>2. y = r.o.sclust
      BY <1>5, <1>7
    <3> HIDE DEF y
    <3> QED BY <3>1, <3>2, <1>7 DEF Recs
  <2> QED BY <2>1, <2>2
<1>9. /\ a \in Seq(Clusters) /\ Differ(a) /\ Range(a) = Range(g) \cup {r.c} /\ a # <<>>
  <2>1. r.c \notin Range(g)
    BY <1>4, <1>7
  <2>2. /\ a \in Seq(Clusters) /\ Differ(a) /\ Range(a) = Range(g) \cup {r.c}
    BY <2>1, <1>2, <1>4, AppendIs
  <2> HIDE DEF a
  <2>3. a # <<>>
    BY <2>2, EmptyIs
  <2> QED BY <2>2, <2>3
<1> HIDE DEF z, a
<1>10. FilledRight(r.v, z, a, s)
  BY <1>7, <1>8, <1>9, FilledIs DEF s
<1>11. Describes(s.v.fat, e, a) /\ e \in Recs
  <2>1. Describes(s.v.fat, s.o, a) /\ s.o.stat # 3
    BY <1>10 DEF FilledRight
  <2> QED BY <2>1, <1>9, NoCount DEF e
<1>12. /\ s.v \in Vols /\ s.v.bitmap = vol.bitmap \cup {r.c}
       /\ \A c \in Clusters \ (Range(g) \cup {r.c}) : s.v.fat[c] = vol.fat[c]
  BY <1>7, <1>9, <1>10 DEF FilledRight
<1>13. t.v = s.v /\ t.o = e /\ t.c = r.c
  BY <1>1
<1>14. StretchedRight(d, t)
  BY <1>7, <1>9, <1>11, <1>12, <1>13 DEF StretchedRight, a, g
<1> QED BY <1>14 DEF t, o

\* What a step that registers an entry in a full directory has in common with
\* another: it may make a file, which has no clusters.
LEMMA RegistersSafe ==
    ASSUME ChainsInv, NEW d \in Dirs, Registers(d), Typed', d \in made',
           Current(d)' = ent'[d],
           \A y \in made' \ {d} : \/ y \in made /\ Current(y)' = Current(y)
                                  \/ y \notin made /\ Current(y)' = NoChain /\ y \notin Dirs,
           made \subseteq made'
    PROVE  ChainsInv'
<1> DEFINE r == Stretched(vol, ent[d])
           s == Append(own[d], r.c)
<1>1. /\ d \in Dirs \cap made /\ r.c \in Clusters /\ vol' = r.v
      /\ ent' = [ent EXCEPT ![d] = r.o] /\ own' = [own EXCEPT ![d] = s]
  BY DEF Registers
<1>2. StretchedRight(d, r)
  BY <1>1, StretchedIs
<1>3. d \in Objs /\ vol.bitmap \subseteq Clusters /\ Range(own[d]) \subseteq vol.bitmap
  BY <1>1, OfObject DEF Objs
<1> HIDE DEF r
<1>4. Current(d)' = r.o
  BY <1>1, <1>3 DEF ChainsInv, Typed
<1>5. /\ s \in Seq(Clusters) /\ Differ(s) /\ s # <<>>
      /\ Describes(vol'.fat, Current(d)', s)
      /\ vol'.bitmap = (vol.bitmap \ Range(own[d])) \cup Range(s)
      /\ \A c \in Range(s) : c \in Range(own[d]) \/ c \notin vol.bitmap
      /\ \A c \in vol.bitmap \ Range(own[d]) : vol'.fat[c] = vol.fat[c]
  BY <1>1, <1>2, <1>3, <1>4 DEF StretchedRight
<1> HIDE DEF s
<1> QED BY <1>1, <1>3, <1>5, OneChanges

\* The types after such a step.
LEMMA RegistersTyped ==
    ASSUME ChainsInv, NEW d \in Dirs, Registers(d)
    PROVE  /\ vol' \in Vols /\ ent' \in [Objs -> Recs] /\ own' \in [Objs -> Seq(Clusters)]
           /\ \A y \in Objs \ {d} : ent'[y] = ent[y] /\ own'[y] = own[y]
           /\ d \in made
<1> DEFINE r == Stretched(vol, ent[d])
<1>1. /\ d \in Dirs \cap made /\ r.c \in Clusters /\ vol' = r.v
      /\ ent' = [ent EXCEPT ![d] = r.o] /\ own' = [own EXCEPT ![d] = Append(@, r.c)]
  BY DEF Registers
<1>2. StretchedRight(d, r)
  BY <1>1, StretchedIs
<1> HIDE DEF r
<1>3. r.v \in Vols /\ r.o \in Recs /\ Append(own[d], r.c) \in Seq(Clusters) /\ d \in Objs
  BY <1>1, <1>2 DEF StretchedRight, Objs
<1> DEFINE a == Append(own[d], r.c)
<1>4. own' = [own EXCEPT ![d] = a] /\ own \in [Objs -> Seq(Clusters)] /\ ent \in [Objs -> Recs]
  BY <1>1 DEF ChainsInv, Typed
<1>5. a \in Seq(Clusters)
  BY <1>3
<1> HIDE DEF a
<1> QED BY <1>1, <1>3, <1>4, <1>5

\* A file is made.
LEMMA CreateSafe == ASSUME ChainsInv, NEW f \in Files, Create(f)  PROVE ChainsInv'
<1>1. /\ f \in Files \ made /\ made' = made \cup {f} /\ open' = open \cup {f}
      /\ obj' = [obj EXCEPT ![f] = NoChain]
      /\ (\E d \in Dirs : Registers(d)) \/ (vol' = vol /\ ent' = ent /\ own' = own)
  BY DEF Create
<1>2. f \in Objs /\ f \notin Dirs /\ f \notin made /\ f \notin open
  BY <1>1, Constants DEF Objs, ChainsInv, Typed
<1>3. Current(f)' = NoChain
  BY <1>1 DEF Current, ChainsInv, Typed
<1>4. CASE \E d \in Dirs : Registers(d)
  <2>1. PICK d \in Dirs : Registers(d)
    BY <1>4
  <2>2. /\ vol' \in Vols /\ ent' \in [Objs -> Recs] /\ own' \in [Objs -> Seq(Clusters)]
        /\ \A y \in Objs \ {d} : ent'[y] = ent[y] /\ own'[y] = own[y]
        /\ d \in made
    BY <2>1, RegistersTyped
  <2>3. Typed'
    BY <1>1, <1>2, <2>2, NoneIs DEF ChainsInv, Typed, Vols
  <2>4. Current(d)' = ent'[d]
    BY <1>1, <1>2, <2>2, Constants DEF Current, ChainsInv, Typed
  <2>5. \A y \in made' \ {d} : \/ y \in made /\ Current(y)' = Current(y)
                               \/ y \notin made /\ Current(y)' = NoChain /\ y \notin Dirs
    <3> SUFFICES ASSUME NEW y \in made' \ {d}
                 PROVE  \/ y \in made /\ Current(y)' = Current(y)
                        \/ y \notin made /\ Current(y)' = NoChain /\ y \notin Dirs
      OBVIOUS
    <3>1. CASE y = f
      BY <3>1, <1>2, <1>3
    <3>2. CASE y # f
      <4>1. y \in made /\ y \in Objs
        BY <3>2, <1>1 DEF ChainsInv, Typed
      <4>2. ent'[y] = ent[y]
        BY <4>1, <2>2
      <4>3. y \in open' <=> y \in open
        BY <3>2, <1>1
      <4>4. y \in open => obj'[y] = obj[y]
        BY <3>2, <1>1 DEF ChainsInv, Typed
      <4> QED BY <4>1, <4>2, <4>3, <4>4 DEF Current
    <3> QED BY <3>1, <3>2
  <2> QED BY <2>1, <2>2, <2>3, <2>4, <2>5, <1>1, RegistersSafe
<1>5. CASE vol' = vol /\ ent' = ent /\ own' = own
  <2>1. Typed'
    BY <1>1, <1>2, <1>5, NoneIs DEF ChainsInv, Typed, Vols
  <2>2. own[f] = <<>> /\ own' = [own EXCEPT ![f] = <<>>]
    BY <1>2, <1>5 DEF ChainsInv, Typed
  <2>3. \A y \in made' \ {f} : y \in made /\ Current(y)' = Current(y)
    BY <1>1, <1>5 DEF Current, ChainsInv, Typed
  <2>4. /\ vol'.bitmap = (vol.bitmap \ Range(own[f])) \cup Range(<<>>)
        /\ \A c \in vol.bitmap \ Range(own[f]) : vol'.fat[c] = vol.fat[c]
        /\ Describes(vol'.fat, Current(f)', <<>>)
        /\ \A c \in Range(<<>>) : c \in Range(own[f])
    BY <1>3, <1>5, <2>2, EmptyIs, NoneIs
  <2> QED BY <1>1, <1>2, <2>1, <2>2, <2>3, <2>4, EmptyIs, OneChanges
<1> QED BY <1>1, <1>4, <1>5

\* An object gets another name.
LEMMA RenameSafe == ASSUME ChainsInv, NEW x \in Objs, Rename(x)  PROVE ChainsInv'
<1>1. PICK d \in Dirs : Registers(d)
  BY DEF Rename
<1>2. obj' = obj /\ made' = made /\ open' = open
  BY DEF Rename
<1>3. /\ vol' \in Vols /\ ent' \in [Objs -> Recs] /\ own' \in [Objs -> Seq(Clusters)]
      /\ \A y \in Objs \ {d} : ent'[y] = ent[y] /\ own'[y] = own[y]
      /\ d \in made
  BY <1>1, RegistersTyped
<1>4. Typed'
  BY <1>2, <1>3 DEF ChainsInv, Typed, Vols
<1>5. Current(d)' = ent'[d]
  BY <1>2, <1>3, Constants DEF Current, ChainsInv, Typed
<1>6. \A y \in made' \ {d} : y \in made /\ Current(y)' = Current(y)
  BY <1>2, <1>3 DEF Current, ChainsInv, Typed
<1> QED BY <1>1, <1>2, <1>3, <1>4, <1>5, <1>6, RegistersSafe

\* An object is removed.
LEMMA UnlinkSafe == ASSUME ChainsInv, NEW x \in Objs, Unlink(x)  PROVE ChainsInv'
<1> DEFINE o == ent[x]
           u == RemoveChain(vol, o, o.sclust, 0).v
<1>1. /\ x \in made /\ x \notin open /\ made' = made \ {x} /\ obj' = obj /\ open' = open
      /\ vol' = IF o.sclust = 0 THEN vol ELSE u
      /\ ent' = [ent EXCEPT ![x] = NoChain] /\ own' = [own EXCEPT ![x] = <<>>]
  BY DEF Unlink
<1>2. Current(x) = o
  BY <1>1 DEF Current
<1>3. /\ own[x] \in Seq(Clusters) /\ Differ(own[x]) /\ Range(own[x]) \subseteq vol.bitmap
      /\ Describes(vol.fat, o, own[x]) /\ o \in Recs /\ vol \in Vols
      /\ vol.bitmap \subseteq Clusters
  BY <1>1, <1>2, OfObject
<1>4. EmptiedRight(vol, own[x], vol')
  <2>1. o.sclust = IF own[x] = <<>> THEN 0 ELSE own[x][1]
    BY <1>3, FieldsOf
  <2>2. CASE o.sclust = 0
    <3>1. own[x] = <<>>
      BY <2>1, <2>2, <1>3, SeqIs, Constants
    <3> QED BY <3>1, <2>2, <1>1, <1>3, EmptyIs DEF EmptiedRight
  <2>3. CASE o.sclust # 0
    BY <2>3, <1>1, <1>3, EmptiedIs
  <2> QED BY <2>2, <2>3
<1> HIDE DEF u, o
<1>5. Typed'
  BY <1>1, <1>4, NoneIs, EmptyIs DEF ChainsInv, Typed, EmptiedRight, Vols
<1>6. \A y \in made' \ {x} : y \in made /\ Current(y)' = Current(y)
  BY <1>1 DEF Current, ChainsInv, Typed
<1>7. /\ vol'.bitmap = (vol.bitmap \ Range(own[x])) \cup Range(<<>>)
      /\ \A c \in Range(<<>>) : c \in Range(own[x]) \/ c \notin vol.bitmap
      /\ \A c \in vol.bitmap \ Range(own[x]) : vol'.fat[c] = vol.fat[c]
  BY <1>3, <1>4, EmptyIs DEF EmptiedRight
<1> QED BY <1>1, <1>5, <1>6, <1>7, EmptyIs, OneChanges

\* The first cluster of a new directory.
LEMMA NewDirIs ==
    ASSUME NEW fat, NEW c \in Clusters
    PROVE  /\ <<c>> \in Seq(Clusters) /\ Differ(<<c>>) /\ <<c>> # <<>> /\ Range(<<c>>) = {c}
           /\ Describes(fat, NewDir(c, 1), <<c>>) /\ NewDir(c, 1) \in Recs
<1> DEFINE s == <<c>>
<1>1. s \in Seq(Clusters) /\ Len(s) = 1 /\ s[1] = c /\ c \in Nat
  BY Constants
<1> HIDE DEF s
<1>2. \A i : i \in 1 .. Len(s) => i = 1
  BY <1>1
<1>3. Range(s) = {c} /\ s # <<>> /\ Differ(s)
  <2>1. Range(s) = {s[i] : i \in 1 .. 1}
    BY <1>1, SeqIs
  <2>2. Range(s) = {c}
    BY <2>1, <1>1
  <2>3. s # <<>>
    <3>1. Len(s) # Len(<<>>)
      BY <1>1, EmptyIs
    <3> QED BY <3>1
  <2>4. Differ(s)
    BY <1>2 DEF Differ
  <2> QED BY <2>2, <2>3, <2>4
<1> DEFINE z == NewDir(c, 1)
<1>4. z \in Recs /\ z.size = 1 /\ z.sclust = c /\ z.stat = 2
  BY <1>1 DEF NewDir, Recs
<1> HIDE DEF z
<1>5. Block(s, Len(s))
  BY <1>1, <1>2 DEF Block
<1>6. Describes(fat, z, s)
  BY <1>1, <1>3, <1>4, <1>5 DEF Describes
<1> QED BY <1>1, <1>3, <1>4, <1>6 DEF s, z

\* A directory is made, with a cluster that was taken for it.
LEMMA MakeSafe ==
    ASSUME ChainsInv, NEW d \in Dirs \ made, NEW r, r.c \in Clusters, NewRight(vol, r),
           vol' = r.v, ent' = [ent EXCEPT ![d] = NewDir(r.c, 1)],
           own' = [own EXCEPT ![d] = <<r.c>>], made' = made \cup {d}, obj' = obj, open' = open
    PROVE  ChainsInv'
<1> DEFINE s == <<r.c>>
           z == NewDir(r.c, 1)
<1>1. d \in Objs /\ d \notin open /\ d \notin Files
  BY Constants DEF Objs, ChainsInv, Typed
<1>2. own[d] = <<>> /\ Range(own[d]) = {} /\ vol.bitmap \subseteq Clusters
  BY <1>1, EmptyIs, OfObject
<1>3. /\ s \in Seq(Clusters) /\ Differ(s) /\ s # <<>> /\ Range(s) = {r.c}
      /\ Describes(vol'.fat, z, s) /\ z \in Recs
  BY NewDirIs
<1>4. own' = [own EXCEPT ![d] = s] /\ ent' = [ent EXCEPT ![d] = z]
  OBVIOUS
<1> HIDE DEF s, z
<1>5. Typed'
  BY <1>1, <1>3, <1>4 DEF ChainsInv, Typed, Vols, NewRight
<1>6. Current(d)' = z
  BY <1>1, <1>4 DEF Current, ChainsInv, Typed
<1>7. \A y \in made' \ {d} : y \in made /\ Current(y)' = Current(y)
  BY <1>4 DEF Current, ChainsInv, Typed
<1>8. /\ vol'.bitmap = (vol.bitmap \ Range(own[d])) \cup Range(s)
      /\ \A c \in Range(s) : c \notin vol.bitmap
      /\ \A c \in vol.bitmap \ Range(own[d]) : vol'.fat[c] = vol.fat[c]
      /\ Describes(vol'.fat, Current(d)', s)
  BY <1>2, <1>3, <1>6 DEF NewRight
<1> QED BY <1>1, <1>3, <1>4, <1>5, <1>7, <1>8, OneChanges

\* The invariant holds of an empty volume.
LEMMA ChainsInit == Init => ChainsInv
<1> SUFFICES ASSUME Init  PROVE ChainsInv
  OBVIOUS
<1>1. Typed
  BY NoneIs, EmptyIs DEF Init, Typed
<1>2. \A x \in Objs : own[x] = <<>>
  BY DEF Init
<1>3. made = {} /\ vol.bitmap = {}
  BY DEF Init
<1> QED BY <1>1, <1>2, <1>3, EmptyIs DEF ChainsInv

\* Every step keeps it.
LEMMA ChainsNext == ChainsInv /\ [Next]_vars => ChainsInv'
<1> SUFFICES ASSUME ChainsInv, [Next]_vars  PROVE ChainsInv'
  OBVIOUS
<1>1. ASSUME NEW f \in Files, Open(f)  PROVE ChainsInv'
  BY <1>1, OpenSafe
<1>2. ASSUME NEW f \in Files, Overwrite(f)  PROVE ChainsInv'
  BY <1>2, OverwriteSafe
<1>3. ASSUME NEW f \in Files, Create(f)  PROVE ChainsInv'
  BY <1>3, CreateSafe
<1>4. ASSUME NEW f \in Files, Grow(f)  PROVE ChainsInv'
  BY <1>4, GrowSafe
<1>5. ASSUME NEW f \in Files, NEW k \in 0 .. MaxSize, Truncate(f, k)  PROVE ChainsInv'
  <2>1. k \in Nat
    BY Constants
  <2> QED BY <2>1, <1>5, TruncateSafe
<1>6. ASSUME NEW f \in Files, NEW k \in 1 .. MaxSize, NEW opt \in BOOLEAN, Expand(f, k, opt)
      PROVE  ChainsInv'
  <2>1. k \in Nat \ {0}
    BY Constants
  <2> QED BY <2>1, <1>6, ExpandSafe
<1>7. ASSUME NEW f \in Files, NEW close \in BOOLEAN, Sync(f, close)  PROVE ChainsInv'
  BY <1>7, SyncSafe
<1>8. ASSUME NEW x \in Objs, Rename(x)  PROVE ChainsInv'
  BY <1>8, RenameSafe
<1>9. ASSUME NEW x \in Objs, Unlink(x)  PROVE ChainsInv'
  BY <1>9, UnlinkSafe
<1>10. ASSUME NEW d \in Dirs, MakeInRoot(d)  PROVE ChainsInv'
  <2> DEFINE r == CreateChain(vol, NoChain, 0)
  <2>1. /\ d \in Dirs \ made /\ r.c \in Clusters
        /\ vol' = r.v /\ ent' = [ent EXCEPT ![d] = NewDir(r.c, 1)]
        /\ own' = [own EXCEPT ![d] = <<r.c>>] /\ made' = made \cup {d}
        /\ obj' = obj /\ open' = open
    BY <1>10 DEF MakeInRoot
  <2>2. vol \in Vols
    BY DEF ChainsInv, Typed, Vols
  <2>3. NewRight(vol, r)
    BY <2>1, <2>2, NoneIs, NewChainIs
  <2> HIDE DEF r
  <2> QED BY <2>1, <2>3, MakeSafe
<1>11. ASSUME NEW d \in Dirs, NEW p \in Dirs, MakeIn(p, d)  PROVE ChainsInv'
  <2> DEFINE q == CreateChain(vol, ent[p], 0)
             r == MadeWith(p)
  <2>1. /\ d \in Dirs \ made /\ r.c \in Clusters
        /\ vol' = r.v /\ ent' = [ent EXCEPT ![d] = NewDir(r.c, 1)]
        /\ own' = [own EXCEPT ![d] = <<r.c>>] /\ made' = made \cup {d}
        /\ obj' = obj /\ open' = open
    BY <1>11 DEF MakeIn
  <2>2. r.v = q.v /\ r.c = q.c
    BY DEF MadeWith, CreateChain
  <2>3. vol \in Vols /\ ent[p] \in Recs
    BY DEF ChainsInv, Typed, Vols, Objs
  <2>4. NewRight(vol, q)
    BY <2>1, <2>2, <2>3, NewChainIs
  <2>5. NewRight(vol, r)
    <3> HIDE DEF r, q
    <3> QED BY <2>2, <2>4 DEF NewRight
  <2> HIDE DEF r
  <2> QED BY <2>1, <2>5, MakeSafe
<1>12. CASE UNCHANGED vars
  BY <1>12 DEF vars, ChainsInv, Typed, Current
<1>13. CASE Next
  BY <1>1, <1>2, <1>3, <1>4, <1>5, <1>6, <1>7, <1>8, <1>9, <1>10, <1>11, <1>13 DEF Next
<1> QED BY <1>12, <1>13

\* The invariant says what is read.
LEMMA ChainsMeans == ChainsInv => ChainsReadRight
<1> SUFFICES ASSUME ChainsInv  PROVE ChainsReadRight
  OBVIOUS
<1>1. ASSUME NEW x \in made
      PROVE  LET o == Current(x)
             IN  /\ o.size = Len(own[x])
                 /\ Chain(vol, o) = own[x]
                 /\ o.size > 0 => GetFat(vol, o, LastOf(vol, o)) = EOC
  <2> DEFINE o == Current(x)
             s == own[x]
  <2>1. x \in Objs
    BY DEF ChainsInv, Typed
  <2>2. s \in Seq(Clusters) /\ Differ(s) /\ Describes(vol.fat, o, s)
    BY <2>1, OfObject
  <2> HIDE DEF o, s
  <2>3. o.size = Len(s) /\ (o.size > 0 => s # <<>>)
    BY <2>2, FieldsOf, EmptyIs
  <2>4. /\ Chain(vol, o) = s
        /\ LastOf(vol, o) = IF s = <<>> THEN 0 ELSE s[Len(s)]
        /\ s # <<>> => GetFat(vol, o, s[Len(s)]) = EOC
    BY <2>2, ChainIs
  <2> QED BY <2>3, <2>4 DEF o, s
<1>2. \A x, y \in made : x # y => Range(own[x]) \cap Range(own[y]) = {}
  BY DEF ChainsInv, Typed
<1>3. vol.bitmap = UNION {Range(own[x]) : x \in made}
  <2>1. ASSUME NEW c \in vol.bitmap  PROVE \E x \in made : c \in Range(own[x])
    <3>1. c \in Clusters
      BY DEF ChainsInv, Typed
    <3>2. PICK x \in Objs : c \in Range(own[x])
      BY <3>1 DEF ChainsInv
    <3>3. x \in made
      BY <3>2, OfObject, EmptyIs
    <3> QED BY <3>2, <3>3
  <2>2. ASSUME NEW x \in made  PROVE Range(own[x]) \subseteq vol.bitmap
    BY OfObject DEF ChainsInv, Typed
  <2> QED BY <2>1, <2>2
<1> QED BY <1>1, <1>2, <1>3 DEF ChainsReadRight

\* Whatever the status of its chain, what follows it reads the clusters an
\* object was given, and the bitmap has these clusters and no other: for every
\* volume and any number of files and directories (get_fat, create_chain,
\* remove_chain, fill_fat_chain, f_expand).
THEOREM ChainsAlwaysReadRight == Spec => []ChainsReadRight
<1>1. Spec => []ChainsInv
  BY ChainsInit, ChainsNext, PTL DEF Spec
<1> QED BY <1>1, ChainsMeans, PTL
===============================================================================
