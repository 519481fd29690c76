--------------------------- MODULE FatVolumeProofs ---------------------------
(***************************************************************************)
(* The volume is sound wherever the power is cut, for volumes of every     *)
(* size, every number of directories, files and file objects, and every    *)
(* program.                                                                *)
(*                                                                         *)
(* The parts: chains and paths (what Walk and Below compute); what one     *)
(* change of a sector does to the volume and to the medium; what a fine    *)
(* volume is and which changes keep it fine; the calls, each of which      *)
(* starts with changes that go one by one from a fine volume to a fine     *)
(* volume and ends with changes that matter to no file and no directory.   *)
(***************************************************************************)
EXTENDS FatVolume, TLAPS, FiniteSetTheorems, SequenceTheorems, WellFoundedInduction
-----------------------------------------------------------------------------
(* Numbers *)

\* The constants' types.
LEMMA Constants ==
    /\ N \in Nat /\ N > 2 /\ EOC = N /\ PerSector \in Nat /\ PerSector >= 1 /\ Slots \in Nat
    /\ Clusters \subseteq Nat /\ EOC \notin Clusters /\ 0 \notin Clusters /\ N - 2 \in Nat
    /\ \A c : c \in Clusters <=> c \in Nat /\ c >= 2 /\ c <= N - 1
    /\ EOC # 0 /\ "none" \notin Fils /\ Clusters \subseteq 0 .. N /\ 0 \in Tables
    /\ Clusters \subseteq Tables
  BY SizeAssumption DEF Clusters, EOC, Tables

\* Every nonempty set of naturals has a least element.
LEMMA Least ==
    ASSUME NEW S \in SUBSET Nat, S # {}
    PROVE  \E x \in S : \A y \in S : x <= y
<1> DEFINE R == OpToRel(<, Nat)
<1>1. IsWellFoundedOn(R, Nat)
  BY NatLessThanWellFounded
<1>2. \A x, y \in Nat : x < y => <<x, y>> \in R
  BY DEF OpToRel
<1> HIDE DEF R
<1>3. PICK x \in S : \A y \in S : ~ (<<y, x>> \in R)
  BY <1>1, WFMin
<1>4. ASSUME NEW y \in S  PROVE x <= y
  <2>1. x \in Nat /\ y \in Nat /\ ~ (y < x)
    BY <1>2, <1>3
  <2> QED BY <2>1
<1> QED BY <1>3, <1>4

\* The clusters of s are different.
Differ(s) == \A i, j \in 1 .. Len(s) : s[i] = s[j] => i = j

\* A sequence of different clusters is no longer than there are clusters.
LEMMA FewClusters ==
    ASSUME NEW s \in Seq(Clusters), Differ(s)
    PROVE  Len(s) <= N - 2
<1> USE Constants
<1>1. s \in [1 .. Len(s) -> Clusters] /\ Len(s) \in Nat
  BY LenProperties
<1>2. s \in Injection(1 .. Len(s), Clusters)
  BY <1>1 DEF Differ, Injection, IsInjective
<1>3. IsFiniteSet(Clusters) /\ Cardinality(Clusters) = N - 2
  BY FS_Interval DEF Clusters
<1>4. Cardinality(1 .. Len(s)) = Len(s)
  <2>1. 1 \in Int /\ Len(s) \in Int
    BY <1>1
  <2>2. Cardinality(1 .. Len(s)) = IF 1 > Len(s) THEN 0 ELSE Len(s) - 1 + 1
    BY <2>1, FS_Interval
  <2> QED BY <1>1, <2>2
<1> QED BY <1>2, <1>3, <1>4, FS_Injection
-----------------------------------------------------------------------------
(* Following a chain *)

\* The FAT of v links s and ends it.
Leads(v, s) ==
    \A i \in 1 .. Len(s) : v.fat[s[i]] = IF i = Len(s) THEN EOC ELSE s[i + 1]

\* w is the function that Walk(v, c) takes its value from.
WalkRec(v, c, w) ==
    w = [i \in 0 .. N - 2 |->
           IF i = 0 THEN <<c>>
           ELSE LET u == w[i - 1]
                IN  IF u[Len(u)] \in Clusters THEN Append(u, v.fat[u[Len(u)]]) ELSE u]

\* The first i + 1 of the values s and EOC.
Start(s, i) == IF i < Len(s) THEN SubSeq(s, 1, i + 1) ELSE Append(s, EOC)

\* What they are.
LEMMA StartIs ==
    ASSUME NEW s \in Seq(Clusters), s # <<>>, NEW i \in Nat
    PROVE  /\ i = 0 => Start(s, i) = <<s[1]>>
           /\ i < Len(s) => /\ Len(Start(s, i)) = i + 1 /\ Start(s, i)[i + 1] = s[i + 1]
                            /\ s[i + 1] \in Clusters
           /\ i >= Len(s) => /\ Len(Start(s, i)) = Len(s) + 1
                             /\ Start(s, i)[Len(s) + 1] = EOC
           /\ i + 1 < Len(s) => Start(s, i + 1) = Append(Start(s, i), s[i + 2])
           /\ i + 1 = Len(s) => Start(s, i + 1) = Append(Start(s, i), EOC)
           /\ i >= Len(s) => Start(s, i + 1) = Start(s, i)
<1> USE Constants
<1>1. Len(s) \in Nat /\ Len(s) # 0 /\ \A j \in 1 .. Len(s) : s[j] \in Clusters
  BY EmptySeq, LenProperties, ElementOfSeq
<1>2. ASSUME NEW j \in Nat, j < Len(s)
      PROVE  /\ SubSeq(s, 1, j + 1) \in Seq(Clusters) /\ Len(SubSeq(s, 1, j + 1)) = j + 1
             /\ \A k \in 1 .. j + 1 : SubSeq(s, 1, j + 1)[k] = s[k]
  BY <1>1, <1>2, SMT
<1>3. Len(Append(s, EOC)) = Len(s) + 1 /\ Append(s, EOC)[Len(s) + 1] = EOC
  BY <1>1, SMT
<1>4. ASSUME i = 0  PROVE Start(s, i) = <<s[1]>>
  <2>1. Start(s, i) = SubSeq(s, 1, 1)
    BY <1>1, <1>4 DEF Start
  <2>2. /\ SubSeq(s, 1, 1) \in Seq(Clusters) /\ Len(SubSeq(s, 1, 1)) = 1
        /\ SubSeq(s, 1, 1)[1] = s[1]
    BY <1>1, <1>2, 0 \in Nat, 0 < Len(s), 0 + 1 = 1
  <2>3. <<s[1]>> \in Seq(Clusters) /\ Len(<<s[1]>>) = 1 /\ <<s[1]>>[1] = s[1]
    BY <1>1
  <2>4. \A k \in 1 .. 1 : SubSeq(s, 1, 1)[k] = <<s[1]>>[k]
    BY <2>2, <2>3
  <2> QED BY <2>1, <2>2, <2>3, <2>4, SeqEqual
<1>5. ASSUME i < Len(s)
      PROVE  /\ Len(Start(s, i)) = i + 1 /\ Start(s, i)[i + 1] = s[i + 1]
             /\ s[i + 1] \in Clusters
  <2>1. Start(s, i) = SubSeq(s, 1, i + 1) /\ i + 1 \in 1 .. i + 1 /\ i + 1 \in 1 .. Len(s)
    BY <1>1, <1>5 DEF Start
  <2> QED BY <2>1, <1>1, <1>2, <1>5
<1>6. ASSUME i >= Len(s)
      PROVE  /\ Start(s, i) = Append(s, EOC) /\ Start(s, i + 1) = Append(s, EOC)
  <2>1. ~(i < Len(s)) /\ ~(i + 1 < Len(s))
    BY <1>1, <1>6
  <2> QED BY <2>1 DEF Start
<1>7. ASSUME i + 1 < Len(s)  PROVE Start(s, i + 1) = Append(Start(s, i), s[i + 2])
  <2>1. Start(s, i + 1) = SubSeq(s, 1, i + 2) /\ Start(s, i) = SubSeq(s, 1, i + 1)
    BY <1>1, <1>7 DEF Start
  <2> DEFINE p == SubSeq(s, 1, i + 1)
             q == SubSeq(s, 1, i + 2)
             a == Append(p, s[i + 2])
  <2>2. p \in Seq(Clusters) /\ Len(p) = i + 1 /\ \A k \in 1 .. i + 1 : p[k] = s[k]
    BY <1>2, <1>7, <1>1
  <2>3. q \in Seq(Clusters) /\ Len(q) = i + 2 /\ \A k \in 1 .. i + 2 : q[k] = s[k]
    BY <1>2, <1>7, <1>1, i + 1 \in Nat, i + 1 < Len(s), (i + 1) + 1 = i + 2
  <2>4. s[i + 2] \in Clusters
    BY <1>1, <1>7
  <2> HIDE DEF p, q
  <2>5. a \in Seq(Clusters) /\ Len(a) = i + 2 /\ \A k \in 1 .. i + 2 : a[k] = s[k]
    <3>1. a \in Seq(Clusters) /\ Len(a) = Len(p) + 1 /\ a[Len(p) + 1] = s[i + 2]
          /\ \A k \in 1 .. Len(p) : a[k] = p[k]
      BY <2>2, <2>4
    <3>2. Len(p) + 1 = i + 2
      BY <2>2
    <3>3. ASSUME NEW k \in 1 .. i + 2  PROVE a[k] = s[k]
      <4>1. k = i + 2 \/ k \in 1 .. i + 1
        OBVIOUS
      <4> QED BY <4>1, <3>1, <3>2, <2>2
    <3> HIDE DEF a
    <3> QED BY <3>1, <3>2, <3>3
  <2>6. a = q
    BY <2>3, <2>5, SeqEqual
  <2> QED BY <2>1, <2>6 DEF p, q
<1>8. ASSUME i + 1 = Len(s)  PROVE Start(s, i + 1) = Append(Start(s, i), EOC)
  <2>1. Start(s, i + 1) = Append(s, EOC) /\ Start(s, i) = SubSeq(s, 1, Len(s))
    BY <1>1, <1>8 DEF Start
  <2>2. SubSeq(s, 1, Len(s)) = s
    BY SubSeqFull
  <2> QED BY <2>1, <2>2
<1> QED BY <1>3, <1>4, <1>5, <1>6, <1>7, <1>8

\* get_fat takes u to w, if u has not come to an end.
Onward(v, u, w) ==
    w = IF u[Len(u)] \in Clusters THEN Append(u, v.fat[u[Len(u)]]) ELSE u

\* One step of the walk.
LEMMA StartNext ==
    ASSUME NEW v, NEW s \in Seq(Clusters), s # <<>>, Leads(v, s), NEW i \in Nat
    PROVE  Onward(v, Start(s, i), Start(s, i + 1))
<1>1. Len(s) \in Nat
  BY LenProperties
<1>2. CASE i < Len(s)
  <2>1. /\ Len(Start(s, i)) = i + 1 /\ Start(s, i)[i + 1] = s[i + 1]
        /\ s[i + 1] \in Clusters
    BY <1>2, StartIs
  <2>2. i + 1 \in 1 .. Len(s) /\ (i + 1) + 1 = i + 2
    BY <1>1, <1>2
  <2>3. v.fat[s[i + 1]] = IF i + 1 = Len(s) THEN EOC ELSE s[i + 2]
    BY <2>2 DEF Leads
  <2>4. Start(s, i + 1) = Append(Start(s, i), v.fat[s[i + 1]])
    <3>1. CASE i + 1 = Len(s)
      <4>1. Start(s, i + 1) = Append(Start(s, i), EOC)
        BY <3>1, StartIs
      <4> QED BY <4>1, <3>1, <2>3
    <3>2. CASE i + 1 # Len(s)
      <4>1. i + 1 < Len(s)
        BY <3>2, <1>1, <1>2
      <4>2. Start(s, i + 1) = Append(Start(s, i), s[i + 2])
        BY <4>1, StartIs
      <4> QED BY <4>2, <3>2, <2>3
    <3> QED BY <3>1, <3>2
  <2> QED BY <2>1, <2>4 DEF Onward
<1>3. CASE i >= Len(s)
  <2>1. /\ Len(Start(s, i)) = Len(s) + 1 /\ Start(s, i)[Len(s) + 1] = EOC
        /\ Start(s, i + 1) = Start(s, i)
    BY <1>3, StartIs
  <2>2. Start(s, i)[Len(Start(s, i))] \notin Clusters
    BY <2>1, Constants
  <2> QED BY <2>1, <2>2 DEF Onward
<1> QED BY <1>1, <1>2, <1>3

\* Following a chain gives its clusters and the end.
LEMMA WalkIs ==
    ASSUME NEW v, NEW s \in Seq(Clusters), s # <<>>, Differ(s), Leads(v, s)
    PROVE  Walk(v, s[1]) = Append(s, EOC)
<1> USE Constants
<1>1. Len(s) \in Nat /\ Len(s) <= N - 2
  BY LenProperties, FewClusters
<1> DEFINE all == [i \in 0 .. N - 2 |-> Start(s, i)]
           to == CHOOSE w : WalkRec(v, s[1], w)
<1>2. WalkRec(v, s[1], all)
  <2>1. ASSUME NEW i \in 0 .. N - 2
        PROVE  all[i] = IF i = 0 THEN <<s[1]>>
                        ELSE LET u == all[i - 1]
                             IN  IF u[Len(u)] \in Clusters
                                 THEN Append(u, v.fat[u[Len(u)]]) ELSE u
    <3>1. CASE i = 0
      BY <3>1, StartIs
    <3>2. CASE i # 0
      <4>1. i - 1 \in Nat /\ i - 1 \in 0 .. N - 2 /\ (i - 1) + 1 = i
        BY <3>2
      <4>2. all[i - 1] = Start(s, i - 1) /\ all[i] = Start(s, i)
        BY <4>1
      <4>3. Onward(v, Start(s, i - 1), Start(s, (i - 1) + 1))
        BY <4>1, StartNext
      <4>4. Onward(v, all[i - 1], all[i])
        BY <4>1, <4>2, <4>3
      <4> QED BY <3>2, <4>4 DEF Onward
    <3> QED BY <3>1, <3>2
  <2> QED BY <2>1 DEF WalkRec
<1>3. WalkRec(v, s[1], to)
  BY <1>2
<1>4. Walk(v, s[1]) = to[N - 2]
  BY DEF Walk, WalkRec
<1> HIDE DEF to, all
<1> DEFINE Bad == {i \in 0 .. N - 2 : to[i] # Start(s, i)}
<1>5. Bad = {}
  <2> SUFFICES ASSUME Bad # {}  PROVE FALSE
    OBVIOUS
  <2>1. Bad \in SUBSET Nat
    OBVIOUS
  <2>2. PICK i \in Bad : \A j \in Bad : i <= j
    BY <2>1, Least
  <2>3. i \in 0 .. N - 2 /\ to[i] # Start(s, i)
    OBVIOUS
  <2>4. to[i] = IF i = 0 THEN <<s[1]>>
                ELSE LET u == to[i - 1]
                     IN  IF u[Len(u)] \in Clusters
                         THEN Append(u, v.fat[u[Len(u)]]) ELSE u
    BY <1>3, <2>3 DEF WalkRec
  <2>5. i # 0
    BY <2>3, <2>4, StartIs
  <2>6. i - 1 \in Nat /\ i - 1 \in 0 .. N - 2 /\ (i - 1) + 1 = i
    BY <2>3, <2>5
  <2>7. to[i - 1] = Start(s, i - 1)
    BY <2>2, <2>6
  <2>8. Onward(v, Start(s, i - 1), Start(s, (i - 1) + 1))
    <3>1. i - 1 \in Nat
      BY <2>6
    <3> HIDE DEF Bad
    <3> QED BY <3>1, StartNext
  <2>9. Onward(v, Start(s, i - 1), to[i])
    BY <2>4, <2>5, <2>7 DEF Onward
  <2> QED BY <2>3, <2>6, <2>8, <2>9 DEF Onward
<1>6. to[N - 2] = Start(s, N - 2)
  <2>1. N - 2 \in 0 .. N - 2
    OBVIOUS
  <2> QED BY <1>5, <2>1
<1>7. ~(N - 2 < Len(s))
  BY <1>1
<1> QED BY <1>4, <1>6, <1>7 DEF Start

\* Following the FAT of v from cluster c gives s, all different, and the end mark.
IsChain(v, c, s) == s \in Seq(Clusters) /\ s # <<>> /\ s[1] = c /\ Differ(s) /\ Leads(v, s)

\* The chain from cluster c ends; there is none from 0.
Chained(v, c) == c = 0 \/ IsChain(v, c, Chain(v, c))

\* The clusters of it.
Own(v, c) == Range(Chain(v, c))

\* A chain is what Chain gives.
LEMMA ChainIs ==
    ASSUME NEW v, NEW c, NEW s, IsChain(v, c, s)
    PROVE  Chain(v, c) = s /\ Stop(v, c) = EOC /\ Chained(v, c)
<1>1. s \in Seq(Clusters) /\ s # <<>> /\ Differ(s) /\ Leads(v, s) /\ s[1] = c
  BY DEF IsChain
<1>2. Walk(v, c) = Append(s, EOC)
  BY <1>1, WalkIs
<1>3. Len(s) \in Nat
  BY <1>1, LenProperties
<1> DEFINE w == Append(s, EOC)
<1>4. s \in Seq(Nat) /\ EOC \in Nat
  BY <1>1, Constants
<1>5. w \in Seq(Nat) /\ Len(w) = Len(s) + 1 /\ w[Len(s) + 1] = EOC
      /\ \A k \in 1 .. Len(s) : w[k] = s[k]
  BY <1>3, <1>4
<1>6. Chain(v, c) = SubSeq(w, 1, Len(s)) /\ Stop(v, c) = EOC
  <2>1. Len(w) - 1 = Len(s)
    BY <1>3, <1>5
  <2>2. Chain(v, c) = SubSeq(w, 1, Len(w) - 1) /\ Stop(v, c) = w[Len(w)]
    BY <1>2 DEF Chain, Stop
  <2> QED BY <2>1, <2>2, <1>5
<1> HIDE DEF w
<1>7. SubSeq(w, 1, Len(s)) \in Seq(Nat) /\ Len(SubSeq(w, 1, Len(s))) = Len(s)
      /\ \A k \in 1 .. Len(s) : SubSeq(w, 1, Len(s))[k] = w[k]
  BY <1>3, <1>5
<1>8. SubSeq(w, 1, Len(s)) = s
  <2> DEFINE r == SubSeq(w, 1, Len(s))
  <2>1. r \in Seq(Nat) /\ Len(r) = Len(s) /\ \A k \in 1 .. Len(s) : r[k] = s[k]
    BY <1>5, <1>7
  <2> HIDE DEF r
  <2>2. r = s
    BY <2>1, <1>4, SeqEqual
  <2> QED BY <2>2 DEF r
<1>9. Chain(v, c) = s
  BY <1>6, <1>8
<1> QED BY <1>6, <1>9 DEF Chained

\* There is no chain from 0.
LEMMA ChainNone ==
    ASSUME NEW v
    PROVE  Chain(v, 0) = <<>> /\ Own(v, 0) = {} /\ Chained(v, 0) /\ Len(Chain(v, 0)) = 0
<1> DEFINE all == [i \in 0 .. N - 2 |-> <<0>>]
<1>1. N - 2 \in Nat /\ 0 \notin Clusters /\ N - 2 \in 0 .. N - 2 /\ 0 \in 0 .. N - 2
  BY Constants
<1>2. Len(<<0>>) = 1 /\ <<0>>[1] = 0 /\ <<0>>[Len(<<0>>)] = 0
  OBVIOUS
<1>3. WalkRec(v, 0, all)
  <2>1. ASSUME NEW i \in 0 .. N - 2
        PROVE  all[i] = IF i = 0 THEN <<0>>
                        ELSE LET u == all[i - 1]
                             IN  IF u[Len(u)] \in Clusters THEN Append(u, v.fat[u[Len(u)]]) ELSE u
    <3>1. CASE i = 0
      BY <3>1, <1>1
    <3>2. CASE i # 0
      <4>1. i - 1 \in 0 .. N - 2
        BY <1>1, <3>2
      <4>2. all[i] = <<0>> /\ all[i - 1] = <<0>>
        BY <4>1
      <4> QED BY <1>1, <1>2, <3>2, <4>2
    <3> QED BY <3>1, <3>2
  <2> QED BY <2>1 DEF WalkRec
<1> DEFINE to == CHOOSE w : WalkRec(v, 0, w)
<1>4. WalkRec(v, 0, to)
  BY <1>3
<1>5. Walk(v, 0) = to[N - 2]
  BY DEF Walk, WalkRec
<1> HIDE DEF to, all
<1> DEFINE Bad == {i \in 0 .. N - 2 : to[i] # <<0>>}
<1>6. Bad = {}
  <2> SUFFICES ASSUME Bad # {}  PROVE FALSE
    OBVIOUS
  <2>1. Bad \in SUBSET Nat
    OBVIOUS
  <2>2. PICK i \in Bad : \A j \in Bad : i <= j
    BY <2>1, Least
  <2>3. i \in 0 .. N - 2 /\ to[i] # <<0>>
    OBVIOUS
  <2>4. to[i] = IF i = 0 THEN <<0>>
                ELSE LET u == to[i - 1]
                     IN  IF u[Len(u)] \in Clusters THEN Append(u, v.fat[u[Len(u)]]) ELSE u
    BY <1>4, <2>3 DEF WalkRec
  <2>5. i # 0
    BY <2>3, <2>4
  <2>6. i - 1 \in 0 .. N - 2 /\ ~ (i <= i - 1)
    <3> HIDE DEF Bad
    <3> QED BY <1>1, <2>3, <2>5
  <2>7. to[i - 1] = <<0>>
    BY <2>2, <2>6
  <2>8. to[i] = <<0>>
    BY <1>1, <1>2, <2>4, <2>5, <2>7
  <2> QED BY <2>3, <2>8
<1>7. Walk(v, 0) = <<0>>
  BY <1>1, <1>5, <1>6
<1>8. Chain(v, 0) = SubSeq(<<0>>, 1, 0)
  <2>1. Len(<<0>>) - 1 = 0
    BY <1>2
  <2> QED BY <1>7, <2>1 DEF Chain
<1>9. SubSeq(<<0>>, 1, 0) = <<>>
  OBVIOUS
<1>10. Range(<<>>) = {} /\ Len(<<>>) = 0
  BY DEF Range
<1> QED BY <1>8, <1>9, <1>10 DEF Own, Chained

\* The types of a chain.
LEMMA ChainTyped ==
    ASSUME NEW v, NEW c, Chained(v, c)
    PROVE  /\ Chain(v, c) \in Seq(Clusters) /\ Len(Chain(v, c)) \in Nat
           /\ Own(v, c) \subseteq Clusters /\ Differ(Chain(v, c))
           /\ \A x : x \in Own(v, c) <=> \E k \in 1 .. Len(Chain(v, c)) : x = Chain(v, c)[k]
           /\ c # 0 => /\ c \in Clusters /\ c \in Own(v, c) /\ Len(Chain(v, c)) >= 1
                       /\ Stop(v, c) = EOC /\ Chain(v, c)[1] = c
<1> DEFINE s == Chain(v, c)
<1>1. s \in Seq(Clusters) /\ Differ(s)
  <2>1. CASE c = 0
    <3>1. s = <<>> /\ <<>> \in Seq(Clusters) /\ Differ(<<>>)
      BY <2>1, ChainNone DEF Differ
    <3> QED BY <3>1
  <2>2. CASE c # 0
    BY <2>2 DEF Chained, IsChain
  <2> QED BY <2>1, <2>2
<1>2. Len(s) \in Nat /\ DOMAIN s = 1 .. Len(s)
  BY <1>1, LenProperties
<1>3. \A x : x \in Own(v, c) <=> \E k \in 1 .. Len(s) : x = s[k]
  BY <1>2 DEF Own, Range
<1>4. \A k \in 1 .. Len(s) : s[k] \in Clusters
  BY <1>1, ElementOfSeq
<1>5. ASSUME c # 0  PROVE c \in Clusters /\ c \in Own(v, c) /\ Len(s) >= 1 /\ Stop(v, c) = EOC /\ s[1] = c
  <2>1. IsChain(v, c, s)
    BY <1>5 DEF Chained
  <2>2. s # <<>> /\ s[1] = c
    BY <2>1 DEF IsChain
  <2>3. Len(s) # 0
    BY <1>1, <2>2, EmptySeq
  <2>4. 1 \in 1 .. Len(s) /\ Len(s) >= 1
    BY <1>2, <2>3
  <2>5. Stop(v, c) = EOC
    BY <2>1, ChainIs
  <2> QED BY <1>3, <1>4, <2>2, <2>4, <2>5
<1> QED BY <1>1, <1>2, <1>3, <1>4, <1>5

\* No cluster of a chain is free, and each but the last leads to the next.
LEMMA ChainLeads ==
    ASSUME NEW v, NEW c, Chained(v, c), c # 0, NEW k \in 1 .. Len(Chain(v, c))
    PROVE  v.fat[Chain(v, c)[k]] = IF k = Len(Chain(v, c)) THEN EOC ELSE Chain(v, c)[k + 1]
<1>1. IsChain(v, c, Chain(v, c))
  BY DEF Chained
<1> QED BY <1>1 DEF IsChain, Leads

\* No cluster of a chain is free.
LEMMA ChainUsed ==
    ASSUME NEW v, NEW c, Chained(v, c), NEW x \in Own(v, c)
    PROVE  v.fat[x] # 0 /\ x \in Clusters
<1>1. c # 0
  BY ChainNone
<1>2. PICK k \in 1 .. Len(Chain(v, c)) : x = Chain(v, c)[k]
  BY ChainTyped
<1>3. Len(Chain(v, c)) \in Nat /\ k \in Nat
  BY ChainTyped
<1>4. v.fat[x] = IF k = Len(Chain(v, c)) THEN EOC ELSE Chain(v, c)[k + 1]
  BY <1>1, <1>2, ChainLeads
<1>5. CASE k = Len(Chain(v, c))
  BY <1>4, <1>5, ChainTyped, Constants
<1>6. CASE k # Len(Chain(v, c))
  <2>1. k + 1 \in 1 .. Len(Chain(v, c))
    BY <1>3, <1>6
  <2>2. Chain(v, c)[k + 1] \in Own(v, c)
    BY <2>1, ChainTyped
  <2> QED BY <1>4, <1>6, <2>2, ChainTyped, Constants
<1> QED BY <1>5, <1>6

\* A chain stays if the FAT does not change on it.
LEMMA ChainKept ==
    ASSUME NEW v, NEW w, NEW c, Chained(v, c), \A x \in Own(v, c) : w.fat[x] = v.fat[x]
    PROVE  /\ Chained(w, c) /\ Chain(w, c) = Chain(v, c) /\ Own(w, c) = Own(v, c)
<1>1. CASE c = 0
  BY <1>1, ChainNone
<1>2. CASE c # 0
  <2> DEFINE s == Chain(v, c)
  <2>1. IsChain(v, c, s)
    BY <1>2 DEF Chained
  <2>2. \A i \in 1 .. Len(s) : s[i] \in Own(v, c)
    BY ChainTyped
  <2>3. Leads(w, s)
    BY <2>1, <2>2 DEF IsChain, Leads
  <2>4. IsChain(w, c, s)
    BY <2>1, <2>3 DEF IsChain
  <2>5. Chain(w, c) = s /\ Chained(w, c)
    BY <2>4, ChainIs
  <2> QED BY <2>5 DEF Own
<1> QED BY <1>1, <1>2

\* A cluster with the end mark is a chain of one.
LEMMA ChainOne ==
    ASSUME NEW v, NEW c \in Clusters, v.fat[c] = EOC
    PROVE  Chained(v, c) /\ Chain(v, c) = <<c>> /\ Own(v, c) = {c} /\ Len(Chain(v, c)) = 1
<1>1. <<c>> \in Seq(Clusters) /\ <<c>> # <<>> /\ <<c>>[1] = c /\ Len(<<c>>) = 1
  OBVIOUS
<1>2. Differ(<<c>>)
  BY <1>1 DEF Differ
<1>3. Leads(v, <<c>>)
  BY <1>1 DEF Leads
<1>4. IsChain(v, c, <<c>>)
  BY <1>1, <1>2, <1>3 DEF IsChain
<1>5. Chain(v, c) = <<c>> /\ Chained(v, c)
  BY <1>4, ChainIs
<1>6. \A x : x \in Own(v, c) <=> \E k \in 1 .. 1 : x = <<c>>[k]
  BY <1>1, <1>5, ChainTyped
<1>7. Own(v, c) = {c}
  BY <1>1, <1>6
<1> QED BY <1>1, <1>5, <1>7

\* The last cluster l of the chain from c is linked to d, which has the end mark.
Grows(v, w, c, d, l) ==
    /\ Chained(v, c) /\ c # 0 /\ d \in Clusters /\ d \notin Own(v, c)
    /\ l = Chain(v, c)[Len(Chain(v, c))] /\ w.fat[l] = d /\ w.fat[d] = EOC
    /\ \A x \in Own(v, c) : x # l => w.fat[x] = v.fat[x]

\* Then the chain is longer by d.
LEMMA ChainGrown ==
    ASSUME NEW v, NEW w, NEW c, NEW d, NEW l, Grows(v, w, c, d, l)
    PROVE  /\ Chained(w, c) /\ Chain(w, c) = Append(Chain(v, c), d)
           /\ Own(w, c) = Own(v, c) \cup {d} /\ Len(Chain(w, c)) = Len(Chain(v, c)) + 1
<1> USE DEF Grows
<1> DEFINE s == Chain(v, c)
           r == Append(s, d)
<1>1. /\ s \in Seq(Clusters) /\ Len(s) \in Nat /\ Differ(s) /\ Len(s) >= 1 /\ s[1] = c
      /\ \A x : x \in Own(v, c) <=> \E k \in 1 .. Len(s) : x = s[k]
  BY ChainTyped
<1>2. \A k \in 1 .. Len(s) : v.fat[s[k]] = IF k = Len(s) THEN EOC ELSE s[k + 1]
  BY ChainLeads
<1> HIDE DEF s
<1>3. r \in Seq(Clusters) /\ Len(r) = Len(s) + 1 /\ r[Len(s) + 1] = d /\ \A k \in 1 .. Len(s) : r[k] = s[k]
  BY <1>1
<1>4. r # <<>> /\ r[1] = c
  BY <1>1, <1>3
<1> HIDE DEF r
<1>5. \A k \in 1 .. Len(r) : k = Len(s) + 1 \/ k \in 1 .. Len(s)
  BY <1>1, <1>3
<1>6. Differ(r)
  <2> SUFFICES ASSUME NEW i \in 1 .. Len(r), NEW j \in 1 .. Len(r), r[i] = r[j]  PROVE i = j
    BY DEF Differ
  <2>1. \A k \in 1 .. Len(s) : s[k] # d
    BY <1>1
  <2>2. i \in 1 .. Len(s) /\ j \in 1 .. Len(s) => i = j
    BY <1>1, <1>3 DEF Differ
  <2> QED BY <2>1, <2>2, <1>3, <1>5
<1>7. l = s[Len(s)]
  BY DEF s
<1>8. Leads(w, r)
  <2> SUFFICES ASSUME NEW i \in 1 .. Len(r)
               PROVE  w.fat[r[i]] = IF i = Len(r) THEN EOC ELSE r[i + 1]
    BY DEF Leads
  <2>1. CASE i = Len(s) + 1
    BY <1>3, <2>1
  <2>2. CASE i = Len(s)
    BY <1>1, <1>3, <1>7, <2>2
  <2>3. CASE i \in 1 .. Len(s) /\ i # Len(s)
    <3>1. i + 1 \in 1 .. Len(s) /\ Len(s) \in 1 .. Len(s)
      BY <1>1, <2>3
    <3>2. s[i] # l
      BY <1>1, <1>7, <2>3, <3>1 DEF Differ
    <3>3. w.fat[s[i]] = v.fat[s[i]]
      BY <1>1, <2>3, <3>2
    <3>4. i # Len(r)
      BY <1>1, <1>3, <2>3
    <3> QED BY <1>2, <1>3, <2>3, <3>1, <3>3, <3>4
  <2> QED BY <1>5, <2>1, <2>2, <2>3
<1>9. IsChain(w, c, r)
  BY <1>3, <1>4, <1>6, <1>8 DEF IsChain
<1>10. Chain(w, c) = r /\ Chained(w, c)
  BY <1>9, ChainIs
<1>11. \A x : x \in Own(w, c) <=> \E k \in 1 .. Len(r) : x = r[k]
  BY <1>10, ChainTyped
<1>12. ASSUME NEW x  PROVE x \in Own(w, c) <=> x \in Own(v, c) \cup {d}
  <2>1. ASSUME x \in Own(w, c)  PROVE x \in Own(v, c) \cup {d}
    BY <2>1, <1>1, <1>3, <1>5, <1>11
  <2>2. \A k \in 1 .. Len(s) : k \in 1 .. Len(r)
    BY <1>1, <1>3
  <2>3. Len(s) + 1 \in 1 .. Len(r)
    BY <1>1, <1>3
  <2> QED BY <2>1, <2>2, <2>3, <1>1, <1>3, <1>11
<1> QED BY <1>3, <1>10, <1>12 DEF r, s

\* A chain that is ended at its place k.
LEMMA ChainCut ==
    ASSUME NEW v, NEW w, NEW c, Chained(v, c), c # 0, NEW k \in 1 .. Len(Chain(v, c)),
           w.fat[Chain(v, c)[k]] = EOC,
           \A x \in Own(v, c) : x # Chain(v, c)[k] => w.fat[x] = v.fat[x]
    PROVE  /\ Chained(w, c) /\ Len(Chain(w, c)) = k
           /\ \A j \in 1 .. k : Chain(w, c)[j] = Chain(v, c)[j]
<1> DEFINE s == Chain(v, c)
           r == SubSeq(s, 1, k)
<1>1. /\ s \in Seq(Clusters) /\ Len(s) \in Nat /\ Differ(s) /\ Len(s) >= 1 /\ s[1] = c
      /\ \A x : x \in Own(v, c) <=> \E j \in 1 .. Len(s) : x = s[j]
  BY ChainTyped
<1>2. \A j \in 1 .. Len(s) : v.fat[s[j]] = IF j = Len(s) THEN EOC ELSE s[j + 1]
  BY ChainLeads
<1>0. /\ k \in 1 .. Len(s) /\ w.fat[s[k]] = EOC
      /\ \A x \in Own(v, c) : x # s[k] => w.fat[x] = v.fat[x]
  OBVIOUS
<1> HIDE DEF s
<1>3. r \in Seq(Clusters) /\ Len(r) = k /\ \A j \in 1 .. k : r[j] = s[j]
  BY <1>0, <1>1
<1>4. r # <<>> /\ r[1] = c
  BY <1>0, <1>1, <1>3
<1> HIDE DEF r
<1>5. \A j \in 1 .. k : j \in 1 .. Len(s) /\ j \in Nat
  BY <1>0, <1>1
<1>6. Differ(r)
  BY <1>1, <1>3, <1>5 DEF Differ
<1>8. Leads(w, r)
  <2> SUFFICES ASSUME NEW i \in 1 .. Len(r)
               PROVE  w.fat[r[i]] = IF i = Len(r) THEN EOC ELSE r[i + 1]
    BY DEF Leads
  <2>1. CASE i = k
    BY <1>0, <1>3, <2>1
  <2>2. CASE i # k
    <3>1. i \in 1 .. k /\ i + 1 \in 1 .. k /\ i \in 1 .. Len(s) /\ i # Len(s) /\ i # Len(r)
      BY <1>0, <1>1, <1>3, <2>2
    <3>2. s[i] # s[k]
      BY <1>0, <1>1, <2>2, <3>1 DEF Differ
    <3>3. w.fat[s[i]] = v.fat[s[i]]
      BY <1>0, <1>1, <3>1, <3>2
    <3> QED BY <1>2, <1>3, <3>1, <3>3
  <2> QED BY <2>1, <2>2
<1>9. IsChain(w, c, r)
  BY <1>3, <1>4, <1>6, <1>8 DEF IsChain
<1>10. Chain(w, c) = r /\ Chained(w, c)
  BY <1>9, ChainIs
<1> QED BY <1>3, <1>10 DEF s
-----------------------------------------------------------------------------
(* The tables below a table *)

\* to is the function that Below(v, t) takes its value from.
BelowRec(v, t, to) ==
    to = [i \in 0 .. N - 2 |->
            IF i = 0 THEN {t}
            ELSE LET b == to[i - 1] IN b \cup UNION {Subdirs(v, d) : d \in b}]

\* q leads from t through i entries or fewer.
IsPath(v, t, i, q) ==
    /\ q \in [0 .. i -> Tables] /\ q[0] = t
    /\ \A j \in 0 .. i - 1 : q[j + 1] = q[j] \/ q[j + 1] \in Subdirs(v, q[j])
Paths(v, t, i) == {q \in [0 .. i -> Tables] : IsPath(v, t, i, q)}
Near(v, t, i) == {q[i] : q \in Paths(v, t, i)}

\* A path that is extended, and one that is cut.
LEMMA PathOn ==
    ASSUME NEW v, NEW t \in Tables, NEW i \in Nat, NEW x
    PROVE  x \in Near(v, t, i + 1) <=>
             x \in Near(v, t, i) \/ \E d \in Near(v, t, i) : x \in Subdirs(v, d)
<1> USE Constants
<1>0. \A d : Subdirs(v, d) \subseteq Tables
  BY DEF Subdirs
<1>1. ASSUME x \in Near(v, t, i + 1)
      PROVE  x \in Near(v, t, i) \/ \E d \in Near(v, t, i) : x \in Subdirs(v, d)
  <2>1. PICK q \in [0 .. i + 1 -> Tables] : IsPath(v, t, i + 1, q) /\ x = q[i + 1]
    BY <1>1 DEF Near, Paths
  <2> DEFINE r == [j \in 0 .. i |-> q[j]]
  <2>2. r \in [0 .. i -> Tables] /\ r[0] = t /\ r[i] = q[i]
    BY <2>1 DEF IsPath
  <2>3. IsPath(v, t, i, r)
    BY <2>1, <2>2 DEF IsPath
  <2>4. r[i] \in Near(v, t, i)
    BY <2>2, <2>3 DEF Near, Paths
  <2>5. q[i + 1] = q[i] \/ q[i + 1] \in Subdirs(v, q[i])
    <3>1. i \in 0 .. (i + 1) - 1
      OBVIOUS
    <3> QED BY <2>1, <3>1 DEF IsPath
  <2> QED BY <2>1, <2>2, <2>4, <2>5
<1>2. ASSUME NEW d \in Near(v, t, i), x = d \/ x \in Subdirs(v, d)
      PROVE  x \in Near(v, t, i + 1)
  <2>1. PICK q \in [0 .. i -> Tables] : IsPath(v, t, i, q) /\ d = q[i]
    BY DEF Near, Paths
  <2>2. x \in Tables
    BY <1>0, <1>2, <2>1
  <2> DEFINE r == [j \in 0 .. i + 1 |-> IF j = i + 1 THEN x ELSE q[j]]
  <2>3. r \in [0 .. i + 1 -> Tables] /\ r[0] = t /\ r[i + 1] = x
    BY <2>1, <2>2 DEF IsPath
  <2>4. ASSUME NEW j \in 0 .. (i + 1) - 1
        PROVE  r[j + 1] = r[j] \/ r[j + 1] \in Subdirs(v, r[j])
    <3>1. CASE j = i
      BY <1>2, <2>1, <3>1
    <3>2. CASE j # i
      <4>1. j \in 0 .. i - 1 /\ r[j] = q[j] /\ r[j + 1] = q[j + 1]
        BY <3>2
      <4> QED BY <2>1, <4>1 DEF IsPath
    <3> QED BY <3>1, <3>2
  <2> HIDE DEF r
  <2>5. IsPath(v, t, i + 1, r)
    BY <2>3, <2>4 DEF IsPath
  <2> QED BY <2>3, <2>5 DEF Near, Paths
<1> QED BY <1>1, <1>2

\* The recursion has a value.
LEMMA BelowIs ==
    ASSUME NEW v, NEW t \in Tables
    PROVE  \E to : BelowRec(v, t, to) /\ Below(v, t) = to[N - 2]
<1> USE Constants
<1> DEFINE all == [i \in 0 .. N - 2 |-> Near(v, t, i)]
           to == CHOOSE w : BelowRec(v, t, w)
<1>1. Near(v, t, 0) = {t}
  <2>1. \A q \in Paths(v, t, 0) : q[0] = t
    BY DEF Paths, IsPath
  <2> DEFINE q == [j \in 0 .. 0 |-> t]
  <2>2. IsPath(v, t, 0, q) /\ q \in [0 .. 0 -> Tables] /\ q[0] = t
    BY DEF IsPath
  <2> HIDE DEF q
  <2>3. q \in Paths(v, t, 0)
    BY <2>2 DEF Paths
  <2> QED BY <2>1, <2>2, <2>3 DEF Near
<1>2. ASSUME NEW i \in 0 .. N - 2
      PROVE  all[i] = IF i = 0 THEN {t}
                      ELSE LET b == all[i - 1] IN b \cup UNION {Subdirs(v, d) : d \in b}
  <2>1. CASE i = 0
    BY <1>1, <2>1
  <2>2. CASE i # 0
    <3>1. i - 1 \in Nat /\ i - 1 \in 0 .. N - 2 /\ (i - 1) + 1 = i
      BY <2>2
    <3>2. all[i - 1] = Near(v, t, i - 1) /\ all[i] = Near(v, t, i)
      BY <3>1
    <3>3. \A x : x \in Near(v, t, i) <=> x \in Near(v, t, i - 1) \/ \E d \in Near(v, t, i - 1) : x \in Subdirs(v, d)
      <4> TAKE x
      <4>1. x \in Near(v, t, (i - 1) + 1) <=> x \in Near(v, t, i - 1) \/ \E d \in Near(v, t, i - 1) : x \in Subdirs(v, d)
        BY <3>1, PathOn
      <4> QED BY <3>1, <4>1
    <3>4. Near(v, t, i) = Near(v, t, i - 1) \cup UNION {Subdirs(v, d) : d \in Near(v, t, i - 1)}
      BY <3>3
    <3> QED BY <2>2, <3>2, <3>4
  <2> QED BY <2>1, <2>2
<1>3. BelowRec(v, t, all)
  <2> HIDE DEF all
  <2>1. all = [i \in 0 .. N - 2 |-> all[i]]
    BY DEF all
  <2> QED BY <1>2, <2>1 DEF BelowRec
<1>4. BelowRec(v, t, to)
  BY <1>3
<1>5. Below(v, t) = to[N - 2]
  BY DEF Below, BelowRec
<1> QED BY <1>4, <1>5

\* The tables b and those their entries name.
BelowStep(v, b, a) == a = b \cup UNION {Subdirs(v, d) : d \in b}

\* X holds all below its tables.
Shut(v, X) == \A d \in X : Subdirs(v, d) \subseteq X

\* Step by step, the sets grow from {t} and stay in any set that holds t and all below.
LEMMA BelowGrows ==
    ASSUME NEW v, NEW t \in Tables, NEW to, BelowRec(v, t, to)
    PROVE  /\ to[0] = {t}
           /\ \A i \in 0 .. N - 3 : BelowStep(v, to[i], to[i + 1])
           /\ \A i \in 0 .. N - 2 : t \in to[i]
           /\ \A X : t \in X /\ Shut(v, X) => \A i \in 0 .. N - 2 : to[i] \subseteq X
<1> USE Constants
<1>1. \A i \in 0 .. N - 2 : to[i] = IF i = 0 THEN {t}
                                   ELSE LET b == to[i - 1] IN b \cup UNION {Subdirs(v, d) : d \in b}
  BY DEF BelowRec
<1>2. to[0] = {t}
  <2>1. 0 \in 0 .. N - 2
    OBVIOUS
  <2> QED BY <1>1, <2>1
<1>3. ASSUME NEW i \in 0 .. N - 3
      PROVE  to[i + 1] = to[i] \cup UNION {Subdirs(v, d) : d \in to[i]}
  <2>1. i + 1 \in 0 .. N - 2 /\ i + 1 # 0 /\ (i + 1) - 1 = i
    OBVIOUS
  <2> QED BY <1>1, <2>1
<1>4. ASSUME NEW X, t \in X, Shut(v, X)
      PROVE  \A i \in 0 .. N - 2 : to[i] \subseteq X /\ t \in to[i]
  <2> DEFINE Bad == {i \in 0 .. N - 2 : ~ (to[i] \subseteq X /\ t \in to[i])}
  <2> SUFFICES ASSUME Bad # {}  PROVE FALSE
    OBVIOUS
  <2>1. PICK i \in Bad : \A j \in Bad : i <= j
    <3>1. Bad \in SUBSET Nat
      OBVIOUS
    <3> HIDE DEF Bad
    <3> QED BY <3>1, Least
  <2>2. i \in 0 .. N - 2 /\ ~ (to[i] \subseteq X /\ t \in to[i])
    OBVIOUS
  <2>3. i # 0
    BY <1>2, <1>4, <2>2
  <2>4. i - 1 \in 0 .. N - 2 /\ i - 1 \in 0 .. N - 3 /\ ~ (i <= i - 1) /\ (i - 1) + 1 = i
    <3> HIDE DEF Bad
    <3> QED BY <2>2, <2>3
  <2>5. to[i - 1] \subseteq X /\ t \in to[i - 1]
    BY <2>1, <2>4
  <2>6. to[i] = to[i - 1] \cup UNION {Subdirs(v, d) : d \in to[i - 1]}
    BY <1>3, <2>4
  <2> HIDE DEF Bad
  <2> QED BY <1>4, <2>2, <2>5, <2>6 DEF Shut
<1>5. \A i \in 0 .. N - 2 : t \in to[i]
  <2>1. t \in Tables /\ Shut(v, Tables)
    BY DEF Subdirs, Shut
  <2> QED BY <1>4, <2>1
<1> QED BY <1>2, <1>3, <1>4, <1>5 DEF BelowStep

\* The tables below t are in any such set.
LEMMA BelowLeast ==
    ASSUME NEW v, NEW t \in Tables, NEW X, t \in X, Shut(v, X)
    PROVE  Below(v, t) \subseteq X
<1>1. PICK to : BelowRec(v, t, to) /\ Below(v, t) = to[N - 2]
  BY BelowIs
<1>2. N - 2 \in 0 .. N - 2
  BY Constants
<1>3. \A i \in 0 .. N - 2 : to[i] \subseteq X
  BY <1>1, BelowGrows
<1> QED BY <1>1, <1>2, <1>3

\* t is one of them, and all are tables of the type.
LEMMA BelowHas ==
    ASSUME NEW v, NEW t \in Tables
    PROVE  t \in Below(v, t) /\ Below(v, t) \subseteq Tables
<1>1. PICK to : BelowRec(v, t, to) /\ Below(v, t) = to[N - 2]
  BY BelowIs
<1>2. N - 2 \in 0 .. N - 2
  BY Constants
<1>3. Shut(v, Tables)
  BY Constants DEF Subdirs, Shut
<1>4. \A i \in 0 .. N - 2 : t \in to[i]
  BY <1>1, BelowGrows
<1>5. Below(v, t) \subseteq Tables
  BY <1>3, BelowLeast
<1> QED BY <1>1, <1>2, <1>4, <1>5
\* A step that adds nothing is the last that does.
LEMMA BelowStops ==
    ASSUME NEW v, NEW t \in Tables, NEW to, BelowRec(v, t, to),
           NEW k \in 0 .. N - 3, to[k + 1] = to[k]
    PROVE  to[N - 2] = to[k] /\ \A d \in to[k] : Subdirs(v, d) \subseteq to[k]
<1> USE Constants
<1>1. \A i \in 0 .. N - 3 : to[i + 1] = to[i] \cup UNION {Subdirs(v, d) : d \in to[i]}
  <2>1. \A i \in 0 .. N - 3 : BelowStep(v, to[i], to[i + 1])
    BY BelowGrows
  <2> QED BY <2>1 DEF BelowStep
<1>2. \A d \in to[k] : Subdirs(v, d) \subseteq to[k]
  BY <1>1
<1> DEFINE Bad == {i \in k .. N - 2 : to[i] # to[k]}
<1>3. Bad = {}
  <2> SUFFICES ASSUME Bad # {}  PROVE FALSE
    OBVIOUS
  <2>1. PICK i \in Bad : \A j \in Bad : i <= j
    <3>1. Bad \in SUBSET Nat
      OBVIOUS
    <3> HIDE DEF Bad
    <3> QED BY <3>1, Least
  <2>2. i \in k .. N - 2 /\ to[i] # to[k]
    OBVIOUS
  <2>3. i # k
    BY <2>2
  <2>4. i - 1 \in k .. N - 2 /\ i - 1 \in 0 .. N - 3 /\ ~ (i <= i - 1) /\ (i - 1) + 1 = i
    <3> HIDE DEF Bad
    <3> QED BY <2>2, <2>3
  <2>5. to[i - 1] = to[k]
    BY <2>1, <2>4
  <2>6. to[i] = to[i - 1] \cup UNION {Subdirs(v, d) : d \in to[i - 1]}
    BY <1>1, <2>4
  <2> HIDE DEF Bad
  <2>7. to[i] = to[k]
    BY <1>2, <2>5, <2>6
  <2> QED BY <2>2, <2>7
<1>4. N - 2 \in k .. N - 2
  OBVIOUS
<1> QED BY <1>2, <1>3, <1>4

\* Each step but the last adds a table, so N - 2 of them are enough.
LEMMA BelowClosed ==
    ASSUME NEW v, NEW t \in Tables, NEW e \in Below(v, t)
    PROVE  Subdirs(v, e) \subseteq Below(v, t)
<1> USE Constants
<1>1. PICK to : BelowRec(v, t, to) /\ Below(v, t) = to[N - 2]
  BY BelowIs
<1>0. /\ to[0] = {t}
      /\ \A i \in 0 .. N - 3 : to[i + 1] = to[i] \cup UNION {Subdirs(v, d) : d \in to[i]}
  <2>1. to[0] = {t}
    BY <1>1, BelowGrows
  <2>2. \A i \in 0 .. N - 3 : to[i + 1] = to[i] \cup UNION {Subdirs(v, d) : d \in to[i]}
    <3>1. \A i \in 0 .. N - 3 : BelowStep(v, to[i], to[i + 1])
      BY <1>1, BelowGrows
    <3> QED BY <3>1 DEF BelowStep
  <2> QED BY <2>1, <2>2
<1>2. CASE \E k \in 0 .. N - 3 : to[k + 1] = to[k]
  <2>1. PICK k \in 0 .. N - 3 : to[k + 1] = to[k]
    BY <1>2
  <2>2. to[N - 2] = to[k] /\ \A x \in to[k] : Subdirs(v, x) \subseteq to[k]
    BY <1>1, <2>1, BelowStops
  <2>3. e \in to[k]
    BY <1>1, <2>2
  <2> QED BY <1>1, <2>2, <2>3
<1>3. CASE \A k \in 0 .. N - 3 : to[k + 1] # to[k]
  <2>1. IsFiniteSet(Tables) /\ Cardinality(Tables) = N - 1
    <3>1. IsFiniteSet(Clusters) /\ Cardinality(Clusters) = N - 2
      BY FS_Interval DEF Clusters
    <3>2. Tables = Clusters \cup {0}
      BY DEF Tables
    <3> QED BY <3>1, <3>2, FS_AddElement
  <2>2. \A i \in 0 .. N - 2 : to[i] \subseteq Tables
    <3>1. Shut(v, Tables)
      BY DEF Subdirs, Tables, Shut
    <3>2. t \in Tables
      OBVIOUS
    <3> HIDE DEF Tables
    <3>3. \A X : t \in X /\ Shut(v, X) => \A i \in 0 .. N - 2 : to[i] \subseteq X
      BY <1>1, BelowGrows
    <3> QED BY <3>1, <3>2, <3>3
  <2>3. \A i \in 0 .. N - 2 : IsFiniteSet(to[i]) /\ Cardinality(to[i]) \in Nat /\ Cardinality(to[i]) <= N - 1
                              /\ (Cardinality(to[i]) = N - 1 => to[i] = Tables)
    BY <2>1, <2>2, FS_Subset, FS_CardinalityType
  <2> DEFINE Bad == {i \in 0 .. N - 2 : ~ (Cardinality(to[i]) >= i + 1)}
  <2>4. Bad = {}
    <3> SUFFICES ASSUME Bad # {}  PROVE FALSE
      OBVIOUS
    <3>1. PICK i \in Bad : \A j \in Bad : i <= j
      <4>1. Bad \in SUBSET Nat
        OBVIOUS
      <4> HIDE DEF Bad
      <4> QED BY <4>1, Least
    <3>2. i \in 0 .. N - 2 /\ ~ (Cardinality(to[i]) >= i + 1)
      OBVIOUS
    <3>3. i # 0
      <4>1. Cardinality(to[0]) = 1
        BY <1>0, FS_Singleton
      <4> HIDE DEF Bad
      <4> QED BY <3>2, <4>1
    <3>4. i - 1 \in 0 .. N - 2 /\ i - 1 \in 0 .. N - 3 /\ ~ (i <= i - 1) /\ (i - 1) + 1 = i
      <4> HIDE DEF Bad
      <4> QED BY <3>2, <3>3
    <3>5. Cardinality(to[i - 1]) >= (i - 1) + 1
      BY <3>1, <3>4
    <3> HIDE DEF Bad
    <3>6. to[i - 1] \subseteq to[i] /\ to[i - 1] # to[i]
      <4>1. \A j \in 0 .. N - 3 : to[j + 1] = to[j] \cup UNION {Subdirs(v, d) : d \in to[j]}
        BY <1>0
      <4>2. to[(i - 1) + 1] = to[i - 1] \cup UNION {Subdirs(v, d) : d \in to[i - 1]} /\ to[(i - 1) + 1] # to[i - 1]
        BY <1>3, <3>4, <4>1
      <4> QED BY <3>4, <4>2
    <3>7. Cardinality(to[i - 1]) <= Cardinality(to[i]) /\ Cardinality(to[i - 1]) # Cardinality(to[i])
      BY <2>3, <3>2, <3>6, FS_Subset
    <3>8. Cardinality(to[i - 1]) \in Nat /\ Cardinality(to[i]) \in Nat
      BY <2>3, <3>2, <3>4
    <3> QED BY <3>2, <3>4, <3>5, <3>7, <3>8
  <2>5. N - 2 \in 0 .. N - 2
    OBVIOUS
  <2>6. Cardinality(to[N - 2]) >= (N - 2) + 1
    BY <2>4, <2>5
  <2>7. to[N - 2] = Tables
    <3>1. Cardinality(to[N - 2]) \in Nat /\ Cardinality(to[N - 2]) <= N - 1
      BY <2>3, <2>5
    <3>2. Cardinality(to[N - 2]) = N - 1
      BY <2>6, <3>1
    <3> QED BY <2>3, <2>5, <3>2
  <2> QED BY <1>1, <2>7 DEF Subdirs
<1> QED BY <1>2, <1>3
\* What the tables below t lead to is below t.
LEMMA BelowShut ==
    ASSUME NEW v, NEW t \in Tables
    PROVE  Shut(v, Below(v, t))
  BY BelowClosed DEF Shut

\* The tables below t in v are in Z if those that another volume w has below it are, and
\* what v has more, in X.
LEMMA BelowCovered ==
    ASSUME NEW v, NEW w, NEW t \in Tables, NEW X, Shut(v, X),
           \A d \in Below(w, t) : Subdirs(v, d) \subseteq Subdirs(w, d) \cup X
    PROVE  Below(v, t) \subseteq Below(w, t) \cup X
<1>1. Shut(w, Below(w, t)) /\ t \in Below(w, t)
  BY BelowShut, BelowHas
<1>2. Shut(v, Below(w, t) \cup X)
  BY <1>1 DEF Shut
<1> QED BY <1>1, <1>2, BelowLeast

\* A table that is reached is one.
LEMMA ReachTables ==
    ASSUME NEW v, IsTable(v, 0), NEW t \in Reach(v)
    PROVE  IsTable(v, t) /\ t \in Tables
<1> DEFINE X == {x \in Tables : IsTable(v, x)}
<1>1. Shut(v, X)
  BY Constants DEF Shut, Subdirs
<1>2. 0 \in X /\ 0 \in Tables
  BY Constants
<1> HIDE DEF X
<1>3. Below(v, 0) \subseteq X
  BY <1>1, <1>2, BelowLeast
<1> QED BY <1>3 DEF Reach, X
-----------------------------------------------------------------------------
(* The types *)

FileEntries == [id : Ids, name : Names, dir : {FALSE}, clst : {0} \cup Clusters, size : Nat]
DirEntries == [id : {"dir"}, name : Names, dir : {TRUE}, clst : Clusters, size : {0}]
Entries == FileEntries \cup DirEntries \cup {Unused}
TableHolds == [kind : {"table"}, up : Tables, ent : [1 .. Slots -> Entries]]
DataHolds == [kind : {"data"}, id : Ids, k : Nat]
Holds == TableHolds \cup DataHolds \cup {Nothing}
Volumes == [fat : [Clusters -> Nat], has : [Tables -> Holds]]
Spots == Tables \X (1 .. Slots)

\* The entries in use, those of tables that no path leads to included.
All(v) == {p \in Spots : IsTable(v, p[1]) /\ At(v, p) # Unused}

\* The types of an entry in use.
LEMMA EntryTyped ==
    ASSUME NEW e \in Entries, e # Unused
    PROVE  /\ e.clst \in {0} \cup Clusters /\ e.size \in Nat /\ e.dir \in BOOLEAN /\ e.name \in Names
           /\ e.dir => e \in DirEntries /\ e.clst \in Clusters
           /\ ~ e.dir => e \in FileEntries /\ e.id \in Ids
<1>1. CASE e \in FileEntries
  BY <1>1 DEF FileEntries
<1>2. CASE e \in DirEntries
  <2>1. e.dir = TRUE /\ e.clst \in Clusters /\ e.size = 0 /\ e.name \in Names
    BY <1>2 DEF DirEntries
  <2>2. e.dir \in BOOLEAN
    BY <2>1
  <2> QED BY <1>2, <2>1, <2>2
<1> QED BY <1>1, <1>2 DEF Entries

\* Entries are not unused.
LEMMA EntryUsed ==
    ASSUME NEW e, e \in FileEntries \/ e \in DirEntries
    PROVE  e \in Entries /\ e # Unused
<1>1. DOMAIN Unused = {"id"}
  BY DEF Unused
<1>2. CASE e \in FileEntries
  <2>1. "name" \in DOMAIN e
    BY <1>2 DEF FileEntries
  <2> QED BY <1>1, <1>2, <2>1 DEF Entries
<1>3. CASE e \in DirEntries
  <2>1. "name" \in DOMAIN e
    BY <1>3 DEF DirEntries
  <2> QED BY <1>1, <1>3, <2>1 DEF Entries
<1> QED BY <1>2, <1>3

\* What f_open and f_mkdir enter.
LEMMA NewEntries ==
    /\ \A name \in Names, id \in Ids, c \in {0} \cup Clusters, n \in Nat :
          LET e == File(name, id, c, n)
          IN  /\ e \in FileEntries /\ e \in Entries /\ e # Unused /\ ~ e.dir
              /\ e.clst = c /\ e.size = n /\ e.id = id /\ e.name = name
    /\ \A name \in Names, c \in Clusters :
          LET e == Dir(name, c)
          IN  /\ e \in DirEntries /\ e \in Entries /\ e # Unused /\ e.dir
              /\ e.clst = c /\ e.name = name
<1>1. ASSUME NEW name \in Names, NEW id \in Ids, NEW c \in {0} \cup Clusters, NEW n \in Nat
      PROVE  LET e == File(name, id, c, n)
             IN  /\ e \in FileEntries /\ e \in Entries /\ e # Unused /\ ~ e.dir
                 /\ e.clst = c /\ e.size = n /\ e.id = id /\ e.name = name
  <2>1. File(name, id, c, n) \in FileEntries
    BY DEF File, FileEntries
  <2> QED BY <2>1, EntryUsed DEF File
<1>2. ASSUME NEW name \in Names, NEW c \in Clusters
      PROVE  LET e == Dir(name, c)
             IN  /\ e \in DirEntries /\ e \in Entries /\ e # Unused /\ e.dir
                 /\ e.clst = c /\ e.name = name
  <2>1. Dir(name, c) \in DirEntries
    BY DEF Dir, DirEntries
  <2> QED BY <2>1, EntryUsed DEF Dir
<1> QED BY <1>1, <1>2

\* The types of what a table holds.
LEMMA TableTyped ==
    ASSUME NEW v \in Volumes, NEW t \in Tables, IsTable(v, t)
    PROVE  /\ v.has[t] \in TableHolds /\ v.has[t].up \in Tables /\ v.has[t].kind = "table"
           /\ v.has[t].ent \in [1 .. Slots -> Entries]
           /\ \A s \in 1 .. Slots : Entry(v, t, s) \in Entries
<1>1. v.has[t] \in Holds /\ v.has[t].kind = "table"
  BY DEF Volumes, IsTable
<1>2. v.has[t] \notin DataHolds /\ v.has[t] # Nothing
  BY <1>1 DEF DataHolds, Nothing
<1>3. v.has[t] \in TableHolds
  BY <1>1, <1>2 DEF Holds
<1> QED BY <1>1, <1>3 DEF TableHolds, Entry

\* A spot, its table and its entry.
LEMMA SpotIs ==
    ASSUME NEW t \in Tables, NEW s \in 1 .. Slots
    PROVE  /\ <<t, s>> \in Spots /\ <<t, s>>[1] = t /\ <<t, s>>[2] = s
           /\ \A v : At(v, <<t, s>>) = Entry(v, t, s)
           /\ \A v : <<t, s>> \in All(v) <=> IsTable(v, t) /\ Entry(v, t, s) # Unused
  BY DEF Spots, At, All

\* A spot is a table and an entry of it.
LEMMA SpotParts ==
    ASSUME NEW p \in Spots
    PROVE  p[1] \in Tables /\ p[2] \in 1 .. Slots /\ p = <<p[1], p[2]>>
  BY DEF Spots

\* The types of an entry in use at its spot.
LEMMA AllTyped ==
    ASSUME NEW v \in Volumes, NEW p \in All(v)
    PROVE  /\ p[1] \in Tables /\ p[2] \in 1 .. Slots /\ p = <<p[1], p[2]>> /\ p \in Spots
           /\ IsTable(v, p[1]) /\ At(v, p) \in Entries /\ At(v, p) # Unused
           /\ At(v, p).clst \in {0} \cup Clusters /\ At(v, p).size \in Nat
           /\ At(v, p).dir \in BOOLEAN
           /\ At(v, p).dir => At(v, p).clst \in Clusters
<1>1. p \in Spots /\ IsTable(v, p[1]) /\ At(v, p) # Unused
  BY DEF All
<1>2. p[1] \in Tables /\ p[2] \in 1 .. Slots /\ p = <<p[1], p[2]>>
  BY <1>1, SpotParts
<1>3. At(v, p) \in Entries
  BY <1>1, <1>2, TableTyped DEF At
<1> QED BY <1>1, <1>2, <1>3, EntryTyped
-----------------------------------------------------------------------------
(* What a change changes *)

\* A FAT entry, and what the cluster held if it is freed.
LEMMA FatChanged ==
    ASSUME NEW v \in Volumes, NEW c \in Clusters, NEW val \in Nat, NEW w, w = Changed(v, SetFat(c, val))
    PROVE  /\ w \in Volumes /\ w.fat[c] = val
           /\ \A x \in Clusters : x # c => w.fat[x] = v.fat[x]
           /\ \A t \in Tables : t # c \/ val # 0 => w.has[t] = v.has[t]
           /\ val = 0 => ~ IsTable(w, c)
<1> DEFINE ch == SetFat(c, val)
<1>1. ch.do = "fat" /\ ch.c = c /\ ch.val = val
  BY DEF SetFat
<1>2. w = [v EXCEPT !.fat[c] = val, !.has[c] = Kept(@, ch)]
  BY <1>1 DEF Changed
<1>3. Kept(v.has[c], ch) = IF val = 0 THEN Nothing ELSE v.has[c]
  BY <1>1 DEF Kept
<1> HIDE DEF ch
<1>4. v.fat \in [Clusters -> Nat] /\ v.has \in [Tables -> Holds] /\ c \in Tables
  BY Constants DEF Volumes
<1>5. /\ w.fat = [v.fat EXCEPT ![c] = val]
      /\ w.has = [v.has EXCEPT ![c] = IF val = 0 THEN Nothing ELSE v.has[c]]
      /\ w = [fat |-> w.fat, has |-> w.has]
  BY <1>2, <1>3, <1>4 DEF Volumes
<1>6. Nothing \in Holds /\ Nothing.kind # "table"
  BY DEF Holds, Nothing
<1>7. w.fat \in [Clusters -> Nat] /\ w.has \in [Tables -> Holds]
  BY <1>4, <1>5, <1>6
<1>8. w \in Volumes
  BY <1>5, <1>7 DEF Volumes
<1> QED BY <1>4, <1>5, <1>6, <1>8 DEF IsTable

\* An entry of a table.
LEMMA EntryChanged ==
    ASSUME NEW v \in Volumes, NEW t \in Tables, IsTable(v, t), NEW s \in 1 .. Slots, NEW e \in Entries,
           NEW w, w = Changed(v, SetEntry(t, s, e))
    PROVE  /\ w \in Volumes /\ w.fat = v.fat
           /\ \A x \in Tables : /\ IsTable(w, x) <=> IsTable(v, x)
                                /\ x # t => w.has[x] = v.has[x]
           /\ \A x \in Tables : w.has[x].up = v.has[x].up
           /\ \A x \in Tables, r \in 1 .. Slots :
                 Entry(w, x, r) = IF x = t /\ r = s THEN e ELSE Entry(v, x, r)
<1> DEFINE ch == SetEntry(t, s, e)
<1>1. ch.do = "entry" /\ ch.t = t /\ ch.s = s /\ ch.e = e
  BY DEF SetEntry
<1>2. w = [v EXCEPT !.has[t].ent[s] = e]
  BY <1>1 DEF Changed
<1> HIDE DEF ch
<1>3. v.fat \in [Clusters -> Nat] /\ v.has \in [Tables -> Holds]
  BY DEF Volumes
<1>4. v.has[t] \in TableHolds
  BY TableTyped
<1> DEFINE h == [v.has[t] EXCEPT !.ent[s] = e]
<1>5. /\ h \in TableHolds /\ h.kind = "table" /\ h.up = v.has[t].up
      /\ h.ent = [v.has[t].ent EXCEPT ![s] = e] /\ v.has[t].ent \in [1 .. Slots -> Entries]
  BY <1>4 DEF TableHolds
<1>6. w.fat = v.fat /\ w.has = [v.has EXCEPT ![t] = h] /\ w = [fat |-> w.fat, has |-> w.has]
  BY <1>2, <1>3 DEF Volumes
<1> HIDE DEF h
<1>7. w.has \in [Tables -> Holds]
  BY <1>3, <1>5, <1>6 DEF Holds
<1>8. w \in Volumes
  BY <1>3, <1>6, <1>7 DEF Volumes
<1>9. \A x \in Tables : w.has[x] = IF x = t THEN h ELSE v.has[x]
  BY <1>3, <1>6
<1>10. v.has[t].kind = "table"
  BY TableTyped
<1>11. \A r \in 1 .. Slots : h.ent[r] = IF r = s THEN e ELSE v.has[t].ent[r]
  BY <1>5
<1> QED BY <1>5, <1>6, <1>8, <1>9, <1>10, <1>11 DEF IsTable, Entry

\* The ".." of a table.
LEMMA UpChanged ==
    ASSUME NEW v \in Volumes, NEW t \in Tables, IsTable(v, t), NEW up \in Tables,
           NEW w, w = Changed(v, SetUp(t, up))
    PROVE  /\ w \in Volumes /\ w.fat = v.fat
           /\ \A x \in Tables : /\ IsTable(w, x) <=> IsTable(v, x)
                                /\ x # t => w.has[x] = v.has[x]
           /\ \A x \in Tables : w.has[x].up = IF x = t THEN up ELSE v.has[x].up
           /\ \A x \in Tables, r \in 1 .. Slots : Entry(w, x, r) = Entry(v, x, r)
<1> DEFINE ch == SetUp(t, up)
<1>1. ch.do = "up" /\ ch.t = t /\ ch.up = up
  BY DEF SetUp
<1>2. w = [v EXCEPT !.has[t].up = up]
  BY <1>1 DEF Changed
<1> HIDE DEF ch
<1>3. v.fat \in [Clusters -> Nat] /\ v.has \in [Tables -> Holds]
  BY DEF Volumes
<1>4. v.has[t] \in TableHolds
  BY TableTyped
<1> DEFINE h == [v.has[t] EXCEPT !.up = up]
<1>5. /\ h \in TableHolds /\ h.kind = "table" /\ h.up = up /\ h.ent = v.has[t].ent
  BY <1>4 DEF TableHolds
<1>6. w.fat = v.fat /\ w.has = [v.has EXCEPT ![t] = h] /\ w = [fat |-> w.fat, has |-> w.has]
  BY <1>2, <1>3 DEF Volumes
<1> HIDE DEF h
<1>7. w.has \in [Tables -> Holds]
  BY <1>3, <1>5, <1>6 DEF Holds
<1>8. w \in Volumes
  BY <1>3, <1>6, <1>7 DEF Volumes
<1>9. \A x \in Tables : w.has[x] = IF x = t THEN h ELSE v.has[x]
  BY <1>3, <1>6
<1>10. v.has[t].kind = "table"
  BY TableTyped
<1> QED BY <1>5, <1>6, <1>8, <1>9, <1>10 DEF IsTable, Entry

\* What a cluster holds.
LEMMA PutChanged ==
    ASSUME NEW v \in Volumes, NEW c \in Clusters, NEW val \in Holds, NEW w, w = Changed(v, Put(c, val))
    PROVE  /\ w \in Volumes /\ w.fat = v.fat /\ w.has[c] = val
           /\ \A t \in Tables : t # c => w.has[t] = v.has[t]
<1> DEFINE ch == Put(c, val)
<1>1. ch.do = "put" /\ ch.c = c /\ ch.val = val
  BY DEF Put
<1>2. w = [v EXCEPT !.has[c] = val]
  BY <1>1 DEF Changed
<1> HIDE DEF ch
<1>3. v.fat \in [Clusters -> Nat] /\ v.has \in [Tables -> Holds] /\ c \in Tables
  BY Constants DEF Volumes
<1>4. w.fat = v.fat /\ w.has = [v.has EXCEPT ![c] = val] /\ w = [fat |-> w.fat, has |-> w.has]
  BY <1>2, <1>3 DEF Volumes
<1>5. w.has \in [Tables -> Holds]
  BY <1>3, <1>4
<1>6. w \in Volumes
  BY <1>3, <1>4, <1>5 DEF Volumes
<1> QED BY <1>3, <1>4, <1>6

\* Nothing, when another sector is read.
LEMMA MoveChanged ==
    ASSUME NEW v, NEW sector
    PROVE  Changed(v, Move(sector)) = v /\ Changed(v, Sync) = v
  BY DEF Changed, Move, Sync
-----------------------------------------------------------------------------
(* A fine volume: what holds of it with the file objects F over it, of which  *)
(* the files sh were cut                                                     *)

OpenFils == [open : {TRUE}, id : Ids, t : Tables, s : 1 .. Slots, clst : {0} \cup Clusters,
             size : Nat, dirty : {0} \cup Clusters, part : Nat, mod : BOOLEAN]
FilRecs == OpenFils \cup {Closed}
AllClosed == [f \in Fils |-> Closed]

Place(o) == <<o.t, o.s>>
Holders(F, p) == {f \in Fils : F[f].open /\ Place(F[f]) = p}

\* Where the file or directory at p begins and how long it is: an open file's object
\* knows better than the entry.
Clst(v, F, p) == IF At(v, p).dir \/ Holders(F, p) = {} THEN At(v, p).clst
                 ELSE F[CHOOSE f \in Holders(F, p) : TRUE].clst
Size(v, F, p) == IF At(v, p).dir \/ Holders(F, p) = {} THEN At(v, p).size
                 ELSE F[CHOOSE f \in Holders(F, p) : TRUE].size

FileLaid(v, F, p) ==
    /\ Chained(v, Clst(v, F, p)) /\ Len(Chain(v, Clst(v, F, p))) >= Size(v, F, p)
    /\ \A x \in Own(v, Clst(v, F, p)) : ~ IsTable(v, x)
DirLaid(v, p) ==
    LET c == At(v, p).clst
    IN  c \in Clusters /\ IsTable(v, c) /\ v.fat[c] = EOC /\ v.has[c].up = p[1]
ObjectLaid(v, F, p) == IF At(v, p).dir THEN DirLaid(v, p) ELSE FileLaid(v, F, p)

ChainsApart(v, F) ==
    \A p, q \in All(v) : p # q => Own(v, Clst(v, F, p)) \cap Own(v, Clst(v, F, q)) = {}
NamesApart(v) ==
    \A p, q \in All(v) : p # q /\ p[1] = q[1] => At(v, p).name # At(v, q).name
NoFreeTable(v) == \A c \in Clusters : IsTable(v, c) => v.fat[c] # 0
Laid(v, F) ==
    /\ \A p \in All(v) : ObjectLaid(v, F, p)
    /\ ChainsApart(v, F) /\ NamesApart(v) /\ NoFreeTable(v) /\ IsTable(v, 0)

\* Only tables that are reached have entries.
Rooted(v) == \A t \in Tables : IsTable(v, t) /\ Used(v, t) # {} => t \in Reach(v)

\* A file object and its entry.
FilFits(v, o, sh) ==
    LET e == At(v, Place(o))
    IN  /\ Place(o) \in All(v) /\ ~ e.dir /\ e.id = o.id
        /\ o.dirty # 0 => o.mod /\ o.dirty \in Own(v, o.clst)
        /\ o.id \in sh \/ (e.clst = 0 /\ e.size = 0) \/ (e.clst = o.clst /\ e.size <= o.size)
        /\ ~ o.mod => e.clst = o.clst /\ e.size = o.size
IdsApart(F) == \A f, g \in Fils : f # g /\ F[f].open /\ F[g].open => F[f].id # F[g].id
FilsFit(v, F, sh) == IdsApart(F) /\ \A f \in Fils : F[f].open => FilFits(v, F[f], sh)

Fine(v, F, sh) ==
    v \in Volumes /\ F \in [Fils -> FilRecs] /\ Laid(v, F) /\ Rooted(v) /\ FilsFit(v, F, sh)

\* The types of a file object that is open.
LEMMA FilTyped ==
    ASSUME NEW o \in FilRecs, o.open
    PROVE  /\ o \in OpenFils /\ o.id \in Ids /\ o.t \in Tables /\ o.s \in 1 .. Slots
           /\ o.clst \in {0} \cup Clusters /\ o.size \in Nat /\ o.dirty \in {0} \cup Clusters
           /\ o.mod \in BOOLEAN /\ o.part \in Nat /\ Place(o)[1] = o.t /\ Place(o)[2] = o.s
           /\ Place(o) \in Spots /\ \A v : At(v, Place(o)) = Entry(v, o.t, o.s)
<1>1. o \in OpenFils
  BY DEF FilRecs, Closed
<1>2. /\ o.id \in Ids /\ o.t \in Tables /\ o.s \in 1 .. Slots
      /\ o.clst \in {0} \cup Clusters /\ o.size \in Nat /\ o.dirty \in {0} \cup Clusters
      /\ o.mod \in BOOLEAN /\ o.part \in Nat
  BY <1>1 DEF OpenFils
<1> QED BY <1>1, <1>2, SpotIs DEF Place

\* A closed file object has its type.
LEMMA ClosedTyped == Closed \in FilRecs /\ ~ Closed.open
  BY DEF FilRecs, Closed

\* The one object of an open file.
LEMMA HolderIs ==
    ASSUME NEW v, NEW F, NEW sh, FilsFit(v, F, sh), NEW f \in Fils, F[f].open
    PROVE  /\ Clst(v, F, Place(F[f])) = F[f].clst /\ Size(v, F, Place(F[f])) = F[f].size
           /\ Holders(F, Place(F[f])) = {f}
<1>1. FilFits(v, F[f], sh)
  BY DEF FilsFit
<1>2. ~ At(v, Place(F[f])).dir
  BY <1>1 DEF FilFits
<1>3. ASSUME NEW g \in Holders(F, Place(F[f]))  PROVE g = f
  <2>1. g \in Fils /\ F[g].open /\ Place(F[g]) = Place(F[f])
    BY DEF Holders
  <2>2. FilFits(v, F[g], sh)
    BY <2>1 DEF FilsFit
  <2>3. F[g].id = F[f].id
    BY <1>1, <2>1, <2>2 DEF FilFits
  <2> QED BY <2>1, <2>3 DEF FilsFit, IdsApart
<1>4. f \in Holders(F, Place(F[f]))
  BY DEF Holders
<1>5. Holders(F, Place(F[f])) = {f}
  BY <1>3, <1>4
<1>6. (CHOOSE g \in Holders(F, Place(F[f])) : TRUE) = f
  BY <1>5
<1> QED BY <1>2, <1>5, <1>6 DEF Clst, Size

\* An entry without an object, in the first place a directory's.
LEMMA HolderNone ==
    ASSUME NEW v, NEW F, NEW p, At(v, p).dir \/ Holders(F, p) = {}
    PROVE  Clst(v, F, p) = At(v, p).clst /\ Size(v, F, p) = At(v, p).size
  BY DEF Clst, Size

\* An entry that stays, whose object stays.
LEMMA ClstSame ==
    ASSUME NEW v, NEW w, NEW F, NEW G, NEW p, At(w, p) = At(v, p), Holders(G, p) = Holders(F, p),
           \A g \in Holders(F, p) : G[g] = F[g]
    PROVE  Clst(w, G, p) = Clst(v, F, p) /\ Size(w, G, p) = Size(v, F, p)
<1>1. CASE Holders(F, p) = {}
  BY <1>1 DEF Clst, Size
<1>2. CASE Holders(F, p) # {}
  <2>1. (CHOOSE f \in Holders(F, p) : TRUE) \in Holders(F, p)
    BY <1>2
  <2> QED BY <2>1 DEF Clst, Size
<1> QED BY <1>1, <1>2

\* Only the entry of f, before and after, has another object.
LEMMA ClstApart ==
    ASSUME NEW v, NEW w, NEW F, NEW G, NEW p, At(w, p) = At(v, p), NEW f,
           \A g \in Fils : g # f => G[g] = F[g],
           F[f].open => Place(F[f]) # p, G[f].open => Place(G[f]) # p
    PROVE  Clst(w, G, p) = Clst(v, F, p) /\ Size(w, G, p) = Size(v, F, p)
<1>1. Holders(G, p) = Holders(F, p) /\ \A g \in Holders(F, p) : G[g] = F[g]
  BY DEF Holders
<1> QED BY <1>1, ClstSame
-----------------------------------------------------------------------------
(* What stays *)

\* The file or directory at p is left alone from v to w.
Frame(v, F, w, G, p) ==
    /\ p \in All(v) /\ At(w, p) = At(v, p)
    /\ Clst(w, G, p) = Clst(v, F, p) /\ Size(w, G, p) = Size(v, F, p)
    /\ \A x \in Own(v, Clst(v, F, p)) :
          /\ w.fat[x] = v.fat[x] /\ (IsTable(w, x) <=> IsTable(v, x))
          /\ At(v, p).dir => w.has[x].up = v.has[x].up

\* The chain of an entry in use.
LEMMA LaidOwn ==
    ASSUME NEW v \in Volumes, NEW F, Laid(v, F), NEW p \in All(v)
    PROVE  /\ Chained(v, Clst(v, F, p)) /\ Own(v, Clst(v, F, p)) \subseteq Clusters
           /\ At(v, p).dir => /\ Clst(v, F, p) = At(v, p).clst /\ At(v, p).clst \in Clusters
                              /\ Own(v, Clst(v, F, p)) = {At(v, p).clst}
                              /\ Chain(v, At(v, p).clst) = <<At(v, p).clst>>
<1>1. ObjectLaid(v, F, p)
  BY DEF Laid
<1>2. CASE At(v, p).dir
  <2>1. DirLaid(v, p)
    BY <1>1, <1>2 DEF ObjectLaid
  <2>2. At(v, p).clst \in Clusters /\ v.fat[At(v, p).clst] = EOC
    BY <2>1 DEF DirLaid
  <2>3. Clst(v, F, p) = At(v, p).clst
    BY <1>2, HolderNone
  <2> QED BY <2>2, <2>3, ChainOne
<1>3. CASE ~ At(v, p).dir
  <2>1. Chained(v, Clst(v, F, p))
    BY <1>1, <1>3 DEF ObjectLaid, FileLaid
  <2> QED BY <1>3, <2>1, ChainTyped
<1> QED BY <1>2, <1>3

\* What is left alone stays laid out.
LEMMA FrameLaid ==
    ASSUME NEW v \in Volumes, NEW w, NEW F, NEW G, Laid(v, F), NEW p, Frame(v, F, w, G, p)
    PROVE  /\ ObjectLaid(w, G, p) /\ Own(w, Clst(w, G, p)) = Own(v, Clst(v, F, p))
           /\ Chain(w, Clst(w, G, p)) = Chain(v, Clst(v, F, p))
<1> DEFINE c == Clst(v, F, p)
<1>1. /\ p \in All(v) /\ At(w, p) = At(v, p) /\ Clst(w, G, p) = c /\ Size(w, G, p) = Size(v, F, p)
      /\ \A x \in Own(v, c) : w.fat[x] = v.fat[x] /\ (IsTable(w, x) <=> IsTable(v, x))
      /\ \A x \in Own(v, c) : At(v, p).dir => w.has[x].up = v.has[x].up
  BY DEF Frame
<1>2. Chained(v, c)
  BY <1>1, LaidOwn
<1>3. Chained(w, c) /\ Chain(w, c) = Chain(v, c) /\ Own(w, c) = Own(v, c)
  BY <1>1, <1>2, ChainKept
<1>4. ObjectLaid(v, F, p)
  BY <1>1 DEF Laid
<1>5. CASE At(v, p).dir
  <2>1. DirLaid(v, p) /\ At(v, p).clst \in Own(v, c)
    BY <1>1, <1>4, <1>5, LaidOwn DEF ObjectLaid
  <2>2. DirLaid(w, p)
    BY <1>1, <1>5, <2>1 DEF DirLaid
  <2> QED BY <1>1, <1>3, <1>5, <2>2 DEF ObjectLaid
<1>6. CASE ~ At(v, p).dir
  <2>1. FileLaid(v, F, p)
    BY <1>4, <1>6 DEF ObjectLaid
  <2>2. FileLaid(w, G, p)
    BY <1>1, <1>3, <2>1 DEF FileLaid
  <2> QED BY <1>1, <1>3, <1>6, <2>2 DEF ObjectLaid
<1> QED BY <1>5, <1>6

\* All is left alone but the entry q, which is made anew.
LEMMA LaidKept ==
    ASSUME NEW v \in Volumes, NEW w, NEW F, NEW G, Laid(v, F), NEW q,
           \A p \in All(w) : p # q => Frame(v, F, w, G, p),
           IsTable(w, 0), NoFreeTable(w),
           q \in All(w) => /\ ObjectLaid(w, G, q)
                           /\ \A p \in All(w) : p # q =>
                                 /\ Own(w, Clst(w, G, q)) \cap Own(v, Clst(v, F, p)) = {}
                                 /\ p[1] = q[1] => At(w, p).name # At(w, q).name
    PROVE  Laid(w, G)
<1>1. \A p \in All(w) : p # q => ObjectLaid(w, G, p) /\ Own(w, Clst(w, G, p)) = Own(v, Clst(v, F, p))
  BY FrameLaid
<1>2. \A p \in All(w) : p # q => p \in All(v) /\ At(w, p) = At(v, p)
  BY DEF Frame
<1>3. \A p \in All(w) : ObjectLaid(w, G, p)
  BY <1>1
<1>4. ChainsApart(w, G)
  <2> SUFFICES ASSUME NEW p \in All(w), NEW r \in All(w), p # r
               PROVE  Own(w, Clst(w, G, p)) \cap Own(w, Clst(w, G, r)) = {}
    BY DEF ChainsApart
  <2>1. CASE p # q /\ r # q
    BY <1>1, <1>2, <2>1 DEF Laid, ChainsApart
  <2>2. CASE p = q
    BY <1>1, <2>2
  <2>3. CASE r = q
    BY <1>1, <2>3
  <2> QED BY <2>1, <2>2, <2>3
<1>5. NamesApart(w)
  <2> SUFFICES ASSUME NEW p \in All(w), NEW r \in All(w), p # r, p[1] = r[1]
               PROVE  At(w, p).name # At(w, r).name
    BY DEF NamesApart
  <2>1. CASE p # q /\ r # q
    BY <1>2, <2>1 DEF Laid, NamesApart
  <2> QED BY <2>1
<1> QED BY <1>3, <1>4, <1>5 DEF Laid

\* The file objects fit if all do but that of f, which fits.
LEMMA FilsKept ==
    ASSUME NEW v, NEW w, NEW F, NEW G, NEW sh, NEW sg, FilsFit(v, F, sh), NEW f,
           \A g \in Fils : g # f => G[g] = F[g],
           \A g \in Fils : g # f /\ F[g].open =>
              /\ Place(F[g]) \in All(w) /\ At(w, Place(F[g])) = At(v, Place(F[g]))
              /\ Own(v, F[g].clst) \subseteq Own(w, F[g].clst)
              /\ F[g].id \in sh => F[g].id \in sg,
           f \in Fils /\ G[f].open =>
              /\ FilFits(w, G[f], sg)
              /\ \A g \in Fils : g # f /\ F[g].open => F[g].id # G[f].id
    PROVE  FilsFit(w, G, sg)
<1>1. IdsApart(G)
  BY DEF IdsApart, FilsFit
<1>2. ASSUME NEW g \in Fils, G[g].open  PROVE FilFits(w, G[g], sg)
  <2>1. CASE g = f
    BY <1>2, <2>1
  <2>2. CASE g # f
    <3>1. G[g] = F[g] /\ FilFits(v, F[g], sh)
      BY <1>2, <2>2 DEF FilsFit
    <3> QED BY <1>2, <2>2, <3>1 DEF FilFits
  <2> QED BY <2>1, <2>2
<1> QED BY <1>1, <1>2 DEF FilsFit

\* What a directory leads to.
LEMMA SubdirIs ==
    ASSUME NEW v, NEW d, NEW x
    PROVE  x \in Subdirs(v, d) <=>
             /\ x \in Clusters /\ IsTable(v, x)
             /\ \E s \in 1 .. Slots : /\ Entry(v, d, s) # Unused /\ Entry(v, d, s).dir
                                      /\ Entry(v, d, s).clst = x
  BY DEF Subdirs, Used

\* Tables with entries stay in reach, when v leads nowhere further than w but into X,
\* and no table of X has entries unless it is reached.
LEMMA RootedKept ==
    ASSUME NEW v, NEW w, Rooted(v), NEW X, Shut(v, X),
           \A d \in Reach(w) : Subdirs(v, d) \subseteq Subdirs(w, d) \cup X,
           \A t \in Tables : IsTable(w, t) /\ Used(w, t) # {} =>
              t \in Reach(w) \/ (t \notin X /\ t \in Reach(v))
    PROVE  Rooted(w)
<1>1. 0 \in Tables
  BY Constants
<1>2. Reach(v) \subseteq Reach(w) \cup X
  BY <1>1, BelowCovered DEF Reach
<1> QED BY <1>2 DEF Rooted

\* The entries and the kinds of the tables are the same.
LEMMA RootedSame ==
    ASSUME NEW v, NEW w, Rooted(v), IsTable(v, 0), IsTable(w, 0),
           \A t \in Tables : IsTable(w, t) => IsTable(v, t),
           \A t \in Tables : IsTable(v, t) /\ Used(v, t) # {} => IsTable(w, t),
           \A t \in Tables, s \in 1 .. Slots : IsTable(w, t) => Entry(w, t, s) = Entry(v, t, s)
    PROVE  Rooted(w)
<1> DEFINE X == {t \in Clusters : IsTable(v, t) /\ Used(v, t) = {}}
<1>1. Shut(v, X)
  BY DEF Shut, Subdirs
<1>2. Clusters \subseteq Tables /\ 0 \in Tables
  BY Constants
<1>3. ASSUME NEW d \in Reach(w)  PROVE Subdirs(v, d) \subseteq Subdirs(w, d) \cup X
  <2>1. d \in Tables /\ IsTable(w, d)
    BY <1>3, ReachTables
  <2> SUFFICES ASSUME NEW x \in Subdirs(v, d)  PROVE x \in Subdirs(w, d) \cup X
    OBVIOUS
  <2>2. /\ x \in Clusters /\ IsTable(v, x)
        /\ \E s \in 1 .. Slots : /\ Entry(v, d, s) # Unused /\ Entry(v, d, s).dir
                                 /\ Entry(v, d, s).clst = x
    BY SubdirIs
  <2>3. IsTable(w, x) \/ x \in X
    BY <1>2, <2>2
  <2>4. \E s \in 1 .. Slots : /\ Entry(w, d, s) # Unused /\ Entry(w, d, s).dir
                              /\ Entry(w, d, s).clst = x
    BY <2>1, <2>2
  <2>5. IsTable(w, x) => x \in Subdirs(w, d)
    BY <2>2, <2>4, SubdirIs
  <2> QED BY <2>3, <2>5
<1>4. ASSUME NEW t \in Tables, IsTable(w, t), Used(w, t) # {}
      PROVE  t \in Reach(w) \/ (t \notin X /\ t \in Reach(v))
  <2>1. Used(v, t) # {}
    BY <1>4 DEF Used
  <2> QED BY <1>4, <2>1 DEF Rooted
<1> HIDE DEF X
<1> QED BY <1>1, <1>3, <1>4, RootedKept
-----------------------------------------------------------------------------
(* The volume without the file objects, as it is mounted *)

\* Without file objects an entry says where its file is.
LEMMA RawClst ==
    ASSUME NEW v, NEW p
    PROVE  Clst(v, AllClosed, p) = At(v, p).clst /\ Size(v, AllClosed, p) = At(v, p).size
<1>1. Holders(AllClosed, p) = {}
  BY ClosedTyped DEF Holders, AllClosed
<1> QED BY <1>1, HolderNone

\* The entry of an open file that was not cut is there, with no more clusters.
LEMMA RawObject ==
    ASSUME NEW v, NEW F, Fine(v, F, {}), NEW p \in All(v)
    PROVE  /\ ObjectLaid(v, AllClosed, p)
           /\ Own(v, Clst(v, AllClosed, p)) \subseteq Own(v, Clst(v, F, p))
<1>0. v \in Volumes /\ FilsFit(v, F, {}) /\ ObjectLaid(v, F, p) /\ F \in [Fils -> FilRecs]
  BY DEF Fine, Laid
<1>1. CASE At(v, p).dir
  BY <1>0, <1>1, RawClst, HolderNone DEF ObjectLaid
<1>2. CASE ~ At(v, p).dir /\ Holders(F, p) = {}
  <2>1. Clst(v, F, p) = Clst(v, AllClosed, p) /\ Size(v, F, p) = Size(v, AllClosed, p)
    BY <1>2, RawClst, HolderNone
  <2> QED BY <1>0, <1>2, <2>1 DEF ObjectLaid, FileLaid
<1>3. CASE ~ At(v, p).dir /\ Holders(F, p) # {}
  <2>1. PICK f \in Fils : F[f].open /\ Place(F[f]) = p
    BY <1>3 DEF Holders
  <2>2. Clst(v, F, p) = F[f].clst /\ Size(v, F, p) = F[f].size
    BY <1>0, <2>1, HolderIs
  <2>3. FilFits(v, F[f], {}) /\ F[f].size \in Nat
    BY <1>0, <2>1, FilTyped DEF FilsFit
  <2>4. \/ At(v, p).clst = 0 /\ At(v, p).size = 0
        \/ At(v, p).clst = F[f].clst /\ At(v, p).size <= F[f].size
    BY <2>1, <2>3 DEF FilFits
  <2>5. FileLaid(v, F, p)
    BY <1>0, <1>3 DEF ObjectLaid
  <2>6. At(v, p).size \in Nat
    BY <1>0, AllTyped
  <2>7. CASE At(v, p).clst = 0 /\ At(v, p).size = 0
    <3>1. Own(v, At(v, p).clst) = {} /\ Chained(v, At(v, p).clst) /\ Len(Chain(v, At(v, p).clst)) = 0
      BY <2>7, ChainNone
    <3>2. FileLaid(v, AllClosed, p)
      BY <2>7, <3>1, RawClst DEF FileLaid
    <3> QED BY <1>3, <3>1, <3>2, RawClst DEF ObjectLaid
  <2>8. CASE At(v, p).clst = F[f].clst /\ At(v, p).size <= F[f].size
    <3>1. Chained(v, F[f].clst) /\ Len(Chain(v, F[f].clst)) >= F[f].size
      BY <2>2, <2>5 DEF FileLaid
    <3>2. Len(Chain(v, F[f].clst)) \in Nat
      BY <3>1, ChainTyped
    <3>3. FileLaid(v, AllClosed, p)
      BY <2>2, <2>3, <2>5, <2>6, <2>8, <3>1, <3>2, RawClst DEF FileLaid
    <3> QED BY <1>3, <2>2, <2>8, <3>3, RawClst DEF ObjectLaid
  <2> QED BY <2>4, <2>7, <2>8
<1> QED BY <1>1, <1>2, <1>3

\* So the volume stays fine when the file objects are lost.
LEMMA RawFine ==
    ASSUME NEW v, NEW F, Fine(v, F, {})
    PROVE  Fine(v, AllClosed, {})
<1>1. Laid(v, F)
  BY DEF Fine
<1>2. \A p \in All(v) : ObjectLaid(v, AllClosed, p)
  BY RawObject
<1>3. ChainsApart(v, AllClosed)
  <2> SUFFICES ASSUME NEW p \in All(v), NEW q \in All(v), p # q
               PROVE  Own(v, Clst(v, AllClosed, p)) \cap Own(v, Clst(v, AllClosed, q)) = {}
    BY DEF ChainsApart
  <2>1. Own(v, Clst(v, F, p)) \cap Own(v, Clst(v, F, q)) = {}
    BY <1>1 DEF Laid, ChainsApart
  <2> QED BY <2>1, RawObject
<1>4. AllClosed \in [Fils -> FilRecs] /\ FilsFit(v, AllClosed, {})
  BY ClosedTyped DEF AllClosed, FilsFit, IdsApart
<1> QED BY <1>1, <1>2, <1>3, <1>4 DEF Fine, Laid

\* And it is sound.
LEMMA FineSound ==
    ASSUME NEW v, NEW sh, Fine(v, AllClosed, sh)
    PROVE  Sound(v)
<1>0. v \in Volumes /\ Laid(v, AllClosed) /\ IsTable(v, 0)
  BY DEF Fine, Laid
<1>1. Places(v) \subseteq All(v)
  <2> SUFFICES ASSUME NEW p \in Places(v)  PROVE p \in All(v)
    OBVIOUS
  <2>1. p \in Reach(v) \X (1 .. Slots) /\ p[2] \in Used(v, p[1])
    BY DEF Places
  <2>2. p[1] \in Reach(v) /\ p[2] \in 1 .. Slots /\ p = <<p[1], p[2]>>
    BY <2>1
  <2>3. p[1] \in Tables /\ IsTable(v, p[1])
    BY <1>0, <2>2, ReachTables
  <2>4. Entry(v, p[1], p[2]) # Unused
    BY <2>1 DEF Used
  <2> QED BY <2>2, <2>3, <2>4, SpotIs
<1> DEFINE places == Places(v)
           at == [p \in places |-> At(v, p)]
           chain == [p \in places |-> Chain(v, at[p].clst)]
<1>2. \A p \in places : at[p] = At(v, p) /\ chain[p] = Chain(v, At(v, p).clst)
  OBVIOUS
<1>3. ASSUME NEW p \in places
      PROVE  LET e == at[p]
             IN  /\ e.clst # 0 => e.clst \in Clusters /\ Stop(v, e.clst) = EOC
                 /\ ~e.dir => Len(chain[p]) >= e.size
                 /\ e.dir => IsTable(v, e.clst) /\ v.has[e.clst].up = p[1]
  <2>1. p \in All(v) /\ ObjectLaid(v, AllClosed, p)
    BY <1>0, <1>1 DEF Laid
  <2>2. Chained(v, At(v, p).clst)
    BY <1>0, <2>1, LaidOwn, RawClst
  <2>3. At(v, p).clst # 0 => At(v, p).clst \in Clusters /\ Stop(v, At(v, p).clst) = EOC
    BY <2>2, ChainTyped
  <2>4. ~ At(v, p).dir => Len(Chain(v, At(v, p).clst)) >= At(v, p).size
    BY <2>1, RawClst DEF ObjectLaid, FileLaid
  <2>5. At(v, p).dir => IsTable(v, At(v, p).clst) /\ v.has[At(v, p).clst].up = p[1]
    BY <2>1 DEF ObjectLaid, DirLaid
  <2> QED BY <1>2, <2>3, <2>4, <2>5
<1>4. ASSUME NEW p \in places, NEW q \in places, p # q
      PROVE  /\ Range(chain[p]) \cap Range(chain[q]) = {}
             /\ p[1] = q[1] => at[p].name # at[q].name
  <2>1. p \in All(v) /\ q \in All(v)
    BY <1>1
  <2>2. Own(v, At(v, p).clst) \cap Own(v, At(v, q).clst) = {}
    BY <1>0, <1>4, <2>1, RawClst DEF Laid, ChainsApart
  <2>3. p[1] = q[1] => At(v, p).name # At(v, q).name
    BY <1>0, <1>4, <2>1 DEF Laid, NamesApart
  <2> QED BY <1>2, <2>2, <2>3 DEF Own
<1> HIDE DEF places, at, chain
<1> QED BY <1>3, <1>4 DEF Sound, places, at, chain
-----------------------------------------------------------------------------
(* What does not matter *)

\* No file or directory has cluster c.
Unowned(v, F, c) == \A p \in All(v) : c \notin Own(v, Clst(v, F, p))

\* A free cluster has no owner.
LEMMA FreeUnowned ==
    ASSUME NEW v \in Volumes, NEW F, Laid(v, F), NEW c, v.fat[c] = 0
    PROVE  Unowned(v, F, c)
<1> SUFFICES ASSUME NEW p \in All(v)  PROVE c \notin Own(v, Clst(v, F, p))
  BY DEF Unowned
<1>1. Chained(v, Clst(v, F, p))
  BY LaidOwn
<1> QED BY <1>1, ChainUsed

\* w has the tables of v and its chains.
Alike(v, F, w) ==
    /\ w \in Volumes
    /\ \A t \in Tables : /\ IsTable(w, t) <=> IsTable(v, t)
                         /\ IsTable(v, t) => w.has[t] = v.has[t]
    /\ \A x \in Clusters : w.fat[x] = v.fat[x] \/ (Unowned(v, F, x) /\ ~ IsTable(v, x))

\* Then it is as fine.
LEMMA AlikeAll ==
    ASSUME NEW v \in Volumes, NEW F, NEW w, Alike(v, F, w), Laid(v, F)
    PROVE  /\ All(w) = All(v) /\ \A p \in All(v) : At(w, p) = At(v, p) /\ Frame(v, F, w, F, p)
<1>1. ASSUME NEW t \in Tables, NEW s \in 1 .. Slots, IsTable(v, t)
      PROVE  Entry(w, t, s) = Entry(v, t, s)
  BY <1>1 DEF Alike, Entry
<1>2. \A p \in Spots : IsTable(v, p[1]) => At(w, p) = At(v, p)
  BY <1>1, SpotParts DEF At
<1>3. All(w) = All(v)
  <2>1. \A p \in Spots : IsTable(w, p[1]) <=> IsTable(v, p[1])
    BY SpotParts DEF Alike
  <2> QED BY <1>2, <2>1 DEF All
<1>4. ASSUME NEW p \in All(v)  PROVE At(w, p) = At(v, p) /\ Frame(v, F, w, F, p)
  <2>1. At(w, p) = At(v, p)
    BY <1>2 DEF All
  <2>2. Clst(w, F, p) = Clst(v, F, p) /\ Size(w, F, p) = Size(v, F, p)
    BY <2>1, ClstSame
  <2>3. ASSUME NEW x \in Own(v, Clst(v, F, p))
        PROVE  /\ w.fat[x] = v.fat[x] /\ (IsTable(w, x) <=> IsTable(v, x))
               /\ At(v, p).dir => w.has[x].up = v.has[x].up
    <3>1. x \in Clusters /\ x \in Tables /\ ~ Unowned(v, F, x)
      BY LaidOwn, Constants DEF Unowned
    <3>2. w.fat[x] = v.fat[x] /\ (IsTable(w, x) <=> IsTable(v, x)) /\ (IsTable(v, x) => w.has[x] = v.has[x])
      BY <3>1 DEF Alike
    <3>3. At(v, p).dir => IsTable(v, x)
      <4>1. At(v, p).dir => x = At(v, p).clst
        BY LaidOwn
      <4> QED BY <4>1 DEF Laid, ObjectLaid, DirLaid
    <3> QED BY <3>2, <3>3
  <2> QED BY <2>1, <2>2, <2>3 DEF Frame
<1> QED BY <1>3, <1>4

\* What is alike is as fine, and its clusters have the same owners.
LEMMA AlikeFine ==
    ASSUME NEW v, NEW F, NEW sh, Fine(v, F, sh), NEW w, Alike(v, F, w)
    PROVE  /\ Fine(w, F, sh) /\ \A x : Unowned(v, F, x) => Unowned(w, F, x)
<1>0. v \in Volumes /\ Laid(v, F) /\ Rooted(v) /\ FilsFit(v, F, sh) /\ F \in [Fils -> FilRecs]
  BY DEF Fine
<1>1. All(w) = All(v) /\ \A p \in All(v) : At(w, p) = At(v, p) /\ Frame(v, F, w, F, p)
  BY <1>0, AlikeAll
<1>2. \A p \in All(v) : Own(w, Clst(w, F, p)) = Own(v, Clst(v, F, p)) /\ ObjectLaid(w, F, p)
  BY <1>0, <1>1, FrameLaid
<1>3. \A x : Unowned(v, F, x) => Unowned(w, F, x)
  BY <1>1, <1>2 DEF Unowned
<1>4. w \in Volumes /\ IsTable(w, 0) /\ IsTable(v, 0)
  BY <1>0, Constants DEF Alike, Laid
<1>5. NoFreeTable(w)
  BY <1>0, Constants DEF NoFreeTable, Alike, Laid
<1>6. Laid(w, F)
  BY <1>0, <1>1, <1>2, <1>4, <1>5 DEF Laid, ChainsApart, NamesApart
<1>7. Rooted(w)
  <2>1. \A t \in Tables, s \in 1 .. Slots : IsTable(w, t) => Entry(w, t, s) = Entry(v, t, s)
    BY DEF Alike, Entry
  <2>2. \A t \in Tables : IsTable(w, t) <=> IsTable(v, t)
    BY DEF Alike
  <2> QED BY <1>0, <1>4, <2>1, <2>2, RootedSame
<1>8. FilsFit(w, F, sh)
  <2>1. ASSUME NEW g \in Fils, F[g].open
        PROVE  FilFits(w, F[g], sh)
    <3>1. FilFits(v, F[g], sh) /\ Place(F[g]) \in All(v)
      BY <1>0, <2>1 DEF FilsFit, FilFits
    <3>2. Clst(v, F, Place(F[g])) = F[g].clst
      BY <1>0, <2>1, HolderIs
    <3>3. Own(w, F[g].clst) = Own(v, F[g].clst)
      <4>1. Clst(w, F, Place(F[g])) = F[g].clst
        BY <1>1, <3>1, <3>2 DEF Frame
      <4> QED BY <1>2, <3>1, <3>2, <4>1
    <3> QED BY <1>1, <3>1, <3>3 DEF FilFits
  <2> QED BY <1>0, <2>1 DEF FilsFit
<1> QED BY <1>0, <1>3, <1>4, <1>6, <1>7, <1>8 DEF Fine
-----------------------------------------------------------------------------
(* The medium d under the volume v that is read through a window with the     *)
(* sector w                                                                  *)

\* Outside the dirty sector they are the same, and the same clusters hold tables.
Agree(v, d, w) ==
    /\ \A c \in Clusters : d.fat[c] = v.fat[c] \/ w = FatSector(c)
    /\ \A t \in Tables : /\ d.has[t] = v.has[t] \/ w = TableSector(t)
                         /\ IsTable(d, t) <=> IsTable(v, t)

WinAfter(w, ch) == IF ch.do = "put" THEN w
                   ELSE IF ch.do = "move" /\ w # ch.at THEN NoSector ELSE ch.at
Forgot(e, ch) == [e EXCEPT !.has[ch.c] = Kept(@, ch)]
DiskAfter(v, d, w, ch) ==
    IF ch.do = "put" THEN Changed(d, ch)
    ELSE LET e == IF w = ch.at THEN d ELSE v
         IN  IF ch.do = "fat" THEN Forgot(e, ch) ELSE e

\* A change that a call may make: a cluster that holds a table is freed, and a table
\* put into one, when what led or leads to it is not in the window.
LegalFat(v, w, ch) ==
    \E c \in Clusters, val \in Nat : /\ ch = SetFat(c, val)
                                     /\ val = 0 /\ IsTable(v, c) => w # FatSector(c)
LegalEntry(v, ch) ==
    \E t \in Tables, s \in 1 .. Slots, e \in Entries : ch = SetEntry(t, s, e) /\ IsTable(v, t)
LegalUp(v, ch) == \E t, up \in Tables : ch = SetUp(t, up) /\ IsTable(v, t)
LegalPut(v, w, ch) ==
    \E c \in Clusters, val \in Holds :
       /\ ch = Put(c, val)
       /\ (val \in DataHolds /\ ~ IsTable(v, c)) \/ w = NoSector
LegalMove(ch) == \E sector : ch = Move(sector)
Legal(v, w, ch) ==
    LegalFat(v, w, ch) \/ LegalEntry(v, ch) \/ LegalUp(v, ch) \/ LegalPut(v, w, ch) \/ LegalMove(ch)

\* The sectors are different.
LEMMA Sectors ==
    /\ \A c, t : FatSector(c) # TableSector(t)
    /\ \A c : FatSector(c) # NoSector
    /\ \A t : TableSector(t) # NoSector
    /\ \A t, u : TableSector(t) = TableSector(u) => t = u
  BY DEF FatSector, TableSector, NoSector

\* When the window is written back the medium is the volume.
LEMMA AgreeFlushed ==
    ASSUME now \in Volumes, disk \in Volumes, Agree(now, disk, win)
    PROVE  Flushed = now
<1>1. /\ now.fat \in [Clusters -> Nat] /\ now.has \in [Tables -> Holds]
      /\ now = [fat |-> now.fat, has |-> now.has]
  BY DEF Volumes
<1>2. \A c \in Clusters : (IF win = FatSector(c) THEN now.fat[c] ELSE disk.fat[c]) = now.fat[c]
  BY DEF Agree
<1>3. \A t \in Tables : (IF win = TableSector(t) THEN now.has[t] ELSE disk.has[t]) = now.has[t]
  BY DEF Agree
<1>4. [c \in Clusters |-> IF win = FatSector(c) THEN now.fat[c] ELSE disk.fat[c]] = now.fat
  BY <1>1, <1>2
<1>5. [t \in Tables |-> IF win = TableSector(t) THEN now.has[t] ELSE disk.has[t]] = now.has
  BY <1>1, <1>3
<1> QED BY <1>1, <1>4, <1>5 DEF Flushed

\* With nothing in the window it is, too.
LEMMA AgreeClean ==
    ASSUME NEW v \in Volumes, NEW d \in Volumes, Agree(v, d, NoSector)
    PROVE  d = v
<1>1. \A c \in Clusters : d.fat[c] = v.fat[c]
  BY Sectors DEF Agree
<1>2. \A t \in Tables : d.has[t] = v.has[t]
  BY Sectors DEF Agree
<1>3. /\ v.fat \in [Clusters -> Nat] /\ v.has \in [Tables -> Holds] /\ v = [fat |-> v.fat, has |-> v.has]
      /\ d.fat \in [Clusters -> Nat] /\ d.has \in [Tables -> Holds] /\ d = [fat |-> d.fat, has |-> d.has]
  BY DEF Volumes
<1>4. d.fat = v.fat /\ d.has = v.has
  BY <1>1, <1>2, <1>3
<1> QED BY <1>3, <1>4

\* A volume agrees with itself.
LEMMA AgreeSelf ==
    ASSUME NEW v, NEW w
    PROVE  Agree(v, v, w)
  BY DEF Agree

\* Equal volumes are alike.
LEMMA AlikeSame ==
    ASSUME NEW v, NEW F, NEW w \in Volumes, \A c \in Clusters : w.fat[c] = v.fat[c],
           \A t \in Tables : w.has[t] = v.has[t]
    PROVE  Alike(v, F, w)
  BY DEF Alike, IsTable

\* What the change of one sector does: agreement stays, and the medium is as fine as before
\* or as the volume.
StepSafe(v, d, w, ch) ==
    LET v1 == Changed(v, ch)
        d1 == DiskAfter(v, d, w, ch)
    IN  /\ v1 \in Volumes /\ d1 \in Volumes /\ Agree(v1, d1, WinAfter(w, ch))
        /\ \A F : Fine(v, F, {}) /\ Fine(v1, F, {}) /\ Fine(d, AllClosed, {}) => Fine(d1, AllClosed, {})

\* The medium when a FAT entry changes.
LEMMA FatForgets ==
    ASSUME NEW e \in Volumes, NEW c \in Clusters, NEW val \in Nat,
           NEW d1, d1 = Forgot(e, SetFat(c, val))
    PROVE  /\ d1 \in Volumes /\ d1.fat = e.fat /\ \A t \in Tables : t # c \/ val # 0 => d1.has[t] = e.has[t]
           /\ val = 0 => d1.has[c] = Nothing /\ ~ IsTable(d1, c)
<1> DEFINE ch == SetFat(c, val)
<1>1. ch.do = "fat" /\ ch.val = val /\ ch.c = c
  BY DEF SetFat
<1>2. d1 = [e EXCEPT !.has[c] = Kept(@, ch)]
  BY <1>1 DEF Forgot
<1> HIDE DEF ch
<1>3. Kept(e.has[c], ch) = IF val = 0 THEN Nothing ELSE e.has[c]
  BY <1>1 DEF Kept
<1>4. e.fat \in [Clusters -> Nat] /\ e.has \in [Tables -> Holds] /\ c \in Tables
  BY Constants DEF Volumes
<1>5. /\ d1.fat = e.fat /\ d1 = [fat |-> d1.fat, has |-> d1.has]
      /\ d1.has = [e.has EXCEPT ![c] = IF val = 0 THEN Nothing ELSE e.has[c]]
  BY <1>2, <1>3, <1>4 DEF Volumes
<1>6. Nothing \in Holds /\ Nothing.kind # "table"
  BY DEF Holds, Nothing
<1>7. d1.has \in [Tables -> Holds]
  BY <1>4, <1>5, <1>6
<1>8. d1 \in Volumes
  BY <1>4, <1>5, <1>7 DEF Volumes
<1> QED BY <1>4, <1>5, <1>6, <1>8 DEF IsTable

\* Changing a FAT entry is safe, ...
LEMMA StepFat ==
    ASSUME NEW v \in Volumes, NEW d \in Volumes, NEW w, Agree(v, d, w), NEW ch, LegalFat(v, w, ch)
    PROVE  StepSafe(v, d, w, ch)
<1>1. PICK c \in Clusters, val \in Nat : ch = SetFat(c, val) /\ (val = 0 /\ IsTable(v, c) => w # FatSector(c))
  BY DEF LegalFat
<1>2. ch.do = "fat" /\ ch.c = c /\ ch.val = val /\ ch.at = FatSector(c)
  BY <1>1 DEF SetFat
<1> DEFINE v1 == Changed(v, ch)
           e == IF w = FatSector(c) THEN d ELSE v
           d1 == Forgot(e, ch)
<1>3. DiskAfter(v, d, w, ch) = d1 /\ WinAfter(w, ch) = FatSector(c)
  BY <1>1, <1>2 DEF DiskAfter, WinAfter
<1>4. /\ v1 \in Volumes /\ v1.fat[c] = val
      /\ \A x \in Clusters : x # c => v1.fat[x] = v.fat[x]
      /\ \A t \in Tables : t # c \/ val # 0 => v1.has[t] = v.has[t]
      /\ val = 0 => ~ IsTable(v1, c)
  BY <1>1, FatChanged
<1>5. /\ d1 \in Volumes /\ d1.fat = e.fat /\ \A t \in Tables : t # c \/ val # 0 => d1.has[t] = e.has[t]
      /\ val = 0 => d1.has[c] = Nothing /\ ~ IsTable(d1, c)
  <2> HIDE DEF e
  <2>1. e \in Volumes
    BY DEF e
  <2> QED BY <1>1, <2>1, FatForgets
<1>6. val = 0 => v1.has[c] = Nothing
  <2>1. ASSUME val = 0  PROVE v1.has[c] = Kept(v.has[c], ch)
    <3>1. v1 = [v EXCEPT !.fat[c] = val, !.has[c] = Kept(@, ch)]
      BY <1>2 DEF Changed
    <3>2. v.fat \in [Clusters -> Nat] /\ v.has \in [Tables -> Holds] /\ c \in Tables
      BY Constants DEF Volumes
    <3> HIDE DEF v1
    <3> QED BY <3>1, <3>2 DEF Volumes
  <2> QED BY <2>1, <1>2 DEF Kept
<1> HIDE DEF v1, d1
<1>7. \A t \in Tables : d1.has[t] = v1.has[t]
  <2>1. \A t \in Tables : e.has[t] = v.has[t]
    BY Sectors DEF Agree
  <2> HIDE DEF e
  <2> QED BY <1>4, <1>5, <1>6, <2>1
<1>8. \A x \in Clusters : d1.fat[x] = v1.fat[x] \/ FatSector(c) = FatSector(x)
  BY <1>4, <1>5 DEF Agree
<1>9. Agree(v1, d1, FatSector(c))
  BY <1>7, <1>8 DEF Agree, IsTable
<1>10. ASSUME NEW F, Fine(v, F, {}), Fine(v1, F, {}), Fine(d, AllClosed, {})
       PROVE  Fine(d1, AllClosed, {})
  <2>1. CASE w # FatSector(c) /\ val # 0
    <3>1. Alike(v, F, d1)
      BY <1>5, <2>1, AlikeSame
    <3> QED BY <1>10, <3>1, AlikeFine, RawFine
  <2>2. CASE w # FatSector(c) /\ val = 0
    <3>1. Unowned(v1, F, c)
      BY <1>4, <1>10, <2>2, FreeUnowned DEF Fine
    <3>2. \A x \in Clusters : d1.fat[x] = v1.fat[x] \/ (Unowned(v1, F, x) /\ ~ IsTable(v1, x))
      BY <1>4, <1>5, <2>2, <3>1
    <3>3. Alike(v1, F, d1)
      BY <1>5, <1>7, <3>2 DEF Alike, IsTable
    <3> QED BY <1>10, <3>3, AlikeFine, RawFine
  <2>3. CASE w = FatSector(c) /\ val # 0
    <3>1. Alike(d, AllClosed, d1)
      BY <1>5, <2>3, AlikeSame
    <3> QED BY <1>10, <3>1, AlikeFine
  <2>4. CASE w = FatSector(c) /\ val = 0
    <3>1. ~ IsTable(d, c)
      BY <1>1, <2>4, Constants DEF Agree
    <3>2. Alike(d, AllClosed, d1)
      BY <1>5, <2>4, <3>1 DEF Alike, IsTable
    <3> QED BY <1>10, <3>2, AlikeFine
  <2> QED BY <2>1, <2>2, <2>3, <2>4
<1> QED BY <1>3, <1>4, <1>5, <1>9, <1>10 DEF StepSafe, v1

\* ... changing an entry or "..", ...
LEMMA StepEntry ==
    ASSUME NEW v \in Volumes, NEW d \in Volumes, NEW w, Agree(v, d, w), NEW ch,
           LegalEntry(v, ch) \/ LegalUp(v, ch)
    PROVE  StepSafe(v, d, w, ch)
<1> DEFINE v1 == Changed(v, ch)
<1>1. PICK t \in Tables : /\ ch.do \in {"entry", "up"} /\ ch.at = TableSector(t)
                          /\ v1 \in Volumes /\ v1.fat = v.fat
                          /\ \A x \in Tables : /\ IsTable(v1, x) <=> IsTable(v, x)
                                               /\ x # t => v1.has[x] = v.has[x]
  <2>1. CASE LegalEntry(v, ch)
    <3>1. PICK t \in Tables, s \in 1 .. Slots, e \in Entries : ch = SetEntry(t, s, e) /\ IsTable(v, t)
      BY <2>1 DEF LegalEntry
    <3>2. ch.do = "entry" /\ ch.at = TableSector(t)
      BY <3>1 DEF SetEntry
    <3> QED BY <3>1, <3>2, EntryChanged
  <2>2. CASE LegalUp(v, ch)
    <3>1. PICK t \in Tables, up \in Tables : ch = SetUp(t, up) /\ IsTable(v, t)
      BY <2>2 DEF LegalUp
    <3>2. ch.do = "up" /\ ch.at = TableSector(t)
      BY <3>1 DEF SetUp
    <3> QED BY <3>1, <3>2, UpChanged
  <2> QED BY <2>1, <2>2
<1> DEFINE d1 == IF w = TableSector(t) THEN d ELSE v
<1>2. DiskAfter(v, d, w, ch) = d1 /\ WinAfter(w, ch) = TableSector(t)
  BY <1>1 DEF DiskAfter, WinAfter
<1> HIDE DEF v1
<1>3. \A c \in Clusters : d1.fat[c] = v1.fat[c]
  BY <1>1, Sectors DEF Agree
<1>4. \A x \in Tables : d1.has[x] = v1.has[x] \/ TableSector(t) = TableSector(x)
  BY <1>1, Sectors DEF Agree
<1>5. \A x \in Tables : IsTable(d1, x) <=> IsTable(v1, x)
  BY <1>1 DEF Agree
<1>6. Agree(v1, d1, TableSector(t))
  BY <1>3, <1>4, <1>5 DEF Agree
<1>7. ASSUME NEW F, Fine(v, F, {}), Fine(d, AllClosed, {})  PROVE Fine(d1, AllClosed, {})
  BY <1>7, RawFine
<1> QED BY <1>1, <1>2, <1>6, <1>7 DEF StepSafe, v1

\* ... writing past the window, ...
LEMMA StepPut ==
    ASSUME NEW v \in Volumes, NEW d \in Volumes, NEW w, Agree(v, d, w), NEW ch, LegalPut(v, w, ch)
    PROVE  StepSafe(v, d, w, ch)
<1>1. PICK c \in Clusters, val \in Holds : /\ ch = Put(c, val)
                                           /\ (val \in DataHolds /\ ~ IsTable(v, c)) \/ w = NoSector
  BY DEF LegalPut
<1>2. ch.do = "put"
  BY <1>1 DEF Put
<1> DEFINE v1 == Changed(v, ch)
           d1 == Changed(d, ch)
<1>3. DiskAfter(v, d, w, ch) = d1 /\ WinAfter(w, ch) = w
  BY <1>2 DEF DiskAfter, WinAfter
<1>4. v1 \in Volumes /\ v1.fat = v.fat /\ v1.has[c] = val /\ \A t \in Tables : t # c => v1.has[t] = v.has[t]
  BY <1>1, PutChanged
<1>5. d1 \in Volumes /\ d1.fat = d.fat /\ d1.has[c] = val /\ \A t \in Tables : t # c => d1.has[t] = d.has[t]
  BY <1>1, PutChanged
<1> HIDE DEF v1, d1
<1>6. Agree(v1, d1, w)
  BY <1>4, <1>5 DEF Agree, IsTable
<1>7. ASSUME NEW F, Fine(v1, F, {}), Fine(d, AllClosed, {})  PROVE Fine(d1, AllClosed, {})
  <2>1. CASE val \in DataHolds /\ ~ IsTable(v, c)
    <3>1. ~ IsTable(d, c) /\ ~ IsTable(d1, c)
      <4>1. c \in Tables /\ val.kind # "table"
        BY <2>1, Constants DEF DataHolds
      <4> QED BY <1>5, <2>1, <4>1 DEF Agree, IsTable
    <3>2. Alike(d, AllClosed, d1)
      BY <1>5, <3>1 DEF Alike, IsTable
    <3> QED BY <1>7, <3>2, AlikeFine
  <2>2. CASE w = NoSector
    <3>1. d1 = v1
      BY <1>4, <1>5, <1>6, <2>2, AgreeClean
    <3> QED BY <1>7, <3>1, RawFine
  <2> QED BY <1>1, <2>1, <2>2
<1> QED BY <1>3, <1>4, <1>5, <1>6, <1>7 DEF StepSafe, v1

\* ... and reading another sector.
LEMMA StepMove ==
    ASSUME NEW v \in Volumes, NEW d \in Volumes, NEW w, Agree(v, d, w), NEW ch, LegalMove(ch)
    PROVE  StepSafe(v, d, w, ch)
<1>1. PICK sector : ch = Move(sector)
  BY DEF LegalMove
<1>2. ch.do = "move" /\ ch.at = sector /\ Changed(v, ch) = v
  BY <1>1, MoveChanged DEF Move
<1>3. /\ DiskAfter(v, d, w, ch) = IF w = sector THEN d ELSE v
      /\ WinAfter(w, ch) = IF w # sector THEN NoSector ELSE sector
  BY <1>2 DEF DiskAfter, WinAfter
<1>4. Agree(v, v, NoSector)
  BY AgreeSelf
<1> QED BY <1>2, <1>3, <1>4, RawFine DEF StepSafe

\* So is every legal change.
LEMMA StepIsSafe ==
    ASSUME NEW v \in Volumes, NEW d \in Volumes, NEW w, Agree(v, d, w), NEW ch, Legal(v, w, ch)
    PROVE  StepSafe(v, d, w, ch)
  BY StepFat, StepEntry, StepPut, StepMove DEF Legal
-----------------------------------------------------------------------------
(* Calls *)

Ops == {"open", "write", "truncate", "sync", "unlink", "mkdir", "rename"}

\* A call: the file objects as it goes and when it returns, and the files that are cut.
JobOf(op, f, leaves, F, sh) ==
    [op |-> op,
     cur |-> IF op = "truncate" THEN [F EXCEPT ![f] = leaves] ELSE F,
     then |-> IF f \in Fils THEN [F EXCEPT ![f] = leaves] ELSE F,
     sh |-> sh,
     sg |-> IF op = "sync" THEN sh \ {F[f].id} ELSE sh]

\* The changes that matter to no file and no directory.
Spare(v, F) == {c \in Clusters : Unowned(v, F, c) /\ ~ IsTable(v, c)}
Quiets(v, F) ==
    {SetFat(c, 0) : c \in Spare(v, F)}
    \cup {Put(c, val) : c \in {x \in Clusters : ~ IsTable(v, x)}, val \in DataHolds}
    \cup {Move(sector) : sector \in {TableSector(t) : t \in Tables} \cup {NoSector}}

\* What is left of a call changes nothing that matters and ends as it must.
Safe0(j, v, w, todo) ==
    /\ todo \in Seq(Quiets(v, j.cur) \cap Quiets(v, j.then))
    /\ Fine(v, j.cur, j.sh) /\ Fine(v, j.then, j.sg)
    /\ j.op \in {"rename", "sync"} => (todo = <<>> /\ w = NoSector) \/ todo = <<Sync>>

\* The next change is legal and leaves a fine volume, but in f_rename.
Goes(j, v, w, ch) == Legal(v, w, ch) /\ (j.op # "rename" => Fine(Changed(v, ch), j.cur, j.sh))

\* After k changes more there is nothing that matters.
Safe1(j, v, w, todo) ==
    /\ todo # <<>> /\ Goes(j, v, w, Head(todo))
    /\ Safe0(j, Changed(v, Head(todo)), WinAfter(w, Head(todo)), Tail(todo))
Safe2(j, v, w, todo) ==
    /\ todo # <<>> /\ Goes(j, v, w, Head(todo))
    /\ Safe1(j, Changed(v, Head(todo)), WinAfter(w, Head(todo)), Tail(todo))
Safe3(j, v, w, todo) ==
    /\ todo # <<>> /\ Goes(j, v, w, Head(todo))
    /\ Safe2(j, Changed(v, Head(todo)), WinAfter(w, Head(todo)), Tail(todo))
Safe4(j, v, w, todo) ==
    /\ todo # <<>> /\ Goes(j, v, w, Head(todo))
    /\ Safe3(j, Changed(v, Head(todo)), WinAfter(w, Head(todo)), Tail(todo))
Safe(j, v, w, todo) ==
    \/ Safe0(j, v, w, todo) \/ Safe1(j, v, w, todo) \/ Safe2(j, v, w, todo)
    \/ Safe3(j, v, w, todo) \/ Safe4(j, v, w, todo)

\* The inductive invariant.
Job == JobOf(call.op, call.f, call.leaves, fil, shrunk)
IdleFine == call = Idle /\ Fine(now, fil, shrunk)
BusyFine ==
    /\ call.op \in Ops /\ call.todo # <<>> /\ Safe(Job, now, win, call.todo)
    /\ call.op # "rename" => Fine(now, Job.cur, shrunk)
DiskFine == call.op # "rename" /\ shrunk = {} => Fine(disk, AllClosed, {})
Inv ==
    ~ hurt => /\ now \in Volumes /\ disk \in Volumes /\ Agree(now, disk, win)
              /\ fil \in [Fils -> FilRecs]
              /\ IdleFine \/ BusyFine
              /\ DiskFine

\* The fields of a call.
LEMMA JobIs ==
    ASSUME NEW op, NEW f, NEW leaves, NEW F, NEW sh, NEW j, j = JobOf(op, f, leaves, F, sh)
    PROVE  /\ j.op = op /\ j.sh = sh
           /\ j.cur = IF op = "truncate" THEN [F EXCEPT ![f] = leaves] ELSE F
           /\ j.then = IF f \in Fils THEN [F EXCEPT ![f] = leaves] ELSE F
           /\ j.sg = IF op = "sync" THEN sh \ {F[f].id} ELSE sh
  BY DEF JobOf

\* A quiet change is legal and gives a volume alike.
LEMMA QuietAlike ==
    ASSUME NEW v \in Volumes, NEW F, NEW ch \in Quiets(v, F), NEW w
    PROVE  Alike(v, F, Changed(v, ch)) /\ Legal(v, w, ch)
<1>1. CASE \E c \in Spare(v, F) : ch = SetFat(c, 0)
  <2>1. PICK c \in Clusters : Unowned(v, F, c) /\ ~ IsTable(v, c) /\ ch = SetFat(c, 0)
    BY <1>1 DEF Spare
  <2>2. 0 \in Nat
    OBVIOUS
  <2> DEFINE u == Changed(v, ch)
  <2>3. /\ u \in Volumes /\ \A x \in Clusters : x # c => u.fat[x] = v.fat[x]
        /\ \A t \in Tables : t # c => u.has[t] = v.has[t]
        /\ ~ IsTable(u, c)
    BY <2>1, <2>2, FatChanged
  <2> HIDE DEF u
  <2>4. Alike(v, F, u)
    BY <2>1, <2>3 DEF Alike, IsTable
  <2>5. LegalFat(v, w, ch)
    BY <2>1, <2>2 DEF LegalFat
  <2> QED BY <2>4, <2>5 DEF u, Legal
<1>2. CASE \E c \in {x \in Clusters : ~ IsTable(v, x)}, val \in DataHolds : ch = Put(c, val)
  <2>1. PICK c \in Clusters, val \in DataHolds : ~ IsTable(v, c) /\ ch = Put(c, val)
    BY <1>2
  <2>2. val \in Holds /\ val.kind # "table"
    BY DEF Holds, DataHolds
  <2> DEFINE u == Changed(v, ch)
  <2>3. /\ u \in Volumes /\ u.fat = v.fat /\ u.has[c] = val
        /\ \A t \in Tables : t # c => u.has[t] = v.has[t]
    BY <2>1, <2>2, PutChanged
  <2> HIDE DEF u
  <2>4. Alike(v, F, u)
    BY <2>1, <2>2, <2>3 DEF Alike, IsTable
  <2>5. LegalPut(v, w, ch)
    BY <2>1, <2>2 DEF LegalPut
  <2> QED BY <2>4, <2>5 DEF u, Legal
<1>3. CASE \E sector : ch = Move(sector)
  <2>1. Changed(v, ch) = v
    BY <1>3, MoveChanged
  <2>2. Alike(v, F, v)
    BY AlikeSame
  <2> QED BY <1>3, <2>1, <2>2 DEF Legal, LegalMove
<1> QED BY <1>1, <1>2, <1>3 DEF Quiets

\* The quiet changes stay quiet.
LEMMA QuietsStay ==
    ASSUME NEW v, NEW F, NEW sh, Fine(v, F, sh), NEW w, Alike(v, F, w)
    PROVE  Quiets(v, F) \subseteq Quiets(w, F)
<1>1. \A c \in Clusters : ~ IsTable(v, c) => ~ IsTable(w, c)
  BY Constants DEF Alike
<1>2. Spare(v, F) \subseteq Spare(w, F)
  BY <1>1, AlikeFine DEF Spare
<1>3. {x \in Clusters : ~ IsTable(v, x)} \subseteq {x \in Clusters : ~ IsTable(w, x)}
  BY <1>1
<1> QED BY <1>2, <1>3 DEF Quiets

\* After one of a sequence.
LEMMA HeadTail ==
    ASSUME NEW S, NEW s \in Seq(S), s # <<>>
    PROVE  Head(s) \in S /\ Tail(s) \in Seq(S)
  OBVIOUS

\* Taking the changes one by one.
LEMMA SafeStep0 ==
    ASSUME NEW j, NEW v \in Volumes, NEW w, NEW todo, todo # <<>>, Safe0(j, v, w, todo)
    PROVE  /\ Goes(j, v, w, Head(todo))
           /\ Safe0(j, Changed(v, Head(todo)), WinAfter(w, Head(todo)), Tail(todo))
<1> DEFINE ch == Head(todo)
           v1 == Changed(v, ch)
<1>1. ch \in Quiets(v, j.cur) /\ ch \in Quiets(v, j.then)
      /\ Tail(todo) \in Seq(Quiets(v, j.cur) \cap Quiets(v, j.then))
  BY HeadTail DEF Safe0
<1>2. Alike(v, j.cur, v1) /\ Alike(v, j.then, v1) /\ Legal(v, w, ch)
  BY <1>1, QuietAlike
<1>3. Fine(v1, j.cur, j.sh) /\ Fine(v1, j.then, j.sg)
  BY <1>2, AlikeFine DEF Safe0
<1>4. Quiets(v, j.cur) \cap Quiets(v, j.then) \subseteq Quiets(v1, j.cur) \cap Quiets(v1, j.then)
  BY <1>2, QuietsStay DEF Safe0
<1>5. Tail(todo) \in Seq(Quiets(v1, j.cur) \cap Quiets(v1, j.then))
  <2> DEFINE A == Quiets(v, j.cur) \cap Quiets(v, j.then)
             B == Quiets(v1, j.cur) \cap Quiets(v1, j.then)
  <2>1. A \subseteq B /\ Tail(todo) \in Seq(A)
    BY <1>1, <1>4
  <2> HIDE DEF A, B
  <2>2. Tail(todo) \in Seq(B)
    BY <2>1
  <2> QED BY <2>2 DEF B
<1>6. j.op \in {"rename", "sync"} =>
        \/ Tail(todo) = <<>> /\ WinAfter(w, ch) = NoSector
        \/ Tail(todo) = <<Sync>>
  <2>1. ASSUME todo = <<Sync>>  PROVE Tail(todo) = <<>> /\ WinAfter(w, ch) = NoSector
    <3>1. ch = Sync /\ Tail(todo) = <<>>
      BY <2>1
    <3> QED BY <3>1 DEF WinAfter, Sync
  <2> QED BY <2>1 DEF Safe0
<1> QED BY <1>2, <1>3, <1>5, <1>6 DEF Safe0, Goes

\* A call goes on as it must.
LEMMA SafeStep ==
    ASSUME NEW j, NEW v \in Volumes, NEW w, NEW todo, todo # <<>>, Safe(j, v, w, todo)
    PROVE  /\ Goes(j, v, w, Head(todo))
           /\ Safe(j, Changed(v, Head(todo)), WinAfter(w, Head(todo)), Tail(todo))
<1>1. CASE Safe0(j, v, w, todo)
  BY <1>1, SafeStep0 DEF Safe
<1>2. CASE Safe1(j, v, w, todo)
  BY <1>2 DEF Safe, Safe1
<1>3. CASE Safe2(j, v, w, todo)
  BY <1>3 DEF Safe, Safe2
<1>4. CASE Safe3(j, v, w, todo)
  BY <1>4 DEF Safe, Safe3
<1>5. CASE Safe4(j, v, w, todo)
  BY <1>5 DEF Safe, Safe4
<1> QED BY <1>1, <1>2, <1>3, <1>4, <1>5 DEF Safe

\* When all is done.
LEMMA SafeDone ==
    ASSUME NEW j, NEW v, NEW w, Safe(j, v, w, <<>>)
    PROVE  /\ Fine(v, j.then, j.sg)
           /\ j.op \in {"rename", "sync"} => w = NoSector
<1>1. Safe0(j, v, w, <<>>)
  BY DEF Safe, Safe1, Safe2, Safe3, Safe4
<1>2. <<>> # <<Sync>>
  OBVIOUS
<1> QED BY <1>1, <1>2 DEF Safe0
-----------------------------------------------------------------------------
(* Every step but the start of a call *)

\* The new volume is fine.
LEMMA InitInv == Init => Inv
<1> SUFFICES ASSUME Init  PROVE Inv
  OBVIOUS
<1>1. /\ now = [fat |-> [c \in Clusters |-> 0],
                has |-> [t \in Tables |-> IF t = 0 THEN Table(0) ELSE Nothing]]
      /\ disk = now /\ fil = AllClosed /\ call = Idle /\ shrunk = {}
  BY DEF Init, AllClosed
<1>2. Table(0) \in Holds /\ Table(0).kind = "table" /\ \A s \in 1 .. Slots : Table(0).ent[s] = Unused
  <2>1. [s \in 1 .. Slots |-> Unused] \in [1 .. Slots -> Entries]
    BY DEF Entries
  <2> QED BY <2>1, Constants DEF Table, Holds, TableHolds
<1>3. Nothing \in Holds /\ Nothing.kind # "table"
  BY DEF Nothing, Holds
<1>4. [t \in Tables |-> IF t = 0 THEN Table(0) ELSE Nothing] \in [Tables -> Holds]
  BY <1>2, <1>3
<1>5. now \in Volumes
  BY <1>1, <1>4 DEF Volumes
<1>6. \A t \in Tables : now.has[t] = IF t = 0 THEN Table(0) ELSE Nothing
  BY <1>1
<1>7. \A t \in Tables : IsTable(now, t) <=> t = 0
  BY <1>2, <1>3, <1>6 DEF IsTable
<1>8. \A s \in 1 .. Slots : Entry(now, 0, s) = Unused
  BY <1>2, <1>6, Constants DEF Entry
<1>9. All(now) = {}
  <2> SUFFICES ASSUME NEW p \in All(now)  PROVE FALSE
    OBVIOUS
  <2>1. p[1] = 0 /\ p[2] \in 1 .. Slots /\ At(now, p) # Unused
    BY <1>5, <1>7, AllTyped
  <2> QED BY <1>8, <2>1 DEF At
<1>10. Laid(now, AllClosed)
  <2>1. \A c \in Clusters : c \in Tables /\ c # 0
    BY Constants
  <2> QED BY <1>7, <1>9, <2>1, Constants DEF Laid, ChainsApart, NamesApart, NoFreeTable
<1>11. Rooted(now)
  <2>1. Used(now, 0) = {}
    BY <1>8 DEF Used
  <2> QED BY <1>7, <2>1 DEF Rooted
<1>12. AllClosed \in [Fils -> FilRecs] /\ FilsFit(now, AllClosed, {})
  BY ClosedTyped DEF AllClosed, FilsFit, IdsApart
<1>13. Fine(now, AllClosed, {})
  BY <1>5, <1>10, <1>11, <1>12 DEF Fine
<1> QED BY <1>1, <1>5, <1>12, <1>13, AgreeSelf DEF Inv, IdleFine, DiskFine

\* A change of a call.
LEMMA StepInv == Inv /\ Step => Inv'
<1> SUFFICES ASSUME Inv, Step, ~ hurt'  PROVE Inv'
  BY DEF Inv
<1> DEFINE ch == Head(call.todo)
<1>1. call.op # "idle" /\ (ThroughWindow(ch) \/ Direct(ch))
  BY DEF Step
<1>2. Do(ch)
  BY <1>1 DEF ThroughWindow, Direct
<1>3. ~ hurt
  BY <1>2 DEF Do
<1>4. /\ now \in Volumes /\ disk \in Volumes /\ Agree(now, disk, win)
      /\ fil \in [Fils -> FilRecs] /\ BusyFine /\ DiskFine
  BY <1>1, <1>3 DEF Inv, IdleFine, Idle
<1> DEFINE todo == call.todo
           rest == Tail(call.todo)
<1>5. /\ Goes(Job, now, win, ch)
      /\ Safe(Job, Changed(now, ch), WinAfter(win, ch), rest)
  BY <1>4, SafeStep DEF BusyFine
<1>6. Legal(now, win, ch) /\ StepSafe(now, disk, win, ch)
  BY <1>4, <1>5, StepIsSafe DEF Goes
<1>7. Job.op = call.op /\ Job.sh = shrunk
  BY DEF Job, JobOf
<1>8. now' = Changed(now, ch) /\ disk' = DiskAfter(now, disk, win, ch) /\ win' = WinAfter(win, ch)
  <2>1. CASE ThroughWindow(ch)
    <3>1. Flushed = now
      BY <1>4, AgreeFlushed
    <3> QED BY <2>1, <3>1 DEF ThroughWindow, DiskAfter, WinAfter, Forgot
  <2>2. CASE Direct(ch)
    BY <2>2 DEF Direct, DiskAfter, WinAfter
  <2> QED BY <1>1, <2>1, <2>2
<1> HIDE DEF ch, rest
<1>9. /\ now' \in Volumes /\ disk' \in Volumes /\ Agree(now', disk', win')
      /\ \A F : Fine(now, F, {}) /\ Fine(now', F, {}) /\ Fine(disk, AllClosed, {}) => Fine(disk', AllClosed, {})
  BY <1>6, <1>8 DEF StepSafe
<1>10. call.op # "rename" => Fine(now, Job.cur, shrunk) /\ Fine(now', Job.cur, shrunk)
  BY <1>4, <1>5, <1>7, <1>8 DEF Goes, BusyFine
<1>11. call.op # "rename" /\ shrunk = {} => Fine(disk', AllClosed, {})
  BY <1>4, <1>9, <1>10 DEF DiskFine
<1>12. Rest(call.op, call.f, call.leaves, rest)
  BY <1>2 DEF Do, rest, ch
<1>13. IF call.op = "sync" /\ rest = <<>> THEN shrunk' = shrunk \ {fil[call.f].id} ELSE shrunk' = shrunk
  BY <1>2 DEF Do, rest
<1>14. CASE rest # <<>>
  <2>1. /\ call' = [op |-> call.op, f |-> call.f, leaves |-> call.leaves, todo |-> rest]
        /\ fil' = fil /\ shrunk' = shrunk
    BY <1>12, <1>13, <1>14 DEF Rest
  <2>2. call'.op = call.op /\ call'.f = call.f /\ call'.leaves = call.leaves /\ call'.todo = rest
    BY <2>1
  <2>3. Job' = Job
    BY <2>1, <2>2 DEF Job
  <2>4. Safe(Job', now', win', call'.todo)
    BY <1>5, <1>8, <2>2, <2>3
  <2>5. BusyFine'
    BY <1>4, <1>10, <1>14, <2>1, <2>2, <2>3, <2>4 DEF BusyFine
  <2>6. DiskFine'
    BY <1>11, <2>1, <2>2 DEF DiskFine
  <2> QED BY <1>4, <1>9, <2>1, <2>5, <2>6 DEF Inv
<1>15. CASE rest = <<>>
  <2>1. /\ call' = Idle /\ fil' = IF call.f \in Fils THEN [fil EXCEPT ![call.f] = call.leaves] ELSE fil
        /\ shrunk' = IF call.op = "sync" THEN shrunk \ {fil[call.f].id} ELSE shrunk
    BY <1>12, <1>13, <1>15 DEF Rest
  <2>2. fil' = Job.then /\ shrunk' = Job.sg
    BY <2>1 DEF Job, JobOf
  <2>3. Fine(now', fil', shrunk') /\ (call.op \in {"rename", "sync"} => win' = NoSector)
    <3>1. Safe(Job, now', win', <<>>)
      BY <1>5, <1>8, <1>15
    <3> QED BY <1>7, <2>2, <3>1, SafeDone
  <2>4. ASSUME shrunk' = {}  PROVE Fine(disk', AllClosed, {})
    <3>1. CASE call.op \in {"rename", "sync"}
      <4>1. disk' = now'
        BY <1>9, <2>3, <3>1, AgreeClean
      <4> QED BY <2>3, <2>4, <4>1, RawFine
    <3>2. CASE call.op \notin {"rename", "sync"}
      BY <1>11, <2>1, <2>4, <3>2
    <3> QED BY <3>1, <3>2
  <2>5. IdleFine' /\ DiskFine'
    BY <2>1, <2>3, <2>4 DEF IdleFine, DiskFine
  <2>6. fil' \in [Fils -> FilRecs]
    BY <2>3 DEF Fine
  <2> QED BY <1>9, <2>5, <2>6 DEF Inv
<1> QED BY <1>14, <1>15

\* Another sector is read.
LEMMA LookInv == Inv /\ Look => Inv'
<1> SUFFICES ASSUME Inv, Look, ~ hurt'  PROVE Inv'
  BY DEF Inv
<1>1. /\ call = Idle /\ disk' = Flushed /\ win' = NoSector /\ now' = now /\ fil' = fil
      /\ call' = call /\ shrunk' = shrunk /\ hurt' = hurt
  BY DEF Look
<1>2. /\ now \in Volumes /\ disk \in Volumes /\ Agree(now, disk, win)
      /\ fil \in [Fils -> FilRecs] /\ DiskFine /\ Fine(now, fil, shrunk)
  BY <1>1 DEF Inv, IdleFine, BusyFine, Idle, Ops
<1>3. disk' = now
  BY <1>1, <1>2, AgreeFlushed
<1>4. Agree(now', disk', win')
  BY <1>1, <1>3, AgreeSelf
<1>5. IdleFine'
  BY <1>1, <1>2 DEF IdleFine
<1>6. DiskFine'
  BY <1>1, <1>2, <1>3, RawFine DEF DiskFine
<1> QED BY <1>1, <1>2, <1>3, <1>4, <1>5, <1>6 DEF Inv

\* The power is cut.
LEMMA PowerCutInv == Inv /\ PowerCut => Inv'
<1> SUFFICES ASSUME Inv, PowerCut, ~ hurt'  PROVE Inv'
  BY DEF Inv
<1>1. /\ now' = disk /\ win' = NoSector /\ fil' = AllClosed /\ call' = Idle /\ shrunk' = {}
      /\ disk' = disk /\ ~ hurt /\ shrunk = {} /\ call.op # "rename"
  BY DEF PowerCut, AllClosed
<1>2. disk \in Volumes /\ Fine(disk, AllClosed, {})
  BY <1>1 DEF Inv, DiskFine
<1>3. Agree(now', disk', win')
  BY <1>1, AgreeSelf
<1>4. IdleFine' /\ DiskFine'
  BY <1>1, <1>2 DEF IdleFine, DiskFine
<1>5. fil' \in [Fils -> FilRecs]
  BY <1>1, <1>2 DEF Fine
<1> QED BY <1>1, <1>2, <1>3, <1>4, <1>5 DEF Inv

\* A call starts, or is done at once.
LEMMA BeginInv ==
    ASSUME Inv, ~ hurt, NEW op \in Ops, NEW f, NEW leaves, NEW todo, Begin(op, f, leaves, todo),
           shrunk \subseteq shrunk',
           todo = <<>> => Fine(now, IF f \in Fils THEN [fil EXCEPT ![f] = leaves] ELSE fil, shrunk'),
           LET j == JobOf(op, f, leaves, fil, shrunk')
           IN  todo # <<>> => /\ Safe(j, now, win, todo)
                              /\ op # "rename" => Fine(now, j.cur, shrunk')
    PROVE  Inv'
<1>1. /\ call = Idle /\ Rest(op, f, leaves, todo) /\ now' = now /\ disk' = disk /\ win' = win /\ hurt' = hurt
  BY DEF Begin
<1>2. /\ now \in Volumes /\ disk \in Volumes /\ Agree(now, disk, win)
      /\ fil \in [Fils -> FilRecs] /\ DiskFine /\ Fine(now, fil, shrunk)
  BY <1>1 DEF Inv, IdleFine, BusyFine, Idle, Ops
<1>3. DiskFine'
  <2>1. ASSUME shrunk' = {}  PROVE Fine(disk, AllClosed, {})
    BY <1>1, <1>2, <2>1 DEF DiskFine, Idle
  <2> QED BY <1>1, <2>1 DEF DiskFine
<1>4. CASE todo # <<>>
  <2>1. call' = [op |-> op, f |-> f, leaves |-> leaves, todo |-> todo] /\ fil' = fil
    BY <1>1, <1>4 DEF Rest
  <2>2. call'.op = op /\ call'.f = f /\ call'.leaves = leaves /\ call'.todo = todo
    BY <2>1
  <2>3. Job' = JobOf(op, f, leaves, fil, shrunk')
    BY <2>1, <2>2 DEF Job
  <2>4. BusyFine'
    BY <1>1, <1>4, <2>2, <2>3 DEF BusyFine
  <2> QED BY <1>1, <1>2, <1>3, <2>1, <2>4 DEF Inv
<1>5. CASE todo = <<>>
  <2>1. call' = Idle /\ fil' = IF f \in Fils THEN [fil EXCEPT ![f] = leaves] ELSE fil
    BY <1>1, <1>5 DEF Rest
  <2>2. Fine(now, fil', shrunk')
    BY <1>5, <2>1
  <2>3. IdleFine'
    BY <1>1, <2>1, <2>2 DEF IdleFine
  <2>4. fil' \in [Fils -> FilRecs]
    BY <2>2 DEF Fine
  <2> QED BY <1>1, <1>2, <1>3, <2>3, <2>4 DEF Inv
<1> QED BY <1>4, <1>5

\* What the invariant says.
LEMMA InvSound == Inv => AlwaysSound
<1> SUFFICES ASSUME Inv, ~ hurt, shrunk = {}, call.op # "rename"
             PROVE  Sound(disk) /\ Sound(now)
  BY DEF AlwaysSound
<1>1. Fine(disk, AllClosed, {})
  BY DEF Inv, DiskFine
<1>2. \E F : Fine(now, F, {})
  BY DEF Inv, IdleFine, BusyFine
<1> QED BY <1>1, <1>2, RawFine, FineSound
-----------------------------------------------------------------------------
(* Changes of a fine volume *)

\* A file object that is set.
LEMMA FilSet ==
    ASSUME NEW F \in [Fils -> FilRecs], NEW f \in Fils, NEW o \in FilRecs, NEW G, G = [F EXCEPT ![f] = o]
    PROVE  G \in [Fils -> FilRecs] /\ G[f] = o /\ \A g \in Fils : g # f => G[g] = F[g]
  OBVIOUS

\* The parts of a fine volume.
LEMMA FineParts ==
    ASSUME NEW v, NEW F, NEW sh, Fine(v, F, sh)
    PROVE  /\ v \in Volumes /\ F \in [Fils -> FilRecs] /\ Laid(v, F) /\ Rooted(v) /\ FilsFit(v, F, sh)
           /\ ChainsApart(v, F) /\ NamesApart(v) /\ NoFreeTable(v) /\ IsTable(v, 0)
           /\ \A p \in All(v) : ObjectLaid(v, F, p) /\ p[1] \in Reach(v)
           /\ \A f \in Fils : F[f].open => /\ F[f] \in FilRecs /\ FilFits(v, F[f], sh)
                                           /\ Place(F[f]) \in All(v) /\ F[f].id \in Ids
<1>1. /\ v \in Volumes /\ F \in [Fils -> FilRecs] /\ Laid(v, F) /\ Rooted(v) /\ FilsFit(v, F, sh)
      /\ ChainsApart(v, F) /\ NamesApart(v) /\ NoFreeTable(v) /\ IsTable(v, 0)
  BY DEF Fine, Laid
<1>2. ASSUME NEW p \in All(v)  PROVE ObjectLaid(v, F, p) /\ p[1] \in Reach(v)
  <2>1. p[1] \in Tables /\ p[2] \in 1 .. Slots /\ IsTable(v, p[1]) /\ At(v, p) # Unused
    BY <1>1, AllTyped
  <2>2. p[2] \in Used(v, p[1])
    BY <2>1 DEF Used, At
  <2> QED BY <1>1, <2>1, <2>2 DEF Rooted, Laid
<1>3. ASSUME NEW f \in Fils, F[f].open
      PROVE  F[f] \in FilRecs /\ FilFits(v, F[f], sh) /\ Place(F[f]) \in All(v) /\ F[f].id \in Ids
  <2>1. F[f] \in FilRecs /\ FilFits(v, F[f], sh)
    BY <1>1, <1>3 DEF FilsFit
  <2> QED BY <1>3, <2>1, FilTyped DEF FilFits
<1> QED BY <1>1, <1>2, <1>3

\* An object of the entry q is opened, changed or closed; its chain may take in what
\* nobody owns.
ObjectSet(v, F, sh, f, o, q, G, sg) ==
    /\ Fine(v, F, sh) /\ f \in Fils /\ o \in FilRecs /\ q \in All(v) /\ G = [F EXCEPT ![f] = o]
    /\ (F[f].open => Place(F[f]) = q) /\ (o.open => Place(o) = q)
    /\ \A g \in Fils : g # f /\ F[g].open /\ F[g].id \in sh => F[g].id \in sg
    /\ o.open => FilFits(v, o, sg)
    /\ o.open => \A g \in Fils : g # f /\ F[g].open => F[g].id # o.id
    /\ ObjectLaid(v, G, q)
    /\ \A x \in Own(v, Clst(v, G, q)) : x \in Own(v, Clst(v, F, q)) \/ Unowned(v, F, x)

\* The volume is fine with the new object.
LEMMA SameVolume ==
    ASSUME NEW v, NEW F, NEW sh, NEW f, NEW o, NEW q, NEW G, NEW sg, ObjectSet(v, F, sh, f, o, q, G, sg)
    PROVE  Fine(v, G, sg)
<1> USE DEF ObjectSet
<1>0. /\ v \in Volumes /\ F \in [Fils -> FilRecs] /\ Laid(v, F) /\ Rooted(v) /\ FilsFit(v, F, sh)
      /\ ChainsApart(v, F) /\ NamesApart(v) /\ NoFreeTable(v) /\ IsTable(v, 0)
  BY FineParts
<1>1. G \in [Fils -> FilRecs] /\ G[f] = o /\ \A g \in Fils : g # f => G[g] = F[g]
  BY <1>0, FilSet
<1>2. ASSUME NEW p \in All(v), p # q  PROVE Frame(v, F, v, G, p)
  <2>1. (F[f].open => Place(F[f]) # p) /\ (G[f].open => Place(G[f]) # p) /\ At(v, p) = At(v, p)
    BY <1>1, <1>2
  <2>2. Clst(v, G, p) = Clst(v, F, p) /\ Size(v, G, p) = Size(v, F, p)
    <3>1. \A g \in Fils : g # f => G[g] = F[g]
      BY <1>1
    <3> QED BY ONLY <2>1, <3>1, ClstApart
  <2> QED BY <2>2 DEF Frame
<1>3. ASSUME NEW p \in All(v), p # q
      PROVE  /\ Own(v, Clst(v, G, q)) \cap Own(v, Clst(v, F, p)) = {}
             /\ p[1] = q[1] => At(v, p).name # At(v, q).name
  BY <1>0, <1>3 DEF ChainsApart, NamesApart, Unowned
<1>4. Laid(v, G)
  BY <1>0, <1>2, <1>3, LaidKept
<1>5. FilsFit(v, G, sg)
  <2>1. \A g \in Fils : g # f /\ F[g].open =>
           /\ Place(F[g]) \in All(v) /\ At(v, Place(F[g])) = At(v, Place(F[g]))
           /\ Own(v, F[g].clst) \subseteq Own(v, F[g].clst)
           /\ F[g].id \in sh => F[g].id \in sg
    BY FineParts
  <2>2. f \in Fils /\ G[f].open =>
           /\ FilFits(v, G[f], sg)
           /\ \A g \in Fils : g # f /\ F[g].open => F[g].id # G[f].id
    BY <1>1
  <2>3. \A g \in Fils : g # f => G[g] = F[g]
    BY <1>1
  <2>4. FilsFit(v, F, sh)
    BY <1>0
  <2> QED BY ONLY <2>1, <2>2, <2>3, <2>4, FilsKept
<1> QED BY <1>0, <1>1, <1>4, <1>5 DEF Fine

\* The FAT entry of a cluster of an open file is set to another value than 0.
LEMMA FatSet ==
    ASSUME NEW v, NEW F, NEW sh, Fine(v, F, sh), NEW f \in Fils, F[f].open,
           NEW c \in Own(v, F[f].clst), NEW val \in Nat, val # 0,
           NEW w, w = Changed(v, SetFat(c, val)),
           Chained(w, F[f].clst), Len(Chain(w, F[f].clst)) >= F[f].size,
           \A x \in Own(w, F[f].clst) :
              x \in Own(v, F[f].clst) \/ (Unowned(v, F, x) /\ ~ IsTable(v, x)),
           F[f].dirty # 0 => F[f].dirty \in Own(w, F[f].clst)
    PROVE  /\ Fine(w, F, sh)
           /\ \A x : /\ Unowned(v, F, x) \/ x \in Own(v, F[f].clst)
                    /\ x \notin Own(w, F[f].clst)
                    => Unowned(w, F, x)
<1>0. /\ v \in Volumes /\ F \in [Fils -> FilRecs] /\ Laid(v, F) /\ Rooted(v) /\ FilsFit(v, F, sh)
      /\ ChainsApart(v, F) /\ NamesApart(v) /\ NoFreeTable(v) /\ IsTable(v, 0)
      /\ FilFits(v, F[f], sh)
  BY FineParts
<1> DEFINE q == Place(F[f])
<1>1. q \in All(v) /\ Clst(v, F, q) = F[f].clst /\ Size(v, F, q) = F[f].size /\ ~ At(v, q).dir
      /\ Holders(F, q) = {f}
  BY <1>0, HolderIs DEF FilFits
<1>2. Chained(v, F[f].clst) /\ c \in Clusters
  <2>1. Chained(v, F[f].clst) /\ Own(v, F[f].clst) \subseteq Clusters
    BY <1>0, <1>1, LaidOwn
  <2> QED BY <2>1
<1>3. /\ w \in Volumes /\ w.fat[c] = val /\ \A x \in Clusters : x # c => w.fat[x] = v.fat[x]
      /\ \A t \in Tables : w.has[t] = v.has[t]
  <2>1. c \in Clusters /\ v \in Volumes /\ val \in Nat /\ val # 0 /\ w = Changed(v, SetFat(c, val))
    BY <1>0, <1>2
  <2>2. /\ w \in Volumes /\ w.fat[c] = val /\ \A x \in Clusters : x # c => w.fat[x] = v.fat[x]
        /\ \A t \in Tables : t # c \/ val # 0 => w.has[t] = v.has[t]
    BY ONLY <2>1, FatChanged
  <2> QED BY <2>1, <2>2
<1>4. /\ \A t \in Tables : IsTable(w, t) <=> IsTable(v, t)
      /\ \A t \in Tables, s \in 1 .. Slots : Entry(w, t, s) = Entry(v, t, s)
  BY <1>3 DEF IsTable, Entry
<1>5. All(w) = All(v) /\ \A p \in All(v) : At(w, p) = At(v, p)
  <2>1. \A p \in Spots : At(w, p) = At(v, p) /\ (IsTable(w, p[1]) <=> IsTable(v, p[1]))
    BY <1>4, SpotParts DEF At
  <2> QED BY <2>1 DEF All
<1> HIDE DEF q
<1>6. ASSUME NEW p \in All(w), p # q  PROVE Frame(v, F, w, F, p)
  <2>1. Clst(w, F, p) = Clst(v, F, p) /\ Size(w, F, p) = Size(v, F, p)
    BY <1>5, ClstSame
  <2>2. c \notin Own(v, Clst(v, F, p)) /\ Own(v, Clst(v, F, p)) \subseteq Clusters
    BY <1>0, <1>1, <1>5, <1>6, LaidOwn DEF ChainsApart
  <2>3. \A x \in Own(v, Clst(v, F, p)) : w.fat[x] = v.fat[x] /\ w.has[x] = v.has[x]
                                        /\ (IsTable(w, x) <=> IsTable(v, x))
    BY <1>3, <1>4, <2>2, Constants
  <2> QED BY <1>5, <2>1, <2>3 DEF Frame
<1>7. Clst(w, F, q) = F[f].clst /\ Size(w, F, q) = F[f].size
  BY <1>1, <1>5, ClstSame
<1>8. ObjectLaid(w, F, q)
  <2>1. FileLaid(v, F, q)
    BY <1>0, <1>1 DEF Laid, ObjectLaid
  <2>2. \A x \in Own(w, F[f].clst) : ~ IsTable(w, x)
    <3>1. Own(w, F[f].clst) \subseteq Tables
      BY ChainTyped, Constants
    <3> QED BY <1>1, <1>4, <2>1, <3>1 DEF FileLaid
  <2> QED BY <1>1, <1>5, <1>7, <2>2 DEF ObjectLaid, FileLaid
<1>9. ASSUME NEW p \in All(w), p # q
      PROVE  /\ Own(w, Clst(w, F, q)) \cap Own(v, Clst(v, F, p)) = {}
             /\ p[1] = q[1] => At(w, p).name # At(w, q).name
  <2>1. Own(v, F[f].clst) \cap Own(v, Clst(v, F, p)) = {}
    BY <1>0, <1>1, <1>5, <1>9 DEF ChainsApart
  <2>2. p[1] = q[1] => At(w, p).name # At(w, q).name
    BY <1>0, <1>1, <1>5, <1>9 DEF NamesApart
  <2> QED BY <1>5, <1>7, <2>1, <2>2 DEF Unowned
<1>10. IsTable(w, 0) /\ NoFreeTable(w)
  BY <1>0, <1>3, <1>4, Constants DEF NoFreeTable
<1>11. Laid(w, F)
  BY <1>0, <1>6, <1>8, <1>9, <1>10, LaidKept
<1>12. Rooted(w)
  BY <1>0, <1>4, <1>10, RootedSame
<1>13. FilsFit(w, F, sh)
  <2>1. ASSUME NEW g \in Fils, g # f, F[g].open
        PROVE  /\ Place(F[g]) \in All(w) /\ At(w, Place(F[g])) = At(v, Place(F[g]))
               /\ Own(v, F[g].clst) \subseteq Own(w, F[g].clst)
    <3>1. Place(F[g]) \in All(v) /\ Clst(v, F, Place(F[g])) = F[g].clst /\ Holders(F, Place(F[g])) = {g}
      <4>1. Place(F[g]) \in All(v)
        BY <2>1, FineParts
      <4>2. FilsFit(v, F, sh) /\ g \in Fils /\ F[g].open
        BY <1>0, <2>1
      <4>3. Clst(v, F, Place(F[g])) = F[g].clst
        BY ONLY <4>2, HolderIs
      <4>4. Holders(F, Place(F[g])) = {g}
        BY <4>2, HolderIs
      <4> QED BY <4>1, <4>3, <4>4
    <3>2. Place(F[g]) # q
      BY <1>1, <2>1, <3>1
    <3>3. Frame(v, F, w, F, Place(F[g]))
      BY <1>5, <1>6, <3>1, <3>2
    <3>4. Own(w, F[g].clst) = Own(v, F[g].clst)
      <4>1. Clst(w, F, Place(F[g])) = F[g].clst
        BY <3>1, <3>3 DEF Frame
      <4> QED BY <1>0, <3>1, <3>3, <4>1, FrameLaid
    <3> QED BY <1>5, <3>1, <3>4
  <2>2. FilFits(w, F[f], sh)
    BY <1>0, <1>1, <1>5 DEF FilFits, q
  <2> QED BY <1>0, <2>1, <2>2, FilsKept DEF FilsFit, IdsApart
<1>14. ASSUME NEW x, Unowned(v, F, x) \/ x \in Own(v, F[f].clst), x \notin Own(w, F[f].clst)
       PROVE  Unowned(w, F, x)
  <2> SUFFICES ASSUME NEW p \in All(w)  PROVE x \notin Own(w, Clst(w, F, p))
    BY DEF Unowned
  <2>1. CASE p = q
    BY <1>7, <1>14, <2>1
  <2>2. CASE p # q
    <3>1. Own(w, Clst(w, F, p)) = Own(v, Clst(v, F, p))
      BY <1>0, <1>6, <2>2, FrameLaid
    <3>2. x \notin Own(v, Clst(v, F, p))
      BY <1>0, <1>1, <1>5, <1>14, <2>2 DEF ChainsApart, Unowned
    <3> QED BY <3>1, <3>2
  <2> QED BY <2>1, <2>2
<1> QED BY <1>0, <1>3, <1>11, <1>12, <1>13, <1>14 DEF Fine

\* The entry q of table t is replaced by e, by an unused one or one that takes over no
\* chain but its own and what nobody owns.
EntryFits(v, F, t, q, e, w) ==
    /\ t \in Reach(v) /\ ObjectLaid(w, F, q)
    /\ \A x \in Own(w, Clst(w, F, q)) :
          (q \in All(v) /\ x \in Own(v, Clst(v, F, q))) \/ Unowned(v, F, x)
    /\ \A p \in All(v) : p # q /\ p[1] = t => At(v, p).name # e.name

\* The spots after that.
LEMMA EntrySpots ==
    ASSUME NEW v \in Volumes, NEW t \in Tables, IsTable(v, t), NEW s \in 1 .. Slots, NEW e \in Entries,
           NEW q, q = <<t, s>>, NEW w, w = Changed(v, SetEntry(t, s, e))
    PROVE  /\ w \in Volumes /\ w.fat = v.fat /\ q \in Spots /\ q[1] = t /\ At(w, q) = e
           /\ q \in All(w) <=> e # Unused
           /\ \A x \in Tables : IsTable(w, x) <=> IsTable(v, x)
           /\ \A x \in Tables : w.has[x].up = v.has[x].up
           /\ \A x \in Tables, r \in 1 .. Slots : x # t \/ r # s => Entry(w, x, r) = Entry(v, x, r)
           /\ \A p \in Spots : p # q => At(w, p) = At(v, p)
           /\ \A p : p # q => (p \in All(w) <=> p \in All(v))
<1>1. /\ w \in Volumes /\ w.fat = v.fat
      /\ \A x \in Tables : IsTable(w, x) <=> IsTable(v, x)
      /\ \A x \in Tables : w.has[x].up = v.has[x].up
      /\ \A x \in Tables, r \in 1 .. Slots :
            Entry(w, x, r) = IF x = t /\ r = s THEN e ELSE Entry(v, x, r)
  BY EntryChanged
<1>2. q \in Spots /\ q[1] = t /\ q[2] = s /\ At(w, q) = e
  BY <1>1, SpotIs
<1>3. q \in All(w) <=> e # Unused
  BY <1>1, <1>2, SpotIs
<1>4. ASSUME NEW p \in Spots, p # q  PROVE At(w, p) = At(v, p)
  <2>1. p[1] \in Tables /\ p[2] \in 1 .. Slots /\ p = <<p[1], p[2]>>
    BY SpotParts
  <2>2. p[1] # t \/ p[2] # s
    BY <1>4, <2>1
  <2> QED BY <1>1, <2>1, <2>2 DEF At
<1>5. ASSUME NEW p, p # q  PROVE p \in All(w) <=> p \in All(v)
  BY <1>1, <1>4, <1>5, SpotParts DEF All
<1> QED BY <1>1, <1>2, <1>3, <1>4, <1>5

\* Tables that have entries stay in reach.
LEMMA EntryRooted ==
    ASSUME NEW v \in Volumes, NEW t \in Tables, IsTable(v, t), NEW s \in 1 .. Slots, NEW e \in Entries,
           NEW q, q = <<t, s>>, NEW w, w = Changed(v, SetEntry(t, s, e)),
           Rooted(v), IsTable(v, 0), e # Unused => t \in Reach(v),
           q \in All(v) /\ At(v, q).dir => Used(v, At(v, q).clst) = {}
    PROVE  Rooted(w)
<1>0. \A x \in Tables : IsTable(w, x) <=> IsTable(v, x)
  BY EntrySpots
<1>1. \A x \in Tables, r \in 1 .. Slots : x # t \/ r # s => Entry(w, x, r) = Entry(v, x, r)
  BY EntrySpots
<1>2. q \in All(v) <=> Entry(v, t, s) # Unused
  BY SpotIs
<1>3. At(v, q) = Entry(v, t, s) /\ Entry(w, t, s) = e
  <2>1. At(w, q) = e
    BY EntrySpots
  <2> QED BY <2>1, SpotIs
<1> DEFINE X == IF q \in All(v) /\ At(v, q).dir THEN {At(v, q).clst} ELSE {}
<1>4. \A x \in X : Used(v, x) = {}
  OBVIOUS
<1>5. Shut(v, X)
  BY <1>4 DEF Shut, Subdirs
<1>6. ASSUME NEW d \in Reach(w)  PROVE Subdirs(v, d) \subseteq Subdirs(w, d) \cup X
  <2>1. d \in Tables
    BY <1>0, <1>6, ReachTables, Constants
  <2> SUFFICES ASSUME NEW x \in Subdirs(v, d)  PROVE x \in Subdirs(w, d) \cup X
    OBVIOUS
  <2>2. x \in Clusters /\ IsTable(v, x)
    BY SubdirIs
  <2>3. PICK r \in 1 .. Slots : Entry(v, d, r) # Unused /\ Entry(v, d, r).dir /\ Entry(v, d, r).clst = x
    BY SubdirIs
  <2>4. CASE d = t /\ r = s
    BY <1>2, <1>3, <2>3, <2>4
  <2>5. CASE d # t \/ r # s
    <3>1. Entry(w, d, r) = Entry(v, d, r) /\ IsTable(w, x)
      BY <1>0, <1>1, <2>1, <2>2, <2>5, Constants
    <3>2. x \in Subdirs(w, d)
      BY ONLY <2>2, <2>3, <3>1, SubdirIs
    <3> QED BY <3>2
  <2> QED BY <2>4, <2>5
<1>7. ASSUME NEW u \in Tables, IsTable(w, u), Used(w, u) # {}
      PROVE  u \in Reach(w) \/ (u \notin X /\ u \in Reach(v))
  <2>1. CASE Used(v, u) # {}
    <3>1. u \notin X /\ u \in Reach(v)
      BY <1>0, <1>4, <1>7, <2>1 DEF Rooted
    <3> QED BY <3>1
  <2>2. CASE Used(v, u) = {}
    <3>1. PICK r \in 1 .. Slots : Entry(w, u, r) # Unused
      BY <1>7 DEF Used
    <3>2. Entry(v, u, r) = Unused
      BY <2>2 DEF Used
    <3>3. u = t /\ r = s
      BY <1>1, <3>1, <3>2
    <3>4. e # Unused /\ q \notin All(v)
      BY <1>2, <1>3, <3>1, <3>2, <3>3
    <3> QED BY <3>3, <3>4
  <2> QED BY <2>1, <2>2
<1> HIDE DEF X
<1>8. Rooted(v)
  OBVIOUS
<1> QED BY ONLY <1>5, <1>6, <1>7, <1>8, RootedKept

\* The other entries are left alone.
LEMMA EntryFrame ==
    ASSUME NEW v \in Volumes, NEW F, Laid(v, F),
           NEW t \in Tables, IsTable(v, t), NEW s \in 1 .. Slots, NEW e \in Entries,
           NEW q, q = <<t, s>>, NEW w, w = Changed(v, SetEntry(t, s, e)), NEW p \in All(v), p # q
    PROVE  Frame(v, F, w, F, p)
<1>1. /\ w \in Volumes /\ w.fat = v.fat
      /\ \A x \in Tables : IsTable(w, x) <=> IsTable(v, x)
      /\ \A x \in Tables : w.has[x].up = v.has[x].up
      /\ \A r \in Spots : r # q => At(w, r) = At(v, r)
  BY EntrySpots
<1>2. At(w, p) = At(v, p)
  BY <1>1 DEF All
<1>3. Clst(w, F, p) = Clst(v, F, p) /\ Size(w, F, p) = Size(v, F, p)
  BY <1>2, ClstSame
<1>4. Own(v, Clst(v, F, p)) \subseteq Tables
  BY LaidOwn, Constants
<1>5. \A x \in Own(v, Clst(v, F, p)) : /\ w.fat[x] = v.fat[x] /\ (IsTable(w, x) <=> IsTable(v, x))
                                        /\ w.has[x].up = v.has[x].up
  BY <1>1, <1>4
<1> QED BY <1>2, <1>3, <1>5 DEF Frame

\* Nobody owns what the old entry had and the new one has not.
LEMMA EntryLeft ==
    ASSUME NEW v \in Volumes, NEW F, Laid(v, F),
           NEW t \in Tables, IsTable(v, t), NEW s \in 1 .. Slots, NEW e \in Entries,
           NEW q, q = <<t, s>>, NEW w, w = Changed(v, SetEntry(t, s, e)),
           NEW x, (q \in All(v) /\ x \in Own(v, Clst(v, F, q))) \/ Unowned(v, F, x),
           e # Unused => x \notin Own(w, Clst(w, F, q))
    PROVE  Unowned(w, F, x)
<1> SUFFICES ASSUME NEW p \in All(w)  PROVE x \notin Own(w, Clst(w, F, p))
  BY DEF Unowned
<1>1. (q \in All(w) <=> e # Unused) /\ (p # q => p \in All(v))
  BY EntrySpots
<1>2. CASE p = q
  BY <1>1, <1>2
<1>3. CASE p # q
  <2>1. Frame(v, F, w, F, p) /\ p \in All(v)
    BY <1>1, <1>3, EntryFrame
  <2>2. Own(w, Clst(w, F, p)) = Own(v, Clst(v, F, p))
    BY <2>1, FrameLaid
  <2>3. x \notin Own(v, Clst(v, F, p))
    BY <1>3, <2>1 DEF Laid, ChainsApart, Unowned
  <2> QED BY <2>2, <2>3
<1> QED BY <1>2, <1>3

\* The entry is set.
EntryPut(v, F, sh, t, s, e, q, w) ==
    /\ Fine(v, F, sh) /\ t \in Tables /\ IsTable(v, t) /\ s \in 1 .. Slots /\ e \in Entries
    /\ q = <<t, s>> /\ w = Changed(v, SetEntry(t, s, e))
    /\ e # Unused => EntryFits(v, F, t, q, e, w)
    /\ q \in All(v) /\ At(v, q).dir => Used(v, At(v, q).clst) = {}
    /\ \A f \in Fils : F[f].open /\ Place(F[f]) = q => FilFits(w, F[f], sh)

\* The volume with the entry is fine.
LEMMA EntrySet ==
    ASSUME NEW v, NEW F, NEW sh, NEW t, NEW s, NEW e, NEW q, NEW w, EntryPut(v, F, sh, t, s, e, q, w)
    PROVE  Fine(w, F, sh)
<1> USE DEF EntryPut
<1>0. /\ v \in Volumes /\ F \in [Fils -> FilRecs] /\ Laid(v, F) /\ Rooted(v) /\ FilsFit(v, F, sh)
      /\ NoFreeTable(v) /\ IsTable(v, 0)
  BY FineParts
<1>1. /\ w \in Volumes /\ w.fat = v.fat /\ q \in Spots /\ q[1] = t /\ At(w, q) = e
      /\ q \in All(w) <=> e # Unused
      /\ \A x \in Tables : IsTable(w, x) <=> IsTable(v, x)
      /\ \A x \in Tables : w.has[x].up = v.has[x].up
      /\ \A p \in Spots : p # q => At(w, p) = At(v, p)
      /\ \A p : p # q => (p \in All(w) <=> p \in All(v))
  <2>1. v \in Volumes
    BY <1>0
  <2> QED BY <2>1, EntrySpots
<1>2. ASSUME NEW p \in All(v), p # q  PROVE Frame(v, F, w, F, p)
  <2>1. v \in Volumes /\ Laid(v, F)
    BY <1>0
  <2> QED BY <1>2, <2>1, EntryFrame
<1>3. \A p \in All(w) : p # q => Frame(v, F, w, F, p)
  BY <1>1, <1>2
<1>4. q \in All(w) => /\ ObjectLaid(w, F, q)
                      /\ \A p \in All(w) : p # q =>
                            /\ Own(w, Clst(w, F, q)) \cap Own(v, Clst(v, F, p)) = {}
                            /\ p[1] = q[1] => At(w, p).name # At(w, q).name
  <2> SUFFICES ASSUME q \in All(w)
               PROVE  /\ ObjectLaid(w, F, q)
                      /\ \A p \in All(w) : p # q =>
                            /\ Own(w, Clst(w, F, q)) \cap Own(v, Clst(v, F, p)) = {}
                            /\ p[1] = q[1] => At(w, p).name # At(w, q).name
    OBVIOUS
  <2>1. EntryFits(v, F, t, q, e, w)
    BY <1>1
  <2>2. ASSUME NEW p \in All(w), p # q
        PROVE  /\ Own(w, Clst(w, F, q)) \cap Own(v, Clst(v, F, p)) = {}
               /\ p[1] = q[1] => At(w, p).name # At(w, q).name
    <3>1. p \in All(v) /\ p \in Spots
      BY <1>1, <2>2 DEF All
    <3>2. q \in All(v) => Own(v, Clst(v, F, q)) \cap Own(v, Clst(v, F, p)) = {}
      BY <1>0, <2>2, <3>1 DEF Laid, ChainsApart
    <3>3. Own(w, Clst(w, F, q)) \cap Own(v, Clst(v, F, p)) = {}
      BY ONLY <2>1, <3>1, <3>2 DEF EntryFits, Unowned
    <3>4. p[1] = q[1] => At(w, p).name # At(w, q).name
      BY <1>1, <2>1, <2>2, <3>1 DEF EntryFits
    <3> QED BY <3>3, <3>4
  <2> QED BY <2>1, <2>2 DEF EntryFits
<1>5. IsTable(w, 0) /\ NoFreeTable(w)
  BY <1>0, <1>1, Constants DEF NoFreeTable
<1>6. Laid(w, F)
  <2>1. v \in Volumes /\ Laid(v, F)
    BY <1>0
  <2> QED BY ONLY <2>1, <1>3, <1>4, <1>5, LaidKept
<1>7. Rooted(w)
  <2>1. v \in Volumes /\ Rooted(v) /\ IsTable(v, 0) /\ (e # Unused => t \in Reach(v))
    BY <1>0 DEF EntryFits
  <2> QED BY <2>1, EntryRooted
<1>8. FilsFit(w, F, sh)
  <2>1. ASSUME NEW g \in Fils, F[g].open  PROVE FilFits(w, F[g], sh)
    <3>1. CASE Place(F[g]) = q
      BY <2>1, <3>1
    <3>2. CASE Place(F[g]) # q
      <4>1. Place(F[g]) \in All(v) /\ FilFits(v, F[g], sh)
        BY <2>1, FineParts
      <4>2. Place(F[g]) \in All(w) /\ At(w, Place(F[g])) = At(v, Place(F[g]))
        BY <1>1, <3>2, <4>1 DEF All
      <4>3. Frame(v, F, w, F, Place(F[g])) /\ Clst(v, F, Place(F[g])) = F[g].clst
        BY <1>0, <1>2, <2>1, <3>2, <4>1, HolderIs
      <4>4. Own(w, F[g].clst) = Own(v, F[g].clst)
        <5>1. Clst(w, F, Place(F[g])) = F[g].clst
          BY <4>3 DEF Frame
        <5> QED BY <1>0, <4>3, <5>1, FrameLaid
      <4> QED BY <4>1, <4>2, <4>4 DEF FilFits
    <3> QED BY <3>1, <3>2
  <2> QED BY <1>0, <2>1 DEF FilsFit
<1> QED BY <1>0, <1>1, <1>6, <1>7, <1>8 DEF Fine

\* Only a cluster that nobody owns is changed, and no entry is there before or after.
Aside(v, F, c, w) ==
    /\ w \in Volumes
    /\ \A x \in Clusters : x # c => w.fat[x] = v.fat[x]
    /\ \A t \in Tables : t # c => w.has[t] = v.has[t]
    /\ IsTable(v, c) => Used(v, c) = {}
    /\ IsTable(w, c) => Used(w, c) = {} /\ w.fat[c] # 0

\* Entries and chains are the same.
LEMMA AsideSame ==
    ASSUME NEW v \in Volumes, NEW F, Laid(v, F), NEW c \in Clusters, Unowned(v, F, c), NEW w, Aside(v, F, c, w)
    PROVE  /\ All(w) = All(v) /\ \A p \in All(v) : At(w, p) = At(v, p) /\ Frame(v, F, w, F, p)
           /\ \A p \in All(v) : p[1] # c
           /\ \A t \in Tables : t # c => /\ IsTable(w, t) <=> IsTable(v, t)
                                         /\ Used(w, t) = Used(v, t)
                                         /\ \A s \in 1 .. Slots : Entry(w, t, s) = Entry(v, t, s)
<1>1. ASSUME NEW t \in Tables, t # c
      PROVE  /\ IsTable(w, t) <=> IsTable(v, t)
             /\ \A s \in 1 .. Slots : Entry(w, t, s) = Entry(v, t, s)
             /\ Used(w, t) = Used(v, t)
  <2>1. w.has[t] = v.has[t]
    BY <1>1 DEF Aside
  <2> QED BY <2>1 DEF IsTable, Entry, Used
<1>2. \A u \in {v, w} : \A p \in All(u) : p[1] # c
  <2> SUFFICES ASSUME NEW u \in {v, w}, NEW p \in All(u), p[1] = c  PROVE FALSE
    OBVIOUS
  <2>1. p \in Spots /\ IsTable(u, c) /\ At(u, p) # Unused
    BY DEF All
  <2>2. p[2] \in Used(u, c)
    BY <2>1, SpotParts DEF Used, At
  <2> QED BY <2>1, <2>2 DEF Aside
<1>3. ASSUME NEW p \in Spots, p[1] # c
      PROVE  At(w, p) = At(v, p) /\ (IsTable(w, p[1]) <=> IsTable(v, p[1]))
  BY <1>1, <1>3, SpotParts DEF At
<1>4. All(w) = All(v)
  <2>1. ASSUME NEW p  PROVE p \in All(w) <=> p \in All(v)
    BY <1>2, <1>3 DEF All
  <2> QED BY <2>1
<1>5. ASSUME NEW p \in All(v)  PROVE At(w, p) = At(v, p) /\ Frame(v, F, w, F, p)
  <2>1. At(w, p) = At(v, p)
    BY <1>2, <1>3 DEF All
  <2>2. Clst(w, F, p) = Clst(v, F, p) /\ Size(w, F, p) = Size(v, F, p)
    BY <2>1, ClstSame
  <2>3. ASSUME NEW x \in Own(v, Clst(v, F, p))
        PROVE  w.fat[x] = v.fat[x] /\ w.has[x] = v.has[x]
    <3>1. x \in Clusters /\ x \in Tables /\ x # c
      BY LaidOwn, Constants DEF Unowned
    <3> QED BY <3>1 DEF Aside
  <2> QED BY <2>1, <2>2, <2>3 DEF Frame, IsTable
<1> QED BY <1>1, <1>2, <1>4, <1>5

\* No path leads there, and the paths are the same.
LEMMA AsideReach ==
    ASSUME NEW v, NEW F, NEW sh, Fine(v, F, sh), NEW c \in Clusters, Unowned(v, F, c),
           NEW w, Aside(v, F, c, w)
    PROVE  Reach(v) \subseteq Reach(w) /\ c \notin Reach(v) /\ c \notin Reach(w) /\ IsTable(w, 0)
<1>0. v \in Volumes /\ Laid(v, F) /\ IsTable(v, 0)
  BY FineParts
<1>1. /\ All(w) = All(v) /\ \A p \in All(v) : At(w, p) = At(v, p)
      /\ \A t \in Tables : t # c => /\ IsTable(w, t) <=> IsTable(v, t)
                                    /\ Used(w, t) = Used(v, t)
                                    /\ \A s \in 1 .. Slots : Entry(w, t, s) = Entry(v, t, s)
  BY <1>0, AsideSame
<1>2. ASSUME NEW u \in {v, w}, NEW d \in Tables, IsTable(u, d)  PROVE c \notin Subdirs(u, d)
  <2> SUFFICES ASSUME c \in Subdirs(u, d)  PROVE FALSE
    OBVIOUS
  <2>1. PICK s \in 1 .. Slots : Entry(u, d, s) # Unused /\ Entry(u, d, s).dir /\ Entry(u, d, s).clst = c
    BY SubdirIs
  <2> DEFINE p == <<d, s>>
  <2>2. p \in All(v) /\ At(u, p) = Entry(u, d, s)
    BY <1>1, <1>2, <2>1, SpotIs
  <2>3. At(v, p) = Entry(u, d, s)
    BY <1>1, <2>2
  <2> HIDE DEF p
  <2>4. c \in Own(v, Clst(v, F, p))
    BY <1>0, <2>1, <2>2, <2>3, LaidOwn
  <2> QED BY <2>2, <2>4 DEF Unowned
<1>3. ASSUME NEW u \in {v, w}, IsTable(u, 0)  PROVE c \notin Reach(u)
  <2> DEFINE X == {d \in Tables : IsTable(u, d) /\ d # c}
  <2>1. Shut(u, X)
    <3> SUFFICES ASSUME NEW d \in X, NEW x \in Subdirs(u, d)  PROVE x \in X
      BY DEF Shut
    <3>1. x \in Clusters /\ IsTable(u, x)
      BY SubdirIs
    <3>2. x # c
      BY <1>2
    <3> QED BY <3>1, <3>2, Constants
  <2>2. 0 \in X
    BY <1>3, Constants
  <2>3. c \notin X
    OBVIOUS
  <2> HIDE DEF X
  <2>4. Reach(u) \subseteq X
    BY <2>1, <2>2, BelowLeast, Constants DEF Reach
  <2> QED BY <2>3, <2>4
<1>4. IsTable(w, 0)
  BY <1>0, <1>1, Constants
<1>5. c \notin Reach(v) /\ c \notin Reach(w)
  BY <1>0, <1>3, <1>4
<1>6. ASSUME NEW d \in Below(w, 0)  PROVE Subdirs(v, d) \subseteq Subdirs(w, d) \cup {}
  <2>1. d \in Tables /\ IsTable(w, d) /\ d # c
    BY <1>4, <1>5, <1>6, ReachTables DEF Reach
  <2>2. IsTable(v, d)
    BY <1>1, <2>1
  <2> SUFFICES ASSUME NEW x \in Subdirs(v, d)  PROVE x \in Subdirs(w, d)
    OBVIOUS
  <2>3. x \in Clusters /\ IsTable(v, x) /\ x # c
    BY <1>2, <2>1, <2>2, SubdirIs
  <2>4. PICK s \in 1 .. Slots : Entry(v, d, s) # Unused /\ Entry(v, d, s).dir /\ Entry(v, d, s).clst = x
    BY SubdirIs
  <2>5. IsTable(w, x) /\ Entry(w, d, s) = Entry(v, d, s)
    BY <1>1, <2>1, <2>3, Constants
  <2> QED BY ONLY <2>3, <2>4, <2>5, SubdirIs
<1>7. Shut(v, {})
  BY DEF Shut
<1>8. Reach(v) \subseteq Reach(w)
  <2>1. 0 \in Tables
    BY Constants
  <2>2. Below(v, 0) \subseteq Below(w, 0) \cup {}
    BY ONLY <1>6, <1>7, <2>1, BelowCovered
  <2> QED BY <2>2 DEF Reach
<1> QED BY <1>4, <1>5, <1>8

\* So the volume stays fine.
LEMMA AsideFine ==
    ASSUME NEW v, NEW F, NEW sh, Fine(v, F, sh), NEW c \in Clusters, Unowned(v, F, c),
           NEW w, Aside(v, F, c, w)
    PROVE  /\ Fine(w, F, sh) /\ \A x : Unowned(v, F, x) => Unowned(w, F, x)
<1>0. /\ v \in Volumes /\ F \in [Fils -> FilRecs] /\ Laid(v, F) /\ Rooted(v) /\ FilsFit(v, F, sh)
      /\ NoFreeTable(v) /\ IsTable(v, 0) /\ w \in Volumes
  BY FineParts DEF Aside
<1>1. /\ All(w) = All(v) /\ \A p \in All(v) : At(w, p) = At(v, p) /\ Frame(v, F, w, F, p)
      /\ \A t \in Tables : t # c => /\ IsTable(w, t) <=> IsTable(v, t)
                                    /\ Used(w, t) = Used(v, t)
  BY <1>0, AsideSame
<1>2. \A p \in All(v) : Own(w, Clst(w, F, p)) = Own(v, Clst(v, F, p)) /\ ObjectLaid(w, F, p)
  BY <1>0, <1>1, FrameLaid
<1>3. \A x : Unowned(v, F, x) => Unowned(w, F, x)
  BY <1>1, <1>2 DEF Unowned
<1>4. IsTable(w, 0) /\ Reach(v) \subseteq Reach(w)
  BY AsideReach
<1>5. NoFreeTable(w)
  <2>1. ASSUME NEW x \in Clusters, IsTable(w, x)  PROVE w.fat[x] # 0
    <3>1. CASE x = c
      BY <2>1, <3>1 DEF Aside
    <3>2. CASE x # c
      BY <1>0, <1>1, <2>1, <3>2, Constants DEF Aside, NoFreeTable
    <3> QED BY <3>1, <3>2
  <2> QED BY <2>1 DEF NoFreeTable
<1>6. Laid(w, F)
  BY <1>0, <1>1, <1>2, <1>4, <1>5 DEF Laid, ChainsApart, NamesApart
<1>7. Rooted(w)
  <2>1. ASSUME NEW t \in Tables, IsTable(w, t), Used(w, t) # {}  PROVE t \in Reach(w)
    <3>1. t # c
      BY <2>1 DEF Aside
    <3>2. IsTable(v, t) /\ Used(v, t) # {}
      BY <1>1, <2>1, <3>1
    <3> QED BY <1>0, <1>4, <3>2 DEF Rooted
  <2> QED BY <2>1 DEF Rooted
<1>8. FilsFit(w, F, sh)
  <2>1. ASSUME NEW g \in Fils, F[g].open
        PROVE  FilFits(w, F[g], sh)
    <3>1. FilFits(v, F[g], sh) /\ Place(F[g]) \in All(v)
      BY <1>0, <2>1 DEF FilsFit, FilFits
    <3>2. Clst(v, F, Place(F[g])) = F[g].clst
      BY <1>0, <2>1, HolderIs
    <3>3. Own(w, F[g].clst) = Own(v, F[g].clst)
      <4>1. Clst(w, F, Place(F[g])) = F[g].clst
        BY <1>1, <3>1, <3>2 DEF Frame
      <4> QED BY <1>2, <3>1, <3>2, <4>1
    <3> QED BY <1>1, <3>1, <3>3 DEF FilFits
  <2> QED BY <1>0, <2>1 DEF FilsFit
<1> QED BY <1>0, <1>3, <1>6, <1>7, <1>8 DEF Fine
-----------------------------------------------------------------------------
(* Objects, places and sequences of changes *)

\* Only f has an object at the place of o.
LEMMA HolderSet ==
    ASSUME NEW v, NEW F, NEW sh, Fine(v, F, sh), NEW f \in Fils, NEW o \in FilRecs, o.open,
           NEW G, G = [F EXCEPT ![f] = o], ~ At(v, Place(o)).dir, At(v, Place(o)).id = o.id,
           \A g \in Fils : g # f /\ F[g].open => F[g].id # o.id
    PROVE  Clst(v, G, Place(o)) = o.clst /\ Size(v, G, Place(o)) = o.size
<1>0. F \in [Fils -> FilRecs]
  BY FineParts
<1>1. G[f] = o /\ \A g \in Fils : g # f => G[g] = F[g]
  BY <1>0, FilSet
<1>2. ASSUME NEW g \in Holders(G, Place(o))  PROVE g = f
  <2> SUFFICES ASSUME g # f  PROVE FALSE
    OBVIOUS
  <2>1. g \in Fils /\ F[g].open /\ Place(F[g]) = Place(o)
    BY <1>1 DEF Holders
  <2>2. FilFits(v, F[g], sh)
    BY <2>1, FineParts
  <2>3. F[g].id = o.id
    BY <2>1, <2>2 DEF FilFits
  <2> QED BY <2>1, <2>3
<1>3. f \in Holders(G, Place(o))
  BY <1>1 DEF Holders
<1>4. Holders(G, Place(o)) = {f}
  BY <1>2, <1>3
<1>5. (CHOOSE g \in Holders(G, Place(o)) : TRUE) = f
  BY <1>4
<1> QED BY <1>1, <1>4, <1>5 DEF Clst, Size

\* A file is opened, or its object set.
FilePut(v, F, sh, f, o, G, sg) ==
    /\ Fine(v, F, sh) /\ f \in Fils /\ o \in FilRecs /\ o.open /\ G = [F EXCEPT ![f] = o]
    /\ F[f].open => Place(F[f]) = Place(o)
    /\ \A g \in Fils : g # f /\ F[g].open => F[g].id # o.id
    /\ \A g \in Fils : g # f /\ F[g].open /\ F[g].id \in sh => F[g].id \in sg
    /\ FilFits(v, o, sg) /\ Chained(v, o.clst) /\ Len(Chain(v, o.clst)) >= o.size
    /\ \A x \in Own(v, o.clst) :
          x \in Own(v, Clst(v, F, Place(o))) \/ (Unowned(v, F, x) /\ ~ IsTable(v, x))

\* The volume is fine with it, and what the file loses is nobody's.
LEMMA FileSet ==
    ASSUME NEW v, NEW F, NEW sh, NEW f, NEW o, NEW G, NEW sg, FilePut(v, F, sh, f, o, G, sg)
    PROVE  /\ Fine(v, G, sg)
           /\ \A x : /\ Unowned(v, F, x) \/ x \in Own(v, Clst(v, F, Place(o)))
                    /\ x \notin Own(v, o.clst)
                    => Unowned(v, G, x)
<1> USE DEF FilePut
<1> DEFINE q == Place(o)
<1>1. q \in All(v) /\ ~ At(v, q).dir /\ At(v, q).id = o.id
  BY DEF FilFits
<1>2. Clst(v, G, q) = o.clst /\ Size(v, G, q) = o.size
  <2>1. Fine(v, F, sh) /\ f \in Fils /\ o \in FilRecs /\ G = [F EXCEPT ![f] = o]
    OBVIOUS
  <2>2. o.open
    OBVIOUS
  <2>3. ~ At(v, Place(o)).dir /\ At(v, Place(o)).id = o.id
    BY <1>1
  <2>4. \A g \in Fils : g # f /\ F[g].open => F[g].id # o.id
    OBVIOUS
  <2> QED BY ONLY <2>1, <2>2, <2>3, <2>4, HolderSet
<1>3. ObjectLaid(v, F, q)
  BY <1>1, FineParts
<1>4. \A x \in Own(v, o.clst) : ~ IsTable(v, x)
  BY <1>1, <1>3 DEF ObjectLaid, FileLaid
<1>5. ObjectLaid(v, G, q)
  BY <1>1, <1>2, <1>4 DEF ObjectLaid, FileLaid
<1>6. \A x \in Own(v, Clst(v, G, q)) : x \in Own(v, Clst(v, F, q)) \/ Unowned(v, F, x)
  BY <1>2
<1>7. (F[f].open => Place(F[f]) = q) /\ (o.open => Place(o) = q)
  OBVIOUS
<1> HIDE DEF q
<1>8. Fine(v, G, sg)
  <2>1. o.open => FilFits(v, o, sg)
    OBVIOUS
  <2>2. o.open => \A g \in Fils : g # f /\ F[g].open => F[g].id # o.id
    OBVIOUS
  <2>3. Fine(v, F, sh) /\ f \in Fils /\ o \in FilRecs /\ q \in All(v)
    BY <1>1
  <2>4. G = [F EXCEPT ![f] = o]
    OBVIOUS
  <2>5. \A g \in Fils : g # f /\ F[g].open /\ F[g].id \in sh => F[g].id \in sg
    OBVIOUS
  <2>6. F[f].open => Place(F[f]) = q
    BY <1>7
  <2>7. o.open => Place(o) = q
    BY <1>7
  <2>8. ObjectSet(v, F, sh, f, o, q, G, sg)
    BY ONLY <1>5, <1>6, <2>1, <2>2, <2>3, <2>4, <2>5, <2>6, <2>7 DEF ObjectSet
  <2> QED BY <2>8, SameVolume
<1>9. ASSUME NEW x, Unowned(v, F, x) \/ x \in Own(v, Clst(v, F, q)), x \notin Own(v, o.clst)
      PROVE  Unowned(v, G, x)
  <2> SUFFICES ASSUME NEW p \in All(v)  PROVE x \notin Own(v, Clst(v, G, p))
    BY DEF Unowned
  <2>1. CASE p = q
    BY <1>2, <1>9, <2>1
  <2>2. CASE p # q
    <3>1. F \in [Fils -> FilRecs]
      BY FineParts
    <3>2. G[f] = o /\ \A g \in Fils : g # f => G[g] = F[g]
      BY <3>1, FilSet
    <3>3. (F[f].open => Place(F[f]) # p) /\ (G[f].open => Place(G[f]) # p) /\ At(v, p) = At(v, p)
      BY <1>7, <2>2, <3>2
    <3>4. Clst(v, G, p) = Clst(v, F, p)
      <4>1. \A g \in Fils : g # f => G[g] = F[g]
        BY <3>2
      <4> QED BY ONLY <3>3, <4>1, ClstApart
    <3>5. x \notin Own(v, Clst(v, F, p))
      <4>1. ChainsApart(v, F)
        BY FineParts
      <4> QED BY <1>1, <1>9, <2>2, <4>1 DEF ChainsApart, Unowned
    <3> QED BY <3>4, <3>5
  <2> QED BY <2>1, <2>2
<1> QED BY <1>8, <1>9 DEF q

\* A file that was not changed is closed.
LEMMA FileClosed ==
    ASSUME NEW v, NEW F, NEW sh, Fine(v, F, sh), NEW f \in Fils, F[f].open, ~ F[f].mod,
           NEW G, G = [F EXCEPT ![f] = Closed], NEW sg, sh \ {F[f].id} \subseteq sg
    PROVE  Fine(v, G, sg)
<1> DEFINE q == Place(F[f])
<1>0. F \in [Fils -> FilRecs] /\ FilsFit(v, F, sh) /\ FilFits(v, F[f], sh) /\ q \in All(v)
  BY FineParts
<1>1. ~ At(v, q).dir /\ At(v, q).clst = F[f].clst /\ At(v, q).size = F[f].size
  BY <1>0 DEF FilFits
<1>2. Clst(v, F, q) = F[f].clst /\ Size(v, F, q) = F[f].size /\ Holders(F, q) = {f}
  BY <1>0, HolderIs
<1>3. G[f] = Closed /\ \A g \in Fils : g # f => G[g] = F[g]
  BY <1>0, ClosedTyped, FilSet
<1>4. Holders(G, q) = {}
  <2>1. \A g \in Fils : g # f /\ F[g].open => Place(F[g]) # q
    BY <1>2 DEF Holders
  <2> QED BY <1>3, <2>1, ClosedTyped DEF Holders
<1>5. Clst(v, G, q) = Clst(v, F, q) /\ Size(v, G, q) = Size(v, F, q)
  BY <1>1, <1>2, <1>4, HolderNone
<1>6. ObjectLaid(v, G, q)
  <2>1. ObjectLaid(v, F, q)
    BY <1>0, FineParts
  <2> QED BY <1>5, <2>1 DEF ObjectLaid, FileLaid
<1>7. \A x \in Own(v, Clst(v, G, q)) : x \in Own(v, Clst(v, F, q)) \/ Unowned(v, F, x)
  BY <1>5
<1>8. /\ F[f].open => Place(F[f]) = q
      /\ Closed.open => Place(Closed) = q
      /\ Closed.open => FilFits(v, Closed, sg)
      /\ Closed.open => \A g \in Fils : g # f /\ F[g].open => F[g].id # Closed.id
  BY ClosedTyped
<1>9. \A g \in Fils : g # f /\ F[g].open /\ F[g].id \in sh => F[g].id \in sg
  BY <1>0 DEF FilsFit, IdsApart
<1>10. Fine(v, F, sh) /\ f \in Fils /\ G = [F EXCEPT ![f] = Closed] /\ q \in All(v) /\ Closed \in FilRecs
  BY <1>0, ClosedTyped
<1> HIDE DEF q
<1>11. ObjectSet(v, F, sh, f, Closed, q, G, sg)
  BY ONLY <1>6, <1>7, <1>8, <1>9, <1>10 DEF ObjectSet
<1> QED BY <1>11, SameVolume

\* A place that a path leads to.
LEMMA PlaceIs ==
    ASSUME NEW v, IsTable(v, 0), NEW p \in Places(v)
    PROVE  /\ p \in All(v) /\ p \in Spots /\ p[1] \in Reach(v) /\ p[1] \in Tables /\ p[2] \in 1 .. Slots
           /\ IsTable(v, p[1]) /\ p = <<p[1], p[2]>> /\ At(v, p) = Entry(v, p[1], p[2])
<1>1. p \in Reach(v) \X (1 .. Slots) /\ p[2] \in Used(v, p[1])
  BY DEF Places
<1>2. p[1] \in Reach(v) /\ p[2] \in 1 .. Slots /\ p = <<p[1], p[2]>>
  BY <1>1
<1>3. p[1] \in Tables /\ IsTable(v, p[1])
  BY <1>2, ReachTables
<1>4. Entry(v, p[1], p[2]) # Unused
  BY <1>1 DEF Used
<1> QED BY <1>2, <1>3, <1>4, SpotIs DEF At

\* Every file or directory is at one.
LEMMA AllPlaces ==
    ASSUME NEW v, NEW F, NEW sh, Fine(v, F, sh), NEW p \in All(v)
    PROVE  p \in Places(v)
<1>1. p[1] \in Reach(v) /\ v \in Volumes
  BY FineParts
<1>2. p[2] \in 1 .. Slots /\ p = <<p[1], p[2]>> /\ At(v, p) # Unused
  BY <1>1, AllTyped
<1> QED BY <1>1, <1>2 DEF Places, Used, At

\* When no call runs.
LEMMA IdleIs ==
    ASSUME Inv, ~ hurt, call = Idle
    PROVE  /\ Fine(now, fil, shrunk) /\ now \in Volumes /\ IsTable(now, 0)
           /\ \A p \in Places(now) : At(now, p).id \in Known
           /\ \A f \in Fils : fil[f].open => fil[f].id \in Known
<1>1. Fine(now, fil, shrunk)
  BY DEF Inv, IdleFine, BusyFine, Idle, Ops
<1>2. \A p \in Places(now) : At(now, p).id \in Known
  BY DEF Known
<1>3. ASSUME NEW f \in Fils, fil[f].open  PROVE fil[f].id \in Known
  <2>1. FilFits(now, fil[f], shrunk)
    BY <1>1, <1>3, FineParts
  <2>2. Place(fil[f]) \in Places(now) /\ At(now, Place(fil[f])).id = fil[f].id
    BY <1>1, <2>1, AllPlaces DEF FilFits
  <2> QED BY <1>2, <2>2
<1> QED BY <1>1, <1>2, <1>3, FineParts

\* The first free entry.
LEMMA RoomIs ==
    ASSUME NEW t, Room(t) # 0
    PROVE  Room(t) \in 1 .. Slots /\ Entry(now, t, Room(t)) = Unused
<1> DEFINE free == (1 .. Slots) \ Used(now, t)
<1>1. free # {}
  BY DEF Room
<1>2. \E s \in free : \A r \in free : s <= r
  <2>1. free \in SUBSET Nat
    OBVIOUS
  <2> HIDE DEF free
  <2> QED BY <1>1, <2>1, Least
<1>3. Room(t) = CHOOSE s \in free : \A r \in free : s <= r
  BY <1>1 DEF Room
<1>4. Room(t) \in free
  <2> HIDE DEF free
  <2> QED BY <1>2, <1>3
<1> QED BY <1>4 DEF Used

\* A change and those after it.
LEMMA ConsIs ==
    ASSUME NEW S, NEW r \in Seq(S), NEW a
    PROVE  <<a>> \o r # <<>> /\ Head(<<a>> \o r) = a /\ Tail(<<a>> \o r) = r
<1> DEFINE T == S \cup {a}
           s == <<a>> \o r
<1>1. r \in Seq(T) /\ <<a>> \in Seq(T) /\ Len(<<a>>) = 1 /\ <<a>>[1] = a
  OBVIOUS
<1>2. Len(r) \in Nat
  BY <1>1, LenProperties
<1>3. s \in Seq(T) /\ Len(s) = 1 + Len(r) /\ \A i \in 1 .. Len(s) : s[i] = IF i <= 1 THEN a ELSE r[i - 1]
  BY <1>1, <1>2, ConcatProperties
<1> HIDE DEF s
<1>4. s # <<>>
  BY <1>2, <1>3
<1>5. Head(s) = a
  <2>1. Head(s) = s[1]
    BY <1>3, <1>4
  <2> QED BY <1>2, <1>3, <2>1
<1>6. Tail(s) \in Seq(T) /\ Len(Tail(s)) = Len(r) /\ \A i \in 1 .. Len(r) : Tail(s)[i] = s[i + 1]
  <2>1. /\ Tail(s) \in Seq(T) /\ Len(Tail(s)) = Len(s) - 1
        /\ \A i \in 1 .. Len(Tail(s)) : Tail(s)[i] = s[i + 1]
    BY <1>3, <1>4, HeadTailProperties
  <2> QED BY <1>2, <1>3, <2>1
<1>7. \A i \in 1 .. Len(r) : Tail(s)[i] = r[i]
  BY <1>2, <1>3, <1>6
<1>8. Tail(s) = r
  BY <1>1, <1>6, <1>7, SeqEqual
<1> QED BY <1>4, <1>5, <1>8 DEF s

\* The changes that matter with neither file objects: ...
Calm(v, F, G) == Quiets(v, F) \cap Quiets(v, G)

\* ... freeing spare clusters does not, ...
LEMMA FreeAllCalm ==
    ASSUME NEW v, NEW F, NEW G, NEW s \in Seq(Spare(v, F) \cap Spare(v, G))
    PROVE  FreeAll(s) \in Seq(Calm(v, F, G))
<1>1. Len(s) \in Nat /\ \A i \in 1 .. Len(s) : s[i] \in Spare(v, F) /\ s[i] \in Spare(v, G)
  BY LenProperties, ElementOfSeq
<1>2. \A i \in 1 .. Len(s) : SetFat(s[i], 0) \in Calm(v, F, G)
  BY <1>1 DEF Calm, Quiets
<1> QED BY <1>1, <1>2 DEF FreeAll

\* ... nor does writing a file's buffer, ...
LEMMA WriteBufferCalm ==
    ASSUME NEW v, NEW F, NEW G, NEW o \in FilRecs, o.open, o.dirty # 0 => ~ IsTable(v, o.dirty)
    PROVE  WriteBuffer(o) \in Seq(Calm(v, F, G))
<1>1. o.dirty \in {0} \cup Clusters /\ Data(o.id, o.part) \in DataHolds
  BY FilTyped DEF Data, DataHolds
<1>2. CASE o.dirty = 0
  BY <1>2 DEF WriteBuffer
<1>3. CASE o.dirty # 0
  <2>1. Put(o.dirty, Data(o.id, o.part)) \in Calm(v, F, G)
    BY <1>1, <1>3 DEF Calm, Quiets
  <2> QED BY <1>3, <2>1 DEF WriteBuffer
<1> QED BY <1>2, <1>3

\* ... nor reading another sector.
LEMMA MoveCalm ==
    ASSUME NEW v, NEW F, NEW G
    PROVE  /\ \A t \in Tables : <<Move(TableSector(t))>> \in Seq(Calm(v, F, G))
           /\ <<Sync>> \in Seq(Calm(v, F, G)) /\ <<>> \in Seq(Calm(v, F, G))
<1>1. \A t \in Tables : Move(TableSector(t)) \in Calm(v, F, G)
  BY DEF Calm, Quiets
<1>2. Sync \in Calm(v, F, G)
  BY DEF Calm, Quiets, Sync, Move
<1> QED BY <1>1, <1>2
-----------------------------------------------------------------------------
(* The start of a call *)

\* Sequences that are put together.
LEMMA ConsOn ==
    ASSUME NEW S, NEW r \in Seq(S), NEW u \in Seq(S), NEW a
    PROVE  (<<a>> \o r) \o u = <<a>> \o (r \o u) /\ r \o u \in Seq(S)
<1> DEFINE T == S \cup {a}
<1>1. r \in Seq(T) /\ u \in Seq(T) /\ <<a>> \in Seq(T)
  OBVIOUS
<1> HIDE DEF T
<1> QED BY <1>1, ConcatAssociative, ConcatProperties

\* A sequence whose elements are in T.
LEMMA SeqIn ==
    ASSUME NEW S, NEW T, NEW s \in Seq(S), \A i \in 1 .. Len(s) : s[i] \in T
    PROVE  s \in Seq(T)
<1>1. Len(s) \in Nat /\ s \in [1 .. Len(s) -> S]
  BY LenProperties
<1>2. s \in [1 .. Len(s) -> T]
  BY <1>1
<1> QED BY <1>1, <1>2, SeqDef

\* A change that goes, before others that are safe.
LEMMA SafeCons ==
    ASSUME NEW j, NEW v, NEW w, NEW ch, NEW S, NEW rest \in Seq(S), Goes(j, v, w, ch),
           NEW v1, v1 = Changed(v, ch), NEW w1, w1 = WinAfter(w, ch)
    PROVE  /\ <<ch>> \o rest # <<>>
           /\ Safe0(j, v1, w1, rest) => Safe1(j, v, w, <<ch>> \o rest)
           /\ Safe1(j, v1, w1, rest) => Safe2(j, v, w, <<ch>> \o rest)
           /\ Safe2(j, v1, w1, rest) => Safe3(j, v, w, <<ch>> \o rest)
           /\ Safe3(j, v1, w1, rest) => Safe4(j, v, w, <<ch>> \o rest)
<1> DEFINE todo == <<ch>> \o rest
<1>1. todo # <<>> /\ Head(todo) = ch /\ Tail(todo) = rest
  BY ConsIs
<1> HIDE DEF todo
<1>2. /\ Safe0(j, v1, w1, rest) => Safe1(j, v, w, todo)
      /\ Safe1(j, v1, w1, rest) => Safe2(j, v, w, todo)
  BY <1>1 DEF Safe1, Safe2
<1>3. /\ Safe2(j, v1, w1, rest) => Safe3(j, v, w, todo)
      /\ Safe3(j, v1, w1, rest) => Safe4(j, v, w, todo)
  BY <1>1 DEF Safe3, Safe4
<1> QED BY <1>1, <1>2, <1>3 DEF todo

\* Nothing is left to do that matters, in a call that does not end with a sync_fs.
LEMMA SafeCalm ==
    ASSUME NEW j, NEW v, NEW w, NEW todo \in Seq(Calm(v, j.cur, j.then)),
           Fine(v, j.cur, j.sh), Fine(v, j.then, j.sg),
           j.op \in {"rename", "sync"} => (todo = <<>> /\ w = NoSector) \/ todo = <<Sync>>
    PROVE  Safe0(j, v, w, todo)
  BY DEF Safe0, Calm

\* What is to be shown of the start of a call on the volume v with the sector w in the
\* window, when the file objects are F and the files sg are cut.
Starts(v, w, F, op, f, leaves, todo, sg) ==
    LET j == JobOf(op, f, leaves, F, sg)
    IN  /\ op \in Ops
        /\ todo = <<>> => Fine(v, j.then, sg)
        /\ todo # <<>> => Safe(j, v, w, todo) /\ (op # "rename" => Fine(v, j.cur, sg))

\* A call that starts so keeps the invariant.
LEMMA BeginStarts ==
    ASSUME Inv, ~ hurt, NEW op, NEW f, NEW leaves, NEW todo, Begin(op, f, leaves, todo),
           shrunk \subseteq shrunk', Starts(now, win, fil, op, f, leaves, todo, shrunk')
    PROVE  Inv'
<1>1. JobOf(op, f, leaves, fil, shrunk').then = IF f \in Fils THEN [fil EXCEPT ![f] = leaves] ELSE fil
  BY DEF JobOf
<1>2. op \in Ops /\ todo = <<>> => Fine(now, IF f \in Fils THEN [fil EXCEPT ![f] = leaves] ELSE fil, shrunk')
  BY <1>1 DEF Starts
<1>3. LET j == JobOf(op, f, leaves, fil, shrunk')
      IN  todo # <<>> => /\ Safe(j, now, win, todo)
                         /\ op # "rename" => Fine(now, j.cur, shrunk')
  BY DEF Starts
<1>4. op \in Ops
  BY DEF Starts
<1> QED BY <1>2, <1>3, <1>4, BeginInv
-----------------------------------------------------------------------------
(* f_open *)

\* The object of an entry.
LEMMA NewFilTyped ==
    ASSUME NEW e \in Entries, e # Unused, ~ e.dir, NEW t \in Tables, NEW s \in 1 .. Slots
    PROVE  NewFil(e, t, s, TRUE) \in FilRecs /\ NewFil(e, t, s, FALSE) \in FilRecs
<1>1. e.id \in Ids /\ e.clst \in {0} \cup Clusters /\ e.size \in Nat
  BY EntryTyped
<1> QED BY <1>1 DEF NewFil, OpenFils, FilRecs

\* A file that is not open.
Unheld(v, F, p) == \A g \in Fils : F[g].open => F[g].id # At(v, p).id

\* Its entry is right, and its clusters hold no table.
LEMMA UnheldIs ==
    ASSUME NEW v, NEW F, NEW sh, Fine(v, F, sh), NEW p \in All(v), ~ At(v, p).dir, Unheld(v, F, p)
    PROVE  /\ Holders(F, p) = {} /\ Clst(v, F, p) = At(v, p).clst /\ Size(v, F, p) = At(v, p).size
           /\ FileLaid(v, F, p) /\ Chained(v, At(v, p).clst)
           /\ Len(Chain(v, At(v, p).clst)) >= At(v, p).size
           /\ \A x \in Own(v, At(v, p).clst) : ~ IsTable(v, x)
<1>1. ASSUME NEW g \in Holders(F, p)  PROVE FALSE
  <2>1. g \in Fils /\ F[g].open /\ Place(F[g]) = p
    BY DEF Holders
  <2>2. FilFits(v, F[g], sh)
    BY <2>1, FineParts
  <2> QED BY <2>1, <2>2 DEF FilFits, Unheld
<1>2. Clst(v, F, p) = At(v, p).clst /\ Size(v, F, p) = At(v, p).size
  BY <1>1, HolderNone
<1>3. ObjectLaid(v, F, p)
  BY FineParts
<1> QED BY <1>1, <1>2, <1>3 DEF ObjectLaid, FileLaid

\* Opening a file that is there.
LEMMA OpenStarts ==
    ASSUME NEW v, NEW F, NEW sh, Fine(v, F, sh), NEW w, NEW f \in Fils, ~ F[f].open,
           NEW p \in Places(v), NEW e, e = At(v, p), ~ e.dir, Unheld(v, F, p),
           NEW o, o = NewFil(e, p[1], p[2], FALSE)
    PROVE  Starts(v, w, F, "open", f, o, <<>>, sh)
<1>0. IsTable(v, 0) /\ v \in Volumes /\ F \in [Fils -> FilRecs]
  BY FineParts
<1>1. /\ p \in All(v) /\ p[1] \in Tables /\ p[2] \in 1 .. Slots /\ p = <<p[1], p[2]>>
      /\ e \in Entries /\ e # Unused
  BY <1>0, PlaceIs, AllTyped
<1>2. /\ o \in FilRecs /\ o.open /\ o.id = e.id /\ o.clst = e.clst /\ o.size = e.size
      /\ o.dirty = 0 /\ Place(o) = p
  <2>1. /\ o \in FilRecs /\ o.open /\ o.id = e.id /\ o.clst = e.clst /\ o.size = e.size
        /\ o.dirty = 0 /\ Place(o) = <<p[1], p[2]>>
    BY <1>1, NewFilTyped DEF NewFil, Place
  <2> QED BY <1>1, <2>1
<1>3. /\ Chained(v, e.clst) /\ Len(Chain(v, e.clst)) >= e.size /\ Clst(v, F, p) = e.clst
  BY <1>1, UnheldIs
<1>c. e = At(v, p) /\ ~ e.dir
  OBVIOUS
<1>4. FilFits(v, o, sh)
  BY ONLY <1>1, <1>2, <1>c, EntryTyped DEF FilFits
<1> DEFINE G == [F EXCEPT ![f] = o]
<1>d. Fine(v, F, sh) /\ f \in Fils /\ ~ F[f].open /\ Unheld(v, F, p)
  OBVIOUS
<1>5. FilePut(v, F, sh, f, o, G, sh)
  BY ONLY <1>2, <1>3, <1>4, <1>c, <1>d DEF FilePut, Unheld
<1>6. Fine(v, G, sh)
  BY <1>5, FileSet
<1> QED BY <1>6 DEF Starts, JobOf, Ops

\* f_open of a file that is there keeps the invariant.
LEMMA OpenInv ==
    ASSUME Inv, ~ hurt, call = Idle, NEW f \in Fils, NEW p \in Places(now), OpenExisting(f, p[1], p[2])
    PROVE  Inv'
<1>0. Fine(now, fil, shrunk) /\ IsTable(now, 0)
  BY IdleIs
<1>1. At(now, p) = Entry(now, p[1], p[2])
  BY DEF At
<1>2. /\ ~ fil[f].open /\ ~ At(now, p).dir /\ Unheld(now, fil, p) /\ shrunk' = shrunk
      /\ Begin("open", f, NewFil(At(now, p), p[1], p[2], FALSE), <<>>)
  BY <1>1 DEF OpenExisting, InUse, Open, Unheld
<1>3. Starts(now, win, fil, "open", f, NewFil(At(now, p), p[1], p[2], FALSE), <<>>, shrunk)
  BY <1>0, <1>2, OpenStarts
<1> QED BY <1>2, <1>3, BeginStarts

\* The file object f is free, and the name and the identity are for the entry q of table t.
MayEnter(v, F, sh, f, t, s, q, name, id) ==
    /\ Fine(v, F, sh) /\ f \in Fils /\ ~ F[f].open
    /\ t \in Reach(v) /\ s \in 1 .. Slots /\ q = <<t, s>> /\ name \in Names /\ id \in Ids
    /\ Holders(F, q) = {} /\ (q \in All(v) => ~ At(v, q).dir)
    /\ \A p \in All(v) : p # q /\ p[1] = t => At(v, p).name # name
    /\ \A g \in Fils : F[g].open => F[g].id # id

\* A file without clusters is entered there.
LEMMA EnterFine ==
    ASSUME NEW v, NEW F, NEW sh, NEW f, NEW t, NEW s, NEW q, NEW name, NEW id,
           MayEnter(v, F, sh, f, t, s, q, name, id),
           NEW n, n = File(name, id, 0, 0), NEW v1, v1 = Changed(v, SetEntry(t, s, n))
    PROVE  /\ Fine(v1, F, sh) /\ n \in Entries /\ n # Unused /\ t \in Tables /\ IsTable(v, t)
           /\ q \in All(v1) /\ At(v1, q) = n /\ Clst(v1, F, q) = 0
           /\ \A x \in Tables : IsTable(v1, x) <=> IsTable(v, x)
           /\ q \in All(v) => \A x \in Own(v, Clst(v, F, q)) : Unowned(v1, F, x)
<1>m. /\ Fine(v, F, sh) /\ f \in Fils /\ ~ F[f].open
      /\ t \in Reach(v) /\ s \in 1 .. Slots /\ q = <<t, s>> /\ name \in Names /\ id \in Ids
      /\ Holders(F, q) = {} /\ (q \in All(v) => ~ At(v, q).dir)
      /\ \A p \in All(v) : p # q /\ p[1] = t => At(v, p).name # name
  BY DEF MayEnter
<1>0. v \in Volumes /\ Laid(v, F) /\ IsTable(v, 0)
  BY <1>m, FineParts
<1>1. t \in Tables /\ IsTable(v, t)
  BY <1>0, <1>m, ReachTables
<1>2. /\ n \in Entries /\ n # Unused /\ ~ n.dir /\ n.clst = 0 /\ n.size = 0 /\ n.name = name
  BY <1>m, NewEntries
<1>c. v1 = Changed(v, SetEntry(t, s, n))
  OBVIOUS
<1>3. /\ q \in All(v1) /\ At(v1, q) = n /\ q[1] = t
      /\ \A x \in Tables : IsTable(v1, x) <=> IsTable(v, x)
  BY ONLY <1>0, <1>1, <1>2, <1>m, <1>c, EntrySpots
<1>4. Clst(v1, F, q) = 0 /\ Size(v1, F, q) = 0
  BY <1>2, <1>3, <1>m, HolderNone
<1>5. Own(v1, 0) = {} /\ Chained(v1, 0) /\ Len(Chain(v1, 0)) = 0
  BY ChainNone
<1>6. ObjectLaid(v1, F, q)
  BY ONLY <1>2, <1>3, <1>4, <1>5 DEF ObjectLaid, FileLaid
<1>7. EntryFits(v, F, t, q, n, v1)
  BY ONLY <1>2, <1>4, <1>5, <1>6, <1>m DEF EntryFits
<1>8. \A g \in Fils : F[g].open /\ Place(F[g]) = q => FilFits(v1, F[g], sh)
  BY ONLY <1>m DEF Holders
<1>9. EntryPut(v, F, sh, t, s, n, q, v1)
  BY ONLY <1>1, <1>2, <1>7, <1>8, <1>m, <1>c DEF EntryPut
<1>10. Fine(v1, F, sh)
  BY <1>9, EntrySet
<1>11. ASSUME q \in All(v), NEW x \in Own(v, Clst(v, F, q))  PROVE Unowned(v1, F, x)
  <2>1. (q \in All(v) /\ x \in Own(v, Clst(v, F, q))) \/ Unowned(v, F, x)
    BY <1>11
  <2>2. n # Unused => x \notin Own(v1, Clst(v1, F, q))
    BY <1>4, <1>5
  <2> QED BY ONLY <1>0, <1>1, <1>2, <1>m, <1>c, <2>1, <2>2, EntryLeft
<1> QED BY <1>1, <1>2, <1>3, <1>4, <1>10, <1>11

\* And opened.
LEMMA EnterOpen ==
    ASSUME NEW v, NEW F, NEW sh, NEW f, NEW t, NEW s, NEW q, NEW name, NEW id,
           MayEnter(v, F, sh, f, t, s, q, name, id),
           NEW n, n = File(name, id, 0, 0), NEW v1, v1 = Changed(v, SetEntry(t, s, n)),
           NEW o, o = NewFil(n, t, s, TRUE), NEW G, G = [F EXCEPT ![f] = o]
    PROVE  /\ Fine(v1, G, sh)
           /\ q \in All(v) => \A x \in Own(v, Clst(v, F, q)) : Unowned(v1, G, x)
<1>m. /\ f \in Fils /\ ~ F[f].open /\ s \in 1 .. Slots /\ q = <<t, s>> /\ id \in Ids
      /\ \A g \in Fils : F[g].open => F[g].id # id
  BY DEF MayEnter
<1>1. /\ Fine(v1, F, sh) /\ n \in Entries /\ n # Unused /\ t \in Tables /\ IsTable(v, t)
      /\ q \in All(v1) /\ At(v1, q) = n
      /\ q \in All(v) => \A x \in Own(v, Clst(v, F, q)) : Unowned(v1, F, x)
  BY EnterFine
<1>2. ~ n.dir /\ n.id = id /\ n.clst = 0 /\ n.size = 0
  BY DEF File
<1>3. /\ o \in FilRecs /\ o.open /\ o.id = id /\ o.clst = 0 /\ o.size = 0 /\ o.mod
      /\ o.dirty = 0 /\ Place(o) = q
  BY <1>1, <1>2, <1>m, NewFilTyped DEF NewFil, Place
<1>4. Own(v1, 0) = {} /\ Chained(v1, 0) /\ Len(Chain(v1, 0)) = 0
  BY ChainNone
<1>5. FilFits(v1, o, sh)
  BY ONLY <1>1, <1>2, <1>3 DEF FilFits
<1>g. G = [F EXCEPT ![f] = o]
  OBVIOUS
<1>6. FilePut(v1, F, sh, f, o, G, sh)
  BY ONLY <1>1, <1>3, <1>4, <1>5, <1>m, <1>g DEF FilePut
<1>7. Fine(v1, G, sh) /\ \A x : Unowned(v1, F, x) /\ x \notin Own(v1, o.clst) => Unowned(v1, G, x)
  BY <1>6, FileSet
<1> QED BY <1>1, <1>3, <1>4, <1>7

PlainOps == {"open", "write", "truncate", "unlink", "mkdir"}

\* A call of one change that matters, and others that do not.
LEMMA StartsOne ==
    ASSUME NEW v, NEW w, NEW F, NEW op \in PlainOps, NEW f, NEW leaves, NEW sg,
           NEW j, j = JobOf(op, f, leaves, F, sg), Fine(v, j.cur, sg), NEW ch, Legal(v, w, ch),
           NEW v1, v1 = Changed(v, ch), Fine(v1, j.cur, sg), Fine(v1, j.then, sg),
           NEW rest \in Seq(Calm(v1, j.cur, j.then))
    PROVE  Starts(v, w, F, op, f, leaves, <<ch>> \o rest, sg)
<1>1. j.op = op /\ j.sh = sg /\ j.sg = sg /\ op \notin {"rename", "sync"}
  BY DEF JobOf, PlainOps
<1>2. Goes(j, v, w, ch)
  BY <1>1 DEF Goes
<1>3. Safe0(j, v1, WinAfter(w, ch), rest)
  BY <1>1, SafeCalm
<1>4. <<ch>> \o rest # <<>> /\ Safe1(j, v, w, <<ch>> \o rest)
  BY <1>2, <1>3, SafeCons
<1>5. op \in Ops
  BY DEF PlainOps, Ops
<1> QED BY <1>4, <1>5 DEF Starts, Safe

\* A call without a change that matters.
LEMMA StartsNone ==
    ASSUME NEW v, NEW w, NEW F, NEW op \in PlainOps, NEW f, NEW leaves, NEW sg,
           NEW j, j = JobOf(op, f, leaves, F, sg), Fine(v, j.cur, sg), Fine(v, j.then, sg),
           NEW todo \in Seq(Calm(v, j.cur, j.then))
    PROVE  Starts(v, w, F, op, f, leaves, todo, sg)
<1>1. j.op = op /\ j.sh = sg /\ j.sg = sg /\ op \notin {"rename", "sync"}
  BY DEF JobOf, PlainOps
<1>2. Safe0(j, v, w, todo)
  BY <1>1, SafeCalm
<1>3. op \in Ops
  BY DEF PlainOps, Ops
<1> QED BY <1>2, <1>3 DEF Starts, Safe

\* Clusters that nobody owns, before the file object changes and after.
LEMMA SpareSeq ==
    ASSUME NEW v, NEW F, NEW G, NEW s \in Seq(Clusters),
           \A i \in 1 .. Len(s) : Unowned(v, F, s[i]) /\ Unowned(v, G, s[i]) /\ ~ IsTable(v, s[i])
    PROVE  FreeAll(s) \in Seq(Calm(v, F, G))
<1>1. \A i \in 1 .. Len(s) : s[i] \in Clusters
  BY LenProperties, ElementOfSeq
<1>2. \A i \in 1 .. Len(s) : s[i] \in Spare(v, F) \cap Spare(v, G)
  BY <1>1 DEF Spare
<1>3. s \in Seq(Spare(v, F) \cap Spare(v, G))
  BY <1>2, SeqIn
<1> QED BY <1>3, FreeAllCalm

\* f_open that makes a file, ...
LEMMA CreateStarts ==
    ASSUME NEW v, NEW F, NEW sh, NEW f, NEW t, NEW s, NEW q, NEW name, NEW id, NEW w,
           MayEnter(v, F, sh, f, t, s, q, name, id),
           NEW n, n = File(name, id, 0, 0), NEW o, o = NewFil(n, t, s, TRUE)
    PROVE  Starts(v, w, F, "open", f, o, <<SetEntry(t, s, n)>>, sh)
<1> DEFINE ch == SetEntry(t, s, n)
           v1 == Changed(v, ch)
           G == [F EXCEPT ![f] = o]
           j == JobOf("open", f, o, F, sh)
<1>1. /\ Fine(v1, F, sh) /\ n \in Entries /\ n # Unused /\ t \in Tables /\ IsTable(v, t)
  BY EnterFine
<1>2. Fine(v1, G, sh)
  BY EnterOpen
<1>3. f \in Fils /\ Fine(v, F, sh) /\ s \in 1 .. Slots
  BY DEF MayEnter
<1>4. j.cur = F /\ j.then = G
  BY <1>3 DEF JobOf
<1>5. Legal(v, w, ch)
  BY <1>1, <1>3 DEF Legal, LegalEntry
<1>6. <<>> \in Seq(Calm(v1, j.cur, j.then)) /\ <<ch>> \o <<>> = <<ch>>
  BY MoveCalm
<1> HIDE DEF v1, G, ch
<1>7. "open" \in PlainOps /\ v1 = Changed(v, ch)
  BY DEF PlainOps, v1
<1> HIDE DEF j
<1>8. j = JobOf("open", f, o, F, sh)
  BY DEF j
<1>9. Fine(v, j.cur, sh) /\ Fine(v1, j.cur, sh) /\ Fine(v1, j.then, sh)
  BY <1>1, <1>2, <1>3, <1>4
<1>10. Starts(v, w, F, "open", f, o, <<ch>> \o <<>>, sh)
  BY ONLY <1>5, <1>6, <1>7, <1>8, <1>9, StartsOne
<1> QED BY <1>6, <1>10 DEF ch

\* ... and that makes it anew.
LEMMA OverwriteStarts ==
    ASSUME NEW v, NEW F, NEW sh, Fine(v, F, sh), NEW w, NEW f \in Fils, ~ F[f].open,
           NEW p \in Places(v), NEW e, e = At(v, p), ~ e.dir, Unheld(v, F, p),
           NEW t, t = p[1], NEW s, s = p[2],
           NEW n, n = File(e.name, e.id, 0, 0), NEW o, o = NewFil(n, t, s, TRUE)
    PROVE  Starts(v, w, F, "open", f, o,
                  <<SetEntry(t, s, n)>> \o FreeAll(Chain(v, e.clst)) \o <<Move(TableSector(t))>>, sh)
<1> DEFINE ch == SetEntry(t, s, n)
           v1 == Changed(v, ch)
           G == [F EXCEPT ![f] = o]
           j == JobOf("open", f, o, F, sh)
           free == FreeAll(Chain(v, e.clst))
<1>0. IsTable(v, 0) /\ v \in Volumes /\ NamesApart(v)
  BY FineParts
<1>1. /\ p \in All(v) /\ t \in Tables /\ s \in 1 .. Slots /\ p = <<t, s>> /\ t \in Reach(v)
      /\ e \in Entries /\ e # Unused
  BY <1>0, PlaceIs, AllTyped
<1>2. e.id \in Ids /\ e.name \in Names
  BY <1>1, EntryTyped
<1>3. /\ Holders(F, p) = {} /\ Clst(v, F, p) = e.clst /\ Chained(v, e.clst)
      /\ \A x \in Own(v, e.clst) : ~ IsTable(v, x)
  BY <1>1, UnheldIs
<1>4. \A r \in All(v) : r # p /\ r[1] = t => At(v, r).name # e.name
  BY <1>0, <1>1 DEF NamesApart
<1>5. MayEnter(v, F, sh, f, t, s, p, e.name, e.id)
  BY <1>1, <1>2, <1>3, <1>4 DEF MayEnter, Unheld
<1>6. /\ Fine(v1, F, sh) /\ n \in Entries /\ IsTable(v, t)
      /\ \A x \in Tables : IsTable(v1, x) <=> IsTable(v, x)
      /\ p \in All(v) => \A x \in Own(v, Clst(v, F, p)) : Unowned(v1, F, x)
  BY <1>5, EnterFine
<1>7. Fine(v1, G, sh) /\ (p \in All(v) => \A x \in Own(v, Clst(v, F, p)) : Unowned(v1, G, x))
  BY <1>5, EnterOpen
<1>8. j.cur = F /\ j.then = G
  BY DEF JobOf
<1>9. Legal(v, w, ch)
  BY <1>1, <1>6 DEF Legal, LegalEntry
<1> HIDE DEF v1, G, ch
<1>10. free \in Seq(Calm(v1, F, G))
  <2>1. Chain(v, e.clst) \in Seq(Clusters) /\ Own(v, e.clst) \subseteq Clusters
        /\ \A i \in 1 .. Len(Chain(v, e.clst)) : Chain(v, e.clst)[i] \in Own(v, e.clst)
    BY <1>3, ChainTyped
  <2>2. \A x \in Own(v, e.clst) : Unowned(v1, F, x) /\ Unowned(v1, G, x) /\ ~ IsTable(v1, x)
    BY <1>1, <1>3, <1>6, <1>7, <2>1, Constants
  <2> QED BY <2>1, <2>2, SpareSeq
<1>11. <<Move(TableSector(t))>> \in Seq(Calm(v1, F, G))
  BY <1>1, MoveCalm
<1> HIDE DEF free
<1>12. /\ <<ch>> \o free \o <<Move(TableSector(t))>> = <<ch>> \o (free \o <<Move(TableSector(t))>>)
       /\ free \o <<Move(TableSector(t))>> \in Seq(Calm(v1, F, G))
  BY <1>10, <1>11, ConsOn
<1>13. "open" \in PlainOps /\ v1 = Changed(v, ch)
  BY DEF PlainOps, v1
<1> HIDE DEF j
<1>14. j = JobOf("open", f, o, F, sh)
  BY DEF j
<1>15. /\ Fine(v, j.cur, sh) /\ Fine(v1, j.cur, sh) /\ Fine(v1, j.then, sh)
       /\ free \o <<Move(TableSector(t))>> \in Seq(Calm(v1, j.cur, j.then))
  BY <1>6, <1>7, <1>8, <1>12
<1>16. Starts(v, w, F, "open", f, o, <<ch>> \o (free \o <<Move(TableSector(t))>>), sh)
  BY ONLY <1>9, <1>13, <1>14, <1>15, StartsOne
<1> QED BY <1>12, <1>16 DEF ch, free

\* A name that dir_find does not find.
LEMMA NotExists ==
    ASSUME NEW t, NEW name, ~ Exists(t, name), now \in Volumes, NEW p \in All(now), p[1] = t
    PROVE  At(now, p).name # name
<1>1. p[2] \in 1 .. Slots /\ At(now, p) # Unused
  BY AllTyped
<1>2. p[2] \in Used(now, t)
  BY <1>1 DEF Used, At
<1> QED BY <1>2 DEF Exists, At

\* What f_open needs to know of the first free entry.
LEMMA RoomEnter ==
    ASSUME Fine(now, fil, shrunk), NEW t \in Reach(now), Room(t) # 0, NEW q, q = <<t, Room(t)>>
    PROVE  /\ t \in Tables /\ IsTable(now, t) /\ Room(t) \in 1 .. Slots
           /\ Entry(now, t, Room(t)) = Unused /\ q \notin All(now) /\ Holders(fil, q) = {}
<1>1. t \in Tables /\ IsTable(now, t)
  BY FineParts, ReachTables
<1>2. Room(t) \in 1 .. Slots /\ Entry(now, t, Room(t)) = Unused
  BY RoomIs
<1>3. q \notin All(now)
  BY <1>1, <1>2, SpotIs
<1>4. \A g \in Fils : fil[g].open => Place(fil[g]) \in All(now)
  BY FineParts
<1>5. Holders(fil, q) = {}
  BY <1>3, <1>4 DEF Holders
<1> QED BY <1>1, <1>2, <1>3, <1>5

\* f_open that creates a file keeps the invariant.
LEMMA CreateInv ==
    ASSUME Inv, ~ hurt, call = Idle, NEW f \in Fils, NEW id \in Ids \ Known, NEW t \in Reach(now),
           NEW name \in Names, Create(f, t, name, id)
    PROVE  Inv'
<1>0. /\ Fine(now, fil, shrunk) /\ now \in Volumes
      /\ \A g \in Fils : fil[g].open => fil[g].id \in Known
  BY IdleIs
<1>1. /\ ~ fil[f].open /\ ~ Exists(t, name) /\ Room(t) # 0 /\ shrunk' = shrunk
      /\ Begin("open", f, NewFil(File(name, id, 0, 0), t, Room(t), TRUE),
               <<SetEntry(t, Room(t), File(name, id, 0, 0))>>)
  BY DEF Create
<1>2. /\ Room(t) \in 1 .. Slots /\ <<t, Room(t)>> \notin All(now)
      /\ Holders(fil, <<t, Room(t)>>) = {}
  BY <1>0, <1>1, RoomEnter
<1>3. \A p \in All(now) : p # <<t, Room(t)>> /\ p[1] = t => At(now, p).name # name
  BY <1>0, <1>1, NotExists
<1>4. MayEnter(now, fil, shrunk, f, t, Room(t), <<t, Room(t)>>, name, id)
  BY <1>0, <1>1, <1>2, <1>3 DEF MayEnter
<1>5. Starts(now, win, fil, "open", f, NewFil(File(name, id, 0, 0), t, Room(t), TRUE),
             <<SetEntry(t, Room(t), File(name, id, 0, 0))>>, shrunk)
  BY <1>4, CreateStarts
<1> QED BY <1>1, <1>5, BeginStarts

\* f_open that empties a file keeps the invariant.
LEMMA OverwriteInv ==
    ASSUME Inv, ~ hurt, call = Idle, NEW f \in Fils, NEW p \in Places(now), Overwrite(f, p[1], p[2])
    PROVE  Inv'
<1> DEFINE e == At(now, p)
           n == File(e.name, e.id, 0, 0)
           o == NewFil(n, p[1], p[2], TRUE)
           todo == <<SetEntry(p[1], p[2], n)>> \o FreeAll(Chain(now, e.clst)) \o <<Move(TableSector(p[1]))>>
<1>0. Fine(now, fil, shrunk) /\ IsTable(now, 0)
  BY IdleIs
<1>1. At(now, p) = Entry(now, p[1], p[2])
  BY DEF At
<1>2. /\ ~ fil[f].open /\ ~ e.dir /\ Unheld(now, fil, p) /\ shrunk' = shrunk
      /\ Begin("open", f, o, todo)
  BY <1>1 DEF Overwrite, InUse, Open, Unheld
<1>3. Starts(now, win, fil, "open", f, o, todo, shrunk)
  BY <1>0, <1>2, OverwriteStarts
<1> HIDE DEF o, todo
<1> QED BY <1>2, <1>3, BeginStarts

\* A call of two changes that matter, and others that do not.
LEMMA StartsTwo ==
    ASSUME NEW v, NEW w, NEW F, NEW op \in PlainOps, NEW f, NEW leaves, NEW sg,
           NEW j, j = JobOf(op, f, leaves, F, sg), Fine(v, j.cur, sg), NEW ch, Legal(v, w, ch),
           NEW v1, v1 = Changed(v, ch), Fine(v1, j.cur, sg), NEW w1, w1 = WinAfter(w, ch),
           NEW dh, Legal(v1, w1, dh), NEW v2, v2 = Changed(v1, dh), Fine(v2, j.cur, sg),
           Fine(v2, j.then, sg), NEW rest \in Seq(Calm(v2, j.cur, j.then))
    PROVE  Starts(v, w, F, op, f, leaves, <<ch>> \o (<<dh>> \o rest), sg)
<1>1. j.op = op /\ j.sh = sg /\ j.sg = sg /\ op \notin {"rename", "sync"}
  BY DEF JobOf, PlainOps
<1>2. Goes(j, v, w, ch) /\ Goes(j, v1, w1, dh)
  BY <1>1 DEF Goes
<1>3. Safe0(j, v2, WinAfter(w1, dh), rest)
  BY <1>1, SafeCalm
<1>4. Safe1(j, v1, w1, <<dh>> \o rest)
  BY <1>2, <1>3, SafeCons
<1> DEFINE S == Calm(v2, j.cur, j.then) \cup {dh}
<1>5. <<dh>> \o rest \in Seq(S)
  <2>1. <<dh>> \in Seq(S) /\ rest \in Seq(S)
    OBVIOUS
  <2> HIDE DEF S
  <2> QED BY <2>1, ConcatProperties
<1> DEFINE more == <<dh>> \o rest
<1>6. <<ch>> \o more # <<>> /\ Safe2(j, v, w, <<ch>> \o more)
  <2>1. more \in Seq(S) /\ Safe1(j, v1, w1, more)
    BY <1>4, <1>5
  <2> HIDE DEF more, S
  <2> QED BY <1>2, <2>1, SafeCons
<1>7. op \in Ops
  BY DEF PlainOps, Ops
<1> HIDE DEF more
<1>8. Starts(v, w, F, op, f, leaves, <<ch>> \o more, sg)
  BY <1>6, <1>7 DEF Starts, Safe
<1> QED BY <1>8 DEF more
-----------------------------------------------------------------------------
(* f_write *)

\* What is known of an open file.
LEMMA OpenFile ==
    ASSUME NEW v, NEW F, NEW sh, Fine(v, F, sh), NEW f \in Fils, F[f].open, NEW o, o = F[f]
    PROVE  /\ o \in FilRecs /\ o.open /\ o \in OpenFils /\ FilFits(v, o, sh)
           /\ Place(o) \in All(v) /\ Place(o) = <<o.t, o.s>> /\ o.t \in Tables /\ o.s \in 1 .. Slots
           /\ o.clst \in {0} \cup Clusters /\ o.size \in Nat
           /\ Clst(v, F, Place(o)) = o.clst /\ Holders(F, Place(o)) = {f} /\ ~ At(v, Place(o)).dir
           /\ Chained(v, o.clst) /\ Len(Chain(v, o.clst)) >= o.size
           /\ \A x \in Own(v, o.clst) : ~ IsTable(v, x)
           /\ o.dirty # 0 => ~ IsTable(v, o.dirty) /\ o.dirty \in Own(v, o.clst)
           /\ \A g \in Fils : g # f /\ F[g].open => F[g].id # o.id
<1>1. /\ o \in FilRecs /\ o.open /\ FilFits(v, o, sh) /\ Place(o) \in All(v) /\ FilsFit(v, F, sh)
  BY FineParts
<1>2. /\ o \in OpenFils /\ o.t \in Tables /\ o.s \in 1 .. Slots
      /\ o.clst \in {0} \cup Clusters /\ o.size \in Nat
  BY <1>1, FilTyped
<1>3. /\ Clst(v, F, Place(o)) = o.clst /\ Size(v, F, Place(o)) = o.size /\ Holders(F, Place(o)) = {f}
  BY <1>1, HolderIs
<1>4. ~ At(v, Place(o)).dir /\ (o.dirty # 0 => o.dirty \in Own(v, o.clst))
  BY <1>1 DEF FilFits
<1>5. ObjectLaid(v, F, Place(o))
  BY <1>1, FineParts
<1>6. /\ Chained(v, o.clst) /\ Len(Chain(v, o.clst)) >= o.size
      /\ \A x \in Own(v, o.clst) : ~ IsTable(v, x)
  BY ONLY <1>3, <1>4, <1>5 DEF ObjectLaid, FileLaid
<1>7. \A g \in Fils : g # f /\ F[g].open => F[g].id # o.id
  BY <1>1 DEF FilsFit, IdsApart
<1> QED BY <1>1, <1>2, <1>3, <1>4, <1>6, <1>7 DEF Place

\* An object that has written to cluster c, at place k of the file, which has a chain that
\* is long enough.
Wrote(o, c, k) ==
    [o EXCEPT !.clst = IF @ = 0 THEN c ELSE @, !.size = IF k > @ THEN k ELSE @,
              !.mod = TRUE, !.dirty = c, !.part = k]

\* Its type and its fields.
LEMMA WroteIs ==
    ASSUME NEW o \in OpenFils, NEW c \in Clusters, NEW k \in Nat, NEW p, p = Wrote(o, c, k)
    PROVE  /\ p \in FilRecs /\ p.open /\ p.id = o.id /\ Place(p) = Place(o) /\ p.mod /\ p.dirty = c
           /\ p.clst = (IF o.clst = 0 THEN c ELSE o.clst) /\ p.size = (IF k > o.size THEN k ELSE o.size)
<1>1. /\ o.id \in Ids /\ o.t \in Tables /\ o.s \in 1 .. Slots /\ o.open = TRUE
      /\ o.clst \in {0} \cup Clusters /\ o.size \in Nat
  BY DEF OpenFils
<1>2. p = [open |-> o.open, id |-> o.id, t |-> o.t, s |-> o.s, clst |-> IF o.clst = 0 THEN c ELSE o.clst,
           size |-> IF k > o.size THEN k ELSE o.size, dirty |-> c, part |-> k, mod |-> TRUE]
  BY DEF Wrote, OpenFils
<1>3. (IF o.clst = 0 THEN c ELSE o.clst) \in {0} \cup Clusters /\ (IF k > o.size THEN k ELSE o.size) \in Nat
  BY <1>1
<1>4. p \in OpenFils
  <2>1. ASSUME NEW d \in {0} \cup Clusters, NEW n \in Nat
        PROVE  [open |-> o.open, id |-> o.id, t |-> o.t, s |-> o.s, clst |-> d,
                size |-> n, dirty |-> c, part |-> k, mod |-> TRUE] \in OpenFils
    BY <1>1 DEF OpenFils
  <2> QED BY ONLY <1>2, <1>3, <2>1
<1> QED BY <1>1, <1>2, <1>4 DEF FilRecs, Place

\* The object of an open file is set so.
WritesTo(v, F, sh, f, o, c, k, p, G) ==
    /\ Fine(v, F, sh) /\ f \in Fils /\ F[f].open /\ o = F[f] /\ c \in Clusters /\ k \in Nat
    /\ p = Wrote(o, c, k) /\ G = [F EXCEPT ![f] = p]
    /\ c \in Own(v, p.clst) /\ Chained(v, p.clst) /\ Len(Chain(v, p.clst)) >= p.size
    /\ \/ o.clst # 0
       \/ o.clst = 0 /\ o.size = 0 /\ \A x \in Own(v, p.clst) : Unowned(v, F, x) /\ ~ IsTable(v, x)

\* The volume is fine with it.
LEMMA WroteFine ==
    ASSUME NEW v, NEW F, NEW sh, NEW f, NEW o, NEW c, NEW k, NEW p, NEW G, WritesTo(v, F, sh, f, o, c, k, p, G)
    PROVE  Fine(v, G, sh)
<1> USE DEF WritesTo
<1>1. /\ o \in OpenFils /\ FilFits(v, o, sh) /\ o.clst \in {0} \cup Clusters /\ o.size \in Nat
      /\ Clst(v, F, Place(o)) = o.clst /\ Place(o) \in All(v)
      /\ \A g \in Fils : g # f /\ F[g].open => F[g].id # o.id
  BY OpenFile
<1>2. /\ p \in FilRecs /\ p.open /\ p.id = o.id /\ Place(p) = Place(o) /\ p.mod /\ p.dirty = c
      /\ p.clst = (IF o.clst = 0 THEN c ELSE o.clst) /\ p.size = (IF k > o.size THEN k ELSE o.size)
  BY <1>1, WroteIs
<1> DEFINE e == At(v, Place(o))
<1>3. /\ ~ e.dir /\ e.id = o.id /\ e.size \in Nat
      /\ o.id \in sh \/ (e.clst = 0 /\ e.size = 0) \/ (e.clst = o.clst /\ e.size <= o.size)
  <2>1. v \in Volumes
    BY FineParts
  <2> QED BY <1>1, <2>1, AllTyped DEF FilFits
<1>4. o.id \in sh \/ (e.clst = 0 /\ e.size = 0) \/ (e.clst = p.clst /\ e.size <= p.size)
  <2>1. o.size <= p.size
    BY <1>1, <1>2
  <2>2. CASE o.clst # 0
    <3>1. p.clst = o.clst /\ p.size \in Nat
      BY <1>1, <1>2, <2>2
    <3> QED BY <1>1, <1>3, <2>1, <3>1
  <2>3. CASE o.clst = 0 /\ o.size = 0
    BY <1>3, <2>3
  <2> QED BY <2>2, <2>3
<1> HIDE DEF e
<1>5. FilFits(v, p, sh)
  <2>1. c \in Own(v, p.clst) /\ e = At(v, Place(p))
    BY <1>2 DEF e
  <2> QED BY ONLY <1>1, <1>2, <1>3, <1>4, <2>1 DEF FilFits
<1>6. \A x \in Own(v, p.clst) : x \in Own(v, Clst(v, F, Place(p))) \/ (Unowned(v, F, x) /\ ~ IsTable(v, x))
  BY <1>1, <1>2
<1>7. /\ Fine(v, F, sh) /\ f \in Fils /\ G = [F EXCEPT ![f] = p] /\ Place(F[f]) = Place(p)
      /\ Chained(v, p.clst) /\ Len(Chain(v, p.clst)) >= p.size
  BY <1>2
<1>8. FilePut(v, F, sh, f, p, G, sh)
  BY ONLY <1>1, <1>2, <1>5, <1>6, <1>7 DEF FilePut
<1> QED BY <1>8, FileSet

\* A free cluster is allocated.
LEMMA Allocated ==
    ASSUME NEW v, NEW F, NEW sh, Fine(v, F, sh), NEW c \in Clusters, v.fat[c] = 0, NEW w,
           NEW v1, v1 = Changed(v, SetFat(c, EOC))
    PROVE  /\ Legal(v, w, SetFat(c, EOC)) /\ Alike(v, F, v1) /\ Fine(v1, F, sh) /\ v1 \in Volumes
           /\ v1.fat[c] = EOC /\ \A x \in Clusters : x # c => v1.fat[x] = v.fat[x]
           /\ Unowned(v, F, c) /\ ~ IsTable(v, c) /\ Unowned(v1, F, c) /\ ~ IsTable(v1, c)
           /\ \A t \in Tables : v1.has[t] = v.has[t]
<1>0. v \in Volumes /\ Laid(v, F) /\ NoFreeTable(v) /\ EOC \in Nat /\ EOC # 0 /\ Clusters \subseteq Tables
  BY FineParts, Constants
<1>1. Unowned(v, F, c) /\ ~ IsTable(v, c)
  BY <1>0, FreeUnowned DEF NoFreeTable
<1>2. /\ v1 \in Volumes /\ v1.fat[c] = EOC
      /\ \A x \in Clusters : x # c => v1.fat[x] = v.fat[x]
      /\ \A t \in Tables : v1.has[t] = v.has[t]
  BY <1>0, FatChanged
<1>3. Alike(v, F, v1)
  BY <1>1, <1>2 DEF Alike, IsTable
<1>4. Fine(v1, F, sh) /\ Unowned(v1, F, c)
  BY <1>1, <1>3, AlikeFine
<1>5. ~ IsTable(v1, c)
  BY <1>0, <1>1, <1>2 DEF IsTable
<1>6. Legal(v, w, SetFat(c, EOC))
  BY <1>0 DEF Legal, LegalFat
<1> QED BY <1>1, <1>2, <1>3, <1>4, <1>5, <1>6

\* Two changes and others.
LEMMA ConsTwo ==
    ASSUME NEW S, NEW u \in Seq(S), NEW a, NEW b
    PROVE  <<a>> \o <<b>> \o u = <<a>> \o (<<b>> \o u)
<1> DEFINE T == S \cup {b}
<1>1. u \in Seq(T) /\ <<b>> \in Seq(T)
  OBVIOUS
<1> HIDE DEF T
<1> QED BY <1>1, ConsOn

\* A cluster that the file has is written.
LEMMA WriteOld ==
    ASSUME NEW v, NEW F, NEW sh, Fine(v, F, sh), NEW w, NEW f \in Fils, F[f].open, NEW o, o = F[f],
           NEW k \in 1 .. o.size + 1, k <= Len(Chain(v, o.clst)), NEW c, c = Chain(v, o.clst)[k],
           NEW p, p = Wrote(o, c, k)
    PROVE  /\ Starts(v, w, F, "write", f, p, <<>>, sh)
           /\ Starts(v, w, F, "write", f, p, <<>> \o WriteBuffer(o), sh)
<1> DEFINE G == [F EXCEPT ![f] = p]
           j == JobOf("write", f, p, F, sh)
<1>1. /\ o \in FilRecs /\ o.open /\ o \in OpenFils /\ Chained(v, o.clst) /\ o.clst \in {0} \cup Clusters
      /\ Len(Chain(v, o.clst)) >= o.size /\ o.size \in Nat /\ (o.dirty # 0 => ~ IsTable(v, o.dirty))
  BY OpenFile
<1>2. k \in Nat /\ k >= 1
  BY <1>1
<1>3. /\ Len(Chain(v, o.clst)) \in Nat /\ Own(v, o.clst) \subseteq Clusters
      /\ \A x : x \in Own(v, o.clst) <=> \E i \in 1 .. Len(Chain(v, o.clst)) : x = Chain(v, o.clst)[i]
  BY <1>1, ChainTyped
<1>4. c \in Own(v, o.clst) /\ c \in Clusters
  BY <1>2, <1>3
<1>5. o.clst # 0
  BY <1>4, ChainNone
<1>6. p.clst = o.clst /\ p.size = (IF k > o.size THEN k ELSE o.size)
  BY <1>1, <1>2, <1>4, <1>5, WroteIs
<1>7. Len(Chain(v, p.clst)) >= p.size
  <2>1. Len(Chain(v, o.clst)) >= (IF k > o.size THEN k ELSE o.size)
    BY <1>1, <1>2, <1>3
  <2> QED BY <1>6, <2>1
<1>8. Fine(v, G, sh)
  <2>1. WritesTo(v, F, sh, f, o, c, k, p, G)
    BY <1>1, <1>2, <1>4, <1>5, <1>6, <1>7 DEF WritesTo
  <2> QED BY <2>1, WroteFine
<1>9. j.cur = F /\ j.then = G
  BY DEF JobOf
<1>10. <<>> \in Seq(Calm(v, F, G)) /\ WriteBuffer(o) \in Seq(Calm(v, F, G))
  BY <1>1, WriteBufferCalm, MoveCalm
<1>11. <<>> \o WriteBuffer(o) \in Seq(Calm(v, F, G))
  BY <1>10, ConcatProperties
<1> HIDE DEF G, j
<1>12. j = JobOf("write", f, p, F, sh) /\ "write" \in PlainOps
  BY DEF j, PlainOps
<1>13. /\ Fine(v, j.cur, sh) /\ Fine(v, j.then, sh) /\ <<>> \in Seq(Calm(v, j.cur, j.then))
       /\ <<>> \o WriteBuffer(o) \in Seq(Calm(v, j.cur, j.then))
  BY <1>8, <1>9, <1>10, <1>11
<1> QED BY ONLY <1>12, <1>13, StartsNone

\* The first cluster of a file is allocated and written.
LEMMA WriteFirst ==
    ASSUME NEW v, NEW F, NEW sh, Fine(v, F, sh), NEW w, NEW f \in Fils, F[f].open, NEW o, o = F[f],
           o.clst = 0, NEW k, k = 1, NEW c \in Clusters, v.fat[c] = 0, NEW p, p = Wrote(o, c, k),
           NEW v1, v1 = Changed(v, SetFat(c, EOC)), NEW G, G = [F EXCEPT ![f] = p]
    PROVE  Starts(v, w, F, "write", f, p, <<SetFat(c, EOC)>> \o <<>> \o WriteBuffer(o), sh)
<1> DEFINE j == JobOf("write", f, p, F, sh)
<1>1. /\ Legal(v, w, SetFat(c, EOC)) /\ Fine(v1, F, sh) /\ v1.fat[c] = EOC
      /\ Unowned(v1, F, c) /\ ~ IsTable(v1, c)
  BY Allocated
<1>2. /\ o \in FilRecs /\ o.open /\ o \in OpenFils /\ Len(Chain(v1, o.clst)) >= o.size /\ o.size \in Nat
      /\ (o.dirty # 0 => ~ IsTable(v1, o.dirty))
  BY <1>1, OpenFile
<1>3. o.size = 0
  BY <1>2, ChainNone
<1>4. Chained(v1, c) /\ Own(v1, c) = {c} /\ Len(Chain(v1, c)) = 1
  BY <1>1, ChainOne
<1>5. k \in Nat /\ p.clst = c /\ p.size = 1
  BY <1>2, <1>3, WroteIs
<1>6. Fine(v1, G, sh)
  <2>1. c \in Own(v1, p.clst) /\ Chained(v1, p.clst) /\ Len(Chain(v1, p.clst)) >= p.size
    <3>1. c \in Own(v1, p.clst) /\ Chained(v1, p.clst)
      BY ONLY <1>4, <1>5
    <3>2. Len(Chain(v1, p.clst)) = 1 /\ p.size = 1
      BY ONLY <1>4, <1>5
    <3> QED BY ONLY <3>1, <3>2
  <2>2. o.clst = 0 /\ o.size = 0 /\ \A x \in Own(v1, p.clst) : Unowned(v1, F, x) /\ ~ IsTable(v1, x)
    BY <1>1, <1>3, <1>4, <1>5
  <2>3. Fine(v1, F, sh) /\ f \in Fils /\ F[f].open /\ c \in Clusters /\ k \in Nat
    BY <1>1, <1>5
  <2>4. o = F[f] /\ p = Wrote(o, c, k) /\ G = [F EXCEPT ![f] = p]
    OBVIOUS
  <2>5. WritesTo(v1, F, sh, f, o, c, k, p, G)
    BY ONLY <2>1, <2>2, <2>3, <2>4 DEF WritesTo
  <2> QED BY <2>5, WroteFine
<1>7. j.cur = F /\ j.then = G
  BY DEF JobOf
<1>8. WriteBuffer(o) \in Seq(Calm(v1, F, G)) /\ <<>> \in Seq(Calm(v1, F, G))
  BY <1>2, WriteBufferCalm, MoveCalm
<1>9. /\ <<>> \o WriteBuffer(o) \in Seq(Calm(v1, F, G))
      /\ <<SetFat(c, EOC)>> \o <<>> \o WriteBuffer(o) = <<SetFat(c, EOC)>> \o (<<>> \o WriteBuffer(o))
  BY <1>8, ConcatProperties, ConsOn
<1> HIDE DEF j
<1>10. j = JobOf("write", f, p, F, sh) /\ "write" \in PlainOps /\ v1 = Changed(v, SetFat(c, EOC))
  BY DEF j, PlainOps
<1>11. /\ Fine(v, j.cur, sh) /\ Fine(v1, j.cur, sh) /\ Fine(v1, j.then, sh)
       /\ <<>> \o WriteBuffer(o) \in Seq(Calm(v1, j.cur, j.then))
  BY <1>1, <1>6, <1>7, <1>9
<1>12. Starts(v, w, F, "write", f, p, <<SetFat(c, EOC)>> \o (<<>> \o WriteBuffer(o)), sh)
  BY ONLY <1>1, <1>10, <1>11, StartsOne
<1> QED BY <1>9, <1>12

\* Another cluster is allocated, linked and written.
LEMMA WriteNext ==
    ASSUME NEW v, NEW F, NEW sh, Fine(v, F, sh), NEW w, NEW f \in Fils, F[f].open, NEW o, o = F[f],
           o.clst # 0, NEW k, k = Len(Chain(v, o.clst)) + 1, k <= o.size + 1,
           NEW c \in Clusters, v.fat[c] = 0, NEW p, p = Wrote(o, c, k),
           NEW l, l = Chain(v, o.clst)[k - 1], NEW G, G = [F EXCEPT ![f] = p],
           NEW v1, v1 = Changed(v, SetFat(c, EOC)), NEW v2, v2 = Changed(v1, SetFat(l, c))
    PROVE  Starts(v, w, F, "write", f, p, <<SetFat(c, EOC)>> \o <<SetFat(l, c)>> \o WriteBuffer(o), sh)
<1> DEFINE j == JobOf("write", f, p, F, sh)
<1>1. /\ Legal(v, w, SetFat(c, EOC)) /\ Fine(v1, F, sh) /\ v1.fat[c] = EOC /\ v1 \in Volumes
      /\ \A x \in Clusters : x # c => v1.fat[x] = v.fat[x]
      /\ Unowned(v1, F, c) /\ ~ IsTable(v1, c) /\ Unowned(v, F, c)
  BY Allocated
<1>2. /\ Chained(v, o.clst) /\ Place(o) \in All(v) /\ Clst(v, F, Place(o)) = o.clst
      /\ Len(Chain(v, o.clst)) >= o.size /\ o.size \in Nat /\ o \in OpenFils
      /\ o.clst \in {0} \cup Clusters
  BY OpenFile
<1>3. /\ Len(Chain(v, o.clst)) \in Nat /\ Own(v, o.clst) \subseteq Clusters
      /\ Len(Chain(v, o.clst)) >= 1
      /\ \A x : x \in Own(v, o.clst) <=> \E i \in 1 .. Len(Chain(v, o.clst)) : x = Chain(v, o.clst)[i]
  BY <1>2, ChainTyped
<1>4. c \notin Own(v, o.clst)
  BY <1>1, <1>2 DEF Unowned
<1>5. Chained(v1, o.clst) /\ Chain(v1, o.clst) = Chain(v, o.clst) /\ Own(v1, o.clst) = Own(v, o.clst)
  BY <1>1, <1>2, <1>3, <1>4, ChainKept
<1>6. l = Chain(v1, o.clst)[Len(Chain(v1, o.clst))] /\ l \in Own(v1, o.clst) /\ l \in Clusters /\ l # c
  <2>1. k - 1 = Len(Chain(v, o.clst)) /\ k - 1 \in 1 .. Len(Chain(v, o.clst))
    BY <1>3
  <2>2. l \in Own(v, o.clst)
    BY <1>3, <2>1
  <2> QED BY <1>3, <1>4, <1>5, <2>1, <2>2
<1>7. c \in Nat /\ c # 0
  BY Constants
<1>v. v2 = Changed(v1, SetFat(l, c))
  OBVIOUS
<1>8. /\ v2 \in Volumes /\ v2.fat[l] = c /\ \A x \in Clusters : x # l => v2.fat[x] = v1.fat[x]
  <2>1. l \in Clusters /\ v1 \in Volumes /\ c \in Nat /\ v2 = Changed(v1, SetFat(l, c))
    BY <1>1, <1>6, <1>7, <1>v
  <2>2. /\ v2 \in Volumes /\ v2.fat[l] = c
        /\ \A x \in Clusters : x # l => v2.fat[x] = v1.fat[x]
        /\ \A t \in Tables : t # l \/ c # 0 => v2.has[t] = v1.has[t]
    BY ONLY <2>1, FatChanged
  <2> QED BY ONLY <2>2
<1>9. /\ Chained(v2, o.clst) /\ Own(v2, o.clst) = Own(v1, o.clst) \cup {c}
      /\ Len(Chain(v2, o.clst)) = Len(Chain(v, o.clst)) + 1
  <2>1. c \notin Own(v1, o.clst) /\ v2.fat[c] = EOC
    BY <1>1, <1>4, <1>5, <1>6, <1>8
  <2>2. \A x \in Own(v1, o.clst) : x # l => v2.fat[x] = v1.fat[x]
    BY <1>3, <1>5, <1>8
  <2>3. c \in Clusters /\ o.clst # 0
    OBVIOUS
  <2>4. /\ Chained(v2, o.clst) /\ Own(v2, o.clst) = Own(v1, o.clst) \cup {c}
        /\ Len(Chain(v2, o.clst)) = Len(Chain(v1, o.clst)) + 1
    <3>1. Chained(v1, o.clst) /\ o.clst # 0 /\ c \in Clusters /\ c \notin Own(v1, o.clst)
      BY ONLY <1>5, <2>1, <2>3
    <3>2. l = Chain(v1, o.clst)[Len(Chain(v1, o.clst))]
      BY ONLY <1>6
    <3>3. v2.fat[l] = c /\ v2.fat[c] = EOC
      BY ONLY <1>8, <2>1
    <3>4. Grows(v1, v2, o.clst, c, l)
      BY ONLY <2>2, <3>1, <3>2, <3>3 DEF Grows
    <3> QED BY <3>4, ChainGrown
  <2> QED BY <1>5, <2>4
<1>10. Fine(v2, F, sh)
  <2>1. \A x \in Own(v2, F[f].clst) : x \in Own(v1, F[f].clst) \/ (Unowned(v1, F, x) /\ ~ IsTable(v1, x))
    BY <1>1, <1>9
  <2>2. o.dirty # 0 => o.dirty \in Own(v1, o.clst)
    BY <1>1, OpenFile
  <2>3. Chained(v2, F[f].clst) /\ Len(Chain(v2, F[f].clst)) >= F[f].size
    BY <1>2, <1>3, <1>9
  <2>4. F[f].dirty # 0 => F[f].dirty \in Own(v2, F[f].clst)
    BY <1>9, <2>2
  <2>5. Fine(v1, F, sh) /\ f \in Fils /\ F[f].open /\ l \in Own(v1, F[f].clst) /\ c \in Nat /\ c # 0
    BY <1>1, <1>6, <1>7
  <2> QED BY ONLY <1>v, <2>1, <2>3, <2>4, <2>5, FatSet
<1>11. /\ o \in FilRecs /\ o.open /\ (o.dirty # 0 => ~ IsTable(v2, o.dirty))
  BY <1>10, OpenFile
<1>12. k \in Nat /\ p.clst = o.clst /\ p.size = k
  <2>1. k \in Nat /\ (IF k > o.size THEN k ELSE o.size) = k
    BY <1>2, <1>3
  <2> QED BY <1>2, <2>1, WroteIs
<1>d. /\ F[f].open /\ o = F[f] /\ c \in Clusters /\ p = Wrote(o, c, k) /\ G = [F EXCEPT ![f] = p]
      /\ o.clst # 0 /\ f \in Fils
  OBVIOUS
<1>13. Fine(v2, G, sh)
  <2>1. Chained(v2, p.clst) /\ Len(Chain(v2, p.clst)) >= p.size /\ c \in Own(v2, p.clst)
    BY <1>3, <1>9, <1>12
  <2>2. WritesTo(v2, F, sh, f, o, c, k, p, G)
    BY ONLY <1>10, <1>12, <2>1, <1>d DEF WritesTo
  <2> QED BY <2>2, WroteFine
<1>14. j.cur = F /\ j.then = G
  BY DEF JobOf
<1>15. WriteBuffer(o) \in Seq(Calm(v2, F, G))
  BY <1>11, WriteBufferCalm
<1>16. <<SetFat(c, EOC)>> \o <<SetFat(l, c)>> \o WriteBuffer(o)
          = <<SetFat(c, EOC)>> \o (<<SetFat(l, c)>> \o WriteBuffer(o))
  BY <1>15, ConsTwo
<1>17. Legal(v1, WinAfter(w, SetFat(c, EOC)), SetFat(l, c))
  BY <1>6, <1>7 DEF Legal, LegalFat
<1> HIDE DEF j
<1>18. j = JobOf("write", f, p, F, sh) /\ "write" \in PlainOps /\ v1 = Changed(v, SetFat(c, EOC))
  BY DEF j, PlainOps
<1>19. /\ Fine(v, j.cur, sh) /\ Fine(v1, j.cur, sh) /\ Fine(v2, j.cur, sh) /\ Fine(v2, j.then, sh)
       /\ WriteBuffer(o) \in Seq(Calm(v2, j.cur, j.then))
  BY <1>1, <1>10, <1>13, <1>14, <1>15
<1>20. Starts(v, w, F, "write", f, p, <<SetFat(c, EOC)>> \o (<<SetFat(l, c)>> \o WriteBuffer(o)), sh)
  BY ONLY <1>1, <1>17, <1>18, <1>19, <1>v, StartsTwo
<1> QED BY <1>16, <1>20

\* f_write keeps the invariant.
LEMMA WriteInv ==
    ASSUME Inv, ~ hurt, call = Idle, NEW f \in Fils, NEW k \in 1 .. MaxSize, NEW c \in Clusters,
           Write(f, k, c)
    PROVE  Inv'
<1> DEFINE o == fil[f]
           chain == Chain(now, o.clst)
           p == Wrote(o, c, k)
           new == k > Len(chain)
           link == IF ~new THEN <<>>
                   ELSE <<SetFat(c, EOC)>> \o (IF k = 1 THEN <<>> ELSE <<SetFat(chain[k - 1], c)>>)
           todo == IF o.dirty = c THEN <<>> ELSE link \o WriteBuffer(o)
<1>0. Fine(now, fil, shrunk) /\ now \in Volumes
  BY IdleIs
<1>1. /\ o.open /\ k \in 1 .. o.size + 1 /\ (IF new THEN c \in FreeSet ELSE c = chain[k])
      /\ Begin("write", f, p, todo) /\ shrunk' = shrunk
  BY DEF Write, Wrote
<1>2. /\ Chained(now, o.clst) /\ Len(chain) >= o.size /\ o.size \in Nat
      /\ o.clst \in {0} \cup Clusters /\ (o.dirty # 0 => o.dirty \in Own(now, o.clst))
  BY <1>0, <1>1, OpenFile
<1>3. Len(chain) \in Nat /\ k \in Nat /\ k >= 1 /\ k <= o.size + 1 /\ (o.clst # 0 => Len(chain) >= 1)
  BY <1>1, <1>2, ChainTyped
<1>4. CASE ~ new
  <2>1. c = chain[k] /\ k <= Len(chain)
    BY <1>1, <1>3, <1>4
  <2>2. /\ Starts(now, win, fil, "write", f, p, <<>>, shrunk)
        /\ Starts(now, win, fil, "write", f, p, <<>> \o WriteBuffer(o), shrunk)
    BY <1>0, <1>1, <2>1, WriteOld
  <2>3. todo = <<>> \/ todo = <<>> \o WriteBuffer(o)
    BY <1>4
  <2> QED BY <1>1, <2>2, <2>3, BeginStarts
<1>5. CASE new
  <2>1. now.fat[c] = 0
    BY <1>1, <1>5 DEF FreeSet
  <2>2. o.dirty # c
    BY <1>2, <2>1, ChainUsed, Constants
  <2>3. k = Len(chain) + 1
    BY <1>2, <1>3, <1>5
  <2>4. CASE o.clst = 0
    <3>1. Len(chain) = 0
      BY <2>4, ChainNone
    <3>2. k = 1
      BY <2>3, <3>1
    <3>3. todo = <<SetFat(c, EOC)>> \o <<>> \o WriteBuffer(o)
      BY <1>5, <2>2, <3>2
    <3>4. Starts(now, win, fil, "write", f, p, <<SetFat(c, EOC)>> \o <<>> \o WriteBuffer(o), shrunk)
      BY <1>0, <1>1, <2>1, <2>4, <3>2, WriteFirst
    <3> QED BY <1>1, <3>3, <3>4, BeginStarts
  <2>5. CASE o.clst # 0
    <3>1. k # 1
      BY <1>3, <2>3, <2>5
    <3>2. todo = <<SetFat(c, EOC)>> \o <<SetFat(chain[k - 1], c)>> \o WriteBuffer(o)
      BY <1>5, <2>2, <3>1
    <3>3. Starts(now, win, fil, "write", f, p,
                 <<SetFat(c, EOC)>> \o <<SetFat(chain[k - 1], c)>> \o WriteBuffer(o), shrunk)
      BY <1>0, <1>1, <1>3, <2>1, <2>3, <2>5, WriteNext
    <3> QED BY <1>1, <3>2, <3>3, BeginStarts
  <2> QED BY <2>4, <2>5
<1> QED BY <1>4, <1>5
-----------------------------------------------------------------------------
(* f_truncate *)

\* The object of a file that is cut to k clusters.
CutTo(o, k) ==
    [o EXCEPT !.size = k, !.clst = IF k = 0 THEN 0 ELSE @, !.mod = TRUE, !.dirty = 0, !.part = 0]

\* Its type and its fields.
LEMMA CutToIs ==
    ASSUME NEW o \in OpenFils, NEW k \in Nat, NEW p, p = CutTo(o, k)
    PROVE  /\ p \in FilRecs /\ p.open /\ p.id = o.id /\ Place(p) = Place(o) /\ p.mod /\ p.dirty = 0
           /\ p.clst = (IF k = 0 THEN 0 ELSE o.clst) /\ p.size = k
<1>1. /\ o.id \in Ids /\ o.t \in Tables /\ o.s \in 1 .. Slots /\ o.open = TRUE
      /\ o.clst \in {0} \cup Clusters /\ o.size \in Nat
  BY DEF OpenFils
<1>2. p = [open |-> o.open, id |-> o.id, t |-> o.t, s |-> o.s, clst |-> IF k = 0 THEN 0 ELSE o.clst,
           size |-> k, dirty |-> 0, part |-> 0, mod |-> TRUE]
  BY DEF CutTo, OpenFils
<1>3. (IF k = 0 THEN 0 ELSE o.clst) \in {0} \cup Clusters
  BY <1>1
<1>4. p \in OpenFils
  <2>1. ASSUME NEW d \in {0} \cup Clusters
        PROVE  [open |-> o.open, id |-> o.id, t |-> o.t, s |-> o.s, clst |-> d,
                size |-> k, dirty |-> 0, part |-> 0, mod |-> TRUE] \in OpenFils
    BY <1>1 DEF OpenFils
  <2> QED BY ONLY <1>2, <1>3, <2>1
<1> QED BY <1>1, <1>2, <1>4 DEF FilRecs, Place

\* A file is cut and the call goes on.
Cuts(v, F, sh, f, o, k, p, G, sg) ==
    /\ Fine(v, F, sh) /\ f \in Fils /\ F[f].open /\ o = F[f] /\ k \in Nat /\ k < o.size
    /\ p = CutTo(o, k) /\ G = [F EXCEPT ![f] = p] /\ sg = sh \cup {o.id}

\* The object may go ahead.
LEMMA CutFine ==
    ASSUME NEW v, NEW F, NEW sh, NEW f, NEW o, NEW k, NEW p, NEW G, NEW sg, Cuts(v, F, sh, f, o, k, p, G, sg)
    PROVE  /\ Fine(v, G, sg)
           /\ \A x : x \in Own(v, o.clst) /\ x \notin Own(v, p.clst) => Unowned(v, G, x)
<1>m. /\ Fine(v, F, sh) /\ f \in Fils /\ F[f].open /\ o = F[f] /\ k \in Nat /\ k < o.size
      /\ p = CutTo(o, k) /\ G = [F EXCEPT ![f] = p] /\ sg = sh \cup {o.id}
  BY DEF Cuts
<1>1. /\ o \in OpenFils /\ FilFits(v, o, sh) /\ Clst(v, F, Place(o)) = o.clst /\ Place(o) \in All(v)
      /\ Chained(v, o.clst) /\ Len(Chain(v, o.clst)) >= o.size /\ o.size \in Nat
      /\ \A g \in Fils : g # f /\ F[g].open => F[g].id # o.id
  BY <1>m, OpenFile
<1>2. /\ p \in FilRecs /\ p.open /\ p.id = o.id /\ Place(p) = Place(o) /\ p.mod /\ p.dirty = 0
      /\ p.clst = (IF k = 0 THEN 0 ELSE o.clst) /\ p.size = k
  BY <1>1, <1>m, CutToIs
<1>3. /\ ~ At(v, Place(o)).dir /\ At(v, Place(o)).id = o.id
  BY <1>1 DEF FilFits
<1>4. FilFits(v, p, sg)
  <2>1. p.id \in sg
    BY <1>2, <1>m
  <2> QED BY ONLY <1>1, <1>2, <1>3, <2>1 DEF FilFits
<1>5. /\ Chained(v, p.clst) /\ Len(Chain(v, p.clst)) >= p.size
      /\ \A x \in Own(v, p.clst) : x \in Own(v, o.clst)
  <2>1. CASE k = 0
    <3>1. p.clst = 0 /\ p.size = 0
      BY <1>2, <2>1
    <3> QED BY <3>1, ChainNone
  <2>2. CASE k # 0
    <3>1. p.clst = o.clst /\ p.size = k /\ Len(Chain(v, o.clst)) \in Nat
      BY <1>1, <1>2, <2>2, ChainTyped
    <3>2. Len(Chain(v, o.clst)) >= k
      BY <1>1, <1>m, <3>1
    <3> QED BY <1>1, <3>1, <3>2
  <2> QED BY <2>1, <2>2
<1>6. \A x \in Own(v, p.clst) : x \in Own(v, Clst(v, F, Place(p)))
  BY <1>1, <1>2, <1>5
<1>7. Place(F[f]) = Place(p) /\ \A g \in Fils : F[g].open /\ F[g].id \in sh => F[g].id \in sg
  BY <1>2, <1>m
<1>8. FilePut(v, F, sh, f, p, G, sg)
  BY ONLY <1>1, <1>2, <1>4, <1>5, <1>6, <1>7, <1>m DEF FilePut
<1>9. /\ Fine(v, G, sg)
      /\ \A x : /\ Unowned(v, F, x) \/ x \in Own(v, Clst(v, F, Place(p)))
                /\ x \notin Own(v, p.clst)
                => Unowned(v, G, x)
  BY <1>8, FileSet
<1> QED BY <1>1, <1>2, <1>9

\* The clusters behind the first k.
LEMMA RestIs ==
    ASSUME NEW s \in Seq(Clusters), NEW k \in Nat, k <= Len(s), NEW r, r = SubSeq(s, k + 1, Len(s))
    PROVE  r \in Seq(Clusters) /\ Len(r) = Len(s) - k /\ \A i \in 1 .. Len(r) : r[i] = s[k + i]
<1>1. Len(s) \in Nat
  BY LenProperties
<1>2. \A i \in k + 1 .. Len(s) : s[i] \in Clusters
  BY <1>1, ElementOfSeq
<1>3. k + 1 \in Int /\ Len(s) \in Int
  BY <1>1
<1>4. /\ r \in Seq(Clusters) /\ Len(r) = (IF k + 1 <= Len(s) THEN Len(s) - (k + 1) + 1 ELSE 0)
      /\ \A i \in 1 .. Len(s) - (k + 1) + 1 : r[i] = s[k + 1 + i - 1]
  BY <1>2, <1>3, SubSeqProperties
<1> QED BY <1>1, <1>4

\* A file is cut off: before that, the call has nothing that matters to do when no cluster
\* is kept, ...
LEMMA CutAll ==
    ASSUME NEW v, NEW F, NEW sh, NEW w, NEW f, NEW o, NEW p, NEW G, NEW sg, NEW k, k = 0,
           Cuts(v, F, sh, f, o, k, p, G, sg),
           NEW r, r = SubSeq(Chain(v, o.clst), k + 1, Len(Chain(v, o.clst)))
    PROVE  Starts(v, w, F, "truncate", f, p, <<>> \o FreeAll(r) \o WriteBuffer(o), sg)
<1> DEFINE j == JobOf("truncate", f, p, F, sg)
<1>m. /\ Fine(v, F, sh) /\ f \in Fils /\ F[f].open /\ o = F[f] /\ p = CutTo(o, 0) /\ G = [F EXCEPT ![f] = p]
  BY DEF Cuts
<1>1. /\ o \in FilRecs /\ o.open /\ o \in OpenFils /\ Chained(v, o.clst)
      /\ (o.dirty # 0 => ~ IsTable(v, o.dirty)) /\ \A x \in Own(v, o.clst) : ~ IsTable(v, x)
  BY <1>m, OpenFile
<1>2. /\ Fine(v, G, sg)
      /\ \A x : x \in Own(v, o.clst) /\ x \notin Own(v, p.clst) => Unowned(v, G, x)
  BY CutFine
<1>3. p.clst = 0
  BY <1>1, <1>m, CutToIs
<1>4. \A x \in Own(v, o.clst) : Unowned(v, G, x)
  BY <1>2, <1>3, ChainNone
<1>5. /\ Chain(v, o.clst) \in Seq(Clusters) /\ Len(Chain(v, o.clst)) \in Nat
      /\ \A x : x \in Own(v, o.clst) <=> \E i \in 1 .. Len(Chain(v, o.clst)) : x = Chain(v, o.clst)[i]
  BY <1>1, ChainTyped
<1>6. r \in Seq(Clusters) /\ Len(r) = Len(Chain(v, o.clst)) - 0
      /\ \A i \in 1 .. Len(r) : r[i] = Chain(v, o.clst)[0 + i]
  BY <1>5, RestIs
<1>7. \A i \in 1 .. Len(r) : r[i] \in Own(v, o.clst)
  BY <1>5, <1>6
<1>8. FreeAll(r) \in Seq(Calm(v, G, G)) /\ WriteBuffer(o) \in Seq(Calm(v, G, G))
  BY <1>1, <1>4, <1>6, <1>7, SpareSeq, WriteBufferCalm
<1>9. <<>> \o FreeAll(r) \o WriteBuffer(o) \in Seq(Calm(v, G, G))
  <2>1. <<>> \o FreeAll(r) \in Seq(Calm(v, G, G))
    BY <1>8, ConcatProperties
  <2> QED BY <1>8, <2>1, ConcatProperties
<1>10. j.cur = G /\ j.then = G
  BY <1>m DEF JobOf
<1> HIDE DEF j
<1>11. j = JobOf("truncate", f, p, F, sg) /\ "truncate" \in PlainOps
  BY DEF j, PlainOps
<1>12. /\ Fine(v, j.cur, sg) /\ Fine(v, j.then, sg)
       /\ <<>> \o FreeAll(r) \o WriteBuffer(o) \in Seq(Calm(v, j.cur, j.then))
  BY <1>2, <1>9, <1>10
<1> QED BY ONLY <1>11, <1>12, StartsNone

\* One change of the FAT in the chain of an open file.
FatGoes(v, F, sh, f, l, val, w) ==
    /\ Fine(v, F, sh) /\ f \in Fils /\ F[f].open /\ l \in Own(v, F[f].clst) /\ val \in Nat /\ val # 0
    /\ w = Changed(v, SetFat(l, val))
    /\ Chained(w, F[f].clst) /\ Len(Chain(w, F[f].clst)) >= F[f].size
    /\ \A x \in Own(w, F[f].clst) : x \in Own(v, F[f].clst) \/ (Unowned(v, F, x) /\ ~ IsTable(v, x))
    /\ F[f].dirty # 0 => F[f].dirty \in Own(w, F[f].clst)

\* What a file has then no more has no owner.
LEMMA FatPut ==
    ASSUME NEW v, NEW F, NEW sh, NEW f, NEW l, NEW w, NEW val, FatGoes(v, F, sh, f, l, val, w)
    PROVE  /\ Fine(w, F, sh)
           /\ \A x : x \in Own(v, F[f].clst) /\ x \notin Own(w, F[f].clst) => Unowned(w, F, x)
  BY FatSet DEF FatGoes

\* ... and else ends the chain after the clusters that are kept.
LEMMA CutSome ==
    ASSUME NEW v, NEW F, NEW sh, NEW w, NEW f, NEW o, NEW p, NEW G, NEW sg, NEW k, k # 0,
           Cuts(v, F, sh, f, o, k, p, G, sg), NEW s, s = Chain(v, o.clst), NEW r, r = SubSeq(s, k + 1, Len(s)),
           NEW v1, v1 = Changed(v, SetFat(s[k], EOC))
    PROVE  /\ r # <<>>
           /\ Starts(v, w, F, "truncate", f, p, <<SetFat(s[k], EOC)>> \o FreeAll(r) \o WriteBuffer(o), sg)
<1> DEFINE j == JobOf("truncate", f, p, F, sg)
           ch == SetFat(s[k], EOC)
<1>m. /\ Fine(v, F, sh) /\ f \in Fils /\ F[f].open /\ o = F[f] /\ p = CutTo(o, k) /\ G = [F EXCEPT ![f] = p]
      /\ k \in Nat /\ k < o.size
  BY DEF Cuts
<1>0. v \in Volumes /\ F \in [Fils -> FilRecs] /\ EOC \in Nat /\ EOC # 0 /\ Clusters \subseteq Tables
  BY <1>m, FineParts, Constants
<1>1. /\ o \in FilRecs /\ o.open /\ o \in OpenFils /\ Chained(v, o.clst) /\ Len(s) >= o.size /\ o.size \in Nat
      /\ (o.dirty # 0 => ~ IsTable(v, o.dirty) /\ o.dirty \in Own(v, o.clst))
      /\ \A x \in Own(v, o.clst) : ~ IsTable(v, x)
  BY <1>m, OpenFile
<1>2. Fine(v, G, sg)
  BY CutFine
<1>3. p \in FilRecs /\ p.clst = o.clst /\ p.size = k /\ p.open /\ p.dirty = 0
  BY <1>1, <1>m, CutToIs
<1>4. /\ s \in Seq(Clusters) /\ Len(s) \in Nat /\ Differ(s) /\ Own(v, o.clst) \subseteq Clusters
      /\ \A x : x \in Own(v, o.clst) <=> \E i \in 1 .. Len(s) : x = s[i]
  BY <1>1, ChainTyped
<1>5. k \in 1 .. Len(s) /\ k < Len(s)
  BY <1>1, <1>4, <1>m
<1>6. s[k] \in Own(v, o.clst) /\ s[k] \in Clusters
  BY <1>4, <1>5
<1>7. o.clst # 0
  BY <1>6, ChainNone
<1>8. /\ v1 \in Volumes /\ v1.fat[s[k]] = EOC /\ \A x \in Clusters : x # s[k] => v1.fat[x] = v.fat[x]
      /\ \A t \in Tables : v1.has[t] = v.has[t]
  <2>1. s[k] \in Clusters /\ v \in Volumes /\ EOC \in Nat /\ EOC # 0 /\ v1 = Changed(v, SetFat(s[k], EOC))
    BY <1>0, <1>6
  <2>2. /\ v1 \in Volumes /\ v1.fat[s[k]] = EOC /\ \A x \in Clusters : x # s[k] => v1.fat[x] = v.fat[x]
        /\ \A t \in Tables : t # s[k] \/ EOC # 0 => v1.has[t] = v.has[t]
    BY ONLY <2>1, FatChanged
  <2> QED BY <2>1, <2>2
<1>9. /\ Chained(v1, o.clst) /\ Len(Chain(v1, o.clst)) = k
      /\ \A i \in 1 .. k : Chain(v1, o.clst)[i] = s[i]
  BY <1>1, <1>4, <1>5, <1>7, <1>8, ChainCut
<1>10. \A x : x \in Own(v1, o.clst) <=> \E i \in 1 .. k : x = s[i]
  <2>1. \A x : x \in Own(v1, o.clst) <=> \E i \in 1 .. Len(Chain(v1, o.clst)) : x = Chain(v1, o.clst)[i]
    BY <1>9, ChainTyped
  <2> HIDE DEF ch
  <2> QED BY ONLY <1>9, <2>1
<1>11. \A x \in Own(v1, o.clst) : x \in Own(v, o.clst)
  BY <1>4, <1>5, <1>10
<1>12. G[f] = p
  BY <1>0, <1>3, <1>m, FilSet
<1>13. /\ Fine(v1, G, sg)
       /\ \A x : x \in Own(v, o.clst) /\ x \notin Own(v1, o.clst) => Unowned(v1, G, x)
  <2>1. /\ Fine(v, G, sg) /\ f \in Fils /\ G[f].open /\ s[k] \in Own(v, G[f].clst) /\ EOC \in Nat /\ EOC # 0
        /\ v1 = Changed(v, SetFat(s[k], EOC))
    BY <1>0, <1>2, <1>3, <1>6, <1>12, <1>m
  <2>2. /\ Chained(v1, G[f].clst) /\ Len(Chain(v1, G[f].clst)) >= G[f].size
        /\ \A x \in Own(v1, G[f].clst) : x \in Own(v, G[f].clst) \/ (Unowned(v, G, x) /\ ~ IsTable(v, x))
        /\ G[f].dirty # 0 => G[f].dirty \in Own(v1, G[f].clst)
    BY <1>3, <1>9, <1>11, <1>12, <1>m
  <2>3. FatGoes(v, G, sg, f, s[k], EOC, v1)
    BY ONLY <2>1, <2>2 DEF FatGoes
  <2>4. /\ Fine(v1, G, sg)
        /\ \A x : x \in Own(v, G[f].clst) /\ x \notin Own(v1, G[f].clst) => Unowned(v1, G, x)
    BY <2>3, FatPut
  <2> QED BY <1>3, <1>12, <2>4
<1>14. /\ r \in Seq(Clusters) /\ Len(r) = Len(s) - k /\ \A i \in 1 .. Len(r) : r[i] = s[k + i]
  BY <1>4, <1>5, <1>m, RestIs
<1>15. r # <<>>
  <2>1. Len(r) # 0
    BY <1>4, <1>5, <1>14
  <2> QED BY <2>1
<1>16. ASSUME NEW i \in 1 .. Len(r)  PROVE Unowned(v1, G, r[i]) /\ ~ IsTable(v1, r[i])
  <2>1. k + i \in 1 .. Len(s) /\ r[i] = s[k + i]
    BY <1>4, <1>5, <1>14
  <2>2. r[i] \in Own(v, o.clst) /\ r[i] \in Tables
    BY <1>0, <1>4, <2>1
  <2>3. r[i] \notin Own(v1, o.clst)
    <3> SUFFICES ASSUME NEW h \in 1 .. k, s[k + i] = s[h]  PROVE FALSE
      BY <1>10, <2>1
    <3>1. h \in 1 .. Len(s) /\ h # k + i
      BY <1>4, <1>5
    <3> QED BY <1>4, <2>1, <3>1 DEF Differ
  <2>4. ~ IsTable(v1, r[i])
    BY <1>1, <1>8, <2>2 DEF IsTable
  <2> QED BY <1>13, <2>2, <2>3, <2>4
<1>17. o.dirty # 0 => ~ IsTable(v1, o.dirty)
  BY <1>0, <1>1, <1>4, <1>8 DEF IsTable
<1>18. FreeAll(r) \in Seq(Calm(v1, G, G)) /\ WriteBuffer(o) \in Seq(Calm(v1, G, G))
  BY <1>1, <1>14, <1>16, <1>17, SpareSeq, WriteBufferCalm
<1>19. /\ <<ch>> \o FreeAll(r) \o WriteBuffer(o) = <<ch>> \o (FreeAll(r) \o WriteBuffer(o))
       /\ FreeAll(r) \o WriteBuffer(o) \in Seq(Calm(v1, G, G))
  BY <1>18, ConsOn
<1>20. j.cur = G /\ j.then = G
  BY <1>m DEF JobOf
<1>21. Legal(v, w, ch)
  BY <1>0, <1>6 DEF Legal, LegalFat
<1> HIDE DEF j, ch
<1>22. j = JobOf("truncate", f, p, F, sg) /\ "truncate" \in PlainOps /\ v1 = Changed(v, ch)
  BY DEF j, ch, PlainOps
<1>23. /\ Fine(v, j.cur, sg) /\ Fine(v1, j.cur, sg) /\ Fine(v1, j.then, sg)
       /\ FreeAll(r) \o WriteBuffer(o) \in Seq(Calm(v1, j.cur, j.then))
  BY <1>2, <1>13, <1>19, <1>20
<1>24. Starts(v, w, F, "truncate", f, p, <<ch>> \o (FreeAll(r) \o WriteBuffer(o)), sg)
  BY ONLY <1>21, <1>22, <1>23, StartsOne
<1> QED BY <1>15, <1>19, <1>24 DEF ch

\* f_truncate.
LEMMA TruncateInv ==
    ASSUME Inv, ~ hurt, call = Idle, NEW f \in Fils, NEW k \in 0 .. MaxSize, Truncate(f, k)
    PROVE  Inv'
<1> DEFINE o == fil[f]
           s == Chain(now, o.clst)
           p == CutTo(o, k)
           G == [fil EXCEPT ![f] = p]
           r == SubSeq(s, k + 1, Len(s))
           cut == IF k = 0 \/ r = <<>> THEN <<>> ELSE <<SetFat(s[k], EOC)>>
           todo == cut \o FreeAll(r) \o WriteBuffer(o)
<1>0. Fine(now, fil, shrunk)
  BY IdleIs
<1>1. o.open /\ k < o.size /\ Begin("truncate", f, p, todo) /\ shrunk' = shrunk \cup {o.id}
  BY DEF Truncate, CutTo
<1>2. Cuts(now, fil, shrunk, f, o, k, p, G, shrunk \cup {o.id})
  BY <1>0, <1>1 DEF Cuts
<1>3. Starts(now, win, fil, "truncate", f, p, todo, shrunk \cup {o.id})
  <2>1. CASE k = 0
    BY <1>2, <2>1, CutAll
  <2>2. CASE k # 0
    BY <1>2, <2>2, CutSome
  <2> QED BY <2>1, <2>2
<1> HIDE DEF p, todo
<1> QED BY <1>1, <1>3, BeginStarts
-----------------------------------------------------------------------------
(* f_sync and f_close *)

\* The file object and the entry when the entry has been written.
Synced(o) == [o EXCEPT !.mod = FALSE, !.dirty = 0, !.part = 0]
SyncEntry(e, o) == [e EXCEPT !.clst = o.clst, !.size = o.size]

\* The types of both.
LEMMA SyncedIs ==
    ASSUME NEW o \in OpenFils, NEW a, a = Synced(o)
    PROVE  /\ a \in FilRecs /\ a.open /\ a.id = o.id /\ Place(a) = Place(o) /\ ~ a.mod /\ a.dirty = 0
           /\ a.clst = o.clst /\ a.size = o.size
<1>1. /\ o.id \in Ids /\ o.t \in Tables /\ o.s \in 1 .. Slots /\ o.open = TRUE
      /\ o.clst \in {0} \cup Clusters /\ o.size \in Nat
  BY DEF OpenFils
<1>2. a = [open |-> o.open, id |-> o.id, t |-> o.t, s |-> o.s, clst |-> o.clst,
           size |-> o.size, dirty |-> 0, part |-> 0, mod |-> FALSE]
  BY DEF Synced, OpenFils
<1>3. a \in OpenFils
  BY ONLY <1>1, <1>2 DEF OpenFils
<1> QED BY <1>1, <1>2, <1>3 DEF FilRecs, Place

\* The type and the fields of the entry.
LEMMA SyncEntryIs ==
    ASSUME NEW e \in FileEntries, NEW o \in OpenFils, NEW n, n = SyncEntry(e, o)
    PROVE  /\ n \in Entries /\ n # Unused /\ ~ n.dir /\ n.id = e.id /\ n.name = e.name
           /\ n.clst = o.clst /\ n.size = o.size
<1>1. o.clst \in {0} \cup Clusters /\ o.size \in Nat
  BY DEF OpenFils
<1>2. n \in FileEntries /\ n.id = e.id /\ n.name = e.name /\ n.clst = o.clst /\ n.size = o.size /\ n.dir = FALSE
  BY <1>1 DEF SyncEntry, FileEntries
<1> QED BY <1>2, EntryUsed

\* The entry of an open file is brought up to date.
Syncs(v, F, sh, f, o, n, w) ==
    /\ Fine(v, F, sh) /\ f \in Fils /\ F[f].open /\ o = F[f]
    /\ n = SyncEntry(At(v, Place(o)), o) /\ w = Changed(v, SetEntry(o.t, o.s, n))

\* It is right before the file object is marked, ...
LEMMA SyncPut ==
    ASSUME NEW v, NEW F, NEW sh, NEW f, NEW o, NEW n, NEW w, Syncs(v, F, sh, f, o, n, w)
    PROVE  /\ Fine(w, F, sh) /\ (\A u : Legal(v, u, SetEntry(o.t, o.s, n))) /\ Place(o) \in All(w)
           /\ At(w, Place(o)) = n /\ ~ n.dir /\ n.id = o.id /\ n.clst = o.clst /\ n.size = o.size
<1>m. /\ Fine(v, F, sh) /\ f \in Fils /\ F[f].open /\ o = F[f]
      /\ n = SyncEntry(At(v, Place(o)), o) /\ w = Changed(v, SetEntry(o.t, o.s, n))
  BY DEF Syncs
<1> DEFINE q == Place(o)
<1>1. /\ o \in OpenFils /\ FilFits(v, o, sh) /\ q \in All(v) /\ q = <<o.t, o.s>> /\ o.t \in Tables
      /\ o.s \in 1 .. Slots /\ Clst(v, F, q) = o.clst /\ Holders(F, q) = {f} /\ ~ At(v, q).dir
      /\ Chained(v, o.clst) /\ Len(Chain(v, o.clst)) >= o.size /\ o.size \in Nat
      /\ \A x \in Own(v, o.clst) : ~ IsTable(v, x)
  <2>1. Fine(v, F, sh) /\ f \in Fils /\ F[f].open /\ o = F[f]
    BY <1>m
  <2> QED BY ONLY <2>1, OpenFile DEF q
<1>2. v \in Volumes /\ NamesApart(v) /\ q[1] \in Reach(v)
  BY <1>1, <1>m, FineParts
<1>3. At(v, q) \in FileEntries /\ At(v, q).id = o.id /\ IsTable(v, o.t)
  <2>1. At(v, q) \in Entries /\ At(v, q) # Unused /\ IsTable(v, q[1]) /\ q[1] = o.t
    BY <1>1, <1>2, AllTyped
  <2> QED BY <1>1, <2>1, EntryTyped DEF FilFits
<1>4. /\ n \in Entries /\ n # Unused /\ ~ n.dir /\ n.id = o.id /\ n.name = At(v, q).name
      /\ n.clst = o.clst /\ n.size = o.size
  BY <1>1, <1>3, <1>m, SyncEntryIs
<1> HIDE DEF q
<1>5. /\ w.fat = v.fat /\ q[1] = o.t /\ At(w, q) = n /\ q \in All(w)
      /\ \A x \in Tables : IsTable(w, x) <=> IsTable(v, x)
  BY ONLY <1>1, <1>2, <1>3, <1>4, <1>m, EntrySpots
<1>6. Clst(w, F, q) = o.clst /\ Size(w, F, q) = o.size
  <2>1. (CHOOSE g \in Holders(F, q) : TRUE) = f
    BY <1>1
  <2> QED BY <1>1, <1>4, <1>5, <1>m, <2>1 DEF Clst, Size
<1>7. Chained(w, o.clst) /\ Chain(w, o.clst) = Chain(v, o.clst) /\ Own(w, o.clst) = Own(v, o.clst)
  BY <1>1, <1>5, ChainKept
<1>8. \A x \in Own(v, o.clst) : ~ IsTable(w, x)
  BY <1>1, <1>5, ChainTyped, Constants
<1>9. ObjectLaid(w, F, q)
  BY <1>1, <1>4, <1>5, <1>6, <1>7, <1>8 DEF ObjectLaid, FileLaid
<1>10. EntryFits(v, F, o.t, q, n, w)
  <2>1. \A x \in Own(w, Clst(w, F, q)) : q \in All(v) /\ x \in Own(v, Clst(v, F, q))
    BY <1>1, <1>6, <1>7
  <2>2. \A p \in All(v) : p # q /\ p[1] = o.t => At(v, p).name # n.name
    BY <1>1, <1>2, <1>4, <1>5 DEF NamesApart
  <2>3. o.t \in Reach(v)
    BY <1>2, <1>5
  <2> QED BY <1>9, <2>1, <2>2, <2>3 DEF EntryFits
<1>11. ASSUME NEW g \in Fils, F[g].open, Place(F[g]) = q  PROVE FilFits(w, F[g], sh)
  <2>1. F[g] = o
    BY <1>1, <1>11, <1>m DEF Holders
  <2>2. FilFits(w, o, sh)
    BY <1>1, <1>4, <1>5, <1>7 DEF FilFits, q
  <2> QED BY <2>1, <2>2
<1>12. EntryPut(v, F, sh, o.t, o.s, n, q, w)
  <2>1. /\ n # Unused => EntryFits(v, F, o.t, q, n, w)
        /\ q \in All(v) /\ At(v, q).dir => Used(v, At(v, q).clst) = {}
        /\ \A g \in Fils : F[g].open /\ Place(F[g]) = q => FilFits(w, F[g], sh)
    BY <1>1, <1>10, <1>11
  <2> QED BY ONLY <1>1, <1>3, <1>4, <1>m, <2>1 DEF EntryPut
<1>13. Fine(w, F, sh)
  BY <1>12, EntrySet
<1>14. (\A u : Legal(v, u, SetEntry(o.t, o.s, n)))
  BY <1>1, <1>3, <1>4 DEF Legal, LegalEntry
<1> QED BY <1>4, <1>5, <1>13, <1>14 DEF q

\* ... and when it is marked or closed.
LEMMA SyncLeaves ==
    ASSUME NEW v, NEW F, NEW sh, NEW f, NEW o, NEW n, NEW w, Syncs(v, F, sh, f, o, n, w),
           NEW a, a \in {Synced(o), Closed}, NEW G, G = [F EXCEPT ![f] = a],
           NEW sg, sg = sh \ {o.id}
    PROVE  Fine(w, G, sg)
<1>m. f \in Fils /\ F[f].open /\ o = F[f] /\ Fine(v, F, sh)
  BY DEF Syncs
<1>1. /\ Fine(w, F, sh) /\ Place(o) \in All(w)
      /\ At(w, Place(o)) = n /\ ~ n.dir /\ n.id = o.id /\ n.clst = o.clst /\ n.size = o.size
  BY SyncPut
<1>2. /\ o \in OpenFils /\ Clst(w, F, Place(o)) = o.clst /\ Chained(w, o.clst) /\ o.size \in Nat
      /\ Len(Chain(w, o.clst)) >= o.size /\ \A g \in Fils : g # f /\ F[g].open => F[g].id # o.id
  BY <1>1, <1>m, OpenFile
<1> DEFINE b == Synced(o)
           H == [F EXCEPT ![f] = b]
<1>3. /\ b \in FilRecs /\ b.open /\ b.id = o.id /\ Place(b) = Place(o) /\ ~ b.mod /\ b.dirty = 0
      /\ b.clst = o.clst /\ b.size = o.size
  BY <1>2, SyncedIs
<1> HIDE DEF b
<1>4. FilFits(w, b, sg)
  BY ONLY <1>1, <1>2, <1>3 DEF FilFits
<1>5. Place(F[f]) = Place(b) /\ H = [F EXCEPT ![f] = b]
      /\ \A g \in Fils : g # f /\ F[g].open /\ F[g].id \in sh => F[g].id \in sg
  BY <1>2, <1>3, <1>m
<1>6. \A x \in Own(w, b.clst) : x \in Own(w, Clst(w, F, Place(b)))
  BY <1>2, <1>3
<1> HIDE DEF H
<1>7. FilePut(w, F, sh, f, b, H, sg)
  BY ONLY <1>1, <1>2, <1>3, <1>4, <1>5, <1>6, <1>m DEF FilePut
<1>8. Fine(w, H, sg)
  BY <1>7, FileSet
<1>9. CASE a = b
  BY <1>8, <1>9 DEF H
<1>10. CASE a = Closed
  <2>1. F \in [Fils -> FilRecs]
    BY <1>m, FineParts
  <2>2. H[f] = b
    BY <1>3, <1>5, <1>m, <2>1, FilSet
  <2>3. H[f].open /\ ~ H[f].mod /\ sg \ {H[f].id} \subseteq sg /\ f \in Fils
    BY <1>3, <1>m, <2>2
  <2>4. G = [H EXCEPT ![f] = Closed]
    BY <1>10, <1>m, <2>1 DEF H
  <2> QED BY ONLY <1>8, <2>3, <2>4, FileClosed
<1> QED BY <1>9, <1>10 DEF b

\* A file that is changed is synced: its buffer, if it holds anything, its entry, and
\* sync_fs.
SyncJob(v, F, sh, f, o, j) ==
    /\ Fine(v, F, sh) /\ f \in Fils /\ F[f].open /\ o = F[f]
    /\ \E a \in {Synced(o), Closed} : j = JobOf("sync", f, a, F, sh)

\* Two changes.
LEMMA PairIs ==
    ASSUME NEW a, NEW b
    PROVE  <<a>> \o <<b>> = <<a, b>> /\ <<a, b>> # <<>>
<1> DEFINE S == {a, b}
           x == <<a>>
           y == <<b>>
           s == <<a>> \o <<b>>
           r == <<a, b>>
<1>1. x \in Seq(S) /\ y \in Seq(S) /\ Len(x) = 1 /\ Len(y) = 1 /\ x[1] = a /\ y[1] = b
  OBVIOUS
<1>2. r \in Seq(S) /\ Len(r) = 2 /\ r[1] = a /\ r[2] = b /\ r # <<>>
  OBVIOUS
<1> HIDE DEF S, r, x, y
<1>3. /\ x \o y \in Seq(S) /\ Len(x \o y) = Len(x) + Len(y)
      /\ \A i \in 1 .. Len(x) + Len(y) : (x \o y)[i] = IF i <= Len(x) THEN x[i] ELSE y[i - Len(x)]
  BY <1>1, ConcatProperties
<1>4. Len(x \o y) = 2 /\ (x \o y)[1] = a /\ (x \o y)[2] = b
  BY <1>1, <1>3
<1>5. x \o y = r
  <2>1. \A i \in 1 .. 2 : i = 1 \/ i = 2
    OBVIOUS
  <2>2. \A i \in 1 .. Len(r) : (x \o y)[i] = r[i]
    BY <1>2, <1>4, <2>1
  <2> QED BY <1>2, <1>3, <1>4, <2>2, SeqEqual
<1> QED BY <1>2, <1>5 DEF r, x, y

\* From the entry on.
LEMMA SyncSafe ==
    ASSUME NEW v, NEW F, NEW sh, NEW f, NEW o, NEW j, SyncJob(v, F, sh, f, o, j), NEW w, NEW n,
           n = SyncEntry(At(v, Place(o)), o), NEW ch, ch = SetEntry(o.t, o.s, n)
    PROVE  Safe1(j, v, w, <<ch, Sync>>)
<1> DEFINE v1 == Changed(v, ch)
           w1 == WinAfter(w, ch)
<1>m. Fine(v, F, sh) /\ f \in Fils /\ F[f].open /\ o = F[f]
  BY DEF SyncJob
<1>1. PICK a \in {Synced(o), Closed} : j = JobOf("sync", f, a, F, sh)
  BY DEF SyncJob
<1> DEFINE G == [F EXCEPT ![f] = a]
<1>2. j.op = "sync" /\ j.cur = F /\ j.then = G /\ j.sh = sh /\ j.sg = sh \ {o.id}
  BY <1>1, <1>m DEF JobOf
<1>3. Syncs(v, F, sh, f, o, n, v1)
  BY <1>m DEF Syncs
<1> HIDE DEF v1, G, w1
<1>4. Fine(v1, F, sh) /\ Legal(v, w, ch)
  BY <1>3, SyncPut
<1>5. Fine(v1, G, sh \ {o.id})
  <2>1. G = [F EXCEPT ![f] = a]
    BY DEF G
  <2> QED BY <1>3, <2>1, SyncLeaves
<1>6. <<Sync>> \in Seq(Calm(v1, j.cur, j.then))
  BY MoveCalm
<1>7. Safe0(j, v1, w1, <<Sync>>)
  <2>1. Fine(v1, j.cur, j.sh) /\ Fine(v1, j.then, j.sg)
    BY <1>2, <1>4, <1>5
  <2> QED BY <1>6, <2>1, SafeCalm
<1>8. Goes(j, v, w, ch)
  BY <1>2, <1>4 DEF Goes, v1
<1>9. v1 = Changed(v, ch) /\ w1 = WinAfter(w, ch) /\ <<ch>> \o <<Sync>> = <<ch, Sync>>
  BY PairIs DEF v1, w1
<1>10. Safe1(j, v, w, <<ch>> \o <<Sync>>)
  <2>1. <<Sync>> \in Seq({Sync})
    OBVIOUS
  <2> QED BY ONLY <1>7, <1>8, <1>9, <2>1, SafeCons
<1> QED BY <1>9, <1>10

\* With the buffer before it.
LEMMA SyncStarts ==
    ASSUME NEW v, NEW F, NEW sh, NEW f, NEW o, NEW a, a \in {Synced(o), Closed},
           Fine(v, F, sh) /\ f \in Fils /\ F[f].open /\ o = F[f], NEW w, NEW n,
           n = SyncEntry(At(v, Place(o)), o), NEW ch, ch = SetEntry(o.t, o.s, n)
    PROVE  Starts(v, w, F, "sync", f, a, WriteBuffer(o) \o <<ch, Sync>>, sh)
<1> DEFINE j == JobOf("sync", f, a, F, sh)
           todo == WriteBuffer(o) \o <<ch, Sync>>
<1>1. j.op = "sync" /\ j.cur = F /\ j.sh = sh
  BY DEF JobOf
<1>2. SyncJob(v, F, sh, f, o, j)
  BY DEF SyncJob
<1> HIDE DEF j
<1>3. Safe1(j, v, w, <<ch, Sync>>)
  BY <1>2, SyncSafe
<1>4. /\ o \in FilRecs /\ o.open /\ o.t \in Tables /\ o.s \in 1 .. Slots /\ Place(o) = <<o.t, o.s>>
      /\ o.dirty # 0 => ~ IsTable(v, o.dirty) /\ o.dirty \in Own(v, o.clst)
      /\ Chained(v, o.clst) /\ v \in Volumes /\ Place(o) \in All(v)
  BY OpenFile, FineParts
<1>5. CASE o.dirty = 0
  <2>1. todo = <<ch, Sync>> /\ <<ch, Sync>> # <<>>
    BY <1>5, PairIs DEF WriteBuffer
  <2>2. Safe(j, v, w, todo) /\ todo # <<>>
    BY <1>3, <2>1 DEF Safe
  <2> HIDE DEF todo
  <2>3. Starts(v, w, F, "sync", f, a, todo, sh)
    BY <1>1, <2>2 DEF Starts, Ops, j
  <2> QED BY <2>3 DEF todo
<1>6. CASE o.dirty # 0
  <2> DEFINE put == Put(o.dirty, Data(o.id, o.part))
             v1 == Changed(v, put)
             w1 == WinAfter(w, put)
  <2>1. o.dirty \in Clusters /\ Data(o.id, o.part) \in DataHolds /\ ~ IsTable(v, o.dirty)
    BY <1>4, <1>6, FilTyped DEF Data, DataHolds
  <2>2. put \in Quiets(v, F)
    BY <2>1 DEF Quiets
  <2>3. Data(o.id, o.part) \in Holds
    BY <2>1 DEF Holds
  <2>4. \A t \in Tables : t # o.dirty => v1.has[t] = v.has[t]
    BY <1>4, <2>1, <2>3, PutChanged
  <2> HIDE DEF put
  <2>5. Alike(v, F, v1) /\ Legal(v, w, put)
    BY <1>4, <2>2, QuietAlike
  <2> HIDE DEF v1, w1
  <2>6. Fine(v1, F, sh)
    BY <2>5, AlikeFine
  <2>7. At(v1, Place(o)) = At(v, Place(o))
    <3>1. IsTable(v, o.t)
      BY <1>4, SpotIs
    <3>2. v1.has[o.t] = v.has[o.t]
      BY <1>4, <2>1, <2>4, <3>1
    <3> QED BY <1>4, <3>2 DEF At, Entry
  <2>8. SyncJob(v1, F, sh, f, o, j)
    BY <1>2, <2>6 DEF SyncJob
  <2>9. Safe1(j, v1, w1, <<ch, Sync>>)
    BY <2>7, <2>8, SyncSafe
  <2>10. Goes(j, v, w, put)
    BY <1>1, <2>5, <2>6 DEF Goes, v1
  <2>11. todo = <<put>> \o <<ch, Sync>>
    BY <1>6 DEF WriteBuffer, put
  <2>12. v1 = Changed(v, put) /\ w1 = WinAfter(w, put)
    BY DEF v1, w1
  <2> HIDE DEF todo
  <2>13. todo # <<>> /\ Safe2(j, v, w, todo)
    <3>1. <<ch, Sync>> \in Seq({ch, Sync})
      OBVIOUS
    <3>2. <<put>> \o <<ch, Sync>> # <<>> /\ Safe2(j, v, w, <<put>> \o <<ch, Sync>>)
      BY ONLY <2>9, <2>10, <2>12, <3>1, SafeCons
    <3> QED BY <2>11, <3>2
  <2>14. Starts(v, w, F, "sync", f, a, todo, sh)
    BY <1>1, <2>13 DEF Starts, Safe, Ops, j
  <2> QED BY <2>14 DEF todo
<1> QED BY <1>5, <1>6

\* f_sync, and f_close.
LEMMA SyncInv ==
    ASSUME Inv, ~ hurt, call = Idle, NEW f \in Fils, NEW close \in BOOLEAN, SyncFile(f, close)
    PROVE  Inv'
<1> DEFINE o == fil[f]
           a == IF close THEN Closed ELSE Synced(o)
           n == SyncEntry(At(now, Place(o)), o)
           todo == IF o.mod THEN WriteBuffer(o) \o <<SetEntry(o.t, o.s, n), Sync>> ELSE <<>>
<1>0. Fine(now, fil, shrunk)
  BY IdleIs
<1>1. At(now, Place(o)) = Entry(now, o.t, o.s)
  BY DEF At, Place
<1>2. /\ o.open /\ (o.mod \/ close) /\ shrunk' = shrunk
      /\ Begin("sync", f, a, todo)
  BY <1>1 DEF SyncFile, Synced, SyncEntry
<1>3. Starts(now, win, fil, "sync", f, a, todo, shrunk)
  <2>1. CASE o.mod
    <3>1. a \in {Synced(o), Closed}
      OBVIOUS
    <3>2. Starts(now, win, fil, "sync", f, a, WriteBuffer(o) \o <<SetEntry(o.t, o.s, n), Sync>>, shrunk)
      BY <1>0, <1>2, <3>1, SyncStarts
    <3> QED BY <2>1, <3>2
  <2>2. CASE ~ o.mod
    <3>1. a = Closed /\ todo = <<>>
      BY <1>2, <2>2
    <3> DEFINE G == [fil EXCEPT ![f] = Closed]
    <3>2. Fine(now, G, shrunk)
      BY <1>0, <1>2, <2>2, FileClosed
    <3>3. JobOf("sync", f, Closed, fil, shrunk).then = G
      BY DEF JobOf
    <3> HIDE DEF G, a, todo
    <3> QED BY <3>1, <3>2, <3>3 DEF Starts, Ops
  <2> QED BY <2>1, <2>2
<1> HIDE DEF a, todo
<1> QED BY <1>2, <1>3, BeginStarts
-----------------------------------------------------------------------------
(* f_unlink *)

\* Calls that have no file object.
LEMMA VolJob ==
    ASSUME NEW F, NEW op, op \in {"unlink", "mkdir", "rename"}, NEW sg, NEW j, j = JobOf(op, "none", Closed, F, sg)
    PROVE  j.op = op /\ j.cur = F /\ j.then = F /\ j.sh = sg /\ j.sg = sg
<1>1. "none" \notin Fils
  BY SizeAssumption
<1> QED BY <1>1 DEF JobOf

\* A file that is not open or an empty directory has its entry at p.
Removes(v, F, sh, p, e, v1) ==
    /\ Fine(v, F, sh) /\ p \in Places(v) /\ e = At(v, p)
    /\ IF e.dir THEN Used(v, e.clst) = {} ELSE Unheld(v, F, p)
    /\ v1 = Changed(v, SetEntry(p[1], p[2], Unused))

\* Without the entry, nobody owns its clusters.
LEMMA RemovedFine ==
    ASSUME NEW v, NEW F, NEW sh, NEW p, NEW e, NEW v1, Removes(v, F, sh, p, e, v1)
    PROVE  /\ Fine(v1, F, sh) /\ \A w : Legal(v, w, SetEntry(p[1], p[2], Unused))
           /\ p \in All(v) /\ p[1] \in Tables /\ p[2] \in 1 .. Slots /\ e \in Entries /\ e # Unused
           /\ Chained(v, e.clst) /\ (e.dir => e.clst \in Clusters /\ Chain(v, e.clst) = <<e.clst>>)
           /\ \A x \in Own(v, e.clst) : Unowned(v1, F, x) /\ (~ e.dir => ~ IsTable(v1, x))
           /\ e.dir => Unowned(v1, F, e.clst) /\ Used(v1, e.clst) = {}
<1>m. /\ Fine(v, F, sh) /\ p \in Places(v) /\ e = At(v, p)
      /\ e.dir => Used(v, e.clst) = {}
      /\ ~ e.dir => Unheld(v, F, p)
      /\ v1 = Changed(v, SetEntry(p[1], p[2], Unused))
  BY DEF Removes
<1> DEFINE t == p[1]
           s == p[2]
<1>0. v \in Volumes /\ Laid(v, F) /\ IsTable(v, 0)
  BY <1>m, FineParts
<1>1. /\ p \in All(v) /\ t \in Tables /\ s \in 1 .. Slots /\ p = <<t, s>> /\ IsTable(v, t)
      /\ e \in Entries /\ e # Unused
  BY <1>0, <1>m, PlaceIs, AllTyped
<1> HIDE DEF t, s
<1>2. Unused \in Entries
  BY DEF Entries
<1>3. v1 = Changed(v, SetEntry(t, s, Unused)) /\ e = At(v, p)
  BY <1>m DEF t, s
<1>4. /\ \A x \in Tables : IsTable(v1, x) <=> IsTable(v, x)
      /\ \A x \in Tables, r \in 1 .. Slots : x # t \/ r # s => Entry(v1, x, r) = Entry(v, x, r)
      /\ At(v1, p) = Unused
  BY ONLY <1>0, <1>1, <1>2, <1>3, EntrySpots
<1>5. Clst(v, F, p) = e.clst /\ (~ e.dir => Holders(F, p) = {})
  BY <1>1, <1>m, HolderNone, UnheldIs
<1>6. /\ Chained(v, e.clst) /\ Own(v, e.clst) \subseteq Clusters
      /\ e.dir => e.clst \in Clusters /\ e.clst \in Own(v, e.clst) /\ Chain(v, e.clst) = <<e.clst>>
  <2>1. /\ Chained(v, Clst(v, F, p)) /\ Own(v, Clst(v, F, p)) \subseteq Clusters
        /\ At(v, p).dir => /\ At(v, p).clst \in Clusters
                           /\ Own(v, Clst(v, F, p)) = {At(v, p).clst}
                           /\ Chain(v, At(v, p).clst) = <<At(v, p).clst>>
    BY <1>0, <1>1, LaidOwn
  <2> QED BY <1>3, <1>5, <2>1
<1>7. \A f \in Fils : F[f].open /\ Place(F[f]) = p => FilFits(v1, F[f], sh)
  <2> SUFFICES ASSUME NEW f \in Fils, F[f].open, Place(F[f]) = p  PROVE FALSE
    OBVIOUS
  <2>1. FilFits(v, F[f], sh)
    BY <1>m, FineParts
  <2>2. ~ e.dir
    BY <1>m, <2>1 DEF FilFits
  <2> QED BY <1>5, <2>2 DEF Holders
<1>8. EntryPut(v, F, sh, t, s, Unused, p, v1)
  <2>1. p \in All(v) /\ At(v, p).dir => Used(v, At(v, p).clst) = {}
    BY <1>m
  <2> QED BY ONLY <1>m, <1>1, <1>2, <1>3, <1>7, <2>1 DEF EntryPut
<1>9. Fine(v1, F, sh)
  BY <1>8, EntrySet
<1>10. ASSUME NEW x \in Own(v, e.clst)  PROVE Unowned(v1, F, x)
  <2>1. (p \in All(v) /\ x \in Own(v, Clst(v, F, p))) \/ Unowned(v, F, x)
    BY <1>1, <1>5, <1>10
  <2>2. Unused # Unused => x \notin Own(v1, Clst(v1, F, p))
    OBVIOUS
  <2> QED BY ONLY <1>0, <1>1, <1>2, <1>3, <2>1, <2>2, EntryLeft
<1>11. ASSUME ~ e.dir, NEW x \in Own(v, e.clst)  PROVE ~ IsTable(v1, x)
  <2>1. \A y \in Own(v, At(v, p).clst) : ~ IsTable(v, y)
    BY <1>1, <1>11, <1>m, UnheldIs
  <2> QED BY <1>3, <1>4, <1>6, <1>11, <2>1, Constants
<1>12. ASSUME e.dir  PROVE Used(v1, e.clst) = {}
  <2>1. e.clst \in Tables /\ Used(v, e.clst) = {}
    BY <1>6, <1>12, <1>m, Constants
  <2> SUFFICES ASSUME NEW r \in Used(v1, e.clst)  PROVE FALSE
    OBVIOUS
  <2>2. r \in 1 .. Slots /\ Entry(v1, e.clst, r) # Unused /\ Entry(v, e.clst, r) = Unused
    BY <2>1 DEF Used
  <2>3. e.clst = t /\ r = s
    BY <1>4, <2>1, <2>2
  <2>4. At(v1, p) = Entry(v1, t, s)
    BY <1>1, SpotIs
  <2> QED BY <1>4, <2>2, <2>3, <2>4
<1>13. \A w : Legal(v, w, SetEntry(t, s, Unused))
  BY <1>1, <1>2 DEF Legal, LegalEntry
<1> QED BY <1>1, <1>6, <1>9, <1>10, <1>11, <1>12, <1>13 DEF t, s

\* A file is removed.
LEMMA UnlinkFile ==
    ASSUME NEW v, NEW F, NEW sh, NEW p, NEW e, NEW v1, Removes(v, F, sh, p, e, v1), ~ e.dir, NEW w,
           NEW ch, ch = SetEntry(p[1], p[2], Unused), NEW free, free = FreeAll(Chain(v, e.clst))
    PROVE  Starts(v, w, F, "unlink", "none", Closed, <<ch>> \o free \o <<Sync>>, sh)
<1> DEFINE j == JobOf("unlink", "none", Closed, F, sh)
<1>1. /\ Fine(v1, F, sh) /\ Legal(v, w, ch) /\ Chained(v, e.clst)
      /\ \A x \in Own(v, e.clst) : Unowned(v1, F, x) /\ ~ IsTable(v1, x)
  BY RemovedFine
<1>2. free \in Seq(Calm(v1, F, F))
  <2>1. Chain(v, e.clst) \in Seq(Clusters)
        /\ \A i \in 1 .. Len(Chain(v, e.clst)) : Chain(v, e.clst)[i] \in Own(v, e.clst)
    BY <1>1, ChainTyped
  <2> QED BY <1>1, <2>1, SpareSeq
<1>3. <<Sync>> \in Seq(Calm(v1, F, F))
  BY MoveCalm
<1>4. /\ <<ch>> \o free \o <<Sync>> = <<ch>> \o (free \o <<Sync>>)
      /\ free \o <<Sync>> \in Seq(Calm(v1, F, F))
  BY <1>2, <1>3, ConsOn
<1>5. j.cur = F /\ j.then = F
  BY VolJob
<1> HIDE DEF j
<1>6. j = JobOf("unlink", "none", Closed, F, sh) /\ "unlink" \in PlainOps /\ v1 = Changed(v, ch)
  BY DEF j, PlainOps, Removes
<1>7. /\ Fine(v, j.cur, sh) /\ Fine(v1, j.cur, sh) /\ Fine(v1, j.then, sh)
      /\ free \o <<Sync>> \in Seq(Calm(v1, j.cur, j.then)) /\ Legal(v, w, ch)
  BY <1>1, <1>4, <1>5 DEF Removes
<1>8. Starts(v, w, F, "unlink", "none", Closed, <<ch>> \o (free \o <<Sync>>), sh)
  BY ONLY <1>6, <1>7, StartsOne
<1> QED BY <1>4, <1>8

\* A directory without entries is removed.
LEMMA UnlinkDir ==
    ASSUME NEW v, NEW F, NEW sh, NEW p, NEW e, NEW v1, Removes(v, F, sh, p, e, v1), e.dir, NEW w,
           NEW ch, ch = SetEntry(p[1], p[2], Unused), NEW dh, dh = SetFat(e.clst, 0),
           NEW v2, v2 = Changed(v1, dh), NEW w1, w1 = WinAfter(w, ch)
    PROVE  Starts(v, w, F, "unlink", "none", Closed, <<ch>> \o FreeAll(Chain(v, e.clst)) \o <<Sync>>, sh)
<1> DEFINE j == JobOf("unlink", "none", Closed, F, sh)
           c == e.clst
<1>1. /\ Fine(v1, F, sh) /\ Legal(v, w, ch) /\ c \in Clusters /\ Chain(v, c) = <<c>>
      /\ Unowned(v1, F, c) /\ Used(v1, c) = {} /\ v1 \in Volumes
  BY RemovedFine, FineParts
<1> HIDE DEF c
<1>2. FreeAll(Chain(v, c)) = <<dh>>
  <2>1. Len(<<c>>) = 1 /\ <<c>>[1] = c
    OBVIOUS
  <2>2. FreeAll(<<c>>) = [i \in 1 .. 1 |-> SetFat(<<c>>[i], 0)]
    BY <2>1 DEF FreeAll
  <2>3. FreeAll(<<c>>) = [i \in 1 .. 1 |-> dh]
    BY <2>1, <2>2 DEF c
  <2>4. [i \in 1 .. 1 |-> dh] = <<dh>>
    OBVIOUS
  <2> QED BY <1>1, <2>3, <2>4
<1>3. 0 \in Nat /\ v2 = Changed(v1, SetFat(c, 0))
  BY DEF c
<1>4. /\ v2 \in Volumes /\ \A x \in Clusters : x # c => v2.fat[x] = v1.fat[x]
      /\ \A t \in Tables : t # c => v2.has[t] = v1.has[t]
      /\ ~ IsTable(v2, c)
  BY <1>1, <1>3, FatChanged
<1>5. Aside(v1, F, c, v2)
  BY <1>1, <1>4 DEF Aside
<1>6. Fine(v2, F, sh)
  BY <1>1, <1>5, AsideFine
<1>7. Legal(v1, w1, dh)
  <2>1. w1 = TableSector(p[1])
    BY DEF WinAfter, SetEntry
  <2>2. w1 # FatSector(c)
    BY <2>1, Sectors
  <2> QED BY <1>1, <1>3, <2>2 DEF Legal, LegalFat, c
<1>8. <<Sync>> \in Seq(Calm(v2, F, F))
  BY MoveCalm
<1>9. <<ch>> \o <<dh>> \o <<Sync>> = <<ch>> \o (<<dh>> \o <<Sync>>)
  BY <1>8, ConsTwo
<1>10. j.cur = F /\ j.then = F
  BY VolJob
<1> HIDE DEF j
<1>11. j = JobOf("unlink", "none", Closed, F, sh) /\ "unlink" \in PlainOps /\ v1 = Changed(v, ch)
       /\ v2 = Changed(v1, dh) /\ w1 = WinAfter(w, ch)
  BY DEF j, PlainOps, Removes
<1>12. /\ Fine(v, j.cur, sh) /\ Fine(v1, j.cur, sh) /\ Fine(v2, j.cur, sh) /\ Fine(v2, j.then, sh)
       /\ <<Sync>> \in Seq(Calm(v2, j.cur, j.then)) /\ Legal(v, w, ch) /\ Legal(v1, w1, dh)
  BY <1>1, <1>6, <1>7, <1>8, <1>10 DEF Removes
<1>13. Starts(v, w, F, "unlink", "none", Closed, <<ch>> \o (<<dh>> \o <<Sync>>), sh)
  BY ONLY <1>11, <1>12, StartsTwo
<1> QED BY <1>2, <1>9, <1>13 DEF c

\* f_unlink keeps the invariant.
LEMMA UnlinkInv ==
    ASSUME Inv, ~ hurt, call = Idle, NEW p \in Places(now), Unlink(p[1], p[2])
    PROVE  Inv'
<1> DEFINE e == At(now, p)
           v1 == Changed(now, SetEntry(p[1], p[2], Unused))
           todo == <<SetEntry(p[1], p[2], Unused)>> \o FreeAll(Chain(now, e.clst)) \o <<Sync>>
<1>0. Fine(now, fil, shrunk)
  BY IdleIs
<1>1. At(now, p) = Entry(now, p[1], p[2])
  BY DEF At
<1>2. /\ IF e.dir THEN Used(now, e.clst) = {} ELSE Unheld(now, fil, p)
      /\ Begin("unlink", "none", Closed, todo) /\ shrunk' = shrunk
  BY <1>1 DEF Unlink, InUse, Open, Unheld, BeginVol
<1>3. Removes(now, fil, shrunk, p, e, v1)
  BY <1>0, <1>2 DEF Removes
<1>4. Starts(now, win, fil, "unlink", "none", Closed, todo, shrunk)
  <2>1. CASE e.dir
    BY <1>3, <2>1, UnlinkDir
  <2>2. CASE ~ e.dir
    BY <1>3, <2>2, UnlinkFile
  <2> QED BY <2>1, <2>2
<1> HIDE DEF todo
<1> QED BY <1>2, <1>4, BeginStarts
-----------------------------------------------------------------------------
(* f_mkdir *)

\* Three changes before others.
LEMMA TripleIs ==
    ASSUME NEW a, NEW b, NEW c, NEW S, NEW u \in Seq(S)
    PROVE  <<a, b, c>> \o u = <<a>> \o (<<b>> \o (<<c>> \o u))
<1> DEFINE T == S \cup {a, b, c}
           x == <<a>>
           y == <<b>>
           z == <<c>>
           m == <<b, c>>
           r == <<a, b, c>>
<1>1. x \in Seq(T) /\ y \in Seq(T) /\ z \in Seq(T) /\ u \in Seq(T) /\ Len(x) = 1 /\ x[1] = a
  OBVIOUS
<1>2. r \in Seq(T) /\ Len(r) = 3 /\ r[1] = a /\ r[2] = b /\ r[3] = c
  OBVIOUS
<1>3. m \in Seq(T) /\ Len(m) = 2 /\ m[1] = b /\ m[2] = c
  OBVIOUS
<1>4. y \o z = m
  BY PairIs
<1> HIDE DEF T, x, y, z, m, r
<1>5. /\ x \o m \in Seq(T) /\ Len(x \o m) = Len(x) + Len(m)
      /\ \A i \in 1 .. Len(x) + Len(m) : (x \o m)[i] = IF i <= Len(x) THEN x[i] ELSE m[i - Len(x)]
  BY <1>1, <1>3, ConcatProperties
<1>6. Len(x \o m) = 3 /\ (x \o m)[1] = a /\ (x \o m)[2] = b /\ (x \o m)[3] = c
  BY <1>1, <1>3, <1>5
<1>7. x \o m = r
  <2>1. \A i \in 1 .. 3 : i = 1 \/ i = 2 \/ i = 3
    OBVIOUS
  <2>2. \A i \in 1 .. Len(r) : (x \o m)[i] = r[i]
    BY <1>2, <1>6, <2>1
  <2> QED BY <1>2, <1>5, <1>6, <2>2, SeqEqual
<1>8. r \o u = x \o (m \o u)
  <2>1. (x \o m) \o u = x \o (m \o u)
    BY <1>1, <1>3, ConcatAssociative
  <2> QED BY <1>7, <2>1
<1>9. m \o u = y \o (z \o u)
  <2>1. (y \o z) \o u = y \o (z \o u)
    BY <1>1, ConcatAssociative
  <2> QED BY <1>4, <2>1
<1> QED BY <1>8, <1>9 DEF r, x, y, z

\* A call of four changes that matter, and others that do not.
LEMMA StartsFour ==
    ASSUME NEW F, NEW op \in PlainOps, NEW f, NEW leaves, NEW sg,
           NEW j, j = JobOf(op, f, leaves, F, sg),
           NEW v, NEW w, NEW a, NEW v1, NEW w1, NEW b, NEW v2, NEW w2, NEW c, NEW v3, NEW w3, NEW d, NEW v4,
           /\ v1 = Changed(v, a) /\ w1 = WinAfter(w, a) /\ v2 = Changed(v1, b) /\ w2 = WinAfter(w1, b)
           /\ v3 = Changed(v2, c) /\ w3 = WinAfter(w2, c) /\ v4 = Changed(v3, d),
           Legal(v, w, a) /\ Legal(v1, w1, b) /\ Legal(v2, w2, c) /\ Legal(v3, w3, d),
           /\ Fine(v, j.cur, sg) /\ Fine(v1, j.cur, sg) /\ Fine(v2, j.cur, sg) /\ Fine(v3, j.cur, sg)
           /\ Fine(v4, j.cur, sg) /\ Fine(v4, j.then, sg),
           NEW rest \in Seq(Calm(v4, j.cur, j.then))
    PROVE  Starts(v, w, F, op, f, leaves, <<a, b, c>> \o (<<d>> \o rest), sg)
<1>1. j.op = op /\ j.sh = sg /\ j.sg = sg /\ op \notin {"rename", "sync"} /\ op \in Ops
  BY DEF JobOf, PlainOps, Ops
<1>2. Goes(j, v, w, a) /\ Goes(j, v1, w1, b) /\ Goes(j, v2, w2, c) /\ Goes(j, v3, w3, d)
  BY <1>1 DEF Goes
<1> DEFINE S == Calm(v4, j.cur, j.then) \cup {b, c, d}
           s1 == <<d>> \o rest
           s2 == <<c>> \o s1
           s3 == <<b>> \o s2
           w4 == WinAfter(w3, d)
<1>3. rest \in Seq(S) /\ <<b>> \in Seq(S) /\ <<c>> \in Seq(S) /\ <<d>> \in Seq(S)
  OBVIOUS
<1>4. Safe0(j, v4, w4, rest)
  BY <1>1, SafeCalm
<1> HIDE DEF S, w4
<1>5. s1 \in Seq(S)
  BY <1>3, ConcatProperties
<1>6. Safe1(j, v3, w3, s1)
  <2>1. v4 = Changed(v3, d) /\ w4 = WinAfter(w3, d)
    BY DEF w4
  <2> QED BY ONLY <1>2, <1>3, <1>4, <2>1, SafeCons
<1> HIDE DEF s1
<1>7. s2 \in Seq(S)
  BY <1>3, <1>5, ConcatProperties
<1>8. Safe2(j, v2, w2, s2)
  <2>1. v3 = Changed(v2, c) /\ w3 = WinAfter(w2, c)
    OBVIOUS
  <2> QED BY ONLY <1>2, <1>5, <1>6, <2>1, SafeCons
<1> HIDE DEF s2
<1>9. s3 \in Seq(S)
  BY <1>3, <1>7, ConcatProperties
<1>10. Safe3(j, v1, w1, s3)
  <2>1. v2 = Changed(v1, b) /\ w2 = WinAfter(w1, b)
    OBVIOUS
  <2> QED BY ONLY <1>2, <1>7, <1>8, <2>1, SafeCons
<1> HIDE DEF s3
<1>11. <<a>> \o s3 # <<>> /\ Safe4(j, v, w, <<a>> \o s3)
  <2>1. v1 = Changed(v, a) /\ w1 = WinAfter(w, a)
    OBVIOUS
  <2> QED BY ONLY <1>2, <1>9, <1>10, <2>1, SafeCons
<1>12. <<a, b, c>> \o s1 = <<a>> \o s3
  BY <1>5, TripleIs DEF s2, s3
<1> DEFINE todo == <<a, b, c>> \o s1
<1>13. todo # <<>> /\ Safe(j, v, w, todo)
  BY <1>11, <1>12 DEF Safe
<1> HIDE DEF todo
<1>14. Starts(v, w, F, op, f, leaves, todo, sg)
  BY <1>1, <1>13 DEF Starts
<1> QED BY <1>14 DEF todo, s1

\* A directory is made in cluster c for table t.
Makes(v, F, sh, t, c, w, v1, v2) ==
    /\ Fine(v, F, sh) /\ t \in Reach(v) /\ c \in Clusters /\ v.fat[c] = 0
    /\ v1 = Changed(v, SetFat(c, EOC)) /\ v2 = Changed(v1, Put(c, Table(t)))

\* Until its table is there.
LEMMA MakeTable ==
    ASSUME NEW v, NEW F, NEW sh, NEW t, NEW c, NEW w, NEW v1, NEW v2, Makes(v, F, sh, t, c, w, v1, v2)
    PROVE  /\ Fine(v1, F, sh) /\ Fine(v2, F, sh) /\ Unowned(v2, F, c)
           /\ Legal(v, w, SetFat(c, EOC)) /\ Legal(v1, NoSector, Put(c, Table(t)))
           /\ t \in Reach(v2) /\ t # c /\ IsTable(v2, c) /\ v2.has[c].up = t /\ v2.fat[c] = EOC /\ Used(v2, c) = {}
           /\ All(v2) = All(v) /\ \A p \in All(v) : At(v2, p) = At(v, p)
           /\ \A s \in 1 .. Slots : Entry(v2, t, s) = Entry(v, t, s)
<1>m. /\ Fine(v, F, sh) /\ t \in Reach(v) /\ c \in Clusters /\ v.fat[c] = 0
      /\ v1 = Changed(v, SetFat(c, EOC)) /\ v2 = Changed(v1, Put(c, Table(t)))
  BY DEF Makes
<1>0. v \in Volumes /\ Laid(v, F) /\ IsTable(v, 0) /\ EOC # 0 /\ Clusters \subseteq Tables
  BY <1>m, FineParts, Constants
<1>1. /\ Legal(v, w, SetFat(c, EOC)) /\ Fine(v1, F, sh) /\ v1 \in Volumes
      /\ v1.fat[c] = EOC /\ \A x \in Clusters : x # c => v1.fat[x] = v.fat[x]
      /\ Unowned(v, F, c) /\ ~ IsTable(v, c) /\ Unowned(v1, F, c) /\ ~ IsTable(v1, c)
      /\ \A x \in Tables : v1.has[x] = v.has[x]
  BY <1>m, Allocated
<1>2. Aside(v, F, c, v1)
  BY <1>1 DEF Aside
<1>3. t \in Tables /\ IsTable(v, t)
  BY <1>0, <1>m, ReachTables
<1>4. /\ Table(t) \in Holds /\ Table(t).kind = "table" /\ Table(t).up = t
      /\ \A s \in 1 .. Slots : Table(t).ent[s] = Unused
  <2>1. [s \in 1 .. Slots |-> Unused] \in [1 .. Slots -> Entries]
    BY DEF Entries
  <2> QED BY <1>3, <2>1 DEF Table, Holds, TableHolds
<1>5. /\ v2 \in Volumes /\ v2.fat = v1.fat /\ v2.has[c] = Table(t)
      /\ \A x \in Tables : x # c => v2.has[x] = v1.has[x]
  BY <1>1, <1>4, <1>m, PutChanged
<1>6. IsTable(v2, c) /\ v2.has[c].up = t /\ Used(v2, c) = {} /\ v2.fat[c] = EOC
  BY <1>1, <1>4, <1>5 DEF IsTable, Used, Entry
<1>7. Aside(v1, F, c, v2)
  BY <1>0, <1>1, <1>5, <1>6 DEF Aside
<1>8. Fine(v2, F, sh) /\ Unowned(v2, F, c)
  BY <1>1, <1>7, <1>m, AsideFine
<1>9. t \in Reach(v2)
  <2>1. Reach(v) \subseteq Reach(v1)
    BY <1>1, <1>2, <1>m, AsideReach
  <2>2. Reach(v1) \subseteq Reach(v2)
    BY <1>1, <1>7, <1>m, AsideReach
  <2> QED BY <1>m, <2>1, <2>2
<1>10. t # c /\ \A s \in 1 .. Slots : Entry(v2, t, s) = Entry(v, t, s)
  BY <1>1, <1>3, <1>5 DEF Entry
<1>11. All(v2) = All(v) /\ \A p \in All(v) : At(v2, p) = At(v, p)
  <2>1. All(v1) = All(v) /\ \A p \in All(v) : At(v1, p) = At(v, p)
    BY <1>0, <1>1, <1>2, <1>m, AsideSame
  <2>2. Laid(v1, F)
    BY <1>1, FineParts
  <2>3. All(v2) = All(v1) /\ \A p \in All(v1) : At(v2, p) = At(v1, p)
    BY <1>1, <1>7, <1>m, <2>2, AsideSame
  <2> QED BY <2>1, <2>3
<1>12. Legal(v1, NoSector, Put(c, Table(t)))
  BY <1>4, <1>m DEF Legal, LegalPut
<1> QED BY <1>1, <1>6, <1>8, <1>9, <1>10, <1>11, <1>12

\* Without room for the entry the cluster is freed.
LEMMA MakeNot ==
    ASSUME NEW v, NEW F, NEW sh, NEW t, NEW c, NEW w, NEW v1, NEW v2, Makes(v, F, sh, t, c, w, v1, v2),
           NEW v3, v3 = Changed(v2, SetFat(c, 0))
    PROVE  Fine(v3, F, sh) /\ Legal(v2, NoSector, SetFat(c, 0))
<1>1. Fine(v2, F, sh) /\ Unowned(v2, F, c) /\ Used(v2, c) = {} /\ v2 \in Volumes
  BY MakeTable, FineParts
<1>2. c \in Clusters /\ 0 \in Nat
  BY DEF Makes
<1>3. /\ v3 \in Volumes /\ \A x \in Clusters : x # c => v3.fat[x] = v2.fat[x]
      /\ \A x \in Tables : x # c => v3.has[x] = v2.has[x]
      /\ ~ IsTable(v3, c)
  BY <1>1, <1>2, FatChanged
<1>4. Aside(v2, F, c, v3)
  BY <1>1, <1>3 DEF Aside
<1>5. Legal(v2, NoSector, SetFat(c, 0))
  BY <1>2, Sectors DEF Legal, LegalFat
<1> QED BY <1>1, <1>2, <1>4, <1>5, AsideFine

\* With room it is entered.
LEMMA MakeEntry ==
    ASSUME NEW v, NEW F, NEW sh, NEW t, NEW c, NEW w, NEW v1, NEW v2, Makes(v, F, sh, t, c, w, v1, v2),
           NEW s \in 1 .. Slots, Entry(v, t, s) = Unused, NEW name \in Names,
           \A p \in All(v) : p[1] = t => At(v, p).name # name, NEW e, e = Dir(name, c),
           NEW v3, v3 = Changed(v2, SetEntry(t, s, e))
    PROVE  Fine(v3, F, sh) /\ Legal(v2, NoSector, SetEntry(t, s, e))
<1> DEFINE q == <<t, s>>
<1>m. c \in Clusters
  BY DEF Makes
<1>1. /\ Fine(v2, F, sh) /\ Unowned(v2, F, c) /\ t \in Reach(v2) /\ t # c /\ IsTable(v2, c)
      /\ v2.has[c].up = t /\ v2.fat[c] = EOC
      /\ All(v2) = All(v) /\ \A p \in All(v) : At(v2, p) = At(v, p)
      /\ Entry(v2, t, s) = Unused
  BY MakeTable
<1>2. v2 \in Volumes /\ Laid(v2, F) /\ IsTable(v2, 0)
  BY <1>1, FineParts
<1>3. t \in Tables /\ IsTable(v2, t) /\ c \in Tables
  BY <1>1, <1>2, <1>m, ReachTables, Constants
<1>4. e \in Entries /\ e # Unused /\ e.dir /\ e.clst = c /\ e.name = name
  BY <1>m, NewEntries
<1>5. q \notin All(v2)
  BY <1>1, <1>3, SpotIs
<1>6. \A g \in Fils : F[g].open => Place(F[g]) # q
  BY <1>1, <1>5, FineParts
<1>c. s \in 1 .. Slots /\ q = <<t, s>> /\ v3 = Changed(v2, SetEntry(t, s, e))
  OBVIOUS
<1> HIDE DEF q
<1>7. /\ v3.fat = v2.fat /\ q[1] = t /\ At(v3, q) = e
      /\ \A x \in Tables : IsTable(v3, x) <=> IsTable(v2, x)
      /\ \A x \in Tables : v3.has[x].up = v2.has[x].up
  BY ONLY <1>2, <1>3, <1>4, <1>c, EntrySpots
<1>8. IsTable(v3, c) /\ v3.has[c].up = t /\ v3.fat[c] = EOC
  BY <1>1, <1>3, <1>7
<1>9. ObjectLaid(v3, F, q)
  BY <1>4, <1>7, <1>8, <1>m DEF ObjectLaid, DirLaid
<1>10. Clst(v3, F, q) = c
  BY <1>4, <1>7, HolderNone
<1>11. Own(v3, c) = {c}
  BY <1>8, <1>m, ChainOne
<1>12. EntryFits(v2, F, t, q, e, v3)
  <2>1. \A p \in All(v2) : p # q /\ p[1] = t => At(v2, p).name # e.name
    BY <1>1, <1>4
  <2> QED BY <1>1, <1>9, <1>10, <1>11, <2>1 DEF EntryFits
<1>13. EntryPut(v2, F, sh, t, s, e, q, v3)
  BY ONLY <1>1, <1>3, <1>4, <1>5, <1>6, <1>12, <1>c DEF EntryPut
<1>14. Legal(v2, NoSector, SetEntry(t, s, e))
  BY <1>3, <1>4 DEF Legal, LegalEntry
<1> QED BY <1>13, <1>14, EntrySet

\* What f_mkdir does.
LEMMA MakeStarts ==
    ASSUME NEW v, NEW F, NEW sh, NEW t, NEW c, NEW w, NEW v1, NEW v2, Makes(v, F, sh, t, c, w, v1, v2),
           NEW d, NEW v3, v3 = Changed(v2, d), Fine(v3, F, sh) /\ Legal(v2, NoSector, d),
           NEW rest, rest \in {<<>>, <<Sync>>}
    PROVE  Starts(v, w, F, "mkdir", "none", Closed,
                  <<SetFat(c, EOC), Sync, Put(c, Table(t))>> \o (<<d>> \o rest), sh)
<1> DEFINE j == JobOf("mkdir", "none", Closed, F, sh)
           a == SetFat(c, EOC)
           put == Put(c, Table(t))
           w1 == WinAfter(w, a)
<1>1. /\ Fine(v, F, sh) /\ Fine(v1, F, sh) /\ Fine(v2, F, sh) /\ v1 = Changed(v, a) /\ v2 = Changed(v1, put)
      /\ Legal(v, w, a) /\ Legal(v1, NoSector, put)
  <2>1. /\ Fine(v1, F, sh) /\ Fine(v2, F, sh)
        /\ Legal(v, w, SetFat(c, EOC)) /\ Legal(v1, NoSector, Put(c, Table(t)))
    BY MakeTable
  <2>2. Fine(v, F, sh) /\ v1 = Changed(v, a) /\ v2 = Changed(v1, put)
    BY DEF Makes
  <2> QED BY <2>1, <2>2
<1>2. j.cur = F /\ j.then = F
  BY VolJob
<1>3. v1 = Changed(v1, Sync) /\ Legal(v1, w1, Sync)
  <2>1. Legal(v1, w1, Sync)
    BY DEF Legal, LegalMove, Sync, Move
  <2> QED BY <2>1, MoveChanged
<1>4. NoSector = WinAfter(w1, Sync)
  BY DEF WinAfter, Sync
<1>5. NoSector = WinAfter(NoSector, put)
  BY DEF WinAfter, Put
<1>6. rest \in Seq(Calm(v3, F, F))
  BY MoveCalm
<1> HIDE DEF j, a, put, w1
<1>7. /\ v1 = Changed(v, a) /\ w1 = WinAfter(w, a) /\ v1 = Changed(v1, Sync) /\ NoSector = WinAfter(w1, Sync)
      /\ v2 = Changed(v1, put) /\ NoSector = WinAfter(NoSector, put) /\ v3 = Changed(v2, d)
  BY <1>1, <1>3, <1>4, <1>5 DEF w1
<1>8. Legal(v, w, a) /\ Legal(v1, w1, Sync) /\ Legal(v1, NoSector, put) /\ Legal(v2, NoSector, d)
  BY <1>1, <1>3
<1>9. /\ Fine(v, j.cur, sh) /\ Fine(v1, j.cur, sh) /\ Fine(v1, j.cur, sh) /\ Fine(v2, j.cur, sh)
      /\ Fine(v3, j.cur, sh) /\ Fine(v3, j.then, sh)
  BY <1>1, <1>2
<1>10. rest \in Seq(Calm(v3, j.cur, j.then)) /\ j = JobOf("mkdir", "none", Closed, F, sh) /\ "mkdir" \in PlainOps
  BY <1>2, <1>6 DEF j, PlainOps
<1>11. Starts(v, w, F, "mkdir", "none", Closed, <<a, Sync, put>> \o (<<d>> \o rest), sh)
  BY ONLY <1>7, <1>8, <1>9, <1>10, StartsFour
<1> QED BY <1>11 DEF a, put

\* f_mkdir.
LEMMA MakeDirInv ==
    ASSUME Inv, ~ hurt, call = Idle, NEW t \in Reach(now), NEW name \in Names, NEW c \in Clusters,
           MakeDir(t, name, c)
    PROVE  Inv'
<1> DEFINE d == IF Room(t) = 0 THEN SetFat(c, 0) ELSE SetEntry(t, Room(t), Dir(name, c))
           rest == IF Room(t) = 0 THEN <<>> ELSE <<Sync>>
           first == <<SetFat(c, EOC), Sync, Put(c, Table(t))>>
           v1 == Changed(now, SetFat(c, EOC))
           v2 == Changed(v1, Put(c, Table(t)))
           v3 == Changed(v2, d)
<1>0. Fine(now, fil, shrunk) /\ now \in Volumes
  BY IdleIs
<1>1. /\ ~ Exists(t, name) /\ now.fat[c] = 0 /\ shrunk' = shrunk
      /\ Begin("mkdir", "none", Closed,
               first \o (IF Room(t) = 0 THEN <<SetFat(c, 0)>>
                         ELSE <<SetEntry(t, Room(t), Dir(name, c)), Sync>>))
  BY DEF MakeDir, BeginVol, FreeSet
<1>2. Makes(now, fil, shrunk, t, c, win, v1, v2)
  BY <1>0, <1>1 DEF Makes
<1> HIDE DEF v1, v2
<1>3. Fine(v3, fil, shrunk) /\ Legal(v2, NoSector, d)
  <2>1. CASE Room(t) = 0
    BY <1>2, <2>1, MakeNot
  <2>2. CASE Room(t) # 0
    <3>1. Room(t) \in 1 .. Slots /\ Entry(now, t, Room(t)) = Unused
      BY <1>0, <2>2, RoomEnter
    <3>2. \A p \in All(now) : p[1] = t => At(now, p).name # name
      BY <1>0, <1>1, NotExists
    <3> QED BY <1>2, <2>2, <3>1, <3>2, MakeEntry
  <2> QED BY <2>1, <2>2
<1>4. (IF Room(t) = 0 THEN <<SetFat(c, 0)>> ELSE <<SetEntry(t, Room(t), Dir(name, c)), Sync>>)
      = <<d>> \o rest
  <2>1. CASE Room(t) = 0
    <3>1. \A x : <<x>> \o <<>> = <<x>>
      OBVIOUS
    <3> QED BY <2>1, <3>1
  <2>2. CASE Room(t) # 0
    BY <2>2, PairIs
  <2> QED BY <2>1, <2>2
<1>5. rest \in {<<>>, <<Sync>>}
  OBVIOUS
<1> HIDE DEF d, rest, first
<1>6. v3 = Changed(v2, d)
  OBVIOUS
<1> HIDE DEF v3
<1>7. Starts(now, win, fil, "mkdir", "none", Closed, first \o (<<d>> \o rest), shrunk)
  BY ONLY <1>2, <1>3, <1>5, <1>6, MakeStarts DEF first
<1>8. Begin("mkdir", "none", Closed, first \o (<<d>> \o rest)) /\ shrunk' = shrunk
  BY <1>1, <1>4
<1> QED BY <1>7, <1>8, BeginStarts
-----------------------------------------------------------------------------
(* f_rename *)

\* The entry at p of v is at q of w, under another name, and ".." of a directory is right.
Moved(v, F, sh, p, q, e, n, w) ==
    /\ Fine(v, F, sh) /\ p \in All(v) /\ q \in Spots /\ q \notin All(v) /\ q[1] \in Reach(v)
    /\ e = At(v, p) /\ n \in Entries /\ n # Unused
    /\ n.dir = e.dir /\ n.clst = e.clst /\ n.size = e.size
    /\ e.dir => q[1] \notin Below(v, e.clst) /\ w.has[e.clst].up = q[1]
    /\ ~ e.dir => Unheld(v, F, p)
    /\ \A r \in All(v) : r # p /\ r[1] = q[1] => At(v, r).name # n.name
    /\ w \in Volumes /\ w.fat = v.fat /\ \A x \in Tables : IsTable(w, x) <=> IsTable(v, x)
    /\ \A x \in Tables : ~ e.dir \/ x # e.clst => w.has[x].up = v.has[x].up
    /\ At(w, q) = n /\ At(w, p) = Unused /\ \A r \in Spots : r # p /\ r # q => At(w, r) = At(v, r)

\* The entries of both.
LEMMA MovedAll ==
    ASSUME NEW v, NEW F, NEW sh, NEW p, NEW q, NEW e, NEW n, NEW w, Moved(v, F, sh, p, q, e, n, w)
    PROVE  /\ v \in Volumes /\ Laid(v, F) /\ IsTable(v, 0) /\ p # q /\ p \in Spots /\ q \in All(w)
           /\ p[1] \in Tables /\ q[1] \in Tables
           /\ \A r : r \in All(w) <=> r = q \/ (r \in All(v) /\ r # p)
           /\ Clst(v, F, p) = e.clst /\ Chained(v, e.clst) /\ Own(v, e.clst) \subseteq Clusters
           /\ e.dir => e.clst \in Clusters /\ e.clst \in Own(v, e.clst) /\ IsTable(v, e.clst) /\ v.fat[e.clst] = EOC
           /\ \A g \in Fils : F[g].open => Place(F[g]) # p /\ Place(F[g]) # q
           /\ e # Unused
<1>m. /\ Fine(v, F, sh) /\ p \in All(v) /\ q \in Spots /\ q \notin All(v) /\ q[1] \in Reach(v)
      /\ e = At(v, p) /\ n # Unused /\ (~ e.dir => Unheld(v, F, p))
      /\ \A x \in Tables : IsTable(w, x) <=> IsTable(v, x)
      /\ At(w, q) = n /\ At(w, p) = Unused /\ \A r \in Spots : r # p /\ r # q => At(w, r) = At(v, r)
  BY DEF Moved
<1>0. v \in Volumes /\ Laid(v, F) /\ IsTable(v, 0)
  BY <1>m, FineParts
<1>1. p # q /\ p \in Spots /\ p[1] \in Tables /\ IsTable(v, p[1]) /\ e # Unused
  BY <1>0, <1>m, AllTyped
<1>2. q[1] \in Tables /\ IsTable(v, q[1])
  BY <1>0, <1>m, ReachTables
<1>3. \A r \in Spots : r[1] \in Tables
  BY SpotParts
<1>4. ASSUME NEW r  PROVE r \in All(w) <=> r = q \/ (r \in All(v) /\ r # p)
  <2>1. CASE r = q
    BY <1>2, <1>m, <2>1 DEF All
  <2>2. CASE r = p
    BY <1>1, <1>m, <2>2 DEF All
  <2>3. CASE r # p /\ r # q
    BY <1>3, <1>m, <2>3 DEF All
  <2> QED BY <2>1, <2>2, <2>3
<1>5. ASSUME NEW g \in Fils, F[g].open  PROVE Place(F[g]) # p /\ Place(F[g]) # q
  <2>1. Place(F[g]) \in All(v) /\ FilFits(v, F[g], sh)
    BY <1>5, <1>m, FineParts
  <2>2. Place(F[g]) # p
    BY <1>5, <1>m, <2>1 DEF FilFits, Unheld
  <2> QED BY <1>m, <2>1, <2>2
<1>6. Holders(F, p) = {}
  BY <1>5 DEF Holders
<1>7. Clst(v, F, p) = e.clst
  BY <1>6, <1>m, HolderNone
<1>8. /\ Chained(v, e.clst) /\ Own(v, e.clst) \subseteq Clusters
      /\ e.dir => e.clst \in Clusters /\ e.clst \in Own(v, e.clst)
  <2>1. /\ Chained(v, Clst(v, F, p)) /\ Own(v, Clst(v, F, p)) \subseteq Clusters
        /\ At(v, p).dir => At(v, p).clst \in Clusters /\ Own(v, Clst(v, F, p)) = {At(v, p).clst}
    BY <1>0, <1>m, LaidOwn
  <2> QED BY <1>7, <1>m, <2>1
<1>9. e.dir => IsTable(v, e.clst) /\ v.fat[e.clst] = EOC
  <2>1. ObjectLaid(v, F, p)
    BY <1>m, FineParts
  <2> QED BY <1>m, <2>1 DEF ObjectLaid, DirLaid
<1> QED BY <1>0, <1>1, <1>2, <1>4, <1>5, <1>7, <1>8, <1>9, <1>m

\* Files and directories stay laid out.
LEMMA MovedLaid ==
    ASSUME NEW v, NEW F, NEW sh, NEW p, NEW q, NEW e, NEW n, NEW w, Moved(v, F, sh, p, q, e, n, w)
    PROVE  Laid(w, F)
<1>m. /\ Fine(v, F, sh) /\ p \in All(v) /\ e = At(v, p) /\ n.dir = e.dir /\ n.clst = e.clst /\ n.size = e.size
      /\ e.dir => w.has[e.clst].up = q[1]
      /\ ~ e.dir => Unheld(v, F, p)
      /\ \A r \in All(v) : r # p /\ r[1] = q[1] => At(v, r).name # n.name
      /\ w.fat = v.fat /\ \A x \in Tables : IsTable(w, x) <=> IsTable(v, x)
      /\ \A x \in Tables : ~ e.dir \/ x # e.clst => w.has[x].up = v.has[x].up
      /\ At(w, q) = n /\ \A r \in Spots : r # p /\ r # q => At(w, r) = At(v, r)
  BY DEF Moved
<1>0. /\ v \in Volumes /\ Laid(v, F) /\ IsTable(v, 0) /\ p # q /\ q \in All(w)
      /\ \A r : r \in All(w) <=> r = q \/ (r \in All(v) /\ r # p)
      /\ Clst(v, F, p) = e.clst /\ Chained(v, e.clst) /\ Own(v, e.clst) \subseteq Clusters
      /\ e.dir => e.clst \in Clusters /\ e.clst \in Own(v, e.clst) /\ IsTable(v, e.clst) /\ v.fat[e.clst] = EOC
      /\ \A g \in Fils : F[g].open => Place(F[g]) # p /\ Place(F[g]) # q
  BY MovedAll
<1>1. ASSUME NEW r \in All(w), r # q  PROVE Frame(v, F, w, F, r)
  <2>1. r \in All(v) /\ r # p /\ r \in Spots
    BY <1>0, <1>1 DEF All
  <2>2. At(w, r) = At(v, r)
    BY <1>1, <1>m, <2>1
  <2>3. Clst(w, F, r) = Clst(v, F, r) /\ Size(w, F, r) = Size(v, F, r)
    BY <2>2, ClstSame
  <2>4. Own(v, Clst(v, F, r)) \subseteq Tables
    BY <1>0, <2>1, LaidOwn, Constants
  <2>5. e.dir => e.clst \notin Own(v, Clst(v, F, r))
    BY <1>0, <1>m, <2>1 DEF Laid, ChainsApart
  <2>6. \A x \in Own(v, Clst(v, F, r)) : /\ w.fat[x] = v.fat[x] /\ (IsTable(w, x) <=> IsTable(v, x))
                                          /\ w.has[x].up = v.has[x].up
    BY <1>m, <2>4, <2>5
  <2> QED BY <2>1, <2>2, <2>3, <2>6 DEF Frame
<1>2. Clst(w, F, q) = e.clst /\ Size(w, F, q) = e.size
  <2>1. Holders(F, q) = {}
    BY <1>0 DEF Holders
  <2> QED BY <1>m, <2>1, HolderNone
<1>3. Chained(w, e.clst) /\ Chain(w, e.clst) = Chain(v, e.clst) /\ Own(w, e.clst) = Own(v, e.clst)
  BY <1>0, <1>m, ChainKept
<1>4. ObjectLaid(w, F, q)
  <2>1. CASE e.dir
    <3>1. e.clst \in Tables
      BY <1>0, <2>1, Constants
    <3> QED BY <1>0, <1>m, <2>1, <3>1 DEF ObjectLaid, DirLaid
  <2>2. CASE ~ e.dir
    <3>1. Len(Chain(v, At(v, p).clst)) >= At(v, p).size /\ \A x \in Own(v, At(v, p).clst) : ~ IsTable(v, x)
      BY <1>m, <2>2, UnheldIs
    <3>2. \A x \in Own(w, e.clst) : ~ IsTable(w, x)
      BY <1>0, <1>3, <1>m, <3>1, Constants
    <3> QED BY <1>2, <1>3, <1>m, <2>2, <3>1, <3>2 DEF ObjectLaid, FileLaid
  <2> QED BY <2>1, <2>2
<1>5. ASSUME NEW r \in All(w), r # q
      PROVE  /\ Own(w, Clst(w, F, q)) \cap Own(v, Clst(v, F, r)) = {}
             /\ r[1] = q[1] => At(w, r).name # At(w, q).name
  <2>1. r \in All(v) /\ r # p /\ At(w, r) = At(v, r)
    BY <1>0, <1>1, <1>5 DEF Frame
  <2>2. Own(v, e.clst) \cap Own(v, Clst(v, F, r)) = {}
    BY <1>0, <1>m, <2>1 DEF Laid, ChainsApart
  <2> QED BY <1>2, <1>3, <1>m, <2>1, <2>2
<1>6. IsTable(w, 0) /\ NoFreeTable(w)
  <2>1. NoFreeTable(v)
    BY <1>0 DEF Laid
  <2> QED BY <1>0, <1>m, <2>1, Constants DEF NoFreeTable
<1>7. \A r \in All(w) : r # q => Frame(v, F, w, F, r)
  BY <1>1
<1>8. q \in All(w) => /\ ObjectLaid(w, F, q)
                      /\ \A r \in All(w) : r # q =>
                            /\ Own(w, Clst(w, F, q)) \cap Own(v, Clst(v, F, r)) = {}
                            /\ r[1] = q[1] => At(w, r).name # At(w, q).name
  BY <1>4, <1>5
<1> QED BY ONLY <1>0, <1>6, <1>7, <1>8, LaidKept

\* A directory is not moved below itself, so the paths still lead to all the tables.
LEMMA MovedReach ==
    ASSUME NEW v, NEW F, NEW sh, NEW p, NEW q, NEW e, NEW n, NEW w, Moved(v, F, sh, p, q, e, n, w)
    PROVE  Reach(v) \subseteq Reach(w)
<1>m. /\ q \in Spots /\ q[1] \in Reach(v) /\ e = At(v, p) /\ n # Unused /\ n.dir = e.dir /\ n.clst = e.clst
      /\ e.dir => q[1] \notin Below(v, e.clst)
      /\ \A x \in Tables : IsTable(w, x) <=> IsTable(v, x)
      /\ At(w, q) = n /\ \A r \in Spots : r # p /\ r # q => At(w, r) = At(v, r)
      /\ q \notin All(v)
  BY DEF Moved
<1>0. /\ IsTable(v, 0) /\ p \in Spots /\ q[1] \in Tables
      /\ e.dir => e.clst \in Clusters /\ IsTable(v, e.clst)
  BY MovedAll
<1>1. IsTable(w, 0) /\ 0 \in Tables /\ Clusters \subseteq Tables
  BY <1>0, <1>m, Constants
<1>2. ASSUME NEW d \in Reach(w), NEW x \in Subdirs(v, d)
      PROVE  x \in Subdirs(w, d) \/ (e.dir /\ x = e.clst)
  <2>1. d \in Tables /\ IsTable(w, d)
    BY <1>1, ReachTables
  <2>2. x \in Clusters /\ IsTable(v, x)
    BY SubdirIs
  <2>3. PICK r \in 1 .. Slots : Entry(v, d, r) # Unused /\ Entry(v, d, r).dir /\ Entry(v, d, r).clst = x
    BY SubdirIs
  <2> DEFINE y == <<d, r>>
  <2>4. /\ y \in Spots /\ At(v, y) = Entry(v, d, r) /\ At(w, y) = Entry(w, d, r)
        /\ y \in All(v) <=> IsTable(v, d) /\ Entry(v, d, r) # Unused
    BY <2>1, SpotIs
  <2> HIDE DEF y
  <2>5. CASE y = p
    BY <1>m, <2>3, <2>4, <2>5
  <2>6. CASE y # p
    <3>1. y # q
      BY <1>m, <2>1, <2>3, <2>4
    <3>2. Entry(w, d, r) = Entry(v, d, r)
      BY <1>m, <2>4, <2>6, <3>1
    <3>3. IsTable(w, x)
      BY <1>1, <1>m, <2>2
    <3> QED BY ONLY <2>2, <2>3, <3>2, <3>3, SubdirIs
  <2> QED BY <2>5, <2>6
<1>3. e.dir => e.clst \in Reach(w)
  <2> SUFFICES ASSUME e.dir  PROVE e.clst \in Reach(w)
    OBVIOUS
  <2> DEFINE c == e.clst
             X == Below(v, c)
  <2>1. c \in Clusters /\ c \in Tables /\ IsTable(v, c)
    BY <1>0, <1>1
  <2> HIDE DEF c
  <2>2. Shut(v, X) /\ c \in X
    BY <2>1, BelowShut, BelowHas
  <2>3. \A d \in Below(w, 0) : Subdirs(v, d) \subseteq Subdirs(w, d) \cup X
    BY <1>2, <2>2 DEF c, Reach
  <2> HIDE DEF X
  <2>4. Below(v, 0) \subseteq Below(w, 0) \cup X
    BY ONLY <1>1, <2>2, <2>3, BelowCovered
  <2>5. q[1] \in Reach(w)
    BY <1>m, <2>4 DEF X, c, Reach
  <2>6. c \in Subdirs(w, q[1])
    <3>1. q[2] \in 1 .. Slots /\ At(w, q) = Entry(w, q[1], q[2])
      BY <1>m, SpotParts DEF At
    <3>2. IsTable(w, c)
      BY <1>m, <2>1
    <3>3. Entry(w, q[1], q[2]) # Unused /\ Entry(w, q[1], q[2]).dir /\ Entry(w, q[1], q[2]).clst = c
      BY <1>m, <3>1 DEF c
    <3> QED BY ONLY <2>1, <3>1, <3>2, <3>3, SubdirIs
  <2>7. c \in Reach(w)
    BY <1>1, <2>5, <2>6, BelowClosed DEF Reach
  <2> QED BY <2>7 DEF c
<1>4. Shut(v, Reach(w))
  <2> SUFFICES ASSUME NEW d \in Reach(w), NEW x \in Subdirs(v, d)  PROVE x \in Reach(w)
    BY DEF Shut
  <2>1. CASE x \in Subdirs(w, d)
    BY <1>1, <2>1, BelowClosed DEF Reach
  <2>2. CASE e.dir /\ x = e.clst
    BY <1>3, <2>2
  <2> QED BY <1>2, <2>1, <2>2
<1>5. 0 \in Reach(w)
  BY <1>1, BelowHas DEF Reach
<1> QED BY <1>1, <1>4, <1>5, BelowLeast DEF Reach

\* So the volume is fine when all is done.
LEMMA MovedFine ==
    ASSUME NEW v, NEW F, NEW sh, NEW p, NEW q, NEW e, NEW n, NEW w, Moved(v, F, sh, p, q, e, n, w)
    PROVE  Fine(w, F, sh)
<1>m. /\ Fine(v, F, sh) /\ w \in Volumes /\ w.fat = v.fat /\ q[1] \in Reach(v)
      /\ \A x \in Tables : IsTable(w, x) <=> IsTable(v, x)
      /\ \A r \in Spots : r # p /\ r # q => At(w, r) = At(v, r)
  BY DEF Moved
<1>0. /\ \A r : r \in All(w) <=> r = q \/ (r \in All(v) /\ r # p)
      /\ \A g \in Fils : F[g].open => Place(F[g]) # p /\ Place(F[g]) # q
  BY MovedAll
<1>1. F \in [Fils -> FilRecs] /\ FilsFit(v, F, sh) /\ v \in Volumes
  BY <1>m, FineParts
<1>2. Laid(w, F) /\ Reach(v) \subseteq Reach(w)
  BY MovedLaid, MovedReach
<1>3. Rooted(w)
  <2> SUFFICES ASSUME NEW t \in Tables, IsTable(w, t), Used(w, t) # {}  PROVE t \in Reach(w)
    BY DEF Rooted
  <2>1. PICK s \in 1 .. Slots : Entry(w, t, s) # Unused
    BY DEF Used
  <2>2. <<t, s>> \in All(w) /\ <<t, s>>[1] = t
    BY <2>1, SpotIs
  <2>3. CASE <<t, s>> = q
    BY <1>2, <1>m, <2>2, <2>3
  <2>4. CASE <<t, s>> \in All(v)
    BY <1>2, <1>m, <2>2, <2>4, FineParts
  <2> QED BY <1>0, <2>2, <2>3, <2>4
<1>4. FilsFit(w, F, sh)
  <2>1. ASSUME NEW g \in Fils, F[g].open  PROVE FilFits(w, F[g], sh)
    <3>1. FilFits(v, F[g], sh) /\ Place(F[g]) \in All(v) /\ Place(F[g]) # p /\ Place(F[g]) # q
      BY <1>0, <1>m, <2>1, FineParts
    <3>2. Place(F[g]) \in All(w) /\ At(w, Place(F[g])) = At(v, Place(F[g]))
      BY <1>0, <1>m, <3>1 DEF All
    <3>3. Chained(v, F[g].clst)
      BY <1>m, <2>1, OpenFile
    <3>4. Own(w, F[g].clst) = Own(v, F[g].clst)
      BY <1>m, <3>3, ChainKept
    <3> QED BY <3>1, <3>2, <3>4 DEF FilFits
  <2> QED BY <1>1, <2>1 DEF FilsFit
<1> QED BY <1>1, <1>2, <1>3, <1>4, <1>m DEF Fine

\* The entry under another name.
LEMMA RenamedIs ==
    ASSUME NEW e \in Entries, e # Unused, NEW name \in Names, NEW n, n = [e EXCEPT !.name = name]
    PROVE  /\ n \in Entries /\ n # Unused /\ n.dir = e.dir /\ n.clst = e.clst /\ n.size = e.size
           /\ n.name = name
<1>1. CASE e.dir
  <2>1. e \in DirEntries
    BY <1>1, EntryTyped
  <2>2. n \in DirEntries /\ n.dir = e.dir /\ n.clst = e.clst /\ n.size = e.size /\ n.name = name
    BY <2>1 DEF DirEntries
  <2> QED BY <2>2, EntryUsed
<1>2. CASE ~ e.dir
  <2>1. e \in FileEntries
    BY <1>2, EntryTyped
  <2>2. n \in FileEntries /\ n.dir = e.dir /\ n.clst = e.clst /\ n.size = e.size /\ n.name = name
    BY <2>1 DEF FileEntries
  <2> QED BY <2>2, EntryUsed
<1> QED BY <1>1, <1>2

\* The entry at p = <<t, s>> is to be the entry n at the free spot q = <<to, r>>.
Renames(v, F, sh, p, t, s, q, to, r, e, n) ==
    /\ Fine(v, F, sh) /\ p \in All(v) /\ p = <<t, s>> /\ t \in Tables /\ s \in 1 .. Slots /\ e = At(v, p)
    /\ to \in Reach(v) /\ r \in 1 .. Slots /\ q = <<to, r>> /\ Entry(v, to, r) = Unused
    /\ e.dir => to \notin Below(v, e.clst)
    /\ ~ e.dir => Unheld(v, F, p)
    /\ n \in Entries /\ n # Unused /\ n.dir = e.dir /\ n.clst = e.clst /\ n.size = e.size
    /\ \A x \in All(v) : x # p /\ x[1] = to => At(v, x).name # n.name

\* The second entry is there.
LEMMA RenameTwice ==
    ASSUME NEW v, NEW F, NEW sh, NEW p, NEW t, NEW s, NEW q, NEW to, NEW r, NEW e, NEW n,
           Renames(v, F, sh, p, t, s, q, to, r, e, n), NEW v1, v1 = Changed(v, SetEntry(to, r, n))
    PROVE  /\ v1 \in Volumes /\ v1.fat = v.fat /\ \A x \in Tables : IsTable(v1, x) <=> IsTable(v, x)
           /\ \A x \in Tables : v1.has[x].up = v.has[x].up
           /\ At(v1, q) = n /\ \A x \in Spots : x # q => At(v1, x) = At(v, x)
           /\ q \in Spots /\ q \notin All(v) /\ q[1] = to /\ p \in Spots /\ p # q /\ to \in Tables
           /\ IsTable(v, t) /\ IsTable(v, to)
           /\ \A w : Legal(v, w, SetEntry(to, r, n))
           /\ e.dir => e.clst \in Clusters /\ IsTable(v, e.clst) /\ v.has[e.clst].up = t
<1>m. /\ Fine(v, F, sh) /\ p \in All(v) /\ p = <<t, s>> /\ t \in Tables /\ s \in 1 .. Slots /\ e = At(v, p)
      /\ to \in Reach(v) /\ r \in 1 .. Slots /\ q = <<to, r>> /\ Entry(v, to, r) = Unused
      /\ n \in Entries /\ n # Unused
  BY DEF Renames
<1>0. v \in Volumes /\ IsTable(v, 0) /\ ObjectLaid(v, F, p)
  BY <1>m, FineParts
<1>1. to \in Tables /\ IsTable(v, to)
  BY <1>0, <1>m, ReachTables
<1>2. q \notin All(v) /\ q \in Spots /\ q[1] = to
  BY <1>1, <1>m, SpotIs
<1>3. p \in Spots /\ p # q /\ IsTable(v, t) /\ p[1] = t
  BY <1>0, <1>2, <1>m, AllTyped
<1>4. v1 = Changed(v, SetEntry(to, r, n))
  OBVIOUS
<1>5. /\ v1 \in Volumes /\ v1.fat = v.fat /\ \A x \in Tables : IsTable(v1, x) <=> IsTable(v, x)
      /\ \A x \in Tables : v1.has[x].up = v.has[x].up
      /\ At(v1, q) = n /\ \A x \in Spots : x # q => At(v1, x) = At(v, x)
  BY ONLY <1>0, <1>1, <1>4, <1>m, EntrySpots
<1>6. \A w : Legal(v, w, SetEntry(to, r, n))
  BY <1>1, <1>m DEF Legal, LegalEntry
<1>7. e.dir => e.clst \in Clusters /\ IsTable(v, e.clst) /\ v.has[e.clst].up = t
  BY <1>0, <1>3, <1>m DEF ObjectLaid, DirLaid
<1> QED BY <1>1, <1>2, <1>3, <1>5, <1>6, <1>7

\* The first one is removed, when ".." has been set, if it had to be.
LEMMA RenameOnce ==
    ASSUME NEW v, NEW F, NEW sh, NEW p, NEW t, NEW s, NEW q, NEW to, NEW r, NEW e, NEW n,
           Renames(v, F, sh, p, t, s, q, to, r, e, n), NEW v1, v1 = Changed(v, SetEntry(to, r, n)),
           NEW v2, v2 = IF e.dir /\ to # t THEN Changed(v1, SetUp(e.clst, to)) ELSE v1,
           NEW v3, v3 = Changed(v2, SetEntry(t, s, Unused))
    PROVE  /\ Fine(v3, F, sh) /\ \A w : Legal(v2, w, SetEntry(t, s, Unused))
           /\ e.dir => \A w : Legal(v1, w, SetUp(e.clst, to))
<1>m. /\ p \in All(v) /\ p = <<t, s>> /\ t \in Tables /\ s \in 1 .. Slots /\ to \in Reach(v)
      /\ e = At(v, p)
  BY DEF Renames
<1>1. /\ v1 \in Volumes /\ v1.fat = v.fat /\ \A x \in Tables : IsTable(v1, x) <=> IsTable(v, x)
      /\ \A x \in Tables : v1.has[x].up = v.has[x].up
      /\ At(v1, q) = n /\ \A x \in Spots : x # q => At(v1, x) = At(v, x)
      /\ q \in Spots /\ q \notin All(v) /\ q[1] = to /\ p \in Spots /\ p # q /\ to \in Tables
      /\ IsTable(v, t) /\ IsTable(v, to)
      /\ e.dir => e.clst \in Clusters /\ IsTable(v, e.clst) /\ v.has[e.clst].up = t
  BY RenameTwice
<1>2. e.dir => e.clst \in Tables
  BY <1>1, Constants
<1>3. /\ v2 \in Volumes /\ v2.fat = v.fat /\ \A x \in Tables : IsTable(v2, x) <=> IsTable(v, x)
      /\ \A x \in Tables : ~ e.dir \/ x # e.clst => v2.has[x].up = v.has[x].up
      /\ e.dir => v2.has[e.clst].up = to
      /\ \A x \in Spots : At(v2, x) = At(v1, x)
  <2>1. CASE e.dir /\ to # t
    <3>1. v2 = Changed(v1, SetUp(e.clst, to)) /\ e.clst \in Tables /\ IsTable(v1, e.clst)
      BY <1>1, <1>2, <2>1
    <3>2. /\ v2 \in Volumes /\ v2.fat = v1.fat
          /\ \A x \in Tables : IsTable(v2, x) <=> IsTable(v1, x)
          /\ \A x \in Tables : v2.has[x].up = IF x = e.clst THEN to ELSE v1.has[x].up
          /\ \A x \in Tables, k \in 1 .. Slots : Entry(v2, x, k) = Entry(v1, x, k)
      <4>1. v1 \in Volumes /\ to \in Tables /\ e.clst \in Tables /\ IsTable(v1, e.clst)
        BY <1>1, <3>1
      <4>2. v2 = Changed(v1, SetUp(e.clst, to))
        BY <3>1
      <4> DEFINE c == e.clst
      <4> HIDE DEF c
      <4>3. v1 \in Volumes /\ to \in Tables /\ c \in Tables /\ IsTable(v1, c) /\ v2 = Changed(v1, SetUp(c, to))
        BY <4>1, <4>2 DEF c
      <4>4. /\ v2 \in Volumes /\ v2.fat = v1.fat
            /\ \A x \in Tables : IsTable(v2, x) <=> IsTable(v1, x)
            /\ \A x \in Tables : v2.has[x].up = IF x = c THEN to ELSE v1.has[x].up
            /\ \A x \in Tables, k \in 1 .. Slots : Entry(v2, x, k) = Entry(v1, x, k)
        BY ONLY <4>3, UpChanged
      <4> QED BY <4>4 DEF c
    <3>3. \A x \in Spots : At(v2, x) = At(v1, x)
      BY <3>2, SpotParts DEF At
    <3> QED BY <1>1, <3>1, <3>2, <3>3
  <2>2. CASE ~ (e.dir /\ to # t)
    <3>1. v2 = v1
      BY <2>2
    <3>2. e.dir => to = t /\ v1.has[e.clst].up = t
      BY <1>1, <1>2, <2>2
    <3> QED BY <1>1, <3>1, <3>2
  <2> QED BY <2>1, <2>2
<1>4. Unused \in Entries /\ v3 = Changed(v2, SetEntry(t, s, Unused)) /\ IsTable(v2, t)
  BY <1>1, <1>3, <1>m DEF Entries
<1>5. /\ v3 \in Volumes /\ v3.fat = v2.fat /\ At(v3, p) = Unused
      /\ \A x \in Tables : IsTable(v3, x) <=> IsTable(v2, x)
      /\ \A x \in Tables : v3.has[x].up = v2.has[x].up
      /\ \A x \in Spots : x # p => At(v3, x) = At(v2, x)
  BY ONLY <1>3, <1>4, <1>m, EntrySpots
<1>6. /\ v3 \in Volumes /\ v3.fat = v.fat /\ \A x \in Tables : IsTable(v3, x) <=> IsTable(v, x)
      /\ \A x \in Tables : ~ e.dir \/ x # e.clst => v3.has[x].up = v.has[x].up
      /\ e.dir => v3.has[e.clst].up = to
      /\ At(v3, q) = n /\ At(v3, p) = Unused /\ \A x \in Spots : x # p /\ x # q => At(v3, x) = At(v, x)
  BY <1>1, <1>2, <1>3, <1>5
<1>7. Moved(v, F, sh, p, q, e, n, v3)
  <2>1. /\ Fine(v, F, sh) /\ q[1] \in Reach(v) /\ n \in Entries /\ n # Unused
        /\ n.dir = e.dir /\ n.clst = e.clst /\ n.size = e.size
        /\ e.dir => q[1] \notin Below(v, e.clst)
        /\ ~ e.dir => Unheld(v, F, p)
        /\ \A x \in All(v) : x # p /\ x[1] = q[1] => At(v, x).name # n.name
    BY <1>1 DEF Renames
  <2> QED BY ONLY <1>1, <1>6, <1>m, <2>1 DEF Moved
<1>8. Fine(v3, F, sh)
  BY <1>7, MovedFine
<1>9. \A w : Legal(v2, w, SetEntry(t, s, Unused))
  BY <1>4, <1>m DEF Legal, LegalEntry
<1>10. e.dir => \A w : Legal(v1, w, SetUp(e.clst, to))
  <2> SUFFICES ASSUME e.dir, NEW w  PROVE LegalUp(v1, SetUp(e.clst, to))
    BY DEF Legal
  <2>1. e.clst \in Tables /\ to \in Tables /\ IsTable(v1, e.clst)
    BY <1>1, <1>2
  <2> QED BY <2>1 DEF LegalUp
<1> QED BY <1>8, <1>9, <1>10

\* What f_rename does.
LEMMA RenameStarts ==
    ASSUME NEW v, NEW F, NEW sh, NEW p, NEW t, NEW s, NEW q, NEW to, NEW r, NEW e, NEW n,
           Renames(v, F, sh, p, t, s, q, to, r, e, n), NEW w,
           NEW a, a = SetEntry(to, r, n), NEW b, b = SetEntry(t, s, Unused),
           NEW up, up = IF e.dir /\ to # t THEN <<SetUp(e.clst, to)>> ELSE <<>>
    PROVE  Starts(v, w, F, "rename", "none", Closed, <<a>> \o up \o <<b, Sync>>, sh)
<1> DEFINE j == JobOf("rename", "none", Closed, F, sh)
           u == SetUp(e.clst, to)
           v1 == Changed(v, a)
           v2 == IF e.dir /\ to # t THEN Changed(v1, u) ELSE v1
           v3 == Changed(v2, b)
           end == <<b, Sync>>
           todo == <<a>> \o up \o end
<1>1. Fine(v3, F, sh) /\ (\A x : Legal(v2, x, b)) /\ (e.dir => \A x : Legal(v1, x, u))
  BY RenameOnce
<1>2. \A x : Legal(v, x, a)
  BY RenameTwice
<1>3. j.op = "rename" /\ j.cur = F /\ j.then = F /\ j.sh = sh /\ j.sg = sh
  BY VolJob
<1>4. <<b>> \o <<Sync>> = end /\ end # <<>>
  BY PairIs
<1>5. <<Sync>> \in Seq({Sync}) /\ end \in Seq({b, Sync})
  OBVIOUS
<1>6. v1 = Changed(v, a) /\ v3 = Changed(v2, b)
  OBVIOUS
<1>7. e.dir /\ to # t => v2 = Changed(v1, u)
  OBVIOUS
<1>8. ~ (e.dir /\ to # t) => v2 = v1
  OBVIOUS
<1> HIDE DEF j, u, v1, v2, v3, end
<1>9. ASSUME NEW x  PROVE Safe0(j, v3, x, <<Sync>>)
  <2>1. <<Sync>> \in Seq(Calm(v3, j.cur, j.then))
    BY MoveCalm
  <2>2. Fine(v3, j.cur, j.sh) /\ Fine(v3, j.then, j.sg)
    BY <1>1, <1>3
  <2> QED BY <2>1, <2>2, SafeCalm
<1>10. ASSUME NEW x  PROVE Safe1(j, v2, x, end)
  <2> DEFINE y == WinAfter(x, b)
  <2>1. Goes(j, v2, x, b)
    BY <1>1, <1>3 DEF Goes
  <2>2. Safe0(j, v3, y, <<Sync>>)
    BY <1>9
  <2>3. y = WinAfter(x, b)
    OBVIOUS
  <2> HIDE DEF y
  <2>4. Safe1(j, v2, x, <<b>> \o <<Sync>>)
    BY ONLY <1>5, <1>6, <2>1, <2>2, <2>3, SafeCons
  <2> QED BY <1>4, <2>4
<1>11. Safe(j, v, w, todo) /\ todo # <<>>
  <2> DEFINE w1 == WinAfter(w, a)
  <2>1. Goes(j, v, w, a) /\ w1 = WinAfter(w, a)
    BY <1>2, <1>3 DEF Goes
  <2> HIDE DEF w1
  <2>2. CASE e.dir /\ to # t
    <3> DEFINE w2 == WinAfter(w1, u)
    <3>1. Goes(j, v1, w1, u) /\ w2 = WinAfter(w1, u)
      BY <1>1, <1>3, <2>2 DEF Goes
    <3> HIDE DEF w2
    <3>2. Safe1(j, v2, w2, end) /\ v2 = Changed(v1, u)
      BY <1>7, <1>10, <2>2
    <3>3. Safe2(j, v1, w1, <<u>> \o end)
      BY ONLY <1>5, <3>1, <3>2, SafeCons
    <3>4. <<u>> \o end \in Seq({b, Sync, u})
      <4>1. <<u>> \in Seq({b, Sync, u}) /\ end \in Seq({b, Sync, u})
        BY <1>5
      <4> QED BY <4>1, ConcatProperties
    <3> DEFINE rest == <<u>> \o end
    <3>5. rest \in Seq({b, Sync, u}) /\ Safe2(j, v1, w1, rest)
      BY <3>3, <3>4
    <3> HIDE DEF rest
    <3>6. <<a>> \o rest # <<>> /\ Safe3(j, v, w, <<a>> \o rest)
      BY ONLY <1>6, <2>1, <3>5, SafeCons
    <3>7. todo = <<a>> \o rest
      <4>1. up = <<u>>
        BY <2>2 DEF u
      <4>2. <<a>> \o <<u>> \o end = <<a>> \o (<<u>> \o end)
        BY <1>5, ConsTwo
      <4> QED BY <4>1, <4>2 DEF rest
    <3> QED BY <3>6, <3>7 DEF Safe
  <2>3. CASE ~ (e.dir /\ to # t)
    <3>1. Safe1(j, v1, w1, end)
      BY <1>8, <1>10, <2>3
    <3>2. <<a>> \o end # <<>> /\ Safe2(j, v, w, <<a>> \o end)
      BY ONLY <1>5, <1>6, <2>1, <3>1, SafeCons
    <3>3. todo = <<a>> \o end
      <4>1. up = <<>> /\ <<a>> \o <<>> = <<a>>
        BY <2>3
      <4> QED BY <4>1
    <3> QED BY <3>2, <3>3 DEF Safe
  <2> QED BY <2>2, <2>3
<1> HIDE DEF todo
<1>12. Starts(v, w, F, "rename", "none", Closed, todo, sh)
  BY <1>11 DEF Starts, Ops, j
<1> QED BY <1>12 DEF todo, end

\* f_rename.
LEMMA RenameInv ==
    ASSUME Inv, ~ hurt, call = Idle, NEW p \in Places(now), NEW to \in Reach(now), NEW name \in Names,
           Rename(p[1], p[2], to, name)
    PROVE  Inv'
<1> DEFINE t == p[1]
           s == p[2]
           r == Room(to)
           q == <<to, r>>
           e == At(now, p)
           n == [e EXCEPT !.name = name]
           up == IF e.dir /\ to # t THEN <<SetUp(e.clst, to)>> ELSE <<>>
           todo == <<SetEntry(to, r, n)>> \o up \o <<SetEntry(t, s, Unused), Sync>>
<1>0. Fine(now, fil, shrunk) /\ now \in Volumes /\ IsTable(now, 0)
  BY IdleIs
<1>1. e = Entry(now, t, s)
  BY DEF At
<1>2. /\ e.dir => to \notin Below(now, e.clst)
      /\ ~ e.dir => Unheld(now, fil, p)
      /\ Exists(to, name) => to = t /\ name = e.name
      /\ r # 0 /\ Begin("rename", "none", Closed, todo) /\ shrunk' = shrunk
  BY <1>1 DEF Rename, InUse, Open, Unheld, BeginVol
<1>3. /\ p \in All(now) /\ t \in Tables /\ s \in 1 .. Slots /\ p = <<t, s>>
      /\ e \in Entries /\ e # Unused
  BY <1>0, PlaceIs, AllTyped
<1>4. r \in 1 .. Slots /\ Entry(now, to, r) = Unused
  BY <1>0, <1>2, RoomEnter
<1>5. /\ n \in Entries /\ n # Unused /\ n.dir = e.dir /\ n.clst = e.clst /\ n.size = e.size
      /\ n.name = name
  BY <1>3, RenamedIs
<1>6. ASSUME NEW x \in All(now), x # p, x[1] = to  PROVE At(now, x).name # name
  <2>1. CASE Exists(to, name)
    <3>1. NamesApart(now)
      BY <1>0, FineParts
    <3> QED BY <1>2, <1>3, <1>6, <2>1, <3>1 DEF NamesApart
  <2>2. CASE ~ Exists(to, name)
    BY <1>0, <1>6, <2>2, NotExists
  <2> QED BY <2>1, <2>2
<1>c. q = <<to, r>> /\ e = At(now, p) /\ to \in Reach(now)
  OBVIOUS
<1>d. todo = <<SetEntry(to, r, n)>> \o up \o <<SetEntry(t, s, Unused), Sync>>
      /\ up = IF e.dir /\ to # t THEN <<SetUp(e.clst, to)>> ELSE <<>>
  OBVIOUS
<1> HIDE DEF t, s, r, q, e, n, up, todo
<1>7. Renames(now, fil, shrunk, p, t, s, q, to, r, e, n)
  BY <1>0, <1>2, <1>3, <1>4, <1>5, <1>6, <1>c DEF Renames
<1>8. Starts(now, win, fil, "rename", "none", Closed, todo, shrunk)
  BY ONLY <1>7, <1>d, RenameStarts
<1> QED BY <1>2, <1>8, BeginStarts
-----------------------------------------------------------------------------
(* Every step *)

\* No call mends what was hurt.
LEMMA HurtStays == FileCalls \/ DirCalls => hurt' = hurt
<1> SUFFICES ASSUME FileCalls \/ DirCalls  PROVE hurt' = hurt
  OBVIOUS
<1>1. CASE FileCalls
  <2>1. PICK f \in Fils :
          \/ \E p \in Places(now) : OpenExisting(f, p[1], p[2]) \/ Overwrite(f, p[1], p[2])
          \/ \E id \in Ids \ Known, t \in Reach(now), name \in Names : Create(f, t, name, id)
          \/ \E k \in 1 .. MaxSize, c \in Clusters : Write(f, k, c)
          \/ \E k \in 0 .. MaxSize : Truncate(f, k)
          \/ \E close \in BOOLEAN : SyncFile(f, close)
    BY <1>1 DEF FileCalls
  <2>2. CASE \E p \in Places(now) : OpenExisting(f, p[1], p[2]) \/ Overwrite(f, p[1], p[2])
    BY <2>2 DEF OpenExisting, Overwrite, Begin
  <2>3. CASE \E id \in Ids \ Known, t \in Reach(now), name \in Names : Create(f, t, name, id)
    BY <2>3 DEF Create, Begin
  <2>4. CASE \E k \in 1 .. MaxSize, c \in Clusters : Write(f, k, c)
    BY <2>4 DEF Write, Begin
  <2>5. CASE \E k \in 0 .. MaxSize : Truncate(f, k)
    BY <2>5 DEF Truncate, Begin
  <2>6. CASE \E close \in BOOLEAN : SyncFile(f, close)
    BY <2>6 DEF SyncFile, Begin
  <2> QED BY <2>1, <2>2, <2>3, <2>4, <2>5, <2>6
<1>2. CASE DirCalls
  BY <1>2 DEF DirCalls, Unlink, MakeDir, Rename, BeginVol, Begin
<1> QED BY <1>1, <1>2

\* Every step keeps the invariant.
LEMMA NextInv == Inv /\ [Next]_vars => Inv'
<1> SUFFICES ASSUME Inv, [Next]_vars  PROVE Inv'
  OBVIOUS
<1>1. CASE call = Idle /\ FileCalls /\ ~ hurt
  <2>1. PICK f \in Fils :
          \/ \E p \in Places(now) : OpenExisting(f, p[1], p[2]) \/ Overwrite(f, p[1], p[2])
          \/ \E id \in Ids \ Known, t \in Reach(now), name \in Names : Create(f, t, name, id)
          \/ \E k \in 1 .. MaxSize, c \in Clusters : Write(f, k, c)
          \/ \E k \in 0 .. MaxSize : Truncate(f, k)
          \/ \E close \in BOOLEAN : SyncFile(f, close)
    BY <1>1 DEF FileCalls
  <2>2. ASSUME NEW p \in Places(now), OpenExisting(f, p[1], p[2])  PROVE Inv'
    BY <1>1, <2>2, OpenInv
  <2>3. ASSUME NEW p \in Places(now), Overwrite(f, p[1], p[2])  PROVE Inv'
    BY <1>1, <2>3, OverwriteInv
  <2>4. ASSUME NEW id \in Ids \ Known, NEW t \in Reach(now), NEW name \in Names, Create(f, t, name, id)
        PROVE  Inv'
    BY <1>1, <2>4, CreateInv
  <2>5. ASSUME NEW k \in 1 .. MaxSize, NEW c \in Clusters, Write(f, k, c)  PROVE Inv'
    BY <1>1, <2>5, WriteInv
  <2>6. ASSUME NEW k \in 0 .. MaxSize, Truncate(f, k)  PROVE Inv'
    BY <1>1, <2>6, TruncateInv
  <2>7. ASSUME NEW close \in BOOLEAN, SyncFile(f, close)  PROVE Inv'
    BY <1>1, <2>7, SyncInv
  <2> QED BY <2>1, <2>2, <2>3, <2>4, <2>5, <2>6, <2>7
<1>2. CASE call = Idle /\ DirCalls /\ ~ hurt
  <2>1. ASSUME NEW p \in Places(now), Unlink(p[1], p[2])  PROVE Inv'
    BY <1>2, <2>1, UnlinkInv
  <2>2. ASSUME NEW t \in Reach(now), NEW name \in Names, NEW c \in Clusters, MakeDir(t, name, c)  PROVE Inv'
    BY <1>2, <2>2, MakeDirInv
  <2>3. ASSUME NEW p \in Places(now), NEW to \in Reach(now), NEW name \in Names, Rename(p[1], p[2], to, name)
        PROVE  Inv'
    BY <1>2, <2>3, RenameInv
  <2> QED BY <1>2, <2>1, <2>2, <2>3 DEF DirCalls
<1>3. CASE (FileCalls \/ DirCalls) /\ hurt
  BY <1>3, HurtStays DEF Inv
<1>4. CASE Look
  BY <1>4, LookInv
<1>5. CASE Step
  BY <1>5, StepInv
<1>6. CASE PowerCut
  BY <1>6, PowerCutInv
<1>7. CASE UNCHANGED vars
  <2>1. /\ now' = now /\ disk' = disk /\ win' = win /\ fil' = fil /\ call' = call
        /\ shrunk' = shrunk /\ hurt' = hurt
    BY <1>7 DEF vars
  <2>2. Job' = Job
    BY <2>1 DEF Job
  <2>3. IdleFine' = IdleFine /\ BusyFine' = BusyFine /\ DiskFine' = DiskFine
    BY <2>1, <2>2 DEF IdleFine, BusyFine, DiskFine
  <2> QED BY <2>1, <2>3 DEF Inv
<1> QED BY <1>1, <1>2, <1>3, <1>4, <1>5, <1>6, <1>7 DEF Next

\* Wherever the power is cut, the volume on the medium is sound, but in the critical
\* section of f_rename and between f_truncate and f_sync, for volumes of every size.
THEOREM VolumeAlwaysSound == Spec => []AlwaysSound
<1>1. Init => Inv
  BY InitInv
<1>2. Inv /\ [Next]_vars => Inv'
  BY NextInv
<1>3. Inv => AlwaysSound
  BY InvSound
<1> QED BY <1>1, <1>2, <1>3, PTL DEF Spec
==============================================================================
