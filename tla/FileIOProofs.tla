----------------------------- MODULE FileIOProofs -----------------------------
(***************************************************************************)
(* Proofs about reading and writing a file, for every size of sectors,     *)
(* clusters and volumes, with and without disk errors.                     *)
(***************************************************************************)
EXTENDS FileIO, TLAPS, FiniteSetTheorems, SequenceTheorems, WellFoundedInduction
-----------------------------------------------------------------------------
(* Arithmetic *)

\* A product grows with its factor.
LEMMA TimesMono ==
    ASSUME NEW p \in Nat, NEW q \in Nat, NEW b \in Nat, p <= q
    PROVE  p * b <= q * b
<1>1. q = p + (q - p) /\ q - p \in Nat
  OBVIOUS
<1>2. (p + (q - p)) * b = p * b + (q - p) * b
  OBVIOUS
<1>3. (q - p) * b \in Nat /\ p * b \in Nat
  BY <1>1
<1> QED BY <1>1, <1>2, <1>3

\* Quotient and remainder.
LEMMA Divides ==
    ASSUME NEW a \in Nat, NEW b \in Nat \ {0}
    PROVE  /\ a \div b \in Nat /\ a % b \in 0 .. b - 1
           /\ a = (a \div b) * b + (a % b)
OBVIOUS

\* There is only one quotient and one remainder.
LEMMA DivideOnce ==
    ASSUME NEW b \in Nat \ {0}, NEW q \in Nat, NEW p \in Nat,
           NEW r \in 0 .. b - 1, NEW t \in 0 .. b - 1, q * b + r = p * b + t
    PROVE  q = p /\ r = t
<1>1. ASSUME NEW x \in Nat, NEW y \in Nat, x < y  PROVE x * b + b <= y * b
  <2>1. (x + 1) * b <= y * b
    BY <1>1, TimesMono
  <2>2. (x + 1) * b = x * b + b
    OBVIOUS
  <2> QED BY <2>1, <2>2
<1>2. q * b \in Nat /\ p * b \in Nat
  OBVIOUS
<1>3. ~(q < p)
  BY <1>1, <1>2
<1>4. ~(p < q)
  BY <1>1, <1>2
<1> QED BY <1>3, <1>4, <1>2

\* So they are what any such sum tells.
LEMMA DivMod ==
    ASSUME NEW b \in Nat \ {0}, NEW q \in Nat, NEW r \in 0 .. b - 1
    PROVE  (q * b + r) \div b = q /\ (q * b + r) % b = r
<1>1. q * b + r \in Nat
  OBVIOUS
<1> DEFINE a == q * b + r
<1>2. a \div b \in Nat /\ a % b \in 0 .. b - 1 /\ a = (a \div b) * b + (a % b)
  BY <1>1, Divides
<1>3. a = q * b + r
  OBVIOUS
<1> HIDE DEF a
<1>4. q * b + r = (a \div b) * b + (a % b)
  BY <1>2, <1>3
<1>5. q = a \div b /\ r = a % b
  BY <1>4, <1>2, DivideOnce
<1> QED BY <1>5, <1>3

\* Groups of C blocks of s bytes: byte y of block z in group q is at the place a.
IsPlace(C, s, a, q, z, y) ==
    /\ q \in Nat /\ z \in 0 .. C - 1 /\ y \in 0 .. s - 1
    /\ a = q * (C * s) + z * s + y

\* A block and a byte in a group are a place in it.
LEMMA InGroup ==
    ASSUME NEW C \in Nat \ {0}, NEW s \in Nat \ {0}, NEW z \in 0 .. C - 1, NEW y \in 0 .. s - 1
    PROVE  C * s \in Nat \ {0} /\ z * s + y \in 0 .. C * s - 1
<1>1. (z + 1) * s <= C * s
  BY TimesMono
<1>2. (z + 1) * s = z * s + s /\ z * s \in Nat
  OBVIOUS
<1>3. C * s \in Nat
  OBVIOUS
<1> QED BY <1>1, <1>2, <1>3

\* What division tells of a place.
LEMMA PlaceIs ==
    ASSUME NEW C \in Nat \ {0}, NEW s \in Nat \ {0}, NEW a, NEW q, NEW z, NEW y,
           IsPlace(C, s, a, q, z, y)
    PROVE  /\ a \in Nat
           /\ a \div s = q * C + z /\ a % s = y /\ (a \div s) % C = z
           /\ a \div (C * s) = q /\ a % (C * s) = z * s + y
<1>0. /\ q \in Nat /\ z \in 0 .. C - 1 /\ y \in 0 .. s - 1
      /\ a = q * (C * s) + z * s + y
  BY DEF IsPlace
<1> DEFINE x == q * C + z
           b == C * s
           r == z * s + y
<1>1. a = x * s + y /\ x \in Nat
  BY <1>0
<1>2. b \in Nat \ {0} /\ r \in 0 .. b - 1
  BY <1>0, InGroup
<1>3. a = q * b + r
  BY <1>0, <1>2
<1>4. x % C = z
  BY <1>0, DivMod
<1> HIDE DEF x, b, r
<1>5. a \div s = x /\ a % s = y /\ a \in Nat
  <2>1. x * s \in Nat
    BY <1>1
  <2>2. a \in Nat
    BY <1>0, <1>1, <2>1
  <2>3. a \div s = x /\ a % s = y
    BY <1>0, <1>1, DivMod
  <2> QED BY <2>2, <2>3
<1>6. a \div b = q /\ a % b = r
  BY <1>0, <1>2, <1>3, DivMod
<1> QED BY <1>4, <1>5, <1>6 DEF x, b, r

\* Every number is a place.
LEMMA PlaceOf ==
    ASSUME NEW C \in Nat \ {0}, NEW s \in Nat \ {0}, NEW a \in Nat
    PROVE  IsPlace(C, s, a, a \div (C * s), (a \div s) % C, a % s)
<1> DEFINE x == a \div s
           y == a % s
           q == x \div C
           z == x % C
<1>1. x \in Nat /\ y \in 0 .. s - 1 /\ a = x * s + y
  BY Divides
<1>2. q \in Nat /\ z \in 0 .. C - 1 /\ x = q * C + z
  BY <1>1, Divides
<1>3. a \div s = x /\ (a \div s) % C = z /\ a % s = y
  OBVIOUS
<1> HIDE DEF x, y, q, z
<1>4. a = q * (C * s) + z * s + y
  BY <1>1, <1>2
<1>5. IsPlace(C, s, a, q, z, y)
  BY <1>1, <1>2, <1>4 DEF IsPlace
<1>6. a \div (C * s) = q
  BY <1>5, PlaceIs
<1> QED BY <1>3, <1>5, <1>6

\* A place plus n whole blocks that stay in its group.
BlocksStay(C, s, a, n) ==
    /\ n * s \in Nat \ {0} /\ (a + n * s) % s = 0
    /\ (a + n * s - 1) \div (C * s) = a \div (C * s)

\* Whole blocks that fit in the rest of a group stay in that group.
LEMMA WholeBlocks ==
    ASSUME NEW C \in Nat \ {0}, NEW s \in Nat \ {0}, NEW a \in Nat, a % s = 0,
           NEW n \in 1 .. C - ((a \div s) % C)
    PROVE  BlocksStay(C, s, a, n)
<1> DEFINE q == a \div (C * s)
           z == (a \div s) % C
           x == a \div s
           w == z + n - 1
           p == a + n * s - 1
           v == x + n
<1>1. IsPlace(C, s, a, q, z, 0)
  BY PlaceOf
<1>2. x \in Nat /\ a = x * s + (a % s)
  BY Divides
<1>3. n \in 1 .. C - z
  OBVIOUS
<1> HIDE DEF q, z, x
<1>4. /\ q \in Nat /\ z \in 0 .. C - 1 /\ a = q * (C * s) + z * s + 0
  BY <1>1 DEF IsPlace
<1>5. w \in 0 .. C - 1 /\ s - 1 \in 0 .. s - 1
  BY <1>3, <1>4
<1>6. p = q * (C * s) + w * s + (s - 1)
  BY <1>3, <1>4
<1>7. v \in Nat /\ a + n * s = v * s + 0 /\ 0 \in 0 .. s - 1
  BY <1>2, <1>3
<1>8. n * s \in Nat \ {0}
  <2>1. 1 * s <= n * s /\ n * s \in Nat
    BY TimesMono
  <2> QED BY <2>1
<1> HIDE DEF w, v
<1>9. (a + n * s) % s = 0
  BY <1>7, DivMod
<1> HIDE DEF p
<1>10. IsPlace(C, s, p, q, w, s - 1)
  BY <1>4, <1>5, <1>6 DEF IsPlace
<1>11. p \div (C * s) = q
  BY <1>10, PlaceIs
<1> QED BY <1>8, <1>9, <1>11 DEF q, p, BlocksStay

\* A place plus k bytes that do not go past its block.
BytesStay(C, s, a, k) ==
    /\ (a + k - 1) \div (C * s) = a \div (C * s)
    /\ (a + k) % s # 0 => /\ (a + k) \div (C * s) = a \div (C * s)
                          /\ ((a + k) \div s) % C = (a \div s) % C
                          /\ (a + k) % s = (a % s) + k

\* Bytes that fit in the rest of a block stay in that block.
LEMMA SomeBytes ==
    ASSUME NEW C \in Nat \ {0}, NEW s \in Nat \ {0}, NEW a \in Nat,
           NEW k \in 1 .. s - (a % s)
    PROVE  BytesStay(C, s, a, k)
<1> DEFINE q == a \div (C * s)
           z == (a \div s) % C
           y == a % s
           x == a \div s
           t == y + k
           p == a + k
           o == a + k - 1
           v == x + 1
<1>1. IsPlace(C, s, a, q, z, y)
  BY PlaceOf
<1>2. x \in Nat /\ a = x * s + y
  BY Divides
<1>3. k \in 1 .. s - y
  OBVIOUS
<1>4. q = a \div (C * s) /\ z = (a \div s) % C /\ y = a % s /\ t = y + k
  OBVIOUS
<1> HIDE DEF q, z, y, x
<1>5. /\ q \in Nat /\ z \in 0 .. C - 1 /\ y \in 0 .. s - 1
      /\ a = q * (C * s) + z * s + y
  BY <1>1 DEF IsPlace
<1>6. t - 1 \in 0 .. s - 1 /\ o = q * (C * s) + z * s + (t - 1)
  BY <1>3, <1>5
<1>7. t \in 1 .. s /\ p = q * (C * s) + z * s + t
  BY <1>3, <1>5
<1>8. t = s => p = v * s + 0 /\ v \in Nat
  <2>1. (x + 1) * s = x * s + s
    BY <1>2
  <2> QED BY <1>2, <1>3, <1>5, <2>1
<1> HIDE DEF t, p, o, v
<1>9. o \div (C * s) = q
  <2>1. IsPlace(C, s, o, q, z, t - 1)
    BY <1>5, <1>6 DEF IsPlace
  <2> QED BY <2>1, PlaceIs
<1>10. CASE t < s
  <2>1. IsPlace(C, s, p, q, z, t)
    BY <1>5, <1>7, <1>10 DEF IsPlace
  <2>2. p \div (C * s) = q /\ (p \div s) % C = z /\ p % s = t
    BY <2>1, PlaceIs
  <2> QED BY <1>4, <1>9, <2>2 DEF p, o, BytesStay
<1>11. CASE t = s
  <2>1. p % s = 0
    <3>1. 0 \in 0 .. s - 1
      OBVIOUS
    <3> QED BY <1>8, <1>11, <3>1, DivMod
  <2> QED BY <1>4, <1>9, <2>1 DEF p, o, BytesStay
<1> QED BY <1>7, <1>10, <1>11

\* The group of the byte before a place: the same, unless a group starts there.
Before(C, s, a) ==
    /\ a % (C * s) = 0 <=> a % s = 0 /\ (a \div s) % C = 0
    /\ a % (C * s) # 0 => (a - 1) \div (C * s) = a \div (C * s)
    /\ a % (C * s) = 0 => /\ (a - 1) \div (C * s) = (a \div (C * s)) - 1
                          /\ a \div (C * s) \in Nat \ {0}

\* The byte before a place is in the same group, or is the last of the one before.
LEMMA ByteBefore ==
    ASSUME NEW C \in Nat \ {0}, NEW s \in Nat \ {0}, NEW a \in Nat \ {0}
    PROVE  Before(C, s, a)
<1> DEFINE b == C * s
           q == a \div b
           z == (a \div s) % C
           y == a % s
           r == a % b
           p == a - 1
           t == r - 1
           w == q - 1
<1>1. IsPlace(C, s, a, q, z, y)
  BY PlaceOf
<1>2. r = z * s + y
  BY <1>1, PlaceIs
<1>3. q = a \div (C * s) /\ z = (a \div s) % C /\ y = a % s /\ r = a % (C * s) /\ b = C * s
  OBVIOUS
<1> HIDE DEF q, z, y, r
<1>4. /\ q \in Nat /\ z \in 0 .. C - 1 /\ y \in 0 .. s - 1
      /\ a = q * b + z * s + y
  BY <1>1 DEF IsPlace
<1>5. b \in Nat \ {0} /\ r \in 0 .. b - 1
  BY <1>2, <1>4, InGroup
<1>6. a = q * b + r
  BY <1>2, <1>4
<1> HIDE DEF b
<1>7. r = 0 <=> y = 0 /\ z = 0
  <2>1. z * s \in Nat
    BY <1>4
  <2>2. ASSUME z # 0  PROVE 1 * s <= z * s
    <3>1. z \in Nat /\ 1 <= z
      BY <1>4, <2>2
    <3> QED BY <3>1, TimesMono
  <2> QED BY <1>2, <1>4, <2>1, <2>2
<1>8. q * b \in Nat /\ (q - 1) * b = q * b - b
  BY <1>4, <1>5
<1>9. CASE r # 0
  <2>1. t \in 0 .. b - 1 /\ p = q * b + t
    BY <1>5, <1>6, <1>8, <1>9
  <2> HIDE DEF t, p
  <2>2. p \div b = q
    BY <2>1, <1>4, <1>5, DivMod
  <2> QED BY <1>3, <1>7, <1>9, <2>2 DEF p, Before
<1>10. CASE r = 0
  <2>1. q # 0
    <3> SUFFICES ASSUME q = 0  PROVE FALSE
      OBVIOUS
    <3>1. q * b = 0
      BY <1>5
    <3> QED BY <3>1, <1>6, <1>10
  <2>2. b - 1 \in 0 .. b - 1 /\ w \in Nat /\ p = w * b + (b - 1)
    BY <1>4, <1>5, <1>6, <1>8, <1>10, <2>1
  <2>3. w = q - 1
    OBVIOUS
  <2> HIDE DEF p, w
  <2>4. p \div b = w
    BY <2>2, <1>5, DivMod
  <2> QED BY <1>3, <1>4, <1>7, <1>10, <2>1, <2>3, <2>4 DEF p, Before
<1> QED BY <1>9, <1>10

\* Where a place in a group is, told by its offset in the group.
PlaceAt(C, s, q, o) ==
    /\ o % s # 0 => o < C * s
    /\ o < C * s => /\ o \div s \in 0 .. C - 1
                    /\ (q * (C * s) + o) \div (C * s) = q
                    /\ ((q * (C * s) + o) \div s) % C = o \div s
    /\ (q * (C * s) + o) % s = o % s

\* What the offset in a group tells of a place.
LEMMA Offset ==
    ASSUME NEW C \in Nat \ {0}, NEW s \in Nat \ {0}, NEW q \in Nat, NEW o \in 0 .. C * s
    PROVE  PlaceAt(C, s, q, o)
<1> DEFINE z == o \div s
           y == o % s
           p == q * (C * s) + o
           w == (q + 1) * C
<1>1. z \in Nat /\ y \in 0 .. s - 1 /\ o = z * s + y /\ o \in Nat /\ C * s \in Nat
  <2>1. o \in Nat /\ C * s \in Nat
    OBVIOUS
  <2> QED BY <2>1, Divides
<1>2. o \div s = z /\ o % s = y
  OBVIOUS
<1> HIDE DEF z, y
<1>3. CASE o < C * s
  <2>1. ~(C <= z)
    <3> SUFFICES ASSUME C <= z  PROVE FALSE
      OBVIOUS
    <3>1. C * s <= z * s /\ z * s \in Nat
      BY <1>1, TimesMono
    <3> QED BY <1>1, <1>3, <3>1
  <2>2. z \in 0 .. C - 1
    BY <2>1, <1>1
  <2>3. p = q * (C * s) + z * s + y
    BY <1>1
  <2> HIDE DEF p
  <2>4. IsPlace(C, s, p, q, z, y)
    BY <1>1, <2>2, <2>3 DEF IsPlace
  <2>5. p \div (C * s) = q /\ (p \div s) % C = z /\ p % s = y
    BY <2>4, PlaceIs
  <2> QED BY <1>2, <1>3, <2>2, <2>5 DEF p, PlaceAt
<1>4. CASE o = C * s
  <2>1. 0 \in 0 .. s - 1
    OBVIOUS
  <2>2. o = C * s + 0
    BY <1>4
  <2>3. o % s = 0
    BY <2>1, <2>2, DivMod
  <2>4. w \in Nat /\ p = w * s + 0
    BY <1>4
  <2> HIDE DEF w, p
  <2>5. p % s = 0
    BY <2>1, <2>4, DivMod
  <2> QED BY <2>3, <2>5, <1>4 DEF p, PlaceAt
<1> QED BY <1>1, <1>3, <1>4

\* Every nonempty set of naturals has a least element.
LEMMA Least ==
    ASSUME NEW S \in SUBSET Nat, S # {}
    PROVE  \E x \in S : \A y \in S : x <= y
<1> DEFINE R == OpToRel(<, Nat)
<1>1. IsWellFoundedOn(R, Nat)
  BY NatLessThanWellFounded
<1>2. \A x, y \in Nat : x < y => <<x, y>> \in R
  BY DEF OpToRel
<1> HIDE DEF R
<1>3. PICK x \in S : \A y \in S : ~ (<<y, x>> \in R)
  BY <1>1, WFMin
<1>4. ASSUME NEW y \in S  PROVE x <= y
  <2>1. x \in Nat /\ y \in Nat /\ ~ (y < x)
    BY <1>2, <1>3
  <2> QED BY <2>1
<1> QED BY <1>3, <1>4
-----------------------------------------------------------------------------
(* Chains, as a function of the FAT f *)

\* The constants' types.
LEMMA Constants ==
    /\ N \in Nat /\ N >= 3 /\ SS \in Nat \ {0} /\ EOC = N
    /\ Clusters \subseteq Nat /\ EOC \notin Clusters /\ 0 \notin Clusters /\ 1 \notin Clusters
    /\ \A v \in Volumes : v.csize \in Nat \ {0}
BY SizeAssumption DEF Clusters, EOC

Fats == [Clusters -> {0} \cup Clusters \cup {EOC}]

GetF(f, c) == IF c \in Clusters THEN f[c] ELSE 1
Nth(f, h) ==
    LET nth[i \in 0 .. N] == IF i = 0 THEN h ELSE GetF(f, nth[i - 1]) IN nth

NthRec(f, h, g) == g = [i \in 0 .. N |-> IF i = 0 THEN h ELSE GetF(f, g[i - 1])]

\* The recursive function is defined: one that obeys its equation up to i can
\* be made to obey it up to i + 1.
LEMMA NthDefined ==
    ASSUME NEW f, NEW h
    PROVE  \E g : NthRec(f, h, g)
<1> USE Constants
<1> DEFINE Obeys(g, k) == /\ DOMAIN g = 0 .. N /\ g = [i \in 0 .. N |-> g[i]]
                          /\ g[0] = h
                          /\ \A i \in 1 .. k : g[i] = GetF(f, g[i - 1])
           Bad == {k \in 0 .. N : ~ \E g : Obeys(g, k)}
<1>1. Bad = {}
  <2> SUFFICES ASSUME Bad # {}  PROVE FALSE
    OBVIOUS
  <2>1. Bad \in SUBSET Nat
    OBVIOUS
  <2>2. PICK k \in Bad : \A j \in Bad : k <= j
    BY <2>1, Least
  <2>3. k \in 0 .. N /\ ~ \E g : Obeys(g, k)
    BY <2>2
  <2>4. CASE k = 0
    <3>1. Obeys([i \in 0 .. N |-> h], 0)
      OBVIOUS
    <3> QED BY <3>1, <2>3, <2>4
  <2>5. CASE k # 0
    <3>1. k - 1 \in 0 .. N /\ k - 1 \notin Bad
      BY <2>2, <2>3, <2>5
    <3>2. PICK g : Obeys(g, k - 1)
      BY <3>1
    <3> DEFINE e == [i \in 0 .. N |-> IF i = k THEN GetF(f, g[k - 1]) ELSE g[i]]
    <3>3. e[0] = h /\ DOMAIN e = 0 .. N
      BY <3>2, <2>5, <2>3
    <3>4. ASSUME NEW i \in 1 .. k  PROVE e[i] = GetF(f, e[i - 1])
      <4>1. e[i - 1] = g[i - 1]
        BY <2>3
      <4>2. CASE i = k
        BY <4>1, <4>2, <2>3
      <4>3. CASE i # k
        <5>1. i \in 1 .. k - 1
          BY <4>3, <2>3
        <5>2. e[i] = g[i]
          BY <5>1, <2>3
        <5> QED BY <5>1, <5>2, <4>1, <3>2
      <4> QED BY <4>2, <4>3
    <3>5. Obeys(e, k)
      BY <3>3, <3>4
    <3> QED BY <3>5, <2>3
  <2> QED BY <2>4, <2>5
<1>2. PICK g : Obeys(g, N)
  BY <1>1
<1>3. NthRec(f, h, g)
  <2>1. ASSUME NEW i \in 0 .. N
        PROVE  g[i] = IF i = 0 THEN h ELSE GetF(f, g[i - 1])
    <3>1. CASE i = 0
      BY <1>2, <3>1
    <3>2. CASE i # 0
      <4>1. i \in 1 .. N
        BY <3>2
      <4> QED BY <4>1, <1>2, <3>2
    <3> QED BY <3>1, <3>2
  <2> QED BY <1>2, <2>1 DEF NthRec
<1> QED BY <1>3

\* A chain starts at its head, and every next element is read from the FAT.
LEMMA NthSteps ==
    ASSUME NEW f, NEW h
    PROVE  /\ Nth(f, h)[0] = h
           /\ \A i \in 0 .. N - 1 : Nth(f, h)[i + 1] = GetF(f, Nth(f, h)[i])
<1> USE Constants
<1> DEFINE g == CHOOSE x : NthRec(f, h, x)
<1>1. Nth(f, h) = g
  BY DEF Nth, NthRec
<1>2. g = [i \in 0 .. N |-> IF i = 0 THEN h ELSE GetF(f, g[i - 1])]
  <2>1. NthRec(f, h, g)
    BY NthDefined
  <2> QED BY <2>1 DEF NthRec
<1> HIDE DEF g
<1>3. g[0] = h
  BY <1>2
<1>4. ASSUME NEW i \in 0 .. N - 1  PROVE g[i + 1] = GetF(f, g[i])
  <2>1. i + 1 \in 0 .. N /\ i + 1 # 0 /\ (i + 1) - 1 = i
    OBVIOUS
  <2> QED BY <1>2, <2>1
<1> QED BY <1>1, <1>3, <1>4

\* The model's chain is that of its FAT.
LEMMA ChainIsNth == \A h : Chain(h) = Nth(fat, h)
BY DEF Chain, Nth, GetFat, GetF

\* What is not a cluster is followed by nothing that is one.
LEMMA NthOut ==
    ASSUME NEW f, NEW h, NEW i \in 0 .. N, NEW j \in i .. N, Nth(f, h)[i] \notin Clusters
    PROVE  Nth(f, h)[j] \notin Clusters
<1> USE Constants
<1> DEFINE Bad == {k \in i .. N : Nth(f, h)[k] \in Clusters}
<1> SUFFICES ASSUME Bad # {}  PROVE FALSE
  OBVIOUS
<1>1. Bad \in SUBSET Nat
  OBVIOUS
<1>2. PICK k \in Bad : \A l \in Bad : k <= l
  BY <1>1, Least
<1>3. k # i /\ k \in i .. N
  OBVIOUS
<1>4. k - 1 \in i .. N /\ k - 1 \in 0 .. N - 1 /\ (k - 1) + 1 = k
  BY <1>3
<1>5. Nth(f, h)[k - 1] \notin Clusters
  BY <1>2, <1>4
<1>6. Nth(f, h)[k] = 1
  BY <1>4, <1>5, NthSteps DEF GetF
<1> QED BY <1>6, <1>2

\* A FAT that reads the same in the first k clusters of a chain has the same
\* chain that far.
LEMMA NthSame ==
    ASSUME NEW f, NEW g, NEW h, NEW k \in 0 .. N,
           \A i \in 0 .. k - 1 : GetF(g, Nth(f, h)[i]) = GetF(f, Nth(f, h)[i])
    PROVE  \A i \in 0 .. k : Nth(g, h)[i] = Nth(f, h)[i]
<1> USE Constants
<1> DEFINE Bad == {i \in 0 .. k : Nth(g, h)[i] # Nth(f, h)[i]}
<1> SUFFICES ASSUME Bad # {}  PROVE FALSE
  OBVIOUS
<1>1. Bad \in SUBSET Nat
  OBVIOUS
<1>2. PICK i \in Bad : \A l \in Bad : i <= l
  BY <1>1, Least
<1>3. i # 0
  BY <1>2, NthSteps
<1>4. i - 1 \in 0 .. k - 1 /\ i - 1 \in 0 .. N - 1 /\ (i - 1) + 1 = i /\ i - 1 \in 0 .. k
  BY <1>2, <1>3
<1>5. Nth(g, h)[i - 1] = Nth(f, h)[i - 1]
  BY <1>2, <1>4
<1>6. Nth(g, h)[i] = GetF(g, Nth(g, h)[i - 1]) /\ Nth(f, h)[i] = GetF(f, Nth(f, h)[i - 1])
  BY <1>4, NthSteps
<1>7. GetF(g, Nth(f, h)[i - 1]) = GetF(f, Nth(f, h)[i - 1])
  BY <1>4
<1> QED BY <1>5, <1>6, <1>7, <1>2

\* A FAT that keeps every link of another.
Keeps(f, g) == \A c \in Clusters : f[c] \in Clusters => g[c] = f[c]

\* A FAT that keeps every link has the clusters of every chain at their places.
LEMMA NthGrows ==
    ASSUME NEW f, NEW g, NEW h, NEW k \in 0 .. N, Nth(f, h)[k] \in Clusters,
           Keeps(f, g)
    PROVE  \A i \in 0 .. k : Nth(f, h)[i] \in Clusters /\ Nth(g, h)[i] = Nth(f, h)[i]
<1> USE Constants
<1>1. ASSUME NEW i \in 0 .. k  PROVE Nth(f, h)[i] \in Clusters
  <2>1. i \in 0 .. N /\ k \in i .. N
    OBVIOUS
  <2> QED BY <2>1, NthOut
<1>2. ASSUME NEW i \in 0 .. k - 1
      PROVE  GetF(g, Nth(f, h)[i]) = GetF(f, Nth(f, h)[i])
  <2>1. i \in 0 .. k /\ i + 1 \in 0 .. k /\ i \in 0 .. N - 1
    OBVIOUS
  <2>2. Nth(f, h)[i] \in Clusters /\ Nth(f, h)[i + 1] \in Clusters
    BY <2>1, <1>1
  <2>3. f[Nth(f, h)[i]] \in Clusters
    BY <2>1, <2>2, NthSteps DEF GetF
  <2> QED BY <2>2, <2>3 DEF GetF, Keeps
<1>3. \A i \in 0 .. k : Nth(g, h)[i] = Nth(f, h)[i]
  BY <1>2, NthSame
<1> QED BY <1>1, <1>3

\* The chain from the m-th element of a chain is the rest of that chain.
LEMMA NthTail ==
    ASSUME NEW f, NEW h, NEW m \in 0 .. N
    PROVE  \A i \in 0 .. N - m : Nth(f, Nth(f, h)[m])[i] = Nth(f, h)[m + i]
<1> USE Constants
<1> DEFINE t == Nth(f, h)[m]
           Bad == {i \in 0 .. N - m : Nth(f, t)[i] # Nth(f, h)[m + i]}
<1> SUFFICES ASSUME Bad # {}  PROVE FALSE
  OBVIOUS
<1>1. Bad \in SUBSET Nat
  OBVIOUS
<1>2. PICK i \in Bad : \A l \in Bad : i <= l
  BY <1>1, Least
<1>3. i # 0
  BY <1>2, NthSteps
<1>4. /\ i - 1 \in 0 .. N - m /\ i - 1 \in 0 .. N - 1 /\ (i - 1) + 1 = i
      /\ m + (i - 1) \in 0 .. N - 1 /\ (m + (i - 1)) + 1 = m + i
  BY <1>2, <1>3
<1>5. Nth(f, t)[i - 1] = Nth(f, h)[m + (i - 1)]
  BY <1>2, <1>4
<1>6. Nth(f, t)[i] = GetF(f, Nth(f, t)[i - 1])
  BY <1>4, NthSteps
<1>7. Nth(f, h)[m + i] = GetF(f, Nth(f, h)[m + (i - 1)])
  BY <1>4, NthSteps
<1> QED BY <1>5, <1>6, <1>7, <1>2
-----------------------------------------------------------------------------
(* Chains without cycles *)

\* Every link leads to a cluster of a lower rank.
RanksFall(f, r) == \A c \in Clusters : f[c] \in Clusters => r[f[c]] < r[c]
Ranked(f) == \E r \in [Clusters -> Nat] : RanksFall(f, r)

\* The elements of a chain are distinct.
LEMMA NthDistinct ==
    ASSUME NEW f, Ranked(f), NEW h, NEW i \in 0 .. N, NEW j \in 0 .. N, i < j,
           Nth(f, h)[j] \in Clusters
    PROVE  Nth(f, h)[i] \in Clusters /\ Nth(f, h)[i] # Nth(f, h)[j]
<1> USE Constants
<1>1. PICK r \in [Clusters -> Nat] : RanksFall(f, r)
  BY DEF Ranked
<1> DEFINE at == Nth(f, h)
           Bad == {k \in i + 1 .. j : ~(r[at[k]] < r[at[i]])}
<1>2. ASSUME NEW k \in i .. j  PROVE at[k] \in Clusters
  <2>1. k \in 0 .. N /\ j \in k .. N
    OBVIOUS
  <2> QED BY <2>1, NthOut
<1>3. \A k \in 0 .. N - 1 : at[k + 1] = GetF(f, at[k])
  BY NthSteps
<1> HIDE DEF at
<1>4. Bad = {}
  <2> SUFFICES ASSUME Bad # {}  PROVE FALSE
    OBVIOUS
  <2>1. Bad \in SUBSET Nat
    OBVIOUS
  <2>2. PICK k \in Bad : \A l \in Bad : k <= l
    BY <2>1, Least
  <2>3. k - 1 \in i .. j /\ k \in i .. j /\ k - 1 \in 0 .. N - 1 /\ (k - 1) + 1 = k
    OBVIOUS
  <2>4. at[k - 1] \in Clusters /\ at[k] \in Clusters /\ at[k] = f[at[k - 1]]
    BY <2>3, <1>2, <1>3 DEF GetF
  <2>5. r[at[k]] < r[at[k - 1]]
    BY <2>4, <1>1 DEF RanksFall
  <2>6. CASE k - 1 = i
    BY <2>5, <2>6, <2>2
  <2>7. CASE k - 1 # i
    <3>1. k - 1 \in i + 1 .. j /\ k - 1 \notin Bad
      BY <2>2, <2>3, <2>7
    <3>2. r[at[k - 1]] < r[at[i]]
      BY <3>1
    <3>3. i \in i .. j
      OBVIOUS
    <3>4. r[at[k]] \in Nat /\ r[at[k - 1]] \in Nat /\ r[at[i]] \in Nat
      BY <1>2, <2>3, <2>4, <3>3
    <3>5. r[at[k]] < r[at[i]]
      BY <2>5, <3>2, <3>4
    <3> QED BY <3>5, <2>2
  <2> QED BY <2>6, <2>7
<1>5. i \in i .. j /\ j \in i + 1 .. j
  OBVIOUS
<1>6. r[at[j]] < r[at[i]] /\ at[i] \in Clusters
  BY <1>2, <1>4, <1>5
<1>7. r[at[i]] \in Nat
  BY <1>6
<1>8. at[i] # at[j]
  BY <1>6, <1>7
<1> QED BY <1>6, <1>8 DEF at

\* A chain has no more elements than there are clusters.
LEMMA NthShort ==
    ASSUME NEW f, Ranked(f), NEW h, NEW i \in 0 .. N, Nth(f, h)[i] \in Clusters
    PROVE  i <= N - 3
<1> USE Constants
<1> SUFFICES ASSUME i >= N - 2  PROVE FALSE
  OBVIOUS
<1> DEFINE S == 0 .. N - 2
           e == [k \in S |-> Nth(f, h)[k]]
<1>0. N - 2 \in 0 .. N /\ i \in N - 2 .. N
  OBVIOUS
<1>1. Nth(f, h)[N - 2] \in Clusters
  <2>1. CASE i = N - 2
    BY <2>1
  <2>2. CASE i # N - 2
    BY <1>0, <2>2, NthDistinct
  <2> QED BY <2>1, <2>2
<1>2. ASSUME NEW k \in S  PROVE Nth(f, h)[k] \in Clusters
  <2>1. k \in 0 .. N /\ N - 2 \in k .. N
    OBVIOUS
  <2> QED BY <2>1, <1>1, NthOut
<1>3. IsFiniteSet(S) /\ Cardinality(S) = N - 1
  <2>1. IsFiniteSet(0 .. N - 2)
        /\ Cardinality(0 .. N - 2) = IF 0 > N - 2 THEN 0 ELSE (N - 2) - 0 + 1
    BY FS_Interval
  <2> QED BY <2>1
<1>4. IsFiniteSet(Clusters) /\ Cardinality(Clusters) = N - 2
  <2>1. IsFiniteSet(2 .. N - 1)
        /\ Cardinality(2 .. N - 1) = IF 2 > N - 1 THEN 0 ELSE (N - 1) - 2 + 1
    BY FS_Interval
  <2> QED BY <2>1 DEF Clusters
<1>5. e \in [S -> Clusters]
  BY <1>2
<1>6. Cardinality(Clusters) < Cardinality(S)
  BY <1>3, <1>4
<1>7. PICK x, y \in S : x # y /\ e[x] = e[y]
  <2> HIDE DEF S, e
  <2> QED BY <1>3, <1>4, <1>5, <1>6, FS_PigeonHole
<1>8. Nth(f, h)[x] = Nth(f, h)[y] /\ x \in 0 .. N /\ y \in 0 .. N
  BY <1>7
<1>9. x < y \/ y < x
  BY <1>7
<1> QED BY <1>2, <1>8, <1>9, NthDistinct

\* Its clusters come first.
LEMMA NthEnds ==
    ASSUME NEW f, Ranked(f), NEW h
    PROVE  \E k \in 0 .. N - 2 : /\ \A i \in 0 .. k - 1 : Nth(f, h)[i] \in Clusters
                                 /\ \A i \in k .. N : Nth(f, h)[i] \notin Clusters
<1> USE Constants
<1> DEFINE Out == {i \in 0 .. N : Nth(f, h)[i] \notin Clusters}
<1>1. N - 2 \in Out
  <2>1. N - 2 \in 0 .. N /\ ~(N - 2 <= N - 3)
    OBVIOUS
  <2> QED BY <2>1, NthShort
<1>2. PICK k \in Out : \A i \in Out : k <= i
  <2>1. Out \in SUBSET Nat /\ Out # {}
    BY <1>1
  <2> QED BY <2>1, Least
<1>3. k \in 0 .. N - 2
  BY <1>1, <1>2
<1>4. ASSUME NEW i \in 0 .. k - 1  PROVE Nth(f, h)[i] \in Clusters
  <2>1. i \in 0 .. N /\ ~(k <= i)
    BY <1>3
  <2> QED BY <2>1, <1>2
<1>5. ASSUME NEW i \in k .. N  PROVE Nth(f, h)[i] \notin Clusters
  <2>1. k \in 0 .. N /\ Nth(f, h)[k] \notin Clusters
    BY <1>2
  <2> QED BY <2>1, NthOut
<1> QED BY <1>3, <1>4, <1>5

NthSet(f, h) == {Nth(f, h)[i] : i \in 0 .. N} \cap Clusters

\* The clusters of a chain, counted.
LEMMA NthCount ==
    ASSUME NEW f, Ranked(f), NEW h, NEW k \in 0 .. N - 2,
           \A i \in 0 .. k - 1 : Nth(f, h)[i] \in Clusters,
           \A i \in k .. N : Nth(f, h)[i] \notin Clusters
    PROVE  Cardinality(NthSet(f, h)) = k
<1> USE Constants
<1> DEFINE S == 0 .. k - 1
           T == NthSet(f, h)
           e == [i \in S |-> Nth(f, h)[i]]
<1>1. ASSUME NEW i \in S  PROVE e[i] \in T
  <2>1. i \in 0 .. N /\ Nth(f, h)[i] \in Clusters
    OBVIOUS
  <2> QED BY <2>1 DEF NthSet
<1>2. ASSUME NEW c \in T  PROVE \E i \in S : e[i] = c
  <2>1. PICK i \in 0 .. N : Nth(f, h)[i] = c /\ c \in Clusters
    BY DEF NthSet
  <2>2. i \in S
    <3>1. ~(i \in k .. N)
      BY <2>1
    <3> QED BY <3>1
  <2> QED BY <2>1, <2>2
<1>3. ASSUME NEW i \in S, NEW j \in S, e[i] = e[j]  PROVE i = j
  <2>1. /\ i \in 0 .. N /\ j \in 0 .. N /\ Nth(f, h)[i] \in Clusters /\ Nth(f, h)[j] \in Clusters
        /\ Nth(f, h)[i] = Nth(f, h)[j]
    BY <1>3
  <2>2. ~(i < j) /\ ~(j < i)
    BY <2>1, NthDistinct
  <2> QED BY <2>1, <2>2
<1>4. e \in Bijection(S, T)
  <2>1. e \in [S -> T]
    BY <1>1
  <2> HIDE DEF S, T, e
  <2>2. e \in Injection(S, T)
    BY <2>1, <1>3 DEF Injection, IsInjective
  <2>3. e \in Surjection(S, T)
    BY <2>1, <1>2 DEF Surjection
  <2> QED BY <2>2, <2>3 DEF Bijection
<1>5. IsFiniteSet(S) /\ Cardinality(S) = k
  <2>1. k - 1 \in Int /\ 0 \in Int
    OBVIOUS
  <2>2. /\ IsFiniteSet(0 .. k - 1)
        /\ Cardinality(0 .. k - 1) = IF 0 > k - 1 THEN 0 ELSE (k - 1) - 0 + 1
    BY ONLY <2>1, FS_Interval
  <2> QED BY <2>2
<1>6. ExistsBijection(S, T)
  BY <1>4 DEF ExistsBijection
<1> HIDE DEF S, T, e
<1>7. Cardinality(T) = Cardinality(S)
  BY <1>5, <1>6, FS_Bijection
<1> QED BY <1>5, <1>7 DEF T

\* Every byte of the size, at b bytes in a cluster, has a cluster in the chain.
Covers(b, f, size, h) == \A i \in 0 .. N : i * b < size => Nth(f, h)[i] \in Clusters

\* That is what the number of clusters tells.
LEMMA CoversFits ==
    ASSUME NEW b \in Nat \ {0}, NEW f, Ranked(f), NEW size \in Nat, NEW h
    PROVE  Covers(b, f, size, h) <=> size <= b * Cardinality(NthSet(f, h))
<1> USE Constants
<1>1. PICK k \in 0 .. N - 2 : /\ \A i \in 0 .. k - 1 : Nth(f, h)[i] \in Clusters
                              /\ \A i \in k .. N : Nth(f, h)[i] \notin Clusters
  BY NthEnds
<1>2. Cardinality(NthSet(f, h)) = k
  BY <1>1, NthCount
<1>3. k * b = b * k /\ k * b \in Nat
  OBVIOUS
<1>4. ASSUME Covers(b, f, size, h)  PROVE size <= k * b
  <2>1. k \in 0 .. N /\ k \in k .. N
    OBVIOUS
  <2>2. ~(k * b < size)
    BY <2>1, <1>1, <1>4 DEF Covers
  <2> QED BY <2>2, <1>3
<1>5. ASSUME size <= k * b, NEW i \in 0 .. N, i * b < size
      PROVE  Nth(f, h)[i] \in Clusters
  <2>1. i * b \in Nat
    OBVIOUS
  <2>2. ~(k <= i)
    BY <1>3, <1>5, <2>1, TimesMono
  <2>3. i \in 0 .. k - 1
    BY <2>2
  <2> QED BY <2>3, <1>1
<1> QED BY <1>2, <1>3, <1>4, <1>5 DEF Covers

\* The chain covers what ends in one of its clusters.
LEMMA CoversTo ==
    ASSUME NEW b \in Nat \ {0}, NEW f, NEW h, NEW q \in 0 .. N, Nth(f, h)[q] \in Clusters,
           NEW size \in Nat, size <= q * b + b
    PROVE  Covers(b, f, size, h)
<1> USE Constants
<1> SUFFICES ASSUME NEW i \in 0 .. N, i * b < size
             PROVE  Nth(f, h)[i] \in Clusters
  BY DEF Covers
<1>1. i * b \in Nat /\ q * b + b = (q + 1) * b /\ q + 1 \in Nat
  OBVIOUS
<1>2. ~(q + 1 <= i)
  BY <1>1, TimesMono
<1>3. q \in i .. N
  BY <1>2
<1> QED BY <1>3, NthOut

\* Where a byte of the file is.
LEMMA CoversAt ==
    ASSUME NEW b \in Nat \ {0}, NEW f, Ranked(f), NEW h,
           NEW size \in Nat, Covers(b, f, size, h), NEW p \in Nat, p < size
    PROVE  p \div b \in 0 .. N - 3 /\ Nth(f, h)[p \div b] \in Clusters
<1> USE Constants
<1> DEFINE q == p \div b
<1>1. q \in Nat /\ q * b <= p /\ q * b \in Nat
  <2>1. q \in Nat /\ p % b \in 0 .. b - 1 /\ p = q * b + (p % b)
    BY Divides
  <2> HIDE DEF q
  <2>2. q * b \in Nat
    BY <2>1
  <2> QED BY <2>1, <2>2
<1> HIDE DEF q
<1>2. q \in 0 .. N
  <2> SUFFICES ASSUME q > N  PROVE FALSE
    BY <1>1
  <2>1. N * b <= q * b /\ N * b \in Nat
    BY <1>1, TimesMono
  <2>2. Nth(f, h)[N] \in Clusters
    BY <1>1, <2>1 DEF Covers
  <2> QED BY <2>2, NthShort
<1>3. Nth(f, h)[q] \in Clusters
  BY <1>1, <1>2 DEF Covers
<1>4. q <= N - 3
  BY <1>2, <1>3, NthShort
<1> QED BY <1>2, <1>3, <1>4 DEF q

\* A smaller size is covered too.
LEMMA CoversLess ==
    ASSUME NEW b \in Nat \ {0}, NEW f, NEW h, NEW size \in Nat, Covers(b, f, size, h),
           NEW less \in 0 .. size
    PROVE  Covers(b, f, less, h)
<1> SUFFICES ASSUME NEW i \in 0 .. N, i * b < less
             PROVE  Nth(f, h)[i] \in Clusters
  BY DEF Covers
<1>1. i * b \in Nat
  BY Constants
<1>2. i * b < size
  BY <1>1
<1> QED BY <1>2 DEF Covers

\* No chain covers the empty file only.
LEMMA CoversNothing ==
    ASSUME NEW b \in Nat \ {0}, NEW f, NEW size \in Nat
    PROVE  /\ Covers(b, f, size, 0) => size = 0
           /\ \A h : size = 0 => Covers(b, f, size, h)
<1> USE Constants
<1>1. ASSUME Covers(b, f, size, 0)  PROVE size = 0
  <2>1. Nth(f, 0)[0] \notin Clusters /\ 0 * b = 0
    BY NthSteps
  <2>2. 0 \in 0 .. N
    OBVIOUS
  <2> QED BY <1>1, <2>1, <2>2 DEF Covers
<1>2. ASSUME NEW h, size = 0, NEW i \in 0 .. N  PROVE ~(i * b < size)
  <2>1. i * b \in Nat
    OBVIOUS
  <2> QED BY <1>2, <2>1
<1> QED BY <1>1, <1>2 DEF Covers

\* A FAT that keeps every link covers what the other does.
LEMMA CoversGrows ==
    ASSUME NEW b \in Nat \ {0}, NEW f, NEW g, Keeps(f, g), NEW size \in Nat, NEW h,
           Covers(b, f, size, h)
    PROVE  Covers(b, g, size, h)
<1> USE Constants
<1> SUFFICES ASSUME NEW i \in 0 .. N, i * b < size
             PROVE  Nth(g, h)[i] \in Clusters
  BY DEF Covers
<1>1. Nth(f, h)[i] \in Clusters
  BY DEF Covers
<1>2. i \in 0 .. i
  OBVIOUS
<1>3. Nth(g, h)[i] = Nth(f, h)[i]
  BY <1>1, <1>2, NthGrows
<1> QED BY <1>1, <1>3
-----------------------------------------------------------------------------
(* What the operations on the FAT do to it *)

LinkFat(f, p, c) ==
    IF p = 0 THEN [f EXCEPT ![c] = EOC] ELSE [f EXCEPT ![c] = EOC, ![p] = c]

\* A free cluster is marked as the end, and linked to the end of a chain.
LEMMA LinkKeeps ==
    ASSUME NEW f \in Fats, Ranked(f), NEW c \in Clusters, f[c] = 0,
           NEW p \in {0} \cup Clusters, p # 0 => f[p] = EOC
    PROVE  LET g == LinkFat(f, p, c) IN
           /\ g \in Fats /\ Ranked(g) /\ Keeps(f, g)
           /\ p # 0 => g[p] = c
<1> USE Constants
<1> DEFINE g == LinkFat(f, p, c)
<1>1. p # c /\ f[c] \notin Clusters
  OBVIOUS
<1>2. p # 0 => p \in Clusters /\ f[p] \notin Clusters
  OBVIOUS
<1>3. /\ g \in Fats /\ g[c] = EOC
      /\ p # 0 => g[p] = c
      /\ \A d \in Clusters \ {c, p} : g[d] = f[d]
  <2>1. CASE p = 0
    BY <2>1 DEF LinkFat, Fats
  <2>2. CASE p # 0
    BY <2>2, <1>1, <1>2 DEF LinkFat, Fats
  <2> QED BY <2>1, <2>2
<1> HIDE DEF g
<1>4. PICK r \in [Clusters -> Nat] : RanksFall(f, r)
  BY DEF Ranked
<1> DEFINE t == [d \in Clusters |-> IF d = c THEN 0 ELSE r[d] + 1]
<1>5. t \in [Clusters -> Nat]
  OBVIOUS
<1>6. ASSUME NEW d \in Clusters, g[d] \in Clusters  PROVE t[g[d]] < t[d]
  <2>1. d # c
    BY <1>3, <1>6
  <2>2. CASE d = p
    BY <2>1, <2>2, <1>3, <1>1
  <2>3. CASE d # p
    <3>1. g[d] = f[d] /\ f[d] \in Clusters
      BY <2>1, <2>3, <1>3, <1>6
    <3>2. r[f[d]] < r[d] /\ r[f[d]] \in Nat /\ r[d] \in Nat
      BY <3>1, <1>4 DEF RanksFall
    <3> QED BY <3>1, <3>2, <2>1
  <2> QED BY <2>2, <2>3
<1>7. Ranked(g)
  BY <1>5, <1>6 DEF Ranked, RanksFall
<1>8. Keeps(f, g)
  BY <1>1, <1>2, <1>3 DEF Keeps
<1> QED BY <1>3, <1>7, <1>8 DEF g

CutFat(f, X, p) ==
    [d \in Clusters |-> IF d \in X THEN 0 ELSE IF d = p THEN EOC ELSE f[d]]

\* Freeing clusters and ending a chain makes no link.
LEMMA CutRanked ==
    ASSUME NEW f \in Fats, Ranked(f), NEW X, NEW p
    PROVE  CutFat(f, X, p) \in Fats /\ Ranked(CutFat(f, X, p))
<1> USE Constants
<1>1. CutFat(f, X, p) \in Fats
  BY DEF CutFat, Fats
<1>2. PICK r \in [Clusters -> Nat] : RanksFall(f, r)
  BY DEF Ranked
<1>3. ASSUME NEW d \in Clusters, CutFat(f, X, p)[d] \in Clusters
      PROVE  CutFat(f, X, p)[d] = f[d]
  BY <1>3 DEF CutFat
<1>4. RanksFall(CutFat(f, X, p), r)
  BY <1>2, <1>3 DEF RanksFall
<1> QED BY <1>1, <1>4 DEF Ranked

\* What follows the m-th element of a chain is further on in the chain.
LEMMA NthRest ==
    ASSUME NEW f, Ranked(f), NEW h, NEW m \in 0 .. N - 1, NEW j \in 0 .. N,
           Nth(f, Nth(f, h)[m + 1])[j] \in Clusters
    PROVE  \E l \in m + 1 .. N : Nth(f, h)[l] = Nth(f, Nth(f, h)[m + 1])[j]
<1> USE Constants
<1> DEFINE t == Nth(f, h)[m + 1]
<1>1. m + 1 \in 0 .. N
  OBVIOUS
<1>2. \A i \in 0 .. N - (m + 1) : Nth(f, t)[i] = Nth(f, h)[(m + 1) + i]
  BY <1>1, NthTail
<1>3. CASE j <= N - (m + 1)
  <2>1. j \in 0 .. N - (m + 1) /\ (m + 1) + j \in m + 1 .. N
    BY <1>3
  <2> QED BY <2>1, <1>2
<1>4. CASE j > N - (m + 1)
  <2> DEFINE e == N - (m + 1)
  <2>1. e \in 0 .. N /\ j \in e .. N /\ e \in 0 .. N - (m + 1) /\ (m + 1) + e = N
    BY <1>4
  <2> HIDE DEF t, e
  <2>2. Nth(f, t)[e] \in Clusters
    BY <2>1, NthOut DEF t
  <2>3. Nth(f, t)[e] = Nth(f, h)[(m + 1) + e]
    BY <1>2, <2>1
  <2>4. Nth(f, h)[N] \in Clusters
    BY <2>1, <2>2, <2>3
  <2>5. N \in 0 .. N /\ ~(N <= N - 3)
    OBVIOUS
  <2> QED BY <2>4, <2>5, NthShort
<1> QED BY <1>3, <1>4

\* The chains of two FATs that are the same up to the m-th element, and clusters
\* that all follow p.
SameUpTo(f, g, h, m) == \A i \in 0 .. m : Nth(g, h)[i] = Nth(f, h)[i]
Follow(f, p, X) == \A d \in X : \E j \in 0 .. N : d = Nth(f, GetF(f, p))[j]

\* Ending a chain at its m-th element p, and freeing clusters that follow it,
\* leaves the chain as it is up to p.
LEMMA CutKeeps ==
    ASSUME NEW f \in Fats, Ranked(f), NEW h, NEW m \in 0 .. N - 1, NEW p \in Clusters,
           Nth(f, h)[m] = p,
           NEW X, Follow(f, p, X)
    PROVE  SameUpTo(f, CutFat(f, X, p), h, m)
<1> USE Constants
<1> DEFINE g == CutFat(f, X, p)
<1>1. GetF(f, p) = Nth(f, h)[m + 1]
  BY NthSteps
<1>2. ASSUME NEW i \in 0 .. m  PROVE Nth(f, h)[i] \in Clusters
  <2>1. i \in 0 .. N /\ m \in i .. N
    OBVIOUS
  <2> QED BY <2>1, NthOut
<1>3. ASSUME NEW i \in 0 .. m  PROVE Nth(f, h)[i] \notin X
  <2> SUFFICES ASSUME Nth(f, h)[i] \in X  PROVE FALSE
    OBVIOUS
  <2>1. PICK j \in 0 .. N : Nth(f, h)[i] = Nth(f, Nth(f, h)[m + 1])[j]
    BY <1>1 DEF Follow
  <2>2. Nth(f, Nth(f, h)[m + 1])[j] \in Clusters
    BY <1>2, <2>1
  <2>3. PICK l \in m + 1 .. N : Nth(f, h)[l] = Nth(f, Nth(f, h)[m + 1])[j]
    BY <2>2, NthRest
  <2>4. i \in 0 .. N /\ l \in 0 .. N /\ i < l
    OBVIOUS
  <2> QED BY <2>1, <2>2, <2>3, <2>4, NthDistinct
<1>4. ASSUME NEW i \in 0 .. m - 1
      PROVE  GetF(g, Nth(f, h)[i]) = GetF(f, Nth(f, h)[i])
  <2>1. i \in 0 .. m /\ i \in 0 .. N /\ m \in 0 .. N /\ i < m
    OBVIOUS
  <2>2. Nth(f, h)[i] \in Clusters /\ Nth(f, h)[i] \notin X
    BY <1>2, <1>3, <2>1
  <2>3. Nth(f, h)[i] # p
    BY <2>1, NthDistinct
  <2> QED BY <2>2, <2>3 DEF GetF, CutFat
<1>5. m \in 0 .. N
  OBVIOUS
<1> HIDE DEF g
<1>6. \A i \in 0 .. m : Nth(g, h)[i] = Nth(f, h)[i]
  BY <1>4, <1>5, NthSame
<1> QED BY <1>6 DEF g, SameUpTo

\* The model's operations in these terms.
LEMMA ModelFat ==
    /\ \A c : GetFat(c) = GetF(fat, c)
    /\ \A h : ChainSet(h) = NthSet(fat, h)
    /\ \A p, c : Linked(p, c) = LinkFat(fat, p, c)
    /\ \A c, p : Removed(c, p) = CutFat(fat, NthSet(fat, c), p)
    /\ \A c, p, k : RemovedPart(c, p, k) = CutFat(fat, {Nth(fat, c)[i] : i \in 0 .. k - 1}, p)
<1>1. \A c : GetFat(c) = GetF(fat, c)
  BY DEF GetFat, GetF
<1>2. \A h : ChainSet(h) = NthSet(fat, h)
  BY ChainIsNth DEF ChainSet, NthSet
<1>3. \A p, c : Linked(p, c) = LinkFat(fat, p, c)
  BY DEF Linked, LinkFat
<1>4. \A c, p : Removed(c, p) = CutFat(fat, NthSet(fat, c), p)
  BY <1>2 DEF Removed, CutFat
<1>5. \A c, p, k : RemovedPart(c, p, k) = CutFat(fat, {Nth(fat, c)[i] : i \in 0 .. k - 1}, p)
  BY ChainIsNth DEF RemovedPart, CutFat
<1> QED BY <1>1, <1>2, <1>3, <1>4, <1>5

\* Allocating a cluster keeps every link, whether it succeeds or fails.
LEMMA CreateKeeps ==
    ASSUME fat \in Fats, Ranked(fat), NEW p \in {0} \cup Clusters, NEW c,
           CreateChain(p, c) \/ CreateChainFails(p)
    PROVE  fat' \in Fats /\ Ranked(fat') /\ Keeps(fat, fat')
<1> USE Constants
<1>1. Keeps(fat, fat)
  BY DEF Keeps
<1>2. CASE fat' = fat
  BY <1>1, <1>2
<1>3. ASSUME NEW q \in {0, p}, NEW d \in FreeSet, fat' = LinkFat(fat, q, d),
             q # 0 => GetFat(q) = EOC
      PROVE  fat' \in Fats /\ Ranked(fat') /\ Keeps(fat, fat')
  <2>1. d \in Clusters /\ fat[d] = 0
    BY DEF FreeSet
  <2>2. q \in {0} \cup Clusters /\ (q # 0 => fat[q] = EOC)
    BY <1>3 DEF GetFat
  <2>3. LET g == LinkFat(fat, q, d) IN g \in Fats /\ Ranked(g) /\ Keeps(fat, g)
    BY <2>1, <2>2, LinkKeeps
  <2> QED BY <2>3, <1>3
<1>4. CASE CreateChain(p, c)
  <2>1. \/ fat' = fat
        \/ (p = 0 \/ GetFat(p) = EOC) /\ c \in FreeSet /\ fat' = LinkFat(fat, p, c)
    BY <1>4, ModelFat DEF CreateChain
  <2> QED BY <2>1, <1>2, <1>3
<1>5. CASE CreateChainFails(p)
  <2>1. \/ fat' = fat
        \/ \E d \in FreeSet : fat' = LinkFat(fat, 0, d)
    BY <1>5 DEF CreateChainFails, LinkFat
  <2> QED BY <2>1, <1>2, <1>3
<1> QED BY <1>4, <1>5

\* The cluster it returns follows the one it was given.
LEMMA CreateGives ==
    ASSUME fat \in Fats, Ranked(fat), NEW p \in {0} \cup Clusters, NEW c, CreateChain(p, c)
    PROVE  /\ c \in {0, 1} \cup Clusters
           /\ p # 0 /\ c \in Clusters => GetF(fat', p) = c
           /\ p = 0 => c # 1
<1> USE Constants
<1>1. CASE p # 0 /\ GetFat(p) \in Clusters /\ c = GetFat(p) /\ UNCHANGED fat
  BY <1>1 DEF GetFat, GetF
<1>2. CASE p # 0 /\ GetFat(p) < 2 /\ c = 1 /\ UNCHANGED fat
  BY <1>2
<1>3. CASE (p = 0 \/ GetFat(p) = EOC) /\ FreeSet = {} /\ c = 0 /\ UNCHANGED fat
  BY <1>3
<1>4. CASE (p = 0 \/ GetFat(p) = EOC) /\ c \in FreeSet /\ fat' = Linked(p, c)
  <2>1. c \in Clusters /\ fat[c] = 0
    BY <1>4 DEF FreeSet
  <2>2. ASSUME p # 0  PROVE GetF(fat', p) = c
    <3>1. fat[p] = EOC
      BY <1>4, <2>2 DEF GetFat
    <3>2. LET g == LinkFat(fat, p, c) IN p # 0 => g[p] = c
      BY <2>1, <3>1, LinkKeeps
    <3> QED BY <3>2, <1>4, <2>2, ModelFat DEF GetF
  <2> QED BY <2>1, <2>2
<1> QED BY <1>1, <1>2, <1>3, <1>4 DEF CreateChain
-----------------------------------------------------------------------------
(* The inductive invariant *)

Busy == {"read", "get", "write", "put", "seek"}

\* The types, with those of the running call.
Types ==
    /\ vol \in Volumes
    /\ data \in [Sectors -> Sector]
    /\ fat \in Fats /\ Ranked(fat)
    /\ ent.size \in 0 .. OffMod - 1 /\ ent.first \in {0} \cup Clusters
    /\ ent = [size |-> ent.size, first |-> ent.first]
    /\ sclust \in {0} \cup Clusters
    /\ objsize \in 0 .. OffMod - 1 /\ fptr \in 0 .. OffMod - 1
    /\ clust \in {0} \cup Clusters
    /\ sect \in {0} \cup Sectors
    /\ buf \in Sector
    /\ err \in {"OK", "DISK_ERR", "INT_ERR"}
    /\ pc \in {"closed", "lost", "open"} \cup Busy

Flags == entDirty \in BOOLEAN /\ wr \in BOOLEAN /\ modified \in BOOLEAN /\ dirty \in BOOLEAN

\* A call runs only without an error and has reported nothing yet; what it has
\* done and what is left are in its buffer, and stay below the size limit.
Calls ==
    /\ call.left \in Nat /\ call.done \in Nat /\ call.from \in Nat /\ call.buf \in Seq(Byte)
    /\ call = [buf |-> call.buf, done |-> call.done, left |-> call.left, from |-> call.from]
    /\ pc \notin Busy => call = NoCall
    /\ pc \in Busy => err = "OK" /\ synced = FALSE
    /\ pc \in {"write", "put"} => wr = TRUE /\ call.done + call.left <= Len(call.buf)

\* The chain reaches as far as the size does.
Covered ==
    /\ Usable => Covers(bcs, fat, objsize, sclust)
    /\ pc = "closed" => Covers(bcs, fat, ent.size, ent.first)

\* The cluster c is the one of byte p.
HoldsByte(b, f, h, c, p) ==
    /\ p \div b \in 0 .. N - 3
    /\ c \in Clusters /\ Nth(f, h)[p \div b] = c

AtByte(p) == HoldsByte(bcs, fat, sclust, clust, p)

\* Where the pointer is, and which cluster is the current one.
Pointed ==
    Usable =>
      /\ fptr <= objsize /\ fptr + call.left <= OffMod - 1
      /\ pc \in {"open", "read", "write"} /\ fptr > 0 => AtByte(fptr - 1)
      /\ pc \in {"get", "put"} => OnCluster /\ call.left > 0 /\ AtByte(fptr)
      /\ pc = "seek" => /\ fptr % bcs = 0
                        /\ call.left > 0 => AtByte(fptr)
                        /\ call.left = 0 /\ fptr > 0 => AtByte(fptr - 1)
      /\ pc \in {"read", "get"} => fptr + call.left <= objsize
      /\ pc = "seek" /\ wr = FALSE => fptr + call.left <= objsize

\* What the directory entry says of a file that is not marked as changed.
EntryKnown ==
    /\ Usable /\ modified = FALSE /\ pc \in {"open", "read", "get"} =>
          ent.size = objsize /\ ent.first = sclust
    /\ Usable /\ modified = FALSE /\ pc = "seek"
             /\ (fptr + call.left <= objsize \/ objsize > 0) =>
          ent.size = objsize /\ ent.first = sclust
    /\ Usable /\ modified = FALSE /\ pc \notin {"write", "put"} => dirty = FALSE
    /\ ~DiskErrors /\ entDirty = TRUE => pc \notin {"closed", "lost"} /\ modified = TRUE

\* The first sector of a cluster of C sectors, and the sectors in it.
First(C, c) == (c - 2) * C + 1
InClusterOf(C, c, s) == c \in Clusters /\ \E k \in 0 .. C - 1 : s = First(C, c) + k

\* The sector of byte i.
Spot(C, f, h, i) == First(C, Nth(f, h)[i \div (C * SS)]) + ((i \div SS) % C)

\* What the buffer holds.
BufferKnown ==
    Usable =>
      /\ sect # 0 /\ dirty = FALSE => buf = data[sect]
      /\ pc \in {"open", "read", "write"} /\ fptr % SS # 0 => sect = Spot(CSize, fat, sclust, fptr)
      /\ dirty = TRUE => \E i \in 0 .. N : InClusterOf(CSize, Nth(fat, sclust)[i], sect)

FInv == Types /\ Flags /\ Calls /\ Covered /\ Pointed /\ EntryKnown /\ BufferKnown
-----------------------------------------------------------------------------
(* The geometry of a volume *)

\* The volume's numbers.
LEMMA Geometry ==
    ASSUME vol \in Volumes
    PROVE  /\ CSize \in Nat \ {0} /\ OffMod \in Nat \ {0} /\ bcs \in Nat \ {0}
           /\ bcs = CSize * SS /\ DiskErrors \in BOOLEAN /\ Offsets \subseteq Nat
           /\ \A n \in Lengths : /\ n \in Nat /\ n # 0 /\ n <= OffMod - 1
                                 /\ \A b \in Buffers : n <= Len(b)
<1>1. CSize \in Nat \ {0} /\ OffMod \in Nat \ {0} /\ DiskErrors \in BOOLEAN /\ Offsets \subseteq Nat
  BY SizeAssumption DEF CSize, OffMod, DiskErrors, Offsets
<1>2. CSize * SS \in Nat \ {0}
  <2>1. SS \in Nat \ {0}
    BY SizeAssumption
  <2>2. 0 \in 0 .. CSize - 1 /\ 0 \in 0 .. SS - 1
    BY <1>1, <2>1
  <2> QED BY <1>1, <2>1, <2>2, InGroup
<1>3. \A n \in Lengths : n \in 1 .. OffMod - 1 /\ \A b \in Buffers : n <= Len(b)
  BY SizeAssumption DEF Lengths, OffMod
<1> QED BY <1>1, <1>2, <1>3 DEF bcs

\* The model's names for the places on it.
LEMMA Spots ==
    /\ \A c : Clust2Sect(c) = First(CSize, c)
    /\ \A h, i : SectorOf(h, i) = Spot(CSize, fat, h, i)
BY ChainIsNth DEF Clust2Sect, First, SectorOf, Spot, bcs

\* The sectors of the clusters are the data area's.
LEMMA InData ==
    ASSUME vol \in Volumes, NEW c \in Clusters, NEW k \in 0 .. CSize - 1
    PROVE  Clust2Sect(c) + k \in Sectors /\ Clust2Sect(c) \in Nat
<1> DEFINE p == c - 2
           n == N - 2
           C == CSize
<1>1. p \in Nat /\ n \in Nat /\ p + 1 \in Nat /\ p + 1 <= n
  BY Constants DEF Clusters
<1>2. C \in Nat \ {0} /\ k \in 0 .. C - 1
  BY Geometry
<1>3. Clust2Sect(c) = p * C + 1 /\ Sectors = 1 .. n * C
  BY DEF Clust2Sect, Sectors
<1> HIDE DEF p, n, C
<1>4. (p + 1) * C <= n * C
  BY <1>1, <1>2, TimesMono
<1>5. (p + 1) * C = p * C + C /\ p * C \in Nat /\ n * C \in Nat
  BY <1>1, <1>2
<1> QED BY <1>2, <1>3, <1>4, <1>5

\* A sector is in one cluster only, at one place.
LEMMA OneCluster ==
    ASSUME vol \in Volumes, NEW c \in Clusters, NEW d \in Clusters,
           NEW k \in 0 .. CSize - 1, NEW l \in 0 .. CSize - 1,
           Clust2Sect(c) + k = Clust2Sect(d) + l
    PROVE  c = d /\ k = l
<1> DEFINE p == c - 2
           q == d - 2
           C == CSize
<1>1. p \in Nat /\ q \in Nat /\ (p = q => c = d)
  BY Constants DEF Clusters
<1>2. C \in Nat \ {0} /\ k \in 0 .. C - 1 /\ l \in 0 .. C - 1
  BY Geometry
<1>3. Clust2Sect(c) = p * C + 1 /\ Clust2Sect(d) = q * C + 1
  BY DEF Clust2Sect
<1> HIDE DEF p, q, C
<1>4. p * C + k = q * C + l
  <2>1. p * C \in Nat /\ q * C \in Nat
    BY <1>1, <1>2
  <2> QED BY <1>2, <1>3, <2>1
<1>5. p = q /\ k = l
  BY <1>1, <1>2, <1>4, DivideOnce
<1> QED BY <1>1, <1>5
-----------------------------------------------------------------------------
(* A turn of the loops of f_read and f_write *)

\* The numbers of a state.
LEMMA Numbers ==
    ASSUME FInv
    PROVE  /\ vol \in Volumes
           /\ CSize \in Nat \ {0} /\ SS \in Nat \ {0} /\ bcs = CSize * SS /\ bcs \in Nat \ {0}
           /\ OffMod \in Nat \ {0} /\ N \in Nat /\ N >= 3
           /\ fptr \in Nat /\ objsize \in Nat /\ fptr <= OffMod - 1 /\ objsize <= OffMod - 1
           /\ call.left \in Nat /\ call.done \in Nat
           /\ fat \in Fats /\ Ranked(fat)
BY Geometry, Constants DEF FInv, Types, Calls

\* A turn is under way, its cluster known.
Turn == /\ Usable /\ call.left > 0
        /\ pc \in {"get", "put"} \/ (pc \in {"read", "write"} /\ ~OnCluster)

\* It is one whenever the model says so.
LEMMA TurnWhen ==
    ASSUME FInv
    PROVE  /\ InCluster("read", "get") => Turn /\ pc \in {"read", "get"}
           /\ InCluster("write", "put") => Turn /\ pc \in {"write", "put"}
BY DEF FInv, Calls, Busy, Turn, InCluster, Usable

\* The pointer's cluster and sector, at any time of a turn.
LEMMA HereIs ==
    ASSUME FInv, Turn
    PROVE  /\ AtByte(fptr) /\ csect \in 0 .. CSize - 1
           /\ Here = First(CSize, clust) + csect /\ Here = Spot(CSize, fat, sclust, fptr)
           /\ Here \in Sectors
<1>1. /\ CSize \in Nat \ {0} /\ SS \in Nat \ {0} /\ bcs = CSize * SS /\ vol \in Volumes
      /\ fptr \in Nat
  BY Numbers
<1>3. csect \in 0 .. CSize - 1
  <2>1. IsPlace(CSize, SS, fptr, fptr \div (CSize * SS), (fptr \div SS) % CSize, fptr % SS)
    BY <1>1, PlaceOf
  <2> QED BY <2>1 DEF IsPlace, csect
<1>4. AtByte(fptr)
  <2>1. CASE pc \in {"get", "put"}
    BY <2>1 DEF FInv, Pointed, Turn
  <2>2. CASE pc \in {"read", "write"} /\ ~OnCluster
    <3>1. fptr # 0
      <4> SUFFICES ASSUME fptr = 0  PROVE OnCluster
        BY <2>2
      <4>1. 0 \in 0 .. CSize * SS - 1 /\ 0 \in 0 .. CSize - 1 /\ 0 \in 0 .. SS - 1
        BY <1>1, Geometry
      <4>2. IsPlace(CSize, SS, 0, 0, 0, 0)
        <5>1. 0 * (CSize * SS) = 0 /\ 0 * SS = 0
          BY <1>1
        <5> QED BY <4>1, <5>1 DEF IsPlace
      <4>3. (0 \div SS) % CSize = 0 /\ 0 % SS = 0
        BY <4>2, <1>1, PlaceIs
      <4> QED BY <4>3 DEF OnCluster, OnSector, csect
    <3>2. AtByte(fptr - 1)
      BY <2>2, <3>1, <1>1 DEF FInv, Pointed, Turn
    <3>3. ~(fptr % SS = 0 /\ (fptr \div SS) % CSize = 0)
      BY <2>2 DEF OnCluster, OnSector, csect
    <3>4. (fptr - 1) \div (CSize * SS) = fptr \div (CSize * SS)
      <4>1. Before(CSize, SS, fptr)
        BY <3>1, <1>1, ByteBefore
      <4> QED BY <3>3, <4>1 DEF Before
    <3> QED BY <3>2, <3>4, <1>1 DEF AtByte, HoldsByte
  <2> QED BY <2>1, <2>2 DEF Turn
<1>5. Spot(CSize, fat, sclust, fptr) = First(CSize, clust) + csect
  BY <1>1, <1>4 DEF Spot, AtByte, HoldsByte, csect
<1>6. Here = First(CSize, clust) + csect
  <2>1. CASE OnSector
    BY <2>1, Spots DEF Here
  <2>2. CASE ~OnSector
    <3>1. pc \in {"read", "write"}
      <4>1. pc \in {"get", "put"} => OnCluster
        BY DEF FInv, Pointed, Turn
      <4> QED BY <4>1, <2>2 DEF Turn, OnCluster
    <3>2. sect = Spot(CSize, fat, sclust, fptr)
      BY <3>1, <2>2 DEF FInv, BufferKnown, Turn, OnSector
    <3> QED BY <3>2, <2>2, <1>5 DEF Here
  <2> QED BY <2>1, <2>2
<1>7. Here \in Sectors
  BY <1>1, <1>3, <1>4, <1>6, InData, Spots DEF AtByte, HoldsByte
<1> QED BY <1>3, <1>4, <1>5, <1>6, <1>7

\* A direct transfer ends in the same cluster, between two sectors.
LEMMA DirectTurn ==
    ASSUME FInv, Turn, cc > 0
    PROVE  /\ OnSector /\ cc \in 1 .. CSize - csect
           /\ cc * SS \in Nat \ {0} /\ cc * SS <= call.left
           /\ (fptr + cc * SS) % SS = 0 /\ AtByte(fptr + cc * SS - 1)
<1> DEFINE m == call.left \div SS
           r == call.left % SS
           n == cc
           a == fptr
           C == CSize
           l == call.left
<1>1. C \in Nat \ {0} /\ SS \in Nat \ {0} /\ bcs = C * SS /\ a \in Nat /\ l \in Nat
  BY Numbers
<1>2. csect \in 0 .. C - 1 /\ AtByte(a)
  BY HereIs
<1>3. OnSector /\ n = MinOf(m, C - csect) /\ n > 0
  BY DEF cc
<1>4. a % SS = 0 /\ csect = (a \div SS) % C
  BY <1>3 DEF OnSector, csect
<1>5. m \in Nat /\ r \in 0 .. SS - 1 /\ l = m * SS + r
  BY <1>1, Divides
<1> HIDE DEF m, n, a, C, l, r
<1>6. n \in 1 .. C - csect /\ n <= m
  BY <1>1, <1>2, <1>3, <1>5 DEF MinOf
<1>7. n * SS <= l
  <2>1. n * SS <= m * SS
    BY <1>1, <1>5, <1>6, TimesMono
  <2>2. m * SS \in Nat /\ n * SS \in Nat
    BY <1>1, <1>5, <1>6
  <2> QED BY <2>1, <2>2, <1>1, <1>5
<1>8. n * SS \in Nat \ {0} /\ (a + n * SS) % SS = 0
      /\ (a + n * SS - 1) \div (C * SS) = a \div (C * SS)
  <2>1. n \in 1 .. C - ((a \div SS) % C)
    BY <1>4, <1>6
  <2>2. BlocksStay(C, SS, a, n)
    BY <1>1, <1>4, <2>1, WholeBlocks
  <2> QED BY <2>2 DEF BlocksStay
<1>9. AtByte(a + n * SS - 1)
  BY <1>1, <1>2, <1>8 DEF AtByte, HoldsByte
<1> QED BY <1>3, <1>6, <1>7, <1>8, <1>9 DEF n, a, C, l

\* A transfer through the buffer ends in the same sector.
LEMMA BufferedTurn ==
    ASSUME FInv, Turn
    PROVE  /\ Part \in 1 .. SS - (fptr % SS) /\ Part <= call.left
           /\ fptr % SS \in 0 .. SS - 1
           /\ AtByte(fptr + Part - 1)
           /\ (fptr + Part) % SS # 0 => Spot(CSize, fat, sclust, fptr + Part) = Here
<1> DEFINE a == fptr
           k == Part
           C == CSize
<1>1. C \in Nat \ {0} /\ SS \in Nat \ {0} /\ bcs = C * SS /\ a \in Nat /\ call.left \in Nat
  BY Numbers
<1>2. AtByte(a) /\ Here = Spot(C, fat, sclust, a) /\ call.left > 0
  BY HereIs DEF Turn
<1>3. k = MinOf(SS - (a % SS), call.left)
  BY DEF Part
<1> HIDE DEF a, C, k
<1>4. a % SS \in 0 .. SS - 1
  BY <1>1, Divides
<1>5. k \in 1 .. SS - (a % SS) /\ k <= call.left
  BY <1>1, <1>2, <1>3, <1>4 DEF MinOf
<1>6. /\ (a + k - 1) \div (C * SS) = a \div (C * SS)
      /\ (a + k) % SS # 0 =>
            /\ (a + k) \div (C * SS) = a \div (C * SS)
            /\ ((a + k) \div SS) % C = (a \div SS) % C
  <2>1. BytesStay(C, SS, a, k)
    BY <1>1, <1>5, SomeBytes
  <2> QED BY <2>1 DEF BytesStay
<1>7. AtByte(a + k - 1)
  BY <1>1, <1>2, <1>6 DEF AtByte, HoldsByte
<1>8. (a + k) % SS # 0 => Spot(C, fat, sclust, a + k) = Here
  BY <1>1, <1>2, <1>6 DEF Spot
<1> QED BY <1>4, <1>5, <1>7, <1>8 DEF a, k, C
-----------------------------------------------------------------------------
(* What leaves a part of the invariant as it is *)

\* The volume stays the same, and so do its numbers.
LEMMA SameVolume ==
    ASSUME UNCHANGED vol
    PROVE  /\ CSize' = CSize /\ OffMod' = OffMod /\ bcs' = bcs /\ Sectors' = Sectors
           /\ DiskErrors' = DiskErrors /\ Lengths' = Lengths /\ Offsets' = Offsets
           /\ \A c : Clust2Sect(c)' = Clust2Sect(c)
BY DEF CSize, OffMod, bcs, Sectors, DiskErrors, Lengths, Offsets, Clust2Sect

\* The chain, the size and the entry that Covered is about stay.
LEMMA CoveredStays ==
    ASSUME Covered, UNCHANGED <<vol, fat, objsize, sclust, ent>>,
           Usable' => Usable, pc' = "closed" => pc = "closed"
    PROVE  Covered'
<1>1. Usable' => Covers(bcs', fat', objsize', sclust')
  BY SameVolume DEF Covered
<1>2. pc' = "closed" => Covers(bcs', fat', ent'.size, ent'.first)
  BY SameVolume DEF Covered
<1> QED BY <1>1, <1>2 DEF Covered

\* After an error only the types matter, and the mark of a changed entry.
LEMMA FailedStep ==
    ASSUME FInv, UNCHANGED vol, pc' = "open", err' # "OK",
           entDirty' = entDirty, modified = TRUE => modified' = TRUE
    PROVE  Covered' /\ Pointed' /\ EntryKnown' /\ BufferKnown'
<1>1. ~Usable'
  BY DEF Usable
<1>2. ~DiskErrors' /\ entDirty' = TRUE => modified' = TRUE
  BY SameVolume DEF FInv, EntryKnown
<1> QED BY <1>1, <1>2 DEF Covered, Pointed, EntryKnown, BufferKnown

\* The flags stay flags.
LEMMA FlagsStay ==
    ASSUME Flags, UNCHANGED <<entDirty, wr, modified>>, dirty' \in {dirty, TRUE, FALSE}
    PROVE  Flags'
BY DEF Flags
-----------------------------------------------------------------------------
(* f_read *)

\* f_read: the call starts, limited to what the file holds.
LEMMA StepFRead ==
    ASSUME FInv, UNCHANGED vol, NEW n \in Lengths, FRead(n)
    PROVE  FInv'
<1> USE Numbers, SameVolume
<1> DEFINE k == MinOf(n, objsize - fptr)
<1>1. Usable /\ pc = "open" /\ fptr <= objsize /\ n \in Nat
  BY Geometry DEF FInv, FRead, Usable, Pointed
<1>2. k \in Nat /\ fptr + k <= objsize
  BY <1>1 DEF MinOf
<1>3. /\ call' = [buf |-> <<>>, done |-> 0, left |-> k, from |-> 0]
      /\ pc' = "read" /\ err' = "OK" /\ synced' = FALSE
      /\ UNCHANGED <<data, fat, ent, entDirty, sclust, objsize, fptr, clust, sect, buf,
                     wr, modified, dirty>>
  BY DEF FRead, NoCall, disk, dir, obj, cache, flag
<1> HIDE DEF k
<1>4. Types'
  BY <1>3 DEF FInv, Types, Busy
<1>5. Flags'
  BY <1>3, FlagsStay DEF FInv
<1>6. Calls'
  BY <1>2, <1>3 DEF Calls, Busy
<1>7. Covered'
  BY <1>1, <1>3, CoveredStays DEF FInv, Usable
<1>8. Pointed'
  BY <1>1, <1>2, <1>3 DEF FInv, Pointed, AtByte, Usable
<1>9. EntryKnown'
  BY <1>1, <1>3 DEF FInv, EntryKnown, Usable
<1>10. BufferKnown'
  BY <1>1, <1>3 DEF FInv, BufferKnown, Usable
<1> QED BY <1>4, <1>5, <1>6, <1>7, <1>8, <1>9, <1>10 DEF FInv

\* Zero is the first place.
LEMMA ZeroPlace ==
    ASSUME NEW b \in Nat \ {0}
    PROVE  0 \div b = 0 /\ 0 % b = 0
<1>1. 0 = 0 * b + 0 /\ 0 \in 0 .. b - 1
  OBVIOUS
<1> QED BY <1>1, DivMod

\* Between two clusters, the current one is the one before the pointer.
LEMMA NextCluster ==
    ASSUME FInv, Usable, OnCluster, pc \in {"read", "write"}, fptr > 0
    PROVE  /\ fptr \div bcs \in 1 .. N - 2 /\ (fptr - 1) \div bcs = (fptr \div bcs) - 1
           /\ clust \in Clusters /\ Nth(fat, sclust)[(fptr \div bcs) - 1] = clust
           /\ GetF(fat, clust) = Nth(fat, sclust)[fptr \div bcs]
<1> USE Numbers
<1>1. AtByte(fptr - 1)
  BY DEF FInv, Pointed
<1>2. fptr % SS = 0 /\ (fptr \div SS) % CSize = 0
  BY DEF OnCluster, OnSector, csect
<1> DEFINE a == fptr
           b == bcs
           C == CSize
<1>3. a \in Nat \ {0} /\ C \in Nat \ {0} /\ SS \in Nat \ {0} /\ b = C * SS
      /\ a % SS = 0 /\ (a \div SS) % C = 0
  BY <1>2
<1> HIDE DEF a, b, C
<1>4. (a - 1) \div b = (a \div b) - 1 /\ a \div b \in Nat \ {0}
  <2>1. Before(C, SS, a)
    BY <1>3, ByteBefore
  <2> QED BY <1>3, <2>1 DEF Before
<1>5. a \div b \in 1 .. N - 2 /\ clust \in Clusters
      /\ Nth(fat, sclust)[(a \div b) - 1] = clust
  BY <1>1, <1>4 DEF AtByte, HoldsByte, a, b
<1> DEFINE q == (a \div b) - 1
<1>6. q \in 0 .. N - 1 /\ q + 1 = a \div b
  BY <1>5
<1> HIDE DEF q
<1>7. Nth(fat, sclust)[q + 1] = GetF(fat, Nth(fat, sclust)[q])
  BY <1>6, NthSteps
<1>8. Nth(fat, sclust)[q] = clust
  BY <1>5 DEF q
<1> QED BY <1>4, <1>5, <1>6, <1>7, <1>8 DEF a, b

\* The cluster that f_read follows the chain to is the pointer's.
LEMMA ReadCluster ==
    ASSUME FInv, pc = "read", call.left > 0, OnCluster
    PROVE  LET c == IF fptr = 0 THEN sclust ELSE GetFat(clust)
           IN  HoldsByte(bcs, fat, sclust, c, fptr) /\ c \in Clusters
<1> USE Numbers
<1> DEFINE c == IF fptr = 0 THEN sclust ELSE GetFat(clust)
<1>0. Usable /\ fptr + call.left <= objsize
  BY DEF FInv, Calls, Pointed, Usable, Busy
<1>1. Usable /\ fptr < objsize
  BY <1>0
<1>2. Covers(bcs, fat, objsize, sclust)
  BY <1>1 DEF FInv, Covered
<1>3. fptr \div bcs \in 0 .. N - 3 /\ Nth(fat, sclust)[fptr \div bcs] \in Clusters
  BY <1>1, <1>2, CoversAt
<1>4. Nth(fat, sclust)[fptr \div bcs] = c
  <2>1. CASE fptr = 0
    <3>1. fptr \div bcs = 0
      BY <2>1, ZeroPlace
    <3> QED BY <2>1, <3>1, NthSteps
  <2>2. CASE fptr # 0
    BY <2>2, <1>1, NextCluster, ModelFat
  <2> QED BY <2>1, <2>2
<1> QED BY <1>3, <1>4 DEF HoldsByte

\* f_read follows the chain at the start of a cluster.
LEMMA StepReadFollow ==
    ASSUME FInv, UNCHANGED vol, ReadFollow
    PROVE  FInv'
<1> USE Numbers, SameVolume
<1> DEFINE c == IF fptr = 0 THEN sclust ELSE GetFat(clust)
<1>1. pc = "read" /\ call.left > 0 /\ OnCluster
  BY DEF ReadFollow
<1>2. c \in Clusters /\ HoldsByte(bcs, fat, sclust, c, fptr)
  BY <1>1, ReadCluster
<1>3. clust' = c /\ pc' = "get"
      /\ UNCHANGED <<data, fat, ent, entDirty, sclust, objsize, fptr, sect, buf,
                     wr, modified, dirty, err, synced, call>>
  BY <1>2 DEF ReadFollow, disk, dir, obj, flag
<1> HIDE DEF c
<1>4. Usable
  BY <1>1 DEF FInv, Calls, Busy, Usable
<1>5. Types'
  BY <1>2, <1>3 DEF FInv, Types, Busy
<1>6. Flags'
  BY <1>3, FlagsStay DEF FInv
<1>7. Calls'
  BY <1>1, <1>3 DEF FInv, Calls, Busy
<1>8. Covered'
  BY <1>3, <1>4, CoveredStays DEF FInv, Usable
<1>9. Pointed'
  BY <1>1, <1>2, <1>3, <1>4 DEF FInv, Pointed, AtByte, Usable, OnCluster, OnSector, csect
<1>10. EntryKnown'
  BY <1>1, <1>3, <1>4 DEF FInv, EntryKnown, Usable
<1>11. BufferKnown'
  BY <1>1, <1>3, <1>4 DEF FInv, BufferKnown, Usable
<1> QED BY <1>5, <1>6, <1>7, <1>8, <1>9, <1>10, <1>11 DEF FInv

\* f_read returns.
LEMMA StepReadEnds ==
    ASSUME FInv, UNCHANGED vol, ReadEnds
    PROVE  FInv'
<1> USE Numbers, SameVolume
<1>1. pc = "read" /\ call.left = 0
  BY DEF ReadEnds, LoopEnds
<1>2. pc' = "open" /\ call' = NoCall /\ NoCall.left = 0
      /\ UNCHANGED <<data, fat, ent, entDirty, sclust, objsize, fptr, clust, sect, buf,
                     wr, modified, dirty, err>>
  BY DEF ReadEnds, NoCall, disk, dir, obj, cache, flag
<1>3. Usable
  BY <1>1 DEF FInv, Calls, Busy, Usable
<1>4. Types'
  BY <1>2 DEF FInv, Types, Busy
<1>5. Flags'
  BY <1>2, FlagsStay DEF FInv
<1>6. Calls'
  BY <1>2 DEF Calls, Busy, NoCall
<1>7. Covered'
  BY <1>2, <1>3, CoveredStays DEF FInv, Usable
<1>8. Pointed'
  BY <1>1, <1>2, <1>3 DEF FInv, Pointed, AtByte, Usable
<1>9. EntryKnown'
  BY <1>1, <1>2, <1>3 DEF FInv, EntryKnown, Usable
<1>10. BufferKnown'
  BY <1>1, <1>2, <1>3 DEF FInv, BufferKnown, Usable
<1> QED BY <1>4, <1>5, <1>6, <1>7, <1>8, <1>9, <1>10 DEF FInv

\* Writing the buffer back keeps sectors sectors, and changes one at most.
LEMMA FlushedIs ==
    ASSUME Types
    PROVE  /\ Flushed \in [Sectors -> Sector]
           /\ \A s \in Sectors : s # sect => Flushed[s] = data[s]
           /\ dirty = FALSE => Flushed = data
BY DEF Types, Flushed

\* A turn that did k bytes.
LEMMA Advanced ==
    ASSUME Calls, NEW k \in Nat, k <= call.left, NEW p, Advance(k, p)
    PROVE  /\ call'.left = call.left - k /\ call'.done = call.done + k
           /\ call'.left \in Nat /\ call'.done \in Nat
           /\ call'.from = call.from /\ call'.buf = call.buf
           /\ call' = [buf |-> call'.buf, done |-> call'.done,
                       left |-> call'.left, from |-> call'.from]
           /\ fptr' = fptr + k /\ pc' = p /\ err' = err /\ synced' = synced
<1>1. /\ call = [buf |-> call.buf, done |-> call.done, left |-> call.left, from |-> call.from]
      /\ call' = [call EXCEPT !.done = @ + k, !.left = @ - k]
      /\ fptr' = fptr + k /\ pc' = p /\ err' = err /\ synced' = synced
  BY DEF Calls, Advance
<1>2. call' = [buf |-> call.buf, done |-> call.done + k, left |-> call.left - k,
               from |-> call.from]
  BY <1>1
<1>3. call.left - k \in Nat /\ call.done + k \in Nat
  BY DEF Calls
<1> QED BY <1>1, <1>2, <1>3

\* f_read reads whole sectors past the buffer, which it overlays with the dirty one.
LEMMA StepReadDirect ==
    ASSUME FInv, UNCHANGED vol, ReadDirect
    PROVE  FInv'
<1> USE Numbers, SameVolume
<1> DEFINE k == cc * SS
<1>1. Turn /\ cc > 0 /\ pc \in {"read", "get"} /\ Usable
  BY TurnWhen DEF ReadDirect, Turn
<1>2. k \in Nat /\ k <= call.left /\ (fptr + k) % SS = 0 /\ AtByte(fptr + k - 1)
  BY <1>1, DirectTurn
<1>3. Advance(k, "read")
      /\ UNCHANGED <<data, fat, ent, entDirty, sclust, objsize, clust, sect, buf,
                     wr, modified, dirty>>
  BY DEF ReadDirect, disk, dir, obj, cache, flag
<1> HIDE DEF k
<1>4. /\ call'.left = call.left - k /\ call'.done = call.done + k
      /\ call'.left \in Nat /\ call'.done \in Nat
      /\ call'.from = call.from /\ call'.buf = call.buf
      /\ call' = [buf |-> call'.buf, done |-> call'.done,
                  left |-> call'.left, from |-> call'.from]
      /\ fptr' = fptr + k /\ pc' = "read" /\ err' = err /\ synced' = synced
  BY <1>2, <1>3, Advanced DEF FInv
<1>5. fptr + call.left <= objsize /\ fptr + call.left <= OffMod - 1 /\ fptr' <= objsize
      /\ fptr' \in 0 .. OffMod - 1
  <2>1. fptr + call.left <= objsize /\ fptr + call.left <= OffMod - 1
    BY <1>1 DEF FInv, Pointed
  <2> QED BY <2>1, <1>2, <1>4
<1>6. Types'
  BY <1>3, <1>4, <1>5 DEF FInv, Types, Busy
<1>7. Flags'
  BY <1>3, FlagsStay DEF FInv
<1>8. Calls'
  BY <1>1, <1>4 DEF FInv, Calls, Busy
<1>9. Covered'
  BY <1>1, <1>3, <1>4, CoveredStays DEF FInv, Usable
<1>10. Pointed'
  BY <1>1, <1>2, <1>3, <1>4, <1>5 DEF Pointed, AtByte
<1>11. EntryKnown'
  BY <1>1, <1>3, <1>4 DEF FInv, EntryKnown, Usable
<1>12. BufferKnown'
  BY <1>1, <1>2, <1>3, <1>4 DEF FInv, BufferKnown, Usable
<1> QED BY <1>6, <1>7, <1>8, <1>9, <1>10, <1>11, <1>12 DEF FInv

\* f_read fills the buffer and copies a part of it.
LEMMA StepReadBuffered ==
    ASSUME FInv, UNCHANGED vol, ReadBuffered
    PROVE  FInv'
<1> USE Numbers, SameVolume
<1> DEFINE k == Part
<1>1. Turn /\ pc \in {"read", "get"} /\ Usable
  BY TurnWhen DEF ReadBuffered, Turn
<1>2. /\ k \in Nat /\ k <= call.left /\ AtByte(fptr + k - 1)
      /\ (fptr + k) % SS # 0 => Spot(CSize, fat, sclust, fptr + k) = Here
  BY <1>1, BufferedTurn
<1>3. Advance(k, "read") /\ sect' = Here
      /\ UNCHANGED <<fat, ent, entDirty, sclust, objsize, clust, wr, modified>>
  BY DEF ReadBuffered, dir, obj, flag
<1>4. \/ Here = sect /\ UNCHANGED <<data, buf, dirty>>
      \/ data' = Flushed /\ buf' = data'[Here] /\ dirty' = FALSE
  BY DEF ReadBuffered, flag
<1>0. Here \in Sectors
  BY <1>1, HereIs
<1> HIDE DEF k
<1>5. /\ call'.left = call.left - k /\ call'.done = call.done + k
      /\ call'.left \in Nat /\ call'.done \in Nat
      /\ call'.from = call.from /\ call'.buf = call.buf
      /\ call' = [buf |-> call'.buf, done |-> call'.done,
                  left |-> call'.left, from |-> call'.from]
      /\ fptr' = fptr + k /\ pc' = "read" /\ err' = err /\ synced' = synced
  BY <1>2, <1>3, Advanced DEF FInv
<1>6. fptr + call.left <= objsize /\ fptr + call.left <= OffMod - 1 /\ fptr' <= objsize
      /\ fptr' \in 0 .. OffMod - 1
  <2>1. fptr + call.left <= objsize /\ fptr + call.left <= OffMod - 1
    BY <1>1 DEF FInv, Pointed
  <2> QED BY <2>1, <1>2, <1>5
<1>7. Types'
  <2>1. data' \in [Sectors -> Sector] /\ buf' \in Sector
    BY <1>0, <1>4, FlushedIs DEF FInv, Types
  <2> QED BY <2>1, <1>0, <1>3, <1>5, <1>6 DEF FInv, Types, Busy
<1>8. Flags'
  BY <1>3, <1>4, FlagsStay DEF FInv
<1>9. Calls'
  BY <1>1, <1>5 DEF FInv, Calls, Busy
<1>10. Covered'
  BY <1>1, <1>3, <1>5, CoveredStays DEF FInv, Usable
<1>11. Pointed'
  BY <1>1, <1>2, <1>3, <1>5, <1>6 DEF Pointed, AtByte
<1>12. EntryKnown'
  BY <1>1, <1>3, <1>4, <1>5 DEF FInv, EntryKnown, Usable
<1>13. BufferKnown'
  BY <1>0, <1>1, <1>2, <1>3, <1>4, <1>5 DEF FInv, BufferKnown, Usable
<1> QED BY <1>7, <1>8, <1>9, <1>10, <1>11, <1>12, <1>13 DEF FInv

\* f_read stops on an error.
LEMMA StepReadFails ==
    ASSUME FInv, UNCHANGED vol, ReadFails
    PROVE  FInv'
<1> USE Numbers, SameVolume
<1>1. /\ err' = "DISK_ERR" /\ pc' = "open" /\ call' = NoCall /\ synced' = FALSE
      /\ UNCHANGED <<fat, ent, entDirty, sclust, objsize, fptr, clust, sect, wr, modified>>
      /\ data' \in {data, Flushed} /\ buf' \in {buf, NoBytes} /\ dirty' \in {dirty, FALSE}
  BY DEF ReadFails, Abort, dir, obj, flag
<1>2. Types'
  <2>1. NoBytes \in Sector
    BY ByteAssumption DEF NoBytes, Sector
  <2> QED BY <2>1, <1>1, FlushedIs DEF FInv, Types, Busy
<1>3. Flags'
  BY <1>1, FlagsStay DEF FInv
<1>4. Calls'
  BY <1>1 DEF Calls, Busy, NoCall
<1> QED BY <1>1, <1>2, <1>3, <1>4, FailedStep DEF FInv
-----------------------------------------------------------------------------
(* f_write *)

\* Nothing is in the chain of a file that has no cluster.
LEMMA NoChain ==
    ASSUME NEW f, NEW i \in 0 .. N
    PROVE  Nth(f, 0)[i] \notin Clusters
<1>1. 0 \in 0 .. N /\ i \in 0 .. N /\ Nth(f, 0)[0] \notin Clusters
  BY Constants, NthSteps
<1> QED BY <1>1, NthOut

\* Allocating clusters leaves the pointer's cluster, and the buffer's, at their
\* places.
LEMMA HoldsGrows ==
    ASSUME NEW b, NEW f, NEW g, Keeps(f, g), NEW h, NEW c, NEW p, HoldsByte(b, f, h, c, p)
    PROVE  HoldsByte(b, g, h, c, p)
<1> DEFINE q == p \div b
<1>1. q \in 0 .. N - 3 /\ c \in Clusters /\ Nth(f, h)[q] = c
  BY DEF HoldsByte
<1> HIDE DEF q
<1>2. q \in 0 .. N /\ q \in 0 .. q
  BY <1>1, Constants
<1>3. Nth(g, h)[q] = Nth(f, h)[q]
  <2>1. Nth(f, h)[q] \in Clusters
    BY <1>1
  <2> QED BY <1>2, <2>1, NthGrows
<1> QED BY <1>1, <1>3 DEF HoldsByte, q

\* Keeping every link keeps the buffer's sector in the file's chain.
LEMMA BufferGrows ==
    ASSUME NEW f, NEW g, Keeps(f, g), NEW h, NEW k, h # 0 => k = h, NEW C, NEW s,
           \E i \in 0 .. N : InClusterOf(C, Nth(f, h)[i], s)
    PROVE  \E i \in 0 .. N : InClusterOf(C, Nth(g, k)[i], s)
<1>1. PICK i \in 0 .. N : InClusterOf(C, Nth(f, h)[i], s)
  OBVIOUS
<1>2. Nth(f, h)[i] \in Clusters
  BY <1>1 DEF InClusterOf
<1>3. h # 0
  BY <1>2, NoChain
<1>4. i \in 0 .. i
  BY Constants
<1>5. Nth(g, h)[i] = Nth(f, h)[i]
  BY <1>2, <1>4, NthGrows
<1> QED BY <1>1, <1>3, <1>5

\* What f_write cuts the n bytes at a short to, where sizes are below M.
Short(M, a, n) == IF (a + n) % M < a THEN M - 1 - a ELSE n
Fitting(M, a, n) == Short(M, a, n) \in Nat /\ a + Short(M, a, n) <= M - 1 /\ Short(M, a, n) <= n

\* That stays below the limit.
LEMMA ShortFits ==
    ASSUME NEW M \in Nat \ {0}, NEW a \in Nat, NEW n \in Nat, a <= M - 1, n <= M - 1
    PROVE  Fitting(M, a, n)
<1> DEFINE x == a + n
           y == a + n - M
<1>1. CASE a + n < M
  <2>1. x = 0 * M + x /\ x \in 0 .. M - 1
    BY <1>1
  <2> HIDE DEF x
  <2>2. x % M = x
    BY <2>1, DivMod
  <2>3. ~((a + n) % M < a)
    BY <2>2 DEF x
  <2>4. Short(M, a, n) = n
    BY <2>3 DEF Short
  <2> QED BY <2>4, <1>1 DEF Fitting
<1>2. CASE a + n >= M
  <2>1. x = 1 * M + y /\ y \in 0 .. M - 1
    BY <1>2
  <2> HIDE DEF x, y
  <2>2. x % M = y
    BY <2>1, DivMod
  <2>3. (a + n) % M < a
    BY <2>2 DEF x, y
  <2>4. Short(M, a, n) = M - 1 - a
    BY <2>3 DEF Short
  <2> QED BY <2>4, <1>2 DEF Fitting
<1> QED BY <1>1, <1>2

\* f_write: the call starts, cut short where the pointer would wrap.
LEMMA StepFWrite ==
    ASSUME FInv, UNCHANGED vol, NEW b \in Buffers, NEW n \in Lengths, FWrite(b, n)
    PROVE  FInv'
<1> USE Numbers, SameVolume
<1> DEFINE k == Short(OffMod, fptr, n)
<1>1. Usable /\ pc = "open" /\ wr = TRUE /\ n \in Nat /\ n # 0 /\ n <= OffMod - 1 /\ n <= Len(b)
      /\ b \in Seq(Byte) /\ Len(b) \in Nat
  BY Geometry, ByteAssumption DEF FWrite, Usable, Flags, FInv
<1>2. k \in Nat /\ fptr + k <= OffMod - 1 /\ k <= Len(b)
  <2>1. Fitting(OffMod, fptr, n)
    BY <1>1, ShortFits
  <2> QED BY <1>1, <2>1 DEF Fitting
<1>3. /\ call' = [buf |-> b, done |-> 0, left |-> k, from |-> 0]
      /\ pc' = "write" /\ err' = "OK" /\ synced' = FALSE
      /\ UNCHANGED <<data, fat, ent, entDirty, sclust, objsize, fptr, clust, sect, buf,
                     wr, modified, dirty>>
  BY DEF FWrite, Short, disk, dir, obj, cache, flag
<1> HIDE DEF k
<1>4. Types'
  BY <1>3 DEF FInv, Types, Busy
<1>5. Flags'
  BY <1>3, FlagsStay DEF FInv
<1>6. Calls'
  BY <1>1, <1>2, <1>3 DEF Calls, Busy
<1>7. Covered'
  BY <1>1, <1>3, CoveredStays DEF FInv, Usable
<1>8. Pointed'
  BY <1>1, <1>2, <1>3 DEF FInv, Pointed, AtByte, Usable
<1>9. EntryKnown'
  BY <1>1, <1>3 DEF FInv, EntryKnown, Usable
<1>10. BufferKnown'
  BY <1>1, <1>3 DEF FInv, BufferKnown, Usable
<1> QED BY <1>4, <1>5, <1>6, <1>7, <1>8, <1>9, <1>10 DEF FInv

\* The cluster that f_write follows the chain to, or adds to it, is the pointer's.
LEMMA WriteCluster ==
    ASSUME FInv, pc = "write", call.left > 0, OnCluster, NEW c,
           IF fptr = 0 /\ sclust # 0 THEN c = sclust /\ UNCHANGED fat
           ELSE CreateChain(IF fptr = 0 THEN 0 ELSE clust, c)
    PROVE  /\ fat' \in Fats /\ Ranked(fat') /\ Keeps(fat, fat')
           /\ c \in Clusters =>
                HoldsByte(bcs, fat', IF sclust = 0 THEN c ELSE sclust, c, fptr)
<1> USE Numbers
<1>1. Usable /\ sclust \in {0} \cup Clusters
  BY DEF FInv, Calls, Usable, Busy, Types
<1>2. CASE fptr = 0 /\ sclust # 0
  <2>1. c = sclust /\ fat' = fat
    BY <1>2
  <2>2. fptr \div bcs = 0 /\ 0 \in 0 .. N - 3
    BY <1>2, ZeroPlace
  <2>3. c \in Clusters => HoldsByte(bcs, fat', sclust, c, fptr)
    BY <2>1, <2>2, NthSteps DEF HoldsByte
  <2> QED BY <1>2, <2>1, <2>3 DEF Keeps
<1>3. CASE fptr = 0 /\ sclust = 0
  <2>1. CreateChain(0, c)
    BY <1>3
  <2>2. fat' \in Fats /\ Ranked(fat') /\ Keeps(fat, fat')
    BY <2>1, CreateKeeps
  <2>3. fptr \div bcs = 0 /\ 0 \in 0 .. N - 3
    BY <1>3, ZeroPlace
  <2>4. c \in Clusters => HoldsByte(bcs, fat', c, c, fptr)
    BY <2>3, NthSteps DEF HoldsByte
  <2> QED BY <1>3, <2>2, <2>4
<1>4. CASE fptr # 0
  <2> DEFINE q == fptr \div bcs
             m == q - 1
  <2>1. CreateChain(clust, c)
    BY <1>4
  <2>2. /\ q \in 1 .. N - 2 /\ clust \in Clusters
        /\ Nth(fat, sclust)[m] = clust
    BY <1>1, <1>4, NextCluster
  <2> HIDE DEF q
  <2>3. m \in 0 .. N - 1 /\ m + 1 = q /\ m \in 0 .. N /\ m \in 0 .. m
    BY <2>2
  <2> HIDE DEF m
  <2>4. fat' \in Fats /\ Ranked(fat') /\ Keeps(fat, fat')
    BY <2>1, <2>2, CreateKeeps
  <2>5. c \in Clusters => GetF(fat', clust) = c
    <3>1. clust # 0 /\ clust \in {0} \cup Clusters
      BY <2>2, Constants
    <3> QED BY <2>1, <3>1, CreateGives
  <2>6. Nth(fat', sclust)[m] = clust
    <3>1. Nth(fat, sclust)[m] \in Clusters
      BY <2>2
    <3>2. Nth(fat', sclust)[m] = Nth(fat, sclust)[m]
      BY <3>1, <2>3, <2>4, NthGrows
    <3> QED BY <3>2, <2>2
  <2>7. Nth(fat', sclust)[q] = GetF(fat', clust)
    BY <2>3, <2>6, NthSteps
  <2>8. sclust # 0
    BY <2>2, <2>3, NoChain
  <2>9. ASSUME c \in Clusters  PROVE HoldsByte(bcs, fat', sclust, c, fptr)
    <3>1. Nth(fat', sclust)[q] \in Clusters /\ q \in 0 .. N
      BY <2>2, <2>5, <2>7, <2>9
    <3>2. q <= N - 3
      BY <3>1, <2>4, NthShort
    <3>3. q \in 0 .. N - 3
      BY <3>1, <3>2
    <3> QED BY <2>5, <2>7, <2>9, <3>3 DEF HoldsByte, q
  <2> QED BY <2>4, <2>8, <2>9
<1> QED BY <1>2, <1>3, <1>4

\* f_write follows or stretches the chain at the start of a cluster.
LEMMA StepWriteFollow ==
    ASSUME FInv, UNCHANGED vol, WriteFollow
    PROVE  FInv'
<1> USE Numbers, SameVolume
<1>1. pc = "write" /\ call.left > 0 /\ OnCluster /\ Usable
  BY DEF WriteFollow, FInv, Calls, Busy, Usable
<1>2. PICK c \in 0 .. N - 1 :
        /\ IF fptr = 0 /\ sclust # 0 THEN c = sclust /\ UNCHANGED fat
           ELSE CreateChain(IF fptr = 0 THEN 0 ELSE clust, c)
        /\ \/ /\ c \in Clusters
              /\ clust' = c /\ sclust' = IF sclust = 0 THEN c ELSE sclust
              /\ pc' = "put" /\ UNCHANGED <<call, err, synced>>
           \/ /\ c = 0
              /\ call' = [call EXCEPT !.left = 0]
              /\ UNCHANGED <<sclust, clust, pc, err, synced>>
           \/ c = 1 /\ Abort("INT_ERR") /\ UNCHANGED <<sclust, clust>>
  BY DEF WriteFollow
<1>3. UNCHANGED <<data, ent, entDirty, objsize, fptr, sect, buf, wr, modified, dirty>>
  BY DEF WriteFollow, dir, flag
<1>4. /\ fat' \in Fats /\ Ranked(fat') /\ Keeps(fat, fat')
      /\ c \in Clusters =>
           HoldsByte(bcs, fat', IF sclust = 0 THEN c ELSE sclust, c, fptr)
  BY <1>1, <1>2, WriteCluster
<1>5. Flags'
  BY <1>3, FlagsStay DEF FInv
<1>6. ASSUME sclust # 0 => sclust' = sclust, pc' # "closed"  PROVE Covered'
  <2>1. Covers(bcs, fat, objsize, sclust)
    BY <1>1 DEF FInv, Covered
  <2>2. CASE sclust # 0
    BY <1>3, <1>4, <1>6, <2>1, <2>2, CoversGrows DEF Covered
  <2>3. CASE sclust = 0
    <3>1. objsize = 0
      BY <2>1, <2>3, CoversNothing
    <3> QED BY <1>3, <1>6, <3>1, CoversNothing DEF Covered
  <2> QED BY <2>2, <2>3
<1>7. ASSUME sclust # 0 => sclust' = sclust, Usable'  PROVE BufferKnown'
  <2>1. fptr' % SS = 0
    BY <1>1, <1>3 DEF OnCluster, OnSector
  <2>2. sect' # 0 /\ dirty' = FALSE => buf' = data'[sect']
    BY <1>1, <1>3 DEF FInv, BufferKnown
  <2>3. dirty' = TRUE => \E i \in 0 .. N : InClusterOf(CSize', Nth(fat', sclust')[i], sect')
    <3>1. dirty = TRUE => \E i \in 0 .. N : InClusterOf(CSize, Nth(fat, sclust)[i], sect)
      BY <1>1 DEF FInv, BufferKnown
    <3> SUFFICES ASSUME dirty' = TRUE
                 PROVE  \E i \in 0 .. N : InClusterOf(CSize', Nth(fat', sclust')[i], sect')
      OBVIOUS
    <3>2. \E i \in 0 .. N : InClusterOf(CSize, Nth(fat, sclust)[i], sect)
      BY <1>3, <3>1
    <3>3. Keeps(fat, fat') /\ (sclust # 0 => sclust' = sclust)
      BY <1>4, <1>7
    <3>4. \E i \in 0 .. N : InClusterOf(CSize, Nth(fat', sclust')[i], sect)
      BY <3>2, <3>3, BufferGrows
    <3> QED BY <1>3, <3>4
  <2> QED BY <2>1, <2>2, <2>3 DEF BufferKnown
<1>8. ~DiskErrors /\ entDirty = TRUE => modified = TRUE
  BY DEF FInv, EntryKnown
<1>9. CASE c \in Clusters
  <2>1. /\ clust' = c /\ sclust' = IF sclust = 0 THEN c ELSE sclust
        /\ pc' = "put" /\ UNCHANGED <<call, err, synced>>
    BY <1>2, <1>9, Constants
  <2>2. Types'
    BY <1>3, <1>4, <1>9, <2>1 DEF FInv, Types, Busy
  <2>3. Calls'
    BY <1>1, <1>3, <2>1 DEF FInv, Calls, Busy
  <2>4. Pointed'
    BY <1>1, <1>3, <1>4, <1>9, <2>1 DEF FInv, Pointed, AtByte, Usable, OnCluster, OnSector, csect
  <2>5. EntryKnown'
    BY <1>3, <1>8, <2>1 DEF EntryKnown, Usable
  <2>6. Usable' /\ (sclust # 0 => sclust' = sclust) /\ pc' # "closed"
    BY <1>1, <2>1 DEF Usable
  <2> QED BY <1>5, <1>6, <1>7, <2>2, <2>3, <2>4, <2>5, <2>6 DEF FInv
<1>10. CASE c = 0
  <2>1. /\ call' = [call EXCEPT !.left = 0]
        /\ UNCHANGED <<sclust, clust, pc, err, synced>>
    BY <1>2, <1>10, Constants
  <2>2. Types'
    BY <1>3, <1>4, <2>1 DEF FInv, Types
  <2>3. /\ call = [buf |-> call.buf, done |-> call.done, left |-> call.left, from |-> call.from]
        /\ call.done + call.left <= Len(call.buf) /\ call.buf \in Seq(Byte)
    BY <1>1 DEF FInv, Calls
  <2>4. call' = [buf |-> call.buf, done |-> call.done, left |-> 0, from |-> call.from]
    BY <2>1, <2>3
  <2>5. call.done + 0 <= Len(call.buf)
    <3> DEFINE d == call.done
               l == call.left
               n == Len(call.buf)
    <3>1. d \in Nat /\ l \in Nat /\ n \in Nat /\ d + l <= n
      BY <2>3
    <3> HIDE DEF d, l, n
    <3>2. d + 0 <= n
      BY <3>1
    <3> QED BY <3>2 DEF d, n
  <2>6. Calls'
    BY <1>1, <1>3, <2>1, <2>3, <2>4, <2>5 DEF FInv, Calls, Busy
  <2>7. fptr > 0 => HoldsByte(bcs, fat', sclust', clust', fptr' - 1)
    <3>1. fptr > 0 => HoldsByte(bcs, fat, sclust, clust, fptr - 1)
      BY <1>1 DEF FInv, Pointed, AtByte
    <3> QED BY <1>3, <1>4, <2>1, <3>1, HoldsGrows
  <2>8. Pointed'
    BY <1>1, <1>3, <2>1, <2>4, <2>7 DEF FInv, Pointed, AtByte, Usable
  <2>9. EntryKnown'
    BY <1>1, <1>3, <1>8, <2>1 DEF EntryKnown, Usable
  <2>10. Usable' /\ (sclust # 0 => sclust' = sclust) /\ pc' # "closed"
    BY <1>1, <2>1 DEF Usable
  <2> QED BY <1>5, <1>6, <1>7, <2>2, <2>6, <2>8, <2>9, <2>10 DEF FInv
<1>11. CASE c = 1 /\ Abort("INT_ERR") /\ UNCHANGED <<sclust, clust>>
  <2>1. /\ err' = "INT_ERR" /\ pc' = "open" /\ call' = NoCall /\ UNCHANGED <<sclust, clust>>
    BY <1>11 DEF Abort
  <2>2. Types'
    BY <1>3, <1>4, <2>1 DEF FInv, Types
  <2>3. Calls'
    BY <2>1 DEF Calls, Busy, NoCall
  <2> QED BY <1>3, <1>5, <2>1, <2>2, <2>3, FailedStep DEF FInv
<1> QED BY <1>2, <1>9, <1>10, <1>11

\* f_write returns.
LEMMA StepWriteEnds ==
    ASSUME FInv, UNCHANGED vol, WriteEnds
    PROVE  FInv'
<1> USE Numbers, SameVolume
<1>1. pc = "write" /\ call.left = 0
  BY DEF WriteEnds, LoopEnds
<1>2. pc' = "open" /\ call' = NoCall /\ NoCall.left = 0 /\ modified' = TRUE
      /\ UNCHANGED <<data, fat, ent, entDirty, sclust, objsize, fptr, clust, sect, buf,
                     wr, dirty, err>>
  BY DEF WriteEnds, NoCall, disk, dir, obj, cache
<1>3. Usable
  BY <1>1 DEF FInv, Calls, Busy, Usable
<1>4. Types'
  BY <1>2 DEF FInv, Types, Busy
<1>5. Flags'
  BY <1>2 DEF FInv, Flags
<1>6. Calls'
  BY <1>2 DEF Calls, Busy, NoCall
<1>7. Covered'
  BY <1>2, <1>3, CoveredStays DEF FInv, Usable
<1>8. Pointed'
  BY <1>1, <1>2, <1>3 DEF FInv, Pointed, AtByte, Usable
<1>9. EntryKnown'
  BY <1>1, <1>2, <1>3 DEF FInv, EntryKnown, Usable
<1>10. BufferKnown'
  BY <1>1, <1>2, <1>3 DEF FInv, BufferKnown, Usable
<1> QED BY <1>4, <1>5, <1>6, <1>7, <1>8, <1>9, <1>10 DEF FInv

\* f_write stops on an error.
LEMMA StepWriteFails ==
    ASSUME FInv, UNCHANGED vol, WriteFails
    PROVE  FInv'
<1> USE Numbers, SameVolume
<1>1. /\ err' = "DISK_ERR" /\ pc' = "open" /\ call' = NoCall /\ synced' = FALSE
      /\ UNCHANGED <<ent, entDirty, sclust, objsize, fptr, clust, sect, wr, modified>>
      /\ data' \in {data, Flushed} /\ buf' \in {buf, NoBytes} /\ dirty' \in {dirty, FALSE}
  BY DEF WriteFails, Abort, dir, obj, flag
<1>2. fat' = fat \/ CreateChainFails(IF fptr = 0 THEN 0 ELSE clust)
  BY DEF WriteFails
<1>3. fat' \in Fats /\ Ranked(fat')
  <2>1. (IF fptr = 0 THEN 0 ELSE clust) \in {0} \cup Clusters
    BY DEF FInv, Types
  <2> QED BY <1>2, <2>1, CreateKeeps
<1>4. Types'
  <2>1. NoBytes \in Sector
    BY ByteAssumption DEF NoBytes, Sector
  <2> QED BY <2>1, <1>1, <1>3, FlushedIs DEF FInv, Types, Busy
<1>5. Flags'
  BY <1>1, FlagsStay DEF FInv
<1>6. Calls'
  BY <1>1 DEF Calls, Busy, NoCall
<1> QED BY <1>1, <1>4, <1>5, <1>6, FailedStep DEF FInv

\* A chain that has the cluster of byte p covers a file that ends with it.
LEMMA CoversByte ==
    ASSUME NEW b \in Nat \ {0}, NEW f, NEW h, NEW c, NEW p \in Nat, HoldsByte(b, f, h, c, p)
    PROVE  Covers(b, f, p + 1, h)
<1> DEFINE q == p \div b
           r == p % b
<1>1. /\ q \in 0 .. N - 3 /\ c \in Clusters /\ Nth(f, h)[q] = c
  BY DEF HoldsByte
<1>2. q \in Nat /\ r \in 0 .. b - 1 /\ p = q * b + r
  BY Divides
<1> HIDE DEF q, r
<1>3. q * b \in Nat /\ q \in 0 .. N
  BY <1>1, <1>2, Constants
<1>4. p + 1 <= q * b + b /\ p + 1 \in Nat
  BY <1>2, <1>3
<1>5. Nth(f, h)[q] \in Clusters
  BY <1>1
<1> QED BY <1>3, <1>4, <1>5, CoversTo

\* The sectors that a direct transfer reaches are in the pointer's cluster.
LEMMA DirectSectors ==
    ASSUME FInv, Turn, cc > 0, NEW s \in Here .. Here + cc - 1
    PROVE  /\ InClusterOf(CSize, clust, s) /\ s \in Sectors
           /\ (s - Here) * SS \in Nat /\ (s - Here) * SS + SS <= cc * SS
<1> USE Numbers
<1>1. /\ cc \in 1 .. CSize - csect /\ csect \in 0 .. CSize - 1 /\ clust \in Clusters
      /\ Here = First(CSize, clust) + csect /\ Here \in Sectors
  BY DirectTurn, HereIs DEF AtByte, HoldsByte
<1>2. First(CSize, clust) \in Nat /\ Here \in Nat
  BY <1>1, InData, Spots
<1> DEFINE k == s - First(CSize, clust)
           j == s - Here
           n == cc
<1>3. k \in 0 .. CSize - 1 /\ s = First(CSize, clust) + k
  BY <1>1, <1>2
<1>4. j \in Nat /\ j + 1 <= n /\ n \in Nat
  BY <1>1, <1>2
<1>5. s \in Sectors
  BY <1>1, <1>3, InData, Spots
<1> HIDE DEF j, n, k
<1>6. (j + 1) * SS <= n * SS
  BY <1>4, TimesMono
<1>7. (j + 1) * SS = j * SS + SS /\ j * SS \in Nat
  BY <1>4
<1> QED BY <1>1, <1>3, <1>5, <1>6, <1>7 DEF InClusterOf, j, n

\* Bytes of the program's buffer.
LEMMA SliceIs ==
    ASSUME Calls, pc \in {"write", "put"}, NEW i \in Nat, NEW k \in Nat, i + k <= call.left
    PROVE  Slice(i, k) \in [1 .. k -> Byte]
<1>1. /\ call.buf \in Seq(Byte) /\ call.done \in Nat /\ call.left \in Nat
      /\ call.done + call.left <= Len(call.buf)
  BY DEF Calls
<1> DEFINE w == call.buf
           n == Len(w)
           d == call.done
           l == call.left
<1>2. n \in Nat /\ (\A j \in 1 .. n : w[j] \in Byte) /\ d \in Nat /\ l \in Nat /\ d + l <= n
      /\ i + k <= l
  BY <1>1
<1> HIDE DEF w, n, d, l
<1>3. ASSUME NEW j \in 1 .. k  PROVE w[d + i + j] \in Byte
  <2>1. d + i + j \in 1 .. n
    BY <1>2
  <2> QED BY <1>2, <2>1
<1>4. Slice(i, k) = [j \in 1 .. k |-> w[d + i + j]]
  BY DEF Slice, w, d
<1> QED BY <1>3, <1>4

\* The file that grew to a pointer whose last byte has a cluster.
LEMMA GrownCovered ==
    ASSUME FInv, Usable, UNCHANGED vol, NEW f, NEW h, NEW c, NEW p \in Nat,
           Covers(bcs, f, objsize, h), HoldsByte(bcs, f, h, c, p - 1), p > 0,
           p <= OffMod - 1, fptr' = p, objsize' = Grown
    PROVE  /\ Covers(bcs, f, objsize', h)
           /\ objsize' \in 0 .. OffMod - 1 /\ p <= objsize' /\ objsize <= objsize'
<1> USE Numbers
<1>1. p - 1 \in Nat /\ (p - 1) + 1 = p
  OBVIOUS
<1>2. Covers(bcs, f, p, h)
  BY <1>1, CoversByte
<1>3. objsize' = IF p > objsize THEN p ELSE objsize
  BY DEF Grown
<1> QED BY <1>2, <1>3

\* f_write writes whole sectors past the buffer, and what the buffer held of them.
LEMMA StepWriteDirect ==
    ASSUME FInv, UNCHANGED vol, WriteDirect
    PROVE  FInv'
<1> USE Numbers, SameVolume
<1> DEFINE k == cc * SS
<1>1. Turn /\ cc > 0 /\ pc \in {"write", "put"} /\ Usable
  BY TurnWhen DEF WriteDirect, Turn
<1>2. k \in Nat /\ k # 0 /\ k <= call.left /\ (fptr + k) % SS = 0 /\ AtByte(fptr + k - 1)
  BY <1>1, DirectTurn
<1>3. /\ Advance(k, "write") /\ objsize' = Grown /\ dirty' = FALSE
      /\ UNCHANGED <<fat, ent, entDirty, sclust, clust, sect, wr, modified>>
      /\ data' = [s \in Sectors |-> IF s \in Here .. Here + cc - 1
                                    THEN Slice((s - Here) * SS, SS) ELSE Flushed[s]]
      /\ buf' = IF sect \in Here .. Here + cc - 1 THEN Slice((sect - Here) * SS, SS) ELSE buf
  BY DEF WriteDirect, dir
<1>4. ASSUME NEW s \in Here .. Here + cc - 1
      PROVE  Slice((s - Here) * SS, SS) \in Sector /\ s \in Sectors
  <2>1. (s - Here) * SS \in Nat /\ (s - Here) * SS + SS <= k /\ s \in Sectors
    BY <1>1, DirectSectors
  <2> DEFINE i == (s - Here) * SS
  <2>2. i \in Nat /\ i + SS <= call.left
    BY <1>2, <2>1
  <2> HIDE DEF i
  <2>3. Slice(i, SS) \in [1 .. SS -> Byte]
    BY <1>1, <2>2, SliceIs DEF FInv
  <2> QED BY <2>1, <2>3 DEF i, Sector
<1> HIDE DEF k
<1>5. /\ call'.left = call.left - k /\ call'.done = call.done + k
      /\ call'.left \in Nat /\ call'.done \in Nat
      /\ call'.from = call.from /\ call'.buf = call.buf
      /\ call' = [buf |-> call'.buf, done |-> call'.done,
                  left |-> call'.left, from |-> call'.from]
      /\ fptr' = fptr + k /\ pc' = "write" /\ err' = err /\ synced' = synced
  BY <1>2, <1>3, Advanced DEF FInv
<1>6. /\ fptr + call.left <= OffMod - 1 /\ fptr' + call'.left <= OffMod - 1
      /\ fptr' \in Nat /\ fptr' > 0 /\ fptr' <= OffMod - 1 /\ fptr' \in 0 .. OffMod - 1
  <2> DEFINE a == fptr
             l == call.left
             e == call'.left
             M == OffMod
  <2>1. a + l <= M - 1
    BY <1>1 DEF FInv, Pointed
  <2>2. /\ a \in Nat /\ l \in Nat /\ M \in Nat /\ e = l - k /\ fptr' = a + k
        /\ k \in Nat /\ k # 0 /\ k <= l
    BY <1>2, <1>5
  <2> HIDE DEF a, l, e, M
  <2>3. a + l <= M - 1 /\ fptr' + e <= M - 1 /\ fptr' \in Nat /\ fptr' > 0 /\ fptr' <= M - 1
    BY <2>1, <2>2
  <2> QED BY <2>2, <2>3 DEF a, l, e, M
<1>7. /\ Covers(bcs, fat, objsize', sclust)
      /\ objsize' \in 0 .. OffMod - 1 /\ fptr' <= objsize' /\ objsize <= objsize'
  <2>1. Covers(bcs, fat, objsize, sclust)
    BY <1>1 DEF FInv, Covered
  <2>2. HoldsByte(bcs, fat, sclust, clust, (fptr + k) - 1)
    BY <1>2 DEF AtByte
  <2>3. fptr' = fptr + k /\ fptr + k \in Nat /\ fptr + k > 0 /\ fptr + k <= OffMod - 1
    BY <1>5, <1>6
  <2>4. objsize' = Grown
    BY <1>3
  <2> QED BY <1>1, <2>1, <2>2, <2>3, <2>4, GrownCovered
<1>8. Types'
  <2>1. data' \in [Sectors -> Sector] /\ buf' \in Sector
    BY <1>3, <1>4, FlushedIs DEF FInv, Types
  <2> QED BY <2>1, <1>3, <1>5, <1>6, <1>7 DEF FInv, Types, Busy
<1>9. Flags'
  BY <1>3, FlagsStay DEF FInv
<1>10. Calls'
  <2>1. call.done + call.left <= Len(call.buf)
    BY <1>1 DEF FInv, Calls
  <2>2. call'.done + call'.left <= Len(call'.buf)
    <3>1. call'.done + call'.left = call.done + call.left
      BY <1>2, <1>5
    <3> QED BY <2>1, <3>1, <1>5
  <2> QED BY <2>2, <1>1, <1>3, <1>5 DEF FInv, Calls, Busy
<1>11. Covered'
  BY <1>3, <1>5, <1>7 DEF Covered
<1>12. Pointed'
  BY <1>1, <1>2, <1>3, <1>5, <1>6, <1>7 DEF Pointed, AtByte
<1>13. EntryKnown'
  BY <1>1, <1>3, <1>5 DEF FInv, EntryKnown, Usable
<1>14. BufferKnown'
  <2>1. ASSUME sect # 0  PROVE buf' = data'[sect]
    <3>1. sect \in Sectors
      BY <2>1 DEF FInv, Types
    <3>2. CASE sect \in Here .. Here + cc - 1
      BY <3>1, <3>2, <1>3
    <3>3. CASE sect \notin Here .. Here + cc - 1
      <4>1. buf' = buf /\ data'[sect] = Flushed[sect]
        BY <3>1, <3>3, <1>3
      <4>2. dirty = FALSE => Flushed[sect] = buf
        BY <1>1, <2>1 DEF FInv, BufferKnown, Flushed
      <4>3. dirty = TRUE => Flushed[sect] = buf
        BY <3>1 DEF FInv, Types, Flushed
      <4> QED BY <4>1, <4>2, <4>3 DEF FInv, Flags
    <3> QED BY <3>2, <3>3
  <2> QED BY <2>1, <1>2, <1>3, <1>5 DEF BufferKnown
<1> QED BY <1>8, <1>9, <1>10, <1>11, <1>12, <1>13, <1>14 DEF FInv

\* What the program's bytes make of the buffer.
LEMMA BufferedBytes ==
    ASSUME FInv, Turn, pc \in {"write", "put"}, WriteBuffered
    PROVE  /\ buf' \in Sector
           /\ data' \in [Sectors -> Sector]
<1> USE Numbers
<1> DEFINE y == fptr % SS
           k == Part
           p == Slice(0, Part)
           q == Loaded
<1>1. k \in Nat /\ 0 + k <= call.left /\ y \in 0 .. SS - 1 /\ k \in 1 .. SS - y
  BY BufferedTurn
<1>2. p \in [1 .. k -> Byte]
  <2>1. Calls /\ k \in Nat /\ 0 \in Nat /\ 0 + k <= call.left /\ pc \in {"write", "put"}
    BY <1>1 DEF FInv
  <2> HIDE DEF k
  <2>2. Slice(0, k) \in [1 .. k -> Byte]
    BY <2>1, SliceIs
  <2> QED BY <2>2 DEF k
<1>3. /\ data' = IF OnSector THEN Flushed ELSE data
      /\ buf' = [i \in 1 .. SS |-> IF i \in y + 1 .. y + k THEN p[i - y] ELSE q[i]]
  BY DEF WriteBuffered
<1>4. data' \in [Sectors -> Sector] /\ q \in Sector
  <2>1. data' \in [Sectors -> Sector]
    BY <1>3, FlushedIs DEF FInv, Types
  <2>2. Here \in Sectors
    BY HereIs
  <2> QED BY <2>1, <2>2 DEF Loaded, FInv, Types
<1> HIDE DEF y, k, p, q
<1>5. ASSUME NEW i \in 1 .. SS
      PROVE  (IF i \in y + 1 .. y + k THEN p[i - y] ELSE q[i]) \in Byte
  <2>1. CASE i \in y + 1 .. y + k
    <3>1. i - y \in 1 .. k
      BY <2>1, <1>1
    <3> QED BY <2>1, <3>1, <1>2
  <2>2. CASE i \notin y + 1 .. y + k
    BY <2>2, <1>4 DEF Sector
  <2> QED BY <2>1, <2>2
<1> QED BY <1>3, <1>4, <1>5 DEF Sector

\* f_write copies a part to the buffer.
LEMMA StepWriteBuffered ==
    ASSUME FInv, UNCHANGED vol, WriteBuffered
    PROVE  FInv'
<1> USE Numbers, SameVolume
<1> DEFINE k == Part
<1>1. Turn /\ pc \in {"write", "put"} /\ Usable
  BY TurnWhen DEF WriteBuffered, Turn
<1>2. /\ k \in Nat /\ k # 0 /\ k <= call.left /\ AtByte(fptr + k - 1)
      /\ (fptr + k) % SS # 0 => Spot(CSize, fat, sclust, fptr + k) = Here
  BY <1>1, BufferedTurn
<1>3. /\ Advance(k, "write") /\ objsize' = Grown /\ dirty' = TRUE /\ sect' = Here
      /\ UNCHANGED <<fat, ent, entDirty, sclust, clust, wr, modified>>
  BY DEF WriteBuffered, dir
<1>4. buf' \in Sector /\ data' \in [Sectors -> Sector]
  BY <1>1, BufferedBytes
<1>0. Here \in Sectors /\ \E i \in 0 .. N : InClusterOf(CSize, Nth(fat, sclust)[i], Here)
  <2>1. /\ AtByte(fptr) /\ csect \in 0 .. CSize - 1
        /\ Here = First(CSize, clust) + csect /\ Here \in Sectors
    BY <1>1, HereIs
  <2> DEFINE i == fptr \div bcs
  <2>2. i \in 0 .. N - 3 /\ clust \in Clusters /\ Nth(fat, sclust)[i] = clust
    BY <2>1 DEF AtByte, HoldsByte
  <2> HIDE DEF i
  <2>3. i \in 0 .. N
    BY <2>2
  <2>4. InClusterOf(CSize, Nth(fat, sclust)[i], Here)
    BY <2>1, <2>2 DEF InClusterOf
  <2> QED BY <2>1, <2>3, <2>4
<1> HIDE DEF k
<1>5. /\ call'.left = call.left - k /\ call'.done = call.done + k
      /\ call'.left \in Nat /\ call'.done \in Nat
      /\ call'.from = call.from /\ call'.buf = call.buf
      /\ call' = [buf |-> call'.buf, done |-> call'.done,
                  left |-> call'.left, from |-> call'.from]
      /\ fptr' = fptr + k /\ pc' = "write" /\ err' = err /\ synced' = synced
  BY <1>2, <1>3, Advanced DEF FInv
<1>6. /\ fptr + call.left <= OffMod - 1 /\ fptr' + call'.left <= OffMod - 1
      /\ fptr' \in Nat /\ fptr' > 0 /\ fptr' <= OffMod - 1 /\ fptr' \in 0 .. OffMod - 1
  <2> DEFINE a == fptr
             l == call.left
             e == call'.left
             M == OffMod
  <2>1. a + l <= M - 1
    BY <1>1 DEF FInv, Pointed
  <2>2. /\ a \in Nat /\ l \in Nat /\ M \in Nat /\ e = l - k /\ fptr' = a + k
        /\ k \in Nat /\ k # 0 /\ k <= l
    BY <1>2, <1>5
  <2> HIDE DEF a, l, e, M
  <2>3. a + l <= M - 1 /\ fptr' + e <= M - 1 /\ fptr' \in Nat /\ fptr' > 0 /\ fptr' <= M - 1
    BY <2>1, <2>2
  <2> QED BY <2>2, <2>3 DEF a, l, e, M
<1>7. /\ Covers(bcs, fat, objsize', sclust)
      /\ objsize' \in 0 .. OffMod - 1 /\ fptr' <= objsize' /\ objsize <= objsize'
  <2>1. Covers(bcs, fat, objsize, sclust)
    BY <1>1 DEF FInv, Covered
  <2>2. HoldsByte(bcs, fat, sclust, clust, (fptr + k) - 1)
    BY <1>2 DEF AtByte
  <2>3. fptr' = fptr + k /\ fptr + k \in Nat /\ fptr + k > 0 /\ fptr + k <= OffMod - 1
    BY <1>5, <1>6
  <2>4. objsize' = Grown
    BY <1>3
  <2> QED BY <1>1, <2>1, <2>2, <2>3, <2>4, GrownCovered
<1>8. Types'
  BY <1>0, <1>3, <1>4, <1>5, <1>6, <1>7 DEF FInv, Types, Busy
<1>9. Flags'
  BY <1>3, FlagsStay DEF FInv
<1>10. Calls'
  <2>1. call.done + call.left <= Len(call.buf)
    BY <1>1 DEF FInv, Calls
  <2>2. call'.done + call'.left <= Len(call'.buf)
    <3>1. call'.done + call'.left = call.done + call.left
      BY <1>2, <1>5
    <3> QED BY <2>1, <3>1, <1>5
  <2> QED BY <2>2, <1>1, <1>3, <1>5 DEF FInv, Calls, Busy
<1>11. Covered'
  BY <1>3, <1>5, <1>7 DEF Covered
<1>12. Pointed'
  BY <1>1, <1>2, <1>3, <1>5, <1>6, <1>7 DEF Pointed, AtByte
<1>13. EntryKnown'
  BY <1>1, <1>3, <1>5 DEF FInv, EntryKnown, Usable
<1>14. BufferKnown'
  BY <1>0, <1>2, <1>3, <1>5 DEF BufferKnown
<1> QED BY <1>8, <1>9, <1>10, <1>11, <1>12, <1>13, <1>14 DEF FInv
-----------------------------------------------------------------------------
(* f_lseek *)

\* Allocating clusters leaves Covered and the dirty buffer's sector as they are.
LEMMA CoveredGrows ==
    ASSUME FInv, Usable, UNCHANGED vol, fat' \in Fats, Keeps(fat, fat'),
           sclust # 0 => sclust' = sclust, objsize' = objsize
    PROVE  Covers(bcs', fat', objsize', sclust')
<1> USE Numbers, SameVolume
<1>1. Covers(bcs, fat, objsize, sclust)
  BY DEF FInv, Covered
<1>2. CASE sclust # 0
  BY <1>1, <1>2, CoversGrows
<1>3. CASE sclust = 0
  <2>1. objsize = 0
    BY <1>1, <1>3, CoversNothing
  <2> QED BY <2>1, CoversNothing
<1> QED BY <1>2, <1>3

\* A step that only adds links keeps a dirty buffer in the file's chain.
LEMMA DirtyGrows ==
    ASSUME FInv, Usable, UNCHANGED <<vol, sect, dirty>>, Keeps(fat, fat'),
           sclust # 0 => sclust' = sclust
    PROVE  dirty' = TRUE => \E i \in 0 .. N : InClusterOf(CSize', Nth(fat', sclust')[i], sect')
<1>1. dirty = TRUE => \E i \in 0 .. N : InClusterOf(CSize, Nth(fat, sclust)[i], sect)
  BY DEF FInv, BufferKnown
<1> SUFFICES ASSUME dirty' = TRUE
             PROVE  \E i \in 0 .. N : InClusterOf(CSize', Nth(fat', sclust')[i], sect')
  OBVIOUS
<1>2. \E i \in 0 .. N : InClusterOf(CSize, Nth(fat, sclust)[i], sect)
  BY <1>1
<1>3. \E i \in 0 .. N : InClusterOf(CSize, Nth(fat', sclust')[i], sect)
  BY <1>2, BufferGrows
<1> QED BY <1>3, SameVolume

\* The start of the cluster that byte p is in, which byte o is not before.
StartIs(b, p, o) ==
    /\ (p \div b) * b \in Nat /\ (p \div b) * b <= p /\ (p \div b) * b <= o
    /\ ((p \div b) * b) % b = 0 /\ ((p \div b) * b) \div b = p \div b

\* f_lseek's division finds the start of the current cluster.
LEMMA ClusterStart ==
    ASSUME NEW b \in Nat \ {0}, NEW p \in Nat, NEW o \in Nat, o \div b >= p \div b
    PROVE  StartIs(b, p, o)
<1> DEFINE q == p \div b
           r == p % b
           x == o \div b
           y == o % b
<1>1. q \in Nat /\ r \in 0 .. b - 1 /\ p = q * b + r
  BY Divides
<1>2. x \in Nat /\ y \in 0 .. b - 1 /\ o = x * b + y
  BY Divides
<1>3. q <= x
  BY <1>1, <1>2
<1> HIDE DEF q, r, x, y
<1>4. q * b <= x * b /\ q * b \in Nat /\ x * b \in Nat
  BY <1>1, <1>2, <1>3, TimesMono
<1>5. q * b = q * b + 0 /\ 0 \in 0 .. b - 1
  BY <1>4
<1>6. (q * b) \div b = q /\ (q * b) % b = 0
  <2> DEFINE a == q * b
  <2>1. a \in Nat /\ a = q * b + 0
    BY <1>4
  <2> HIDE DEF a
  <2>2. a \div b = q /\ a % b = 0
    BY <2>1, <1>1, <1>5, DivMod
  <2> QED BY <2>2 DEF a
<1>7. q * b <= p /\ q * b <= o
  BY <1>1, <1>2, <1>4
<1> QED BY <1>4, <1>6, <1>7 DEF StartIs, q

\* A seek starts at p, with k bytes to go.
LEMMA SeekStarts ==
    ASSUME FInv, UNCHANGED vol, pc = "open", err = "OK",
           pc' = "seek", err' = "OK", synced' = FALSE,
           UNCHANGED <<data, ent, entDirty, objsize, sect, buf, wr, modified, dirty>>,
           NEW p \in Nat, NEW k \in Nat, NEW w \in Nat, fptr' = p,
           call' = [buf |-> <<>>, done |-> 0, left |-> k, from |-> w],
           p <= objsize, p + k <= OffMod - 1, p % bcs = 0,
           k > 0 => HoldsByte(bcs, fat', sclust', clust', p), k = 0 => p = 0,
           wr = FALSE => p + k <= objsize,
           fat' \in Fats, Ranked(fat'), Keeps(fat, fat'),
           sclust # 0 => sclust' = sclust, p + k <= objsize => sclust' = sclust,
           sclust' \in {0} \cup Clusters, clust' \in {0} \cup Clusters
    PROVE  FInv'
<1> USE Numbers, SameVolume
<1>1. Usable /\ Usable'
  BY DEF Usable
<1>2. Types'
  <2>1. p \in 0 .. OffMod - 1
    OBVIOUS
  <2> QED BY <2>1 DEF FInv, Types, Busy
<1>3. Flags'
  BY FlagsStay DEF FInv
<1>4. Calls'
  BY DEF Calls, Busy
<1>5. Covered'
  <2>1. Covers(bcs', fat', objsize', sclust')
    BY <1>1, CoveredGrows
  <2> QED BY <2>1 DEF Covered
<1>6. Pointed'
  BY DEF Pointed, AtByte
<1>7. EntryKnown'
  <2>1. objsize > 0 => sclust # 0
    <3>1. Covers(bcs, fat, objsize, sclust)
      BY <1>1 DEF FInv, Covered
    <3>2. CASE sclust = 0
      <4>1. Covers(bcs, fat, objsize, 0)
        BY <3>1, <3>2
      <4>2. objsize = 0
        BY <4>1, CoversNothing
      <4> QED BY <4>2
    <3> QED BY <3>2
  <2> QED BY <1>1, <2>1 DEF FInv, EntryKnown
<1>8. BufferKnown'
  <2>1. dirty' = TRUE => \E i \in 0 .. N : InClusterOf(CSize', Nth(fat', sclust')[i], sect')
    BY <1>1, DirtyGrows
  <2>2. sect' # 0 /\ dirty' = FALSE => buf' = data'[sect']
    BY <1>1 DEF FInv, BufferKnown
  <2> QED BY <2>1, <2>2 DEF BufferKnown
<1> QED BY <1>2, <1>3, <1>4, <1>5, <1>6, <1>7, <1>8 DEF FInv

\* A seek starts at the beginning, at the pointer's cluster or at the first one.
LEMMA StepFSeek ==
    ASSUME FInv, UNCHANGED vol, NEW to \in Offsets, FSeek(to)
    PROVE  FInv'
<1> USE Numbers, SameVolume
<1> DEFINE lim == IF to >= OffMod THEN OffMod - 1 ELSE to
           ofs == IF lim > objsize /\ ~wr THEN objsize ELSE lim
           base == ((fptr - 1) \div bcs) * bcs
<1>1. pc = "open" /\ err = "OK" /\ Usable
  BY DEF FSeek, Usable
<1>2. /\ ofs \in Nat /\ ofs <= OffMod - 1
      /\ wr = FALSE => ofs <= objsize
  <2>1. to \in Nat
    BY Geometry
  <2> QED BY <2>1 DEF FInv, Flags
<1>3. /\ pc' = "seek" /\ err' = "OK" /\ synced' = FALSE
      /\ UNCHANGED <<data, ent, entDirty, objsize, sect, buf, wr, modified, dirty>>
  BY <1>1 DEF FSeek, dir, flag
<1>4. \/ /\ ofs = 0 /\ fptr' = 0
         /\ call' = [buf |-> <<>>, done |-> 0, left |-> 0, from |-> fptr]
         /\ UNCHANGED <<fat, sclust, clust>>
      \/ /\ ofs > 0 /\ StartsHere(fptr, ofs) /\ fptr' = base
         /\ call' = [buf |-> <<>>, done |-> 0, left |-> ofs - base, from |-> fptr]
         /\ UNCHANGED <<fat, sclust, clust>>
      \/ /\ ofs > 0 /\ fptr' = 0
         /\ \E c \in 0 .. N - 1 :
              /\ IF sclust # 0 THEN c = sclust /\ UNCHANGED fat ELSE CreateChain(0, c)
              /\ sclust' = c /\ clust' = c
              /\ call' = [buf |-> <<>>, done |-> 0, left |-> IF c = 0 THEN 0 ELSE ofs,
                          from |-> fptr]
  BY DEF FSeek, NoCall
<1> HIDE DEF lim, ofs, base
<1>5. fat \in Fats /\ Ranked(fat) /\ Keeps(fat, fat) /\ sclust \in {0} \cup Clusters
      /\ clust \in {0} \cup Clusters /\ fptr <= objsize
  BY <1>1 DEF FInv, Types, Pointed, Keeps
<1>6. 0 % bcs = 0 /\ 0 \div bcs = 0
  BY ZeroPlace
<1>10. objsize \in Nat /\ OffMod \in Nat /\ OffMod # 0 /\ fptr \in Nat /\ bcs \in Nat \ {0}
  OBVIOUS
<1>7. CASE /\ ofs = 0 /\ fptr' = 0
           /\ call' = [buf |-> <<>>, done |-> 0, left |-> 0, from |-> fptr]
           /\ UNCHANGED <<fat, sclust, clust>>
  <2>1. fat' \in Fats /\ Ranked(fat') /\ Keeps(fat, fat') /\ sclust' = sclust
        /\ sclust' \in {0} \cup Clusters /\ clust' \in {0} \cup Clusters
    BY <1>5, <1>7
  <2> PICK k \in Nat : k = 0
    OBVIOUS
  <2>2. fptr' = k /\ call' = [buf |-> <<>>, done |-> 0, left |-> k, from |-> fptr]
    BY <1>7
  <2>3. k <= objsize /\ k + k <= OffMod - 1 /\ k + k <= objsize /\ k % bcs = 0
    BY <1>6, <1>10
  <2>4. (k > 0 => HoldsByte(bcs, fat', sclust', clust', k)) /\ (k = 0 => k = 0)
    OBVIOUS
  <2> QED BY <1>1, <1>3, <1>10, <2>1, <2>2, <2>3, <2>4, SeekStarts
<1>8. CASE /\ ofs > 0 /\ StartsHere(fptr, ofs) /\ fptr' = base
           /\ call' = [buf |-> <<>>, done |-> 0, left |-> ofs - base, from |-> fptr]
           /\ UNCHANGED <<fat, sclust, clust>>
  <2> DEFINE a == fptr - 1
             o == ofs - 1
             b == bcs
             k == ofs - base
  <2>1. fptr > 0 /\ o \div b >= a \div b /\ a \in Nat /\ o \in Nat /\ b \in Nat \ {0}
        /\ base = (a \div b) * b /\ a < fptr
    BY <1>2, <1>8, <1>10 DEF StartsHere, base
  <2>2. HoldsByte(b, fat, sclust, clust, a)
    BY <1>1, <2>1 DEF FInv, Pointed, AtByte
  <2> HIDE DEF a, b
  <2>3. base \in Nat /\ base <= a /\ base <= o /\ base % b = 0 /\ base \div b = a \div b
    BY <2>1, ClusterStart DEF StartIs
  <2>4. k \in Nat /\ k > 0 /\ base + k = ofs /\ base <= objsize
    BY <1>2, <1>5, <2>1, <2>3
  <2>5. HoldsByte(b, fat, sclust, clust, base)
    BY <2>2, <2>3 DEF HoldsByte
  <2>6. fat' \in Fats /\ Ranked(fat') /\ Keeps(fat, fat') /\ sclust' = sclust
        /\ sclust' \in {0} \cup Clusters /\ clust' \in {0} \cup Clusters
        /\ HoldsByte(bcs, fat', sclust', clust', base) /\ base % bcs = 0
    BY <1>5, <1>8, <2>3, <2>5 DEF b
  <2>7. call' = [buf |-> <<>>, done |-> 0, left |-> k, from |-> fptr] /\ fptr' = base
    BY <1>8
  <2>8. base + k <= OffMod - 1 /\ (wr = FALSE => base + k <= objsize) /\ k # 0
    BY <1>2, <2>4
  <2> HIDE DEF k, o
  <2> QED BY <1>1, <1>3, <2>3, <2>4, <2>6, <2>7, <2>8, SeekStarts
<1>9. CASE /\ ofs > 0 /\ fptr' = 0
           /\ \E c \in 0 .. N - 1 :
                /\ IF sclust # 0 THEN c = sclust /\ UNCHANGED fat ELSE CreateChain(0, c)
                /\ sclust' = c /\ clust' = c
                /\ call' = [buf |-> <<>>, done |-> 0, left |-> IF c = 0 THEN 0 ELSE ofs,
                            from |-> fptr]
  <2>1. PICK c \in 0 .. N - 1 :
              /\ IF sclust # 0 THEN c = sclust /\ UNCHANGED fat ELSE CreateChain(0, c)
              /\ sclust' = c /\ clust' = c
              /\ call' = [buf |-> <<>>, done |-> 0, left |-> IF c = 0 THEN 0 ELSE ofs,
                          from |-> fptr]
    BY <1>9
  <2> DEFINE k == IF c = 0 THEN 0 ELSE ofs
  <2>2. /\ fat' \in Fats /\ Ranked(fat') /\ Keeps(fat, fat')
        /\ c \in {0} \cup Clusters
    <3>1. CASE sclust # 0
      BY <1>5, <2>1, <3>1
    <3>2. CASE sclust = 0
      <4>1. CreateChain(0, c)
        BY <2>1, <3>2
      <4>2. c \in {0, 1} \cup Clusters /\ c # 1
        BY <1>5, <4>1, CreateGives
      <4> QED BY <1>5, <4>1, <4>2, CreateKeeps
    <3> QED BY <3>1, <3>2
  <2>3. k \in Nat /\ (k = 0 <=> c = 0) /\ 0 + k <= OffMod - 1 /\ (wr = FALSE => 0 + k <= objsize)
        /\ 0 <= objsize
    BY <1>2, <1>9, <1>10, Constants
  <2>4. k > 0 => HoldsByte(bcs, fat', sclust', clust', 0)
    <3>1. 0 \in 0 .. N - 3
      OBVIOUS
    <3>2. Nth(fat', c)[0] = c
      BY NthSteps
    <3> QED BY <1>6, <2>1, <2>2, <2>3, <3>1, <3>2, Constants DEF HoldsByte
  <2>5. sclust # 0 => sclust' = sclust
    BY <2>1
  <2>6. 0 + k <= objsize => sclust' = sclust
    <3>1. CASE sclust = 0
      <4>1. Covers(bcs, fat, objsize, sclust)
        BY <1>1 DEF FInv, Covered
      <4>2. objsize = 0
        BY <3>1, <4>1, CoversNothing
      <4> QED BY <2>1, <2>3, <3>1, <4>2
    <3> QED BY <2>5, <3>1
  <2>7. call' = [buf |-> <<>>, done |-> 0, left |-> k, from |-> fptr] /\ fptr' = 0
        /\ sclust' \in {0} \cup Clusters /\ clust' \in {0} \cup Clusters
    BY <1>9, <2>1, <2>2
  <2> HIDE DEF k
  <2> QED BY <1>1, <1>3, <1>6, <2>2, <2>3, <2>4, <2>5, <2>6, <2>7, SeekStarts
<1> QED BY <1>4, <1>7, <1>8, <1>9

\* One cluster further from the start of a cluster.
NextStart(b, a) ==
    /\ a + b \in Nat /\ (a + b) % b = 0 /\ (a + b) \div b = (a \div b) + 1
    /\ (a + b - 1) \div b = a \div b

\* The next cluster starts one cluster further, and its last byte is in it.
LEMMA NextStarts ==
    ASSUME NEW b \in Nat \ {0}, NEW a \in Nat, a % b = 0
    PROVE  NextStart(b, a)
<1> DEFINE q == a \div b
           x == a + b
           y == a + b - 1
           t == q + 1
           z == b - 1
<1>1. q \in Nat /\ a = q * b + (a % b)
  BY Divides
<1> HIDE DEF q
<1>2. q * b \in Nat /\ (q + 1) * b = q * b + b
  BY <1>1
<1>3. a = q * b
  BY <1>1, <1>2
<1>4. x = t * b + 0 /\ y = q * b + z /\ x \in Nat /\ y \in Nat /\ t \in Nat
      /\ 0 \in 0 .. b - 1 /\ z \in 0 .. b - 1
  BY <1>1, <1>2, <1>3
<1>5. t = q + 1
  OBVIOUS
<1> HIDE DEF x, y, t, z
<1>6. x \div b = t /\ x % b = 0
  BY <1>1, <1>4, DivMod
<1>7. y \div b = q
  BY <1>1, <1>4, DivMod
<1> QED BY <1>4, <1>5, <1>6, <1>7 DEF x, y, q, NextStart

\* The next cluster, followed or allocated, is that of the next bytes.
LEMMA SeekCluster ==
    ASSUME FInv, Usable, UNCHANGED vol, pc = "seek", call.left > bcs, NEW c,
           IF wr = TRUE THEN CreateChain(clust, c) ELSE c = GetFat(clust) /\ UNCHANGED fat
    PROVE  /\ fat' \in Fats /\ Ranked(fat') /\ Keeps(fat, fat')
           /\ fptr + bcs \in Nat /\ (fptr + bcs) % bcs = 0
           /\ HoldsByte(bcs, fat', sclust, clust, (fptr + bcs) - 1)
           /\ c \in Clusters => HoldsByte(bcs, fat', sclust, c, fptr + bcs)
<1> USE Numbers
<1>1. fptr % bcs = 0 /\ HoldsByte(bcs, fat, sclust, clust, fptr)
  <2>1. call.left > 0
    OBVIOUS
  <2> QED BY <2>1 DEF FInv, Pointed, AtByte
<1>2. fat' \in Fats /\ Ranked(fat') /\ Keeps(fat, fat')
  <2>1. CASE wr = TRUE
    <3>1. clust \in {0} \cup Clusters /\ CreateChain(clust, c)
      BY <2>1 DEF FInv, Types
    <3> QED BY <3>1, CreateKeeps
  <2>2. CASE wr # TRUE
    BY <2>2 DEF Keeps
  <2> QED BY <2>1, <2>2
<1>3. HoldsByte(bcs, fat', sclust, clust, fptr)
  BY <1>1, <1>2, HoldsGrows
<1> DEFINE a == fptr
           b == bcs
           q == a \div b
<1>4. a \in Nat /\ b \in Nat \ {0} /\ a % b = 0
  BY <1>1
<1>5. q \in 0 .. N - 3 /\ clust \in Clusters /\ Nth(fat', sclust)[q] = clust
  BY <1>3 DEF HoldsByte
<1> HIDE DEF a, b
<1>6. NextStart(b, a)
  BY <1>4, NextStarts
<1>7. a + b \in Nat /\ (a + b) % b = 0 /\ (a + b) \div b = q + 1 /\ ((a + b) - 1) \div b = q
  <2>1. (a + b) - 1 = a + b - 1
    BY <1>4
  <2> QED BY <1>6, <2>1 DEF NextStart
<1> HIDE DEF q
<1>8. HoldsByte(b, fat', sclust, clust, (a + b) - 1)
  BY <1>5, <1>7 DEF HoldsByte
<1>9. ASSUME c \in Clusters  PROVE HoldsByte(b, fat', sclust, c, a + b)
  <2>1. GetF(fat', clust) = c
    <3>1. CASE wr = TRUE
      <4>1. clust # 0 /\ clust \in {0} \cup Clusters /\ CreateChain(clust, c)
        BY <1>5, <3>1, Constants
      <4> QED BY <4>1, <1>9, CreateGives
    <3>2. CASE wr # TRUE
      BY <3>2, ModelFat
    <3> QED BY <3>1, <3>2
  <2>2. q \in 0 .. N - 1 /\ q + 1 \in 0 .. N
    BY <1>5, Constants
  <2>3. Nth(fat', sclust)[q + 1] = c
    BY <1>5, <2>1, <2>2, NthSteps
  <2>4. q + 1 <= N - 3
    BY <1>2, <1>9, <2>2, <2>3, NthShort
  <2>5. q + 1 \in 0 .. N - 3
    BY <2>2, <2>4, Constants
  <2> QED BY <1>7, <1>9, <2>3, <2>5 DEF HoldsByte
<1> QED BY <1>2, <1>7, <1>8, <1>9 DEF a, b

\* A seek goes one cluster further, or ends on a full disk or a broken chain.
LEMMA StepSeekFollow ==
    ASSUME FInv, UNCHANGED vol, SeekFollow
    PROVE  FInv'
<1> USE Numbers, SameVolume
<1>1. pc = "seek" /\ call.left > bcs /\ Usable /\ wr \in BOOLEAN
  BY DEF SeekFollow, FInv, Calls, Busy, Usable, Flags
<1>2. /\ fptr' = fptr + bcs
      /\ IF wr = TRUE /\ fptr' > objsize THEN objsize' = fptr' /\ modified' = TRUE
         ELSE UNCHANGED <<objsize, modified>>
      /\ UNCHANGED <<data, ent, entDirty, sclust, sect, buf, wr, dirty>>
  BY <1>1 DEF SeekFollow, dir, flag
<1>3. PICK c \in 0 .. N :
        /\ IF wr = TRUE THEN CreateChain(clust, c) ELSE c = GetFat(clust) /\ UNCHANGED fat
        /\ \/ /\ c \in Clusters /\ clust' = c
              /\ call' = [call EXCEPT !.left = @ - bcs]
              /\ UNCHANGED <<err, pc, synced>>
           \/ /\ c = 0 /\ wr = TRUE
              /\ call' = [call EXCEPT !.left = 0]
              /\ UNCHANGED <<clust, err, pc, synced>>
           \/ Abort("INT_ERR") /\ UNCHANGED clust
  BY <1>1 DEF SeekFollow
<1>4. /\ fat' \in Fats /\ Ranked(fat') /\ Keeps(fat, fat')
      /\ fptr + bcs \in Nat /\ (fptr + bcs) % bcs = 0
      /\ HoldsByte(bcs, fat', sclust, clust, (fptr + bcs) - 1)
      /\ c \in Clusters => HoldsByte(bcs, fat', sclust, c, fptr + bcs)
  BY <1>1, <1>3, SeekCluster
<1>5. /\ fptr + call.left <= OffMod - 1 /\ (wr = FALSE => fptr + call.left <= objsize)
  BY <1>1 DEF FInv, Pointed
<1> DEFINE l == call.left
<1>6. /\ fptr' \in Nat /\ fptr' > 0 /\ fptr' <= OffMod - 1 /\ fptr' \in 0 .. OffMod - 1
      /\ (wr = FALSE => fptr' <= objsize) /\ l - bcs \in Nat /\ l - bcs > 0
      /\ fptr' + (l - bcs) = fptr + l
  BY <1>1, <1>2, <1>5
<1>7. objsize' = Grown
  BY <1>1, <1>2, <1>6 DEF Grown
<1>8. /\ Covers(bcs, fat', objsize', sclust)
      /\ objsize' \in 0 .. OffMod - 1 /\ fptr' <= objsize' /\ objsize <= objsize'
  <2>1. Covers(bcs, fat, objsize, sclust)
    BY <1>1 DEF FInv, Covered
  <2>2. Covers(bcs, fat', objsize, sclust)
    BY <1>4, <2>1, CoversGrows
  <2>3. HoldsByte(bcs, fat', sclust, clust, fptr' - 1) /\ fptr' = fptr'
    BY <1>2, <1>4
  <2> QED BY <1>1, <1>6, <1>7, <2>2, <2>3, GrownCovered
<1>9. modified \in BOOLEAN /\ modified' \in BOOLEAN /\ (modified = TRUE => modified' = TRUE)
      /\ (modified' = FALSE => modified = FALSE /\ objsize' = objsize)
  BY <1>2 DEF FInv, Flags
<1>10. Flags'
  BY <1>2, <1>9 DEF FInv, Flags
<1>11. (Covered' /\ BufferKnown') \/ ~Usable'
  <2> SUFFICES ASSUME Usable'  PROVE Covered' /\ BufferKnown'
    OBVIOUS
  <2>1. pc' = "seek" \/ pc' = "open"
    BY <1>1, <1>3 DEF Abort
  <2>2. pc' = "seek"
    BY <1>1, <1>3, <2>1 DEF Abort, Usable
  <2>3. Covered'
    BY <1>2, <1>8, <2>2 DEF Covered
  <2>4. dirty' = TRUE => \E i \in 0 .. N : InClusterOf(CSize', Nth(fat', sclust')[i], sect')
    BY <1>1, <1>2, <1>4, DirtyGrows
  <2>5. sect' # 0 /\ dirty' = FALSE => buf' = data'[sect']
    BY <1>1, <1>2 DEF FInv, BufferKnown
  <2> QED BY <2>2, <2>3, <2>4, <2>5 DEF BufferKnown
<1>12. /\ call = [buf |-> call.buf, done |-> call.done, left |-> l, from |-> call.from]
       /\ call.buf \in Seq(Byte) /\ call.from \in Nat
  BY DEF FInv, Calls
<1>13. ASSUME NEW k \in Nat, call' = [call EXCEPT !.left = k], UNCHANGED <<err, pc, synced>>,
              clust' \in Clusters,
              k > 0 => HoldsByte(bcs, fat', sclust, clust', fptr'),
              k = 0 => HoldsByte(bcs, fat', sclust, clust', fptr' - 1),
              k <= l - bcs, k = l - bcs \/ (k = 0 /\ wr = TRUE)
       PROVE  FInv'
  <2>1. /\ call' = [buf |-> call.buf, done |-> call.done, left |-> k, from |-> call.from]
        /\ Usable' /\ pc' = "seek"
    BY <1>1, <1>12, <1>13 DEF Usable
  <2>2. Types'
    BY <1>2, <1>4, <1>6, <1>8, <1>13 DEF FInv, Types
  <2>3. Calls'
    BY <1>1, <1>12, <1>13, <2>1 DEF FInv, Calls, Busy
  <2>4. fptr' + k <= OffMod - 1 /\ (wr = FALSE => fptr' + k <= objsize')
        /\ fptr' % bcs = 0
    BY <1>2, <1>4, <1>5, <1>6, <1>8, <1>13
  <2>5. Pointed'
    BY <1>2, <1>8, <1>13, <2>1, <2>4 DEF Pointed, AtByte
  <2>6. EntryKnown'
    <3>1. ~DiskErrors' /\ entDirty' = TRUE => modified' = TRUE
      BY <1>2, <1>9 DEF FInv, EntryKnown
    <3>2. modified' = FALSE => dirty' = FALSE
      BY <1>1, <1>2, <1>9 DEF FInv, EntryKnown
    <3>3. objsize' > 0
      BY <1>6, <1>8
    <3>4. modified' = FALSE => ent'.size = objsize' /\ ent'.first = sclust'
      <4>1. modified' = FALSE => modified = FALSE /\ objsize > 0 /\ objsize' = objsize
        BY <1>9, <3>3
      <4> QED BY <1>1, <1>2, <4>1 DEF FInv, EntryKnown
    <3> QED BY <2>1, <3>1, <3>2, <3>4 DEF EntryKnown
  <2> QED BY <1>10, <1>11, <2>1, <2>2, <2>3, <2>5, <2>6 DEF FInv
<1>14. CASE c \in Clusters /\ clust' = c /\ call' = [call EXCEPT !.left = @ - bcs]
            /\ UNCHANGED <<err, pc, synced>>
  <2> DEFINE m == l - bcs
  <2>1. call' = [call EXCEPT !.left = m] /\ m \in Nat /\ m > 0
    BY <1>6, <1>14
  <2>2. HoldsByte(bcs, fat', sclust, clust', fptr')
    BY <1>2, <1>4, <1>14
  <2>3. m <= l - bcs /\ m = l - bcs
    BY <2>1
  <2>4. clust' \in Clusters /\ err' = err /\ pc' = pc /\ synced' = synced
    BY <1>14
  <2> HIDE DEF m, l
  <2>5. (m > 0 => HoldsByte(bcs, fat', sclust, clust', fptr'))
        /\ (m = 0 => HoldsByte(bcs, fat', sclust, clust', fptr' - 1))
        /\ (m = l - bcs \/ (m = 0 /\ wr = TRUE))
    BY <2>1, <2>2, <2>3
  <2> QED BY <1>13, <2>1, <2>3, <2>4, <2>5
<1>15. CASE c = 0 /\ wr = TRUE /\ call' = [call EXCEPT !.left = 0]
            /\ UNCHANGED <<clust, err, pc, synced>>
  <2>1. HoldsByte(bcs, fat', sclust, clust', fptr' - 1)
    BY <1>2, <1>4, <1>15
  <2>2. clust' \in Clusters /\ 0 <= l - bcs /\ 0 \in Nat
    BY <1>6, <2>1 DEF HoldsByte
  <2> HIDE DEF l
  <2> QED BY <1>13, <1>15, <2>1, <2>2
<1>16. CASE Abort("INT_ERR") /\ UNCHANGED clust
  <2>1. /\ err' = "INT_ERR" /\ pc' = "open" /\ call' = NoCall /\ UNCHANGED <<sclust, clust>>
    BY <1>2, <1>16 DEF Abort
  <2>2. Types'
    BY <1>2, <1>4, <1>6, <1>8, <2>1 DEF FInv, Types
  <2>3. Calls'
    BY <2>1 DEF Calls, Busy, NoCall
  <2> QED BY <1>2, <1>9, <1>10, <2>1, <2>2, <2>3, FailedStep DEF FInv
<1> QED BY <1>3, <1>14, <1>15, <1>16

\* What the offset o in the cluster that starts at a tells of byte a + o.
OffsetIs(C, s, a, o) ==
    /\ o > 0 => (a + o - 1) \div (C * s) = a \div (C * s)
    /\ (a + o) % s # 0 => /\ o > 0 /\ o \div s \in 0 .. C - 1
                          /\ (a + o) \div (C * s) = a \div (C * s)
                          /\ ((a + o) \div s) % C = o \div s
    /\ (a + o) % s = o % s

\* The sector and the byte f_lseek computes from what is left are those of the place.
LEMMA OffsetPlace ==
    ASSUME NEW C \in Nat \ {0}, NEW s \in Nat \ {0}, NEW a \in Nat, a % (C * s) = 0,
           NEW o \in 0 .. C * s
    PROVE  OffsetIs(C, s, a, o)
<1> DEFINE b == C * s
           q == a \div b
           y == a + o - 1
           z == o - 1
<1>1. b \in Nat \ {0}
  <2>1. 0 \in 0 .. C - 1 /\ 0 \in 0 .. s - 1
    OBVIOUS
  <2> QED BY <2>1, InGroup
<1>2. q \in Nat /\ a = q * b + (a % b) /\ a % b = 0
  <2> HIDE DEF b
  <2>1. q \in Nat /\ a = q * b + (a % b)
    BY <1>1, Divides
  <2> QED BY <2>1 DEF b
<1>3. /\ o % s # 0 => o < C * s
      /\ o < C * s => /\ o \div s \in 0 .. C - 1
                      /\ (q * (C * s) + o) \div (C * s) = q
                      /\ ((q * (C * s) + o) \div s) % C = o \div s
      /\ (q * (C * s) + o) % s = o % s
  <2> HIDE DEF q, b
  <2>1. q \in Nat
    BY <1>2
  <2>2. PlaceAt(C, s, q, o)
    BY <2>1, Offset
  <2> QED BY <2>2 DEF PlaceAt
<1> HIDE DEF q
<1>4. q * b \in Nat /\ a = q * b
  <2> HIDE DEF b
  <2> QED BY <1>1, <1>2
<1>5. /\ o % s # 0 => o < b
      /\ o < b => /\ o \div s \in 0 .. C - 1
                  /\ (a + o) \div b = q
                  /\ ((a + o) \div s) % C = o \div s
      /\ (a + o) % s = o % s
  BY <1>3, <1>4
<1>6. o % s # 0 => o > 0
  BY ZeroPlace
<1>7. ASSUME o > 0  PROVE y \div b = q
  <2>1. z \in 0 .. b - 1 /\ y = q * b + z /\ y \in Nat
    <3> HIDE DEF b
    <3>1. o \in 0 .. b
      BY DEF b
    <3> QED BY <1>1, <1>4, <1>7, <3>1
  <2> HIDE DEF b, y, z
  <2> QED BY <1>1, <1>2, <2>1, DivMod
<1>8. a \div b = q
  BY DEF q
<1> QED BY <1>5, <1>6, <1>7, <1>8 DEF OffsetIs

\* Where a seek ends.
LEMMA SeekPlace ==
    ASSUME FInv, Usable, pc = "seek", call.left <= bcs
    PROVE  /\ fptr + call.left > 0 => AtByte(fptr + call.left - 1)
           /\ (fptr + call.left) % SS # 0 =>
                /\ Clust2Sect(clust) + call.left \div SS \in Sectors
                /\ Clust2Sect(clust) + call.left \div SS = Spot(CSize, fat, sclust, fptr + call.left)
<1> USE Numbers
<1> DEFINE a == fptr
           o == call.left
           C == CSize
<1>1. /\ C \in Nat \ {0} /\ SS \in Nat \ {0} /\ bcs = C * SS /\ a \in Nat /\ o \in Nat
      /\ o <= bcs
  OBVIOUS
<1>2. /\ a % bcs = 0 /\ (o > 0 => AtByte(a)) /\ (o = 0 /\ a > 0 => AtByte(a - 1))
  BY DEF FInv, Pointed
<1> HIDE DEF a, o, C
<1>3. OffsetIs(C, SS, a, o)
  <2>1. o \in 0 .. C * SS
    BY <1>1
  <2> QED BY <1>1, <1>2, <2>1, OffsetPlace
<1>4. ASSUME a + o > 0  PROVE AtByte(a + o - 1)
  <2>1. CASE o > 0
    BY <1>1, <1>2, <1>3, <2>1 DEF OffsetIs, AtByte, HoldsByte
  <2>2. CASE o = 0
    <3>1. a > 0 /\ a + o - 1 = a - 1
      BY <1>1, <1>4, <2>2
    <3> QED BY <1>2, <2>2, <3>1
  <2> QED BY <1>1, <2>1, <2>2
<1>5. ASSUME (a + o) % SS # 0
      PROVE  /\ Clust2Sect(clust) + o \div SS \in Sectors
             /\ Clust2Sect(clust) + o \div SS = Spot(C, fat, sclust, a + o)
  <2>1. /\ AtByte(a) /\ o \div SS \in 0 .. C - 1
        /\ (a + o) \div (C * SS) = a \div (C * SS)
        /\ ((a + o) \div SS) % C = o \div SS
    BY <1>2, <1>3, <1>5 DEF OffsetIs
  <2>2. Spot(C, fat, sclust, a + o) = First(C, clust) + o \div SS
    BY <1>1, <2>1 DEF Spot, AtByte, HoldsByte
  <2>3. Clust2Sect(clust) + o \div SS \in Sectors
    BY <2>1, InData DEF AtByte, HoldsByte, C
  <2> QED BY <2>2, <2>3, Spots DEF C
<1> QED BY <1>4, <1>5 DEF a, o, C

\* The seek's end: the pointer stays within the file, which may have grown to it.
LEMMA SeekGrown ==
    ASSUME FInv, Usable, UNCHANGED vol, pc = "seek", call.left <= bcs,
           fptr' = fptr + call.left, objsize' = Grown
    PROVE  /\ Covers(bcs, fat, objsize', sclust)
           /\ fptr' \in Nat /\ fptr' \in 0 .. OffMod - 1
           /\ objsize' \in 0 .. OffMod - 1 /\ fptr' <= objsize' /\ objsize <= objsize'
           /\ fptr' > 0 => AtByte(fptr' - 1)
           /\ ~(fptr' > objsize) => objsize' = objsize
<1> USE Numbers
<1>1. fptr + call.left <= OffMod - 1 /\ Covers(bcs, fat, objsize, sclust)
  BY DEF FInv, Pointed, Covered
<1>2. fptr' \in Nat /\ fptr' <= OffMod - 1
  BY <1>1
<1>3. fptr' > 0 => AtByte(fptr' - 1)
  BY SeekPlace
<1>4. CASE fptr' > 0
  <2>1. HoldsByte(bcs, fat, sclust, clust, fptr' - 1) /\ fptr' = fptr'
    BY <1>3, <1>4 DEF AtByte
  <2>2. /\ Covers(bcs, fat, objsize', sclust)
        /\ objsize' \in 0 .. OffMod - 1 /\ fptr' <= objsize' /\ objsize <= objsize'
    BY <1>1, <1>2, <1>4, <2>1, GrownCovered
  <2> QED BY <1>2, <1>3, <2>2 DEF Grown
<1>5. CASE ~(fptr' > 0)
  <2>1. objsize' = objsize /\ fptr' = 0
    BY <1>2, <1>5 DEF Grown
  <2> QED BY <1>1, <1>2, <1>3, <2>1
<1> QED BY <1>4, <1>5

\* The seek ends, and loads the pointer's sector if it is inside one.
LEMMA StepSeekEnds ==
    ASSUME FInv, UNCHANGED vol, SeekEnds
    PROVE  FInv'
<1> USE Numbers, SameVolume
<1> DEFINE n == Clust2Sect(clust) + call.left \div SS
<1>1. pc = "seek" /\ call.left <= bcs /\ Usable
  BY DEF SeekEnds, FInv, Calls, Busy, Usable
<1>2. /\ fptr' = fptr + call.left /\ objsize' = Grown
      /\ modified' = (modified \/ fptr' > objsize)
      /\ pc' = "open" /\ call' = NoCall /\ NoCall.left = 0
      /\ UNCHANGED <<fat, ent, entDirty, sclust, clust, wr, err>>
  BY DEF SeekEnds, dir, NoCall
<1>3. \/ /\ fptr' % SS # 0
         /\ data' = Flushed /\ buf' = data'[n] /\ sect' = n /\ dirty' = FALSE
      \/ /\ fptr' % SS = 0 \/ n = sect
         /\ UNCHANGED <<data, buf, sect, dirty>>
  BY DEF SeekEnds
<1>4. /\ Covers(bcs, fat, objsize', sclust)
      /\ fptr' \in Nat /\ fptr' \in 0 .. OffMod - 1
      /\ objsize' \in 0 .. OffMod - 1 /\ fptr' <= objsize' /\ objsize <= objsize'
      /\ fptr' > 0 => AtByte(fptr' - 1)
      /\ ~(fptr' > objsize) => objsize' = objsize
  BY <1>1, <1>2, SeekGrown
<1>5. fptr' % SS # 0 => n \in Sectors /\ n = Spot(CSize, fat, sclust, fptr')
  BY <1>1, <1>2, SeekPlace
<1>6. modified \in BOOLEAN /\ modified' \in BOOLEAN /\ (modified = TRUE => modified' = TRUE)
      /\ (modified' = FALSE => modified = FALSE /\ ~(fptr' > objsize))
  BY <1>2, <1>4 DEF FInv, Flags
<1> HIDE DEF n
<1>7. Types'
  <2>1. data' \in [Sectors -> Sector] /\ buf' \in Sector /\ sect' \in {0} \cup Sectors
    BY <1>3, <1>5, FlushedIs DEF FInv, Types
  <2> QED BY <2>1, <1>2, <1>4 DEF FInv, Types, Busy
<1>8. Flags'
  BY <1>2, <1>3, <1>6 DEF FInv, Flags
<1>9. Calls'
  BY <1>2 DEF Calls, Busy, NoCall
<1>10. Covered'
  BY <1>2, <1>4 DEF Covered
<1>11. Pointed'
  BY <1>2, <1>4 DEF Pointed, AtByte
<1>12. EntryKnown'
  <2>1. ~DiskErrors' /\ entDirty' = TRUE => modified' = TRUE
    BY <1>2, <1>6 DEF FInv, EntryKnown
  <2>2. modified' = FALSE => dirty' = FALSE
    BY <1>1, <1>3, <1>6 DEF FInv, EntryKnown
  <2>3. modified' = FALSE => ent'.size = objsize' /\ ent'.first = sclust'
    <3>1. modified' = FALSE => modified = FALSE /\ fptr + call.left <= objsize /\ objsize' = objsize
      BY <1>2, <1>4, <1>6
    <3> QED BY <1>1, <1>2, <3>1 DEF FInv, EntryKnown
  <2> QED BY <1>2, <2>1, <2>2, <2>3 DEF EntryKnown
<1>13. BufferKnown'
  <2>1. sect' # 0 /\ dirty' = FALSE => buf' = data'[sect']
    BY <1>1, <1>3 DEF FInv, BufferKnown
  <2>2. fptr' % SS # 0 => sect' = Spot(CSize, fat, sclust, fptr')
    BY <1>3, <1>5
  <2>3. dirty' = TRUE => \E i \in 0 .. N : InClusterOf(CSize, Nth(fat, sclust)[i], sect')
    BY <1>1, <1>3 DEF FInv, BufferKnown
  <2> QED BY <1>2, <2>1, <2>2, <2>3 DEF BufferKnown
<1> QED BY <1>7, <1>8, <1>9, <1>10, <1>11, <1>12, <1>13 DEF FInv

\* A disk access of f_lseek fails.
LEMMA StepSeekFails ==
    ASSUME FInv, UNCHANGED vol, SeekFails
    PROVE  FInv'
<1> USE Numbers, SameVolume
<1>1. /\ err' = "DISK_ERR" /\ pc' = "open" /\ call' = NoCall /\ synced' = FALSE
      /\ UNCHANGED <<ent, entDirty, sclust, clust, sect, wr>>
      /\ data' \in {data, Flushed} /\ buf' \in {buf, NoBytes} /\ dirty' \in {dirty, FALSE}
  BY DEF SeekFails, Abort, dir, flag
<1>2. fat' \in Fats /\ Ranked(fat')
  <2>1. fat' = fat \/ \E p \in {0, clust} : CreateChainFails(p)
    BY DEF SeekFails
  <2>2. clust \in {0} \cup Clusters
    BY DEF FInv, Types
  <2> QED BY <2>1, <2>2, CreateKeeps
<1>3. modified' \in BOOLEAN /\ (modified = TRUE => modified' = TRUE)
  <2>1. \/ modified' = modified \/ modified' = TRUE
        \/ modified' = (modified \/ fptr' > objsize)
    BY DEF SeekFails, flag
  <2> QED BY <2>1 DEF FInv, Flags
<1>4. fptr' \in 0 .. OffMod - 1 /\ objsize' \in 0 .. OffMod - 1
  <2>1. CASE UNCHANGED <<objsize, fptr>>
    BY <2>1 DEF FInv, Types
  <2>2. CASE pc = "seek" /\ call.left > bcs /\ fptr' = fptr + bcs /\ objsize' \in {objsize, fptr'}
    <3>1. Usable
      BY <2>2 DEF FInv, Calls, Busy, Usable
    <3>2. fptr + call.left <= OffMod - 1
      BY <3>1 DEF FInv, Pointed
    <3> QED BY <2>2, <3>2
  <2>3. CASE pc = "seek" /\ call.left <= bcs /\ fptr' = fptr + call.left /\ objsize' = Grown
    <3>1. Usable
      BY <2>3 DEF FInv, Calls, Busy, Usable
    <3> QED BY <2>3, <3>1, SeekGrown
  <2> QED BY <2>1, <2>2, <2>3 DEF SeekFails
<1>5. Types'
  <2>1. NoBytes \in Sector
    BY ByteAssumption DEF NoBytes, Sector
  <2> QED BY <2>1, <1>1, <1>2, <1>4, FlushedIs DEF FInv, Types
<1>6. Flags'
  BY <1>1, <1>3 DEF FInv, Flags
<1>7. Calls'
  BY <1>1 DEF Calls, Busy, NoCall
<1> QED BY <1>1, <1>3, <1>5, <1>6, <1>7, FailedStep DEF FInv
-----------------------------------------------------------------------------
(* f_truncate *)

\* Inside a sector, the byte before the pointer is in the pointer's cluster.
LEMMA SameCluster ==
    ASSUME NEW C \in Nat \ {0}, NEW s \in Nat \ {0}, NEW a \in Nat, a % s # 0
    PROVE  a > 0 /\ (a - 1) \div (C * s) = a \div (C * s)
<1>1. a # 0
  BY ZeroPlace
<1>2. Before(C, s, a)
  BY <1>1, ByteBefore
<1> QED BY <1>1, <1>2 DEF Before

\* Cutting the chain after the pointer's cluster leaves it as it is up to there.
LEMMA TruncateKeeps ==
    ASSUME FInv, Usable, pc = "open", fptr > 0, NEW g,
           \/ g = fat
           \/ g = CutFat(fat, NthSet(fat, GetF(fat, clust)), clust)
    PROVE  /\ g \in Fats /\ Ranked(g)
           /\ HoldsByte(bcs, g, sclust, clust, fptr - 1)
           /\ fptr % SS # 0 => Spot(CSize, g, sclust, fptr) = Spot(CSize, fat, sclust, fptr)
<1> USE Numbers
<1> DEFINE m == (fptr - 1) \div bcs
<1>1. m \in 0 .. N - 3 /\ clust \in Clusters /\ Nth(fat, sclust)[m] = clust
  BY DEF FInv, Pointed, AtByte, HoldsByte
<1>2. fptr % SS # 0 => fptr \div bcs = m
  <2> DEFINE a == fptr
             C == CSize
  <2>1. C \in Nat \ {0} /\ SS \in Nat \ {0} /\ a \in Nat /\ bcs = C * SS
    OBVIOUS
  <2> HIDE DEF a, C
  <2>2. a % SS # 0 => (a - 1) \div (C * SS) = a \div (C * SS)
    BY <2>1, SameCluster
  <2> QED BY <2>1, <2>2 DEF a
<1>3. g \in Fats /\ Ranked(g)
  BY CutRanked
<1> HIDE DEF m
<1>4. Nth(g, sclust)[m] = Nth(fat, sclust)[m]
  <2>1. CASE g = fat
    BY <2>1
  <2>2. CASE g = CutFat(fat, NthSet(fat, GetF(fat, clust)), clust)
    <3> DEFINE X == NthSet(fat, GetF(fat, clust))
    <3>1. Follow(fat, clust, X)
      BY DEF NthSet, Follow
    <3> HIDE DEF X
    <3>2. m \in 0 .. N - 1 /\ m \in 0 .. m
      BY <1>1
    <3>3. clust \in Clusters /\ Nth(fat, sclust)[m] = clust /\ fat \in Fats /\ Ranked(fat)
      BY <1>1
    <3>4. SameUpTo(fat, CutFat(fat, X, clust), sclust, m)
      BY <3>1, <3>2, <3>3, CutKeeps
    <3> QED BY <2>2, <3>2, <3>4 DEF X, SameUpTo
  <2> QED BY <2>1, <2>2
<1>5. HoldsByte(bcs, g, sclust, clust, fptr - 1)
  BY <1>1, <1>4 DEF HoldsByte, m
<1>6. fptr % SS # 0 => Spot(CSize, g, sclust, fptr) = Spot(CSize, fat, sclust, fptr)
  BY <1>2, <1>4 DEF Spot
<1> QED BY <1>3, <1>5, <1>6

\* f_truncate ends the file at the pointer, or leaves it as it is.
LEMMA StepFTruncate ==
    ASSUME FInv, UNCHANGED vol, FTruncate
    PROVE  FInv'
<1> USE Numbers, SameVolume
<1>1. /\ pc = "open" /\ err = "OK" /\ wr = TRUE /\ Usable /\ pc' = "open" /\ err' = "OK"
      /\ UNCHANGED <<ent, entDirty, fptr, clust, sect, buf, call, wr>>
      /\ synced' = FALSE
  BY DEF FTruncate, dir, cache, Usable, flag, FInv, Flags
<1>2. Calls'
  BY <1>1 DEF FInv, Calls, Busy
<1>3. call.left = 0 /\ fptr <= objsize
  BY <1>1 DEF FInv, Calls, Pointed, Busy, NoCall
<1>4. CASE objsize <= fptr
  <2>1. UNCHANGED <<data, fat, sclust, objsize, modified, dirty>>
    BY <1>4 DEF FTruncate, disk, obj, flag
  <2>2. Types'
    BY <1>1, <2>1 DEF FInv, Types
  <2>3. Flags'
    BY <1>1, <2>1 DEF FInv, Flags
  <2>4. Covered'
    BY <1>1, <2>1, CoveredStays DEF FInv
  <2>5. Pointed'
    BY <1>1, <2>1 DEF FInv, Pointed, AtByte, Usable
  <2>6. EntryKnown'
    BY <1>1, <2>1 DEF FInv, EntryKnown, Usable
  <2>7. BufferKnown'
    BY <1>1, <2>1 DEF FInv, BufferKnown, Usable
  <2> QED BY <1>2, <2>2, <2>3, <2>4, <2>5, <2>6, <2>7 DEF FInv
<1>5. CASE objsize > fptr
  <2>1. /\ objsize' = fptr /\ data' = Flushed /\ modified' = TRUE /\ dirty' = FALSE
        /\ \/ fptr = 0 /\ fat' = Removed(sclust, 0) /\ sclust' = 0
           \/ /\ fptr # 0 /\ sclust' = sclust
              /\ fat' = fat \/ fat' = Removed(GetFat(clust), clust)
    <3>1. ~(objsize <= fptr)
      BY <1>5
    <3>2. /\ IF fptr = 0 THEN fat' = Removed(sclust, 0) /\ sclust' = 0
             ELSE /\ fat' = IF GetFat(clust) \in Clusters
                            THEN Removed(GetFat(clust), clust) ELSE fat
                  /\ UNCHANGED sclust
          /\ objsize' = fptr /\ data' = Flushed /\ modified' = TRUE /\ dirty' = FALSE
      BY <3>1 DEF FTruncate
    <3> QED BY <3>2
  <2>2. sect # 0 => buf = Flushed[sect]
    BY <1>1 DEF FInv, BufferKnown, Flags, Flushed, Types
  <2>3. Flags'
    BY <1>1, <2>1 DEF FInv, Flags
  <2>4. EntryKnown'
    BY <1>1, <2>1 DEF EntryKnown
  <2>5. CASE fptr = 0
    <3>1. fat' \in Fats /\ Ranked(fat') /\ sclust' = 0 /\ objsize' = 0
      BY <2>1, <2>5, ModelFat, CutRanked
    <3>2. Types'
      BY <1>1, <2>1, <2>5, <3>1, FlushedIs DEF FInv, Types
    <3>3. Covered'
      BY <1>1, <3>1, CoversNothing DEF Covered
    <3>4. Pointed'
      BY <1>1, <1>3, <2>5, <3>1 DEF Pointed
    <3>5. 0 % SS = 0
      BY ZeroPlace
    <3>6. BufferKnown'
      BY <1>1, <2>1, <2>2, <2>5, <3>5 DEF BufferKnown
    <3> QED BY <1>2, <2>3, <2>4, <3>2, <3>3, <3>4, <3>6 DEF FInv
  <2>6. CASE fptr # 0
    <3>1. sclust' = sclust /\ (\/ fat' = fat
                               \/ fat' = CutFat(fat, NthSet(fat, GetF(fat, clust)), clust))
      BY <2>1, <2>6, ModelFat
    <3>2. /\ fat' \in Fats /\ Ranked(fat')
          /\ HoldsByte(bcs, fat', sclust, clust, fptr - 1)
          /\ fptr % SS # 0 => Spot(CSize, fat', sclust, fptr) = Spot(CSize, fat, sclust, fptr)
      BY <1>1, <2>6, <3>1, TruncateKeeps
    <3>3. Types'
      BY <1>1, <2>1, <3>1, <3>2, FlushedIs DEF FInv, Types
    <3>4. Covered'
      <4>1. fptr - 1 \in Nat /\ (fptr - 1) + 1 = fptr
        BY <2>6
      <4>2. Covers(bcs, fat', fptr, sclust)
        BY <3>2, <4>1, CoversByte
      <4> QED BY <1>1, <2>1, <3>1, <4>2 DEF Covered
    <3>5. Pointed'
      BY <1>1, <1>3, <2>1, <3>1, <3>2 DEF Pointed, AtByte
    <3>6. BufferKnown'
      <4>1. fptr % SS # 0 => sect = Spot(CSize, fat', sclust, fptr)
        BY <1>1, <3>2 DEF FInv, BufferKnown
      <4> QED BY <1>1, <2>1, <2>2, <3>1, <4>1 DEF BufferKnown
    <3> QED BY <1>2, <2>3, <2>4, <3>3, <3>4, <3>5, <3>6 DEF FInv
  <2> QED BY <2>5, <2>6
<1> QED BY <1>4, <1>5

\* f_truncate fails on the way.
LEMMA StepTruncateFails ==
    ASSUME FInv, UNCHANGED vol, TruncateFails
    PROVE  FInv'
<1> USE Numbers, SameVolume
<1>1. /\ err' = "DISK_ERR" /\ pc' = "open" /\ call' = NoCall /\ synced' = FALSE
      /\ UNCHANGED <<ent, entDirty, fptr, clust, sect, buf, wr, dirty>>
      /\ modified' = TRUE /\ objsize' = fptr /\ sclust' \in {0, sclust}
      /\ data' \in {data, Flushed}
  BY DEF TruncateFails, Abort, dir, cache
<1>2. fat' \in Fats /\ Ranked(fat')
  <2>1. fat' = fat \/ \E X, p : fat' = CutFat(fat, X, p)
    BY ModelFat DEF TruncateFails
  <2> QED BY <2>1, CutRanked
<1>3. Types'
  BY <1>1, <1>2, FlushedIs DEF FInv, Types
<1>4. Flags'
  BY <1>1 DEF FInv, Flags
<1>5. Calls'
  BY <1>1 DEF Calls, Busy, NoCall
<1> QED BY <1>1, <1>3, <1>4, <1>5, FailedStep DEF FInv
-----------------------------------------------------------------------------
(* f_open, f_sync and f_close *)

\* A file that has just been opened, at byte p, in cluster c.
LEMMA FileOpens ==
    ASSUME FInv, UNCHANGED vol, pc \in {"closed", "lost"},
           pc' = "open", err' = "OK", call' = NoCall, dirty' = FALSE,
           wr' \in BOOLEAN, modified' \in BOOLEAN, entDirty' \in BOOLEAN,
           ~DiskErrors /\ entDirty' = TRUE => modified' = TRUE,
           data' = data, fat' \in Fats, Ranked(fat'),
           ent' = [size |-> objsize', first |-> sclust'],
           objsize' \in 0 .. OffMod - 1, sclust' \in {0} \cup Clusters,
           Covers(bcs, fat', objsize', sclust'),
           fptr' \in 0 .. objsize', clust' \in {0} \cup Clusters,
           fptr' > 0 => HoldsByte(bcs, fat', sclust', clust', fptr' - 1),
           sect' \in {0} \cup Sectors, buf' \in Sector, sect' # 0 => buf' = data[sect'],
           fptr' % SS # 0 => sect' = Spot(CSize, fat', sclust', fptr')
    PROVE  FInv'
<1> USE Numbers, SameVolume
<1>1. ent'.size = objsize' /\ ent'.first = sclust' /\ ent' = [size |-> ent'.size, first |-> ent'.first]
  OBVIOUS
<1>2. fptr' \in Nat /\ fptr' <= objsize' /\ fptr' <= OffMod - 1 /\ fptr' \in 0 .. OffMod - 1
  OBVIOUS
<1>3. Types'
  BY <1>1, <1>2 DEF FInv, Types
<1>4. Flags'
  BY DEF Flags
<1>5. Calls' /\ call'.left = 0
  BY DEF Calls, Busy, NoCall
<1>6. Covered'
  BY DEF Covered
<1>7. Pointed'
  BY <1>2, <1>5 DEF Pointed, AtByte
<1>8. EntryKnown'
  BY <1>1 DEF EntryKnown
<1>9. BufferKnown'
  BY DEF BufferKnown
<1> QED BY <1>3, <1>4, <1>5, <1>6, <1>7, <1>8, <1>9 DEF FInv

\* A file that is created is empty.
LEMMA StepOpenCreate ==
    ASSUME FInv, UNCHANGED vol, OpenCreate
    PROVE  FInv'
<1> USE Numbers, SameVolume
<1>1. /\ pc \in {"closed", "lost"} /\ fat' = Removed(ent.first, 0) /\ ent' = [size |-> 0, first |-> 0]
      /\ sclust' = 0 /\ objsize' = 0 /\ fptr' = 0 /\ clust' = 0 /\ sect' = 0 /\ buf' = NoBytes
      /\ wr' = TRUE /\ modified' = TRUE /\ dirty' = FALSE /\ err' = "OK" /\ pc' = "open"
      /\ call' = NoCall /\ entDirty' = TRUE /\ data' = data
  BY DEF OpenCreate, Cleared, Opened
<1>2. fat' \in Fats /\ Ranked(fat')
  BY <1>1, ModelFat, CutRanked
<1>3. Covers(bcs, fat', 0, 0)
  BY CoversNothing
<1>4. NoBytes \in Sector
  BY ByteAssumption DEF NoBytes, Sector
<1>5. 0 % SS = 0 /\ 0 \in 0 .. OffMod - 1
  BY ZeroPlace
<1>6. ent' = [size |-> objsize', first |-> sclust'] /\ Covers(bcs, fat', objsize', sclust')
      /\ fptr' \in 0 .. objsize' /\ objsize' \in 0 .. OffMod - 1
      /\ ~(fptr' > 0) /\ fptr' % SS = 0
  BY <1>1, <1>3, <1>5
<1> QED BY <1>1, <1>2, <1>4, <1>6, FileOpens

\* A file that can be opened is as long as its entry says at most, and its entry
\* is not waiting in the window.
LEMMA OpenableFits ==
    ASSUME FInv, Openable
    PROVE  /\ pc \in {"closed", "lost"} /\ Covers(bcs, fat, ent.size, ent.first)
           /\ ~DiskErrors => entDirty = FALSE
<1> USE Numbers
<1>1. pc \in {"closed", "lost"}
  BY DEF Openable
<1>2. ent.size \in Nat
  BY DEF FInv, Types
<1>3. ASSUME pc = "closed"  PROVE Covers(bcs, fat, ent.size, ent.first)
  BY <1>3 DEF FInv, Covered
<1>4. ASSUME pc = "lost"  PROVE Covers(bcs, fat, ent.size, ent.first)
  <2>1. ent.size <= bcs * Cardinality(NthSet(fat, ent.first))
    BY <1>4, ModelFat DEF Openable, Fits
  <2> QED BY <1>2, <2>1, CoversFits
<1>5. ~DiskErrors => entDirty = FALSE
  BY <1>1 DEF FInv, EntryKnown, Flags
<1> QED BY <1>1, <1>3, <1>4, <1>5

\* A file is opened at its start.
LEMMA StepOpenExisting ==
    ASSUME FInv, UNCHANGED vol, NEW w \in BOOLEAN, OpenExisting(w)
    PROVE  FInv'
<1> USE Numbers, SameVolume
<1>1. /\ sclust' = ent.first /\ objsize' = ent.size /\ fptr' = 0 /\ clust' = 0 /\ sect' = 0
      /\ buf' = NoBytes
      /\ wr' = w /\ modified' = FALSE /\ dirty' = FALSE /\ err' = "OK" /\ pc' = "open"
      /\ call' = NoCall /\ UNCHANGED <<data, fat, ent, entDirty>> /\ Openable
  BY DEF OpenExisting, Opened, disk, dir
<1>2. /\ pc \in {"closed", "lost"} /\ Covers(bcs, fat, ent.size, ent.first)
      /\ ~DiskErrors => entDirty = FALSE
  BY <1>1, OpenableFits
<1>3. /\ ent.size \in 0 .. OffMod - 1 /\ ent.first \in {0} \cup Clusters
      /\ ent = [size |-> ent.size, first |-> ent.first] /\ entDirty \in BOOLEAN
  BY DEF FInv, Types, Flags
<1>4. NoBytes \in Sector
  BY ByteAssumption DEF NoBytes, Sector
<1>5. 0 % SS = 0
  BY ZeroPlace
<1>6. /\ ent' = [size |-> objsize', first |-> sclust'] /\ Covers(bcs, fat', objsize', sclust')
      /\ fptr' \in 0 .. objsize' /\ objsize' \in 0 .. OffMod - 1
      /\ sclust' \in {0} \cup Clusters /\ fat' \in Fats /\ Ranked(fat')
      /\ ~(fptr' > 0) /\ fptr' % SS = 0 /\ (~DiskErrors /\ entDirty' = TRUE => modified' = TRUE)
      /\ entDirty' \in BOOLEAN
  BY <1>1, <1>2, <1>3, <1>5
<1> QED BY <1>1, <1>2, <1>4, <1>6, FileOpens

\* A file is opened at its end.
LEMMA StepOpenAppend ==
    ASSUME FInv, UNCHANGED vol, OpenAppend
    PROVE  FInv'
<1> USE Numbers, SameVolume
<1> DEFINE h == ent.first
           a == ent.size
           p == a - 1
           last == p \div bcs
           ofs == a - last * bcs
           s == Clust2Sect(Nth(fat, h)[last]) + ofs \div SS
<1>1. /\ sclust' = h /\ objsize' = a /\ fptr' = a
      /\ IF a = 0 THEN clust' = 0 /\ sect' = 0 /\ buf' = NoBytes
         ELSE /\ clust' = Nth(fat, h)[last]
              /\ IF ofs % SS = 0 THEN sect' = 0 /\ buf' = NoBytes
                                 ELSE sect' = s /\ buf' = data[s]
      /\ wr' = TRUE /\ modified' = FALSE /\ dirty' = FALSE /\ err' = "OK" /\ pc' = "open"
      /\ call' = NoCall /\ UNCHANGED <<data, fat, ent, entDirty>> /\ Openable
  BY ChainIsNth DEF OpenAppend, Opened, disk, dir
<1>2. /\ pc \in {"closed", "lost"} /\ Covers(bcs, fat, a, h)
      /\ ~DiskErrors => entDirty = FALSE
  BY <1>1, OpenableFits
<1>3. /\ a \in 0 .. OffMod - 1 /\ h \in {0} \cup Clusters /\ a \in Nat
      /\ ent = [size |-> a, first |-> h] /\ entDirty \in BOOLEAN
  BY DEF FInv, Types, Flags
<1>4. NoBytes \in Sector
  BY ByteAssumption DEF NoBytes, Sector
<1>5. data \in [Sectors -> Sector] /\ 0 % SS = 0
  BY ZeroPlace DEF FInv, Types
<1> DEFINE C == CSize
           b == bcs
<1>6. C \in Nat \ {0} /\ SS \in Nat \ {0} /\ b = C * SS /\ b \in Nat \ {0}
  OBVIOUS
<1>7. ASSUME a # 0
      PROVE  /\ HoldsByte(b, fat, h, Nth(fat, h)[last], p)
             /\ ofs % SS = a % SS
             /\ ofs % SS # 0 => s = Spot(C, fat, h, a) /\ s \in Sectors
  <2>1. p \in Nat /\ p < a
    BY <1>3, <1>7
  <2>2. last \in 0 .. N - 3 /\ Nth(fat, h)[last] \in Clusters
    <3> HIDE DEF a, h, p
    <3>1. b \in Nat \ {0} /\ fat \in Fats /\ Ranked(fat) /\ a \in Nat /\ Covers(b, fat, a, h)
          /\ p \in Nat /\ p < a
      BY <1>2, <1>3, <2>1
    <3>2. p \div b \in 0 .. N - 3 /\ Nth(fat, h)[p \div b] \in Clusters
      BY <3>1, CoversAt
    <3> QED BY <3>2
  <2>3. HoldsByte(b, fat, h, Nth(fat, h)[last], p)
    BY <2>2 DEF HoldsByte
  <2> DEFINE base == last * b
             q == last
             r == p % b
  <2>4. q \in Nat /\ r \in 0 .. b - 1 /\ p = q * b + r
    <3> HIDE DEF p, b
    <3> QED BY <1>6, <2>1, Divides
  <2>5. ofs = a - base /\ base = q * b /\ p = a - 1
    OBVIOUS
  <2>6. q = p \div b
    OBVIOUS
  <2> HIDE DEF a, p, last, q, r, b, ofs, base
  <2>7. base \in Nat /\ ofs \in 1 .. b /\ base + ofs = a
    <3>1. q * b \in Nat
      BY <1>6, <2>4
    <3> QED BY <1>3, <1>6, <2>4, <2>5, <3>1
  <2>8. base % b = 0 /\ base \div b = q
    <3>1. q * b = base /\ base = base + 0
      BY <2>5, <2>7
    <3>2. base = q * b + 0
      BY <3>1
    <3>3. b \in Nat \ {0} /\ q \in Nat
      BY <1>6, <2>4
    <3>4. 0 \in 0 .. b - 1
      BY <3>3
    <3> QED BY <2>7, <3>2, <3>3, <3>4, DivMod
  <2>9. OffsetIs(C, SS, base, ofs)
    <3>1. ofs \in 0 .. C * SS /\ base % (C * SS) = 0
      BY <1>6, <2>7, <2>8
    <3> QED BY <1>6, <2>7, <3>1, OffsetPlace
  <2>10. ofs % SS = a % SS
    BY <2>7, <2>9 DEF OffsetIs
  <2>11. ASSUME a % SS # 0  PROVE s = Spot(C, fat, h, a) /\ s \in Sectors
    <3>1. /\ ofs \div SS \in 0 .. C - 1 /\ a \div b = q
          /\ (a \div SS) % C = ofs \div SS
      BY <1>6, <2>7, <2>8, <2>9, <2>11 DEF OffsetIs
    <3>2. a \div (C * SS) = last
      BY <1>6, <3>1 DEF q
    <3>3. Spot(C, fat, h, a) = First(C, Nth(fat, h)[last]) + ofs \div SS
      BY <3>1, <3>2 DEF Spot
    <3>4. s \in Sectors
      BY <2>2, <3>1, InData
    <3> QED BY <3>3, <3>4, Spots
  <2> QED BY <2>3, <2>10, <2>11
<1>8. fptr' > 0 => HoldsByte(bcs, fat', sclust', clust', fptr' - 1)
  BY <1>1, <1>3, <1>7
<1>9. clust' \in {0} \cup Clusters
  BY <1>1, <1>7 DEF HoldsByte
<1>10. sect' \in {0} \cup Sectors /\ buf' \in Sector /\ (sect' # 0 => buf' = data[sect'])
  <2> HIDE DEF s, ofs, last, a, h
  <2> QED BY <1>1, <1>4, <1>5, <1>7
<1>11. fptr' % SS # 0 => sect' = Spot(CSize, fat', sclust', fptr')
  <2>1. a % SS # 0 => a # 0
    BY <1>5
  <2> HIDE DEF s, ofs, last, a, h
  <2> QED BY <1>1, <1>7, <2>1
<1>12. /\ ent' = [size |-> objsize', first |-> sclust'] /\ Covers(bcs, fat', objsize', sclust')
       /\ fptr' \in 0 .. objsize' /\ objsize' \in 0 .. OffMod - 1
       /\ sclust' \in {0} \cup Clusters /\ fat' \in Fats /\ Ranked(fat')
       /\ (~DiskErrors /\ entDirty' = TRUE => modified' = TRUE)
       /\ entDirty' \in BOOLEAN
  BY <1>1, <1>2, <1>3
<1>13. /\ wr' \in BOOLEAN /\ modified' \in BOOLEAN /\ dirty' = FALSE /\ err' = "OK" /\ pc' = "open"
       /\ call' = NoCall /\ data' = data
  BY <1>1
<1> HIDE DEF s, ofs, last, a, h, p
<1> QED BY <1>2, <1>8, <1>9, <1>10, <1>11, <1>12, <1>13, FileOpens

\* Opening fails, with the file's entry as it was or reset.
LEMMA StepOpenFails ==
    ASSUME FInv, UNCHANGED vol, OpenFails
    PROVE  FInv'
<1> USE Numbers, SameVolume
<1>1. /\ DiskErrors /\ pc \in {"closed", "lost"} /\ data' = data
      /\ UNCHANGED <<sclust, objsize, fptr, clust, sect, buf, wr, modified, dirty, err, call>>
      /\ \/ UNCHANGED <<fat, ent, entDirty, pc>>
         \/ /\ ent' = [size |-> 0, first |-> 0] /\ entDirty' \in BOOLEAN /\ pc' = "lost"
            /\ \E X : fat' = CutFat(fat, X, 0)
  BY ModelFat DEF OpenFails, dir, obj, cache, flag
<1>2. DiskErrors' /\ pc' \in {"closed", "lost"} /\ ~Usable /\ ~Usable' /\ entDirty' \in BOOLEAN
  BY <1>1 DEF Usable, FInv, Flags
<1>3. fat' \in Fats /\ Ranked(fat')
  BY <1>1, CutRanked
<1>4. Types'
  <2>1. ent'.size \in 0 .. OffMod - 1 /\ ent'.first \in {0} \cup Clusters
        /\ ent' = [size |-> ent'.size, first |-> ent'.first]
    BY <1>1 DEF FInv, Types
  <2> QED BY <1>1, <1>2, <1>3, <2>1 DEF FInv, Types
<1>5. Flags'
  BY <1>1, <1>2 DEF FInv, Flags
<1>6. Calls'
  BY <1>1, <1>2 DEF FInv, Calls, Busy
<1>7. Covered'
  BY <1>1, <1>2 DEF FInv, Covered
<1>8. Pointed' /\ EntryKnown' /\ BufferKnown'
  BY <1>2 DEF Pointed, EntryKnown, BufferKnown
<1> QED BY <1>4, <1>5, <1>6, <1>7, <1>8 DEF FInv

\* What f_sync does: to the disk, the entry and the flags.
LEMMA SyncDoes ==
    ASSUME FInv, pc = "open", NEW done \in BOOLEAN, NEW m \in BOOLEAN, NEW d \in BOOLEAN,
           Sync(done, m, d)
    PROVE  /\ synced' = done /\ data' \in [Sectors -> Sector]
           /\ \/ UNCHANGED <<ent, entDirty>> /\ m = modified
              \/ ent' = [size |-> objsize, first |-> sclust] /\ m = FALSE
           /\ entDirty' \in BOOLEAN
           /\ ~DiskErrors => done = TRUE /\ entDirty' = FALSE
           /\ done = TRUE => \/ UNCHANGED <<ent, entDirty>> /\ modified = FALSE /\ d = dirty
                             \/ ent' = [size |-> objsize, first |-> sclust] /\ entDirty' = FALSE
                                /\ d = FALSE
           /\ d = TRUE => dirty = TRUE
           /\ Usable => /\ m = FALSE => d = FALSE
                        /\ sect # 0 /\ d = FALSE => buf = data'[sect]
                        /\ done = TRUE => ent' = [size |-> objsize, first |-> sclust] /\ d = FALSE
<1>1. /\ entDirty \in BOOLEAN /\ modified \in BOOLEAN /\ dirty \in BOOLEAN
      /\ ~DiskErrors /\ entDirty = TRUE => modified = TRUE
      /\ DiskErrors \in BOOLEAN
      /\ ent = [size |-> ent.size, first |-> ent.first]
  BY Geometry DEF FInv, Types, Flags, EntryKnown
<1>2. /\ Usable /\ modified = FALSE => ent.size = objsize /\ ent.first = sclust /\ dirty = FALSE
  BY DEF FInv, EntryKnown
<1>3. Usable /\ sect # 0 => /\ buf = Flushed[sect]
                            /\ dirty = FALSE => buf = data[sect]
  BY DEF FInv, BufferKnown, Types, Flags, Flushed
<1>4. data \in [Sectors -> Sector] /\ Flushed \in [Sectors -> Sector]
  BY FlushedIs DEF FInv, Types
<1>5. /\ synced' = done
      /\ \/ /\ done = TRUE /\ modified = FALSE /\ m = modified /\ d = dirty
            /\ UNCHANGED <<data, ent, entDirty>>
         \/ /\ done = TRUE /\ modified = TRUE /\ m = FALSE /\ d = FALSE
            /\ data' = Flushed
            /\ ent' = [size |-> objsize, first |-> sclust] /\ entDirty' = FALSE
         \/ /\ done = FALSE /\ DiskErrors /\ modified = TRUE /\ m = TRUE
            /\ dirty = TRUE /\ d = TRUE /\ data' \in {data, Flushed}
            /\ UNCHANGED <<ent, entDirty>>
         \/ /\ done = FALSE /\ DiskErrors /\ modified = TRUE /\ m = TRUE
            /\ d = FALSE /\ data' = Flushed
            /\ UNCHANGED <<ent, entDirty>>
         \/ /\ done = FALSE /\ DiskErrors /\ modified = TRUE /\ m = FALSE
            /\ d = FALSE /\ data' = Flushed
            /\ ent' = [size |-> objsize, first |-> sclust] /\ entDirty' \in BOOLEAN
  BY <1>1 DEF Sync, dir
<1> QED BY <1>1, <1>2, <1>3, <1>4, <1>5

\* f_sync leaves an open file as it is.
LEMMA StepFSync ==
    ASSUME FInv, UNCHANGED vol, FSync
    PROVE  FInv'
<1> USE Numbers, SameVolume
<1>1. PICK done \in BOOLEAN, m \in BOOLEAN, d \in BOOLEAN :
        Sync(done, m, d) /\ modified' = m /\ dirty' = d /\ wr' = wr
  BY DEF FSync
<1>2. pc = "open" /\ UNCHANGED <<fat, sclust, objsize, fptr, clust, sect, buf, err, pc, call>>
  BY DEF FSync, obj, cache
<1>3. /\ data' \in [Sectors -> Sector]
      /\ \/ UNCHANGED <<ent, entDirty>> /\ modified' = modified
         \/ ent' = [size |-> objsize, first |-> sclust] /\ modified' = FALSE
      /\ entDirty' \in BOOLEAN /\ modified' \in BOOLEAN /\ dirty' \in BOOLEAN
      /\ ~DiskErrors => entDirty' = FALSE
      /\ dirty' = TRUE => dirty = TRUE
      /\ Usable => /\ modified' = FALSE => dirty' = FALSE
                   /\ sect # 0 /\ dirty' = FALSE => buf = data'[sect]
  BY <1>1, <1>2, SyncDoes
<1>4. /\ ent'.size \in 0 .. OffMod - 1 /\ ent'.first \in {0} \cup Clusters
      /\ ent' = [size |-> ent'.size, first |-> ent'.first]
  BY <1>3 DEF FInv, Types
<1>5. Types'
  BY <1>2, <1>3, <1>4 DEF FInv, Types
<1>6. Flags'
  BY <1>1, <1>3 DEF FInv, Flags
<1>7. Calls'
  BY <1>2 DEF FInv, Calls, Busy
<1>8. Covered'
  BY <1>2 DEF FInv, Covered, Usable
<1>9. Pointed'
  BY <1>2 DEF FInv, Pointed, AtByte, Usable
<1>10. EntryKnown'
  <2>1. Usable /\ modified' = FALSE => ent'.size = objsize /\ ent'.first = sclust
    BY <1>2, <1>3 DEF FInv, EntryKnown
  <2> QED BY <1>2, <1>3, <2>1 DEF EntryKnown, Usable
<1>11. BufferKnown'
  <2>1. Usable => /\ fptr % SS # 0 => sect = Spot(CSize, fat, sclust, fptr)
                  /\ dirty = TRUE => \E i \in 0 .. N : InClusterOf(CSize, Nth(fat, sclust)[i], sect)
    BY <1>2 DEF FInv, BufferKnown
  <2> QED BY <1>2, <1>3, <2>1 DEF BufferKnown, Usable
<1> QED BY <1>5, <1>6, <1>7, <1>8, <1>9, <1>10, <1>11 DEF FInv

\* A file that is closed is as long as its entry says.
LEMMA StepFClose ==
    ASSUME FInv, UNCHANGED vol, FClose
    PROVE  FInv'
<1> USE Numbers, SameVolume
<1>1. PICK done \in BOOLEAN, m \in BOOLEAN, d \in BOOLEAN :
        Sync(done, m, d) /\ pc' = IF done = TRUE /\ err = "OK" THEN "closed" ELSE "lost"
  BY DEF FClose
<1>2. /\ pc = "open" /\ UNCHANGED <<fat, call>>
      /\ sclust' = 0 /\ objsize' = 0 /\ fptr' = 0 /\ clust' = 0 /\ sect' = 0 /\ buf' = NoBytes
      /\ wr' = FALSE /\ modified' = FALSE /\ dirty' = FALSE /\ err' = "OK"
  BY DEF FClose, Cleared
<1>3. /\ data' \in [Sectors -> Sector]
      /\ \/ UNCHANGED <<ent, entDirty>> /\ m = modified
         \/ ent' = [size |-> objsize, first |-> sclust] /\ m = FALSE
      /\ entDirty' \in BOOLEAN
      /\ ~DiskErrors => entDirty' = FALSE
      /\ Usable /\ done = TRUE => ent' = [size |-> objsize, first |-> sclust]
  BY <1>1, <1>2, SyncDoes
<1>4. /\ ent'.size \in 0 .. OffMod - 1 /\ ent'.first \in {0} \cup Clusters
      /\ ent' = [size |-> ent'.size, first |-> ent'.first]
  BY <1>3 DEF FInv, Types
<1>5. Types'
  <2>1. NoBytes \in Sector
    BY ByteAssumption DEF NoBytes, Sector
  <2> QED BY <1>1, <1>2, <1>3, <1>4, <2>1 DEF FInv, Types
<1>6. Flags'
  BY <1>2, <1>3 DEF Flags
<1>7. Calls'
  BY <1>1, <1>2 DEF FInv, Calls, Busy
<1>8. pc' \in {"closed", "lost"} /\ ~Usable'
  BY <1>1 DEF Usable
<1>9. Covered'
  <2>1. ASSUME pc' = "closed"  PROVE Covers(bcs, fat, ent'.size, ent'.first)
    <3>1. Usable /\ done = TRUE
      BY <1>1, <1>2, <2>1 DEF Usable
    <3>2. Covers(bcs, fat, objsize, sclust)
      BY <3>1 DEF FInv, Covered
    <3> QED BY <1>3, <3>1, <3>2
  <2> QED BY <1>2, <1>8, <2>1 DEF Covered
<1>10. Pointed' /\ BufferKnown'
  BY <1>8 DEF Pointed, BufferKnown
<1>11. EntryKnown'
  BY <1>8, <1>3 DEF EntryKnown
<1> QED BY <1>5, <1>6, <1>7, <1>9, <1>10, <1>11 DEF FInv

\* The entry's window is written back.
LEMMA StepWindowMoves ==
    ASSUME FInv, UNCHANGED vol, WindowMoves
    PROVE  FInv'
<1> USE SameVolume
<1>1. /\ pc \notin Busy /\ entDirty' = FALSE
      /\ UNCHANGED <<data, fat, ent, sclust, objsize, fptr, clust, sect, buf, wr, modified, dirty,
                     err, pc, call>>
  BY DEF WindowMoves, disk, obj, cache, flag, Busy
<1>2. Types'
  BY <1>1 DEF FInv, Types
<1>3. Flags'
  BY <1>1 DEF FInv, Flags
<1>4. Calls'
  BY <1>1 DEF FInv, Calls
<1>5. Covered'
  BY <1>1 DEF FInv, Covered, Usable
<1>6. Pointed'
  BY <1>1 DEF FInv, Pointed, AtByte, Usable, Busy
<1>7. EntryKnown'
  BY <1>1 DEF FInv, EntryKnown, Usable
<1>8. BufferKnown'
  BY <1>1 DEF FInv, BufferKnown, Usable
<1> QED BY <1>2, <1>3, <1>4, <1>5, <1>6, <1>7, <1>8 DEF FInv
-----------------------------------------------------------------------------
(* The invariant, and what follows from it *)

\* The volume that a behaviour starts with satisfies the invariant.
LEMMA InitFInv == Init => FInv
<1> SUFFICES ASSUME Init  PROVE FInv
  OBVIOUS
<1> USE Geometry, Constants
<1>1. /\ vol \in Volumes /\ ent = [size |-> 0, first |-> 0] /\ entDirty = FALSE
      /\ sclust = 0 /\ objsize = 0 /\ fptr = 0 /\ clust = 0 /\ sect = 0 /\ buf = NoBytes
      /\ wr = FALSE /\ modified = FALSE /\ dirty = FALSE /\ err = "OK" /\ pc = "closed"
      /\ call = NoCall
      /\ data = [s \in Sectors |-> NoBytes] /\ fat = [c \in Clusters |-> 0]
  BY DEF Init
<1>2. NoBytes \in Sector
  BY ByteAssumption DEF NoBytes, Sector
<1>3. fat \in Fats /\ Ranked(fat)
  <2>1. fat \in Fats /\ \A c \in Clusters : fat[c] \notin Clusters
    BY <1>1 DEF Fats
  <2>2. RanksFall(fat, [c \in Clusters |-> 0])
    BY <2>1 DEF RanksFall
  <2> QED BY <2>1, <2>2 DEF Ranked
<1>4. Types
  <2>1. 0 \in 0 .. OffMod - 1
    BY <1>1
  <2> QED BY <1>1, <1>2, <1>3, <2>1 DEF Types
<1>5. Flags /\ Calls
  <2>1. Flags
    BY <1>1 DEF Flags
  <2>2. Calls
    BY <1>1 DEF Calls, Busy, NoCall
  <2> QED BY <2>1, <2>2
<1>6. ~Usable
  BY <1>1 DEF Usable
<1>7. Covered
  <2>1. Covers(bcs, fat, 0, 0)
    BY <1>1, CoversNothing
  <2> QED BY <1>1, <1>6, <2>1 DEF Covered
<1>8. Pointed /\ EntryKnown /\ BufferKnown
  BY <1>1, <1>6 DEF Pointed, EntryKnown, BufferKnown
<1> QED BY <1>4, <1>5, <1>7, <1>8 DEF FInv

\* A step that changes nothing the invariant is about.
LEMMA StepStutter ==
    ASSUME FInv, UNCHANGED vars
    PROVE  FInv'
<1> USE SameVolume
<1>1. UNCHANGED <<vol, data, fat, ent, entDirty, sclust, objsize, fptr, clust, sect, buf, wr,
                  modified, dirty, err, pc, call, synced>>
  BY DEF vars, disk, dir, obj, cache, flag
<1>2. Types' /\ Flags'
  BY <1>1 DEF FInv, Types, Flags
<1>3. Calls'
  BY <1>1 DEF FInv, Calls
<1>4. Covered'
  BY <1>1 DEF FInv, Covered, Usable
<1>5. Pointed'
  BY <1>1 DEF FInv, Pointed, AtByte, Usable, OnCluster, OnSector, csect
<1>6. EntryKnown'
  BY <1>1 DEF FInv, EntryKnown, Usable
<1>7. BufferKnown'
  BY <1>1 DEF FInv, BufferKnown, Usable
<1> QED BY <1>2, <1>3, <1>4, <1>5, <1>6, <1>7 DEF FInv

\* Every operation keeps the invariant.
LEMMA NextFInv == FInv /\ [Next]_vars => FInv'
<1> SUFFICES ASSUME FInv, [Next]_vars  PROVE FInv'
  OBVIOUS
<1>1. CASE UNCHANGED vars
  BY <1>1, StepStutter
<1>2. CASE Next
  <2>1. UNCHANGED vol
    BY <1>2 DEF Next
  <2>2. CASE OpenFile
    BY <2>1, <2>2, StepOpenCreate, StepOpenAppend, StepOpenFails, StepOpenExisting DEF OpenFile
  <2>3. CASE Read
    BY <2>1, <2>3, StepFRead, StepReadFollow, StepReadDirect, StepReadBuffered, StepReadFails,
       StepReadEnds DEF Read
  <2>4. CASE Write
    BY <2>1, <2>4, StepFWrite, StepWriteFollow, StepWriteDirect, StepWriteBuffered,
       StepWriteFails, StepWriteEnds DEF Write
  <2>5. CASE Seek
    BY <2>1, <2>5, StepFSeek, StepSeekFollow, StepSeekEnds, StepSeekFails DEF Seek
  <2>6. CASE Truncate
    BY <2>1, <2>6, StepFTruncate, StepTruncateFails DEF Truncate
  <2>7. CASE FSync
    BY <2>1, <2>7, StepFSync
  <2>8. CASE FClose
    BY <2>1, <2>8, StepFClose
  <2>9. CASE WindowMoves
    BY <2>1, <2>9, StepWindowMoves
  <2> QED BY <1>2, <2>2, <2>3, <2>4, <2>5, <2>6, <2>7, <2>8, <2>9 DEF Next
<1> QED BY <1>1, <1>2

\* The invariant of every state of a file, on every volume: the chain reaches as
\* far as the size, the pointer's cluster and sector are where the chain puts
\* them, a clean buffer is its sector's, and the entry of an unmarked file is its
\* own.
THEOREM FileInvariant == Spec => []FInv
<1> USE InitFInv, NextFInv
<1> QED BY PTL DEF Spec

\* What the invariant says, in the words of the model's properties.
LEMMA InvariantMeans ==
    ASSUME FInv
    PROVE  TypeOK /\ SizeFits /\ BufferHoldsSector /\ ClusterHoldsPointer
<1> USE Numbers
<1>1. TypeOK
  BY DEF FInv, Types, Flags, Fats, TypeOK, Busy
<1>2. Usable => Fits(objsize, sclust) /\ (pc = "open" => fptr <= objsize)
  <2> SUFFICES ASSUME Usable  PROVE Fits(objsize, sclust) /\ fptr <= objsize
    OBVIOUS
  <2>1. Covers(bcs, fat, objsize, sclust) /\ fptr <= objsize
    BY DEF FInv, Covered, Pointed
  <2>2. objsize <= bcs * Cardinality(NthSet(fat, sclust))
    BY <2>1, CoversFits
  <2> QED BY <2>1, <2>2, ModelFat DEF Fits
<1>3. pc = "closed" => Fits(ent.size, ent.first)
  <2> SUFFICES ASSUME pc = "closed"  PROVE Fits(ent.size, ent.first)
    OBVIOUS
  <2>1. Covers(bcs, fat, ent.size, ent.first) /\ ent.size \in Nat
    BY DEF FInv, Covered, Types
  <2>2. ent.size <= bcs * Cardinality(NthSet(fat, ent.first))
    BY <2>1, CoversFits
  <2> QED BY <2>2, ModelFat DEF Fits
<1>4. BufferHoldsSector
  BY Spots DEF FInv, BufferKnown, Flags, BufferHoldsSector
<1>5. ClusterHoldsPointer
  <2> SUFFICES ASSUME Usable, pc = "open", fptr > 0
               PROVE  clust = Chain(sclust)[(fptr - 1) \div bcs]
    BY DEF ClusterHoldsPointer
  <2>1. AtByte(fptr - 1)
    BY DEF FInv, Pointed
  <2> QED BY <2>1, ChainIsNth DEF AtByte, HoldsByte
<1> QED BY <1>1, <1>2, <1>3, <1>4, <1>5 DEF SizeFits

\* The types of a file's state: sizes and pointers fit a DWORD.
THEOREM FileTypes == Spec => []TypeOK
<1>1. FInv => TypeOK
  BY InvariantMeans
<1> QED BY <1>1, FileInvariant, PTL

\* The size never promises more than the chain holds (f_write, f_lseek,
\* f_truncate), whatever the disk does.
THEOREM SizeIsBacked == Spec => []SizeFits
<1>1. FInv => SizeFits
  BY InvariantMeans
<1> QED BY <1>1, FileInvariant, PTL

\* Between calls a clean buffer is its sector of the disk, and inside a sector it
\* is the pointer's.
THEOREM BufferIsTrue == Spec => []BufferHoldsSector
<1>1. FInv => BufferHoldsSector
  BY InvariantMeans
<1> QED BY <1>1, FileInvariant, PTL

\* Between calls the current cluster is that of the byte before the pointer.
THEOREM ClusterIsTrue == Spec => []ClusterHoldsPointer
<1>1. FInv => ClusterHoldsPointer
  BY InvariantMeans
<1> QED BY <1>1, FileInvariant, PTL

\* A successful f_sync of a sound disk leaves nothing to write: the entry on it
\* is the file's, and the buffer is clean.
LEMMA SyncLeavesNothing ==
    ASSUME FInv, [Next]_vars, ~UNCHANGED vars, ~DiskErrors, synced' = TRUE, err = "OK"
    PROVE  ent' = [size |-> objsize, first |-> sclust] /\ ~entDirty' /\ ~dirty'
<1>1. Next
  OBVIOUS
<1>2. pc \in Busy => synced = FALSE
  BY DEF FInv, Calls
<1>3. CASE FSync
  <2>1. PICK done \in BOOLEAN, m \in BOOLEAN, d \in BOOLEAN :
          Sync(done, m, d) /\ dirty' = d /\ pc = "open"
    BY <1>3 DEF FSync
  <2> QED BY <2>1, SyncDoes DEF Usable
<1>4. CASE FClose
  <2>1. PICK done \in BOOLEAN, m \in BOOLEAN, d \in BOOLEAN :
          Sync(done, m, d) /\ dirty' = FALSE /\ pc = "open"
    BY <1>4 DEF FClose
  <2> QED BY <2>1, SyncDoes DEF Usable
<1>5. CASE OpenFile \/ WindowMoves \/ Truncate
  <2>1. synced' = FALSE
    BY <1>5 DEF OpenFile, OpenCreate, OpenExisting, OpenAppend, OpenFails, Opened, WindowMoves,
                Truncate, FTruncate, TruncateFails, Abort
  <2> QED BY <2>1
<1>6. CASE Read
  <2>1. synced' = FALSE \/ (pc \in Busy /\ synced' = synced)
    BY <1>6 DEF Read, FRead, ReadFollow, ReadDirect, ReadBuffered, ReadFails, ReadEnds, Abort,
                Advance, InCluster, Busy
  <2> QED BY <1>2, <2>1
<1>7. CASE Write
  <2>1. synced' = FALSE \/ (pc \in Busy /\ synced' = synced)
    BY <1>7 DEF Write, FWrite, WriteFollow, WriteDirect, WriteBuffered, WriteFails, WriteEnds,
                Abort, Advance, InCluster, Busy
  <2> QED BY <1>2, <2>1
<1>8. CASE Seek
  <2>1. synced' = FALSE \/ (pc \in Busy /\ synced' = synced)
    BY <1>8 DEF Seek, FSeek, SeekFollow, SeekEnds, SeekFails, Abort, Busy
  <2> QED BY <1>2, <2>1
<1> QED BY <1>1, <1>3, <1>4, <1>5, <1>6, <1>7, <1>8 DEF Next

\* "Is there any change to the file?" (ff.c:3680): what f_sync and f_close report
\* as done is on the disk.
THEOREM SyncedIsWritten == Spec => SyncIsDurable
<1>1. FInv /\ [Next]_vars =>
        [~DiskErrors /\ synced' = TRUE /\ err = "OK" =>
           ent' = [size |-> objsize, first |-> sclust] /\ ~entDirty' /\ ~dirty']_vars
  BY SyncLeavesNothing
<1> QED BY <1>1, FileInvariant, PTL DEF Spec, SyncIsDurable

\* What a step writes to is in the file's chain.
LEMMA DataChanges ==
    ASSUME FInv, [Next]_vars, err = "OK", NEW s \in Sectors, data'[s] # data[s]
    PROVE  \E i \in 0 .. N : InClusterOf(CSize, Nth(fat, sclust)[i], s)
<1> USE Numbers
<1>1. \/ data' = data
      \/ pc \notin {"closed", "lost"} /\ data' = Flushed
      \/ WriteDirect
  <2>1. CASE UNCHANGED vars
    BY <2>1 DEF vars, disk
  <2>2. CASE OpenFile \/ WindowMoves
    BY <2>2 DEF OpenFile, OpenCreate, OpenExisting, OpenAppend, OpenFails, WindowMoves, disk
  <2>3. CASE Read
    BY <2>3 DEF Read, FRead, ReadFollow, ReadDirect, ReadBuffered, ReadFails, ReadEnds, disk,
                InCluster
  <2>4. CASE Write
    BY <2>4 DEF Write, FWrite, WriteFollow, WriteBuffered, WriteFails, WriteEnds, disk, InCluster
  <2>5. CASE Seek
    BY <2>5 DEF Seek, FSeek, SeekFollow, SeekEnds, SeekFails
  <2>6. CASE Truncate
    BY <2>6 DEF Truncate, FTruncate, TruncateFails, disk
  <2>7. CASE FSync \/ FClose
    BY <2>7 DEF FSync, FClose, Sync
  <2> QED BY <2>1, <2>2, <2>3, <2>4, <2>5, <2>6, <2>7 DEF Next
<1>2. ASSUME pc \notin {"closed", "lost"}, Flushed[s] # data[s]
      PROVE  \E i \in 0 .. N : InClusterOf(CSize, Nth(fat, sclust)[i], s)
  <2>1. Usable
    BY <1>2 DEF Usable
  <2>2. dirty = TRUE /\ s = sect
    BY <1>2, FlushedIs DEF FInv, Flags
  <2> QED BY <2>1, <2>2 DEF FInv, BufferKnown
<1>3. CASE WriteDirect
  <2>1. Turn /\ cc > 0 /\ pc \in {"write", "put"}
    BY <1>3, TurnWhen DEF WriteDirect
  <2>2. CASE s \in Here .. Here + cc - 1
    <3>1. InClusterOf(CSize, clust, s) /\ AtByte(fptr)
      BY <2>1, <2>2, DirectSectors, HereIs
    <3> DEFINE i == fptr \div bcs
    <3>2. i \in 0 .. N - 3 /\ Nth(fat, sclust)[i] = clust
      BY <3>1 DEF AtByte, HoldsByte
    <3> HIDE DEF i
    <3>3. i \in 0 .. N
      BY <3>2
    <3> QED BY <3>1, <3>2, <3>3
  <2>3. CASE s \notin Here .. Here + cc - 1
    <3>1. data'[s] = Flushed[s]
      BY <1>3, <2>3 DEF WriteDirect
    <3> QED BY <1>2, <2>1, <3>1
  <2> QED BY <2>2, <2>3
<1> QED BY <1>1, <1>2, <1>3

\* A sector that changes is in a cluster of the chain.
LEMMA WritesInChain ==
    ASSUME FInv, [Next]_vars, err = "OK", NEW c \in Clusters, NEW k \in 0 .. CSize - 1,
           data'[Clust2Sect(c) + k] # data[Clust2Sect(c) + k]
    PROVE  c \in ChainSet(sclust)
<1> USE Numbers
<1>1. Clust2Sect(c) + k \in Sectors
  BY InData
<1>2. PICK i \in 0 .. N : InClusterOf(CSize, Nth(fat, sclust)[i], Clust2Sect(c) + k)
  BY <1>1, DataChanges
<1> DEFINE d == Nth(fat, sclust)[i]
<1>3. PICK l \in 0 .. CSize - 1 : Clust2Sect(c) + k = Clust2Sect(d) + l
  BY <1>2, Spots DEF InClusterOf
<1>4. d \in Clusters
  BY <1>2 DEF InClusterOf
<1>5. c = d
  <2> HIDE DEF d
  <2> QED BY <1>3, <1>4, OneCluster
<1> QED BY <1>4, <1>5, ModelFat DEF NthSet

\* Until a call fails, nothing is written to a cluster that is not the file's
\* (f_read, f_write, f_lseek, f_truncate, f_sync, f_close).
THEOREM WritesAreOwn == Spec => WritesStayInFile
<1>1. FInv /\ [Next]_vars =>
        [err = "OK" => \A c \in Clusters :
           (\E k \in 0 .. CSize - 1 : data'[Clust2Sect(c) + k] # data[Clust2Sect(c) + k])
           => c \in ChainSet(sclust) \cup ChainSet(sclust)']_vars
  BY WritesInChain
<1> QED BY <1>1, FileInvariant, PTL DEF Spec, WritesStayInFile
-----------------------------------------------------------------------------
(* Without disk errors no cluster is lost *)

\* The clusters in use are those of the chain from h.
InUse(f, h) == {c \in Clusters : f[c] # 0} = NthSet(f, h)

\* A chain that ends after its q-th element.
LEMMA ChainEnds ==
    ASSUME NEW f, NEW h, NEW q \in 0 .. N - 1, Nth(f, h)[q + 1] \notin Clusters
    PROVE  NthSet(f, h) = {Nth(f, h)[i] : i \in 0 .. q} \cap Clusters
<1> USE Constants
<1>1. ASSUME NEW i \in 0 .. N, Nth(f, h)[i] \in Clusters  PROVE i \in 0 .. q
  <2> SUFFICES ASSUME i \notin 0 .. q  PROVE FALSE
    OBVIOUS
  <2>1. q + 1 \in 0 .. N /\ i \in q + 1 .. N
    OBVIOUS
  <2> QED BY <2>1, <1>1, NthOut
<1>2. 0 .. q \subseteq 0 .. N
  OBVIOUS
<1> QED BY <1>1, <1>2 DEF NthSet

\* The first cluster of a file.
LEMMA LinkFirst ==
    ASSUME NEW f \in Fats, InUse(f, 0), NEW c \in Clusters
    PROVE  InUse(LinkFat(f, 0, c), c)
<1> USE Constants
<1> DEFINE g == LinkFat(f, 0, c)
<1>1. NthSet(f, 0) = {}
  BY NoChain DEF NthSet
<1>2. \A d \in Clusters : f[d] = 0
  BY <1>1 DEF InUse
<1>3. g \in [Clusters -> {0} \cup Clusters \cup {EOC}] /\ g[c] = EOC /\ \A d \in Clusters \ {c} : g[d] = 0
  BY <1>2 DEF LinkFat, Fats
<1> HIDE DEF g
<1>4. Nth(g, c)[0] = c
  BY NthSteps
<1>5. Nth(g, c)[0 + 1] = EOC
  <2>1. 0 \in 0 .. N - 1
    OBVIOUS
  <2>2. Nth(g, c)[0 + 1] = GetF(g, Nth(g, c)[0])
    BY <2>1, NthSteps
  <2> QED BY <1>3, <1>4, <2>2 DEF GetF
<1>6. NthSet(g, c) = {Nth(g, c)[i] : i \in 0 .. 0} \cap Clusters
  <2>1. 0 \in 0 .. N - 1 /\ Nth(g, c)[0 + 1] \notin Clusters
    BY <1>5
  <2> QED BY <2>1, ChainEnds
<1>7. NthSet(g, c) = {c}
  <2>1. \A i : i \in 0 .. 0 <=> i = 0
    OBVIOUS
  <2> QED BY <1>4, <1>6, <2>1
<1>8. {d \in Clusters : g[d] # 0} = {c}
  <2>1. \A d \in Clusters : g[d] # 0 <=> d = c
    BY <1>3
  <2> QED BY <2>1
<1> QED BY <1>7, <1>8 DEF InUse, g

\* The same of a chain up to one of its clusters.
LEMMA GrowsUpTo ==
    ASSUME NEW f, NEW g, NEW h, NEW k \in 0 .. N, Nth(f, h)[k] \in Clusters, Keeps(f, g)
    PROVE  SameUpTo(f, g, h, k)
  BY NthGrows DEF SameUpTo

\* A cluster is added to the end of a chain.
LEMMA LinkNext ==
    ASSUME NEW f \in Fats, Ranked(f), NEW h, InUse(f, h), NEW q \in 0 .. N, NEW p \in Clusters,
           Nth(f, h)[q] = p, f[p] = EOC, NEW c \in Clusters, f[c] = 0
    PROVE  InUse(LinkFat(f, p, c), h)
<1> USE Constants
<1> DEFINE g == LinkFat(f, p, c)
<1>1. p # c /\ p # 0
  OBVIOUS
<1>2. g \in Fats /\ Ranked(g) /\ Keeps(f, g)
  BY <1>1, LinkKeeps
<1>3. g[c] = EOC /\ g[p] = c /\ \A d \in Clusters \ {c, p} : g[d] = f[d]
  BY <1>1 DEF LinkFat, Fats
<1> HIDE DEF g
<1>4. q <= N - 3
  BY NthShort
<1>5. q \in 0 .. N - 1 /\ q + 1 \in 0 .. N - 1 /\ q \in 0 .. q /\ (q + 1) + 1 \in 0 .. N
  BY <1>4
<1>6. \A i \in 0 .. q : Nth(f, h)[i] \in Clusters /\ Nth(g, h)[i] = Nth(f, h)[i]
  <2>1. Nth(f, h)[q] \in Clusters
    OBVIOUS
  <2>2. SameUpTo(f, g, h, q)
    BY <1>2, <2>1, GrowsUpTo
  <2>3. ASSUME NEW i \in 0 .. q  PROVE Nth(f, h)[i] \in Clusters
    <3>1. i \in 0 .. N /\ q \in i .. N
      OBVIOUS
    <3> QED BY <2>1, <3>1, NthOut
  <2> QED BY <2>2, <2>3 DEF SameUpTo
<1>7. Nth(f, h)[q + 1] = EOC
  BY <1>5, NthSteps DEF GetF
<1>8. Nth(g, h)[q + 1] = c
  <2>1. Nth(g, h)[q] = p
    BY <1>5, <1>6
  <2> QED BY <2>1, <1>3, <1>5, NthSteps DEF GetF
<1>9. Nth(g, h)[(q + 1) + 1] = EOC
  BY <1>3, <1>5, <1>8, NthSteps DEF GetF
<1>10. NthSet(f, h) = {Nth(f, h)[i] : i \in 0 .. q} \cap Clusters
  BY <1>5, <1>7, ChainEnds
<1>11. NthSet(g, h) = {Nth(g, h)[i] : i \in 0 .. q + 1} \cap Clusters
  <2> DEFINE e == q + 1
  <2>1. e \in 0 .. N - 1 /\ Nth(g, h)[e + 1] \notin Clusters
    BY <1>5, <1>9
  <2> HIDE DEF e
  <2>2. NthSet(g, h) = {Nth(g, h)[i] : i \in 0 .. e} \cap Clusters
    BY <2>1, ChainEnds
  <2> QED BY <2>2 DEF e
<1>12. \A i : i \in 0 .. q + 1 <=> i \in 0 .. q \/ i = q + 1
  BY <1>5
<1>13. NthSet(g, h) = NthSet(f, h) \cup {c}
  BY <1>6, <1>8, <1>10, <1>11, <1>12
<1>14. {d \in Clusters : g[d] # 0} = {d \in Clusters : f[d] # 0} \cup {c}
  <2>1. \A d \in Clusters : g[d] # 0 <=> f[d] # 0 \/ d = c
    BY <1>3
  <2> QED BY <2>1
<1> QED BY <1>13, <1>14 DEF InUse, g

\* A whole chain is freed.
LEMMA CutAll ==
    ASSUME NEW f \in Fats, NEW h, InUse(f, h)
    PROVE  InUse(CutFat(f, NthSet(f, h), 0), 0)
<1> USE Constants
<1> DEFINE g == CutFat(f, NthSet(f, h), 0)
<1>1. \A d \in Clusters : g[d] = 0
  BY DEF CutFat, InUse
<1> HIDE DEF g
<1>2. NthSet(g, 0) = {}
  BY NoChain DEF NthSet
<1> QED BY <1>1, <1>2 DEF InUse, g

\* A chain is cut after its m-th element p, and the rest is freed.
LEMMA CutRest ==
    ASSUME NEW f \in Fats, Ranked(f), NEW h, InUse(f, h), NEW m \in 0 .. N - 1,
           NEW p \in Clusters, Nth(f, h)[m] = p
    PROVE  InUse(CutFat(f, NthSet(f, GetF(f, p)), p), h)
<1> USE Constants
<1> DEFINE n == GetF(f, p)
           X == NthSet(f, n)
           g == CutFat(f, X, p)
<1>1. n = Nth(f, h)[m + 1] /\ m \in 0 .. N /\ m + 1 \in 0 .. N
  BY NthSteps
<1>2. Follow(f, p, X)
  BY DEF Follow, NthSet
<1> HIDE DEF X
<1>3. SameUpTo(f, g, h, m)
  BY <1>2, CutKeeps
<1>4. ASSUME NEW i \in 0 .. m  PROVE Nth(f, h)[i] \in Clusters /\ Nth(f, h)[i] \notin X
  <2>1. i \in 0 .. N /\ m \in i .. N
    OBVIOUS
  <2>2. Nth(f, h)[i] \in Clusters
    BY <2>1, NthOut
  <2>3. ASSUME Nth(f, h)[i] \in X  PROVE FALSE
    <3>1. PICK j \in 0 .. N : Nth(f, h)[i] = Nth(f, Nth(f, h)[m + 1])[j]
      BY <1>1, <1>2, <2>3 DEF Follow
    <3>2. Nth(f, Nth(f, h)[m + 1])[j] \in Clusters
      BY <2>2, <3>1
    <3>3. PICK l \in m + 1 .. N : Nth(f, h)[l] = Nth(f, Nth(f, h)[m + 1])[j]
      BY <3>2, NthRest
    <3>4. i \in 0 .. N /\ l \in 0 .. N /\ i < l
      OBVIOUS
    <3> QED BY <2>2, <3>1, <3>3, <3>4, NthDistinct
  <2> QED BY <2>2, <2>3
<1>5. p \notin X
  <2>1. m \in 0 .. m
    OBVIOUS
  <2> QED BY <1>4, <2>1
<1>6. g[p] = EOC /\ \A d \in Clusters : d # p => g[d] = IF d \in X THEN 0 ELSE f[d]
  BY <1>5 DEF CutFat
<1>7. f[p] # 0
  <2>1. p \in NthSet(f, h)
    BY <1>1 DEF NthSet
  <2> QED BY <2>1 DEF InUse
<1>8. {d \in Clusters : g[d] # 0} = {d \in Clusters : f[d] # 0} \ X
  <2> HIDE DEF g
  <2>1. \A d \in Clusters : g[d] # 0 <=> f[d] # 0 /\ d \notin X
    BY <1>5, <1>6, <1>7
  <2> QED BY <2>1
<1> HIDE DEF g
<1>9. Nth(g, h)[m + 1] = EOC
  <2>1. Nth(g, h)[m] = p
    BY <1>3 DEF SameUpTo
  <2> QED BY <2>1, <1>6, NthSteps DEF GetF
<1>10. NthSet(g, h) = {Nth(g, h)[i] : i \in 0 .. m} \cap Clusters
  BY <1>9, ChainEnds
<1>11. NthSet(g, h) = {Nth(f, h)[i] : i \in 0 .. m}
  BY <1>3, <1>4, <1>10 DEF SameUpTo
<1>12. ASSUME NEW d \in NthSet(f, h)
       PROVE  (\E i \in 0 .. m : d = Nth(f, h)[i]) \/ d \in X
  <2>1. PICK i \in 0 .. N : d = Nth(f, h)[i] /\ d \in Clusters
    BY DEF NthSet
  <2>2. CASE i \in 0 .. m
    BY <2>1, <2>2
  <2>3. CASE i \notin 0 .. m
    <3> DEFINE j == i - (m + 1)
    <3>1. j \in 0 .. N - (m + 1) /\ (m + 1) + j = i /\ j \in 0 .. N
      BY <2>3
    <3> HIDE DEF j
    <3>2. Nth(f, Nth(f, h)[m + 1])[j] = Nth(f, h)[(m + 1) + j]
      BY <1>1, <3>1, NthTail
    <3>3. d = Nth(f, n)[j]
      BY <1>1, <2>1, <3>1, <3>2
    <3> QED BY <2>1, <3>1, <3>3 DEF X, NthSet
  <2> QED BY <2>2, <2>3
<1>13. \A i \in 0 .. m : Nth(f, h)[i] \in NthSet(f, h)
  BY <1>4 DEF NthSet
<1>14. NthSet(g, h) = NthSet(f, h) \ X
  BY <1>4, <1>11, <1>12, <1>13
<1> QED BY <1>8, <1>14 DEF InUse, g, X

\* The chain is that of the open file, or of the entry of a closed one.
Owner == IF pc = "closed" THEN ent.first ELSE sclust
OwnInv == ~DiskErrors => err = "OK" /\ pc # "lost" /\ InUse(fat, Owner)

\* Allocating a cluster at the end of the chain from h, or the first one, adds it
\* to the chain; it never finds a broken chain.
LEMMA CreateOwns ==
    ASSUME fat \in Fats, Ranked(fat), NEW h, InUse(fat, h), NEW p \in {0} \cup Clusters, NEW c,
           CreateChain(p, c), p = 0 => h = 0,
           p # 0 => \E q \in 0 .. N : Nth(fat, h)[q] = p
    PROVE  c \in {0} \cup Clusters /\ InUse(fat', IF p = 0 THEN c ELSE h)
<1> USE Constants
<1>1. CASE p # 0 /\ GetFat(p) \in Clusters /\ c = GetFat(p) /\ UNCHANGED fat
  BY <1>1
<1>2. CASE p # 0 /\ GetFat(p) < 2 /\ c = 1 /\ UNCHANGED fat
  <2>1. p \in Clusters /\ p \in NthSet(fat, h)
    BY <1>2 DEF NthSet
  <2>2. fat[p] # 0
    BY <2>1 DEF InUse
  <2>3. fat[p] \in Clusters \cup {EOC}
    BY <2>1, <2>2 DEF Fats
  <2>4. ~(fat[p] < 2)
    BY <2>3 DEF Clusters
  <2> QED BY <1>2, <2>1, <2>4 DEF GetFat
<1>3. CASE (p = 0 \/ GetFat(p) = EOC) /\ FreeSet = {} /\ c = 0 /\ UNCHANGED fat
  BY <1>3
<1>4. CASE (p = 0 \/ GetFat(p) = EOC) /\ c \in FreeSet /\ fat' = Linked(p, c)
  <2>1. c \in Clusters /\ fat[c] = 0 /\ fat' = LinkFat(fat, p, c)
    BY <1>4, ModelFat DEF FreeSet
  <2>2. CASE p = 0
    BY <2>1, <2>2, LinkFirst
  <2>3. CASE p # 0
    <3>1. PICK q \in 0 .. N : Nth(fat, h)[q] = p
      BY <2>3
    <3>2. p \in Clusters /\ fat[p] = EOC
      BY <1>4, <2>3 DEF GetFat
    <3>3. InUse(LinkFat(fat, p, c), h)
      BY <2>1, <3>1, <3>2, LinkNext
    <3> QED BY <2>1, <2>3, <3>3
  <2> QED BY <2>1, <2>2, <2>3
<1> QED BY <1>1, <1>2, <1>3, <1>4 DEF CreateChain

\* The place of the current cluster in the chain.
LEMMA CurrentInChain ==
    ASSUME FInv, NEW p \in Nat, AtByte(p)
    PROVE  clust # 0 /\ clust \in {0} \cup Clusters /\ \E q \in 0 .. N : Nth(fat, sclust)[q] = clust
<1> DEFINE q == p \div bcs
<1>1. q \in 0 .. N - 3 /\ clust \in Clusters /\ Nth(fat, sclust)[q] = clust
  BY DEF AtByte, HoldsByte
<1> HIDE DEF q
<1>2. q \in 0 .. N
  BY <1>1, Constants
<1> QED BY <1>1, <1>2, Constants

\* A step of an open file that changes neither the FAT nor the file's chain.
LEMMA QuietStep ==
    ASSUME OwnInv, UNCHANGED <<vol, fat, sclust, err>>, pc # "closed",
           pc' \notin {"closed", "lost"}
    PROVE  OwnInv'
BY SameVolume DEF OwnInv, Owner

\* A new file, and a file that is opened.
LEMMA OpenOwns ==
    ASSUME FInv, OwnInv, ~DiskErrors, UNCHANGED vol, OpenFile
    PROVE  OwnInv'
<1>1. err = "OK" /\ pc # "lost" /\ InUse(fat, Owner)
  BY DEF OwnInv
<1>2. CASE OpenCreate
  <2>1. pc = "closed" /\ fat' = CutFat(fat, NthSet(fat, ent.first), 0)
        /\ sclust' = 0 /\ pc' = "open" /\ err' = "OK"
    BY <1>1, <1>2, ModelFat DEF OpenCreate, Cleared, Opened
  <2>2. fat \in Fats /\ InUse(fat, ent.first)
    BY <1>1, <2>1 DEF FInv, Types, Owner
  <2>3. InUse(fat', 0)
    BY <2>1, <2>2, CutAll
  <2> QED BY <2>1, <2>3 DEF OwnInv, Owner
<1>3. CASE OpenAppend \/ \E w \in BOOLEAN : OpenExisting(w)
  <2>1. pc = "closed" /\ fat' = fat /\ sclust' = ent.first /\ pc' = "open" /\ err' = "OK"
    BY <1>1, <1>3 DEF OpenAppend, OpenExisting, Openable, Opened, disk
  <2> QED BY <1>1, <2>1 DEF OwnInv, Owner
<1>4. CASE OpenFails
  BY <1>4 DEF OpenFails
<1> QED BY <1>2, <1>3, <1>4 DEF OpenFile

\* f_read follows a chain that never breaks.
LEMMA ReadOwns ==
    ASSUME FInv, OwnInv, ~DiskErrors, UNCHANGED vol, Read
    PROVE  OwnInv'
<1>1. CASE ReadFollow
  <2>1. pc = "read" /\ (IF fptr = 0 THEN sclust ELSE GetFat(clust)) \in Clusters
    BY <1>1, ReadCluster DEF ReadFollow
  <2>2. pc' = "get" /\ UNCHANGED <<fat, sclust, err>>
    BY <1>1, <2>1 DEF ReadFollow, disk, obj
  <2> QED BY <2>1, <2>2, QuietStep
<1>2. CASE ReadFails
  BY <1>2 DEF ReadFails
<1>3. CASE (\E n \in Lengths : FRead(n)) \/ ReadDirect \/ ReadBuffered \/ ReadEnds
  <2>1. pc # "closed" /\ pc' \notin {"closed", "lost"} /\ UNCHANGED <<fat, sclust, err>>
    BY <1>3 DEF FRead, ReadDirect, ReadBuffered, ReadEnds, Advance, InCluster, LoopEnds, disk, obj
  <2> QED BY <2>1, QuietStep
<1> QED BY <1>1, <1>2, <1>3 DEF Read

\* f_write adds the clusters it allocates to the chain.
LEMMA WriteOwns ==
    ASSUME FInv, OwnInv, ~DiskErrors, UNCHANGED vol, Write
    PROVE  OwnInv'
<1> USE Numbers
<1>1. CASE WriteFollow
  <2>1. pc = "write" /\ call.left > 0 /\ OnCluster /\ Usable /\ sclust \in {0} \cup Clusters
    BY <1>1 DEF WriteFollow, FInv, Calls, Busy, Usable, Types
  <2>2. InUse(fat, sclust) /\ err = "OK"
    BY <2>1 DEF OwnInv, Owner
  <2>3. PICK c \in 0 .. N - 1 :
        /\ IF fptr = 0 /\ sclust # 0 THEN c = sclust /\ UNCHANGED fat
           ELSE CreateChain(IF fptr = 0 THEN 0 ELSE clust, c)
        /\ \/ /\ c \in Clusters
              /\ clust' = c /\ sclust' = IF sclust = 0 THEN c ELSE sclust
              /\ pc' = "put" /\ UNCHANGED <<call, err, synced>>
           \/ /\ c = 0
              /\ call' = [call EXCEPT !.left = 0]
              /\ UNCHANGED <<sclust, clust, pc, err, synced>>
           \/ c = 1 /\ Abort("INT_ERR") /\ UNCHANGED <<sclust, clust>>
    BY <1>1 DEF WriteFollow
  <2>4. fptr # 0 => sclust # 0 /\ clust # 0 /\ clust \in {0} \cup Clusters
                    /\ \E q \in 0 .. N : Nth(fat, sclust)[q] = clust
    <3> SUFFICES ASSUME fptr # 0
                 PROVE  sclust # 0 /\ clust # 0 /\ clust \in {0} \cup Clusters
                        /\ \E q \in 0 .. N : Nth(fat, sclust)[q] = clust
      OBVIOUS
    <3>1. AtByte(fptr - 1) /\ fptr - 1 \in Nat
      BY <2>1 DEF FInv, Pointed
    <3>2. clust # 0 /\ clust \in {0} \cup Clusters /\ \E q \in 0 .. N : Nth(fat, sclust)[q] = clust
      BY <3>1, CurrentInChain
    <3>3. sclust # 0
      BY <3>2, NoChain
    <3> QED BY <3>2, <3>3
  <2>5. c \in {0} \cup Clusters /\ InUse(fat', IF sclust = 0 THEN c ELSE sclust)
    <3>1. CASE fptr = 0 /\ sclust # 0
      BY <2>1, <2>2, <2>3, <3>1
    <3>2. CASE fptr = 0 /\ sclust = 0
      <4>1. CreateChain(0, c) /\ InUse(fat, 0)
        BY <2>2, <2>3, <3>2
      <4>2. c \in {0} \cup Clusters /\ InUse(fat', IF 0 = 0 THEN c ELSE 0)
        BY <4>1, CreateOwns
      <4> QED BY <3>2, <4>2
    <3>3. CASE fptr # 0
      <4>1. CreateChain(clust, c)
        BY <2>3, <3>3
      <4>2. c \in {0} \cup Clusters /\ InUse(fat', IF clust = 0 THEN c ELSE sclust)
        BY <2>2, <2>4, <3>3, <4>1, CreateOwns
      <4> QED BY <2>4, <3>3, <4>2
    <3> QED BY <3>1, <3>2, <3>3
  <2>6. c # 1
    BY <2>5, Constants
  <2>7. pc' \in {"put", "write"} /\ err' = err
        /\ (c # 0 => sclust' = IF sclust = 0 THEN c ELSE sclust)
        /\ (c = 0 => sclust' = sclust)
    BY <2>1, <2>3, <2>6, Constants
  <2>8. InUse(fat', sclust')
    BY <2>5, <2>7
  <2> QED BY <2>2, <2>7, <2>8 DEF OwnInv, Owner
<1>2. CASE WriteFails
  BY <1>2 DEF WriteFails
<1>3. CASE (\E b \in Buffers, n \in Lengths : FWrite(b, n)) \/ WriteDirect \/ WriteBuffered
           \/ WriteEnds
  <2>1. pc # "closed" /\ pc' \notin {"closed", "lost"} /\ UNCHANGED <<fat, sclust, err>>
    BY <1>3 DEF FWrite, WriteDirect, WriteBuffered, WriteEnds, Advance, InCluster, LoopEnds, disk,
                obj
  <2> QED BY <2>1, QuietStep
<1> QED BY <1>1, <1>2, <1>3 DEF Write

\* f_lseek adds the clusters it allocates to the chain, and finds it whole.
LEMMA SeekOwns ==
    ASSUME FInv, OwnInv, ~DiskErrors, UNCHANGED vol, Seek
    PROVE  OwnInv'
<1> USE Numbers
<1>1. CASE \E to \in Offsets : FSeek(to)
  <2>1. pc = "open" /\ err = "OK" /\ pc' = "seek" /\ err' = "OK"
    BY <1>1 DEF FSeek
  <2>2. InUse(fat, sclust)
    BY <2>1 DEF OwnInv, Owner
  <2>3. \/ UNCHANGED <<fat, sclust>>
        \/ \E c : CreateChain(0, c) /\ sclust = 0 /\ sclust' = c
    BY <1>1 DEF FSeek
  <2>4. InUse(fat', sclust')
    <3>1. ASSUME NEW c, CreateChain(0, c), sclust = 0, sclust' = c  PROVE InUse(fat', sclust')
      <4>1. InUse(fat', IF 0 = 0 THEN c ELSE 0)
        BY <2>2, <3>1, CreateOwns
      <4> QED BY <3>1, <4>1
    <3> QED BY <2>2, <2>3, <3>1
  <2> QED BY <2>1, <2>4 DEF OwnInv, Owner
<1>2. CASE SeekFollow
  <2>1. pc = "seek" /\ call.left > bcs /\ Usable /\ wr \in BOOLEAN /\ err = "OK"
        /\ sclust' = sclust /\ call.left > 0
    <3>1. pc = "seek" /\ call.left > bcs /\ sclust' = sclust
      BY <1>2 DEF SeekFollow
    <3>2. Usable /\ wr \in BOOLEAN /\ err = "OK"
      BY <3>1 DEF FInv, Calls, Busy, Usable, Flags
    <3>3. call.left > 0
      BY <3>1
    <3> QED BY <3>1, <3>2, <3>3
  <2>2. InUse(fat, sclust)
    BY <2>1 DEF OwnInv, Owner
  <2>3. PICK c \in 0 .. N :
        /\ IF wr = TRUE THEN CreateChain(clust, c) ELSE c = GetFat(clust) /\ UNCHANGED fat
        /\ \/ c \in Clusters /\ UNCHANGED <<err, pc>>
           \/ c = 0 /\ wr = TRUE /\ UNCHANGED <<err, pc>>
           \/ c \in {1, EOC} \/ (c = 0 /\ wr = FALSE)
    BY <1>2, <2>1 DEF SeekFollow
  <2>4. AtByte(fptr) /\ (wr = FALSE => fptr + call.left <= objsize)
    BY <2>1 DEF FInv, Pointed
  <2>5. clust # 0 /\ clust \in {0} \cup Clusters /\ \E q \in 0 .. N : Nth(fat, sclust)[q] = clust
    BY <2>4, CurrentInChain
  <2>6. CASE wr = TRUE
    <3>1. CreateChain(clust, c)
      BY <2>3, <2>6
    <3>2. c \in {0} \cup Clusters /\ InUse(fat', IF clust = 0 THEN c ELSE sclust)
      BY <2>2, <2>5, <3>1, CreateOwns
    <3>3. c # 1 /\ c # EOC
      BY <3>2, Constants
    <3>4. UNCHANGED <<err, pc>>
      BY <2>3, <2>6, <3>3
    <3> QED BY <2>1, <2>5, <3>2, <3>4 DEF OwnInv, Owner
  <2>7. CASE wr = FALSE
    <3>1. c = GetFat(clust) /\ fat' = fat
      BY <2>3, <2>7
    <3>2. GetF(fat, clust) \in Clusters
      <4> DEFINE a == fptr
                 b == bcs
                 q == a \div b
      <4>1. a % b = 0 /\ q \in 0 .. N - 3 /\ Nth(fat, sclust)[q] = clust
            /\ a + b < objsize /\ a \in Nat /\ b \in Nat \ {0}
        <5>1. a % b = 0 /\ q \in 0 .. N - 3 /\ Nth(fat, sclust)[q] = clust
          BY <2>1, <2>4 DEF FInv, Pointed, AtByte, HoldsByte
        <5>2. a + b < objsize
          BY <2>1, <2>4, <2>7
        <5> QED BY <5>1, <5>2
      <4>2. Covers(b, fat, objsize, sclust)
        BY <2>1 DEF FInv, Covered
      <4> HIDE DEF a, b
      <4>3. a + b \in Nat /\ (a + b) \div b = q + 1
        <5>1. NextStart(b, a)
          BY <4>1, NextStarts
        <5> QED BY <5>1 DEF NextStart
      <4> HIDE DEF q
      <4>4. Nth(fat, sclust)[(a + b) \div b] \in Clusters
        BY <4>1, <4>2, <4>3, CoversAt
      <4>5. q \in 0 .. N - 1
        BY <4>1
      <4>6. Nth(fat, sclust)[q + 1] = GetF(fat, Nth(fat, sclust)[q])
        BY <4>5, NthSteps
      <4> QED BY <4>1, <4>3, <4>4, <4>6
    <3>3. c \in Clusters
      BY <3>1, <3>2, ModelFat
    <3>4. c # 0 /\ c # 1 /\ c # EOC
      BY <3>3, Constants
    <3>5. UNCHANGED <<err, pc>>
      BY <2>3, <2>7, <3>4
    <3> QED BY <2>1, <2>2, <3>1, <3>5 DEF OwnInv, Owner
  <2> QED BY <2>1, <2>6, <2>7
<1>3. CASE SeekEnds
  <2>1. pc # "closed" /\ pc' \notin {"closed", "lost"} /\ UNCHANGED <<fat, sclust, err>>
    BY <1>3 DEF SeekEnds
  <2> QED BY <2>1, QuietStep
<1>4. CASE SeekFails
  BY <1>4 DEF SeekFails
<1> QED BY <1>1, <1>2, <1>3, <1>4 DEF Seek

\* f_truncate frees what it cuts off.
LEMMA TruncateOwns ==
    ASSUME FInv, OwnInv, ~DiskErrors, UNCHANGED vol, Truncate
    PROVE  OwnInv'
<1> USE Numbers
<1>1. CASE TruncateFails
  BY <1>1 DEF TruncateFails
<1>2. CASE FTruncate
  <2>1. pc = "open" /\ err = "OK" /\ pc' = "open" /\ err' = "OK" /\ Usable
    BY <1>2 DEF FTruncate, Usable
  <2>2. InUse(fat, sclust)
    BY <2>1 DEF OwnInv, Owner
  <2>3. \/ UNCHANGED <<fat, sclust>>
        \/ fptr = 0 /\ fat' = Removed(sclust, 0) /\ sclust' = 0
        \/ fptr # 0 /\ sclust' = sclust /\ fat' = Removed(GetFat(clust), clust)
    BY <1>2 DEF FTruncate, disk, obj
  <2>4. InUse(fat', sclust')
    <3>1. CASE fptr = 0 /\ fat' = Removed(sclust, 0) /\ sclust' = 0
      BY <2>2, <3>1, CutAll, ModelFat
    <3>2. CASE fptr # 0 /\ sclust' = sclust /\ fat' = Removed(GetFat(clust), clust)
      <4> DEFINE m == (fptr - 1) \div bcs
      <4>1. m \in 0 .. N - 3 /\ clust \in Clusters /\ Nth(fat, sclust)[m] = clust
        BY <2>1, <3>2 DEF FInv, Pointed, AtByte, HoldsByte
      <4> HIDE DEF m
      <4>2. m \in 0 .. N - 1
        BY <4>1
      <4>3. InUse(CutFat(fat, NthSet(fat, GetF(fat, clust)), clust), sclust)
        BY <2>2, <4>1, <4>2, CutRest
      <4> QED BY <3>2, <4>3, ModelFat
    <3> QED BY <2>2, <2>3, <3>1, <3>2
  <2> QED BY <2>1, <2>4 DEF OwnInv, Owner
<1> QED BY <1>1, <1>2 DEF Truncate

\* f_sync and f_close; the entry of a file that is closed leads to its chain.
LEMMA CloseOwns ==
    ASSUME FInv, OwnInv, ~DiskErrors, UNCHANGED vol, FSync \/ FClose \/ WindowMoves
    PROVE  OwnInv'
<1>1. err = "OK" /\ pc # "lost" /\ InUse(fat, Owner)
  BY DEF OwnInv
<1>2. CASE FSync
  <2>1. pc # "closed" /\ pc' \notin {"closed", "lost"} /\ UNCHANGED <<fat, sclust, err>>
    BY <1>2 DEF FSync, obj
  <2> QED BY <2>1, QuietStep
<1>3. CASE FClose
  <2>1. PICK done \in BOOLEAN, m \in BOOLEAN, d \in BOOLEAN :
          Sync(done, m, d) /\ pc' = IF done = TRUE /\ err = "OK" THEN "closed" ELSE "lost"
    BY <1>3 DEF FClose
  <2>2. pc = "open" /\ fat' = fat /\ err' = "OK" /\ Usable
    BY <1>1, <1>3 DEF FClose, Usable
  <2>3. done = TRUE /\ ent' = [size |-> objsize, first |-> sclust]
    BY <2>1, <2>2, SyncDoes
  <2>4. pc' = "closed" /\ ent'.first = sclust
    BY <1>1, <2>1, <2>3
  <2> QED BY <1>1, <2>2, <2>4 DEF OwnInv, Owner
<1>4. CASE WindowMoves
  BY <1>1, <1>4 DEF WindowMoves, OwnInv, Owner, disk, obj
<1> QED BY <1>2, <1>3, <1>4

\* Without disk errors no call fails, and what is in use is the file's.
THEOREM ChainIsAll == Spec => []OwnInv
<1>1. Init => OwnInv
  <2> SUFFICES ASSUME Init  PROVE OwnInv
    OBVIOUS
  <2>1. err = "OK" /\ pc = "closed" /\ ent.first = 0 /\ \A c \in Clusters : fat[c] = 0
    BY DEF Init
  <2>2. NthSet(fat, 0) = {}
    BY NoChain DEF NthSet
  <2> QED BY <2>1, <2>2 DEF OwnInv, Owner, InUse
<1>2. FInv /\ OwnInv /\ [Next]_vars => OwnInv'
  <2> SUFFICES ASSUME FInv, OwnInv, [Next]_vars  PROVE OwnInv'
    OBVIOUS
  <2>1. CASE UNCHANGED vars
    BY <2>1, SameVolume DEF OwnInv, Owner, vars, disk, dir, obj
  <2>2. CASE Next
    <3>1. UNCHANGED vol
      BY <2>2 DEF Next
    <3>2. DiskErrors' = DiskErrors
      BY <3>1, SameVolume
    <3>3. CASE DiskErrors
      BY <3>2, <3>3 DEF OwnInv
    <3>4. CASE ~DiskErrors
      BY <2>2, <3>1, <3>4, OpenOwns, ReadOwns, WriteOwns, SeekOwns, TruncateOwns, CloseOwns
      DEF Next
    <3> QED BY <3>3, <3>4
  <2> QED BY <2>1, <2>2
<1> QED BY <1>1, <1>2, FileInvariant, PTL DEF Spec

\* Without disk errors no cluster is allocated and then forgotten: between calls
\* those in use are the file's chain (create_chain, remove_chain).
THEOREM NothingIsLeaked == Spec => []NothingLeaks
<1>1. OwnInv => NothingLeaks
  <2> SUFFICES ASSUME OwnInv, ~DiskErrors, pc \in {"open", "closed"}
               PROVE  {c \in Clusters : fat[c] # 0}
                        = ChainSet(IF pc = "open" THEN sclust ELSE ent.first)
    BY DEF NothingLeaks
  <2>1. InUse(fat, Owner)
    BY DEF OwnInv
  <2> QED BY <2>1, ModelFat DEF InUse, Owner
<1> QED BY <1>1, ChainIsAll, PTL
-----------------------------------------------------------------------------
(* The file as a sequence of bytes *)

\* Byte i of the file with the chain of h, read from the sectors m.
ByteAt(C, f, h, m, i) == m[Spot(C, f, h, i)][(i % SS) + 1]
Seen(C, f, h, m, n) == [j \in 1 .. n |-> ByteAt(C, f, h, m, j - 1)]

\* A sequence is a function on its indexes.
LEMMA FunSeq ==
    ASSUME NEW S, NEW n \in Nat, NEW w \in [1 .. n -> S]
    PROVE  w \in Seq(S) /\ Len(w) = n
OBVIOUS

\* There is one sequence without elements.
LEMMA FunEmpty ==
    ASSUME NEW S, NEW w \in [1 .. 0 -> S]
    PROVE  w = <<>>
<1>1. w \in Seq(S) /\ Len(w) = 0
  BY FunSeq
<1> QED BY <1>1, EmptySeq

\* Where a byte of the file is on the disk.
LEMMA ByteSpot ==
    ASSUME FInv, NEW f, Ranked(f), NEW h, NEW n \in Nat, Covers(bcs, f, n, h),
           NEW i \in Nat, i < n
    PROVE  /\ Spot(CSize, f, h, i) \in Sectors /\ (i % SS) + 1 \in 1 .. SS
           /\ (i \div SS) % CSize \in 0 .. CSize - 1
           /\ i \div bcs \in 0 .. N /\ Nth(f, h)[i \div bcs] \in Clusters
           /\ Spot(CSize, f, h, i) = Clust2Sect(Nth(f, h)[i \div bcs]) + ((i \div SS) % CSize)
<1> USE Numbers
<1> DEFINE C == CSize
           q == i \div (C * SS)
           z == (i \div SS) % C
           y == i % SS
<1>1. C \in Nat \ {0} /\ SS \in Nat \ {0} /\ bcs = C * SS
  OBVIOUS
<1>2. IsPlace(C, SS, i, q, z, y)
  BY <1>1, PlaceOf
<1>3. z \in 0 .. C - 1 /\ y \in 0 .. SS - 1
  BY <1>2 DEF IsPlace
<1>4. q \in 0 .. N - 3 /\ Nth(f, h)[q] \in Clusters
  BY <1>1, CoversAt
<1>5. Spot(C, f, h, i) = Clust2Sect(Nth(f, h)[q]) + z
  BY Spots DEF Spot
<1> HIDE DEF q, z, y, C
<1>6. q \in 0 .. N
  BY <1>4
<1>7. y + 1 \in 1 .. SS
  BY <1>1, <1>3
<1>8. Clust2Sect(Nth(f, h)[q]) + z \in Sectors
  BY <1>3, <1>4, InData DEF C
<1> QED BY <1>1, <1>3, <1>4, <1>5, <1>6, <1>7, <1>8 DEF q, z, y, C

\* A byte's sector, by its cluster and its place in it.
LEMMA SectorPlace ==
    ASSUME NEW C \in Nat \ {0}, NEW s \in Nat \ {0}, NEW a \in Nat
    PROVE  a \div s = (a \div (C * s)) * C + ((a \div s) % C)
<1> DEFINE q == a \div (C * s)
           z == (a \div s) % C
           y == a % s
<1>1. IsPlace(C, s, a, q, z, y)
  BY PlaceOf
<1> HIDE DEF q, z, y
<1>2. a \div s = q * C + z
  BY <1>1, PlaceIs
<1> QED BY <1>2 DEF q, z

\* Two bytes in the same sector of the disk are in the same sector of the file.
LEMMA SpotOnce ==
    ASSUME FInv, NEW f, Ranked(f), NEW h, NEW n \in Nat, Covers(bcs, f, n, h),
           NEW i \in Nat, i < n, NEW j \in Nat, j < n,
           Spot(CSize, f, h, i) = Spot(CSize, f, h, j)
    PROVE  i \div SS = j \div SS
<1> USE Numbers
<1> DEFINE C == CSize
           q == i \div bcs
           p == j \div bcs
           z == (i \div SS) % C
           x == (j \div SS) % C
<1>1. /\ z \in 0 .. CSize - 1 /\ q \in 0 .. N /\ Nth(f, h)[q] \in Clusters
      /\ Spot(CSize, f, h, i) = Clust2Sect(Nth(f, h)[q]) + z
  BY ByteSpot
<1>2. /\ x \in 0 .. CSize - 1 /\ p \in 0 .. N /\ Nth(f, h)[p] \in Clusters
      /\ Spot(CSize, f, h, j) = Clust2Sect(Nth(f, h)[p]) + x
  BY ByteSpot
<1>3. C \in Nat \ {0} /\ SS \in Nat \ {0} /\ bcs = C * SS
  OBVIOUS
<1>4. i \div SS = q * C + z /\ j \div SS = p * C + x
  BY <1>3, SectorPlace
<1> HIDE DEF q, p, z, x, C
<1>5. Nth(f, h)[q] = Nth(f, h)[p] /\ z = x
  <2>1. Clust2Sect(Nth(f, h)[q]) + z = Clust2Sect(Nth(f, h)[p]) + x
    BY <1>1, <1>2
  <2> QED BY <1>1, <1>2, <2>1, OneCluster
<1>6. q = p
  <2>1. ~(q < p)
    BY <1>1, <1>2, <1>5, NthDistinct
  <2>2. ~(p < q)
    BY <1>1, <1>2, <1>5, NthDistinct
  <2>3. q \in Nat /\ p \in Nat
    BY <1>1, <1>2
  <2> QED BY <2>1, <2>2, <2>3
<1> QED BY <1>4, <1>5, <1>6

\* A file's bytes are a sequence of bytes.
LEMMA SeenIs ==
    ASSUME FInv, NEW f, Ranked(f), NEW h, NEW n \in Nat, Covers(bcs, f, n, h),
           NEW m \in [Sectors -> Sector]
    PROVE  /\ Seen(CSize, f, h, m, n) \in Seq(Byte) /\ Len(Seen(CSize, f, h, m, n)) = n
           /\ \A i \in Nat : i < n => Seen(CSize, f, h, m, n)[i + 1] = ByteAt(CSize, f, h, m, i)
<1> USE Numbers
<1>1. ASSUME NEW i \in Nat, i < n  PROVE ByteAt(CSize, f, h, m, i) \in Byte
  <2>1. Spot(CSize, f, h, i) \in Sectors /\ (i % SS) + 1 \in 1 .. SS
    BY <1>1, ByteSpot
  <2> QED BY <2>1 DEF ByteAt, Sector
<1>2. ASSUME NEW j \in 1 .. n  PROVE ByteAt(CSize, f, h, m, j - 1) \in Byte
  <2>1. j - 1 \in Nat /\ j - 1 < n
    OBVIOUS
  <2> QED BY <1>1, <2>1
<1>3. Seen(CSize, f, h, m, n) \in [1 .. n -> Byte]
  BY <1>2 DEF Seen
<1>4. ASSUME NEW i \in Nat, i < n
      PROVE  Seen(CSize, f, h, m, n)[i + 1] = ByteAt(CSize, f, h, m, i)
  <2>1. i + 1 \in 1 .. n /\ (i + 1) - 1 = i
    BY <1>4
  <2> QED BY <2>1 DEF Seen
<1> QED BY <1>3, <1>4, FunSeq

\* Two files whose bytes are in the same clusters have the same bytes.
Alike(b, f, h, g, k, n) ==
    \A i \in Nat : i < n => Nth(g, k)[i \div b] = Nth(f, h)[i \div b]

\* So they are the same sequence.
LEMMA SeenAlike ==
    ASSUME FInv, NEW f, NEW g, NEW h, NEW k, NEW m, NEW n \in Nat, Alike(bcs, f, h, g, k, n)
    PROVE  Seen(CSize, g, k, m, n) = Seen(CSize, f, h, m, n)
<1> USE Numbers
<1> DEFINE C == CSize
<1>1. ASSUME NEW j \in 1 .. n  PROVE ByteAt(C, g, k, m, j - 1) = ByteAt(C, f, h, m, j - 1)
  <2>1. j - 1 \in Nat /\ j - 1 < n
    OBVIOUS
  <2>2. Nth(g, k)[(j - 1) \div (C * SS)] = Nth(f, h)[(j - 1) \div (C * SS)]
    <3>1. Nth(g, k)[(j - 1) \div bcs] = Nth(f, h)[(j - 1) \div bcs]
      BY <2>1 DEF Alike
    <3> QED BY <3>1
  <2> HIDE DEF C
  <2> QED BY <2>2 DEF ByteAt, Spot
<1> QED BY <1>1 DEF Seen

\* So have those of a chain that has only grown.
LEMMA SeenGrows ==
    ASSUME FInv, NEW n \in Nat, Covers(bcs, fat, n, sclust), NEW g, Keeps(fat, g), NEW k,
           sclust # 0 => k = sclust, NEW m
    PROVE  Seen(CSize, g, k, m, n) = Seen(CSize, fat, sclust, m, n)
<1> USE Numbers
<1>1. ASSUME NEW i \in Nat, i < n  PROVE Nth(g, k)[i \div bcs] = Nth(fat, sclust)[i \div bcs]
  <2> DEFINE q == i \div bcs
  <2>1. q \in 0 .. N /\ Nth(fat, sclust)[q] \in Clusters
    BY <1>1, ByteSpot
  <2> HIDE DEF q
  <2>2. q \in 0 .. q
    BY <2>1
  <2>3. k = sclust
    BY <2>1, NoChain
  <2>4. SameUpTo(fat, g, sclust, q)
    BY <2>1, GrowsUpTo
  <2>5. Nth(g, sclust)[q] = Nth(fat, sclust)[q]
    BY <2>2, <2>4 DEF SameUpTo
  <2> QED BY <2>3, <2>5 DEF q
<1>2. Alike(bcs, fat, sclust, g, k, n)
  BY <1>1 DEF Alike
<1> QED BY <1>2, SeenAlike

\* What the program sees: the chain's sectors with the dirty buffer over them.
Sighted ==
    /\ Usable => Bytes = Seen(CSize, fat, sclust, Flushed, objsize) /\ Len(Bytes) = objsize
    /\ pc = "closed" => Bytes = Seen(CSize, fat, ent.first, data, ent.size)
                        /\ Len(Bytes) = ent.size
    /\ Bytes \in Seq(Byte)

\* That is what the refinement mapping says.
LEMMA Sight == FInv => Sighted
<1> SUFFICES ASSUME FInv  PROVE Sighted
  OBVIOUS
<1> USE Numbers
<1>1. ASSUME Usable
      PROVE  /\ Bytes = Seen(CSize, fat, sclust, Flushed, objsize)
             /\ Bytes \in Seq(Byte) /\ Len(Bytes) = objsize
  <2>1. /\ Covers(bcs, fat, objsize, sclust) /\ Flushed \in [Sectors -> Sector]
        /\ data \in [Sectors -> Sector]
    BY <1>1, FlushedIs DEF FInv, Covered, Types
  <2>2. Bytes = Content(sclust, objsize, dirty)
    BY <1>1 DEF Bytes, Usable
  <2>3. ASSUME NEW j \in 1 .. objsize
        PROVE  (IF dirty /\ SectorOf(sclust, j - 1) = sect THEN buf
                ELSE data[SectorOf(sclust, j - 1)])[((j - 1) % SS) + 1]
               = ByteAt(CSize, fat, sclust, Flushed, j - 1)
    <3>1. j - 1 \in Nat /\ j - 1 < objsize
      OBVIOUS
    <3> DEFINE s == Spot(CSize, fat, sclust, j - 1)
    <3>2. s \in Sectors
      BY <2>1, <3>1, ByteSpot
    <3>3. SectorOf(sclust, j - 1) = s
      BY Spots
    <3> HIDE DEF s
    <3>4. (IF dirty /\ s = sect THEN buf ELSE data[s]) = Flushed[s]
      BY <2>1, <3>2 DEF Flushed
    <3> QED BY <3>3, <3>4 DEF ByteAt, s
  <2>4. Bytes = Seen(CSize, fat, sclust, Flushed, objsize)
    BY <2>2, <2>3 DEF Content, Seen
  <2> QED BY <2>1, <2>4, SeenIs
<1>2. ASSUME pc = "closed"
      PROVE  /\ Bytes = Seen(CSize, fat, ent.first, data, ent.size)
             /\ Bytes \in Seq(Byte) /\ Len(Bytes) = ent.size
  <2>1. /\ Covers(bcs, fat, ent.size, ent.first) /\ ent.size \in Nat
        /\ data \in [Sectors -> Sector]
    BY <1>2 DEF FInv, Covered, Types
  <2>2. Bytes = Content(ent.first, ent.size, FALSE)
    BY <1>2 DEF Bytes
  <2>3. Bytes = Seen(CSize, fat, ent.first, data, ent.size)
    BY <2>2, Spots DEF Content, Seen, ByteAt
  <2> QED BY <2>1, <2>3, SeenIs
<1>3. ASSUME pc # "closed", ~Usable  PROVE Bytes \in Seq(Byte)
  BY <1>3, EmptySeq DEF Bytes
<1> QED BY <1>1, <1>2, <1>3 DEF Sighted

\* After a step too.
LEMMA SightNext == FInv' => Sighted'
BY Sight, PTL

\* A step that leaves the file's bytes where they are.
LEMMA SameBytes ==
    ASSUME FInv, FInv', UNCHANGED vol, Usable, Usable', Keeps(fat, fat'),
           sclust # 0 => sclust' = sclust, objsize' = objsize, Flushed' = Flushed
    PROVE  Bytes' = Bytes
<1> USE Numbers, SameVolume
<1>1. Bytes = Seen(CSize, fat, sclust, Flushed, objsize)
  BY Sight DEF Sighted
<1>2. Bytes' = Seen(CSize', fat', sclust', Flushed', objsize')
  BY SightNext DEF Sighted
<1>3. Covers(bcs, fat, objsize, sclust)
  BY DEF FInv, Covered
<1>4. Seen(CSize, fat', sclust', Flushed, objsize) = Seen(CSize, fat, sclust, Flushed, objsize)
  BY <1>3, SeenGrows
<1> QED BY <1>1, <1>2, <1>4

\* Where a seek started is in the file, and nothing is handed over after an error.
FromFits == pc = "seek" => call.from \in 0 .. objsize
IoKnown == err # "OK" => io = <<>>
RInv == FInv /\ FromFits /\ IoKnown

InFile == /\ Pos \in 0 .. Len(Bytes) /\ State = "open"
          /\ Bytes \in Seq(Byte) /\ Len(Bytes) \in Nat /\ Len(Bytes) = objsize

\* The pointer is in the file.
LEMMA PosFits == FInv /\ FromFits /\ Usable => InFile
<1> SUFFICES ASSUME FInv, FromFits, Usable  PROVE InFile
  OBVIOUS
<1>1. Bytes \in Seq(Byte) /\ Len(Bytes) = objsize
  BY Sight DEF Sighted
<1>2. fptr \in 0 .. objsize
  <2>1. fptr <= objsize
    BY DEF FInv, Pointed
  <2> QED BY <2>1, Numbers
<1>3. Pos \in 0 .. objsize
  BY <1>2 DEF Pos, FromFits
<1> QED BY <1>1, <1>3 DEF State, Usable, InFile

\* After a step too.
LEMMA PosFitsNext == FInv' /\ FromFits' /\ Usable' => InFile'
BY PosFits, PTL

\* The first elements of a sequence.
LEMMA FirstOf ==
    ASSUME NEW S, NEW w \in Seq(S), NEW k \in 0 .. Len(w)
    PROVE  /\ SubSeq(w, 1, k) \in Seq(S) /\ Len(SubSeq(w, 1, k)) = k
           /\ \A i \in 1 .. k : SubSeq(w, 1, k)[i] = w[i]
OBVIOUS

\* The first bytes of a file.
LEMMA SeenFirst ==
    ASSUME FInv, NEW f, Ranked(f), NEW h, NEW n \in Nat, Covers(bcs, f, n, h),
           NEW m \in [Sectors -> Sector], NEW k \in 0 .. n
    PROVE  SubSeq(Seen(CSize, f, h, m, n), 1, k) = Seen(CSize, f, h, m, k)
<1> USE Numbers
<1> DEFINE w == Seen(CSize, f, h, m, n)
           u == Seen(CSize, f, h, m, k)
<1>1. w \in Seq(Byte) /\ Len(w) = n /\ k \in Nat
  BY SeenIs
<1>2. Covers(bcs, f, k, h)
  BY CoversLess
<1>3. u \in Seq(Byte) /\ Len(u) = k
  BY <1>1, <1>2, SeenIs
<1>4. ASSUME NEW j \in 1 .. k  PROVE w[j] = u[j]
  <2>1. j \in 1 .. n
    OBVIOUS
  <2> QED BY <2>1 DEF Seen
<1> HIDE DEF w, u
<1>5. w \in Seq(Byte) /\ k \in 0 .. Len(w)
  BY <1>1
<1>6. /\ SubSeq(w, 1, k) \in Seq(Byte) /\ Len(SubSeq(w, 1, k)) = k
      /\ \A i \in 1 .. k : SubSeq(w, 1, k)[i] = w[i]
  BY <1>5, FirstOf
<1>7. \A i \in 1 .. k : SubSeq(w, 1, k)[i] = u[i]
  BY <1>4, <1>6
<1>8. SubSeq(w, 1, k) = u
  BY <1>3, <1>6, <1>7, SeqEqual
<1> QED BY <1>8 DEF w, u

\* A step that keeps what the file has and may grow it moves the pointer at most.
LEMMA Moves ==
    ASSUME FInv, FromFits, FInv', FromFits', UNCHANGED vol, Usable, Usable', Keeps(fat, fat'),
           sclust # 0 => sclust' = sclust, objsize <= objsize', Flushed' = Flushed, io' = <<>>
    PROVE  File!FileNext
<1> USE Numbers, SameVolume
<1>1. Bytes \in Seq(Byte) /\ Len(Bytes) = objsize /\ State = "open"
  BY PosFits DEF InFile
<1>2. /\ Pos' \in 0 .. Len(Bytes') /\ State' = "open"
      /\ Len(Bytes') \in Nat /\ Len(Bytes') = objsize'
  BY PosFitsNext DEF InFile
<1>3. Bytes = Seen(CSize, fat, sclust, Flushed, objsize)
  BY Sight DEF Sighted
<1>4. Bytes' = Seen(CSize, fat', sclust', Flushed, objsize')
  BY SightNext DEF Sighted
<1>5. /\ Covers(bcs, fat, objsize, sclust) /\ Covers(bcs, fat', objsize', sclust')
      /\ Ranked(fat') /\ Flushed \in [Sectors -> Sector]
  <2>1. Covers(bcs, fat, objsize, sclust)
    BY DEF FInv, Covered
  <2>2. Covers(bcs', fat', objsize', sclust') /\ Ranked(fat')
    BY DEF FInv, Covered, Types
  <2> QED BY <2>1, <2>2, FlushedIs DEF FInv
<1>6. objsize' \in Nat /\ objsize \in 0 .. objsize'
  BY <1>2
<1>7. SubSeq(Bytes', 1, objsize) = Seen(CSize, fat', sclust', Flushed, objsize)
  <2>1. SubSeq(Seen(CSize, fat', sclust', Flushed, objsize'), 1, objsize)
        = Seen(CSize, fat', sclust', Flushed, objsize)
    BY <1>5, <1>6, SeenFirst
  <2> QED BY <1>4, <2>1
<1>8. Seen(CSize, fat', sclust', Flushed, objsize) = Bytes
  BY <1>3, <1>5, SeenGrows
<1>9. SubSeq(Bytes', 1, Len(Bytes)) = Bytes /\ Len(Bytes') >= Len(Bytes)
  BY <1>1, <1>2, <1>7, <1>8
<1> QED BY <1>1, <1>2, <1>9 DEF File!FileNext, File!Move

\* A call fails.
LEMMA Fails ==
    ASSUME Usable, pc' = "open", err' # "OK", io' = <<>>
    PROVE  File!FileNext
<1>1. State = "open" /\ State' = "failed" /\ Bytes' = <<>> /\ Pos' = 0
  BY DEF State, Bytes, Pos, Usable
<1> QED BY <1>1 DEF File!FileNext, File!Fail

\* What stays where the buffer and the disk do.
LEMMA SameFlushed ==
    ASSUME UNCHANGED <<data, sect, buf, dirty>>
    PROVE  Flushed' = Flushed
BY DEF Flushed

\* A clean buffer adds nothing to the disk.
LEMMA CleanFlushed == dirty' = FALSE => Flushed' = data'
BY DEF Flushed

\* No link is lost.
LEMMA KeepsAll == \A f : Keeps(f, f)
BY DEF Keeps

\* The starts of f_read and f_write, and their ends, move nothing.
LEMMA CallActs ==
    ASSUME FInv, FromFits, FInv', FromFits', UNCHANGED vol,
           \/ \E n \in Lengths : FRead(n)
           \/ \E b \in Buffers, n \in Lengths : FWrite(b, n)
           \/ ReadEnds \/ WriteEnds
    PROVE  File!FileNext
<1> USE Numbers
<1>1. /\ UNCHANGED <<data, fat, sclust, objsize, sect, buf, dirty, err>> /\ io' = <<>>
      /\ pc \in {"open", "read", "write"} /\ pc' \in {"read", "write", "open"}
      /\ pc = "open" => err = "OK"
  BY DEF FRead, FWrite, ReadEnds, WriteEnds, LoopEnds, disk, dir, obj, cache, flag
<1>2. Usable /\ Usable'
  BY <1>1 DEF FInv, Calls, Busy, Usable
<1>3. objsize <= objsize' /\ Keeps(fat, fat')
  BY <1>1, KeepsAll
<1>4. Flushed' = Flushed
  BY <1>1, SameFlushed
<1> QED BY <1>1, <1>2, <1>3, <1>4, Moves

\* Following the chain moves nothing, or fails.
LEMMA ReadFollowActs ==
    ASSUME FInv, FromFits, FInv', FromFits', UNCHANGED vol, ReadFollow
    PROVE  File!FileNext
<1> USE Numbers
<1>1. /\ UNCHANGED <<data, fat, sclust, objsize, sect, buf, dirty>> /\ io' = <<>>
      /\ pc = "read" /\ Usable
      /\ \/ pc' = "get" /\ err' = err
         \/ pc' = "open" /\ err' = "INT_ERR"
  BY DEF ReadFollow, Abort, disk, dir, obj, flag, FInv, Calls, Busy, Usable
<1>2. CASE pc' = "get" /\ err' = err
  <2>1. Usable' /\ objsize <= objsize' /\ Keeps(fat, fat') /\ Flushed' = Flushed
    BY <1>1, <1>2, SameFlushed, KeepsAll DEF Usable
  <2> QED BY <1>1, <2>1, Moves
<1>3. CASE pc' = "open" /\ err' = "INT_ERR"
  BY <1>1, <1>3, Fails
<1> QED BY <1>1, <1>2, <1>3

\* So does stretching it.
LEMMA WriteFollowActs ==
    ASSUME FInv, FromFits, FInv', FromFits', UNCHANGED vol, WriteFollow
    PROVE  File!FileNext
<1> USE Numbers
<1>1. /\ UNCHANGED <<data, objsize, sect, buf, dirty>> /\ io' = <<>>
      /\ pc = "write" /\ Usable /\ call.left > 0 /\ OnCluster
  BY DEF WriteFollow, Abort, dir, flag, FInv, Calls, Busy, Usable
<1>2. PICK c \in 0 .. N - 1 :
        /\ IF fptr = 0 /\ sclust # 0 THEN c = sclust /\ UNCHANGED fat
           ELSE CreateChain(IF fptr = 0 THEN 0 ELSE clust, c)
        /\ \/ pc' = "put" /\ err' = err /\ sclust' = IF sclust = 0 THEN c ELSE sclust
           \/ pc' = pc /\ err' = err /\ sclust' = sclust
           \/ pc' = "open" /\ err' = "INT_ERR"
  BY DEF WriteFollow, Abort
<1>3. Keeps(fat, fat')
  BY <1>1, <1>2, WriteCluster
<1>4. CASE pc' \in {"put", pc} /\ err' = err /\ (sclust # 0 => sclust' = sclust)
  <2>1. Usable' /\ objsize <= objsize' /\ Flushed' = Flushed
    BY <1>1, <1>4, SameFlushed DEF Usable
  <2> QED BY <1>1, <1>3, <1>4, <2>1, Moves
<1>5. CASE pc' = "open" /\ err' = "INT_ERR"
  BY <1>1, <1>5, Fails
<1> QED BY <1>2, <1>4, <1>5

\* A disk error fails the call.
LEMMA ErrorActs ==
    ASSUME FInv, ReadFails \/ WriteFails \/ SeekFails \/ TruncateFails
    PROVE  File!FileNext
<1>1. /\ err' = "DISK_ERR" /\ pc' = "open" /\ io' = <<>>
      /\ pc \in Busy \/ (pc = "open" /\ err = "OK")
  BY DEF ReadFails, WriteFails, SeekFails, TruncateFails, Abort, InCluster, Busy
<1>2. Usable
  BY <1>1 DEF FInv, Calls, Busy, Usable
<1> QED BY <1>1, <1>2, Fails

\* A seek that starts has moved nothing yet.
LEMMA FSeekActs ==
    ASSUME FInv, FromFits, FInv', FromFits', UNCHANGED vol, NEW to \in Offsets, FSeek(to)
    PROVE  File!FileNext
<1> USE Numbers
<1>1. /\ UNCHANGED <<data, objsize, sect, buf, dirty, err>> /\ io' = <<>>
      /\ pc = "open" /\ pc' = "seek" /\ Usable /\ Usable'
      /\ \/ UNCHANGED <<fat, sclust>>
         \/ \E c \in 0 .. N - 1 :
              /\ IF sclust # 0 THEN c = sclust /\ UNCHANGED fat ELSE CreateChain(0, c)
              /\ sclust' = c
  BY DEF FSeek, dir, flag, Usable
<1>2. Keeps(fat, fat') /\ (sclust # 0 => sclust' = sclust)
  <2>1. CASE UNCHANGED fat /\ (sclust # 0 => sclust' = sclust)
    BY <2>1, KeepsAll
  <2>2. CASE sclust = 0 /\ \E c \in 0 .. N - 1 : CreateChain(0, c)
    BY <2>2, CreateKeeps
  <2> QED BY <1>1, <2>1, <2>2
<1>3. objsize <= objsize' /\ Flushed' = Flushed
  BY <1>1, SameFlushed
<1> QED BY <1>1, <1>2, <1>3, Moves

\* A turn of a seek may grow the file, or fails.
LEMMA SeekFollowActs ==
    ASSUME FInv, FromFits, FInv', FromFits', UNCHANGED vol, SeekFollow
    PROVE  File!FileNext
<1> USE Numbers
<1>1. /\ UNCHANGED <<data, sclust, sect, buf, dirty>> /\ io' = <<>>
      /\ pc = "seek" /\ Usable /\ call.left > bcs /\ objsize <= objsize'
  <2>1. /\ UNCHANGED <<data, sclust, sect, buf, dirty>> /\ io' = <<>>
        /\ pc = "seek" /\ call.left > bcs
        /\ objsize' = objsize \/ (objsize' = fptr' /\ fptr' > objsize /\ fptr' = fptr + bcs)
    BY DEF SeekFollow, Abort, dir, flag
  <2>2. Usable
    BY <2>1 DEF FInv, Calls, Busy, Usable
  <2> QED BY <2>1, <2>2
<1>2. PICK c \in 0 .. N :
        /\ IF wr = TRUE THEN CreateChain(clust, c) ELSE c = GetFat(clust) /\ UNCHANGED fat
        /\ \/ pc' = pc /\ err' = err
           \/ pc' = "open" /\ err' = "INT_ERR"
  <2>1. wr \in BOOLEAN
    BY DEF FInv, Flags
  <2> QED BY <2>1 DEF SeekFollow, Abort
<1>3. Keeps(fat, fat')
  BY <1>1, <1>2, SeekCluster
<1>4. CASE pc' = pc /\ err' = err
  <2>1. Usable' /\ Flushed' = Flushed
    BY <1>1, <1>4, SameFlushed DEF Usable
  <2> QED BY <1>1, <1>3, <2>1, Moves
<1>5. CASE pc' = "open" /\ err' = "INT_ERR"
  BY <1>1, <1>5, Fails
<1> QED BY <1>2, <1>4, <1>5

\* The end of a seek moves the pointer, and may grow the file.
LEMMA SeekEndsActs ==
    ASSUME FInv, FromFits, FInv', FromFits', UNCHANGED vol, SeekEnds
    PROVE  File!FileNext
<1> USE Numbers
<1>1. /\ UNCHANGED <<fat, sclust, err>> /\ io' = <<>>
      /\ pc = "seek" /\ pc' = "open" /\ Usable /\ Usable' /\ call.left <= bcs
      /\ fptr' = fptr + call.left /\ objsize' = Grown
      /\ \/ UNCHANGED <<data, buf, sect, dirty>>
         \/ data' = Flushed /\ dirty' = FALSE
  BY DEF SeekEnds, dir, FInv, Calls, Busy, Usable
<1>2. objsize <= objsize'
  BY <1>1, SeekGrown
<1>3. Flushed' = Flushed
  BY <1>1, SameFlushed, CleanFlushed
<1>4. Keeps(fat, fat')
  BY <1>1, KeepsAll
<1> QED BY <1>1, <1>2, <1>3, <1>4, Moves
-----------------------------------------------------------------------------
(* f_truncate, f_open, f_sync and f_close as steps of the abstract file *)

\* The first bytes of what the program sees.
LEMMA FirstBytes ==
    ASSUME FInv, Usable, NEW k \in 0 .. objsize
    PROVE  SubSeq(Bytes, 1, k) = Seen(CSize, fat, sclust, Flushed, k)
<1>1. Bytes = Seen(CSize, fat, sclust, Flushed, objsize)
  BY Sight DEF Sighted
<1>2. Covers(bcs, fat, objsize, sclust) /\ Flushed \in [Sectors -> Sector]
  BY FlushedIs DEF FInv, Covered
<1>3. objsize \in Nat /\ Ranked(fat) /\ k \in 0 .. objsize
  BY Numbers
<1>4. SubSeq(Seen(CSize, fat, sclust, Flushed, objsize), 1, k)
      = Seen(CSize, fat, sclust, Flushed, k)
  BY <1>2, <1>3, SeenFirst
<1> QED BY <1>1, <1>4

\* Cutting a file at byte k leaves its first k bytes, wherever the chain is cut.
LEMMA CutBytes ==
    ASSUME FInv, FInv', UNCHANGED vol, Usable, Usable', NEW k \in 0 .. objsize, objsize' = k,
           Flushed' = Flushed, Alike(bcs, fat, sclust, fat', sclust', k)
    PROVE  Bytes' = SubSeq(Bytes, 1, k)
<1> USE Numbers
<1>1. Bytes' = Seen(CSize, fat', sclust', Flushed, k)
  BY SightNext, SameVolume DEF Sighted
<1>2. Seen(CSize, fat', sclust', Flushed, k) = Seen(CSize, fat, sclust, Flushed, k)
  <2>1. k \in Nat
    OBVIOUS
  <2> QED BY <2>1, SeenAlike
<1> QED BY <1>1, <1>2, FirstBytes

\* Division keeps the order.
LEMMA DivMono ==
    ASSUME NEW b \in Nat \ {0}, NEW p \in Nat, NEW q \in Nat, p <= q
    PROVE  p \div b <= q \div b
<1> DEFINE x == p \div b
           y == q \div b
           r == p % b
           t == q % b
<1>1. x \in Nat /\ r \in 0 .. b - 1 /\ p = x * b + r
  BY Divides
<1>2. y \in Nat /\ t \in 0 .. b - 1 /\ q = y * b + t
  BY Divides
<1> HIDE DEF x, y, r, t
<1>3. ~(y + 1 <= x)
  <2> SUFFICES ASSUME y + 1 <= x  PROVE FALSE
    OBVIOUS
  <2>1. (y + 1) * b <= x * b
    BY <1>1, <1>2, TimesMono
  <2>2. (y + 1) * b = y * b + b /\ y * b \in Nat /\ x * b \in Nat
    BY <1>1, <1>2
  <2> QED BY <2>1, <2>2, <1>1, <1>2
<1>4. x <= y
  BY <1>1, <1>2, <1>3
<1> QED BY <1>4 DEF x, y

\* A chain that is the same up to the cluster of byte k - 1 has the same k bytes.
LEMMA AlikeUpTo ==
    ASSUME NEW b \in Nat \ {0}, NEW f, NEW g, NEW h, NEW k \in Nat \ {0},
           SameUpTo(f, g, h, (k - 1) \div b)
    PROVE  Alike(b, f, h, g, h, k)
<1> SUFFICES ASSUME NEW i \in Nat, i < k  PROVE Nth(g, h)[i \div b] = Nth(f, h)[i \div b]
  BY DEF Alike
<1> DEFINE q == i \div b
           m == (k - 1) \div b
<1>1. k - 1 \in Nat /\ i <= k - 1
  OBVIOUS
<1>2. q <= m
  BY <1>1, DivMono
<1>3. q \in Nat /\ m \in Nat
  BY <1>1, Divides
<1>4. \A j \in 0 .. m : Nth(g, h)[j] = Nth(f, h)[j]
  BY DEF SameUpTo
<1> HIDE DEF q, m
<1>5. q \in 0 .. m
  BY <1>2, <1>3
<1> QED BY <1>4, <1>5 DEF q

\* The chain up to the pointer's cluster is left as it is.
LEMMA TruncateAlike ==
    ASSUME FInv, Usable, pc = "open", fptr > 0, NEW g,
           \/ g = fat
           \/ g = CutFat(fat, NthSet(fat, GetF(fat, clust)), clust)
    PROVE  Alike(bcs, fat, sclust, g, sclust, fptr)
<1> USE Numbers
<1> DEFINE m == (fptr - 1) \div bcs
           X == NthSet(fat, GetF(fat, clust))
<1>1. m \in 0 .. N - 3 /\ clust \in Clusters /\ Nth(fat, sclust)[m] = clust
  BY DEF FInv, Pointed, AtByte, HoldsByte
<1>2. Follow(fat, clust, X)
  BY DEF NthSet, Follow
<1> HIDE DEF m, X
<1>3. m \in 0 .. N - 1 /\ fat \in Fats /\ Ranked(fat)
  BY <1>1
<1>4. SameUpTo(fat, fat, sclust, m)
  BY DEF SameUpTo
<1>5. SameUpTo(fat, CutFat(fat, X, clust), sclust, m)
  BY <1>1, <1>2, <1>3, CutKeeps
<1>6. SameUpTo(fat, g, sclust, m)
  BY <1>4, <1>5 DEF X
<1>7. fptr \in Nat \ {0} /\ bcs \in Nat \ {0}
  OBVIOUS
<1> QED BY <1>6, <1>7, AlikeUpTo DEF m

\* f_truncate cuts the file at its pointer, or leaves it.
LEMMA FTruncateActs ==
    ASSUME FInv, FromFits, FInv', FromFits', UNCHANGED vol, FTruncate
    PROVE  File!FileNext
<1> USE Numbers
<1>1. /\ pc = "open" /\ pc' = "open" /\ Usable /\ Usable' /\ io' = <<>>
      /\ UNCHANGED <<fptr, clust, sect, buf>>
  BY DEF FTruncate, cache, Usable
<1>2. CASE objsize <= fptr
  <2>1. UNCHANGED <<data, fat, sclust, objsize, dirty>>
    BY <1>2 DEF FTruncate, disk, obj, flag
  <2>2. objsize <= objsize' /\ Keeps(fat, fat') /\ Flushed' = Flushed
    BY <1>1, <2>1, SameFlushed, KeepsAll
  <2> QED BY <1>1, <2>1, <2>2, Moves
<1>3. CASE objsize > fptr
  <2>1. /\ objsize' = fptr /\ data' = Flushed /\ dirty' = FALSE
        /\ \/ fptr = 0 /\ sclust' = 0
           \/ /\ fptr # 0 /\ sclust' = sclust
              /\ fat' = fat \/ fat' = Removed(GetFat(clust), clust)
    <3>1. ~(objsize <= fptr)
      BY <1>3
    <3>2. /\ IF fptr = 0 THEN fat' = Removed(sclust, 0) /\ sclust' = 0
             ELSE /\ fat' = IF GetFat(clust) \in Clusters
                            THEN Removed(GetFat(clust), clust) ELSE fat
                  /\ UNCHANGED sclust
          /\ objsize' = fptr /\ data' = Flushed /\ dirty' = FALSE
      BY <3>1 DEF FTruncate
    <3> QED BY <3>2
  <2>2. Alike(bcs, fat, sclust, fat', sclust', fptr)
    <3>1. CASE fptr = 0
      BY <3>1 DEF Alike
    <3>2. CASE fptr # 0
      <4>1. sclust' = sclust /\ (\/ fat' = fat
                                 \/ fat' = CutFat(fat, NthSet(fat, GetF(fat, clust)), clust))
        BY <2>1, <3>2, ModelFat
      <4>2. fptr > 0
        BY <3>2
      <4> QED BY <1>1, <4>1, <4>2, TruncateAlike
    <3> QED BY <3>1, <3>2
  <2>3. Flushed' = Flushed
    BY <2>1, CleanFlushed
  <2>4. fptr \in 0 .. objsize
    BY <1>3
  <2>5. Bytes' = SubSeq(Bytes, 1, fptr)
    BY <1>1, <2>1, <2>2, <2>3, <2>4, CutBytes
  <2>6. Pos = fptr /\ Pos' = fptr /\ State = "open" /\ State' = "open"
    BY <1>1 DEF Pos, State, Usable
  <2> QED BY <1>1, <2>5, <2>6 DEF File!FileNext, File!Cut
<1> QED BY <1>2, <1>3

\* f_sync leaves what the program sees as it is.
LEMMA FSyncActs ==
    ASSUME FInv, FromFits, IoKnown, FInv', FromFits', UNCHANGED vol, FSync
    PROVE  File!FileNext \/ UNCHANGED <<Bytes, Pos, State, io>>
<1> USE Numbers
<1>1. PICK done \in BOOLEAN, m \in BOOLEAN, d \in BOOLEAN : Sync(done, m, d) /\ dirty' = d
  BY DEF FSync
<1>2. /\ pc = "open" /\ io' = <<>>
      /\ UNCHANGED <<fat, sclust, objsize, fptr, sect, buf, err, pc, call>>
  BY DEF FSync, obj, cache
<1>3. CASE err = "OK"
  <2>1. \/ data' = data /\ dirty' = dirty
        \/ data' = Flushed /\ dirty' = FALSE
        \/ data' \in {data, Flushed} /\ dirty = TRUE /\ dirty' = TRUE
    BY <1>1 DEF Sync
  <2>2. Flushed' = Flushed
    <3>1. CASE data' = data /\ dirty' = dirty
      BY <1>2, <3>1, SameFlushed
    <3>2. CASE data' = Flushed /\ dirty' = FALSE
      BY <3>2, CleanFlushed
    <3>3. CASE data' \in {data, Flushed} /\ dirty = TRUE /\ dirty' = TRUE
      <4>1. Flushed = [data EXCEPT ![sect] = buf] /\ Flushed' = [data' EXCEPT ![sect] = buf]
        BY <1>2, <3>3 DEF Flushed
      <4>2. data \in [Sectors -> Sector]
        BY DEF FInv, Types
      <4> QED BY <3>3, <4>1, <4>2
    <3> QED BY <2>1, <3>1, <3>2, <3>3
  <2>3. Usable /\ Usable' /\ objsize <= objsize' /\ Keeps(fat, fat')
    BY <1>2, <1>3, KeepsAll DEF Usable
  <2> QED BY <1>2, <2>2, <2>3, Moves
<1>4. CASE err # "OK"
  <2>1. io' = io
    BY <1>2, <1>4 DEF IoKnown
  <2>2. UNCHANGED <<Bytes, Pos, State>>
    BY <1>2, <1>4 DEF Bytes, Pos, State, Usable
  <2> QED BY <2>1, <2>2
<1> QED BY <1>3, <1>4

\* f_close keeps the file's bytes, where the entry and the disk have them, or
\* loses them.
LEMMA FCloseActs ==
    ASSUME FInv, FInv', UNCHANGED vol, FClose
    PROVE  File!FileNext
<1> USE Numbers, SameVolume
<1>1. PICK done \in BOOLEAN, m \in BOOLEAN, d \in BOOLEAN :
        Sync(done, m, d) /\ pc' = IF done = TRUE /\ err = "OK" THEN "closed" ELSE "lost"
  BY DEF FClose
<1>2. pc = "open" /\ io' = <<>> /\ UNCHANGED fat
  BY DEF FClose
<1>3. State \in {"open", "failed"} /\ Pos' = 0 /\ (pc' = "lost" => State' = "lost" /\ Bytes' = <<>>)
  BY <1>1, <1>2 DEF State, Pos, Bytes, Usable
<1>4. ASSUME pc' = "closed"
      PROVE  State = "open" /\ State' = "closed" /\ Bytes' = Bytes
  <2>1. done = TRUE /\ Usable
    BY <1>1, <1>2, <1>4 DEF Usable
  <2>2. ent' = [size |-> objsize, first |-> sclust]
    BY <1>1, <1>2, <2>1, SyncDoes
  <2>3. data' = Flushed
    <3>1. modified \in BOOLEAN /\ (modified = FALSE => data' = data) /\ (modified = TRUE => data' = Flushed)
      BY <1>1, <2>1 DEF Sync, FInv, Flags
    <3>2. modified = FALSE => dirty = FALSE
      BY <1>2, <2>1 DEF FInv, EntryKnown
    <3>3. dirty = FALSE => Flushed = data
      BY FlushedIs DEF FInv
    <3> QED BY <3>1, <3>2, <3>3
  <2>4. Bytes = Seen(CSize, fat, sclust, Flushed, objsize)
    BY <2>1, Sight DEF Sighted
  <2>5. Bytes' = Seen(CSize', fat', ent'.first, data', ent'.size)
    BY <1>4, SightNext DEF Sighted
  <2>6. Bytes' = Bytes
    BY <1>2, <2>2, <2>3, <2>4, <2>5
  <2> QED BY <1>2, <1>4, <2>1, <2>6 DEF State, Usable
<1>5. pc' \in {"closed", "lost"}
  BY <1>1
<1> QED BY <1>2, <1>3, <1>4, <1>5 DEF File!FileNext, File!Close

\* The window of the entry has nothing to do with the file's bytes.
LEMMA WindowMovesActs ==
    ASSUME FInv, FromFits, IoKnown, FInv', FromFits', UNCHANGED vol, WindowMoves
    PROVE  File!FileNext \/ UNCHANGED <<Bytes, Pos, State, io>>
<1> USE Numbers, SameVolume
<1>1. /\ pc \in {"closed", "lost", "open"} /\ io' = <<>>
      /\ UNCHANGED <<data, fat, ent, sclust, objsize, fptr, sect, buf, dirty, err, pc, call>>
  BY DEF WindowMoves, disk, obj, cache, flag
<1>2. CASE Usable
  <2>1. Usable' /\ objsize <= objsize' /\ Keeps(fat, fat') /\ Flushed' = Flushed
    BY <1>1, <1>2, KeepsAll, SameFlushed DEF Usable
  <2> QED BY <1>1, <1>2, <2>1, Moves
<1>3. CASE pc = "open" /\ ~Usable
  <2>1. io' = io
    BY <1>1, <1>3 DEF IoKnown, Usable
  <2>2. UNCHANGED <<Bytes, Pos, State>>
    BY <1>1, <1>3 DEF Bytes, Pos, State, Usable
  <2> QED BY <2>1, <2>2
<1>4. CASE pc \in {"closed", "lost"}
  <2>1. Pos' = 0 /\ State' = State /\ State \in {"closed", "lost"}
    BY <1>1, <1>4 DEF Pos, State, Usable
  <2>2. Bytes' = Bytes
    <3>1. CASE pc = "lost"
      BY <1>1, <3>1 DEF Bytes, Usable
    <3>2. CASE pc = "closed"
      <4>1. Bytes = Seen(CSize, fat, ent.first, data, ent.size)
        BY <3>2, Sight DEF Sighted
      <4>2. Bytes' = Seen(CSize', fat', ent'.first, data', ent'.size)
        BY <1>1, <3>2, SightNext DEF Sighted
      <4> QED BY <1>1, <4>1, <4>2
    <3> QED BY <1>4, <3>1, <3>2
  <2> QED BY <1>1, <2>1, <2>2 DEF File!FileNext, File!OpenFails
<1> QED BY <1>1, <1>2, <1>3, <1>4

\* Creating a file empties it.
LEMMA OpenCreateActs ==
    ASSUME FInv, FInv', UNCHANGED vol, OpenCreate
    PROVE  File!FileNext
<1>1. /\ pc \in {"closed", "lost"} /\ objsize' = 0 /\ fptr' = 0 /\ err' = "OK" /\ pc' = "open"
      /\ io' = <<>>
  BY DEF OpenCreate, Cleared, Opened
<1>2. State \in {"closed", "lost"} /\ State' = "open" /\ Pos' = 0 /\ Usable'
  BY <1>1 DEF State, Pos, Usable
<1>3. Bytes' = <<>>
  <2>1. Bytes' \in Seq(Byte) /\ Len(Bytes') = 0
    BY <1>1, <1>2, SightNext DEF Sighted
  <2> QED BY <2>1, EmptySeq
<1> QED BY <1>1, <1>2, <1>3 DEF File!FileNext, File!Create

\* Opening a file shows the bytes that closing it left.
LEMMA OpenActs ==
    ASSUME FInv, FInv', UNCHANGED vol, Openable, pc' = "open", err' = "OK", dirty' = FALSE,
           UNCHANGED <<data, fat>>, sclust' = ent.first, objsize' = ent.size,
           NEW atEnd \in BOOLEAN, fptr' = IF atEnd THEN objsize' ELSE 0, io' = <<>>
    PROVE  File!FileNext
<1> USE SameVolume
<1>1. State \in {"closed", "lost"} /\ (State = "closed" <=> pc = "closed") /\ State' = "open"
      /\ Usable' /\ Pos' = fptr'
  BY DEF State, Pos, Usable, Openable
<1>2. Bytes' = Seen(CSize', fat', sclust', Flushed', objsize') /\ Len(Bytes') = objsize'
  BY <1>1, SightNext DEF Sighted
<1>3. ASSUME pc = "closed"  PROVE Bytes' = Bytes
  <2>1. Bytes = Seen(CSize, fat, ent.first, data, ent.size)
    BY <1>3, Sight DEF Sighted
  <2>2. Flushed' = data
    BY CleanFlushed
  <2> QED BY <1>2, <2>1, <2>2
<1>4. File!Open(atEnd)
  BY <1>1, <1>2, <1>3 DEF File!Open
<1> QED BY <1>4 DEF File!FileNext

\* It may fail.
LEMMA OpenFailsActs ==
    ASSUME FInv, FInv', UNCHANGED vol, OpenFails
    PROVE  File!FileNext
<1> USE SameVolume
<1>1. /\ pc \in {"closed", "lost"} /\ pc' \in {pc, "lost"} /\ io' = <<>>
      /\ UNCHANGED <<data, err>>
      /\ UNCHANGED <<fat, ent, pc>> \/ pc' = "lost"
  BY DEF OpenFails, dir, obj, cache, flag
<1>2. State \in {"closed", "lost"} /\ Pos' = 0 /\ (pc' = "lost" => State' = "lost" /\ Bytes' = <<>>)
  BY <1>1 DEF State, Pos, Bytes, Usable
<1>3. ASSUME pc' = "closed"  PROVE State' = State /\ Bytes' = Bytes
  <2>1. pc = "closed" /\ UNCHANGED <<fat, ent, data>>
    BY <1>1, <1>3
  <2>2. Bytes = Seen(CSize, fat, ent.first, data, ent.size)
    BY <2>1, Sight DEF Sighted
  <2>3. Bytes' = Seen(CSize', fat', ent'.first, data', ent'.size)
    BY <1>3, SightNext DEF Sighted
  <2> QED BY <1>3, <2>1, <2>2, <2>3 DEF State
<1> QED BY <1>1, <1>2, <1>3 DEF File!FileNext, File!OpenFails
-----------------------------------------------------------------------------
(* f_read as steps of the abstract file *)

\* The place i bytes on from the place a of a block's first byte.
BlockByte(C, s, a, n, i) ==
    /\ i \div s \in 0 .. n - 1 /\ (a + i) % s = i % s
    /\ (a + i) \div (C * s) = a \div (C * s)
    /\ ((a + i) \div s) % C = ((a \div s) % C) + (i \div s)

\* A byte of n whole blocks that stay in a group.
LEMMA InBlocks ==
    ASSUME NEW C \in Nat \ {0}, NEW s \in Nat \ {0}, NEW a \in Nat, a % s = 0,
           NEW n \in 1 .. C - ((a \div s) % C), NEW i \in Nat, i < n * s
    PROVE  BlockByte(C, s, a, n, i)
<1> DEFINE q == a \div (C * s)
           z == (a \div s) % C
           x == i \div s
           y == i % s
           w == z + x
           p == a + i
<1>1. IsPlace(C, s, a, q, z, 0)
  BY PlaceOf
<1>2. x \in Nat /\ y \in 0 .. s - 1 /\ i = x * s + y
  BY Divides
<1>3. n \in 1 .. C - z
  OBVIOUS
<1> HIDE DEF q, z, x, y
<1>4. q \in Nat /\ z \in 0 .. C - 1 /\ a = q * (C * s) + z * s + 0
  BY <1>1 DEF IsPlace
<1>5. x < n
  <2> SUFFICES ASSUME n <= x  PROVE FALSE
    BY <1>2, <1>3, <1>4
  <2>1. n * s <= x * s
    BY <1>2, <1>3, <1>4, TimesMono
  <2>2. x * s \in Nat /\ n * s \in Nat
    BY <1>2, <1>3, <1>4
  <2> QED BY <2>1, <2>2, <1>2
<1>6. w \in 0 .. C - 1 /\ x \in 0 .. n - 1
  BY <1>2, <1>3, <1>4, <1>5
<1>7. (z + x) * s = z * s + x * s
  BY <1>2, <1>4
<1>8. p = q * (C * s) + w * s + y
  BY <1>2, <1>4, <1>7
<1> HIDE DEF w, p
<1>9. IsPlace(C, s, p, q, w, y)
  BY <1>2, <1>4, <1>6, <1>8 DEF IsPlace
<1>10. p \div (C * s) = q /\ (p \div s) % C = w /\ p % s = y
  BY <1>9, PlaceIs
<1> QED BY <1>6, <1>10 DEF BlockByte, q, z, x, y, w, p

\* The place i bytes on in the same block.
PartByte(C, s, a, i) ==
    /\ (a + i) % s = (a % s) + i
    /\ (a + i) \div (C * s) = a \div (C * s)
    /\ ((a + i) \div s) % C = (a \div s) % C

\* A byte that stays in its block.
LEMMA InBlock ==
    ASSUME NEW C \in Nat \ {0}, NEW s \in Nat \ {0}, NEW a \in Nat, NEW i \in Nat, i < s - (a % s)
    PROVE  PartByte(C, s, a, i)
<1> DEFINE q == a \div (C * s)
           z == (a \div s) % C
           y == a % s
           t == y + i
           p == a + i
<1>1. IsPlace(C, s, a, q, z, y)
  BY PlaceOf
<1>2. i < s - y
  OBVIOUS
<1> HIDE DEF q, z, y
<1>3. q \in Nat /\ z \in 0 .. C - 1 /\ y \in 0 .. s - 1 /\ a = q * (C * s) + z * s + y
  BY <1>1 DEF IsPlace
<1>4. t \in 0 .. s - 1 /\ p = q * (C * s) + z * s + t
  BY <1>2, <1>3
<1> HIDE DEF t, p
<1>5. IsPlace(C, s, p, q, z, t)
  BY <1>3, <1>4 DEF IsPlace
<1>6. p \div (C * s) = q /\ (p \div s) % C = z /\ p % s = t
  BY <1>5, PlaceIs
<1> QED BY <1>6 DEF PartByte, q, z, y, t, p

\* The bytes of a direct transfer are in the sectors from the pointer's on.
LEMMA DirectByte ==
    ASSUME FInv, Turn, cc > 0, NEW i \in Nat, i < cc * SS
    PROVE  /\ Spot(CSize, fat, sclust, fptr + i) = Here + (i \div SS)
           /\ i \div SS \in 0 .. cc - 1 /\ (fptr + i) % SS = i % SS
<1> USE Numbers
<1> DEFINE a == fptr
           C == CSize
           n == cc
<1>1. OnSector /\ n \in 1 .. C - csect
  BY DirectTurn
<1>2. /\ Here = First(C, clust) + csect /\ Here = Spot(C, fat, sclust, a)
      /\ csect \in 0 .. C - 1 /\ AtByte(a)
  BY HereIs
<1>3. a % SS = 0 /\ csect = (a \div SS) % C
  BY <1>1 DEF OnSector, csect
<1>4. C \in Nat \ {0} /\ SS \in Nat \ {0} /\ a \in Nat /\ i < n * SS /\ bcs = C * SS
  OBVIOUS
<1>5. Nth(fat, sclust)[a \div (C * SS)] = clust /\ clust \in Clusters
  BY <1>2, <1>4 DEF AtByte, HoldsByte
<1>6. Clust2Sect(clust) \in Nat /\ Clust2Sect(clust) = First(C, clust)
  BY <1>2, <1>5, InData, Spots
<1> HIDE DEF a, C, n
<1>7. n \in 1 .. C - ((a \div SS) % C)
  BY <1>1, <1>3
<1>8. BlockByte(C, SS, a, n, i)
  BY <1>3, <1>4, <1>7, InBlocks
<1>9. Spot(C, fat, sclust, a + i) = First(C, clust) + (csect + (i \div SS))
  BY <1>3, <1>5, <1>8 DEF Spot, BlockByte
<1>10. i \div SS \in 0 .. n - 1 /\ (a + i) % SS = i % SS
  BY <1>8 DEF BlockByte
<1> DEFINE f == First(C, clust)
           x == i \div SS
           z == csect
<1>11. f \in Nat /\ x \in Nat /\ z \in Nat
  <2>1. f \in Nat
    BY <1>6
  <2>2. x \in Nat
    BY <1>4, Divides
  <2>3. z \in Nat
    BY <1>2
  <2> QED BY <2>1, <2>2, <2>3
<1>12. Spot(C, fat, sclust, a + i) = f + (z + x) /\ Here = f + z
  BY <1>2, <1>9
<1> HIDE DEF f, x, z
<1>13. Spot(C, fat, sclust, a + i) = Here + x
  BY <1>11, <1>12
<1> QED BY <1>10, <1>13 DEF a, C, n, x

\* Those of a transfer through the buffer are in the pointer's sector.
LEMMA BufferedByte ==
    ASSUME FInv, Turn, NEW i \in Nat, i < Part
    PROVE  /\ Spot(CSize, fat, sclust, fptr + i) = Here
           /\ (fptr + i) % SS = (fptr % SS) + i
<1> USE Numbers
<1> DEFINE a == fptr
           C == CSize
           k == Part
           y == a % SS
<1>1. k \in 1 .. SS - y /\ y \in 0 .. SS - 1
  BY BufferedTurn
<1>2. Here = Spot(C, fat, sclust, a)
  BY HereIs
<1>3. C \in Nat \ {0} /\ SS \in Nat \ {0} /\ a \in Nat /\ i < k
  OBVIOUS
<1> HIDE DEF a, C, k, y
<1>4. i < SS - y
  BY <1>1, <1>3
<1>5. PartByte(C, SS, a, i)
  BY <1>3, <1>4, InBlock DEF y
<1>6. Spot(C, fat, sclust, a + i) = Spot(C, fat, sclust, a)
  BY <1>5 DEF Spot, PartByte
<1>7. (a + i) % SS = (a % SS) + i
  BY <1>5 DEF PartByte
<1> QED BY <1>2, <1>6, <1>7 DEF a, C

\* u is the part of w that starts after the place a and has k elements.
IsPart(S, w, a, k, u) ==
    u \in Seq(S) /\ Len(u) = k /\ \A i \in 1 .. k : u[i] = w[a + i]

\* A part of a sequence.
LEMMA PartOf ==
    ASSUME NEW S, NEW w \in Seq(S), NEW a \in Nat, NEW k \in Nat, a + k <= Len(w)
    PROVE  IsPart(S, w, a, k, SubSeq(w, a + 1, a + k))
BY DEF IsPart

\* The i-th of k places after the place a.
LEMMA InRange ==
    ASSUME NEW a \in Nat, NEW k \in Nat, NEW n \in Nat, a + k <= n, NEW i \in 1 .. k
    PROVE  /\ i - 1 \in 0 .. k - 1 /\ (i - 1) + 1 = i /\ a + i \in 1 .. n
           /\ (a + i) - 1 = a + (i - 1)
OBVIOUS

\* The k bytes at the pointer are handed over.
HandsOver(k) ==
    /\ io' \in Seq(Byte) /\ Len(io') = k
    /\ \A i \in 0 .. k - 1 : io'[i + 1] = ByteAt(CSize, fat, sclust, Flushed, fptr + i)

\* What a turn of f_read hands over are the k bytes at the pointer.
LEMMA Delivers ==
    ASSUME FInv, FromFits, FInv', FromFits', UNCHANGED <<vol, fat, sclust, objsize>>,
           Flushed' = Flushed, Usable, Usable', pc # "seek", pc' # "seek",
           NEW k \in Nat \ {0}, fptr + k <= objsize, fptr' = fptr + k,
           HandsOver(k)
    PROVE  File!FileNext
<1> USE Numbers
<1>1. Bytes \in Seq(Byte) /\ Len(Bytes) = objsize /\ State = "open"
  BY PosFits DEF InFile
<1>2. State' = "open" /\ Pos = fptr /\ Pos' = fptr + k
  BY DEF State, Pos, Usable
<1>3. Bytes' = Bytes
  BY KeepsAll, SameBytes
<1>4. Bytes = Seen(CSize, fat, sclust, Flushed, objsize)
  BY Sight DEF Sighted
<1>5. ASSUME NEW i \in 1 .. k  PROVE io'[i] = Bytes[fptr + i]
  <2>1. i - 1 \in 0 .. k - 1 /\ (i - 1) + 1 = i /\ fptr + i \in 1 .. objsize
        /\ (fptr + i) - 1 = fptr + (i - 1)
    BY InRange
  <2>2. io'[i] = ByteAt(CSize, fat, sclust, Flushed, fptr + (i - 1))
    BY <2>1 DEF HandsOver
  <2>3. Bytes[fptr + i] = ByteAt(CSize, fat, sclust, Flushed, (fptr + i) - 1)
    BY <1>4, <2>1 DEF Seen
  <2> QED BY <2>1, <2>2, <2>3
<1>6. /\ SubSeq(Bytes, fptr + 1, fptr + k) \in Seq(Byte)
      /\ Len(SubSeq(Bytes, fptr + 1, fptr + k)) = k
      /\ \A i \in 1 .. k : SubSeq(Bytes, fptr + 1, fptr + k)[i] = Bytes[fptr + i]
  <2> DEFINE w == Bytes
             a == fptr
  <2>1. a \in Nat /\ k \in Nat /\ a + k <= Len(w) /\ w \in Seq(Byte)
    BY <1>1
  <2> HIDE DEF w, a
  <2>2. IsPart(Byte, w, a, k, SubSeq(w, a + 1, a + k))
    BY <2>1, PartOf
  <2> QED BY <2>2 DEF w, a, IsPart
<1>7. \A i \in 1 .. k : SubSeq(Bytes, fptr + 1, fptr + k)[i] = io'[i]
  BY <1>5, <1>6
<1>8. io' = SubSeq(Bytes, fptr + 1, fptr + k)
  BY <1>6, <1>7, SeqEqual DEF HandsOver
<1>9. File!Deliver(k)
  BY <1>1, <1>2, <1>3, <1>8 DEF File!Deliver
<1>10. k \in 1 .. Len(Bytes)
  BY <1>1
<1> QED BY <1>9, <1>10 DEF File!FileNext

\* Whole sectors past the buffer.
LEMMA ReadDirectActs ==
    ASSUME FInv, FromFits, FInv', FromFits', UNCHANGED vol, ReadDirect
    PROVE  File!FileNext
<1> USE Numbers
<1> DEFINE k == cc * SS
<1>1. Turn /\ cc > 0 /\ pc \in {"read", "get"} /\ Usable
  BY TurnWhen DEF ReadDirect, Turn
<1>2. k \in Nat \ {0} /\ k <= call.left
  BY <1>1, DirectTurn
<1>3. /\ UNCHANGED <<data, fat, sclust, objsize, sect, buf, dirty, err>>
      /\ fptr' = fptr + k /\ pc' = "read"
      /\ io' = [j \in 1 .. k |->
                  (IF dirty /\ Here + (j - 1) \div SS = sect THEN buf
                   ELSE data[Here + (j - 1) \div SS])[((j - 1) % SS) + 1]]
  BY DEF ReadDirect, Advance, disk, dir, obj, cache, flag
<1>4. fptr + k <= objsize
  <2>1. fptr + call.left <= objsize
    BY <1>1 DEF FInv, Pointed
  <2> QED BY <1>2, <2>1
<1>5. Covers(bcs, fat, objsize, sclust) /\ Flushed \in [Sectors -> Sector]
  BY <1>1, FlushedIs DEF FInv, Covered
<1>6. ASSUME NEW j \in 1 .. k
      PROVE  /\ io'[j] = ByteAt(CSize, fat, sclust, Flushed, fptr + (j - 1))
             /\ io'[j] \in Byte
  <2> DEFINE i == j - 1
             s == Here + i \div SS
  <2>1. i \in Nat /\ i < cc * SS
    BY <1>2
  <2>2. Spot(CSize, fat, sclust, fptr + i) = s /\ (fptr + i) % SS = i % SS
    BY <1>1, <2>1, DirectByte
  <2>3. fptr + i \in Nat /\ fptr + i < objsize
    BY <1>2, <1>4, <2>1
  <2>4. Spot(CSize, fat, sclust, fptr + i) \in Sectors /\ ((fptr + i) % SS) + 1 \in 1 .. SS
    BY <1>5, <2>3, ByteSpot
  <2>5. io'[j] = (IF dirty /\ s = sect THEN buf ELSE data[s])[(i % SS) + 1]
    BY <1>3
  <2> HIDE DEF i, s
  <2>6. data \in [Sectors -> Sector]
    BY DEF FInv, Types
  <2>7. (IF dirty /\ s = sect THEN buf ELSE data[s]) = Flushed[s]
    BY <2>2, <2>4, <2>6 DEF Flushed
  <2>8. io'[j] = Flushed[s][(i % SS) + 1]
    BY <2>5, <2>7
  <2>9. Flushed[s] \in Sector /\ (i % SS) + 1 \in 1 .. SS
    BY <1>5, <2>2, <2>4
  <2>10. io'[j] \in Byte
    BY <2>8, <2>9 DEF Sector
  <2>11. io'[j] = ByteAt(CSize, fat, sclust, Flushed, fptr + i)
    BY <2>2, <2>8 DEF ByteAt
  <2> QED BY <2>10, <2>11 DEF i
<1>7. Usable' /\ Flushed' = Flushed
  BY <1>1, <1>3, SameFlushed DEF Usable
<1> HIDE DEF k
<1>8. HandsOver(k)
  <2>1. io' \in [1 .. k -> Byte]
    BY <1>3, <1>6
  <2>2. io' \in Seq(Byte) /\ Len(io') = k
    BY <1>2, <2>1, FunSeq
  <2>3. ASSUME NEW i \in 0 .. k - 1
        PROVE  io'[i + 1] = ByteAt(CSize, fat, sclust, Flushed, fptr + i)
    <3>1. i + 1 \in 1 .. k /\ (i + 1) - 1 = i
      BY <1>2
    <3> QED BY <1>6, <3>1
  <2> QED BY <2>2, <2>3 DEF HandsOver
<1> QED BY <1>1, <1>2, <1>3, <1>4, <1>7, <1>8, Delivers

\* 0 is no sector.
LEMMA NoSectorZero ==
    ASSUME vol \in Volumes
    PROVE  0 \notin Sectors
<1> DEFINE n == N - 2
           C == CSize
<1>1. n \in Nat /\ C \in Nat
  BY Constants, Geometry
<1> HIDE DEF n, C
<1>2. n * C \in Nat
  BY <1>1
<1>3. Sectors = 1 .. n * C
  BY DEF Sectors, n, C
<1> DEFINE m == n * C
<1> HIDE DEF m
<1> QED BY <1>2, <1>3 DEF m

\* A part of a sector, through the buffer.
LEMMA ReadBufferedActs ==
    ASSUME FInv, FromFits, FInv', FromFits', UNCHANGED vol, ReadBuffered
    PROVE  File!FileNext
<1> USE Numbers
<1> DEFINE k == Part
           y == fptr % SS
<1>1. Turn /\ pc \in {"read", "get"} /\ Usable
  BY TurnWhen DEF ReadBuffered, Turn
<1>2. k \in Nat \ {0} /\ k <= call.left /\ k \in 1 .. SS - y /\ y \in 0 .. SS - 1
  BY <1>1, BufferedTurn
<1>3. /\ UNCHANGED <<fat, sclust, objsize, err>> /\ sect' = Here
      /\ fptr' = fptr + k /\ pc' = "read"
      /\ io' = SubSeq(buf', y + 1, y + k)
      /\ \/ Here = sect /\ UNCHANGED <<data, buf, dirty>>
         \/ data' = Flushed /\ buf' = data'[Here] /\ dirty' = FALSE
  BY DEF ReadBuffered, Advance, dir, obj, flag
<1>4. fptr + k <= objsize
  <2>1. fptr + call.left <= objsize
    BY <1>1 DEF FInv, Pointed
  <2> QED BY <1>2, <2>1
<1>5. Here \in Sectors
  BY <1>1, HereIs
<1>6. Flushed' = Flushed
  BY <1>3, SameFlushed, CleanFlushed
<1>7. buf' = Flushed[Here] /\ buf' \in Sector
  <2>1. CASE Here = sect /\ UNCHANGED <<data, buf, dirty>>
    <3>1. sect \in Sectors /\ sect # 0 /\ data \in [Sectors -> Sector] /\ buf \in Sector
          /\ dirty \in BOOLEAN
      <4>1. sect \in Sectors /\ data \in [Sectors -> Sector] /\ buf \in Sector /\ dirty \in BOOLEAN
        BY <1>5, <2>1 DEF FInv, Types, Flags
      <4> QED BY <4>1, NoSectorZero
    <3>2. dirty = FALSE => buf = data[sect]
      BY <1>1, <3>1 DEF FInv, BufferKnown
    <3> QED BY <2>1, <3>1, <3>2 DEF Flushed
  <2>2. CASE data' = Flushed /\ buf' = data'[Here] /\ dirty' = FALSE
    <3>1. Flushed \in [Sectors -> Sector]
      BY FlushedIs DEF FInv
    <3> QED BY <1>5, <2>2, <3>1
  <2> QED BY <1>3, <2>1, <2>2
<1>8. Usable'
  BY <1>1, <1>3 DEF Usable
<1>9. IsPart(Byte, buf', y, k, io')
  <2>1. buf' \in [1 .. SS -> Byte] /\ SS \in Nat
    BY <1>7 DEF Sector
  <2>2. buf' \in Seq(Byte) /\ Len(buf') = SS
    BY <2>1, FunSeq
  <2>3. y \in Nat /\ k \in Nat /\ y + k <= SS
    BY <1>2
  <2> HIDE DEF y, k
  <2> QED BY <1>3, <2>2, <2>3, PartOf
<1>10. ASSUME NEW i \in 0 .. k - 1
       PROVE  io'[i + 1] = ByteAt(CSize, fat, sclust, Flushed, fptr + i)
  <2>1. i \in Nat /\ i < Part /\ i + 1 \in 1 .. k
    BY <1>2
  <2>2. Spot(CSize, fat, sclust, fptr + i) = Here /\ (fptr + i) % SS = y + i
    BY <1>1, <2>1, BufferedByte
  <2> HIDE DEF y, k
  <2>3. io'[i + 1] = buf'[y + (i + 1)]
    BY <1>9, <2>1 DEF IsPart
  <2>4. y + (i + 1) = (y + i) + 1
    BY <1>2, <2>1
  <2> QED BY <1>7, <2>2, <2>3, <2>4 DEF ByteAt
<1> HIDE DEF k, y
<1>11. HandsOver(k)
  BY <1>9, <1>10 DEF HandsOver, IsPart
<1> QED BY <1>1, <1>2, <1>3, <1>4, <1>6, <1>8, <1>11, Delivers
-----------------------------------------------------------------------------
(* f_write as steps of the abstract file *)

\* The k bytes at the pointer are the program's, and the others stay.
Overlaid(k) ==
    /\ io' \in [1 .. k -> Byte]
    /\ \A i \in 0 .. k - 1 : ByteAt(CSize, fat, sclust, Flushed', fptr + i) = io'[i + 1]
    /\ \A i \in Nat : i < objsize /\ (i < fptr \/ i >= fptr + k) =>
          ByteAt(CSize, fat, sclust, Flushed', i) = ByteAt(CSize, fat, sclust, Flushed, i)

\* Where byte j of a file is that has n bytes and gets k of them from place a on.
LEMMA InOrOut ==
    ASSUME NEW a \in Nat, NEW k \in Nat \ {0}, NEW n \in Nat, a <= n,
           NEW j \in 1 .. IF a + k > n THEN a + k ELSE n
    PROVE  /\ j \in a + 1 .. a + k => j - a \in 1 .. k /\ (j - a) - 1 \in 0 .. k - 1
                                      /\ a + ((j - a) - 1) = j - 1 /\ ((j - a) - 1) + 1 = j - a
           /\ j \notin a + 1 .. a + k => j - 1 \in Nat /\ j - 1 < n /\ j \in 1 .. n
                                         /\ (j - 1 < a \/ j - 1 >= a + k)
OBVIOUS

\* A turn of f_write takes k bytes of the program.
LEMMA Takes ==
    ASSUME FInv, FromFits, FInv', FromFits', UNCHANGED <<vol, fat, sclust>>,
           Usable, Usable', pc # "seek", pc' # "seek",
           NEW k \in Nat \ {0}, fptr' = fptr + k, objsize' = Grown, Overlaid(k)
    PROVE  File!FileNext
<1> USE Numbers
<1> DEFINE old == Bytes
           a == fptr
           n == objsize
           top == objsize'
           w == io'
<1>1. Len(old) = n /\ State = "open" /\ State' = "open" /\ Pos = a /\ Pos' = a + k
  BY PosFits DEF InFile, State, Pos, Usable
<1>2. w \in [1 .. k -> Byte] /\ w \in Seq(Byte) /\ Len(w) = k
  <2>1. w \in [1 .. k -> Byte]
    BY DEF Overlaid
  <2> HIDE DEF w
  <2> QED BY <2>1, FunSeq
<1>3. top = IF a + k > n THEN a + k ELSE n
  BY DEF Grown
<1>4. a <= n
  BY DEF FInv, Pointed
<1>5. old = [j \in 1 .. n |-> ByteAt(CSize, fat, sclust, Flushed, j - 1)]
  BY Sight DEF Sighted, Seen
<1>6. Bytes' = [j \in 1 .. top |-> ByteAt(CSize, fat, sclust, Flushed', j - 1)]
  BY SightNext, SameVolume DEF Sighted, Seen
<1>7. ASSUME NEW j \in 1 .. top
      PROVE  ByteAt(CSize, fat, sclust, Flushed', j - 1)
             = IF j \in a + 1 .. a + k THEN w[j - a] ELSE old[j]
  <2>1. a \in Nat /\ n \in Nat /\ j \in 1 .. IF a + k > n THEN a + k ELSE n
    BY <1>3
  <2>2. CASE j \in a + 1 .. a + k
    <3>1. /\ (j - a) - 1 \in 0 .. k - 1
          /\ a + ((j - a) - 1) = j - 1 /\ ((j - a) - 1) + 1 = j - a
      BY <1>4, <2>1, <2>2, InOrOut
    <3> DEFINE i == (j - a) - 1
    <3>2. i \in 0 .. k - 1 /\ a + i = j - 1 /\ i + 1 = j - a
      BY <3>1
    <3> HIDE DEF i
    <3>3. ByteAt(CSize, fat, sclust, Flushed', a + i) = w[i + 1]
      BY <3>2 DEF Overlaid
    <3> QED BY <2>2, <3>2, <3>3
  <2>3. CASE j \notin a + 1 .. a + k
    <3>1. j - 1 \in Nat /\ j - 1 < n /\ j \in 1 .. n /\ (j - 1 < a \/ j - 1 >= a + k)
      BY <1>4, <2>1, <2>3, InOrOut
    <3>2. ByteAt(CSize, fat, sclust, Flushed', j - 1) = ByteAt(CSize, fat, sclust, Flushed, j - 1)
      BY <3>1 DEF Overlaid
    <3>3. old[j] = ByteAt(CSize, fat, sclust, Flushed, j - 1)
      BY <1>5, <3>1
    <3> QED BY <2>3, <3>2, <3>3
  <2> QED BY <2>2, <2>3
<1> HIDE DEF old, a, n, top, w
<1>8. Bytes' = [j \in 1 .. top |-> IF j \in a + 1 .. a + k THEN w[j - a] ELSE old[j]]
  BY <1>6, <1>7
<1>9. Bytes' = [j \in 1 .. (IF n > a + k THEN n ELSE a + k) |->
                  IF j \in a + 1 .. a + k THEN w[j - a] ELSE old[j]]
  <2>1. top = IF n > a + k THEN n ELSE a + k
    <3>1. a \in Nat /\ n \in Nat
      BY DEF a, n
    <3> QED BY <1>3, <3>1
  <2> QED BY <1>8, <2>1
<1>10. Bytes' = File!Overlay(io', Pos)
  BY <1>1, <1>2, <1>9 DEF File!Overlay, old, w
<1>11. io' # <<>>
  BY <1>2 DEF w
<1>12. Pos' = Pos + Len(io')
  BY <1>1, <1>2 DEF w
<1> QED BY <1>1, <1>10, <1>11, <1>12 DEF File!FileNext, File!Take

\* The bytes of block x, counted from the block that starts at a, are among those
\* of the n blocks from there on.
LEMMA BlockRange ==
    ASSUME NEW s \in Nat \ {0}, NEW a \in Nat, a % s = 0, NEW n \in Nat, NEW x \in 0 .. n - 1,
           NEW i \in Nat, i \div s = (a + x * s) \div s
    PROVE  a <= i /\ i < a + n * s
<1> DEFINE u == a \div s
           v == i \div s
           t == i % s
           w == u + x
<1>1. u \in Nat /\ a = u * s + 0
  BY Divides
<1>2. v \in Nat /\ t \in 0 .. s - 1 /\ i = v * s + t
  BY Divides
<1>3. v = (a + x * s) \div s
  OBVIOUS
<1>4. w \in Nat
  BY <1>1
<1>5. w = u + x
  OBVIOUS
<1> HIDE DEF u, v, t, w
<1>6. a + x * s = w * s + 0 /\ 0 \in 0 .. s - 1
  BY <1>1, <1>5
<1>7. (a + x * s) \div s = w
  BY <1>4, <1>6, DivMod
<1>8. i = a + x * s + t
  <2>1. v = w
    BY <1>3, <1>7
  <2>2. i = w * s + t
    BY <1>2, <2>1
  <2> DEFINE e == x * s
             g == w * s
  <2>3. e \in Nat /\ g \in Nat /\ a + e = g + 0 /\ i = g + t
    BY <1>4, <1>6, <2>2
  <2> HIDE DEF e, g
  <2>4. i = a + e + t
    BY <1>2, <2>3
  <2> QED BY <2>4 DEF e
<1>9. (x + 1) * s <= n * s
  BY TimesMono
<1>10. (x + 1) * s = x * s + s /\ x * s \in Nat /\ n * s \in Nat
  OBVIOUS
<1> QED BY <1>2, <1>8, <1>9, <1>10

\* Bytes of the program's buffer, told by their sectors.
LEMMA SliceAt ==
    ASSUME NEW x \in Nat, NEW y \in 0 .. SS - 1, NEW i \in Nat, i = x * SS + y,
           call.done \in Nat, SS \in Nat \ {0}, NEW k \in Nat, i < k
    PROVE  Slice(x * SS, SS)[y + 1] = Slice(0, k)[i + 1]
<1> DEFINE d == call.done
           e == x * SS
<1>1. e \in Nat /\ d \in Nat /\ i = e + y
  OBVIOUS
<1>2. y + 1 \in 1 .. SS /\ i + 1 \in 1 .. k
  OBVIOUS
<1>3. Slice(e, SS)[y + 1] = call.buf[d + e + (y + 1)]
  BY <1>2 DEF Slice
<1>4. Slice(0, k)[i + 1] = call.buf[d + 0 + (i + 1)]
  BY <1>2 DEF Slice
<1> HIDE DEF d, e
<1>5. d + e + (y + 1) = d + 0 + (i + 1)
  BY <1>1, <1>2
<1> QED BY <1>3, <1>4, <1>5 DEF e

\* Bytes that the file has or gets are in its chain.
LEMMA InNewFile ==
    ASSUME FInv, FInv', UNCHANGED <<vol, fat, sclust>>, Usable', NEW k \in Nat,
           fptr' = fptr + k, objsize' = Grown
    PROVE  /\ Covers(bcs, fat, objsize', sclust) /\ objsize' \in Nat
           /\ fptr + k <= objsize' /\ objsize <= objsize'
<1> USE Numbers
<1>1. Covers(bcs, fat, objsize', sclust)
  <2>1. Covers(bcs', fat', objsize', sclust')
    BY DEF FInv, Covered
  <2> QED BY <2>1, SameVolume
<1>2. objsize' = IF fptr + k > objsize THEN fptr + k ELSE objsize
  BY DEF Grown
<1> QED BY <1>1, <1>2

\* Whole sectors past the buffer.
LEMMA WriteDirectActs ==
    ASSUME FInv, FromFits, FInv', FromFits', UNCHANGED vol, WriteDirect
    PROVE  File!FileNext
<1> USE Numbers
<1> DEFINE k == cc * SS
<1>1. Turn /\ cc > 0 /\ pc \in {"write", "put"} /\ Usable
  BY TurnWhen DEF WriteDirect, Turn
<1>2. /\ k \in Nat \ {0} /\ k <= call.left /\ fptr % SS = 0 /\ cc \in Nat
      /\ Here \in Sectors
  <2>1. OnSector /\ cc \in 1 .. CSize - csect /\ k \in Nat \ {0} /\ k <= call.left
    BY <1>1, DirectTurn
  <2>2. csect \in 0 .. CSize - 1 /\ Here \in Sectors
    BY <1>1, HereIs
  <2>3. cc \in Nat
    BY <2>1, <2>2
  <2> QED BY <2>1, <2>2, <2>3 DEF OnSector
<1>3. /\ UNCHANGED <<fat, sclust, err>> /\ fptr' = fptr + k /\ pc' = "write"
      /\ objsize' = Grown /\ dirty' = FALSE /\ io' = Slice(0, k)
      /\ data' = [s \in Sectors |-> IF s \in Here .. Here + cc - 1
                                    THEN Slice((s - Here) * SS, SS) ELSE Flushed[s]]
  BY DEF WriteDirect, Advance, dir
<1>4. Usable'
  BY <1>1, <1>3 DEF Usable
<1>5. Flushed' = data'
  BY <1>3, CleanFlushed
<1>6. /\ Covers(bcs, fat, objsize', sclust) /\ objsize' \in Nat
      /\ fptr + k <= objsize' /\ objsize <= objsize'
  <2> HIDE DEF k
  <2> QED BY <1>2, <1>3, <1>4, InNewFile
<1>7. io' \in [1 .. k -> Byte]
  <2>1. Calls /\ k \in Nat /\ 0 \in Nat /\ 0 + k <= call.left
    BY <1>2 DEF FInv
  <2> HIDE DEF k
  <2> QED BY <1>1, <1>3, <2>1, SliceIs
<1>8. ASSUME NEW i \in 0 .. k - 1
      PROVE  ByteAt(CSize, fat, sclust, Flushed', fptr + i) = io'[i + 1]
  <2> DEFINE x == i \div SS
             y == i % SS
             s == Here + x
  <2>1. i \in Nat /\ i < k /\ i < cc * SS
    BY <1>2
  <2>2. Spot(CSize, fat, sclust, fptr + i) = s /\ x \in 0 .. cc - 1 /\ (fptr + i) % SS = y
    BY <1>1, <2>1, DirectByte
  <2>3. x \in Nat /\ y \in 0 .. SS - 1 /\ i = x * SS + y
    BY <2>1, Divides
  <2>4. fptr + i \in Nat /\ fptr + i < objsize'
    BY <1>2, <1>6, <2>1
  <2>5. Spot(CSize, fat, sclust, fptr + i) \in Sectors
    BY <1>6, <2>4, ByteSpot
  <2> HIDE DEF x, y, k
  <2>6. Here \in Int
    BY <1>2 DEF Sectors
  <2>7. s \in Here .. Here + cc - 1 /\ s - Here = x
    BY <1>2, <2>2, <2>6
  <2> HIDE DEF s
  <2>8. data'[s] = Slice(x * SS, SS)
    BY <1>3, <2>2, <2>5, <2>7
  <2>9. Slice(x * SS, SS)[y + 1] = Slice(0, k)[i + 1]
    <3>1. call.done \in Nat /\ SS \in Nat \ {0} /\ k \in Nat
      BY <1>2
    <3> QED BY <2>1, <2>3, <3>1, SliceAt
  <2> QED BY <1>3, <1>5, <2>2, <2>8, <2>9 DEF ByteAt
<1>9. ASSUME NEW i \in Nat, i < objsize, i < fptr \/ i >= fptr + k
      PROVE  ByteAt(CSize, fat, sclust, Flushed', i) = ByteAt(CSize, fat, sclust, Flushed, i)
  <2> DEFINE s == Spot(CSize, fat, sclust, i)
  <2>1. i < objsize'
    BY <1>6, <1>9
  <2>2. s \in Sectors
    BY <1>6, <2>1, ByteSpot
  <2>3. s \notin Here .. Here + cc - 1
    <3> SUFFICES ASSUME s \in Here .. Here + cc - 1  PROVE FALSE
      OBVIOUS
    <3> DEFINE x == s - Here
               e == x * SS
    <3>1. x \in 0 .. cc - 1 /\ s = Here + x
      <4>1. Here \in Int
        BY <1>2 DEF Sectors
      <4> HIDE DEF s
      <4> QED BY <1>2, <4>1
    <3> HIDE DEF x, s
    <3>2. x \in Nat /\ e \in Nat /\ e < k
      <4>1. (x + 1) * SS <= cc * SS
        BY <1>2, <3>1, TimesMono
      <4>2. (x + 1) * SS = x * SS + SS /\ x * SS \in Nat /\ cc * SS \in Nat
        BY <1>2, <3>1
      <4> QED BY <3>1, <4>1, <4>2
    <3>3. e \div SS = x
      <4>1. e = x * SS + 0 /\ 0 \in 0 .. SS - 1
        BY <3>2
      <4> QED BY <3>2, <4>1, DivMod
    <3> HIDE DEF e
    <3>4. Spot(CSize, fat, sclust, fptr + e) = Here + x
      <4>1. e < cc * SS
        BY <3>2
      <4> QED BY <1>1, <3>2, <3>3, <4>1, DirectByte
    <3>5. fptr + e \in Nat /\ fptr + e < objsize'
      BY <1>2, <1>6, <3>2
    <3>6. Spot(CSize, fat, sclust, i) = Spot(CSize, fat, sclust, fptr + e)
      BY <3>1, <3>4 DEF s
    <3>7. i \div SS = (fptr + e) \div SS
      BY <1>6, <2>1, <3>5, <3>6, SpotOnce
    <3>8. fptr <= i /\ i < fptr + cc * SS
      <4>1. i \div SS = (fptr + x * SS) \div SS
        BY <3>7 DEF e
      <4> QED BY <1>2, <3>1, <4>1, BlockRange
    <3>9. i < fptr + k
      BY <3>8
    <3> HIDE DEF k
    <3> QED BY <1>2, <1>9, <3>8, <3>9
  <2>4. data'[s] = Flushed[s]
    BY <1>3, <2>2, <2>3
  <2> QED BY <1>5, <2>4 DEF ByteAt
<1> HIDE DEF k
<1>10. Overlaid(k)
  BY <1>7, <1>8, <1>9 DEF Overlaid
<1> QED BY <1>1, <1>2, <1>3, <1>4, <1>10, Takes

\* Of two places in one block, the first is before the part of k bytes that
\* starts at the second or after it exactly when it is in the file's order.
LEMMA BesidePart ==
    ASSUME NEW s \in Nat \ {0}, NEW a \in Nat, NEW i \in Nat, i \div s = a \div s, NEW k \in Nat
    PROVE  /\ i % s \in 0 .. s - 1 /\ a % s \in 0 .. s - 1
           /\ (i < a => i % s < a % s) /\ (i >= a + k => i % s >= (a % s) + k)
<1> DEFINE v == i \div s
           u == a \div s
           t == i % s
           y == a % s
           g == v * s
<1>1. v \in Nat /\ t \in 0 .. s - 1 /\ i = v * s + t
  BY Divides
<1>2. u \in Nat /\ y \in 0 .. s - 1 /\ a = u * s + y
  BY Divides
<1>3. u = v
  OBVIOUS
<1> HIDE DEF v, u, t, y
<1>4. g \in Nat /\ i = g + t /\ a = g + y
  BY <1>1, <1>2, <1>3
<1> HIDE DEF g
<1>5. (i < a => t < y) /\ (i >= a + k => t >= y + k)
  BY <1>1, <1>2, <1>4
<1> QED BY <1>1, <1>2, <1>5 DEF t, y

\* The buffer that the part goes into is what the disk and the buffer held of
\* its sector; at the file's end, of the bytes that the file has.
LEMMA LoadedIs ==
    ASSUME FInv, Turn, pc \in {"write", "put"}, WriteBuffered, NEW i \in Nat, i < objsize,
           i < fptr => i % SS < fptr % SS
    PROVE  i < fptr \/ fptr < objsize => Loaded = Flushed[Here]
<1> USE Numbers
<1>1. Here \in Sectors /\ vol \in Volumes
  BY HereIs
<1>2. Here # 0
  BY <1>1, NoSectorZero
<1>3. ASSUME Here = sect  PROVE buf = Flushed[Here]
  <2>1. /\ sect \in Sectors /\ sect # 0 /\ dirty \in BOOLEAN /\ data \in [Sectors -> Sector]
        /\ buf \in Sector
    BY <1>1, <1>2, <1>3 DEF FInv, Flags, Types
  <2>2. dirty = FALSE => buf = data[sect]
    BY <2>1 DEF FInv, BufferKnown, Turn
  <2> QED BY <1>3, <2>1, <2>2 DEF Flushed
<1>4. ASSUME ~OnSector  PROVE Here = sect
  BY <1>4 DEF Here
<1>5. data' = IF OnSector THEN Flushed ELSE data
  BY DEF WriteBuffered
<1>6. ASSUME OnSector, Here # sect  PROVE fptr < objsize => Loaded = Flushed[Here]
  BY <1>5, <1>6 DEF Loaded
<1>7. ASSUME OnSector, i < fptr  PROVE fptr < objsize
  <2>1. fptr % SS = 0 /\ i % SS \in 0 .. SS - 1
    BY <1>7, Divides DEF OnSector
  <2>2. i % SS < fptr % SS
    BY <1>7
  <2> QED BY <2>1, <2>2
<1>8. ASSUME Here = sect \/ ~OnSector  PROVE Loaded = buf
  BY <1>4, <1>8 DEF Loaded
<1> QED BY <1>3, <1>4, <1>6, <1>7, <1>8

\* A part of a sector, through the buffer.
LEMMA WriteBufferedActs ==
    ASSUME FInv, FromFits, FInv', FromFits', UNCHANGED vol, WriteBuffered
    PROVE  File!FileNext
<1> USE Numbers
<1> DEFINE k == Part
           y == fptr % SS
<1>1. Turn /\ pc \in {"write", "put"} /\ Usable
  BY TurnWhen DEF WriteBuffered, Turn
<1>2. /\ k \in Nat \ {0} /\ k <= call.left /\ k \in 1 .. SS - y /\ y \in 0 .. SS - 1
      /\ Here \in Sectors /\ Here = Spot(CSize, fat, sclust, fptr)
  BY <1>1, BufferedTurn, HereIs
<1>3. /\ UNCHANGED <<fat, sclust, err>> /\ fptr' = fptr + k /\ pc' = "write"
      /\ objsize' = Grown /\ dirty' = TRUE /\ sect' = Here /\ io' = Slice(0, k)
      /\ data' = (IF OnSector THEN Flushed ELSE data)
      /\ buf' = [i \in 1 .. SS |-> IF i \in y + 1 .. y + k THEN io'[i - y] ELSE Loaded[i]]
  BY DEF WriteBuffered, Advance, dir
<1>4. Usable'
  BY <1>1, <1>3 DEF Usable
<1>5. /\ data' \in [Sectors -> Sector] /\ Flushed' = [data' EXCEPT ![Here] = buf']
      /\ Flushed \in [Sectors -> Sector]
  BY <1>1, <1>3, BufferedBytes, FlushedIs DEF FInv, Flushed
<1>6. /\ Covers(bcs, fat, objsize', sclust) /\ objsize' \in Nat
      /\ fptr + k <= objsize' /\ objsize <= objsize'
  <2> HIDE DEF k
  <2> QED BY <1>2, <1>3, <1>4, InNewFile
<1>7. io' \in [1 .. k -> Byte]
  <2>1. Calls /\ k \in Nat /\ 0 \in Nat /\ 0 + k <= call.left
    BY <1>2 DEF FInv
  <2> HIDE DEF k
  <2> QED BY <1>1, <1>3, <2>1, SliceIs
<1>8. ASSUME NEW i \in 0 .. k - 1
      PROVE  ByteAt(CSize, fat, sclust, Flushed', fptr + i) = io'[i + 1]
  <2>1. i \in Nat /\ i < Part
    BY <1>2
  <2>2. Spot(CSize, fat, sclust, fptr + i) = Here /\ (fptr + i) % SS = y + i
    BY <1>1, <2>1, BufferedByte
  <2> HIDE DEF y, k
  <2> DEFINE p == (y + i) + 1
  <2>3. p \in 1 .. SS /\ p \in y + 1 .. y + k /\ p - y = i + 1
    BY <1>2
  <2>4. buf'[p] = io'[i + 1]
    <3> HIDE DEF p
    <3> QED BY <1>3, <2>3
  <2>5. Flushed'[Here] = buf'
    BY <1>2, <1>5
  <2> QED BY <2>2, <2>4, <2>5 DEF ByteAt
<1>9. ASSUME NEW i \in Nat, i < objsize, i < fptr \/ i >= fptr + k
      PROVE  ByteAt(CSize, fat, sclust, Flushed', i) = ByteAt(CSize, fat, sclust, Flushed, i)
  <2> DEFINE s == Spot(CSize, fat, sclust, i)
             t == i % SS
  <2>1. i < objsize'
    BY <1>6, <1>9
  <2>2. s \in Sectors
    BY <1>6, <2>1, ByteSpot
  <2>3. CASE s # Here
    <3>1. Flushed'[s] = data'[s]
      BY <1>5, <2>2, <2>3
    <3>2. data'[s] = Flushed[s]
      <4>1. ~OnSector => Here = sect
        BY DEF Here
      <4>2. s # sect => Flushed[s] = data[s]
        BY <2>2, FlushedIs DEF FInv
      <4> QED BY <1>3, <2>3, <4>1, <4>2
    <3> QED BY <3>1, <3>2 DEF ByteAt
  <2>4. CASE s = Here
    <3>1. i \div SS = fptr \div SS
      <4>1. fptr < objsize'
        BY <1>2, <1>6
      <4>2. Spot(CSize, fat, sclust, i) = Spot(CSize, fat, sclust, fptr)
        BY <1>2, <2>4
      <4> QED BY <1>6, <2>1, <4>1, <4>2, SpotOnce
    <3>2. t \in 0 .. SS - 1 /\ (i < fptr => t < y) /\ (i >= fptr + k => t >= y + k)
      <4>1. k \in Nat
        BY <1>2
      <4> HIDE DEF k
      <4> QED BY <3>1, <4>1, BesidePart
    <3>3. i < fptr \/ fptr < objsize
      BY <1>2, <1>9
    <3>4. Loaded = Flushed[Here]
      BY <1>1, <1>9, <3>2, <3>3, LoadedIs
    <3> HIDE DEF t, y, k
    <3>5. t + 1 \in 1 .. SS /\ t + 1 \notin y + 1 .. y + k
      BY <1>2, <1>9, <3>2
    <3>6. buf'[t + 1] = Loaded[t + 1]
      BY <1>3, <3>5
    <3>7. Flushed'[Here] = buf'
      BY <1>2, <1>5
    <3> QED BY <2>4, <3>4, <3>6, <3>7 DEF ByteAt, t
  <2> QED BY <2>3, <2>4
<1> HIDE DEF k
<1>10. Overlaid(k)
  BY <1>7, <1>8, <1>9 DEF Overlaid
<1> QED BY <1>1, <1>2, <1>3, <1>4, <1>10, Takes
-----------------------------------------------------------------------------
(* The file implements the abstract file *)

\* A seek starts from where the pointer is, and a turn of it does not shrink the
\* file.
LEMMA FromStays ==
    ASSUME FInv, FromFits, Next
    PROVE  FromFits'
<1> USE Numbers
<1> SUFFICES ASSUME pc' = "seek"  PROVE call'.from \in 0 .. objsize'
  BY DEF FromFits
<1>1. (\E to \in Offsets : FSeek(to)) \/ SeekFollow
  BY DEF Next, OpenFile, OpenCreate, OpenAppend, OpenFails, OpenExisting, Opened,
     Read, FRead, ReadFollow, ReadDirect, ReadBuffered, ReadFails, ReadEnds, Advance, Abort,
     Write, FWrite, WriteFollow, WriteDirect, WriteBuffered, WriteFails, WriteEnds,
     Seek, SeekEnds, SeekFails, Truncate, FTruncate, TruncateFails, FSync, FClose, WindowMoves
<1>2. ASSUME NEW to \in Offsets, FSeek(to)  PROVE call'.from \in 0 .. objsize'
  <2>1. pc = "open" /\ err = "OK" /\ objsize' = objsize /\ call'.from = fptr
    BY <1>2 DEF FSeek, NoCall
  <2>2. fptr <= objsize
    BY <2>1 DEF FInv, Pointed, Usable
  <2> QED BY <2>1, <2>2
<1>3. CASE SeekFollow
  <2>1. /\ pc = "seek"
        /\ objsize' = objsize \/ (objsize' = fptr' /\ fptr' > objsize /\ fptr' = fptr + bcs)
        /\ \/ call' = [call EXCEPT !.left = @ - bcs] \/ call' = call
           \/ call' = [call EXCEPT !.left = 0]
    BY <1>3 DEF SeekFollow, Abort
  <2>2. call'.from = call.from
    BY <2>1 DEF FInv, Calls
  <2>3. call.from \in 0 .. objsize /\ objsize' \in Nat /\ objsize <= objsize'
    BY <2>1 DEF FromFits
  <2> QED BY <2>2, <2>3
<1> QED BY <1>1, <1>2, <1>3

\* A step that leaves an error hands nothing over.
LEMMA IoStays ==
    ASSUME FInv, Next
    PROVE  IoKnown'
<1> SUFFICES ASSUME io' # <<>>  PROVE err' = "OK"
  BY DEF IoKnown
<1>1. ReadDirect \/ ReadBuffered \/ WriteDirect \/ WriteBuffered
  BY DEF Next, OpenFile, OpenCreate, OpenAppend, OpenFails, OpenExisting, Opened,
     Read, FRead, ReadFollow, ReadFails, ReadEnds, Abort,
     Write, FWrite, WriteFollow, WriteFails, WriteEnds,
     Seek, FSeek, SeekFollow, SeekEnds, SeekFails, Truncate, FTruncate, TruncateFails,
     FSync, FClose, WindowMoves
<1>2. err' = err /\ pc \in Busy
  BY <1>1 DEF ReadDirect, ReadBuffered, WriteDirect, WriteBuffered, InCluster, Advance, Busy
<1> QED BY <1>2 DEF FInv, Calls

\* Every step of the file is one of the abstract file, or changes nothing of it.
LEMMA NextActs ==
    ASSUME FInv, FromFits, IoKnown, FInv', FromFits', Next
    PROVE  File!FileNext \/ UNCHANGED <<Bytes, Pos, State, io>>
<1>1. UNCHANGED vol
  BY DEF Next
<1>2. ASSUME NEW w \in BOOLEAN, OpenExisting(w)  PROVE File!FileNext
  <2>1. /\ Openable /\ pc' = "open" /\ err' = "OK" /\ dirty' = FALSE /\ io' = <<>>
        /\ UNCHANGED <<data, fat>> /\ sclust' = ent.first /\ objsize' = ent.size /\ fptr' = 0
    BY <1>2 DEF OpenExisting, Opened, disk
  <2>2. fptr' = IF FALSE THEN objsize' ELSE 0
    BY <2>1
  <2> QED BY <1>1, <2>1, <2>2, OpenActs
<1>3. CASE OpenAppend
  <2>1. /\ Openable /\ pc' = "open" /\ err' = "OK" /\ dirty' = FALSE /\ io' = <<>>
        /\ UNCHANGED <<data, fat>> /\ sclust' = ent.first /\ objsize' = ent.size
        /\ fptr' = ent.size
    BY <1>3 DEF OpenAppend, Opened, disk
  <2>2. fptr' = IF TRUE THEN objsize' ELSE 0
    BY <2>1
  <2> QED BY <1>1, <2>1, <2>2, OpenActs
<1>4. CASE OpenFile
  BY <1>1, <1>2, <1>3, <1>4, OpenCreateActs, OpenFailsActs DEF OpenFile
<1>5. CASE Read
  BY <1>1, <1>5, CallActs, ReadFollowActs, ReadDirectActs, ReadBufferedActs, ErrorActs DEF Read
<1>6. CASE Write
  BY <1>1, <1>6, CallActs, WriteFollowActs, WriteDirectActs, WriteBufferedActs, ErrorActs DEF Write
<1>7. CASE Seek
  BY <1>1, <1>7, FSeekActs, SeekFollowActs, SeekEndsActs, ErrorActs DEF Seek
<1>8. CASE Truncate
  BY <1>1, <1>8, FTruncateActs, ErrorActs DEF Truncate
<1>9. CASE FSync \/ FClose \/ WindowMoves
  BY <1>1, <1>9, FSyncActs, FCloseActs, WindowMovesActs
<1> QED BY <1>4, <1>5, <1>6, <1>7, <1>8, <1>9 DEF Next

\* Nothing changes in what the abstract file is made of when nothing changes.
LEMMA NothingActs ==
    ASSUME UNCHANGED vars
    PROVE  UNCHANGED <<Bytes, Pos, State, io>> /\ (FromFits => FromFits') /\ (IoKnown => IoKnown')
<1>1. UNCHANGED <<vol, data, fat, ent, sclust, objsize, fptr, sect, buf, dirty, err, pc, call, io>>
  BY DEF vars, disk, dir, obj, cache, flag
<1>2. UNCHANGED <<Pos, State, io>> /\ (FromFits => FromFits') /\ (IoKnown => IoKnown')
  BY <1>1 DEF Pos, State, Usable, FromFits, IoKnown
<1>3. Bytes' = Bytes
  <2>1. \A h, size, cached : Content(h, size, cached)' = Content(h, size, cached)
    BY <1>1 DEF Content, SectorOf, Clust2Sect, Chain, GetFat, bcs, CSize
  <2> QED BY <1>1, <2>1 DEF Bytes, Usable
<1> QED BY <1>2, <1>3

\* What the refinement needs to know of every state.
LEMMA NextRInv == RInv /\ [Next]_vars => RInv'
<1> SUFFICES ASSUME RInv, [Next]_vars  PROVE RInv'
  OBVIOUS
<1>1. FInv'
  BY NextFInv DEF RInv
<1>2. CASE Next
  BY <1>1, <1>2, FromStays, IoStays DEF RInv
<1>3. CASE UNCHANGED vars
  BY <1>1, <1>3, NothingActs DEF RInv
<1> QED BY <1>2, <1>3

\* The first state is the abstract one.
LEMMA InitActs == Init => RInv /\ File!FileInit
<1> SUFFICES ASSUME Init  PROVE RInv /\ File!FileInit
  OBVIOUS
<1>1. FInv
  BY InitFInv
<1>2. pc = "closed" /\ err = "OK" /\ io = <<>> /\ ent.size = 0
  BY DEF Init
<1>3. Bytes = <<>>
  <2>1. Bytes \in Seq(Byte) /\ Len(Bytes) = 0
    BY <1>1, <1>2, Sight DEF Sighted
  <2> QED BY <2>1, EmptySeq
<1>4. Pos = 0 /\ State = "closed"
  BY <1>2 DEF Pos, State, Usable
<1>5. FromFits /\ IoKnown
  BY <1>2 DEF FromFits, IoKnown
<1> QED BY <1>1, <1>2, <1>3, <1>4, <1>5 DEF RInv, File!FileInit

\* Every step is one of the abstract file's, or a stutter.
LEMMA StepActs == RInv /\ [Next]_vars => [File!FileNext]_(File!fileVars)
<1> SUFFICES ASSUME RInv, [Next]_vars  PROVE File!FileNext \/ UNCHANGED <<Bytes, Pos, State, io>>
  BY DEF File!fileVars
<1>1. RInv'
  BY NextRInv
<1>2. CASE Next
  BY <1>1, <1>2, NextActs DEF RInv
<1>3. CASE UNCHANGED vars
  BY <1>3, NothingActs
<1> QED BY <1>2, <1>3

\* Through the sector buffer, around it, along the chain and over closing and
\* opening it again, the file is a sequence of bytes with a pointer.
THEOREM FileIsBytes == Spec => ImplementsByteFile
<1>1. Init => RInv /\ File!FileInit
  BY InitActs
<1>2. RInv /\ [Next]_vars => RInv'
  BY NextRInv
<1>3. RInv /\ [Next]_vars => [File!FileNext]_(File!fileVars)
  BY StepActs
<1> QED BY <1>1, <1>2, <1>3, PTL DEF Spec, ImplementsByteFile, File!FileSpec
===============================================================================
