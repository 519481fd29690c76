--------------------------- MODULE FatChainsProofs ---------------------------
(***************************************************************************)
(* Proofs about the cluster allocator for every number of clusters and     *)
(* files, with and without disk errors: types, the chain structure of the  *)
(* FAT, and that no cluster ever belongs to two chains.                    *)
(***************************************************************************)
EXTENDS FatChains, TLAPS, FiniteSetTheorems, WellFoundedInduction

IInv == TypeOK /\ ChainsLinked

\* The owners that are not objects are told apart, from one another and from
\* the objects.
LEMMA Owners ==
    /\ Nobody \notin {Stray, Cut, Block} /\ Stray \notin {Cut, Block} /\ Cut # Block
    /\ {Nobody, Stray, Cut, Block} \cap Objs = {}
    /\ Files \subseteq Objs /\ Objs \subseteq Files \cup {Root}
BY FileAssumption DEF Objs

\* EOC and 0 are not clusters, and the bounds are numbers.
LEMMA Sizes ==
    /\ N \in Nat /\ N >= 4 /\ EOC \notin Clusters /\ 0 \notin Clusters /\ EOC # 0
    /\ \A c \in Clusters : c \in Nat /\ c >= 2 /\ c < N
    /\ Total \in Nat /\ Unknown \in 0 .. WordMod - 1 /\ Total < WordMod /\ WordMod \in Nat
    /\ 2 \in Clusters
BY SizeAssumption DEF EOC, Clusters, Total, Unknown

\* The types of the variables that make up the chains, and of the running call.
Types ==
    /\ fat \in [Clusters -> {0} \cup Clusters \cup {EOC}]
    /\ sclust \in [Objs -> {0} \cup Clusters]
    /\ owner \in [Clusters -> Objs \cup {Nobody, Stray, Cut, Block}]
    /\ rank \in [Clusters -> Nat]
    /\ call.name \in {"idle", "link", "free", "expand"}
    /\ call.obj \in Files \cup {Root}
    /\ call.c \in 0 .. N /\ call.n \in 0 .. N /\ call.h \in 0 .. N

\* f_expand only looks at clusters, and the ones it looks at one after the
\* other are neighbours until the search wraps around.
LEMMA VisitedClusters ==
    /\ \A i \in 0 .. Total - 1 : Visited(i) \in Clusters
    /\ \A i, k \in 0 .. Total - 1 :
          i <= k /\ Visited(i) + (k - i) < N => Visited(k) = Visited(i) + (k - i)
BY Sizes, SizeAssumption DEF Visited, StartAt, Clusters, Total

LEMMA TypeFacts == TypeOK => Types
BY DEF TypeOK, Types, Calls

\* What remove_chain's loop changes in the running call.
LEMMA FreeCall ==
    ASSUME TypeOK, FreeCluster, fat[call.c] \in Clusters
    PROVE  /\ call'.name = "free" /\ call'.obj = call.obj /\ call'.c = fat[call.c]
           /\ call'.n = call.n /\ call'.h = call.h /\ call' \in Calls
<1> DEFINE x == fat[call.c]
<1>1. call' = [call EXCEPT !.c = x] /\ call.name = "free"
  BY DEF FreeCluster
<1>2. x \in 0 .. N /\ call \in Calls
  BY Sizes DEF Clusters, TypeOK
<1> HIDE DEF x
<1>3. /\ call'.name = "free" /\ call'.obj = call.obj /\ call'.c = x
      /\ call'.n = call.n /\ call'.h = call.h /\ call' \in Calls
  BY <1>1, <1>2 DEF Calls
<1> QED BY <1>3 DEF x

\* What f_expand's loop changes in the running call.
LEMMA ExpandCall ==
    ASSUME TypeOK, InFlight, ExpandLink, call.n # 1
    PROVE  /\ call'.name = "expand" /\ call'.obj = call.obj /\ call'.c = call.c + 1
           /\ call'.n = call.n - 1 /\ call'.h = call.h /\ call' \in Calls
           /\ call.c + 1 \in 0 .. N /\ call.n - 1 \in 1 .. N
<1> DEFINE x == call.c + 1
           y == call.n - 1
<1>1. call' = [call EXCEPT !.c = x, !.n = y] /\ call.name = "expand"
  BY DEF ExpandLink
<1>2. call \in Calls /\ call.c \in Clusters /\ call.n \in 0 .. N /\ call.n >= 1
  BY DEF TypeOK, ExpandLink, InFlight, Calls
<1>3. x \in 0 .. N /\ y \in 1 .. N /\ y \in 0 .. N
  BY <1>2, Sizes DEF Clusters
<1> HIDE DEF x, y
<1>4. /\ call'.name = "expand" /\ call'.obj = call.obj /\ call'.c = x
      /\ call'.n = y /\ call'.h = call.h /\ call' \in Calls
  BY <1>1, <1>2, <1>3 DEF Calls
<1> QED BY <1>3, <1>4 DEF x, y

\* What f_expand starts linking: existing clusters, in numbers that fit.
LEMMA ExpandStart ==
    ASSUME TypeOK, NEW o \in Files, NEW tcl \in 1 .. MaxExpand, NEW opt \in BOOLEAN,
           Expand(o, tcl, opt)
    PROVE  \/ call' = call
           \/ \E v \in Clusters :
                 /\ call'.name = "expand" /\ call'.obj = o /\ call'.c = v
                 /\ call'.n = tcl /\ call'.h = v /\ call' \in Calls
                 /\ \A c \in Clusters : c \in v .. v + tcl - 1 => fat[c] = 0
<1>1. SUFFICES ASSUME call' # call  PROVE \E v \in Clusters :
                 /\ call'.name = "expand" /\ call'.obj = o /\ call'.c = v
                 /\ call'.n = tcl /\ call'.h = v /\ call' \in Calls
                 /\ \A c \in Clusters : c \in v .. v + tcl - 1 => fat[c] = 0
  OBVIOUS
<1>2. PICK i \in 0 .. Total - 1 :
         /\ Run(i, tcl)
         /\ call' = [name |-> "expand", obj |-> o, c |-> Visited(i),
                     n |-> tcl, h |-> Visited(i)]
  BY <1>1 DEF Expand, FindsBlock
<1> DEFINE v == Visited(i)
<1>3. v \in Clusters /\ tcl \in 0 .. N /\ tcl >= 1 /\ v \in 0 .. N
  BY VisitedClusters, Sizes, SizeAssumption
<1>4. ASSUME NEW c \in Clusters, c \in v .. v + tcl - 1
      PROVE  fat[c] = 0
  <2> DEFINE k == i + (c - v)
  <2>1. /\ i \in Nat /\ v \in Nat /\ tcl \in Nat /\ c \in Nat /\ v <= c /\ c < v + tcl
        /\ c < N
    BY <1>3, <1>4, Sizes
  <2>2. i + tcl <= Total /\ \A j \in i .. i + tcl - 1 : fat[Visited(j)] = 0
    BY <1>2 DEF Run
  <2> HIDE DEF v
  <2>3. /\ k \in i .. i + tcl - 1 /\ k \in 0 .. Total - 1 /\ v + (k - i) = c
        /\ i <= k
    BY <2>1, <2>2, Sizes
  <2> USE DEF v
  <2>4. Visited(k) = c
    BY <2>1, <2>3, VisitedClusters
  <2> QED BY <2>2, <2>3, <2>4
<1>5. call' \in Calls
  BY <1>2, <1>3 DEF Calls
<1> QED BY <1>2, <1>3, <1>4, <1>5

\* The steps that leave the chains and the running call alone.
LEMMA QuietSteps ==
    ASSUME \/ DiskFull \/ CallFails \/ GetFree \/ Remount \/ UNCHANGED vars
           \/ \E o \in Files, n \in 1 .. MaxExpand : ExpandDenied(o, n)
    PROVE  UNCHANGED <<fat, sclust, call, owner, rank>>
BY DEF DiskFull, CallFails, GetFree, Remount, ExpandDenied, vars

\* The chains and the running call keep their types.
LEMMA ChainTypeStep ==
    ASSUME IInv, [Next]_vars
    PROVE  Types'
<1> USE Owners, Sizes DEF Types, HeadsOwned, InFlight, Chained, Owned, Idle
<1>0. TypeOK /\ Types /\ HeadsOwned /\ InFlight
  BY TypeFacts DEF IInv, ChainsLinked
<1> HIDE DEF Clusters, EOC
<1>1. ASSUME NEW o \in Objs, CreateChain(o)
      PROVE  Types'
  BY <1>1, <1>0 DEF CreateChain, Finds, FreeSet
<1>2. ASSUME NEW o \in Objs, NEW clst \in Clusters, StretchChain(o, clst)
      PROVE  Types'
  BY <1>2, <1>0 DEF StretchChain, Finds, FreeSet
<1>3. CASE LinkCluster
  BY <1>3, <1>0 DEF LinkCluster
<1>4. CASE LinkFails
  BY <1>4, <1>0 DEF LinkFails, Drop
<1>5. ASSUME NEW o \in Files, NEW hole \in BOOLEAN, RemoveChain(o, hole)
      PROVE  Types'
  BY <1>5, <1>0 DEF RemoveChain
<1>6. ASSUME NEW o \in Files, NEW clst \in Clusters, TruncateChain(o, clst)
      PROVE  Types'
  BY <1>6, <1>0 DEF TruncateChain
<1>7. CASE FreeCluster
  <2>1. call.c \in Clusters /\ fat[call.c] \in {0, EOC} \cup Clusters
    BY <1>7, <1>0 DEF FreeCluster
  <2>2. CASE fat[call.c] \in Clusters
    BY <1>7, <2>1, <2>2, <1>0, FreeCall DEF FreeCluster, Calls
  <2>3. CASE fat[call.c] \notin Clusters
    BY <1>7, <2>1, <2>3, <1>0 DEF FreeCluster
  <2> QED BY <2>2, <2>3
<1>8. CASE FreeFails
  BY <1>8, <1>0 DEF FreeFails, Drop
<1>9. ASSUME NEW o \in Files, NEW tcl \in 1 .. MaxExpand, NEW opt \in BOOLEAN,
             Expand(o, tcl, opt)
      PROVE  Types'
  BY <1>9, <1>0, ExpandStart DEF Expand, Calls
<1>10. CASE ExpandLink
  <2>1. CASE call.n = 1
    BY <1>10, <2>1, <1>0 DEF ExpandLink
  <2>2. CASE call.n # 1
    <3>1. call.c + 1 \in {0} \cup Clusters \cup {EOC} /\ call.c - call.h + 1 \in Nat
      <4>1. call.c \in Clusters /\ call.h \in Clusters /\ call.c >= call.h
        BY <1>10, <1>0 DEF ExpandLink
      <4> QED BY <4>1 DEF Clusters, EOC
    <3>2. call'.name = "expand" /\ call' \in Calls
      BY <1>10, <2>2, <1>0, ExpandCall
    <3>3. /\ fat' = [fat EXCEPT ![call.c] = call.c + 1]
          /\ rank' = [rank EXCEPT ![call.c] = call.c - call.h + 1]
          /\ owner' = [owner EXCEPT ![call.c] = Block] /\ UNCHANGED sclust
      BY <1>10, <2>2 DEF ExpandLink
    <3>4. /\ call'.obj \in Files \cup {Root}
          /\ call'.c \in 0 .. N /\ call'.n \in 0 .. N /\ call'.h \in 0 .. N
      BY <3>2 DEF Calls
    <3> QED BY <3>1, <3>2, <3>3, <3>4, <1>0
  <2> QED BY <2>1, <2>2
<1>11. CASE ExpandFails
  BY <1>11, <1>0 DEF ExpandFails, Drop
<1>12. ASSUME UNCHANGED <<fat, sclust, call, owner, rank>>
      PROVE  Types'
  BY <1>12, <1>0
<1> QED
  BY <1>1, <1>2, <1>3, <1>4, <1>5, <1>6, <1>7, <1>8, <1>9, <1>10, <1>11, <1>12, QuietSteps
     DEF Next, Step, Create, Remove, Contiguous, Proceed

\* Entries are marked free and given away together with their cluster.
LEMMA FreeStep ==
    ASSUME IInv, [Next]_vars
    PROVE  FreeIsNobodys'
<1> USE Owners, Sizes DEF Types, FreeIsNobodys, InFlight, Chained, Owned, Idle
<1>0. TypeOK /\ Types /\ FreeIsNobodys /\ InFlight
  BY TypeFacts DEF IInv, ChainsLinked
<1> HIDE DEF Clusters, EOC
<1>1. ASSUME NEW o \in Objs, CreateChain(o)
      PROVE  FreeIsNobodys'
  BY <1>1, <1>0 DEF CreateChain, Finds, FreeSet
<1>2. ASSUME NEW o \in Objs, NEW clst \in Clusters, StretchChain(o, clst)
      PROVE  FreeIsNobodys'
  BY <1>2, <1>0 DEF StretchChain, Finds, FreeSet
<1>3. CASE LinkCluster
  BY <1>3, <1>0 DEF LinkCluster
<1>4. CASE LinkFails
  BY <1>4, <1>0 DEF LinkFails, Drop
<1>5. ASSUME NEW o \in Files, NEW hole \in BOOLEAN, RemoveChain(o, hole)
      PROVE  FreeIsNobodys'
  BY <1>5, <1>0 DEF RemoveChain
<1>6. ASSUME NEW o \in Files, NEW clst \in Clusters, TruncateChain(o, clst)
      PROVE  FreeIsNobodys'
  BY <1>6, <1>0 DEF TruncateChain
<1>7. CASE FreeCluster
  BY <1>7, <1>0 DEF FreeCluster
<1>8. CASE FreeFails
  BY <1>8, <1>0 DEF FreeFails, Drop
<1>9. ASSUME NEW o \in Files, NEW tcl \in 1 .. MaxExpand, NEW opt \in BOOLEAN,
             Expand(o, tcl, opt)
      PROVE  FreeIsNobodys'
  BY <1>9, <1>0 DEF Expand
<1>10. CASE ExpandLink
  BY <1>10, <1>0 DEF ExpandLink
<1>11. CASE ExpandFails
  BY <1>11, <1>0 DEF ExpandFails, Drop
<1>12. ASSUME UNCHANGED <<fat, sclust, call, owner, rank>>
      PROVE  FreeIsNobodys'
  BY <1>12, <1>0
<1> QED
  BY <1>1, <1>2, <1>3, <1>4, <1>5, <1>6, <1>7, <1>8, <1>9, <1>10, <1>11, <1>12, QuietSteps
     DEF Next, Step, Create, Remove, Contiguous, Proceed

\* Links stay in their chain and go one position on.
LEMMA LinkStep ==
    ASSUME IInv, [Next]_vars
    PROVE  LinksStay'
<1> USE Owners, Sizes DEF Types, LinksStay, FreeIsNobodys, RanksDiffer, HeadsOwned, InFlight, Chained, Owned, Idle
<1>0. TypeOK /\ Types /\ LinksStay /\ FreeIsNobodys /\ RanksDiffer /\ HeadsOwned /\ InFlight
  BY TypeFacts DEF IInv, ChainsLinked
<1> HIDE DEF Clusters, EOC
<1>1. ASSUME NEW o \in Objs, CreateChain(o)
      PROVE  LinksStay'
  BY <1>1, <1>0 DEF CreateChain, Finds, FreeSet
<1>2. ASSUME NEW o \in Objs, NEW clst \in Clusters, StretchChain(o, clst)
      PROVE  LinksStay'
  BY <1>2, <1>0 DEF StretchChain, Finds, FreeSet
<1>3. CASE LinkCluster
  BY <1>3, <1>0 DEF LinkCluster
<1>4. CASE LinkFails
  BY <1>4, <1>0 DEF LinkFails, Drop
<1>5. ASSUME NEW o \in Files, NEW hole \in BOOLEAN, RemoveChain(o, hole)
      PROVE  LinksStay'
  BY <1>5, <1>0 DEF RemoveChain
<1>6. ASSUME NEW o \in Files, NEW clst \in Clusters, TruncateChain(o, clst)
      PROVE  LinksStay'
  BY <1>6, <1>0 DEF TruncateChain
<1>7. CASE FreeCluster
  BY <1>7, <1>0 DEF FreeCluster
<1>8. CASE FreeFails
  BY <1>8, <1>0 DEF FreeFails, Drop
<1>9. ASSUME NEW o \in Files, NEW tcl \in 1 .. MaxExpand, NEW opt \in BOOLEAN,
             Expand(o, tcl, opt)
      PROVE  LinksStay'
  BY <1>9, <1>0 DEF Expand
<1>10. CASE ExpandLink
  BY <1>10, <1>0 DEF ExpandLink
<1>11. CASE ExpandFails
  BY <1>11, <1>0 DEF ExpandFails, Drop
<1>12. ASSUME UNCHANGED <<fat, sclust, call, owner, rank>>
      PROVE  LinksStay'
  BY <1>12, <1>0
<1> QED
  BY <1>1, <1>2, <1>3, <1>4, <1>5, <1>6, <1>7, <1>8, <1>9, <1>10, <1>11, <1>12, QuietSteps
     DEF Next, Step, Create, Remove, Contiguous, Proceed

\* Positions stay different and the end of a chain is its last cluster.
LEMMA RankStep ==
    ASSUME IInv, [Next]_vars
    PROVE  RanksDiffer'
<1> USE Owners, Sizes DEF Types, RanksDiffer, FreeIsNobodys, LinksStay, HeadsOwned, InFlight, Chained, Owned, Idle
<1>0. TypeOK /\ Types /\ RanksDiffer /\ FreeIsNobodys /\ LinksStay /\ HeadsOwned /\ InFlight
  BY TypeFacts DEF IInv, ChainsLinked
<1> HIDE DEF Clusters, EOC
<1>1. ASSUME NEW o \in Objs, CreateChain(o)
      PROVE  RanksDiffer'
  BY <1>1, <1>0 DEF CreateChain, Finds, FreeSet
<1>2. ASSUME NEW o \in Objs, NEW clst \in Clusters, StretchChain(o, clst)
      PROVE  RanksDiffer'
  BY <1>2, <1>0 DEF StretchChain, Finds, FreeSet
<1>3. CASE LinkCluster
  <2>1. SUFFICES ASSUME NEW c \in Clusters, NEW d \in Clusters,
                        owner'[c] = owner'[d], owner'[c] \in Chained
                 PROVE  /\ rank'[c] = rank'[d] => c = d
                        /\ fat'[c] = EOC => rank'[d] <= rank'[c]
    OBVIOUS
  <2>2. /\ call.c \in Clusters /\ owner[call.c] = call.obj /\ call.obj \in Chained
        /\ call.n \in Clusters /\ owner[call.n] = Block /\ call.n # call.c
        /\ fat[call.c] = EOC /\ rank[call.n] = rank[call.c] + 1
    BY <1>3, <1>0 DEF LinkCluster
  <2>3. \A e \in Clusters : owner[e] = call.obj => rank[e] <= rank[call.c]
    BY <2>2, <1>0
  <2>4. /\ rank' = rank /\ owner' = [owner EXCEPT ![call.n] = call.obj]
        /\ fat' = [fat EXCEPT ![call.c] = call.n]
    BY <1>3 DEF LinkCluster
  <2>5. rank[c] \in Nat /\ rank[d] \in Nat /\ rank[call.c] \in Nat
    BY <2>2, <1>0
  <2>6. CASE c = call.n
    BY <2>1, <2>2, <2>3, <2>4, <2>5, <2>6, <1>0
  <2>7. CASE c # call.n /\ d = call.n
    <3>1. owner[c] = call.obj /\ rank[c] <= rank[call.c] /\ rank'[d] = rank[call.c] + 1
      BY <2>1, <2>2, <2>3, <2>4, <2>7, <1>0
    <3>2. fat'[c] # EOC
      <4>1. CASE c = call.c
        BY <4>1, <2>2, <2>4, <1>0
      <4>2. CASE c # call.c
        <5>1. fat'[c] = EOC => rank[call.c] <= rank[c]
          BY <4>2, <3>1, <2>2, <2>4, <1>0
        <5> QED BY <5>1, <4>2, <3>1, <2>2, <2>5, <1>0
      <4> QED BY <4>1, <4>2
    <3> QED BY <3>1, <3>2, <2>4, <2>5
  <2>8. CASE c # call.n /\ d # call.n
    BY <2>1, <2>2, <2>4, <2>8, <1>0
  <2> QED BY <2>6, <2>7, <2>8
<1>4. CASE LinkFails
  BY <1>4, <1>0 DEF LinkFails, Drop
<1>5. ASSUME NEW o \in Files, NEW hole \in BOOLEAN, RemoveChain(o, hole)
      PROVE  RanksDiffer'
  BY <1>5, <1>0 DEF RemoveChain
<1>6. ASSUME NEW o \in Files, NEW clst \in Clusters, TruncateChain(o, clst)
      PROVE  RanksDiffer'
  BY <1>6, <1>0 DEF TruncateChain
<1>7. CASE FreeCluster
  BY <1>7, <1>0 DEF FreeCluster
<1>8. CASE FreeFails
  BY <1>8, <1>0 DEF FreeFails, Drop
<1>9. ASSUME NEW o \in Files, NEW tcl \in 1 .. MaxExpand, NEW opt \in BOOLEAN,
             Expand(o, tcl, opt)
      PROVE  RanksDiffer'
  BY <1>9, <1>0 DEF Expand
<1>10. CASE ExpandLink
  <2>1. CASE call.n = 1
    <3>1. SUFFICES ASSUME NEW c \in Clusters, NEW d \in Clusters,
                          owner'[c] = owner'[d], owner'[c] \in Chained
                   PROVE  /\ rank'[c] = rank'[d] => c = d
                          /\ fat'[c] = EOC => rank'[d] <= rank'[c]
      OBVIOUS
    <3>2. /\ call.c \in Clusters /\ call.h \in Clusters /\ call.c >= call.h
          /\ call.obj \in Objs /\ Owned(call.obj) = {}
          /\ \A e \in Clusters : e \in call.h .. call.c - 1 =>
                owner[e] = Block /\ fat[e] = e + 1 /\ rank[e] = e - call.h + 1
      BY <1>10, <1>0 DEF ExpandLink
    <3>3. /\ fat' = [fat EXCEPT ![call.c] = EOC]
          /\ rank' = [rank EXCEPT ![call.c] = call.c - call.h + 1]
          /\ \A e \in Clusters : owner'[e] = IF e \in call.h .. call.c
                                            THEN call.obj ELSE owner[e]
      BY <1>10, <2>1 DEF ExpandLink
    <3>a. c \in Nat /\ d \in Nat /\ call.c \in Nat /\ call.h \in Nat
      BY <3>2
    <3>4. CASE c \in call.h .. call.c
      <4>1. d \in call.h .. call.c
        BY <3>1, <3>2, <3>3, <3>4
      <4>2. rank'[c] = c - call.h + 1 /\ rank'[d] = d - call.h + 1
        BY <3>2, <3>3, <3>4, <4>1, <1>0
      <4>3. fat'[c] = EOC => c = call.c
        <5>1. c # call.c => fat[c] = c + 1 /\ c + 1 <= call.c
          BY <3>a, <3>2, <3>4
        <5> QED BY <5>1, <3>2, <3>3, <1>0 DEF EOC
      <4> QED BY <3>a, <3>4, <4>1, <4>2, <4>3
    <3>5. CASE c \notin call.h .. call.c
      <4>1. d \notin call.h .. call.c /\ c # call.c /\ d # call.c
        BY <3>1, <3>2, <3>3, <3>5
      <4> QED BY <3>1, <3>3, <3>5, <4>1, <1>0
    <3> QED BY <3>4, <3>5
  <2>2. CASE call.n # 1
    BY <1>10, <2>2, <1>0, ExpandCall DEF ExpandLink
  <2> QED BY <2>1, <2>2
<1>11. CASE ExpandFails
  BY <1>11, <1>0 DEF ExpandFails, Drop
<1>12. ASSUME UNCHANGED <<fat, sclust, call, owner, rank>>
      PROVE  RanksDiffer'
  BY <1>12, <1>0
<1> QED
  BY <1>1, <1>2, <1>3, <1>4, <1>5, <1>6, <1>7, <1>8, <1>9, <1>10, <1>11, <1>12, QuietSteps
     DEF Next, Step, Create, Remove, Contiguous, Proceed

\* Chains keep starting at the first cluster of their object.
LEMMA HeadStep ==
    ASSUME IInv, [Next]_vars
    PROVE  HeadsOwned'
<1> USE Owners, Sizes DEF Types, HeadsOwned, FreeIsNobodys, LinksStay, RanksDiffer, InFlight, Chained, Owned, Idle
<1>0. TypeOK /\ Types /\ HeadsOwned /\ FreeIsNobodys /\ LinksStay /\ RanksDiffer /\ InFlight
  BY TypeFacts DEF IInv, ChainsLinked
<1> HIDE DEF Clusters, EOC
<1>1. ASSUME NEW o \in Objs, CreateChain(o)
      PROVE  HeadsOwned'
  BY <1>1, <1>0 DEF CreateChain, Finds, FreeSet
<1>2. ASSUME NEW o \in Objs, NEW clst \in Clusters, StretchChain(o, clst)
      PROVE  HeadsOwned'
  BY <1>2, <1>0 DEF StretchChain, Finds, FreeSet
<1>3. CASE LinkCluster
  BY <1>3, <1>0 DEF LinkCluster
<1>4. CASE LinkFails
  BY <1>4, <1>0 DEF LinkFails, Drop
<1>5. ASSUME NEW o \in Files, NEW hole \in BOOLEAN, RemoveChain(o, hole)
      PROVE  HeadsOwned'
  BY <1>5, <1>0 DEF RemoveChain
<1>6. ASSUME NEW o \in Files, NEW clst \in Clusters, TruncateChain(o, clst)
      PROVE  HeadsOwned'
  BY <1>6, <1>0 DEF TruncateChain
<1>7. CASE FreeCluster
  BY <1>7, <1>0 DEF FreeCluster
<1>8. CASE FreeFails
  BY <1>8, <1>0 DEF FreeFails, Drop
<1>9. ASSUME NEW o \in Files, NEW tcl \in 1 .. MaxExpand, NEW opt \in BOOLEAN,
             Expand(o, tcl, opt)
      PROVE  HeadsOwned'
  BY <1>9, <1>0 DEF Expand
<1>10. CASE ExpandLink
  <2>1. CASE call.n = 1
    BY SMTT(20), <1>10, <2>1, <1>0 DEF ExpandLink
  <2>2. CASE call.n # 1
    BY <1>10, <2>2, <1>0, ExpandCall DEF ExpandLink
  <2> QED BY <2>1, <2>2
<1>11. CASE ExpandFails
  BY <1>11, <1>0 DEF ExpandFails, Drop
<1>12. ASSUME UNCHANGED <<fat, sclust, call, owner, rank>>
      PROVE  HeadsOwned'
  BY <1>12, <1>0
<1> QED
  BY <1>1, <1>2, <1>3, <1>4, <1>5, <1>6, <1>7, <1>8, <1>9, <1>10, <1>11, <1>12, QuietSteps
     DEF Next, Step, Create, Remove, Contiguous, Proceed

\* What the running call works on stays what its next step expects.
LEMMA FlightStep ==
    ASSUME IInv, [Next]_vars
    PROVE  InFlight'
<1> USE Owners, Sizes DEF Types, InFlight, FreeIsNobodys, LinksStay, RanksDiffer, HeadsOwned, Chained, Owned, Idle
<1>0. TypeOK /\ Types /\ InFlight /\ FreeIsNobodys /\ LinksStay /\ RanksDiffer /\ HeadsOwned
  BY TypeFacts DEF IInv, ChainsLinked
<1> HIDE DEF Clusters, EOC
<1>1. ASSUME NEW o \in Objs, CreateChain(o)
      PROVE  InFlight'
  BY <1>1, <1>0 DEF CreateChain, Finds, FreeSet
<1>2. ASSUME NEW o \in Objs, NEW clst \in Clusters, StretchChain(o, clst)
      PROVE  InFlight'
  BY <1>2, <1>0 DEF StretchChain, Finds, FreeSet
<1>3. CASE LinkCluster
  BY <1>3, <1>0 DEF LinkCluster
<1>4. CASE LinkFails
  BY <1>4, <1>0 DEF LinkFails, Drop
<1>5. ASSUME NEW o \in Files, NEW hole \in BOOLEAN, RemoveChain(o, hole)
      PROVE  InFlight'
  BY <1>5, <1>0 DEF RemoveChain
<1>6. ASSUME NEW o \in Files, NEW clst \in Clusters, TruncateChain(o, clst)
      PROVE  InFlight'
  BY <1>6, <1>0 DEF TruncateChain
<1>7. CASE FreeCluster
  <2>1. call.c \in Clusters /\ fat[call.c] \in {0, EOC} \cup Clusters
    BY <1>7, <1>0 DEF FreeCluster
  <2>2. CASE fat[call.c] \in Clusters
    <3>1. /\ call.obj \in Files /\ owner[call.c] = Cut
          /\ Owned(Block) = {} /\ \A d \in Clusters : owner[d] = Cut => rank[call.c] <= rank[d]
      BY <1>7, <1>0 DEF FreeCluster
    <3>2. owner[fat[call.c]] = Cut /\ rank[fat[call.c]] = rank[call.c] + 1
      BY <2>1, <2>2, <3>1, <1>0
    <3>3. ASSUME NEW d \in Clusters, owner[d] = Cut, d # call.c
          PROVE  rank[call.c] + 1 <= rank[d]
      <4>1. rank[d] # rank[call.c] /\ rank[call.c] <= rank[d]
        BY <2>1, <3>1, <3>3, <1>0
      <4>2. rank[d] \in Nat /\ rank[call.c] \in Nat
        BY <2>1, <3>3, <1>0
      <4> QED BY <4>1, <4>2
    <3>4. /\ call'.name = "free" /\ call'.obj = call.obj /\ call'.c = fat[call.c]
      BY <1>7, <2>2, <1>0, FreeCall
    <3>5. /\ owner' = [owner EXCEPT ![call.c] = Nobody]
          /\ rank' = [rank EXCEPT ![call.c] = 0]
      BY <1>7 DEF FreeCluster
    <3>6. fat[call.c] # call.c
      BY <2>1, <3>2, <1>0
    <3>7. /\ Owned(Block)' = {} /\ owner'[call'.c] = Cut /\ call'.c \in Clusters
          /\ \A d \in Owned(Cut)' : rank'[call'.c] <= rank'[d]
      BY <2>1, <2>2, <3>1, <3>2, <3>3, <3>4, <3>5, <3>6, <1>0
    <3> QED BY <3>1, <3>4, <3>7
  <2>3. CASE fat[call.c] \notin Clusters
    <3>1. /\ owner[call.c] = Cut /\ Owned(Block) = {}
          /\ \A d \in Clusters : owner[d] = Cut => rank[call.c] <= rank[d]
      BY <1>7, <1>0 DEF FreeCluster
    <3>2. fat[call.c] = EOC
      BY <2>1, <2>3, <3>1, <1>0
    <3>3. \A d \in Clusters : owner[d] = Cut => d = call.c
      <4>1. SUFFICES ASSUME NEW d \in Clusters, owner[d] = Cut  PROVE d = call.c
        OBVIOUS
      <4>2. rank[d] <= rank[call.c] /\ rank[call.c] <= rank[d]
        BY <2>1, <3>1, <3>2, <4>1, <1>0
      <4>3. rank[d] \in Nat /\ rank[call.c] \in Nat
        BY <2>1, <4>1, <1>0
      <4>4. rank[d] = rank[call.c]
        BY <4>2, <4>3
      <4> QED BY <2>1, <3>1, <4>1, <4>4, <1>0
    <3>4. call' = Idle /\ owner' = [owner EXCEPT ![call.c] = Nobody]
      BY <1>7, <2>3 DEF FreeCluster
    <3>5. Owned(Cut)' = {} /\ Owned(Block)' = {}
      BY <2>1, <3>1, <3>3, <3>4, <1>0
    <3> QED BY <3>4, <3>5
  <2> QED BY <2>2, <2>3
<1>8. CASE FreeFails
  BY <1>8, <1>0 DEF FreeFails, Drop
<1>9. ASSUME NEW o \in Files, NEW tcl \in 1 .. MaxExpand, NEW opt \in BOOLEAN,
             Expand(o, tcl, opt)
      PROVE  InFlight'
  <2>1. CASE call' = call
    BY <2>1, <1>9, <1>0 DEF Expand
  <2>2. CASE call' # call
    <3>1. PICK v \in Clusters :
             /\ call'.name = "expand" /\ call'.obj = o /\ call'.c = v
             /\ call'.n = tcl /\ call'.h = v
             /\ \A c \in Clusters : c \in v .. v + tcl - 1 => fat[c] = 0
      BY <2>2, <1>9, <1>0, ExpandStart
    <3>2. v \in Nat /\ v .. v - 1 = {} /\ tcl >= 1
      BY SizeAssumption
    <3> QED BY <3>1, <3>2, <1>9, <1>0 DEF Expand
  <2> QED BY <2>1, <2>2
<1>10. CASE ExpandLink
  <2>1. CASE call.n = 1
    BY <1>10, <2>1, <1>0 DEF ExpandLink
  <2>2. CASE call.n # 1
    BY SMTT(20), <1>10, <2>2, <1>0, ExpandCall DEF ExpandLink
  <2> QED BY <2>1, <2>2
<1>11. CASE ExpandFails
  BY <1>11, <1>0 DEF ExpandFails, Drop
<1>12. ASSUME UNCHANGED <<fat, sclust, call, owner, rank>>
      PROVE  InFlight'
  BY <1>12, <1>0
<1> QED
  BY <1>1, <1>2, <1>3, <1>4, <1>5, <1>6, <1>7, <1>8, <1>9, <1>10, <1>11, <1>12, QuietSteps
     DEF Next, Step, Create, Remove, Contiguous, Proceed

\* A set of clusters has a size that the counter can hold.
LEMMA ClusterCount ==
    ASSUME NEW S \in SUBSET Clusters
    PROVE  IsFiniteSet(S) /\ Cardinality(S) \in 0 .. Total
<1>1. IsFiniteSet(Clusters) /\ Cardinality(Clusters) = Total
  BY FS_Interval, SizeAssumption DEF Clusters, Total
<1> QED BY <1>1, FS_Subset, FS_CardinalityType

\* Counting clusters down and up keeps the counter a DWORD.
LEMMA CounterTypes ==
    ASSUME free_clst \in 0 .. WordMod - 1, NEW n \in Nat
    PROVE  LessFree(n) \in 0 .. WordMod - 1 /\ MoreFree \in 0 .. WordMod - 1
<1>1. (free_clst - n) % WordMod \in 0 .. WordMod - 1
  BY SizeAssumption
<1> QED BY <1>1, Sizes DEF LessFree, MoreFree

\* Every step keeps the types.
LEMMA TypeStep ==
    ASSUME IInv, [Next]_vars
    PROVE  TypeOK'
<1>0. TypeOK /\ Types /\ InFlight
  BY TypeFacts DEF IInv, ChainsLinked
<1>1. fat' \in [Clusters -> {0} \cup Clusters \cup {EOC}]
      /\ sclust' \in [Objs -> {0} \cup Clusters]
      /\ owner' \in [Clusters -> Objs \cup {Nobody, Stray, Cut, Block}]
      /\ rank' \in [Clusters -> Nat]
  BY ChainTypeStep DEF Types
<1> DEFINE Rest == /\ free_clst' \in 0 .. WordMod - 1
                   /\ last_clst' \in 0 .. WordMod - 1
                   /\ call' \in Calls
                   /\ ret' \in {"OK", "FULL", "DENIED", "INT_ERR", "DISK_ERR"}
<1>2. /\ free_clst \in 0 .. WordMod - 1 /\ last_clst \in 0 .. WordMod - 1
      /\ call \in Calls /\ ret \in {"OK", "FULL", "DENIED", "INT_ERR", "DISK_ERR"}
      /\ Idle \in Calls
  BY <1>0, SizeAssumption DEF TypeOK, Idle, Calls
<1>3. /\ \A c \in Clusters : c \in 0 .. WordMod - 1 /\ c \in 0 .. N /\ c - 1 \in 0 .. WordMod - 1
      /\ \A h \in 0 .. N : h # 0 => h - 1 \in 0 .. WordMod - 1
      /\ 0 \in 0 .. N /\ 0 .. Total \subseteq 0 .. WordMod - 1
  BY SizeAssumption DEF Clusters, Total
<1>4. LessFree(1) \in 0 .. WordMod - 1 /\ MoreFree \in 0 .. WordMod - 1
  BY <1>2, CounterTypes
<1>5. /\ \A S \in SUBSET Clusters : Cardinality(S) \in 0 .. WordMod - 1
      /\ FreeSet \in SUBSET Clusters
  BY <1>3, ClusterCount DEF FreeSet
<1>6. Objs \subseteq Files \cup {Root} /\ Files \subseteq Objs
  BY Owners
<1> HIDE DEF Clusters, EOC
<1>7. ASSUME NEW o \in Objs, CreateChain(o)
      PROVE  Rest
  BY <1>7, <1>2, <1>3, <1>4 DEF CreateChain
<1>8. ASSUME NEW o \in Objs, NEW clst \in Clusters, StretchChain(o, clst)
      PROVE  Rest
  BY <1>8, <1>2, <1>3, <1>6 DEF StretchChain, counters, Calls
<1>9. ASSUME LinkCluster  PROVE Rest
  BY <1>9, <1>0, <1>2, <1>3, <1>4 DEF LinkCluster, InFlight, Owned
<1>10. ASSUME LinkFails \/ FreeFails \/ ExpandFails
       PROVE  Rest
  BY <1>10, <1>2 DEF LinkFails, FreeFails, ExpandFails, counters
<1>11. ASSUME NEW o \in Files, NEW hole \in BOOLEAN, RemoveChain(o, hole)
       PROVE  Rest
  <2>1. sclust[o] \in Clusters
    BY <1>0, <1>6, <1>11 DEF RemoveChain, TypeOK
  <2>2. (IF hole THEN sclust[o] ELSE 0) \in 0 .. N
    BY <2>1, <1>3
  <2> HIDE DEF Types
  <2> QED BY <1>11, <2>1, <2>2, <1>2, <1>3 DEF RemoveChain, counters, Calls
<1>12. ASSUME NEW o \in Files, NEW clst \in Clusters, TruncateChain(o, clst)
       PROVE  Rest
  BY <1>12, <1>2, <1>3 DEF TruncateChain, counters, Calls
<1>13. ASSUME FreeCluster  PROVE Rest
  <2>1. call.h \in 0 .. N
    BY <1>0 DEF Types
  <2>2. CASE fat[call.c] \in Clusters
    BY <1>13, <2>2, <1>0, <1>2, <1>4, FreeCall DEF FreeCluster
  <2>3. CASE fat[call.c] \notin Clusters
    BY <1>13, <2>1, <2>3, <1>2, <1>3, <1>4 DEF FreeCluster
  <2> QED BY <2>2, <2>3
<1>14. ASSUME NEW o \in Files, NEW tcl \in 1 .. MaxExpand, NEW opt \in BOOLEAN,
              Expand(o, tcl, opt)
       PROVE  Rest
  <2>1. call' \in Calls
    BY <1>0, <1>2, <1>14, ExpandStart
  <2>2. free_clst' = free_clst
    BY <1>14 DEF Expand
  <2>3. last_clst' \in 0 .. WordMod - 1 /\ ret' \in {ret, "OK"}
    BY <1>14, <1>2, <1>3, VisitedClusters DEF Expand
  <2> QED BY <1>2, <2>1, <2>2, <2>3
<1>15. ASSUME ExpandLink  PROVE Rest
  <2>1. CASE call.n = 1
    <3>1. call.c \in Clusters /\ call.h \in Clusters /\ call.c >= call.h
      BY <1>15, <1>0 DEF ExpandLink, InFlight
    <3>2. call.c - call.h + 1 \in Nat
      BY <3>1, Sizes
    <3>3. LessFree(call.c - call.h + 1) \in 0 .. WordMod - 1
      BY <3>2, <1>2, CounterTypes
    <3> QED BY <1>15, <2>1, <3>1, <3>3, <1>2, <1>3 DEF ExpandLink
  <2>2. CASE call.n # 1
    BY <1>15, <2>2, <1>0, <1>2, ExpandCall DEF ExpandLink, counters
  <2> QED BY <2>1, <2>2
<1>16. ASSUME \/ DiskFull \/ CallFails \/ UNCHANGED vars
              \/ \E o \in Files, n \in 1 .. MaxExpand : ExpandDenied(o, n)
       PROVE  Rest
  BY <1>16, <1>2 DEF DiskFull, CallFails, vars, ExpandDenied, counters
<1>17. ASSUME GetFree  PROVE Rest
  <2>1. free_clst' \in 0 .. WordMod - 1
    <3>1. \A k : FreeSet \cap 2 .. k - 1 \in SUBSET Clusters
      BY <1>5
    <3> QED BY <1>17, <3>1, <1>2, <1>5 DEF GetFree
  <2> QED BY <1>17, <2>1, <1>2 DEF GetFree
<1>18. ASSUME Remount  PROVE Rest
  BY <1>18, <1>2, Sizes DEF Remount
<1>19. Rest
  <2> HIDE DEF Rest
  <2> QED BY <1>7, <1>8, <1>9, <1>10, <1>11, <1>12, <1>13, <1>14, <1>15, <1>16,
             <1>17, <1>18
          DEF Next, Step, Create, Remove, Contiguous, Proceed
<1> QED BY <1>1, <1>19 DEF TypeOK

\* The volume starts with a root directory of one cluster, or with none.
LEMMA InitInv == Init => IInv
<1> SUFFICES ASSUME Init PROVE IInv
  OBVIOUS
<1>1. Cardinality(FreeSet) \in 0 .. Total
  BY ClusterCount DEF FreeSet
<1>2. TypeOK
  <2>1. free_clst \in 0 .. WordMod - 1 /\ last_clst \in 0 .. WordMod - 1
    BY <1>1, Sizes DEF Init
  <2>2. call \in Calls
    BY SizeAssumption DEF Init, Idle, Calls
  <2>3. owner \in [Clusters -> Objs \cup {Nobody, Stray, Cut, Block}]
    BY DEF Init, Objs
  <2>4. fat \in [Clusters -> {0} \cup Clusters \cup {EOC}] /\ rank \in [Clusters -> Nat]
    BY DEF Init
  <2>5. sclust \in [Objs -> {0} \cup Clusters]
    BY Sizes DEF Init
  <2> QED BY <2>1, <2>2, <2>3, <2>4, <2>5 DEF TypeOK, Init
<1>3. ChainsLinked
  <2> USE Owners, Sizes, FileAssumption DEF Init, Owned, Idle, Objs, Chained
  <2>1. FreeIsNobodys
    BY DEF FreeIsNobodys
  <2>2. LinksStay
    BY DEF LinksStay
  <2>3. RanksDiffer
    BY DEF RanksDiffer
  <2>4. HeadsOwned
    BY DEF HeadsOwned
  <2>5. InFlight
    BY DEF InFlight
  <2> QED BY <2>1, <2>2, <2>3, <2>4, <2>5 DEF ChainsLinked
<1> QED BY <1>2, <1>3 DEF IInv

\* The chain structure is inductive.
LEMMA InvStep == IInv /\ [Next]_vars => IInv'
BY TypeStep, FreeStep, LinkStep, RankStep, HeadStep, FlightStep DEF IInv, ChainsLinked

LEMMA Invariance == Spec => []IInv
BY InitInv, InvStep, PTL DEF Spec

\* The FAT, the counters and the running call always have their types.
THEOREM TypeCorrect == Spec => []TypeOK
<1>1. IInv => TypeOK
  BY DEF IInv
<1> QED BY Invariance, <1>1, PTL

\* However calls follow one another and wherever a disk error stops them, the
\* FAT stays a set of disjoint chains that start at the objects' first clusters.
THEOREM ChainsStayLinked == Spec => []ChainsLinked
<1>1. IInv => ChainsLinked
  BY DEF IInv
<1> QED BY Invariance, <1>1, PTL

\* The clusters in an object's chain are clusters it was given.
LEMMA ReachIsOwned ==
    ASSUME IInv, NEW o \in Objs
    PROVE  Reach(o) \subseteq Owned(o)
<1>1. SUFFICES ASSUME NEW c \in Reach(o) PROVE c \in Owned(o)
  OBVIOUS
<1>2. sclust[o] # 0 /\ \A S \in SUBSET Clusters : sclust[o] \in S /\ Closed(S) => c \in S
  BY <1>1 DEF Reach
<1>3. sclust[o] \in Clusters /\ owner[sclust[o]] = o
  BY <1>2 DEF IInv, TypeOK, ChainsLinked, HeadsOwned
<1>4. Closed(Owned(o))
  BY DEF IInv, ChainsLinked, LinksStay, Closed, Owned, Chained
<1>5. Owned(o) \in SUBSET Clusters /\ sclust[o] \in Owned(o)
  BY <1>3 DEF Owned
<1> QED BY <1>2, <1>4, <1>5

\* No cluster is ever in the chains of two objects.
THEOREM ChainsNeverCross == Spec => []NoCrossLink
<1>1. IInv => NoCrossLink
  BY ReachIsOwned DEF NoCrossLink, Owned
<1> QED BY Invariance, <1>1, PTL

\* No chain ever leads to a free cluster.
THEOREM ChainsNeverDangle == Spec => []NoDanglingChain
<1>1. IInv => NoDanglingChain
  BY ReachIsOwned, Owners DEF NoDanglingChain, Owned, IInv, ChainsLinked, FreeIsNobodys
<1> QED BY Invariance, <1>1, PTL

\* A call only changes entries in the chain of the object it was made for.
THEOREM OtherChainsUntouched == Spec => OnlyOwnChain
<1> DEFINE Own(o) == \/ call.name # "idle" /\ call.obj = o
                     \/ call'.name # "idle" /\ call'.obj = o
<1>1. ASSUME IInv, [Next]_vars, NEW o \in Objs, NEW c \in Reach(o), fat'[c] # fat[c]
      PROVE  Own(o)
  <2>1. c \in Clusters /\ owner[c] = o /\ fat[c] # 0 /\ fat \in [Clusters -> {0} \cup Clusters \cup {EOC}]
    BY <1>1, ReachIsOwned, Owners DEF Owned, IInv, ChainsLinked, FreeIsNobodys, TypeOK
  <2>2. InFlight /\ FreeIsNobodys
    BY <1>1 DEF IInv, ChainsLinked
  <2> USE Owners
  <2>3. ASSUME NEW p \in Objs, CreateChain(p)  PROVE Own(o)
    BY <2>1, <2>3, <1>1 DEF CreateChain, Finds, FreeSet
  <2>4. ASSUME NEW p \in Objs, NEW clst \in Clusters, StretchChain(p, clst)  PROVE Own(o)
    BY <2>1, <2>4, <1>1 DEF StretchChain, Finds, FreeSet
  <2>5. CASE LinkCluster
    BY <2>1, <2>2, <2>5, <1>1 DEF LinkCluster, InFlight
  <2>6. ASSUME NEW p \in Files, NEW clst \in Clusters, TruncateChain(p, clst)  PROVE Own(o)
    BY <2>1, <2>6, <1>1 DEF TruncateChain
  <2>7. CASE FreeCluster
    BY <2>1, <2>2, <2>7, <1>1 DEF FreeCluster, InFlight
  <2>8. CASE ExpandLink
    <3>1. call.c \in Clusters /\ call.n \in Nat /\ call.n >= 1
      BY <2>2, <2>8, <1>1, TypeFacts DEF ExpandLink, InFlight, IInv, Types
    <3>2. call.c \in call.c .. call.c + call.n - 1
      BY <3>1, Sizes
    <3>3. fat[call.c] = 0
      BY <2>2, <2>8, <3>1, <3>2 DEF InFlight, ExpandLink
    <3> QED BY <2>1, <2>8, <3>1, <3>3, <1>1 DEF ExpandLink
  <2>9. CASE UNCHANGED fat
    BY <2>9, <1>1
  <2>10. ASSUME NEW p \in Files, NEW hole \in BOOLEAN, RemoveChain(p, hole)
         PROVE  UNCHANGED fat
    BY <2>10 DEF RemoveChain
  <2>11. ASSUME NEW p \in Files, NEW tcl \in 1 .. MaxExpand, NEW opt \in BOOLEAN,
                Expand(p, tcl, opt)
         PROVE  UNCHANGED fat
    BY <2>11 DEF Expand
  <2>12. CASE LinkFails \/ FreeFails \/ ExpandFails
    BY <2>9, <2>12 DEF LinkFails, FreeFails, ExpandFails
  <2> QED BY <2>3, <2>4, <2>5, <2>6, <2>7, <2>8, <2>9, <2>10, <2>11, <2>12, <1>1,
             QuietSteps
          DEF Next, Step, Create, Remove, Contiguous, Proceed
<1>2. IInv /\ [Next]_vars =>
         [\A o \in Objs : \A c \in Reach(o) : fat'[c] # fat[c] => Own(o)]_vars
  BY <1>1
<1> QED BY Invariance, <1>2, PTL DEF Spec, OnlyOwnChain
-----------------------------------------------------------------------------
(* The count of free clusters *)

\* Clusters the counter still counts as free: free ones, and those a call has
\* marked and not yet given to its object.
Counted == FreeSet \cup Owned(Block)

\* A count below the total is exact at every step.  On FAT32 it never is the
\* total, because the root directory keeps its cluster.  The block that f_expand
\* links lies inside the FAT.
CountExact ==
    /\ free_clst < Total => free_clst = Cardinality(Counted)
    /\ Fat32 => free_clst # Total
    /\ call.name = "expand" => call.c + call.n <= N
CountInv == (Fat32 => sclust[Root] # 0) /\ (sound => CountExact)

\* The counted clusters are finitely many; the first cluster of a FAT32 root
\* directory is never one of them.
LEMMA RootNotCounted ==
    ASSUME IInv, CountInv
    PROVE  /\ IsFiniteSet(Counted) /\ Cardinality(Counted) \in 0 .. Total
           /\ Fat32 => Cardinality(Counted) # Total
<1>1. IsFiniteSet(Counted) /\ Cardinality(Counted) \in 0 .. Total
  BY ClusterCount DEF Counted, FreeSet, Owned
<1>2. ASSUME Fat32  PROVE Cardinality(Counted) # Total
  <2>1. Root \in Objs /\ sclust[Root] \in Clusters /\ owner[sclust[Root]] = Root
    BY <1>2 DEF IInv, TypeOK, ChainsLinked, HeadsOwned, CountInv, CountExact, Objs
  <2>2. Counted \subseteq Clusters \ {sclust[Root]}
    BY <2>1, Owners DEF Counted, FreeSet, Owned, IInv, ChainsLinked, FreeIsNobodys
  <2>3. IsFiniteSet(Clusters) /\ Cardinality(Clusters) = Total
    BY FS_Interval, SizeAssumption DEF Clusters, Total
  <2>4. /\ IsFiniteSet(Clusters \ {sclust[Root]})
        /\ Cardinality(Clusters \ {sclust[Root]}) = Total - 1
    BY <2>1, <2>3, FS_RemoveElement
  <2>5. Cardinality(Counted) <= Total - 1
    BY <2>2, <2>4, FS_Subset
  <2> QED BY <2>5, <1>1, Sizes
<1> QED BY <1>1, <1>2

\* Giving n of the counted clusters away lowers the count by n.
LEMMA CountDown ==
    ASSUME IInv, CountInv, sound, NEW n \in Nat, NEW S \in SUBSET Counted,
           Cardinality(S) = n, free_clst' = LessFree(n), Counted' = Counted \ S
    PROVE  /\ free_clst' < Total => free_clst' = Cardinality(Counted')
           /\ Fat32 => free_clst' # Total
<1>1. IsFiniteSet(Counted) /\ Cardinality(Counted) \in 0 .. Total
  BY RootNotCounted
<1>2. /\ Cardinality(Counted') = Cardinality(Counted) - n
      /\ n <= Cardinality(Counted)
  <2>1. Counted \cap S = S
    OBVIOUS
  <2>2. Cardinality(Counted \ S) = Cardinality(Counted) - Cardinality(Counted \cap S)
    BY <1>1, FS_Difference
  <2>3. Cardinality(S) <= Cardinality(Counted)
    BY <1>1, FS_Subset
  <2> QED BY <2>1, <2>2, <2>3
<1>3. free_clst \in 0 .. WordMod - 1
  BY DEF IInv, TypeOK
<1>4. CASE free_clst < Total
  <2>1. free_clst = Cardinality(Counted)
    BY <1>4 DEF CountInv, CountExact
  <2>2. free_clst - n \in 0 .. WordMod - 1 /\ free_clst - n < Total
    BY <2>1, <1>1, <1>2, <1>3, <1>4, Sizes
  <2>3. (free_clst - n) % WordMod = free_clst - n
    BY <2>2, Sizes
  <2>4. free_clst' = free_clst - n
    BY <2>3, <1>4 DEF LessFree
  <2> QED BY <2>1, <2>2, <2>4, <1>2, Sizes
<1>5. CASE ~(free_clst < Total)
  BY <1>5 DEF LessFree, CountInv, CountExact
<1> QED BY <1>4, <1>5

\* Every step that fails half-way is one of a behaviour that is not sound.
LEMMA NoFailure ==
    ASSUME IInv, CountInv, sound
    PROVE  ~LinkFails /\ ~FreeFails /\ ~ExpandFails
<1>1. ASSUME ExpandFails  PROVE FALSE
  <2>1. call.name = "expand" /\ call.c \notin Clusters /\ call.c + call.n <= N
    BY <1>1 DEF ExpandFails, DiskErrors, CountInv, CountExact
  <2>2. call.h \in Clusters /\ call.c >= call.h /\ call.n >= 1 /\ Types
    BY <2>1, TypeFacts DEF IInv, ChainsLinked, InFlight
  <2> QED BY <2>1, <2>2, Sizes DEF Types, Clusters
<1> QED BY <1>1 DEF LinkFails, FreeFails, DiskErrors

\* Every step keeps the count exact, as long as no call fails half-way.
LEMMA CountStep ==
    ASSUME IInv, CountInv, [Next]_vars
    PROVE  CountInv'
<1> USE Owners, Sizes
<1>0. /\ TypeOK /\ InFlight /\ FreeIsNobodys /\ HeadsOwned
      /\ Fat32 => Root \in Objs
      /\ free_clst \in 0 .. WordMod - 1 /\ Types
  BY TypeFacts DEF IInv, ChainsLinked, TypeOK, Objs
<1>s. sound' = sound
  BY DEF Next, vars
<1>f. sound => ~LinkFails /\ ~FreeFails /\ ~ExpandFails
  BY NoFailure
<1>r. Fat32 => sclust'[Root] # 0
  <2>1. \A o \in Files : o # Root
    BY FileAssumption
  <2>2. Fat32 => Root \in Objs /\ sclust[Root] # 0
    BY <1>0 DEF CountInv, CountExact
  <2>3. call.name = "expand" => call.obj # Root
    BY <1>0, <2>1 DEF InFlight
  <2>4. ASSUME Fat32, NEW o \in Objs, CreateChain(o)  PROVE sclust'[Root] # 0
    BY <2>2, <2>4, <1>0 DEF CreateChain, Types
  <2>5. ASSUME Fat32, NEW o \in Files, NEW hole \in BOOLEAN, RemoveChain(o, hole)
        PROVE  sclust'[Root] # 0
    BY <2>1, <2>2, <2>5, <1>0 DEF RemoveChain, Types
  <2>6. ASSUME Fat32, ExpandLink  PROVE sclust'[Root] # 0
    BY <2>2, <2>3, <2>6, <1>0 DEF ExpandLink, Types
  <2>7. ASSUME Fat32, sclust' = sclust  PROVE sclust'[Root] # 0
    BY <2>2, <2>7
  <2> QED
    BY <2>4, <2>5, <2>6, <2>7
       DEF Next, Step, Create, Remove, Contiguous, Proceed, StretchChain, DiskFull,
           CallFails, TruncateChain, ExpandDenied, Expand, LinkCluster, LinkFails,
           FreeCluster, FreeFails, ExpandFails, GetFree, Remount, vars
<1> SUFFICES ASSUME sound
             PROVE  CountExact'
  BY <1>s, <1>r DEF CountInv
<1> USE DEF CountExact
<1> HIDE DEF Clusters, EOC
<1>c. CountExact
  BY DEF CountInv
<1>k. Idle.name = "idle"
  BY DEF Idle
<1>1. ASSUME NEW o \in Objs, CreateChain(o)
      PROVE  CountExact'
  <2>1. PICK c \in Clusters :
           /\ c \in FreeSet /\ fat' = [fat EXCEPT ![c] = EOC]
           /\ sclust' = [sclust EXCEPT ![o] = c]
           /\ owner' = [owner EXCEPT ![c] = o]
    BY <1>1 DEF CreateChain, Finds
  <2>2. Counted' = Counted \ {c}
    BY <2>1, <1>0, <1>1 DEF Counted, FreeSet, Owned, Types
  <2>3. {c} \in SUBSET Counted /\ free_clst' = LessFree(1) /\ call = Idle /\ call' = call
    BY <2>1, <1>1 DEF Counted, CreateChain
  <2>4. Cardinality({c}) = 1
    BY FS_Singleton
  <2> QED BY <2>2, <2>3, <2>4, <1>k, CountDown
<1>2. ASSUME NEW o \in Objs, NEW clst \in Clusters, StretchChain(o, clst)
      PROVE  CountExact'
  <2>1. Counted' = Counted
    BY <1>0, <1>2 DEF StretchChain, Finds, Counted, FreeSet, Owned, Types, InFlight
  <2> QED BY <2>1, <1>2, <1>c DEF StretchChain, counters
<1>3. CASE LinkCluster
  <2>1. /\ call.c \in Clusters /\ fat[call.c] = EOC /\ call.obj \in Objs
        /\ call.n \in Clusters /\ owner[call.n] = Block /\ fat[call.n] = EOC
        /\ Owned(Block) = {call.n}
    BY <1>0, <1>3 DEF LinkCluster, InFlight, Owned
  <2>2. Counted' = Counted \ {call.n}
    BY <2>1, <1>0, <1>3 DEF LinkCluster, Counted, FreeSet, Owned, Types
  <2>3. {call.n} \in SUBSET Counted /\ free_clst' = LessFree(1) /\ call' = Idle
    BY <2>1, <1>3 DEF Counted, LinkCluster
  <2>4. Cardinality({call.n}) = 1
    BY FS_Singleton
  <2> QED BY <2>2, <2>3, <2>4, <1>k, CountDown
<1>4. ASSUME NEW o \in Files, NEW hole \in BOOLEAN, RemoveChain(o, hole)
      PROVE  CountExact'
  <2>1. Counted' = Counted
    BY <1>0, <1>4 DEF RemoveChain, Counted, FreeSet, Owned, Types
  <2> QED BY <2>1, <1>4, <1>c DEF RemoveChain, counters
<1>5. ASSUME NEW o \in Files, NEW clst \in Clusters, TruncateChain(o, clst)
      PROVE  CountExact'
  <2>1. Counted' = Counted
    BY <1>0, <1>5 DEF TruncateChain, Counted, FreeSet, Owned, Types
  <2> QED BY <2>1, <1>5, <1>c DEF TruncateChain, counters
<1>6. CASE FreeCluster
  <2>1. /\ call.c \in Clusters /\ owner[call.c] = Cut /\ fat[call.c] # 0
        /\ Owned(Block) = {}
    BY <1>0, <1>6 DEF FreeCluster, InFlight, FreeIsNobodys
  <2>2. Counted' = Counted \cup {call.c} /\ call.c \notin Counted
    BY <2>1, <1>0, <1>6 DEF FreeCluster, Counted, FreeSet, Owned, Types
  <2>3. IsFiniteSet(Counted) /\ Cardinality(Counted) \in 0 .. Total
    BY RootNotCounted
  <2>4. Cardinality(Counted') = Cardinality(Counted) + 1
    BY <2>2, <2>3, FS_AddElement
  <2>5. free_clst' = MoreFree
    BY <2>1, <1>6 DEF FreeCluster
  <2>6. free_clst' < Total => free_clst' = Cardinality(Counted')
    BY <2>3, <2>4, <2>5, <1>0, <1>c DEF MoreFree
  <2>7. Fat32 => free_clst' # Total
    <3>1. SUFFICES ASSUME Fat32, free_clst' = Total  PROVE FALSE
      OBVIOUS
    <3>2. free_clst < Total /\ free_clst + 1 = Total
      BY <3>1, <2>5, <1>c DEF MoreFree
    <3>3. Cardinality(Counted') = Total
      BY <3>2, <2>4, <1>c
    <3>4. Counted' \subseteq Clusters \ {sclust[Root]} /\ sclust[Root] \in Clusters
      <4>1. Root \in Objs /\ sclust[Root] \in Clusters /\ owner[sclust[Root]] = Root
        BY <3>1, <1>0 DEF Types, HeadsOwned, CountInv, CountExact
      <4>2. Counted \subseteq Clusters \ {sclust[Root]}
        BY <4>1, <1>0 DEF Counted, FreeSet, Owned, FreeIsNobodys
      <4> QED BY <4>1, <4>2, <2>1, <2>2
    <3>5. IsFiniteSet(Clusters) /\ Cardinality(Clusters) = Total
      BY FS_Interval, SizeAssumption DEF Clusters, Total
    <3>6. /\ IsFiniteSet(Clusters \ {sclust[Root]})
          /\ Cardinality(Clusters \ {sclust[Root]}) = Total - 1
      BY <3>4, <3>5, FS_RemoveElement
    <3> QED BY <3>3, <3>4, <3>6, FS_Subset
  <2>8. call'.name # "expand"
    <3>1. CASE fat[call.c] \in Clusters
      BY <1>0, <1>6, <3>1, FreeCall
    <3>2. CASE fat[call.c] \notin Clusters
      BY <1>6, <3>2, <1>k DEF FreeCluster
    <3> QED BY <3>1, <3>2
  <2> QED BY <2>6, <2>7, <2>8
<1>7. CASE GetFree
  <2>1. call = Idle /\ UNCHANGED <<fat, sclust, call, owner>>
    BY <1>7 DEF GetFree
  <2>2. Owned(Block) = {} /\ Counted' = Counted /\ Counted = FreeSet
    BY <2>1, <1>0 DEF Idle, InFlight, Counted, FreeSet, Owned
  <2>3. free_clst' = free_clst \/ free_clst' = Cardinality(FreeSet)
    BY <1>7 DEF GetFree, DiskErrors
  <2>4. Fat32 => Cardinality(Counted) # Total
    BY RootNotCounted
  <2> QED BY <2>1, <2>2, <2>3, <2>4, <1>c, <1>k
<1>8. CASE Remount
  <2>1. Unknown > Total
    BY SizeAssumption DEF Unknown, Total
  <2> QED BY <1>8, <2>1, <1>k DEF Remount
<1>9. ASSUME UNCHANGED <<fat, sclust, free_clst, call, owner>>
      PROVE  CountExact'
  BY <1>9, <1>c DEF Counted, FreeSet, Owned
<1>10. CASE \/ DiskFull \/ CallFails \/ UNCHANGED vars
            \/ \E o \in Files, n \in 1 .. MaxExpand : ExpandDenied(o, n)
  BY <1>9, <1>10 DEF DiskFull, CallFails, vars, ExpandDenied, counters
<1>11. ASSUME NEW o \in Files, NEW tcl \in 1 .. MaxExpand, NEW opt \in BOOLEAN,
              Expand(o, tcl, opt)
       PROVE  CountExact'
  <2>1. UNCHANGED <<fat, free_clst, owner>>
    BY <1>11 DEF Expand
  <2>2. Counted' = Counted
    BY <2>1 DEF Counted, FreeSet, Owned
  <2>3. \/ call' = call /\ call = Idle
        \/ \E v : /\ v + tcl <= N
                  /\ call' = [name |-> "expand", obj |-> o, c |-> v, n |-> tcl, h |-> v]
    BY <1>11 DEF Expand
  <2>4. call'.name = "expand" => call'.c + call'.n <= N
    BY <2>3, <1>k
  <2> QED BY <2>1, <2>2, <2>4, <1>c
<1>12. CASE ExpandLink
  <2>1. /\ call.c \in Clusters /\ call.h \in Clusters /\ call.c >= call.h
        /\ call.n \in Nat /\ call.n >= 1 /\ call.name = "expand"
        /\ call.obj \in Objs /\ Owned(Block) = call.h .. call.c - 1
        /\ \A c \in Clusters : c \in call.c .. call.c + call.n - 1 => fat[c] = 0
        /\ call.c \in Nat /\ call.h \in Nat
    <3>1. call.name = "expand" /\ call.c \in Clusters
      BY <1>12 DEF ExpandLink
    <3> QED BY <3>1, <1>0 DEF InFlight, Types
  <2>2. fat[call.c] = 0
    <3>1. call.c \in call.c .. call.c + call.n - 1
      BY <2>1
    <3> QED BY <2>1, <3>1
  <2>3. CASE call.n = 1
    <3> DEFINE S == call.h .. call.c
    <3>1. S \subseteq Counted /\ Cardinality(S) = call.c - call.h + 1
      <4>1. \A c \in S : c = call.c \/ c \in call.h .. call.c - 1
        BY <2>1
      <4>2. call.c \in FreeSet
        BY <2>1, <2>2 DEF FreeSet
      <4>3. S \subseteq Counted
        BY <4>1, <4>2, <2>1 DEF Counted
      <4>4. Cardinality(S) = call.c - call.h + 1
        <5>1. call.c \in Int /\ call.h \in Int /\ ~(call.h > call.c)
          BY <2>1
        <5> QED BY ONLY <5>1, FS_Interval
      <4> QED BY <4>3, <4>4
    <3>2. /\ free_clst' = LessFree(call.c - call.h + 1) /\ call' = Idle
          /\ fat' = [fat EXCEPT ![call.c] = EOC]
          /\ owner' = [c \in Clusters |-> IF c \in S THEN call.obj ELSE owner[c]]
      BY <1>12, <2>3 DEF ExpandLink
    <3>3. \A c \in Clusters : fat[c] = 0 /\ c # call.c => c \notin S
      <4>1. \A c \in Owned(Block) : fat[c] # 0
        BY <1>0 DEF Owned, FreeIsNobodys
      <4>2. \A c \in S : c = call.c \/ c \in Owned(Block)
        BY <2>1
      <4> QED BY <4>1, <4>2
    <3>4. FreeSet' = FreeSet \ S
      <4>1. S \cap FreeSet = {call.c}
        <5>1. call.c \in S /\ call.c \in FreeSet
          BY <2>1, <2>2 DEF FreeSet
        <5> QED BY <5>1, <3>3 DEF FreeSet
      <4>2. FreeSet' = FreeSet \ {call.c}
        BY <3>2, <2>1, <1>0 DEF FreeSet, Types
      <4> QED BY <4>1, <4>2
    <3>5. Owned(Block)' = Owned(Block) \ S
      BY <3>2, <2>1, <1>0 DEF Owned, Types
    <3>6. Counted' = Counted \ S
      BY <3>4, <3>5 DEF Counted
    <3>7. call.c - call.h + 1 \in Nat
      BY <2>1
    <3> QED BY <3>1, <3>2, <3>6, <3>7, <1>k, CountDown
  <2>4. CASE call.n # 1
    <3>1. /\ call'.c = call.c + 1 /\ call'.n = call.n - 1
      BY <2>4, <1>0, <1>12, ExpandCall
    <3>2. /\ fat' = [fat EXCEPT ![call.c] = call.c + 1]
          /\ owner' = [owner EXCEPT ![call.c] = Block] /\ free_clst' = free_clst
      BY <1>12, <2>4 DEF ExpandLink, counters
    <3>3. FreeSet' = FreeSet \ {call.c}
      BY <3>2, <2>1, <1>0 DEF FreeSet, Types
    <3>4. Owned(Block)' = Owned(Block) \cup {call.c}
      BY <3>2, <2>1, <1>0 DEF Owned, Types
    <3>5. Counted' = Counted
      BY <3>3, <3>4, <2>1, <2>2 DEF Counted, FreeSet
    <3>6. call'.c + call'.n <= N
      <4>1. call.c + call.n <= N
        BY <2>1, <1>c
      <4> QED BY <3>1, <4>1, <2>1
    <3> QED BY <3>2, <3>5, <3>6, <1>c
  <2> QED BY <2>3, <2>4
<1> HIDE DEF CountExact
<1>13. CountExact'
  <2>1. CASE Create
    BY <2>1, <1>1, <1>2, <1>10 DEF Create
  <2>2. CASE Remove
    BY <2>2, <1>4, <1>5 DEF Remove
  <2>3. CASE Contiguous
    BY <2>3, <1>10, <1>11 DEF Contiguous
  <2>4. CASE Proceed
    BY <2>4, <1>3, <1>6, <1>12, <1>f DEF Proceed
  <2> QED BY <2>1, <2>2, <2>3, <2>4, <1>7, <1>8, <1>10 DEF Next, Step
<1> QED BY <1>13

LEMMA CountInit == Init => CountInv
<1> SUFFICES ASSUME Init PROVE CountInv
  OBVIOUS
<1>1. Owned(Block) = {} /\ Counted = FreeSet
  BY FileAssumption DEF Init, Owned, Counted
<1>2. Fat32 => sclust[Root] # 0
  BY DEF Init, Objs
<1>3. Unknown > Total
  BY SizeAssumption DEF Unknown, Total
<1>4. free_clst \in {Unknown, Cardinality(FreeSet)}
  BY DEF Init
<1>5. Fat32 => Cardinality(FreeSet) # Total
  <2> SUFFICES ASSUME Fat32 PROVE Cardinality(FreeSet) # Total
    OBVIOUS
  <2>1. 2 \in Clusters /\ FreeSet \subseteq Clusters \ {2}
    BY Sizes DEF Init, FreeSet
  <2>2. IsFiniteSet(Clusters) /\ Cardinality(Clusters) = Total
    BY FS_Interval, SizeAssumption DEF Clusters, Total
  <2>3. IsFiniteSet(Clusters \ {2}) /\ Cardinality(Clusters \ {2}) = Total - 1
    BY <2>1, <2>2, FS_RemoveElement
  <2> QED BY <2>1, <2>3, FS_Subset, Sizes
<1>6. call.name # "expand"
  BY DEF Init, Idle
<1> QED BY <1>1, <1>2, <1>3, <1>4, <1>5, <1>6, Sizes DEF CountInv, CountExact

LEMMA CountInvariance == Spec => []CountInv
<1>1. IInv /\ CountInv /\ [Next]_vars => CountInv'
  BY CountStep
<1> QED BY Invariance, CountInit, <1>1, PTL DEF Spec

\* As long as no call fails half-way, a count that f_getfree returns without a
\* scan is the number of free clusters, through every create_chain, remove_chain
\* and f_expand; on FAT12/16 only a count of the total is not kept.
THEOREM CountStaysExact == Spec => []FreeCountExact
<1>1. IInv /\ CountInv => FreeCountExact
  <2> SUFFICES ASSUME IInv, CountInv PROVE FreeCountExact
    OBVIOUS
  <2>1. call = Idle => Counted = FreeSet
    BY DEF IInv, ChainsLinked, InFlight, Idle, Counted
  <2>2. free_clst \in 0 .. WordMod - 1
    BY DEF IInv, TypeOK
  <2> QED BY <2>1, <2>2, Sizes DEF FreeCountExact, CountInv, CountExact
<1> QED BY Invariance, CountInvariance, <1>1, PTL
-----------------------------------------------------------------------------
(* No cluster is lost *)

\* A cluster in the chain of an object that is not its first one is what the
\* entry of another cluster of that chain leads to.
Preceded ==
    \A c \in Clusters : owner[c] \in Objs /\ rank[c] # 1 =>
        \E d \in Clusters : owner[d] = owner[c] /\ fat[d] = c

\* No call has dropped clusters.
NothingDropped == sound => Owned(Stray) = {}

\* Every cluster of a chain keeps its predecessor.
LEMMA PrecededStep ==
    ASSUME IInv, Preceded, [Next]_vars
    PROVE  Preceded'
<1> USE Owners, Sizes DEF Types, FreeIsNobodys, InFlight, Owned
<1>0. Types /\ FreeIsNobodys /\ InFlight /\ LinksStay /\ HeadsOwned /\ Chained = Objs \cup {Cut}
  BY TypeFacts DEF IInv, ChainsLinked, Chained
<1>p. \A c \in Clusters : owner[c] \in Objs /\ rank[c] # 1 =>
         \E d \in Clusters : owner[d] = owner[c] /\ fat[d] = c
  BY DEF Preceded
<1> HIDE DEF Clusters, EOC
<1>1. ASSUME NEW o \in Objs, CreateChain(o)
      PROVE  Preceded'
  <2>1. PICK n \in Clusters :
           /\ fat[n] = 0 /\ fat' = [fat EXCEPT ![n] = EOC]
           /\ owner' = [owner EXCEPT ![n] = o] /\ rank' = [rank EXCEPT ![n] = 1]
    BY <1>1 DEF CreateChain, Finds, FreeSet
  <2>2. ASSUME NEW c \in Clusters, owner'[c] \in Objs, rank'[c] # 1
        PROVE  \E d \in Clusters : owner'[d] = owner'[c] /\ fat'[d] = c
    <3>1. c # n /\ owner[c] \in Objs /\ rank[c] # 1
      BY <2>1, <2>2, <1>0
    <3>2. PICK d \in Clusters : owner[d] = owner[c] /\ fat[d] = c
      BY <3>1, <1>p
    <3> QED BY <2>1, <3>1, <3>2, <1>0
  <2> QED BY <2>2 DEF Preceded
<1>2. ASSUME NEW o \in Objs, NEW clst \in Clusters, StretchChain(o, clst)
      PROVE  Preceded'
  <2>1. PICK n \in Clusters :
           /\ fat[n] = 0 /\ fat' = [fat EXCEPT ![n] = EOC]
           /\ owner' = [owner EXCEPT ![n] = Block]
           /\ rank' = [rank EXCEPT ![n] = rank[clst] + 1]
    BY <1>2 DEF StretchChain, Finds, FreeSet
  <2>2. ASSUME NEW c \in Clusters, owner'[c] \in Objs, rank'[c] # 1
        PROVE  \E d \in Clusters : owner'[d] = owner'[c] /\ fat'[d] = c
    <3>1. c # n /\ owner[c] \in Objs /\ rank[c] # 1
      BY <2>1, <2>2, <1>0
    <3>2. PICK d \in Clusters : owner[d] = owner[c] /\ fat[d] = c
      BY <3>1, <1>p
    <3> QED BY <2>1, <3>1, <3>2, <1>0
  <2> QED BY <2>2 DEF Preceded
<1>3. CASE LinkCluster
  <2>1. /\ call.c \in Clusters /\ owner[call.c] = call.obj /\ fat[call.c] = EOC
        /\ call.n \in Clusters /\ owner[call.n] = Block /\ call.obj \in Objs
        /\ fat' = [fat EXCEPT ![call.c] = call.n]
        /\ owner' = [owner EXCEPT ![call.n] = call.obj] /\ rank' = rank
    BY <1>3, <1>0 DEF LinkCluster
  <2>2. ASSUME NEW c \in Clusters, owner'[c] \in Objs, rank'[c] # 1
        PROVE  \E d \in Clusters : owner'[d] = owner'[c] /\ fat'[d] = c
    <3>1. CASE c = call.n
      BY <2>1, <3>1, <1>0
    <3>2. CASE c # call.n
      <4>1. PICK d \in Clusters : owner[d] = owner[c] /\ fat[d] = c
        BY <2>1, <2>2, <3>2, <1>0, <1>p
      <4> QED BY <2>1, <2>2, <3>2, <4>1, <1>0
    <3> QED BY <3>1, <3>2
  <2> QED BY <2>2 DEF Preceded
<1>4. CASE LinkFails \/ FreeFails \/ ExpandFails
  <2>1. /\ fat' = fat
        /\ \A c \in Clusters : owner'[c] \in Objs => owner'[c] = owner[c] /\ rank'[c] = rank[c]
        /\ \A c \in Clusters : owner[c] \in Objs => owner'[c] = owner[c]
    BY <1>4, <1>0 DEF LinkFails, FreeFails, ExpandFails, Drop
  <2> QED BY <2>1, <1>p DEF Preceded
<1>5. ASSUME NEW o \in Files, NEW hole \in BOOLEAN, RemoveChain(o, hole)
      PROVE  Preceded'
  <2>1. /\ fat' = fat /\ rank' = rank
        /\ \A c \in Clusters : owner'[c] = IF owner[c] = o THEN Cut ELSE owner[c]
    BY <1>5 DEF RemoveChain
  <2> QED BY <2>1, <1>p DEF Preceded
<1>6. ASSUME NEW o \in Files, NEW clst \in Clusters, TruncateChain(o, clst)
      PROVE  Preceded'
  <2>1. /\ fat' = [fat EXCEPT ![clst] = EOC] /\ rank' = rank /\ owner[clst] = o
        /\ \A c \in Clusters : owner'[c] = IF owner[c] = o /\ rank[c] > rank[clst]
                                           THEN Cut ELSE owner[c]
    BY <1>6 DEF TruncateChain
  <2>2. ASSUME NEW c \in Clusters, owner'[c] \in Objs, rank'[c] # 1
        PROVE  \E d \in Clusters : owner'[d] = owner'[c] /\ fat'[d] = c
    <3>1. owner'[c] = owner[c] /\ ~(owner[c] = o /\ rank[c] > rank[clst])
      BY <2>1, <2>2
    <3>2. PICK d \in Clusters : owner[d] = owner[c] /\ fat[d] = c
      BY <2>1, <2>2, <3>1, <1>p
    <3>3. rank[c] = rank[d] + 1 /\ rank[c] \in Nat /\ rank[d] \in Nat /\ rank[clst] \in Nat
      BY <2>2, <3>1, <3>2, <1>0 DEF LinksStay
    <3>4. d # clst /\ ~(owner[d] = o /\ rank[d] > rank[clst])
      BY <2>1, <3>1, <3>2, <3>3
    <3> QED BY <2>1, <3>1, <3>2, <3>4, <1>0
  <2> QED BY <2>2 DEF Preceded
<1>7. CASE FreeCluster
  <2>1. /\ call.c \in Clusters /\ owner[call.c] = Cut
        /\ fat' = [fat EXCEPT ![call.c] = 0]
        /\ owner' = [owner EXCEPT ![call.c] = Nobody]
        /\ rank' = [rank EXCEPT ![call.c] = 0]
    BY <1>7, <1>0 DEF FreeCluster
  <2>2. ASSUME NEW c \in Clusters, owner'[c] \in Objs, rank'[c] # 1
        PROVE  \E d \in Clusters : owner'[d] = owner'[c] /\ fat'[d] = c
    <3>1. c # call.c /\ owner[c] \in Objs /\ rank[c] # 1 /\ owner'[c] = owner[c]
      BY <2>1, <2>2, <1>0
    <3>2. PICK d \in Clusters : owner[d] = owner[c] /\ fat[d] = c
      BY <3>1, <1>p
    <3> QED BY <2>1, <3>1, <3>2, <1>0
  <2> QED BY <2>2 DEF Preceded
<1>8. CASE ExpandLink
  <2>1. /\ call.c \in Clusters /\ call.h \in Clusters /\ call.c >= call.h
        /\ call.n \in Nat /\ call.n >= 1
        /\ \A c \in Clusters : c \in call.c .. call.c + call.n - 1 => fat[c] = 0
    <3>1. call.name = "expand" /\ call.c \in Clusters
      BY <1>8 DEF ExpandLink
    <3> QED BY <3>1, <1>0
  <2>2. fat[call.c] = 0 /\ owner[call.c] = Nobody
    <3>1. call.c \in call.c .. call.c + call.n - 1
      BY <2>1
    <3> QED BY <2>1, <3>1, <1>0
  <2>3. /\ fat' = [fat EXCEPT ![call.c] = IF call.n = 1 THEN EOC ELSE call.c + 1]
        /\ rank' = [rank EXCEPT ![call.c] = call.c - call.h + 1]
    BY <1>8 DEF ExpandLink
  <2>4. CASE call.n = 1
    <3>1. /\ \A e \in Clusters : owner'[e] = IF e \in call.h .. call.c
                                            THEN call.obj ELSE owner[e]
          /\ \A e \in call.h .. call.c - 1 :
                e \in Clusters /\ owner[e] = Block /\ fat[e] = e + 1 /\ rank[e] = e - call.h + 1
          /\ call.obj \in Objs
      <4>1. Owned(Block) = call.h .. call.c - 1 /\ call.obj \in Files
        BY <1>8, <1>0 DEF ExpandLink
      <4>2. \A e \in Owned(Block) : fat[e] = e + 1 /\ rank[e] = e - call.h + 1
        BY <1>8, <1>0 DEF ExpandLink
      <4> QED BY <1>8, <2>4, <4>1, <4>2 DEF ExpandLink
    <3>2. ASSUME NEW c \in Clusters, owner'[c] \in Objs, rank'[c] # 1
          PROVE  \E d \in Clusters : owner'[d] = owner'[c] /\ fat'[d] = c
      <4>1. CASE c \in call.h .. call.c
        <5>1. c \in Nat /\ call.h \in Nat /\ call.c \in Nat
          BY <2>1
        <5>2. c # call.h
          <6>1. rank'[c] = c - call.h + 1
            <7>1. CASE c = call.c
              BY <7>1, <2>1, <2>3, <1>0
            <7>2. CASE c # call.c
              <8>1. c \in call.h .. call.c - 1
                BY <4>1, <5>1, <7>2
              <8> QED BY <8>1, <7>2, <3>1, <2>3, <1>0
            <7> QED BY <7>1, <7>2
          <6> QED BY <6>1, <3>2, <5>1
        <5>3. c - 1 \in call.h .. call.c - 1
          BY <4>1, <5>1, <5>2
        <5>4. c - 1 \in Clusters /\ fat[c - 1] = c /\ c - 1 # call.c
          BY <3>1, <5>1, <5>3
        <5>5. fat'[c - 1] = c
          BY <5>4, <2>3, <1>0
        <5>6. owner'[c - 1] = owner'[c]
          BY <3>1, <4>1, <5>3, <5>4, <5>1
        <5> QED BY <5>4, <5>5, <5>6
      <4>2. CASE c \notin call.h .. call.c
        <5>1. owner[c] = owner'[c] /\ rank[c] # 1
          <6>1. c # call.c
            BY <4>2, <2>1
          <6> QED BY <6>1, <4>2, <3>1, <3>2, <2>3, <1>0
        <5>2. PICK d \in Clusters : owner[d] = owner[c] /\ fat[d] = c
          BY <5>1, <3>2, <1>p
        <5>3. d \notin call.h .. call.c
          <6>1. d # call.c /\ owner[d] # Block
            BY <5>1, <5>2, <3>2, <2>2
          <6>2. d \notin call.h .. call.c - 1
            BY <6>1, <3>1
          <6> QED BY <6>1, <6>2, <2>1
        <5> QED BY <5>1, <5>2, <5>3, <3>1, <2>1, <2>3, <1>0
      <4> QED BY <4>1, <4>2
    <3> QED BY <3>2 DEF Preceded
  <2>5. CASE call.n # 1
    <3>1. owner' = [owner EXCEPT ![call.c] = Block]
      BY <1>8, <2>5 DEF ExpandLink
    <3>2. ASSUME NEW c \in Clusters, owner'[c] \in Objs, rank'[c] # 1
          PROVE  \E d \in Clusters : owner'[d] = owner'[c] /\ fat'[d] = c
      <4>1. c # call.c /\ owner[c] \in Objs /\ rank[c] # 1
        BY <2>1, <2>3, <3>1, <3>2, <1>0
      <4>2. PICK d \in Clusters : owner[d] = owner[c] /\ fat[d] = c
        BY <4>1, <1>p
      <4> QED BY <2>1, <2>2, <2>3, <3>1, <4>1, <4>2, <1>0
    <3> QED BY <3>2 DEF Preceded
  <2> QED BY <2>4, <2>5
<1>9. ASSUME UNCHANGED <<fat, owner, rank>>
      PROVE  Preceded'
  BY <1>9, <1>p DEF Preceded
<1>10. ASSUME NEW o \in Files, NEW tcl \in 1 .. MaxExpand, NEW opt \in BOOLEAN,
              Expand(o, tcl, opt)
       PROVE  Preceded'
  BY <1>9, <1>10 DEF Expand
<1> QED
  <2>1. CASE Create
    BY <2>1, <1>1, <1>2, <1>9, QuietSteps DEF Create
  <2>2. CASE Remove
    BY <2>2, <1>5, <1>6 DEF Remove
  <2>3. CASE Contiguous
    BY <2>3, <1>9, <1>10, QuietSteps DEF Contiguous
  <2>4. CASE Proceed
    BY <2>4, <1>3, <1>4, <1>7, <1>8 DEF Proceed
  <2> QED BY <2>1, <2>2, <2>3, <2>4, <1>9, QuietSteps DEF Next, Step

\* As long as no call fails half-way, no cluster is dropped.
LEMMA DroppedStep ==
    ASSUME IInv, CountInv, NothingDropped, [Next]_vars
    PROVE  NothingDropped'
<1> USE Owners, Sizes DEF Owned
<1>s. sound' = sound
  BY DEF Next, vars
<1> SUFFICES ASSUME sound, NEW c \in Clusters, owner'[c] = Stray
             PROVE  FALSE
  BY <1>s DEF NothingDropped
<1>0. owner[c] # Stray /\ Types /\ \A o \in Objs : o # Stray
  BY TypeFacts DEF NothingDropped, IInv
<1>f. ~LinkFails /\ ~FreeFails /\ ~ExpandFails
  BY NoFailure
<1> HIDE DEF Clusters, Owned
<1>1. ASSUME NEW o \in Objs, \/ CreateChain(o)
                             \/ \E clst \in Clusters : StretchChain(o, clst)
      PROVE  FALSE
  BY <1>0, <1>1 DEF CreateChain, StretchChain, Types
<1>2. ASSUME NEW o \in Files, \/ \E hole \in BOOLEAN : RemoveChain(o, hole)
                              \/ \E clst \in Clusters : TruncateChain(o, clst)
      PROVE  FALSE
  BY <1>0, <1>2 DEF RemoveChain, TruncateChain, Types
<1>3. CASE LinkCluster
  <2>1. call.obj \in Objs
    BY <1>3 DEF LinkCluster, IInv, ChainsLinked, InFlight
  <2> QED BY <1>0, <1>3, <2>1 DEF LinkCluster, Types
<1>4. CASE FreeCluster
  BY <1>0, <1>4 DEF FreeCluster, Types
<1>5. CASE ExpandLink
  <2>1. call.obj \in Objs
    BY <1>5 DEF ExpandLink, IInv, ChainsLinked, InFlight
  <2> QED BY <1>0, <1>5, <2>1 DEF ExpandLink, Types
<1>6. owner' = owner => FALSE
  BY <1>0
<1>7. ASSUME NEW o \in Files, NEW tcl \in 1 .. MaxExpand, NEW opt \in BOOLEAN,
             Expand(o, tcl, opt)
      PROVE  FALSE
  BY <1>6, <1>7 DEF Expand
<1> QED
  BY <1>1, <1>2, <1>3, <1>4, <1>5, <1>6, <1>7, <1>f, QuietSteps
     DEF Next, Step, Create, Remove, Contiguous, Proceed

\* A set of natural numbers that is not empty has a least element.
LEMMA Least ==
    ASSUME NEW S \in SUBSET Nat, S # {}
    PROVE  \E x \in S : \A y \in S : x <= y
<1> DEFINE R == OpToRel(<, Nat)
<1>1. IsWellFoundedOn(R, Nat)
  BY NatLessThanWellFounded
<1>2. \A x, y \in Nat : x < y => <<x, y>> \in R
  BY DEF OpToRel
<1> HIDE DEF R
<1>3. PICK x \in S : \A y \in S : ~ (<<y, x>> \in R)
  BY <1>1, WFMin
<1>4. ASSUME NEW y \in S  PROVE x <= y
  <2>1. x \in Nat /\ y \in Nat /\ ~ (y < x)
    BY <1>2, <1>3
  <2> QED BY <2>1
<1> QED BY <1>3, <1>4

\* Following the FAT from an object's first cluster meets all its clusters: of
\* the ones it missed, one of the lowest position would have a predecessor.
LEMMA OwnedIsReached ==
    ASSUME IInv, Preceded, NEW o \in Objs
    PROVE  Owned(o) \subseteq Reach(o)
<1>0. /\ HeadsOwned /\ LinksStay /\ RanksDiffer /\ o \in Chained
      /\ rank \in [Clusters -> Nat]
  BY DEF IInv, TypeOK, ChainsLinked, Chained
<1> SUFFICES ASSUME NEW c \in Owned(o)
             PROVE  c \in Reach(o)
  OBVIOUS
<1>1. c \in Clusters /\ sclust[o] # 0 /\ owner[sclust[o]] = o /\ rank[sclust[o]] = 1
  BY <1>0 DEF HeadsOwned, Owned
<1>2. sclust[o] \in Clusters
  BY <1>1 DEF IInv, TypeOK
<1>3. ASSUME NEW S \in SUBSET Clusters, sclust[o] \in S, Closed(S), c \notin S
      PROVE  FALSE
  <2> DEFINE Missed == Owned(o) \ S
             Ranks == {rank[d] : d \in Missed}
  <2>1. Ranks \in SUBSET Nat /\ Ranks # {}
    BY <1>0, <1>3 DEF Owned
  <2>2. PICK r \in Ranks : \A q \in Ranks : r <= q
    BY <2>1, Least
  <2>3. PICK m \in Missed : rank[m] = r
    BY <2>2
  <2>4. m \in Clusters /\ owner[m] = o /\ m \notin S
    BY <2>3 DEF Owned
  <2>5. rank[m] # 1
    BY <2>4, <1>0, <1>1, <1>2, <1>3 DEF RanksDiffer
  <2>6. PICK d \in Clusters : owner[d] = o /\ fat[d] = m
    BY <2>4, <2>5 DEF Preceded
  <2>7. rank[m] = rank[d] + 1 /\ rank[d] \in Nat
    BY <2>4, <2>6, <1>0 DEF LinksStay
  <2>8. d \in S
    <3> SUFFICES ASSUME d \notin S  PROVE FALSE
      OBVIOUS
    <3>1. d \in Missed
      BY <2>6 DEF Owned
    <3>2. rank[d] \in Ranks
      BY <3>1
    <3>3. r <= rank[d]
      BY <3>2, <2>2
    <3> QED BY <3>3, <2>3, <2>7
  <2> QED BY <2>4, <2>6, <2>8, <1>3 DEF Closed
<1> QED BY <1>1, <1>3 DEF Reach

LEMMA LossInvariance == Spec => [](Preceded /\ NothingDropped)
<1>1. Init => Preceded /\ NothingDropped
  BY FileAssumption, Owners DEF Init, Preceded, NothingDropped, Owned, Objs
<1>2. /\ IInv /\ CountInv /\ Preceded /\ NothingDropped /\ [Next]_vars
      => (Preceded /\ NothingDropped)'
  BY PrecededStep, DroppedStep
<1> QED BY Invariance, CountInvariance, <1>1, <1>2, PTL DEF Spec

\* As long as no call fails half-way, every cluster in use between calls is met
\* by following the FAT from the first cluster of an object: create_chain,
\* remove_chain, f_truncate and f_expand leave no cluster behind.
THEOREM NothingIsLost == Spec => []NoLostCluster
<1>1. IInv /\ Preceded /\ NothingDropped => NoLostCluster
  <2> SUFFICES ASSUME IInv, Preceded, NothingDropped, sound, call = Idle
               PROVE  {c \in Clusters : fat[c] # 0} = UNION {Reach(o) : o \in Objs}
    BY DEF NoLostCluster
  <2>1. \A c \in Clusters : fat[c] # 0 <=> owner[c] # Nobody
    BY DEF IInv, ChainsLinked, FreeIsNobodys
  <2>2. Owned(Stray) = {} /\ Owned(Cut) = {} /\ Owned(Block) = {}
    BY DEF NothingDropped, IInv, ChainsLinked, InFlight, Idle
  <2>3. \A c \in Clusters : owner[c] # Nobody <=> owner[c] \in Objs
    BY <2>2, Owners DEF IInv, TypeOK, Owned
  <2>4. ASSUME NEW c \in Clusters, fat[c] # 0
        PROVE  \E o \in Objs : c \in Reach(o)
    <3>1. owner[c] \in Objs /\ c \in Owned(owner[c])
      BY <2>1, <2>3, <2>4 DEF Owned
    <3> QED BY <3>1, OwnedIsReached
  <2>5. ASSUME NEW o \in Objs, NEW c \in Reach(o)
        PROVE  c \in Clusters /\ fat[c] # 0
    <3>1. c \in Owned(o)
      BY ReachIsOwned
    <3> QED BY <3>1, <2>1, <2>3 DEF Owned
  <2> QED BY <2>4, <2>5
<1> QED BY Invariance, LossInvariance, <1>1, PTL
=============================================================================
