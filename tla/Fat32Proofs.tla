---------------------------- MODULE Fat32Proofs ----------------------------
(***************************************************************************)
(* Proofs about RamDisk, for every number of clusters and cells, every set *)
(* of paths and every text.  What keeps the chains apart is that nothing   *)
(* has two things pointing at it: not a cluster a link and an entry, nor   *)
(* two of either, of all the entries there are, those that no name reaches *)
(* included.                                                               *)
(***************************************************************************)
EXTENDS RamDisk, Basics, FiniteSetTheorems

Contents ==
  {End, Deleted}
  \cup [kind : {"entry"}, name : Names, dir : BOOLEAN, clus : Clusters, size : Nat]
  \cup [kind : {"text"}, text : Texts, part : Nat]

Disks == [fat   : [Clusters -> {FREE, EOC} \cup Clusters],
          cells : [Clusters -> [0 .. Cells - 1 -> Contents]]]

-----------------------------------------------------------------------------
(* Chains.                                                                 *)
LEMMA DiskIs ==
  ASSUME NEW d \in Disks
  PROVE  /\ d = [fat |-> d.fat, cells |-> d.cells]
         /\ d.fat \in [Clusters -> {FREE, EOC} \cup Clusters]
         /\ d.cells \in [Clusters -> [0 .. Cells - 1 -> Contents]]
BY DEF Disks

LEMMA ClustersAre ==
  /\ Clusters \subseteq Nat /\ FREE \notin Clusters /\ EOC \notin Clusters /\ FREE # EOC
  /\ RootClus \in Clusters /\ 0 \notin Clusters
  /\ IsFiniteSet(Clusters) /\ Cardinality(Clusters) = LastClus - 1
<1>1. LastClus \in Nat /\ LastClus >= 2
  BY Fat32Assumption
<1>2. IsFiniteSet(2 .. LastClus) /\ Cardinality(2 .. LastClus) = LastClus - 2 + 1
  BY <1>1, FS_Interval
<1> QED
  BY <1>1, <1>2 DEF Clusters, FREE, EOC, RootClus

(* No two clusters have links to one cluster.                              *)
OneWayIn(d) ==
  \A c, e \in Clusters : d.fat[c] \in Clusters /\ d.fat[e] = d.fat[c] => e = c

Heads(d) == {c \in Clusters : \A e \in Clusters : d.fat[e] # c}

Path(d, c, s) ==
  /\ s \in Seq(Clusters) /\ Len(s) >= 1 /\ s[1] = c
  /\ \A k \in 1 .. Len(s) - 1 : d.fat[s[k]] = s[k + 1]

IsChain(d, c, s) == Path(d, c, s) /\ d.fat[s[Len(s)]] \notin Clusters /\ Len(s) <= LastClus

(* Where two paths meet, they have come the same way.                      *)
LEMMA PathsMeet ==
  ASSUME NEW d, OneWayIn(d), NEW c \in Heads(d), NEW e \in Heads(d),
         NEW s, Path(d, c, s), NEW t, Path(d, e, t),
         NEW i \in 1 .. Len(s), NEW j \in 1 .. Len(t), s[i] = t[j]
  PROVE  i = j /\ c = e
<1>1. PICK m \in Nat, n \in Nat : m = Len(s) /\ n = Len(t) /\ m >= 1 /\ n >= 1
  BY LenProperties DEF Path
<1>2. /\ \A k \in 1 .. m : s[k] \in Clusters
      /\ \A k \in 1 .. n : t[k] \in Clusters
      /\ s[1] = c /\ t[1] = e
  BY <1>1, ElementOfSeq DEF Path
<1>3. /\ \A k \in 2 .. m : k - 1 \in 1 .. m /\ d.fat[s[k - 1]] = s[k]
      /\ \A k \in 2 .. n : k - 1 \in 1 .. n /\ d.fat[t[k - 1]] = t[k]
  <2>1. ASSUME NEW k \in 2 .. m PROVE k - 1 \in 1 .. m /\ d.fat[s[k - 1]] = s[k]
    <3>1. k - 1 \in 1 .. Len(s) - 1 /\ (k - 1) + 1 = k
      BY <1>1
    <3> QED
      BY <1>1, <3>1 DEF Path
  <2>2. ASSUME NEW k \in 2 .. n PROVE k - 1 \in 1 .. n /\ d.fat[t[k - 1]] = t[k]
    <3>1. k - 1 \in 1 .. Len(t) - 1 /\ (k - 1) + 1 = k
      BY <1>1
    <3> QED
      BY <1>1, <3>1 DEF Path
  <2> QED
    BY <2>1, <2>2
<1> DEFINE G == {k \in 0 .. m : k = 0 \/ \A l \in 1 .. n : s[k] = t[l] => k = l /\ c = e}
<1> HIDE DEF G
<1>4. 0 \in G
  BY <1>1 DEF G
<1>5. ASSUME NEW k \in 1 .. m, k - 1 \in G PROVE k \in G
  <2>1. SUFFICES ASSUME NEW l \in 1 .. n, s[k] = t[l] PROVE k = l /\ c = e
    BY DEF G
  <2>2. CASE k = 1
    <3>1. l \notin 2 .. n
      BY <1>2, <1>3, <2>1, <2>2 DEF Heads
    <3>2. l = 1
      BY <3>1
    <3> QED
      BY <1>2, <2>1, <2>2, <3>2
  <2>3. CASE k # 1
    <3>1. k \in 2 .. m
      BY <2>3
    <3>2. l # 1
      BY <1>2, <1>3, <2>1, <3>1 DEF Heads
    <3>3. l \in 2 .. n
      BY <3>2
    <3>4. s[k - 1] = t[l - 1]
      BY <1>2, <1>3, <2>1, <3>1, <3>3, SMTT(30) DEF OneWayIn
    <3>5. k - 1 = l - 1 /\ c = e
      BY <1>3, <1>5, <3>1, <3>3, <3>4 DEF G
    <3> QED
      BY <3>5
  <2> QED
    BY <2>2, <2>3
<1>6. i \in 1 .. m /\ j \in 1 .. n
  BY <1>1
<1>7. i \in G
  <2>1. \A k \in 0 .. m : k \in G
    BY <1>4, <1>5, StepByStep
  <2> QED
    BY <1>6, <2>1
<1> QED
  BY <1>6, <1>7 DEF G

(* From a head on the links come to an end.                                *)
LEMMA HeadHasChain ==
  ASSUME NEW d \in Disks, OneWayIn(d), NEW c \in Heads(d)
  PROVE  \E s : IsChain(d, c, s)
<1>1. PICK m \in Nat : m = LastClus /\ m >= 2
  BY Fat32Assumption
<1> DEFINE L == {n \in 1 .. m : \E s : Path(d, c, s) /\ Len(s) = n}
<1>2. 1 \in L
  <2>1. PICK s : s = <<c>>
    OBVIOUS
  <2>2. s \in Seq(Clusters) /\ Len(s) = 1 /\ s[1] = c
    BY <2>1 DEF Heads
  <2>3. 1 .. 1 - 1 = {}
    OBVIOUS
  <2> QED
    BY <1>1, <2>2, <2>3 DEF Path
<1>3. PICK n \in L : \A k \in L : k <= n
  <2>1. L \in SUBSET (1 .. m) /\ L # {}
    BY <1>2
  <2> QED
    BY <1>1, <2>1, LargestExists
<1>4. PICK s : Path(d, c, s) /\ Len(s) = n
  BY <1>3
<1>5. n \in 1 .. m /\ s \in Seq(Clusters) /\ \A k \in 1 .. n : s[k] \in Clusters
  BY <1>3, <1>4, ElementOfSeq DEF Path
<1>6. n < m
  <2>1. s \in Injection(1 .. n, Clusters)
    <3>1. s \in [1 .. n -> Clusters]
      BY <1>4, <1>5, LenProperties
    <3>2. \A i, j \in 1 .. n : s[i] = s[j] => i = j
      BY <1>4, PathsMeet
    <3> QED
      BY <3>1, <3>2 DEF Injection, IsInjective
  <2>2. Cardinality(1 .. n) <= m - 1
    BY <1>1, <2>1, ClustersAre, FS_Injection
  <2>3. Cardinality(1 .. n) = n
    BY <1>5, FS_Interval
  <2> QED
    BY <1>1, <1>5, <2>2, <2>3
<1>7. d.fat[s[n]] \notin Clusters
  <2> SUFFICES ASSUME d.fat[s[n]] \in Clusters PROVE FALSE
    OBVIOUS
  <2>1. PICK x \in Clusters : x = d.fat[s[n]]
    OBVIOUS
  <2>2. PICK t : t = Append(s, x)
    OBVIOUS
  <2>3. t \in Seq(Clusters) /\ Len(t) = n + 1 /\ t[n + 1] = x /\ \A k \in 1 .. n : t[k] = s[k]
    BY <1>4, <1>5, <2>2, AppendProperties
  <2>4. ASSUME NEW k \in 1 .. Len(t) - 1 PROVE d.fat[t[k]] = t[k + 1]
    <3>1. k \in 1 .. n
      BY <1>5, <2>3, <2>4
    <3>2. CASE k = n
      BY <2>1, <2>3, <3>1, <3>2
    <3>3. CASE k # n
      <4>1. k \in 1 .. Len(s) - 1 /\ k + 1 \in 1 .. n
        BY <1>4, <1>5, <3>1, <3>3
      <4> QED
        BY <1>4, <2>3, <3>1, <4>1 DEF Path
    <3> QED
      BY <3>2, <3>3
  <2>5. Path(d, c, t)
    <3>1. t[1] = c /\ Len(t) >= 1
      BY <1>4, <1>5, <2>3 DEF Path
    <3> QED
      BY <2>3, <2>4, <3>1 DEF Path
  <2>6. n + 1 \in L
    BY <1>5, <1>6, <2>3, <2>5
  <2> QED
    BY <1>3, <1>5, <2>6
<1> QED
  BY <1>1, <1>4, <1>5, <1>7 DEF IsChain

(* What Chain computes.                                                    *)
Hops(h, d, c) ==
  h = [k \in 0 .. LastClus |-> IF k = 0 THEN c
                               ELSE IF h[k - 1] \in Clusters THEN d.fat[h[k - 1]] ELSE EOC]

ChainBy(h) ==
  [k \in 1 .. Cardinality({k \in 0 .. LastClus : h[k] \in Clusters}) |-> h[k - 1]]

LEMMA ChainIsHops == ASSUME NEW d, NEW c PROVE Chain(d, c) = ChainBy(CHOOSE h : Hops(h, d, c))
BY DEF Chain, Hops, ChainBy

LEMMA HopsAre ==
  ASSUME NEW d, NEW c, NEW g, Hops(g, d, c), NEW n \in Nat,
         {k \in 0 .. LastClus : g[k] \in Clusters} = 0 .. n - 1
  PROVE  Chain(d, c) = [k \in 1 .. n |-> g[k - 1]]
<1>1. PICK h : Hops(h, d, c) /\ Chain(d, c) = ChainBy(h)
  BY ChainIsHops
<1>2. PICK m \in Nat : m = LastClus
  BY Fat32Assumption
<1> DEFINE G == {k \in 0 .. m : h[k] = g[k]}
<1>3. 0 \in G
  BY <1>1, <1>2 DEF Hops
<1>4. ASSUME NEW k \in 1 .. m, k - 1 \in G PROVE k \in G
  <2>1. k \in 0 .. m /\ k # 0
    OBVIOUS
  <2>2. /\ h[k] = IF h[k - 1] \in Clusters THEN d.fat[h[k - 1]] ELSE EOC
        /\ g[k] = IF g[k - 1] \in Clusters THEN d.fat[g[k - 1]] ELSE EOC
    BY <1>1, <1>2, <2>1 DEF Hops
  <2> QED
    BY <1>4, <2>1, <2>2
<1>5. \A k \in 0 .. m : h[k] = g[k]
  <2>1. \A k \in 0 .. m : k \in G
    BY <1>3, <1>4, StepByStep
  <2> QED
    BY <2>1
<1>6. h = g
  BY <1>1, <1>2, <1>5 DEF Hops
<1>7. Cardinality(0 .. n - 1) = n
  <2>1. Cardinality(0 .. n - 1) = IF 0 > n - 1 THEN 0 ELSE (n - 1) - 0 + 1
    BY FS_Interval
  <2> QED
    BY <2>1
<1> QED
  BY <1>1, <1>6, <1>7 DEF ChainBy

LEMMA ChainIs ==
  ASSUME NEW d, NEW c, NEW s, IsChain(d, c, s)
  PROVE  Chain(d, c) = s
<1>1. PICK n \in Nat, m \in Nat : n = Len(s) /\ n >= 1 /\ m = LastClus /\ n <= m
  BY Fat32Assumption, LenProperties DEF IsChain, Path
<1>2. s \in [1 .. n -> Clusters] /\ s[1] = c
  BY <1>1, LenProperties DEF IsChain, Path
<1>3. PICK g : g = [k \in 0 .. m |-> IF k < n THEN s[k + 1]
                                     ELSE IF k = n THEN d.fat[s[n]] ELSE EOC]
  OBVIOUS
<1>4. ASSUME NEW k \in 0 .. m
      PROVE  g[k] = IF k = 0 THEN c ELSE IF g[k - 1] \in Clusters THEN d.fat[g[k - 1]] ELSE EOC
  <2>1. CASE k = 0
    BY <1>1, <1>2, <1>3, <2>1
  <2>2. CASE k # 0 /\ k < n
    <3>1. k - 1 \in 0 .. m /\ k - 1 < n /\ (k - 1) + 1 = k /\ k \in 1 .. n /\ k \in 1 .. Len(s) - 1
      BY <1>1, <2>2
    <3>2. g[k - 1] = s[k] /\ g[k] = s[k + 1] /\ d.fat[s[k]] = s[k + 1] /\ s[k] \in Clusters
      BY <1>2, <1>3, <2>2, <3>1 DEF IsChain, Path
    <3> QED
      BY <2>2, <3>2
  <2>3. CASE k = n
    <3>1. k - 1 \in 0 .. m /\ k - 1 < n /\ (k - 1) + 1 = n /\ n \in 1 .. n
      BY <1>1, <2>3
    <3>2. g[k - 1] = s[n] /\ g[k] = d.fat[s[n]] /\ s[n] \in Clusters
      BY <1>2, <1>3, <2>3, <3>1
    <3> QED
      BY <1>1, <2>3, <3>2
  <2>4. CASE k > n
    <3>1. k - 1 \in 0 .. m /\ ~(k - 1 < n) /\ k # n
      BY <1>1, <2>4
    <3>2. g[k] = EOC /\ g[k - 1] \notin Clusters
      BY <1>1, <1>3, <2>4, <3>1, ClustersAre DEF IsChain
    <3> QED
      BY <1>1, <2>4, <3>2
  <2> QED
    BY <1>1, <2>1, <2>2, <2>3, <2>4
<1>5. Hops(g, d, c)
  <2>1. PICK h : h = [k \in 0 .. m |-> IF k = 0 THEN c
                        ELSE IF g[k - 1] \in Clusters THEN d.fat[g[k - 1]] ELSE EOC]
    OBVIOUS
  <2>2. \A k \in 0 .. m : g[k] = h[k]
    BY <1>4, <2>1
  <2>3. g = h
    BY <1>3, <2>1, <2>2
  <2> QED
    BY <1>1, <2>1, <2>3 DEF Hops
<1>6. {k \in 0 .. LastClus : g[k] \in Clusters} = 0 .. n - 1
  <2>1. ASSUME NEW k \in 0 .. m PROVE g[k] \in Clusters <=> k \in 0 .. n - 1
    <3>1. CASE k < n
      <4>1. k + 1 \in 1 .. n
        BY <1>1, <3>1
      <4> QED
        BY <1>2, <1>3, <3>1, <4>1
    <3>2. CASE ~(k < n)
      BY <1>1, <1>3, <3>2, ClustersAre DEF IsChain
    <3> QED
      BY <3>1, <3>2
  <2>2. 0 .. n - 1 \subseteq 0 .. m
    BY <1>1
  <2> QED
    BY <1>1, <2>1, <2>2
<1>7. Chain(d, c) = [k \in 1 .. n |-> g[k - 1]]
  BY <1>5, <1>6, HopsAre, SMTT(30)
<1>8. ASSUME NEW k \in 1 .. n PROVE g[k - 1] = s[k]
  <2>1. k - 1 \in 0 .. m /\ k - 1 < n /\ (k - 1) + 1 = k
    BY <1>1
  <2> QED
    BY <1>3, <2>1
<1>9. s = [k \in 1 .. n |-> s[k]]
  BY <1>2
<1> QED
  BY <1>7, <1>8, <1>9

LEMMA NoChain == ASSUME NEW d, NEW c, c \notin Clusters PROVE Chain(d, c) = << >>
<1>1. PICK m \in Nat : m = LastClus
  BY Fat32Assumption
<1>2. PICK g : g = [k \in 0 .. m |-> IF k = 0 THEN c ELSE EOC]
  OBVIOUS
<1>3. \A k \in 0 .. m : g[k] \notin Clusters
  BY <1>2, ClustersAre
<1>4. ASSUME NEW k \in 0 .. m
      PROVE  g[k] = IF k = 0 THEN c ELSE IF g[k - 1] \in Clusters THEN d.fat[g[k - 1]] ELSE EOC
  <2>1. k # 0 => k - 1 \in 0 .. m
    OBVIOUS
  <2> QED
    BY <1>2, <1>3, <2>1
<1>5. Hops(g, d, c)
  <2>1. PICK h : h = [k \in 0 .. m |-> IF k = 0 THEN c
                        ELSE IF g[k - 1] \in Clusters THEN d.fat[g[k - 1]] ELSE EOC]
    OBVIOUS
  <2>2. \A k \in 0 .. m : g[k] = h[k]
    BY <1>4, <2>1
  <2>3. g = h
    BY <1>2, <2>1, <2>2
  <2> QED
    BY <1>1, <2>1, <2>3 DEF Hops
<1>6. {k \in 0 .. LastClus : g[k] \in Clusters} = 0 .. 0 - 1
  BY <1>1, <1>3
<1>7. Chain(d, c) = [k \in 1 .. 0 |-> g[k - 1]]
  BY <1>5, <1>6, HopsAre
<1> QED
  BY <1>7

-----------------------------------------------------------------------------
(* Places of entries.  A disk is sound when every cluster has at most one  *)
(* thing pointing at it: a link, or an entry in a cluster that is in use.  *)
Places == Clusters \X (0 .. Cells - 1)

In(d, q) == d.cells[q[1]][q[2]]

Holds(d, q) == d.fat[q[1]] # FREE /\ In(d, q).kind = "entry"

Starts(d) == {c \in Heads(d) : d.fat[c] # FREE}

Sound(d) ==
  /\ d \in Disks
  /\ OneWayIn(d)
  /\ \A c \in Clusters : d.fat[c] \in Clusters => d.fat[c] # RootClus /\ d.fat[d.fat[c]] # FREE
  /\ d.fat[RootClus] # FREE
  /\ \A q \in Places : Holds(d, q) => In(d, q).clus \in Starts(d) \ {RootClus}
  /\ \A q, r \in Places :
       Holds(d, q) /\ Holds(d, r) /\ In(d, q).clus = In(d, r).clus => q = r

LEMMA RootStarts == ASSUME NEW d, Sound(d) PROVE RootClus \in Starts(d)
BY ClustersAre DEF Sound, Starts, Heads

LEMMA StartHasChain ==
  ASSUME NEW d, Sound(d), NEW c \in Starts(d)
  PROVE  LET s == Chain(d, c)
         IN  /\ IsChain(d, c, s)
             /\ s \in Seq(Clusters) /\ Len(s) \in Nat /\ Len(s) >= 1 /\ s[1] = c
             /\ \A i \in 1 .. Len(s) : s[i] \in Clusters /\ d.fat[s[i]] # FREE
             /\ \A i, j \in 1 .. Len(s) : s[i] = s[j] => i = j
             /\ d.fat[s[Len(s)]] = EOC
<1>1. PICK s : IsChain(d, c, s) /\ Chain(d, c) = s
  BY HeadHasChain, ChainIs DEF Sound, Starts
<1>2. PICK n \in Nat : n = Len(s) /\ n >= 1
  BY <1>1, LenProperties DEF IsChain, Path
<1>3. s \in Seq(Clusters) /\ s[1] = c /\ \A i \in 1 .. n : s[i] \in Clusters
  BY <1>1, <1>2, ElementOfSeq DEF IsChain, Path
<1>4. \A i, j \in 1 .. n : s[i] = s[j] => i = j
  BY <1>1, <1>2, PathsMeet DEF IsChain, Sound, Starts
<1>5. ASSUME NEW i \in 1 .. n PROVE d.fat[s[i]] # FREE
  <2>1. CASE i = 1
    BY <1>3, <2>1 DEF Starts
  <2>2. CASE i # 1
    <3>1. i - 1 \in 1 .. n /\ i - 1 \in 1 .. Len(s) - 1 /\ (i - 1) + 1 = i
      BY <1>2, <2>2
    <3>2. d.fat[s[i - 1]] = s[i]
      BY <1>1, <3>1 DEF IsChain, Path
    <3> QED
      BY <1>3, <3>1, <3>2 DEF Sound
  <2> QED
    BY <2>1, <2>2
<1>6. d.fat[s[n]] = EOC
  <2>1. n \in 1 .. n /\ d.fat[s[n]] \notin Clusters
    BY <1>1, <1>2 DEF IsChain
  <2>2. d.fat[s[n]] \in {FREE, EOC} \cup Clusters
    BY <1>3, <2>1, DiskIs DEF Sound
  <2> QED
    BY <1>5, <2>1, <2>2
<1> QED
  BY <1>1, <1>2, <1>3, <1>4, <1>5, <1>6

(* Where the n-th cell of a directory is.                                  *)
PlaceIn(s, n) == <<s[(n \div Cells) + 1], n % Cells>>

LEMMA Rows ==
  ASSUME NEW w \in Nat \ {0}, NEW l \in Nat, NEW n \in 0 .. l * w - 1
  PROVE  (n \div w) + 1 \in 1 .. l /\ n % w \in 0 .. w - 1
<1>1. n \div w \in Nat /\ n % w \in 0 .. w - 1 /\ n = w * (n \div w) + (n % w)
  OBVIOUS
<1>2. PICK q \in Nat, r \in 0 .. w - 1 : q = n \div w /\ r = n % w /\ n = w * q + r
  BY <1>1
<1>3. q < l
  <2> SUFFICES ASSUME q >= l PROVE FALSE
    BY <1>2
  <2>1. PICK x \in Nat : q = l + x
    OBVIOUS
  <2>2. w * q = l * w + w * x /\ w * x \in Nat /\ l * w \in Nat
    BY <2>1
  <2> QED
    BY <1>2, <2>2
<1> QED
  BY <1>2, <1>3

LEMMA AlongIs ==
  ASSUME NEW d \in Disks, NEW c, NEW s \in Seq(Clusters), Chain(d, c) = s
  PROVE  /\ DOMAIN Along(d, c) = 0 .. Len(s) * Cells - 1
         /\ \A n \in DOMAIN Along(d, c) :
              /\ Along(d, c)[n] = In(d, PlaceIn(s, n)) /\ Along(d, c)[n] \in Contents
              /\ PlaceIn(s, n) \in Places
              /\ (n \div Cells) + 1 \in 1 .. Len(s) /\ n % Cells \in 0 .. Cells - 1
<1>1. PICK l \in Nat, w \in Nat \ {0} : l = Len(s) /\ w = Cells
  BY Fat32Assumption, LenProperties
<1>2. PICK t : t = Along(d, c)
  OBVIOUS
<1>3. t = [n \in 0 .. l * w - 1 |-> d.cells[s[(n \div w) + 1]][n % w]]
  BY <1>1, <1>2 DEF Along, Spread
<1>4. ASSUME NEW n \in 0 .. l * w - 1
      PROVE  /\ t[n] = In(d, PlaceIn(s, n)) /\ t[n] \in Contents
             /\ PlaceIn(s, n) \in Places
             /\ (n \div w) + 1 \in 1 .. l /\ n % w \in 0 .. w - 1
  <2>1. PICK k \in 1 .. l, r \in 0 .. w - 1 : k = (n \div w) + 1 /\ r = n % w
    BY Rows
  <2>2. s[k] \in Clusters
    BY <1>1, <2>1, ElementOfSeq
  <2>3. PlaceIn(s, n) = <<s[k], r>>
    BY <1>1, <2>1 DEF PlaceIn
  <2>4. t[n] = d.cells[s[k]][r]
    BY <1>3, <2>1
  <2>5. d.cells[s[k]][r] \in Contents
    BY <1>1, <2>2, DiskIs
  <2> QED
    BY <1>1, <2>1, <2>2, <2>3, <2>4, <2>5 DEF In, Places
<1> QED
  BY <1>1, <1>2, <1>3, <1>4

LEMMA NothingAlong == ASSUME NEW d PROVE DOMAIN Along(d, 0) = {}
<1>1. Chain(d, 0) = << >> /\ Len(<< >>) = 0
  BY NoChain, ClustersAre
<1>2. 0 .. 0 * Cells - 1 = {}
  BY Fat32Assumption
<1> QED
  BY <1>1, <1>2 DEF Along, Spread

(* The entry that a look-up finds.                                         *)
LEMMA MatchIs ==
  ASSUME NEW d, Sound(d), NEW c \in Starts(d), NEW name, Matches(Along(d, c), name) # {}
  PROVE  LET n == Min(Matches(Along(d, c), name))
             q == PlaceIn(Chain(d, c), n)
         IN  /\ n \in DOMAIN Along(d, c) /\ q \in Places /\ Holds(d, q)
             /\ Along(d, c)[n] = In(d, q) /\ In(d, q).name = name
             /\ In(d, q).clus \in Starts(d) \ {RootClus}
<1>1. PICK t, s, n : t = Along(d, c) /\ s = Chain(d, c) /\ n = Min(Matches(t, name))
  OBVIOUS
<1>2. s \in Seq(Clusters) /\ \A i \in 1 .. Len(s) : d.fat[s[i]] # FREE
  BY <1>1, StartHasChain
<1>3. d \in Disks
  BY DEF Sound
<1>4. /\ DOMAIN t = 0 .. Len(s) * Cells - 1
      /\ \A k \in DOMAIN t :
           /\ t[k] = In(d, PlaceIn(s, k)) /\ PlaceIn(s, k) \in Places
           /\ (k \div Cells) + 1 \in 1 .. Len(s)
  BY <1>1, <1>2, <1>3, AlongIs
<1>5. n \in DOMAIN t /\ t[n].kind = "entry" /\ t[n].name = name
  <2>1. PICK M : M = Matches(t, name)
    OBVIOUS
  <2>2. \A k \in M : k \in DOMAIN t /\ t[k].kind = "entry" /\ t[k].name = name
    BY <2>1 DEF Matches, Visible
  <2>3. M \subseteq Nat /\ M # {}
    BY <1>1, <1>4, <2>1, <2>2
  <2>4. Min(M) \in M
    BY <2>3, LeastIs
  <2> QED
    BY <1>1, <2>1, <2>2, <2>4
<1>6. PICK q \in Places : q = PlaceIn(s, n) /\ t[n] = In(d, q)
  BY <1>4, <1>5
<1>7. d.fat[q[1]] # FREE
  <2>1. q[1] = s[(n \div Cells) + 1]
    BY <1>6 DEF PlaceIn
  <2> QED
    BY <1>2, <1>4, <1>5, <2>1
<1>8. Holds(d, q)
  BY <1>5, <1>6, <1>7 DEF Holds
<1>9. In(d, q).clus \in Starts(d) \ {RootClus}
  BY <1>8 DEF Sound
<1> QED
  BY <1>1, <1>5, <1>6, <1>8, <1>9

(* A directory is left for the one that an entry names, or for none.       *)
Entering(d, c, name) == StepInto(Along(d, c), Matches(Along(d, c), name))

LEMMA EnteringIs ==
  ASSUME NEW d, Sound(d), NEW c \in {0} \cup Starts(d), NEW name
  PROVE  /\ Entering(d, c, name) \in {0} \cup Starts(d)
         /\ Entering(d, c, name) # 0 =>
              /\ c # 0
              /\ Matches(Along(d, c), name) # {}
              /\ Along(d, c)[Min(Matches(Along(d, c), name))].dir
              /\ Entering(d, c, name) = Along(d, c)[Min(Matches(Along(d, c), name))].clus
<1>1. CASE Matches(Along(d, c), name) = {}
  BY <1>1 DEF Entering, StepInto
<1>2. CASE Matches(Along(d, c), name) # {}
  <2>1. c # 0
    <3> SUFFICES ASSUME c = 0 PROVE FALSE
      OBVIOUS
    <3> QED
      BY <1>2, NothingAlong DEF Matches, Visible
  <2>2. PICK e : e = Along(d, c)[Min(Matches(Along(d, c), name))]
    OBVIOUS
  <2>3. e.clus \in Starts(d)
    BY <1>2, <2>1, <2>2, MatchIs
  <2>4. Entering(d, c, name) = IF e.dir THEN e.clus ELSE 0
    BY <1>2, <2>2 DEF Entering, StepInto
  <2> QED
    BY <1>2, <2>1, <2>2, <2>3, <2>4
<1> QED
  BY <1>1, <1>2

Walk(d, names) ==
  FoldLeft(LAMBDA c, name : StepInto(Along(d, c), Matches(Along(d, c), name)), RootClus, names)

Walking(f, d, names) ==
  f = [s \in SUBSET DOMAIN names |-> IF s = {} THEN RootClus
                                     ELSE Entering(d, f[s \ {Max(s)}], names[Max(s)])]

LEMMA WalkIsFold ==
  ASSUME NEW d, NEW names
  PROVE  Walk(d, names) = (CHOOSE f : Walking(f, d, names))[DOMAIN names]
BY DEF Walk, FoldLeft, MapThenFoldSet, Walking, Entering

LEMMA WalkRuns ==
  ASSUME NEW d, Sound(d), NEW names \in Seq(Names)
  PROVE  \E P \in [0 .. Len(names) -> {0} \cup Starts(d)] :
           /\ P[0] = RootClus
           /\ \A k \in 1 .. Len(names) : P[k] = Entering(d, P[k - 1], names[k])
           /\ Walk(d, names) = P[Len(names)]
<1>1. PICK n \in Nat : n = Len(names) /\ DOMAIN names = 1 .. n
  BY LenProperties
<1>2. PICK X : X = {0} \cup Starts(d)
  OBVIOUS
<1>3. RootClus \in X
  BY <1>2, RootStarts
<1>4. PICK F : F = [q \in X \X (1 .. n) |-> Entering(d, q[1], names[q[2]])]
  OBVIOUS
<1>5. F \in [X \X (1 .. n) -> X]
  <2>1. \A c \in X, i \in 1 .. n : Entering(d, c, names[i]) \in X
    BY <1>2, EnteringIs
  <2> QED
    BY <1>4, <2>1
<1>6. PICK g : IsFold(g, n, RootClus, F, X)
  BY <1>3, <1>5, FoldExists
<1>7. Walking(g, d, names)
  <2>1. ASSUME NEW s \in SUBSET (1 .. n), s # {}
        PROVE  g[s] = Entering(d, g[s \ {Max(s)}], names[Max(s)])
    <3>1. Max(s) \in 1 .. n
      BY <2>1, LargestExists
    <3>2. g[s \ {Max(s)}] \in X
      BY <1>6 DEF IsFold
    <3> QED
      BY <1>4, <1>6, <2>1, <3>1, <3>2 DEF IsFold
  <2>2. g \in [SUBSET (1 .. n) -> X] /\ g[{}] = RootClus
    BY <1>6 DEF IsFold
  <2> QED
    BY <1>1, <2>1, <2>2 DEF Walking
<1>8. PICK h : Walking(h, d, names) /\ Walk(d, names) = h[1 .. n]
  BY <1>1, <1>7, WalkIsFold
<1>9. ASSUME NEW s \in SUBSET (1 .. n), s # {}, h[s \ {Max(s)}] \in X
      PROVE  h[s] = F[<<h[s \ {Max(s)}], Max(s)>>]
  <2>1. Max(s) \in 1 .. n
    BY <1>9, LargestExists
  <2>2. h[s] = Entering(d, h[s \ {Max(s)}], names[Max(s)])
    BY <1>1, <1>8, <1>9 DEF Walking
  <2> QED
    BY <1>4, <1>9, <2>1, <2>2
<1>10. GoesOn(h, n, RootClus, F, X)
  BY <1>1, <1>8, <1>9 DEF GoesOn, Walking
<1>11. PICK P : IsRun(P, n, RootClus, h[1 .. n], F, X)
  BY <1>3, <1>5, <1>10, FoldRuns
<1>12. ASSUME NEW k \in 1 .. n PROVE P[k] = Entering(d, P[k - 1], names[k])
  <2>1. k - 1 \in 0 .. n
    OBVIOUS
  <2>2. P[k - 1] \in X /\ P[k] = F[<<P[k - 1], k>>]
    BY <1>11, <2>1 DEF IsRun
  <2> QED
    BY <1>4, <2>2
<1>13. P \in [0 .. n -> X] /\ P[0] = RootClus /\ P[n] = h[1 .. n]
  BY <1>11 DEF IsRun
<1> QED
  BY <1>1, <1>2, <1>8, <1>12, <1>13

LEMMA WalkOfNone == ASSUME NEW d, Sound(d) PROVE Walk(d, << >>) = RootClus
<1>1. PICK e \in Seq(Names) : e = << >> /\ Len(e) = 0
  <2>1. << >> \in Seq(Names) /\ Len(<< >>) = 0
    OBVIOUS
  <2> QED
    BY <2>1
<1>2. PICK P : P[0] = RootClus /\ Walk(d, e) = P[Len(e)]
  BY WalkRuns
<1> QED
  BY <1>1, <1>2

LEMMA WalkType ==
  ASSUME NEW d, Sound(d), NEW names \in Seq(Names)
  PROVE  Walk(d, names) \in {0} \cup Starts(d)
<1>1. Len(names) \in 0 .. Len(names)
  BY LenProperties
<1> QED
  BY <1>1, WalkRuns

LEMMA WalkGrows ==
  ASSUME NEW d, Sound(d), NEW names \in Seq(Names), NEW name \in Names
  PROVE  Walk(d, Append(names, name)) = Entering(d, Walk(d, names), name)
<1>1. PICK n \in Nat, w \in Seq(Names) :
        /\ n = Len(names) /\ w = Append(names, name) /\ Len(w) = n + 1 /\ w[n + 1] = name
        /\ \A k \in 1 .. n : w[k] = names[k]
  <2>1. /\ Append(names, name) \in Seq(Names) /\ Len(Append(names, name)) = Len(names) + 1
        /\ \A k \in 1 .. Len(names) : Append(names, name)[k] = names[k]
        /\ Append(names, name)[Len(names) + 1] = name
    BY AppendProperties
  <2>2. Len(names) \in Nat
    OBVIOUS
  <2> QED
    BY <2>1, <2>2
<1>2. PICK X : X = {0} \cup Starts(d)
  OBVIOUS
<1>3. PICK P \in [0 .. n -> X] :
        /\ P[0] = RootClus
        /\ \A k \in 1 .. n : P[k] = Entering(d, P[k - 1], names[k])
        /\ Walk(d, names) = P[n]
  BY <1>1, <1>2, WalkRuns
<1>4. PICK Q \in [0 .. n + 1 -> X] :
        /\ Q[0] = RootClus
        /\ \A k \in 1 .. n + 1 : Q[k] = Entering(d, Q[k - 1], w[k])
        /\ Walk(d, w) = Q[n + 1]
  <2>1. \E R \in [0 .. Len(w) -> {0} \cup Starts(d)] :
          /\ R[0] = RootClus
          /\ \A k \in 1 .. Len(w) : R[k] = Entering(d, R[k - 1], w[k])
          /\ Walk(d, w) = R[Len(w)]
    BY WalkRuns
  <2>2. Len(w) = n + 1
    BY <1>1
  <2> QED
    BY <1>2, <2>1, <2>2
<1> DEFINE Same == {k \in 0 .. n : P[k] = Q[k]}
<1> HIDE DEF Same
<1>5. 0 \in Same
  BY <1>3, <1>4 DEF Same
<1>6. ASSUME NEW k \in 1 .. n, k - 1 \in Same PROVE k \in Same
  <2>1. P[k - 1] = Q[k - 1]
    BY <1>6 DEF Same
  <2>2. P[k] = Entering(d, P[k - 1], names[k]) /\ Q[k] = Entering(d, Q[k - 1], names[k])
    BY <1>1, <1>3, <1>4
  <2> QED
    BY <2>1, <2>2 DEF Same
<1>7. P[n] = Q[n]
  <2>1. \A k \in 0 .. n : k \in Same
    BY <1>5, <1>6, StepByStep
  <2> QED
    BY <2>1 DEF Same
<1>8. Q[n + 1] = Entering(d, Q[n], name)
  <2>1. n + 1 \in 1 .. n + 1 /\ (n + 1) - 1 = n
    OBVIOUS
  <2> QED
    BY <1>1, <1>4, <2>1
<1> QED
  BY <1>1, <1>3, <1>4, <1>7, <1>8

-----------------------------------------------------------------------------
(* Where the entry of a path is.                                           *)
Spot(d, p) == PlaceIn(Chain(d, Parent(d, p)), Min(Hits(d, p)))

ProperPaths == Seq(Names) \ {<< >>}

LEMMA PathIs ==
  ASSUME NEW p \in ProperPaths
  PROVE  /\ Front(p) \in Seq(Names) /\ Last(p) \in Names /\ p = Append(Front(p), Last(p))
         /\ Len(p) \in Nat /\ Len(p) >= 1 /\ Len(Front(p)) = Len(p) - 1
<1>1. p \in Seq(Names) /\ p # << >>
  BY DEF ProperPaths
<1>2. /\ Front(p) \in Seq(Names) /\ Len(Front(p)) = Len(p) - 1
      /\ p[Len(p)] \in Names /\ p = Append(Front(p), p[Len(p)])
  BY <1>1, FrontIs
<1>3. Len(p) \in Nat /\ Len(p) >= 1
  BY <1>1, EmptySeq, LenProperties
<1> QED
  BY <1>2, <1>3 DEF Last

LEMMA ParentType ==
  ASSUME NEW d, Sound(d), NEW p \in ProperPaths
  PROVE  Parent(d, p) = Walk(d, Front(p)) /\ Parent(d, p) \in {0} \cup Starts(d)
BY PathIs, WalkType DEF Parent, Walk

LEMMA EntryIs ==
  ASSUME NEW d, Sound(d), NEW p \in ProperPaths, Exists(d, p)
  PROVE  /\ Parent(d, p) \in Starts(d)
         /\ Spot(d, p) \in Places /\ Holds(d, Spot(d, p))
         /\ Dirent(d, p) = In(d, Spot(d, p)) /\ Dirent(d, p).name = Last(p)
         /\ Dirent(d, p).clus \in Starts(d) \ {RootClus}
         /\ Min(Hits(d, p)) \in DOMAIN Listing(d, p)
<1>1. Parent(d, p) # 0
  <2> SUFFICES ASSUME Parent(d, p) = 0 PROVE FALSE
    OBVIOUS
  <2> QED
    BY NothingAlong DEF Exists, Hits, Listing, Matches, Visible
<1>2. Parent(d, p) \in Starts(d)
  BY <1>1, ParentType
<1>3. Matches(Along(d, Parent(d, p)), Last(p)) # {}
  BY DEF Exists, Hits, Listing
<1> QED
  BY <1>2, <1>3, MatchIs DEF Spot, Dirent, Hits, Listing

LEMMA WalkIs ==
  ASSUME NEW d, Sound(d), NEW p \in ProperPaths, Walk(d, p) # 0
  PROVE  Exists(d, p) /\ Dirent(d, p).dir /\ Walk(d, p) = Dirent(d, p).clus
<1>1. Parent(d, p) = Walk(d, Front(p)) /\ Parent(d, p) \in {0} \cup Starts(d)
  BY ParentType
<1>2. Walk(d, p) = Entering(d, Parent(d, p), Last(p))
  BY <1>1, PathIs, WalkGrows
<1> QED
  BY <1>1, <1>2, EnteringIs DEF Exists, Dirent, Hits, Listing

(* One entry has one path.                                                 *)
LEMMA OnePath ==
  ASSUME NEW d, Sound(d), NEW x \in ProperPaths, NEW y \in ProperPaths,
         Exists(d, x), Exists(d, y), Dirent(d, x).clus = Dirent(d, y).clus
  PROVE  x = y
<1>1. PICK m \in Nat : m = Len(x)
  BY PathIs
<1> DEFINE G == {k \in 0 .. m : \A p, q \in ProperPaths :
                   /\ Len(p) = k /\ Exists(d, p) /\ Exists(d, q)
                   /\ Dirent(d, p).clus = Dirent(d, q).clus
                   => p = q}
<1> HIDE DEF G
<1>2. 0 \in G
  <2>1. \A p \in ProperPaths : Len(p) # 0
    BY PathIs
  <2> QED
    BY <2>1 DEF G
<1>3. ASSUME NEW k \in 1 .. m, k - 1 \in G PROVE k \in G
  <2> SUFFICES ASSUME NEW p \in ProperPaths, NEW q \in ProperPaths, Len(p) = k, Exists(d, p), Exists(d, q),
                      Dirent(d, p).clus = Dirent(d, q).clus
               PROVE  p = q
    BY DEF G
  <2>1. PICK v, w : v = Parent(d, p) /\ w = Parent(d, q)
    OBVIOUS
  <2>2. /\ v \in Starts(d) /\ w \in Starts(d)
        /\ Spot(d, p) \in Places /\ Holds(d, Spot(d, p)) /\ Dirent(d, p) = In(d, Spot(d, p))
        /\ Spot(d, q) \in Places /\ Holds(d, Spot(d, q)) /\ Dirent(d, q) = In(d, Spot(d, q))
        /\ Dirent(d, p).name = Last(p) /\ Dirent(d, q).name = Last(q)
    BY <2>1, EntryIs
  <2>3. Spot(d, p) = Spot(d, q)
    BY <2>2 DEF Sound
  <2>4. Last(p) = Last(q)
    BY <2>2, <2>3
  <2>5. v = w
    <3>1. PICK s, t : s = Chain(d, v) /\ t = Chain(d, w)
      OBVIOUS
    <3>2. IsChain(d, v, s) /\ s \in Seq(Clusters) /\ IsChain(d, w, t) /\ t \in Seq(Clusters)
      BY <2>2, <3>1, StartHasChain
    <3>3. PICK i : i = (Min(Hits(d, p)) \div Cells) + 1 /\ i \in 1 .. Len(s) /\ s[i] = Spot(d, p)[1]
      <4>1. Min(Hits(d, p)) \in DOMAIN Along(d, v)
        BY <2>1, EntryIs DEF Listing
      <4> QED
        BY <2>1, <3>1, <3>2, <4>1, AlongIs DEF Spot, PlaceIn, Sound
    <3>4. PICK j : j = (Min(Hits(d, q)) \div Cells) + 1 /\ j \in 1 .. Len(t) /\ t[j] = Spot(d, q)[1]
      <4>1. Min(Hits(d, q)) \in DOMAIN Along(d, w)
        BY <2>1, EntryIs DEF Listing
      <4> QED
        BY <2>1, <3>1, <3>2, <4>1, AlongIs DEF Spot, PlaceIn, Sound
    <3> QED
      BY <2>2, <2>3, <3>2, <3>3, <3>4, PathsMeet DEF IsChain, Starts, Sound
  <2>6. PICK f, g : f = Front(p) /\ g = Front(q)
    OBVIOUS
  <2>7. /\ f \in Seq(Names) /\ g \in Seq(Names) /\ v = Walk(d, f) /\ w = Walk(d, g)
        /\ Len(f) = k - 1 /\ p = Append(f, Last(p)) /\ q = Append(g, Last(q))
    BY <2>1, <2>6, PathIs, ParentType
  <2>8. v # 0 /\ w # 0
    BY <2>2, ClustersAre DEF Starts, Heads
  <2>9. f = g
    <3>1. \A h \in Seq(Names) : h # << >> /\ Walk(d, h) # 0
            => /\ h \in ProperPaths /\ Exists(d, h) /\ Walk(d, h) = Dirent(d, h).clus
               /\ Walk(d, h) # RootClus
      BY WalkIs, EntryIs DEF ProperPaths
    <3>2. Walk(d, << >>) = RootClus
      BY WalkOfNone
    <3>3. CASE f = << >> \/ g = << >>
      BY <2>5, <2>7, <2>8, <3>1, <3>2, <3>3
    <3>4. CASE f # << >> /\ g # << >>
      BY <1>3, <2>5, <2>7, <2>8, <3>1, <3>4 DEF G
    <3> QED
      BY <3>3, <3>4
  <2> QED
    BY <2>4, <2>7, <2>9
<1>4. m \in G
  <2>1. \A k \in 0 .. m : k \in G
    BY <1>2, <1>3, StepByStep
  <2> QED
    BY <2>1
<1> QED
  BY <1>1, <1>4 DEF G

(* The first cluster of what a path names.                                 *)
Top(d, p) == IF p = << >> THEN RootClus ELSE Dirent(d, p).clus

LEMMA SoundIsDisjoint == ASSUME Sound(disk) PROVE ChainsAreDisjoint
<1> DEFINE names == Named(disk) \cup {<< >>}
<1>1. \A p \in names : p = << >> \/ (p \in ProperPaths /\ Exists(disk, p))
  <2>1. \A p \in Paths : p \in ProperPaths
    BY Fat32Assumption DEF ProperPaths
  <2> QED
    BY <2>1 DEF Named
<1>2. \A p \in names : Top(disk, p) \in Starts(disk) /\ Owned(disk, p) = Chain(disk, Top(disk, p))
  BY <1>1, RootStarts, EntryIs DEF Top, Owned
<1>3. \A p, q \in names : p # q => Top(disk, p) # Top(disk, q)
  <2> SUFFICES ASSUME NEW p \in names, NEW q \in names, Top(disk, p) = Top(disk, q) PROVE p = q
    OBVIOUS
  <2>1. CASE p = << >> \/ q = << >>
    BY <1>1, <2>1, EntryIs DEF Top
  <2>2. CASE p # << >> /\ q # << >>
    BY <1>1, <2>2, OnePath DEF Top
  <2> QED
    BY <2>1, <2>2
<1>4. ASSUME NEW p \in names
      PROVE  /\ IsInjective(Owned(disk, p)) /\ Owned(disk, p) # << >>
             /\ disk.fat[Last(Owned(disk, p))] = EOC
             /\ IsChain(disk, Top(disk, p), Owned(disk, p))
  <2>1. PICK s : s = Owned(disk, p)
    OBVIOUS
  <2>2. /\ s \in Seq(Clusters) /\ Len(s) >= 1 /\ disk.fat[s[Len(s)]] = EOC
        /\ \A i, j \in 1 .. Len(s) : s[i] = s[j] => i = j
        /\ IsChain(disk, Top(disk, p), s)
    BY <1>2, <2>1, StartHasChain
  <2>3. DOMAIN s = 1 .. Len(s) /\ s # << >>
    BY <2>2, EmptySeq, LenProperties
  <2> QED
    BY <2>1, <2>2, <2>3 DEF IsInjective, Last
<1>5. ASSUME NEW p \in names, NEW q \in names, p # q
      PROVE  ToSet(Owned(disk, p)) \cap ToSet(Owned(disk, q)) = {}
  <2>1. PICK s, t : s = Owned(disk, p) /\ t = Owned(disk, q)
    OBVIOUS
  <2>2. IsChain(disk, Top(disk, p), s) /\ IsChain(disk, Top(disk, q), t)
    BY <1>4, <2>1
  <2>3. Top(disk, p) \in Heads(disk) /\ Top(disk, q) \in Heads(disk) /\ Top(disk, p) # Top(disk, q)
    BY <1>2, <1>3, <1>5 DEF Starts
  <2>4. DOMAIN s = 1 .. Len(s) /\ DOMAIN t = 1 .. Len(t)
    BY <2>2, LenProperties DEF IsChain, Path
  <2>5. \A i \in 1 .. Len(s), j \in 1 .. Len(t) : s[i] # t[j]
    BY <2>2, <2>3, PathsMeet DEF IsChain, Sound
  <2> QED
    BY <2>1, <2>4, <2>5 DEF ToSet
<1> QED
  BY <1>4, <1>5 DEF ChainsAreDisjoint

-----------------------------------------------------------------------------
(* What changes a disk and keeps it sound.                                 *)
Unheld(d, c) == \A q \in Places : Holds(d, q) => In(d, q).clus # c

LEMMA FreeIsUnheld ==
  ASSUME NEW d, Sound(d), NEW c \in Clusters, d.fat[c] = FREE
  PROVE  c \in Heads(d) /\ c # RootClus /\ Unheld(d, c)
BY DEF Sound, Heads, Unheld, Starts

LEMMA BlankType == Blank \in [0 .. Cells - 1 -> Contents] /\ \A i \in 0 .. Cells - 1 : Blank[i].kind # "entry"
BY DEF Blank, Contents, End

LEMMA ClaimSound ==
  ASSUME NEW d, Sound(d), NEW c \in Clusters, d.fat[c] = FREE
  PROVE  LET e == Claim(d, c)
         IN  /\ Sound(e) /\ Starts(d) \subseteq Starts(e)
             /\ c \in Starts(e) \ {RootClus} /\ Unheld(e, c)
<1>1. PICK e : e = Claim(d, c)
  OBVIOUS
<1>2. /\ e.fat = [d.fat EXCEPT ![c] = EOC] /\ e.cells = [d.cells EXCEPT ![c] = Blank]
      /\ e = [fat |-> e.fat, cells |-> e.cells]
  BY <1>1 DEF Claim
<1>3. d \in Disks /\ d.fat \in [Clusters -> {FREE, EOC} \cup Clusters]
      /\ d.cells \in [Clusters -> [0 .. Cells - 1 -> Contents]]
  BY DiskIs DEF Sound
<1>4. e \in Disks
  <2>1. e.fat \in [Clusters -> {FREE, EOC} \cup Clusters]
    BY <1>2, <1>3
  <2>2. e.cells \in [Clusters -> [0 .. Cells - 1 -> Contents]]
    BY <1>2, <1>3, BlankType
  <2> QED
    BY <1>2, <2>1, <2>2 DEF Disks
<1>5. /\ \A b \in Clusters : b # c => e.fat[b] = d.fat[b] /\ e.cells[b] = d.cells[b]
      /\ e.fat[c] = EOC /\ e.cells[c] = Blank
  BY <1>2, <1>3
<1>6. \A q \in Places : Holds(e, q) => Holds(d, q) /\ In(e, q) = In(d, q) /\ q[1] # c
  BY <1>5, BlankType DEF Holds, In, Places
<1>7. \A b \in Clusters : e.fat[b] \in Clusters => e.fat[b] = d.fat[b]
  BY <1>5, ClustersAre
<1>8. \A b \in Clusters : d.fat[b] # FREE => e.fat[b] # FREE
  BY <1>5, ClustersAre
<1>9. c \in Heads(d) /\ c # RootClus /\ Unheld(d, c)
  BY FreeIsUnheld
<1>10. Heads(d) \subseteq Heads(e)
  BY <1>7 DEF Heads
<1>11. Starts(d) \subseteq Starts(e)
  BY <1>8, <1>10 DEF Starts, Heads
<1>12. c \in Starts(e) \ {RootClus}
  BY <1>5, <1>9, <1>10, ClustersAre DEF Starts
<1>13. Unheld(e, c)
  BY <1>6, <1>9 DEF Unheld
<1>14. OneWayIn(e)
  <2> SUFFICES ASSUME NEW a \in Clusters, NEW b \in Clusters, e.fat[a] \in Clusters, e.fat[b] = e.fat[a]
               PROVE  b = a
    BY DEF OneWayIn
  <2>1. d.fat[a] = e.fat[a] /\ d.fat[b] = e.fat[b]
    BY <1>7
  <2> QED
    BY <2>1 DEF Sound, OneWayIn
<1>15. \A b \in Clusters : e.fat[b] \in Clusters => e.fat[b] # RootClus /\ e.fat[e.fat[b]] # FREE
  BY <1>7, <1>8 DEF Sound
<1>16. e.fat[RootClus] # FREE
  BY <1>8, ClustersAre DEF Sound
<1>17. \A q \in Places : Holds(e, q) => In(e, q).clus \in Starts(e) \ {RootClus}
  BY <1>6, <1>11 DEF Sound
<1>18. \A q, r \in Places :
         Holds(e, q) /\ Holds(e, r) /\ In(e, q).clus = In(e, r).clus => q = r
  BY <1>6 DEF Sound
<1>19. Sound(e)
  BY <1>4, <1>14, <1>15, <1>16, <1>17, <1>18 DEF Sound
<1> QED
  BY <1>1, <1>11, <1>12, <1>13, <1>19

Put(d, q, v) == [d EXCEPT !.cells[q[1]][q[2]] = v]

LEMMA PutIs ==
  ASSUME NEW d \in Disks, NEW q \in Places, NEW v \in Contents
  PROVE  /\ Put(d, q, v) \in Disks /\ Put(d, q, v).fat = d.fat
         /\ In(Put(d, q, v), q) = v
         /\ \A r \in Places : r # q => In(Put(d, q, v), r) = In(d, r)
<1>1. PICK c \in Clusters, i \in 0 .. Cells - 1 : q = <<c, i>>
  BY DEF Places
<1>2. PICK e : e = Put(d, q, v)
  OBVIOUS
<1>3. PICK row : row = [d.cells[c] EXCEPT ![i] = v]
  OBVIOUS
<1>4. /\ d = [fat |-> d.fat, cells |-> d.cells]
      /\ d.fat \in [Clusters -> {FREE, EOC} \cup Clusters]
      /\ d.cells \in [Clusters -> [0 .. Cells - 1 -> Contents]]
  BY DiskIs
<1>5. /\ e.fat = d.fat /\ e.cells = [d.cells EXCEPT ![c] = row]
      /\ e = [fat |-> e.fat, cells |-> e.cells]
  BY <1>1, <1>2, <1>3, <1>4 DEF Put
<1>6. row \in [0 .. Cells - 1 -> Contents] /\ row[i] = v /\ \A j \in 0 .. Cells - 1 : j # i => row[j] = d.cells[c][j]
  BY <1>3, <1>4
<1>7. /\ e.cells \in [Clusters -> [0 .. Cells - 1 -> Contents]]
      /\ e.cells[c] = row /\ \A b \in Clusters : b # c => e.cells[b] = d.cells[b]
  BY <1>4, <1>5, <1>6
<1>8. e \in Disks
  BY <1>4, <1>5, <1>7 DEF Disks
<1>9. In(e, q) = v
  BY <1>1, <1>6, <1>7 DEF In
<1>10. ASSUME NEW r \in Places, r # q PROVE In(e, r) = In(d, r)
  <2>1. PICK b \in Clusters, j \in 0 .. Cells - 1 : r = <<b, j>>
    BY DEF Places
  <2>2. b # c \/ j # i
    BY <1>1, <1>10, <2>1
  <2> QED
    BY <1>6, <1>7, <2>1, <2>2 DEF In
<1> QED
  BY <1>2, <1>5, <1>8, <1>9, <1>10

(* A cell may become whatever names a cluster that no other cell names.    *)
LEMMA PutSound ==
  ASSUME NEW d, Sound(d), NEW q \in Places, NEW v \in Contents,
         v.kind = "entry" => /\ v.clus \in Starts(d) \ {RootClus}
                             /\ \A r \in Places : Holds(d, r) /\ In(d, r).clus = v.clus => r = q
  PROVE  /\ Sound(Put(d, q, v)) /\ Put(d, q, v).fat = d.fat
         /\ Starts(Put(d, q, v)) = Starts(d) /\ Heads(Put(d, q, v)) = Heads(d)
<1>1. PICK e : e = Put(d, q, v)
  OBVIOUS
<1>2. /\ e \in Disks /\ e.fat = d.fat /\ In(e, q) = v
      /\ \A r \in Places : r # q => In(e, r) = In(d, r)
  BY <1>1, PutIs DEF Sound
<1>3. Heads(e) = Heads(d) /\ Starts(e) = Starts(d)
  BY <1>2 DEF Heads, Starts
<1>4. /\ OneWayIn(e)
      /\ \A c \in Clusters : e.fat[c] \in Clusters => e.fat[c] # RootClus /\ e.fat[e.fat[c]] # FREE
      /\ e.fat[RootClus] # FREE
  BY <1>2 DEF Sound, OneWayIn
<1>5. \A r \in Places : r # q => (Holds(e, r) <=> Holds(d, r))
  BY <1>2 DEF Holds
<1>6. ASSUME NEW r \in Places, Holds(e, r) PROVE In(e, r).clus \in Starts(e) \ {RootClus}
  <2>1. CASE r = q
    BY <1>2, <1>3, <1>6, <2>1 DEF Holds
  <2>2. CASE r # q
    BY <1>2, <1>3, <1>5, <1>6, <2>2 DEF Sound
  <2> QED
    BY <2>1, <2>2
<1>7. ASSUME NEW r \in Places, NEW s \in Places, Holds(e, r), Holds(e, s), In(e, r).clus = In(e, s).clus
      PROVE  r = s
  <2>1. CASE r = q /\ s # q
    <3>1. v.kind = "entry" /\ In(e, r) = v
      BY <1>2, <1>7, <2>1 DEF Holds
    <3> QED
      BY <1>2, <1>5, <1>7, <2>1, <3>1
  <2>2. CASE s = q /\ r # q
    <3>1. v.kind = "entry" /\ In(e, s) = v
      BY <1>2, <1>7, <2>2 DEF Holds
    <3> QED
      BY <1>2, <1>5, <1>7, <2>2, <3>1
  <2>3. CASE r # q /\ s # q
    BY <1>2, <1>5, <1>7, <2>3 DEF Sound
  <2> QED
    BY <2>1, <2>2, <2>3
<1>8. Sound(e)
  BY <1>2, <1>4, <1>6, <1>7 DEF Sound
<1> QED
  BY <1>1, <1>2, <1>3, <1>8

Linking(d, l, c) == [d EXCEPT !.fat[l] = c]

LEMMA LinkSound ==
  ASSUME NEW d, Sound(d), NEW l \in Clusters, d.fat[l] # FREE,
         NEW c \in Starts(d) \ {RootClus}, Unheld(d, c)
  PROVE  LET e == Linking(d, l, c)
         IN  /\ Sound(e) /\ Starts(d) \ {c} \subseteq Starts(e)
             /\ \A q \in Places : In(e, q) = In(d, q) /\ (Holds(e, q) <=> Holds(d, q))
<1>1. PICK e : e = Linking(d, l, c)
  OBVIOUS
<1>2. /\ d = [fat |-> d.fat, cells |-> d.cells]
      /\ d.fat \in [Clusters -> {FREE, EOC} \cup Clusters]
      /\ d.cells \in [Clusters -> [0 .. Cells - 1 -> Contents]]
  BY DiskIs DEF Sound
<1>3. /\ e.fat = [d.fat EXCEPT ![l] = c] /\ e.cells = d.cells
      /\ e = [fat |-> e.fat, cells |-> e.cells]
  BY <1>1, <1>2 DEF Linking
<1>4. c \in Clusters /\ c \in Heads(d) /\ d.fat[c] # FREE
  BY DEF Starts, Heads
<1>5. /\ e \in Disks
      /\ e.fat[l] = c /\ \A b \in Clusters : b # l => e.fat[b] = d.fat[b]
  BY <1>2, <1>3, <1>4 DEF Disks
<1>6. \A b \in Clusters : e.fat[b] # FREE <=> d.fat[b] # FREE
  BY <1>4, <1>5, ClustersAre
<1>7. \A q \in Places : In(e, q) = In(d, q) /\ (Holds(e, q) <=> Holds(d, q))
  BY <1>3, <1>6 DEF In, Holds, Places
<1>8. Starts(d) \ {c} \subseteq Starts(e)
  BY <1>5, <1>6 DEF Starts, Heads
<1>9. OneWayIn(e)
  BY <1>4, <1>5 DEF Sound, OneWayIn, Heads
<1>10. \A b \in Clusters : e.fat[b] \in Clusters => e.fat[b] # RootClus /\ e.fat[e.fat[b]] # FREE
  BY <1>4, <1>5, <1>6 DEF Sound
<1>11. e.fat[RootClus] # FREE
  BY <1>6, ClustersAre DEF Sound
<1>12. \A q \in Places : Holds(e, q) => In(e, q).clus \in Starts(e) \ {RootClus}
  BY <1>7, <1>8 DEF Sound, Unheld
<1>13. \A q, r \in Places :
         Holds(e, q) /\ Holds(e, r) /\ In(e, q).clus = In(e, r).clus => q = r
  BY <1>7 DEF Sound
<1>14. Sound(e)
  BY <1>5, <1>9, <1>10, <1>11, <1>12, <1>13 DEF Sound
<1> QED
  BY <1>1, <1>7, <1>8, <1>14

-----------------------------------------------------------------------------
(* fat32_create.                                                           *)
LEMMA FirstFree ==
  ASSUME NEW d, FreeClusters(d) # {}
  PROVE  Min(FreeClusters(d)) \in Clusters /\ d.fat[Min(FreeClusters(d))] = FREE
<1>1. FreeClusters(d) \subseteq Nat
  BY ClustersAre DEF FreeClusters
<1>2. Min(FreeClusters(d)) \in FreeClusters(d)
  BY <1>1, LeastIs
<1> QED
  BY <1>2 DEF FreeClusters

LEMMA EntryType ==
  ASSUME NEW name \in Names, NEW isDir \in BOOLEAN, NEW c \in Clusters, NEW size \in Nat
  PROVE  /\ Entry(name, isDir, c, size) \in Contents
         /\ Entry(name, isDir, c, size).kind = "entry" /\ Entry(name, isDir, c, size).clus = c
BY DEF Entry, Contents

LEMMA MarksAre == End \in Contents /\ Deleted \in Contents /\ End.kind # "entry" /\ Deleted.kind # "entry"
BY DEF End, Deleted, Contents

(* The cell behind is in the same cluster.                                 *)
LEMMA CellBehind ==
  ASSUME NEW w \in Nat \ {0}, NEW n \in Nat, (n % w) + 1 < w
  PROVE  (n + 1) \div w = n \div w /\ (n + 1) % w = (n % w) + 1
<1>1. n \div w \in Nat /\ n % w \in 0 .. w - 1 /\ n = w * (n \div w) + (n % w)
  OBVIOUS
<1>2. PICK q \in Nat, r \in 0 .. w - 1 : q = n \div w /\ r = n % w /\ n = w * q + r /\ r + 1 < w
  BY <1>1
<1>3. (w * q + (r + 1)) % w = r + 1
  <2>1. PICK x \in 0 .. w - 1 : x = r + 1
    BY <1>2
  <2>2. (w * q + x) % w = x
    BY Remainder
  <2> QED
    BY <2>1, <2>2
<1>4. n + 1 = w * q + (r + 1)
  BY <1>2
<1>5. (n + 1) \div w \in Nat /\ n + 1 = w * ((n + 1) \div w) + ((n + 1) % w)
  OBVIOUS
<1>6. PICK o \in Nat : o = (n + 1) \div w
  BY <1>5
<1>7. w * q = w * o
  BY <1>3, <1>4, <1>5, <1>6
<1>8. q = o
  BY <1>7
<1> QED
  BY <1>2, <1>3, <1>4, <1>6, <1>8

LEMMA SameChain ==
  ASSUME NEW d, NEW e, NEW c, NEW s, IsChain(d, c, s),
         \A i \in 1 .. Len(s) : e.fat[s[i]] = d.fat[s[i]]
  PROVE  IsChain(e, c, s) /\ Chain(e, c) = s
<1>1. Len(s) \in Nat /\ Len(s) >= 1
  BY LenProperties DEF IsChain, Path
<1>2. \A k \in 1 .. Len(s) - 1 : k \in 1 .. Len(s)
  BY <1>1
<1>3. Len(s) \in 1 .. Len(s)
  BY <1>1
<1>4. IsChain(e, c, s)
  BY <1>2, <1>3 DEF IsChain, Path
<1> QED
  BY <1>4, ChainIs

LEMMA PutAtIs ==
  ASSUME NEW d, NEW chain, NEW n, NEW cell
  PROVE  PutAt(d, chain, n, cell) = Put(d, PlaceIn(chain, n), cell)
BY DEF PutAt, Put, PlaceIn

LEMMA PlacedSound ==
  ASSUME NEW d, Sound(d), NEW w \in Starts(d), NEW n \in DOMAIN Along(d, w),
         NEW ent \in Contents, ent.kind = "entry", ent.clus \in Starts(d) \ {RootClus},
         Unheld(d, ent.clus)
  PROVE  Sound(Placed(d, w, n, ent))
<1>1. PICK s, q : s = Chain(d, w) /\ q = PlaceIn(s, n)
  OBVIOUS
<1>2. /\ IsChain(d, w, s) /\ s \in Seq(Clusters)
      /\ q \in Places /\ (n \div Cells) + 1 \in 1 .. Len(s) /\ n % Cells \in 0 .. Cells - 1
      /\ n \in 0 .. Len(s) * Cells - 1
  <2>1. IsChain(d, w, s) /\ s \in Seq(Clusters) /\ d \in Disks
    BY <1>1, StartHasChain DEF Sound
  <2>2. /\ DOMAIN Along(d, w) = 0 .. Len(s) * Cells - 1
        /\ PlaceIn(s, n) \in Places
        /\ (n \div Cells) + 1 \in 1 .. Len(s) /\ n % Cells \in 0 .. Cells - 1
    BY <1>1, <2>1, AlongIs
  <2> QED
    BY <1>1, <2>1, <2>2
<1>3. PICK e : e = Put(d, q, ent)
  OBVIOUS
<1>4. Sound(e) /\ e.fat = d.fat /\ SetCell(d, w, n, ent) = e
  <2>1. \A r \in Places : ~(Holds(d, r) /\ In(d, r).clus = ent.clus)
    BY DEF Unheld
  <2> QED
    BY <1>1, <1>2, <1>3, <2>1, PutSound, PutAtIs DEF SetCell
<1>5. CASE (n % Cells) + 1 < Cells
  <2>1. PICK k \in 1 .. Len(s), i \in 0 .. Cells - 1 :
          k = ((n + 1) \div Cells) + 1 /\ i = (n + 1) % Cells
    <3>1. PICK v \in Nat \ {0} : v = Cells
      BY Fat32Assumption
    <3>2. n \in Nat
      BY <1>2
    <3>3. (n + 1) \div v = n \div v /\ (n + 1) % v = (n % v) + 1
      BY <1>5, <3>1, <3>2, CellBehind
    <3>4. (n % v) + 1 \in 0 .. v - 1
      BY <1>2, <1>5, <3>1
    <3> QED
      BY <1>2, <3>1, <3>3, <3>4
  <2>2. PlaceIn(s, n + 1) \in Places
    BY <1>2, <2>1, ElementOfSeq DEF PlaceIn, Places
  <2>3. Chain(e, w) = s
    BY <1>2, <1>4, SameChain
  <2>4. SetCell(e, w, n + 1, End) = Put(e, PlaceIn(s, n + 1), End)
    BY <2>3, PutAtIs DEF SetCell
  <2>5. Sound(Put(e, PlaceIn(s, n + 1), End))
    BY <1>4, <2>2, MarksAre, PutSound
  <2> QED
    BY <1>4, <1>5, <2>4, <2>5 DEF Placed
<1>6. CASE ~((n % Cells) + 1 < Cells)
  BY <1>4, <1>6 DEF Placed
<1> QED
  BY <1>5, <1>6

Continued(b, l, c, ent) == [b EXCEPT !.fat[l] = c, !.cells[c][0] = ent]

LEMMA ContinuedIs ==
  ASSUME NEW b \in Disks, NEW l \in Clusters, NEW c \in Clusters, NEW ent
  PROVE  Continued(b, l, c, ent) = Put(Linking(b, l, c), <<c, 0>>, ent)
BY DEF Continued, Put, Linking, Disks

LEMMA GrownSound ==
  ASSUME NEW d, Sound(d), NEW w \in Starts(d), NEW new \in Clusters, d.fat[new] = FREE,
         NEW ent \in Contents, ent.kind = "entry", ent.clus \in Starts(d) \ {RootClus},
         Unheld(d, ent.clus)
  PROVE  Sound(Grown(d, w, new, ent))
<1>1. PICK b : b = Claim(d, new)
  OBVIOUS
<1>2. /\ Sound(b) /\ Starts(d) \subseteq Starts(b) /\ b \in Disks
      /\ new \in Starts(b) \ {RootClus} /\ Unheld(b, new)
  BY <1>1, ClaimSound DEF Sound
<1>3. PICK s, l : s = Chain(d, w) /\ l = Last(s)
  OBVIOUS
<1>4. l \in Clusters /\ d.fat[l] # FREE
  <2>1. s \in Seq(Clusters) /\ Len(s) \in 1 .. Len(s) /\ \A i \in 1 .. Len(s) : s[i] \in Clusters /\ d.fat[s[i]] # FREE
    BY <1>3, StartHasChain
  <2> QED
    BY <1>3, <2>1 DEF Last
<1>5. b.fat[l] # FREE
  <2>1. d.fat \in [Clusters -> {FREE, EOC} \cup Clusters]
    BY DiskIs DEF Sound
  <2> QED
    BY <1>1, <1>4, <2>1, ClustersAre DEF Claim
<1>6. PICK e : e = Linking(b, l, new)
  OBVIOUS
<1>7. /\ Sound(e) /\ Starts(b) \ {new} \subseteq Starts(e)
      /\ \A q \in Places : In(e, q) = In(b, q) /\ (Holds(e, q) <=> Holds(b, q))
  BY <1>2, <1>4, <1>5, <1>6, LinkSound
<1>8. ent.clus # new
  BY DEF Starts
<1>9. Unheld(b, ent.clus)
  <2>1. \A q \in Places : Holds(b, q) => Holds(d, q) /\ In(b, q) = In(d, q)
    <3>1. d.fat \in [Clusters -> {FREE, EOC} \cup Clusters] /\ d.cells \in [Clusters -> [0 .. Cells - 1 -> Contents]]
      BY DiskIs DEF Sound
    <3> QED
      BY <1>1, <3>1, BlankType DEF Claim, Holds, In, Places
  <2> QED
    BY <2>1 DEF Unheld
<1>10. <<new, 0>> \in Places
  BY Fat32Assumption DEF Places
<1>11. ent.clus \in Starts(e) \ {RootClus}
  BY <1>2, <1>7, <1>8
<1>12. \A r \in Places : ~(Holds(e, r) /\ In(e, r).clus = ent.clus)
  BY <1>7, <1>9 DEF Unheld
<1>13. Sound(Put(e, <<new, 0>>, ent))
  BY <1>7, <1>10, <1>11, <1>12, PutSound
<1>14. Grown(d, w, new, ent) = Put(e, <<new, 0>>, ent)
  <2>1. Grown(d, w, new, ent) = Continued(b, l, new, ent)
    BY <1>1, <1>3 DEF Grown, Continued
  <2>2. Continued(b, l, new, ent) = Put(Linking(b, l, new), <<new, 0>>, ent)
    BY <1>2, <1>4, ContinuedIs
  <2> QED
    BY <1>6, <2>1, <2>2
<1> QED
  BY <1>13, <1>14

LEMMA AddEntrySound ==
  ASSUME NEW d, Sound(d), NEW w \in Starts(d),
         NEW ent \in Contents, ent.kind = "entry", ent.clus \in Starts(d) \ {RootClus},
         Unheld(d, ent.clus)
  PROVE  Sound(AddEntry(d, w, ent))
<1>1. CASE Vacancies(Along(d, w)) # {}
  <2>1. PICK V : V = Vacancies(Along(d, w))
    OBVIOUS
  <2>2. V \subseteq DOMAIN Along(d, w)
    BY <2>1 DEF Vacancies
  <2>3. DOMAIN Along(d, w) \subseteq Nat
    <3>1. PICK s : s = Chain(d, w) /\ s \in Seq(Clusters)
      BY StartHasChain
    <3>2. DOMAIN Along(d, w) = 0 .. Len(s) * Cells - 1
      BY <3>1, AlongIs DEF Sound
    <3> QED
      BY <3>2
  <2>4. Min(V) \in V
    BY <1>1, <2>1, <2>2, <2>3, LeastIs
  <2>5. Sound(Placed(d, w, Min(V), ent))
    BY <2>2, <2>4, PlacedSound
  <2> QED
    BY <1>1, <2>1, <2>5 DEF AddEntry
<1>2. CASE Vacancies(Along(d, w)) = {} /\ FreeClusters(d) = {}
  BY <1>2 DEF AddEntry
<1>3. CASE Vacancies(Along(d, w)) = {} /\ FreeClusters(d) # {}
  <2>1. PICK new \in Clusters : new = Min(FreeClusters(d)) /\ d.fat[new] = FREE
    BY <1>3, FirstFree
  <2>2. Sound(Grown(d, w, new, ent))
    BY <2>1, GrownSound
  <2> QED
    BY <1>3, <2>1, <2>2 DEF AddEntry
<1> QED
  BY <1>1, <1>2, <1>3

LEMMA CreatedSound ==
  ASSUME NEW d, Sound(d), NEW p \in ProperPaths, NEW isDir \in BOOLEAN
  PROVE  Sound(Created(d, p, isDir))
<1>1. CASE Parent(d, p) = 0 \/ Exists(d, p) \/ FreeClusters(d) = {}
  BY <1>1 DEF Created
<1>2. CASE ~(Parent(d, p) = 0 \/ Exists(d, p) \/ FreeClusters(d) = {})
  <2>1. PICK c \in Clusters : c = Min(FreeClusters(d)) /\ d.fat[c] = FREE
    BY <1>2, FirstFree
  <2>2. PICK e : e = Claim(d, c)
    OBVIOUS
  <2>3. Sound(e) /\ Starts(d) \subseteq Starts(e) /\ c \in Starts(e) \ {RootClus} /\ Unheld(e, c)
    BY <2>1, <2>2, ClaimSound
  <2>4. Parent(d, p) \in Starts(e)
    BY <1>2, <2>3, ParentType
  <2>5. PICK ent : ent = Entry(Last(p), isDir, c, 0)
    OBVIOUS
  <2>6. ent \in Contents /\ ent.kind = "entry" /\ ent.clus = c
    BY <2>5, EntryType, PathIs
  <2>7. Sound(AddEntry(e, Parent(d, p), ent))
    BY <2>3, <2>4, <2>6, AddEntrySound
  <2> QED
    BY <1>2, <2>1, <2>2, <2>5, <2>7 DEF Created, CreatedAt
<1> QED
  BY <1>1, <1>2

-----------------------------------------------------------------------------
(* The free clusters in ascending order.                                   *)
Below(S, k) == {x \in S : x < k}

Ascends(s, S) ==
  /\ s \in [1 .. Cardinality(S) -> S]
  /\ \A i, j \in 1 .. Cardinality(S) : i < j => s[i] < s[j]

LEMMA AscendingIs ==
  ASSUME NEW S, S \subseteq Clusters
  PROVE  /\ Ascending(S) \in Seq(S) /\ Len(Ascending(S)) \in Nat
         /\ \A i, j \in 1 .. Len(Ascending(S)) : Ascending(S)[i] = Ascending(S)[j] => i = j
<1>1. PICK m \in Nat : m = LastClus + 1
  BY Fat32Assumption
<1>2. \A x \in S : x \in Nat /\ x < m
  BY <1>1, Fat32Assumption DEF Clusters
<1> DEFINE G == {k \in 0 .. m : IsFiniteSet(Below(S, k)) /\ \E s : Ascends(s, Below(S, k))}
<1> HIDE DEF G
<1>3. 0 \in G
  <2>1. Below(S, 0) = {}
    BY <1>2 DEF Below
  <2>2. IsFiniteSet(Below(S, 0)) /\ Cardinality(Below(S, 0)) = 0
    BY <2>1, FS_EmptySet
  <2>3. PICK s : s = [i \in 1 .. 0 |-> i]
    OBVIOUS
  <2>4. s \in [1 .. 0 -> Below(S, 0)]
    BY <2>3
  <2>5. Ascends(s, Below(S, 0))
    BY <2>2, <2>4 DEF Ascends
  <2> QED
    BY <2>2, <2>5 DEF G
<1>4. ASSUME NEW k \in 1 .. m, k - 1 \in G PROVE k \in G
  <2>1. PICK B, T, x : B = Below(S, k - 1) /\ T = Below(S, k) /\ x = k - 1
    OBVIOUS
  <2>2. PICK s : IsFiniteSet(B) /\ Ascends(s, B)
    BY <1>4, <2>1 DEF G
  <2>3. PICK c \in Nat : c = Cardinality(B)
    BY <2>2, FS_CardinalityType
  <2>4. s \in [1 .. c -> B] /\ \A i, j \in 1 .. c : i < j => s[i] < s[j]
    BY <2>2, <2>3 DEF Ascends
  <2>5. CASE x \notin S
    <3>1. T = B
      <4>1. \A y \in S : y < k <=> y < x
        BY <1>2, <2>1, <2>5
      <4> QED
        BY <2>1, <4>1 DEF Below
    <3>2. IsFiniteSet(Below(S, k)) /\ Ascends(s, Below(S, k))
      BY <2>1, <2>2, <3>1
    <3> QED
      BY <3>2 DEF G
  <2>6. CASE x \in S
    <3>1. T = B \cup {x} /\ x \notin B
      <4>1. \A y \in S : y < k <=> y < x \/ y = x
        BY <1>2, <2>1
      <4>2. ~(x < x)
        BY <2>1
      <4> QED
        BY <2>1, <2>6, <4>1, <4>2 DEF Below
    <3>2. IsFiniteSet(T) /\ Cardinality(T) = c + 1
      BY <2>2, <2>3, <3>1, FS_AddElement
    <3>3. PICK t : t = [i \in 1 .. c + 1 |-> IF i = c + 1 THEN x ELSE s[i]]
      OBVIOUS
    <3>4. \A i \in 1 .. c + 1 : i # c + 1 => i \in 1 .. c
      BY <2>3
    <3>5. t \in [1 .. c + 1 -> T]
      BY <2>4, <3>1, <3>3, <3>4
    <3>6. ASSUME NEW i \in 1 .. c + 1, NEW j \in 1 .. c + 1, i < j PROVE t[i] < t[j]
      <4>1. i # c + 1
        BY <3>6
      <4>2. CASE j = c + 1
        <5>1. s[i] \in B /\ t[i] = s[i] /\ t[j] = x
          BY <2>4, <3>3, <3>4, <4>1, <4>2
        <5> QED
          BY <2>1, <5>1 DEF Below
      <4>3. CASE j # c + 1
        BY <2>4, <3>3, <3>4, <3>6, <4>1, <4>3
      <4> QED
        BY <4>2, <4>3
    <3>7. Ascends(t, T)
      BY <3>2, <3>5, <3>6 DEF Ascends
    <3> QED
      BY <2>1, <3>2, <3>7 DEF G
  <2> QED
    BY <2>5, <2>6
<1>5. IsFiniteSet(S) /\ \E s : Ascends(s, S)
  <2>1. \A k \in 0 .. m : k \in G
    BY <1>3, <1>4, StepByStep
  <2>2. m \in G
    BY <2>1
  <2>3. Below(S, m) = S
    BY <1>2 DEF Below
  <2> QED
    BY <2>2, <2>3 DEF G
<1>6. PICK c \in Nat : c = Cardinality(S)
  BY <1>5, FS_CardinalityType
<1>7. PICK a : a = Ascending(S) /\ Ascends(a, S)
  BY <1>5 DEF Ascending, Ascends
<1>8. a \in [1 .. c -> S] /\ \A i, j \in 1 .. c : i < j => a[i] < a[j]
  BY <1>6, <1>7 DEF Ascends
<1>9. a \in Seq(S) /\ Len(a) = c
  BY <1>8
<1>10. ASSUME NEW i \in 1 .. c, NEW j \in 1 .. c, a[i] = a[j] PROVE i = j
  <2>1. a[i] \in Nat
    BY <1>2, <1>8
  <2>2. ~(i < j) /\ ~(j < i)
    BY <1>8, <1>10, <2>1
  <2> QED
    BY <2>2
<1> QED
  BY <1>7, <1>9, <1>10

-----------------------------------------------------------------------------
(* fat32_write.                                                            *)

(* The clusters a write goes to follow each other already, or are free.    *)
Follows(d, x, k) == d.fat[x[k]] = FREE \/ (k > 1 /\ d.fat[x[k - 1]] = x[k])

LEMMA ClustersForIs == ASSUME NEW n \in Nat PROVE ClustersFor(n) \in Nat /\ ClustersFor(n) >= 1
<1>1. PICK w \in Nat \ {0} : w = Cells
  BY Fat32Assumption
<1>2. CASE n = 0
  BY <1>2 DEF ClustersFor
<1>3. CASE n # 0
  <2>1. PICK x \in Nat : x = n + w - 1 /\ x >= w
    BY <1>1, <1>3
  <2>2. x \div w \in Nat /\ x % w \in 0 .. w - 1 /\ x = w * (x \div w) + (x % w)
    OBVIOUS
  <2>3. x \div w # 0
    BY <2>1, <2>2
  <2> QED
    BY <1>1, <1>3, <2>1, <2>2, <2>3 DEF ClustersFor
<1> QED
  BY <1>2, <1>3

LEMMA FirstOfIs ==
  ASSUME NEW s \in Seq(Clusters), NEW n \in Nat
  PROVE  /\ FirstOf(s, n) \in Seq(Clusters)
         /\ Len(FirstOf(s, n)) \in Nat /\ (n >= 1 /\ Len(s) >= 1 => Len(FirstOf(s, n)) >= 1)
         /\ \A k \in 1 .. Len(FirstOf(s, n)) : k \in 1 .. Len(s) /\ FirstOf(s, n)[k] = s[k]
<1>1. PICK l \in Nat, m \in Nat : l = Len(s) /\ m = IF n < l THEN n ELSE l
  BY LenProperties
<1>2. Min({n, l}) = m
  BY <1>1, SmallerIs
<1>3. FirstOf(s, n) = SubSeq(s, 1, m)
  BY <1>1, <1>2 DEF FirstOf
<1>4. PICK t : t = SubSeq(s, 1, m)
  OBVIOUS
<1>5. t \in Seq(Clusters) /\ Len(t) = m /\ \A k \in 1 .. m : t[k] = s[k]
  <2>1. CASE m = 0
    BY <1>4, <2>1, SubSeqEmpty
  <2>2. CASE m # 0
    <3>1. \A k \in 1 .. m : s[k] \in Clusters
      BY <1>1, ElementOfSeq
    <3>2. /\ SubSeq(s, 1, m) \in Seq(Clusters)
          /\ Len(SubSeq(s, 1, m)) = IF 1 <= m THEN m - 1 + 1 ELSE 0
          /\ \A k \in 1 .. m - 1 + 1 : SubSeq(s, 1, m)[k] = s[1 + k - 1]
      BY <3>1, SubSeqProperties
    <3>3. m - 1 + 1 = m /\ 1 <= m /\ \A k \in 1 .. m : 1 + k - 1 = k
      BY <2>2
    <3> QED
      BY <1>4, <3>2, <3>3
  <2> QED
    BY <2>1, <2>2
<1>6. \A k \in 1 .. m : k \in 1 .. l
  BY <1>1
<1> QED
  BY <1>1, <1>3, <1>4, <1>5, <1>6

LEMMA ExtentIs ==
  ASSUME NEW d, Sound(d), NEW p \in ProperPaths, Exists(d, p), NEW n \in Nat
  PROVE  LET x == Extent(d, p, n)
             s == Chain(d, Dirent(d, p).clus)
         IN  /\ x \in Seq(Clusters) /\ Len(x) \in Nat /\ Len(x) >= 1
             /\ \A i, j \in 1 .. Len(x) : x[i] = x[j] => i = j
             /\ \A k \in 1 .. Len(x) : Follows(d, x, k) \/ k = 1
             /\ \A k \in 1 .. Len(x) : d.fat[x[k]] = FREE \/ \E i \in 1 .. Len(s) : x[k] = s[i]
<1>1. PICK s, a, w : s = Chain(d, Dirent(d, p).clus) /\ a = Ascending(FreeClusters(d)) /\ w = s \o a
  OBVIOUS
<1>2. /\ s \in Seq(Clusters) /\ Len(s) \in Nat /\ Len(s) >= 1
      /\ \A i \in 1 .. Len(s) : s[i] \in Clusters /\ d.fat[s[i]] # FREE
      /\ \A i, j \in 1 .. Len(s) : s[i] = s[j] => i = j
      /\ \A k \in 1 .. Len(s) - 1 : d.fat[s[k]] = s[k + 1]
  <2>1. PICK c \in Starts(d) : c = Dirent(d, p).clus
    BY EntryIs
  <2>2. LET r == Chain(d, c)
        IN  /\ IsChain(d, c, r) /\ r \in Seq(Clusters) /\ Len(r) \in Nat /\ Len(r) >= 1
            /\ \A i \in 1 .. Len(r) : r[i] \in Clusters /\ d.fat[r[i]] # FREE
            /\ \A i, j \in 1 .. Len(r) : r[i] = r[j] => i = j
    BY StartHasChain
  <2>3. s = Chain(d, c)
    BY <1>1, <2>1
  <2>4. /\ IsChain(d, c, s) /\ s \in Seq(Clusters) /\ Len(s) \in Nat /\ Len(s) >= 1
        /\ \A i \in 1 .. Len(s) : s[i] \in Clusters /\ d.fat[s[i]] # FREE
        /\ \A i, j \in 1 .. Len(s) : s[i] = s[j] => i = j
    BY <2>2, <2>3
  <2> QED
    BY <2>4 DEF IsChain, Path
<1>3. /\ a \in Seq(FreeClusters(d)) /\ Len(a) \in Nat
      /\ \A i, j \in 1 .. Len(a) : a[i] = a[j] => i = j
  BY <1>1, AscendingIs DEF FreeClusters
<1>4. PICK l \in Nat, m \in Nat : l = Len(s) /\ m = Len(a) /\ l >= 1
  BY <1>2, <1>3
<1>5. \A i \in 1 .. m : a[i] \in Clusters /\ d.fat[a[i]] = FREE
  BY <1>3, <1>4, ElementOfSeq DEF FreeClusters
<1>6. /\ w \in Seq(Clusters) /\ Len(w) = l + m
      /\ \A i \in 1 .. l + m : w[i] = IF i <= l THEN s[i] ELSE a[i - l]
  <2>1. a \in Seq(Clusters)
    BY <1>3, <1>4, <1>5
  <2> QED
    BY <1>1, <1>2, <1>4, <2>1, ConcatProperties
<1>7. \A i \in 1 .. l + m : i <= l => i \in 1 .. l
  OBVIOUS
<1>8. \A i \in 1 .. l + m : ~(i <= l) => i - l \in 1 .. m
  OBVIOUS
<1>9. ASSUME NEW i \in 1 .. l + m, NEW j \in 1 .. l + m, w[i] = w[j] PROVE i = j
  <2>1. CASE i <= l /\ j <= l
    BY <1>2, <1>4, <1>6, <1>7, <1>9, <2>1, SMTT(30)
  <2>2. CASE ~(i <= l) /\ ~(j <= l)
    <3>1. PICK u \in 1 .. m, v \in 1 .. m : u = i - l /\ v = j - l
      BY <1>8, <2>2
    <3>2. w[i] = a[u] /\ w[j] = a[v]
      BY <1>6, <2>2, <3>1
    <3>3. u = v
      BY <1>3, <1>4, <1>9, <3>2
    <3> QED
      BY <3>1, <3>3
  <2>3. CASE i <= l /\ ~(j <= l)
    <3>1. w[i] = s[i] /\ w[j] = a[j - l] /\ i \in 1 .. l /\ j - l \in 1 .. m
      BY <1>6, <1>7, <1>8, <2>3
    <3>2. d.fat[s[i]] # FREE
      BY <1>2, <1>4, <3>1
    <3>3. d.fat[a[j - l]] = FREE
      BY <1>5, <3>1
    <3> QED
      BY <1>9, <3>1, <3>2, <3>3
  <2>4. CASE ~(i <= l) /\ j <= l
    <3>1. w[i] = a[i - l] /\ w[j] = s[j] /\ i - l \in 1 .. m /\ j \in 1 .. l
      BY <1>6, <1>7, <1>8, <2>4
    <3>2. d.fat[s[j]] # FREE
      BY <1>2, <1>4, <3>1
    <3>3. d.fat[a[i - l]] = FREE
      BY <1>5, <3>1
    <3> QED
      BY <1>9, <3>1, <3>2, <3>3
  <2> QED
    BY <2>1, <2>2, <2>3, <2>4
<1>10. ASSUME NEW k \in 1 .. l + m, k # 1
       PROVE  d.fat[w[k]] = FREE \/ d.fat[w[k - 1]] = w[k]
  <2>1. CASE k <= l
    <3>1. k - 1 \in 1 .. l + m /\ k - 1 <= l /\ k - 1 \in 1 .. l - 1 /\ (k - 1) + 1 = k
      BY <1>10, <2>1
    <3>2. w[k - 1] = s[k - 1] /\ w[k] = s[k] /\ d.fat[s[k - 1]] = s[k]
      BY <1>2, <1>4, <1>6, <2>1, <3>1
    <3> QED
      BY <3>2
  <2>2. CASE ~(k <= l)
    BY <1>5, <1>6, <1>8, <2>2
  <2> QED
    BY <2>1, <2>2
<1>11. \A k \in 1 .. l + m : d.fat[w[k]] = FREE \/ \E i \in 1 .. l : w[k] = s[i]
  BY <1>5, <1>6, <1>7, <1>8
<1>12. PICK c \in Nat : c = ClustersFor(n) /\ c >= 1
  BY ClustersForIs
<1>13. PICK x : x = FirstOf(w, c) /\ x = Extent(d, p, n)
  BY <1>1, <1>12 DEF Extent
<1>14. /\ x \in Seq(Clusters) /\ Len(x) \in Nat /\ Len(x) >= 1
       /\ \A k \in 1 .. Len(x) : k \in 1 .. l + m /\ x[k] = w[k]
  <2>1. w \in Seq(Clusters)
    BY <1>6
  <2>2. /\ FirstOf(w, c) \in Seq(Clusters)
        /\ Len(FirstOf(w, c)) \in Nat /\ (c >= 1 /\ Len(w) >= 1 => Len(FirstOf(w, c)) >= 1)
        /\ \A k \in 1 .. Len(FirstOf(w, c)) : k \in 1 .. Len(w) /\ FirstOf(w, c)[k] = w[k]
    BY <2>1, FirstOfIs
  <2>3. /\ x \in Seq(Clusters) /\ Len(x) \in Nat /\ (c >= 1 /\ Len(w) >= 1 => Len(x) >= 1)
        /\ \A k \in 1 .. Len(x) : k \in 1 .. Len(w) /\ x[k] = w[k]
    BY <1>13, <2>2
  <2>4. Len(w) = l + m /\ l + m >= 1
    BY <1>4, <1>6
  <2>5. Len(x) >= 1
    BY <1>12, <2>3, <2>4
  <2> QED
    BY <2>3, <2>4, <2>5
<1>15. Len(x) \in Nat /\ Len(x) >= 1
  BY <1>14
<1>16. \A i, j \in 1 .. Len(x) : x[i] = x[j] => i = j
  BY <1>9, <1>14
<1>17. ASSUME NEW k \in 1 .. Len(x), k # 1 PROVE Follows(d, x, k)
  <2>1. k - 1 \in 1 .. Len(x) /\ k > 1
    BY <1>15, <1>17
  <2>2. x[k - 1] = w[k - 1] /\ x[k] = w[k] /\ k \in 1 .. l + m
    BY <1>14, <2>1
  <2> QED
    BY <1>10, <1>17, <2>1, <2>2 DEF Follows
<1>18. \A k \in 1 .. Len(x) : d.fat[x[k]] = FREE \/ \E i \in 1 .. Len(s) : x[k] = s[i]
  <2> SUFFICES ASSUME NEW k \in 1 .. Len(x)
               PROVE  d.fat[x[k]] = FREE \/ \E i \in 1 .. Len(s) : x[k] = s[i]
    OBVIOUS
  <2>1. k \in 1 .. l + m /\ x[k] = w[k]
    BY <1>14
  <2>2. d.fat[w[k]] = FREE \/ \E i \in 1 .. l : w[k] = s[i]
    BY <1>11, <2>1
  <2> QED
    BY <1>4, <2>1, <2>2
<1> QED
  BY <1>1, <1>13, <1>14, <1>15, <1>16, <1>17, <1>18

(* What the loop of fat32_write leaves of the clusters it went to.         *)
Position(x, c) == CHOOSE k \in 1 .. Len(x) : x[k] = c

CellFilled(d, x, t, n, c, i) ==
  IF (Position(x, c) - 1) * Cells + i < n
  THEN Text(t, (Position(x, c) - 1) * Cells + i)
  ELSE IF d.fat[c] = FREE THEN Blank[i] ELSE d.cells[c][i]

RowFilled(d, x, t, n, c) == [i \in 0 .. Cells - 1 |-> CellFilled(d, x, t, n, c, i)]

LEMMA FilledFields ==
  ASSUME NEW d, NEW x, NEW t, NEW n
  PROVE  /\ Filled(d, x, t, n) = [fat |-> Filled(d, x, t, n).fat, cells |-> Filled(d, x, t, n).cells]
         /\ Filled(d, x, t, n).fat =
              [c \in Clusters |-> IF c \notin ToSet(x) THEN d.fat[c]
                                  ELSE IF Position(x, c) = Len(x) THEN EOC ELSE x[Position(x, c) + 1]]
BY DEF Filled, Position

LEMMA FilledCells ==
  ASSUME NEW d, NEW x, NEW t, NEW n, NEW c \in Clusters
  PROVE  /\ c \notin ToSet(x) => Filled(d, x, t, n).cells[c] = d.cells[c]
         /\ c \in ToSet(x) => Filled(d, x, t, n).cells[c] = RowFilled(d, x, t, n, c)
<1>1. CASE c \notin ToSet(x)
  BY <1>1 DEF Filled
<1>2. CASE c \in ToSet(x) /\ d.fat[c] = FREE
  BY <1>2 DEF Filled, Position, CellFilled, RowFilled
<1>3. CASE c \in ToSet(x) /\ d.fat[c] # FREE
  BY <1>3 DEF Filled, Position, CellFilled, RowFilled
<1> QED
  BY <1>1, <1>2, <1>3

LEMMA TextType ==
  ASSUME NEW t \in Texts, NEW i \in Nat
  PROVE  Text(t, i) \in Contents /\ Text(t, i).kind # "entry"
BY DEF Text, Contents

LEMMA CellFilledIs ==
  ASSUME NEW d \in Disks, NEW x \in Seq(Clusters), NEW k \in 1 .. Len(x), NEW c \in Clusters,
         Position(x, c) = k, NEW t \in Texts, NEW n \in Nat, NEW i \in 0 .. Cells - 1
  PROVE  LET v == CellFilled(d, x, t, n, c, i)
         IN  /\ v \in Contents
             /\ v.kind = "entry" => d.fat[c] # FREE /\ v = d.cells[c][i]
<1>1. PICK v : v = CellFilled(d, x, t, n, c, i)
  OBVIOUS
<1>2. PICK w \in Nat, l \in Nat : w = Cells /\ l = k - 1
  BY Fat32Assumption, LenProperties
<1>3. PICK j \in Nat : j = (k - 1) * Cells + i
  <2>1. l * w \in Nat
    BY <1>2
  <2> QED
    BY <1>2, <2>1
<1>4. v = IF j < n THEN Text(t, j) ELSE IF d.fat[c] = FREE THEN Blank[i] ELSE d.cells[c][i]
  BY <1>1, <1>3 DEF CellFilled
<1>5. d.cells[c][i] \in Contents
  <2>1. d.cells[c] \in [0 .. Cells - 1 -> Contents]
    BY DiskIs
  <2> QED
    BY <2>1
<1>6. Blank[i] \in Contents /\ Blank[i].kind # "entry"
  BY BlankType
<1>7. Text(t, j) \in Contents /\ Text(t, j).kind # "entry"
  BY TextType
<1>8. CASE j < n
  BY <1>1, <1>4, <1>7, <1>8
<1>9. CASE ~(j < n)
  BY <1>1, <1>4, <1>5, <1>6, <1>9
<1> QED
  BY <1>8, <1>9

LEMMA PositionIs ==
  ASSUME NEW x \in Seq(Clusters), \A i, j \in 1 .. Len(x) : x[i] = x[j] => i = j
  PROVE  /\ \A k \in 1 .. Len(x) : x[k] \in ToSet(x) /\ Position(x, x[k]) = k
         /\ \A c \in ToSet(x) : Position(x, c) \in 1 .. Len(x) /\ x[Position(x, c)] = c
<1>1. ToSet(x) = {x[k] : k \in 1 .. Len(x)}
  BY LenProperties DEF ToSet
<1>2. ASSUME NEW k \in 1 .. Len(x) PROVE Position(x, x[k]) = k
  <2>1. Position(x, x[k]) \in 1 .. Len(x) /\ x[Position(x, x[k])] = x[k]
    BY DEF Position
  <2> QED
    BY <2>1
<1> QED
  BY <1>1, <1>2

LEMMA FilledIs ==
  ASSUME NEW d \in Disks, NEW x \in Seq(Clusters), NEW t \in Texts, NEW n \in Nat,
         \A i, j \in 1 .. Len(x) : x[i] = x[j] => i = j
  PROVE  LET e == Filled(d, x, t, n)
         IN  /\ e \in Disks
             /\ \A c \in Clusters : c \notin ToSet(x) => e.fat[c] = d.fat[c] /\ e.cells[c] = d.cells[c]
             /\ \A k \in 1 .. Len(x) : k = Len(x) => e.fat[x[k]] = EOC
             /\ \A k \in 1 .. Len(x) : k # Len(x) => e.fat[x[k]] = x[k + 1]
             /\ \A q \in Places : q[1] \in ToSet(x) /\ In(e, q).kind = "entry"
                                    => d.fat[q[1]] # FREE /\ In(e, q) = In(d, q)
<1>1. PICK e : e = Filled(d, x, t, n)
  OBVIOUS
<1>2. PICK l \in Nat : l = Len(x)
  BY LenProperties
<1>3. /\ e = [fat |-> e.fat, cells |-> e.cells]
      /\ e.fat = [c \in Clusters |-> IF c \notin ToSet(x) THEN d.fat[c]
                                     ELSE IF Position(x, c) = l THEN EOC ELSE x[Position(x, c) + 1]]
  BY <1>1, <1>2, FilledFields
<1>4. /\ \A c \in Clusters : c \notin ToSet(x) => e.cells[c] = d.cells[c]
      /\ \A c \in Clusters : c \in ToSet(x) => e.cells[c] = RowFilled(d, x, t, n, c)
  BY <1>1, FilledCells
<1>5. /\ d.fat \in [Clusters -> {FREE, EOC} \cup Clusters]
      /\ d.cells \in [Clusters -> [0 .. Cells - 1 -> Contents]]
  BY DiskIs
<1>6. /\ \A k \in 1 .. l : x[k] \in ToSet(x) /\ Position(x, x[k]) = k /\ x[k] \in Clusters
      /\ \A c \in ToSet(x) : Position(x, c) \in 1 .. l /\ x[Position(x, c)] = c
  BY <1>2, PositionIs, ElementOfSeq
<1>7. ASSUME NEW c \in Clusters PROVE e.fat[c] \in {FREE, EOC} \cup Clusters
  <2>1. CASE c \notin ToSet(x)
    BY <1>3, <1>5, <2>1
  <2>2. CASE c \in ToSet(x)
    <3>1. PICK k \in 1 .. l : k = Position(x, c)
      BY <1>6, <2>2
    <3>2. k # l => k + 1 \in 1 .. l
      BY <1>2
    <3> QED
      BY <1>3, <1>6, <2>2, <3>1, <3>2
  <2> QED
    BY <2>1, <2>2
<1>8. ASSUME NEW c \in Clusters PROVE e.cells[c] \in [0 .. Cells - 1 -> Contents]
  <2>1. CASE c \notin ToSet(x)
    BY <1>4, <1>5, <2>1
  <2>2. CASE c \in ToSet(x)
    <3>1. PICK k \in 1 .. l : k = Position(x, c)
      BY <1>6, <2>2
    <3>2. \A i \in 0 .. Cells - 1 : CellFilled(d, x, t, n, c, i) \in Contents
      BY <1>2, <3>1, CellFilledIs
    <3>3. PICK row : row = RowFilled(d, x, t, n, c)
      OBVIOUS
    <3>4. row \in [0 .. Cells - 1 -> Contents]
      BY <3>2, <3>3 DEF RowFilled
    <3> QED
      BY <1>4, <2>2, <3>3, <3>4
  <2> QED
    BY <2>1, <2>2
<1>9. e \in Disks
  <2>1. e.fat \in [Clusters -> {FREE, EOC} \cup Clusters]
    BY <1>3, <1>7
  <2>2. DOMAIN e.cells = Clusters /\ e.cells = [c \in Clusters |-> e.cells[c]]
    BY <1>1 DEF Filled
  <2>3. e.cells \in [Clusters -> [0 .. Cells - 1 -> Contents]]
    BY <1>8, <2>2
  <2> QED
    BY <1>3, <2>1, <2>3 DEF Disks
<1>10. \A c \in Clusters : c \notin ToSet(x) => e.fat[c] = d.fat[c] /\ e.cells[c] = d.cells[c]
  BY <1>3, <1>4
<1>11. \A k \in 1 .. l : (k = l => e.fat[x[k]] = EOC) /\ (k # l => e.fat[x[k]] = x[k + 1])
  BY <1>3, <1>6
<1>12. ASSUME NEW q \in Places, q[1] \in ToSet(x), In(e, q).kind = "entry"
       PROVE  d.fat[q[1]] # FREE /\ In(e, q) = In(d, q)
  <2>1. PICK c \in Clusters, i \in 0 .. Cells - 1 : q = <<c, i>>
    BY DEF Places
  <2>2. c \in ToSet(x)
    BY <1>12, <2>1
  <2>3. PICK k \in 1 .. l : k = Position(x, c)
    BY <1>6, <2>2
  <2>4. In(e, q) = CellFilled(d, x, t, n, c, i)
    <3>1. In(e, q) = e.cells[c][i]
      BY <2>1 DEF In
    <3>2. e.cells[c] = RowFilled(d, x, t, n, c)
      BY <1>4, <2>2
    <3>3. RowFilled(d, x, t, n, c)[i] = CellFilled(d, x, t, n, c, i)
      BY DEF RowFilled
    <3> QED
      BY <3>1, <3>2, <3>3
  <2>5. CellFilled(d, x, t, n, c, i).kind = "entry"
          => d.fat[c] # FREE /\ CellFilled(d, x, t, n, c, i) = d.cells[c][i]
    BY <1>2, <2>3, CellFilledIs
  <2> QED
    BY <1>12, <2>1, <2>4, <2>5 DEF In
<1> QED
  BY <1>1, <1>2, <1>9, <1>10, <1>11, <1>12

LEMMA FilledSound ==
  ASSUME NEW d, Sound(d), NEW x \in Seq(Clusters), NEW t \in Texts, NEW n \in Nat,
         \A i, j \in 1 .. Len(x) : x[i] = x[j] => i = j,
         \A k \in 1 .. Len(x) : Follows(d, x, k) \/ k = 1
  PROVE  Sound(Filled(d, x, t, n)) /\ Starts(d) \subseteq Starts(Filled(d, x, t, n))
<1>1. PICK e : e = Filled(d, x, t, n)
  OBVIOUS
<1>2. PICK l \in Nat : l = Len(x)
  BY LenProperties
<1>3. /\ e \in Disks
      /\ \A c \in Clusters : c \notin ToSet(x) => e.fat[c] = d.fat[c] /\ e.cells[c] = d.cells[c]
      /\ \A k \in 1 .. l : k = l => e.fat[x[k]] = EOC
      /\ \A k \in 1 .. l : k # l => e.fat[x[k]] = x[k + 1]
      /\ \A q \in Places : q[1] \in ToSet(x) /\ In(e, q).kind = "entry"
                             => d.fat[q[1]] # FREE /\ In(e, q) = In(d, q)
  <2>1. d \in Disks
    BY DEF Sound
  <2>2. /\ Filled(d, x, t, n) \in Disks
        /\ \A c \in Clusters : c \notin ToSet(x) => /\ Filled(d, x, t, n).fat[c] = d.fat[c]
                                                /\ Filled(d, x, t, n).cells[c] = d.cells[c]
        /\ \A k \in 1 .. Len(x) : k = Len(x) => Filled(d, x, t, n).fat[x[k]] = EOC
        /\ \A k \in 1 .. Len(x) : k # Len(x) => Filled(d, x, t, n).fat[x[k]] = x[k + 1]
        /\ \A q \in Places : q[1] \in ToSet(x) /\ In(Filled(d, x, t, n), q).kind = "entry"
                               => d.fat[q[1]] # FREE /\ In(Filled(d, x, t, n), q) = In(d, q)
    BY <2>1, FilledIs, SMTT(60)
  <2> QED
    BY <1>1, <1>2, <2>2
<1>4. \A k \in 1 .. l : x[k] \in Clusters
  BY <1>2, ElementOfSeq
<1>5. \A c \in ToSet(x) : \E k \in 1 .. l : c = x[k]
  BY <1>2, PositionIs
(* A link that is new leads to a cluster that was free, or was there.      *)
<1>6. ASSUME NEW k \in 1 .. l, k # l
      PROVE  /\ k + 1 \in 1 .. l /\ e.fat[x[k]] = x[k + 1]
             /\ d.fat[x[k + 1]] = FREE \/ d.fat[x[k]] = x[k + 1]
  <2>1. k + 1 \in 1 .. l /\ k + 1 # 1 /\ (k + 1) - 1 = k
    BY <1>6
  <2> QED
    BY <1>2, <1>3, <1>6, <2>1 DEF Follows
<1>7. ASSUME NEW c \in Clusters
      PROVE  \/ e.fat[c] = d.fat[c]
             \/ e.fat[c] = EOC
             \/ e.fat[c] \in Clusters /\ d.fat[e.fat[c]] = FREE
  <2>1. CASE c \notin ToSet(x)
    BY <1>3, <2>1
  <2>2. CASE c \in ToSet(x)
    <3>1. PICK k \in 1 .. l : c = x[k]
      BY <1>5, <2>2
    <3>2. CASE k = l
      BY <1>3, <3>1, <3>2
    <3>3. CASE k # l
      BY <1>4, <1>6, <3>1, <3>3
    <3> QED
      BY <3>2, <3>3
  <2> QED
    BY <2>1, <2>2
<1>8. ASSUME NEW c \in Clusters, d.fat[c] # FREE \/ c \in ToSet(x) PROVE e.fat[c] # FREE
  <2>1. CASE c \notin ToSet(x)
    BY <1>3, <1>8, <2>1
  <2>2. CASE c \in ToSet(x)
    <3>1. PICK k \in 1 .. l : c = x[k]
      BY <1>5, <2>2
    <3> QED
      BY <1>3, <1>4, <1>6, <3>1, ClustersAre, SMTT(30)
  <2> QED
    BY <2>1, <2>2
<1>9. \A q \in Places : Holds(e, q) => Holds(d, q) /\ In(e, q) = In(d, q)
  <2> SUFFICES ASSUME NEW q \in Places, Holds(e, q) PROVE Holds(d, q) /\ In(e, q) = In(d, q)
    OBVIOUS
  <2>1. q[1] \in Clusters
    BY DEF Places
  <2>2. CASE q[1] \in ToSet(x)
    BY <1>3, <2>2 DEF Holds
  <2>3. CASE q[1] \notin ToSet(x)
    BY <1>3, <2>1, <2>3 DEF Holds, In
  <2> QED
    BY <2>2, <2>3
<1>10. Starts(d) \subseteq Starts(e)
  <2> SUFFICES ASSUME NEW c \in Starts(d) PROVE c \in Starts(e)
    OBVIOUS
  <2>1. c \in Clusters /\ d.fat[c] # FREE /\ \A b \in Clusters : d.fat[b] # c
    BY DEF Starts, Heads
  <2>2. \A b \in Clusters : e.fat[b] # c
    BY <1>7, <2>1, ClustersAre
  <2> QED
    BY <1>8, <2>1, <2>2 DEF Starts, Heads
<1>11. OneWayIn(e)
  <2> SUFFICES ASSUME NEW a \in Clusters, NEW b \in Clusters, e.fat[a] \in Clusters, e.fat[b] = e.fat[a]
               PROVE  b = a
    BY DEF OneWayIn
  <2>1. \A c \in Clusters : e.fat[c] # d.fat[c] /\ e.fat[c] \in Clusters
                              => d.fat[e.fat[c]] = FREE /\ c \in ToSet(x)
    BY <1>3, <1>7, ClustersAre
  <2>2. \A c \in Clusters : e.fat[c] = d.fat[c] /\ e.fat[c] \in Clusters => d.fat[e.fat[c]] # FREE
    BY DEF Sound
  <2>3. CASE e.fat[a] = d.fat[a]
    <3>1. e.fat[b] = d.fat[b]
      BY <2>1, <2>2, <2>3
    <3> QED
      BY <2>3, <3>1 DEF Sound, OneWayIn
  <2>4. CASE e.fat[a] # d.fat[a]
    <3>1. a \in ToSet(x) /\ b \in ToSet(x)
      BY <2>1, <2>2, <2>4
    <3>2. PICK i \in 1 .. l, j \in 1 .. l : a = x[i] /\ b = x[j]
      BY <1>5, <3>1
    <3>3. i # l /\ j # l
      BY <1>3, <3>2, ClustersAre
    <3>4. i + 1 \in 1 .. l /\ j + 1 \in 1 .. l /\ x[i + 1] = x[j + 1]
      BY <1>6, <3>2, <3>3
    <3>5. i + 1 = j + 1
      BY <1>2, <3>4
    <3> QED
      BY <3>2, <3>5
  <2> QED
    BY <2>3, <2>4
<1>12. ASSUME NEW c \in Clusters, e.fat[c] \in Clusters
       PROVE  e.fat[c] # RootClus /\ e.fat[e.fat[c]] # FREE
  <2>1. CASE e.fat[c] = d.fat[c]
    BY <1>8, <1>12, <2>1 DEF Sound
  <2>2. CASE e.fat[c] # d.fat[c]
    <3>1. d.fat[e.fat[c]] = FREE
      BY <1>7, <1>12, <2>2, ClustersAre
    <3>2. c \in ToSet(x)
      BY <1>3, <2>2
    <3>3. PICK k \in 1 .. l : c = x[k]
      BY <1>5, <3>2
    <3>4. k # l
      BY <1>3, <1>12, <3>3, ClustersAre
    <3>5. k + 1 \in 1 .. l /\ e.fat[c] = x[k + 1]
      BY <1>6, <3>3, <3>4
    <3>6. e.fat[c] \in ToSet(x)
      BY <1>2, <3>5, PositionIs
    <3> QED
      BY <1>8, <1>12, <3>1, <3>6 DEF Sound
  <2> QED
    BY <2>1, <2>2
<1>13. e.fat[RootClus] # FREE
  BY <1>8, ClustersAre DEF Sound
<1>14. \A q \in Places : Holds(e, q) => In(e, q).clus \in Starts(e) \ {RootClus}
  BY <1>9, <1>10 DEF Sound
<1>15. \A q, r \in Places :
         Holds(e, q) /\ Holds(e, r) /\ In(e, q).clus = In(e, r).clus => q = r
  BY <1>9 DEF Sound
<1>16. Sound(e)
  BY <1>3, <1>11, <1>12, <1>13, <1>14, <1>15 DEF Sound
<1> QED
  BY <1>1, <1>10, <1>16

(* The directory of a path is not what the path names.                     *)
LEMMA ParentIsAnother ==
  ASSUME NEW d, Sound(d), NEW p \in ProperPaths, Exists(d, p)
  PROVE  Parent(d, p) # Dirent(d, p).clus
<1>1. PICK f, w : f = Front(p) /\ w = Parent(d, p)
  OBVIOUS
<1>2. f \in Seq(Names) /\ w = Walk(d, f) /\ f # p
  <2>1. f \in Seq(Names) /\ Len(p) \in Nat /\ Len(f) = Len(p) - 1
    BY <1>1, PathIs
  <2>2. f # p
    BY <2>1
  <2> QED
    BY <1>1, <2>1, <2>2, ParentType
<1>3. w \in Starts(d) /\ w # 0 /\ Dirent(d, p).clus # RootClus
  BY <1>1, EntryIs, ClustersAre DEF Starts, Heads
<1>4. CASE f = << >>
  BY <1>1, <1>2, <1>3, <1>4, WalkOfNone
<1>5. CASE f # << >>
  <2>1. f \in ProperPaths /\ Walk(d, f) # 0
    BY <1>2, <1>3, <1>5 DEF ProperPaths
  <2>2. Exists(d, f) /\ w = Dirent(d, f).clus
    BY <1>2, <2>1, WalkIs
  <2>3. Dirent(d, f).clus # Dirent(d, p).clus
    BY <1>2, <2>1, <2>2, OnePath
  <2> QED
    BY <1>1, <2>2, <2>3
<1> QED
  BY <1>4, <1>5

LEMMA ResizedType ==
  ASSUME NEW v \in Contents, v.kind = "entry", NEW n \in Nat
  PROVE  LET r == [v EXCEPT !.size = n]
         IN  r \in Contents /\ r.clus = v.clus
<1>1. v \in [kind : {"entry"}, name : Names, dir : BOOLEAN, clus : Clusters, size : Nat]
  BY DEF Contents, End, Deleted
<1> QED
  BY <1>1 DEF Contents

LEMMA OverwriteSound ==
  ASSUME NEW d, Sound(d), NEW p \in ProperPaths, Exists(d, p), NEW t \in Texts, NEW n \in Nat
  PROVE  Sound(Overwrite(d, p, t, n))
<1>1. PICK x, c, s, w, u, h, q :
        /\ x = Extent(d, p, n) /\ c = Dirent(d, p).clus /\ s = Chain(d, c)
        /\ w = Parent(d, p) /\ u = Chain(d, w) /\ h = Min(Hits(d, p)) /\ q = Spot(d, p)
  OBVIOUS
<1>2. /\ w \in Starts(d) /\ q \in Places /\ Holds(d, q) /\ Dirent(d, p) = In(d, q)
      /\ c \in Starts(d) \ {RootClus} /\ w # c /\ h \in DOMAIN Along(d, w) /\ q = PlaceIn(u, h)
  BY <1>1, EntryIs, ParentIsAnother DEF Spot, Listing
<1>3. /\ x \in Seq(Clusters) /\ Len(x) \in Nat
      /\ \A i, j \in 1 .. Len(x) : x[i] = x[j] => i = j
      /\ \A k \in 1 .. Len(x) : Follows(d, x, k) \/ k = 1
      /\ \A k \in 1 .. Len(x) : d.fat[x[k]] = FREE \/ \E i \in 1 .. Len(s) : x[k] = s[i]
  BY <1>1, ExtentIs
<1>4. PICK e : e = Filled(d, x, t, n)
  OBVIOUS
<1>5. Sound(e)
  <2>1. Sound(Filled(d, x, t, n))
    BY <1>3, FilledSound
  <2> QED
    BY <1>4, <2>1
<1>6. \A b \in Clusters : b \notin ToSet(x) => e.fat[b] = d.fat[b] /\ e.cells[b] = d.cells[b]
  <2>1. d \in Disks
    BY DEF Sound
  <2>2. \A b \in Clusters : b \notin ToSet(x) => /\ Filled(d, x, t, n).fat[b] = d.fat[b]
                                              /\ Filled(d, x, t, n).cells[b] = d.cells[b]
    BY <1>3, <2>1, FilledIs, SMTT(60)
  <2> QED
    BY <1>4, <2>2
(* The directory is none of the clusters that were written.                *)
<1>7. /\ IsChain(d, w, u) /\ u \in Seq(Clusters) /\ Len(u) \in Nat
      /\ \A i \in 1 .. Len(u) : u[i] \in Clusters /\ d.fat[u[i]] # FREE
  BY <1>1, <1>2, StartHasChain
<1>8. \A i \in 1 .. Len(u) : u[i] \notin ToSet(x)
  <2> SUFFICES ASSUME NEW i \in 1 .. Len(u), u[i] \in ToSet(x) PROVE FALSE
    OBVIOUS
  <2>1. PICK k \in 1 .. Len(x) : u[i] = x[k]
    BY <1>3, PositionIs
  <2>2. PICK j \in 1 .. Len(s) : u[i] = s[j]
    BY <1>3, <1>7, <2>1
  <2>3. IsChain(d, c, s) /\ c \in Heads(d) /\ w \in Heads(d)
    BY <1>1, <1>2, StartHasChain DEF Starts
  <2> QED
    BY <1>2, <1>7, <2>2, <2>3, PathsMeet DEF IsChain, Sound
<1>9. Chain(e, w) = u
  <2>1. \A i \in 1 .. Len(u) : e.fat[u[i]] = d.fat[u[i]]
    BY <1>6, <1>7, <1>8
  <2> QED
    BY <1>7, <2>1, SameChain
<1>10. q[1] \in Clusters /\ q[1] \notin ToSet(x)
  <2>1. (h \div Cells) + 1 \in 1 .. Len(u)
    BY <1>1, <1>2, <1>7, AlongIs DEF Sound
  <2>2. q[1] = u[(h \div Cells) + 1]
    BY <1>2 DEF PlaceIn
  <2> QED
    BY <1>7, <1>8, <2>1, <2>2
<1>11. Holds(e, q) /\ In(e, q) = In(d, q)
  BY <1>2, <1>6, <1>10 DEF Holds, In
<1>12. PICK v : v = [Dirent(d, p) EXCEPT !.size = n]
  OBVIOUS
<1>13. v \in Contents /\ v.clus = c
  <2>1. In(d, q) \in Contents /\ In(d, q).kind = "entry"
    <3>1. d.cells \in [Clusters -> [0 .. Cells - 1 -> Contents]]
      BY DiskIs DEF Sound
    <3> QED
      BY <1>2, <3>1 DEF In, Holds, Places
  <2>2. PICK o \in Contents : o = Dirent(d, p) /\ o.kind = "entry"
    BY <1>2, <2>1
  <2>3. [o EXCEPT !.size = n] \in Contents /\ [o EXCEPT !.size = n].clus = o.clus
    BY <2>2, ResizedType
  <2> QED
    BY <1>1, <1>12, <2>2, <2>3
<1>14. c \in Starts(e) \ {RootClus} /\ \A r \in Places : Holds(e, r) /\ In(e, r).clus = c => r = q
  BY <1>1, <1>2, <1>5, <1>11 DEF Sound
<1>15. Sound(Put(e, q, v))
  BY <1>2, <1>5, <1>13, <1>14, PutSound
<1>16. Overwrite(d, p, t, n) = Put(e, q, v)
  <2>1. Overwrite(d, p, t, n) = SetCell(e, w, h, v)
    BY <1>1, <1>4, <1>12 DEF Overwrite
  <2>2. SetCell(e, w, h, v) = Put(e, PlaceIn(u, h), v)
    BY <1>9, PutAtIs DEF SetCell
  <2> QED
    BY <1>2, <2>1, <2>2
<1> QED
  BY <1>15, <1>16

LEMMA WriteToSound ==
  ASSUME NEW d, Sound(d), NEW p \in ProperPaths, NEW t \in Texts, NEW n \in Nat
  PROVE  Sound(WriteTo(d, p, t, n))
<1>1. PICK e : e = Created(d, p, FALSE)
  OBVIOUS
<1>2. Sound(e)
  BY <1>1, CreatedSound
<1>3. Sound(PutInto(e, p, t, n))
  BY <1>2, OverwriteSound DEF PutInto
<1> QED
  BY <1>1, <1>3 DEF WriteTo

-----------------------------------------------------------------------------
(* fat32_delete.                                                           *)
LEMMA UnlinkedSound ==
  ASSUME NEW d, Sound(d), NEW c \in Starts(d) \ {RootClus}, Unheld(d, c)
  PROVE  Sound(Unlinked(d, Chain(d, c)))
<1>1. PICK s, e : s = Chain(d, c) /\ e = Unlinked(d, s)
  OBVIOUS
<1>2. PICK l \in Nat : l = Len(s)
  BY <1>1, StartHasChain
<1>3. /\ IsChain(d, c, s) /\ s \in Seq(Clusters) /\ s[1] = c
      /\ \A i \in 1 .. l : s[i] \in Clusters
  BY <1>1, <1>2, StartHasChain
<1>4. /\ d = [fat |-> d.fat, cells |-> d.cells]
      /\ d.fat \in [Clusters -> {FREE, EOC} \cup Clusters]
      /\ d.cells \in [Clusters -> [0 .. Cells - 1 -> Contents]]
  BY DiskIs DEF Sound
<1>5. ToSet(s) = {s[i] : i \in 1 .. l}
  BY <1>2, <1>3, LenProperties DEF ToSet
<1>6. /\ e = [fat |-> e.fat, cells |-> e.cells] /\ e.cells = d.cells
      /\ e.fat = [b \in Clusters |-> IF b \in ToSet(s) THEN FREE ELSE d.fat[b]]
  BY <1>1, <1>4 DEF Unlinked
<1>7. /\ \A b \in Clusters : b \in ToSet(s) => e.fat[b] = FREE
      /\ \A b \in Clusters : b \notin ToSet(s) => e.fat[b] = d.fat[b]
      /\ e.fat \in [Clusters -> {FREE, EOC} \cup Clusters]
  BY <1>4, <1>6
(* The chain is entered at its first cluster only.                         *)
<1>8. ASSUME NEW i \in 1 .. l, i # 1
      PROVE  s[i - 1] \in ToSet(s) /\ s[i - 1] \in Clusters /\ d.fat[s[i - 1]] = s[i]
  <2>1. i - 1 \in 1 .. l /\ i - 1 \in 1 .. Len(s) - 1 /\ (i - 1) + 1 = i
    BY <1>2, <1>8
  <2>2. d.fat[s[i - 1]] = s[i]
    BY <1>3, <2>1 DEF IsChain, Path
  <2> QED
    BY <1>3, <1>5, <2>1, <2>2
<1>9. ASSUME NEW b \in Clusters, b \notin ToSet(s), d.fat[b] \in Clusters PROVE d.fat[b] \notin ToSet(s)
  <2> SUFFICES ASSUME NEW i \in 1 .. l, d.fat[b] = s[i] PROVE FALSE
    BY <1>5
  <2>1. CASE i = 1
    BY <1>3, <2>1 DEF Starts, Heads
  <2>2. CASE i # 1
    BY <1>8, <1>9, <2>2 DEF Sound, OneWayIn
  <2> QED
    BY <2>1, <2>2
<1>10. RootClus \notin ToSet(s)
  <2> SUFFICES ASSUME NEW i \in 1 .. l, RootClus = s[i] PROVE FALSE
    BY <1>5
  <2>1. CASE i = 1
    BY <1>3, <2>1
  <2>2. CASE i # 1
    BY <1>3, <1>8, <2>2 DEF Sound
  <2> QED
    BY <2>1, <2>2
<1>11. ASSUME NEW b \in Starts(d), b # c PROVE b \notin ToSet(s)
  <2> SUFFICES ASSUME NEW i \in 1 .. l, b = s[i] PROVE FALSE
    BY <1>5
  <2>1. i # 1
    BY <1>3, <1>11
  <2> QED
    BY <1>8, <2>1 DEF Starts, Heads
<1>12. Starts(d) \ {c} \subseteq Starts(e)
  <2> SUFFICES ASSUME NEW b \in Starts(d) \ {c} PROVE b \in Starts(e)
    OBVIOUS
  <2>1. b \in Clusters /\ b \notin ToSet(s) /\ d.fat[b] # FREE /\ \A a \in Clusters : d.fat[a] # b
    BY <1>11 DEF Starts, Heads
  <2>2. \A a \in Clusters : e.fat[a] # b
    BY <1>7, <2>1, ClustersAre
  <2> QED
    BY <1>7, <2>1, <2>2 DEF Starts, Heads
<1>13. e \in Disks
  BY <1>4, <1>6, <1>7 DEF Disks
<1>14. OneWayIn(e)
  <2>1. \A b \in Clusters : e.fat[b] \in Clusters => e.fat[b] = d.fat[b]
    BY <1>7, ClustersAre
  <2> QED
    BY <2>1 DEF Sound, OneWayIn
<1>15. \A b \in Clusters : e.fat[b] \in Clusters => e.fat[b] # RootClus /\ e.fat[e.fat[b]] # FREE
  <2> SUFFICES ASSUME NEW b \in Clusters, e.fat[b] \in Clusters
               PROVE  e.fat[b] # RootClus /\ e.fat[e.fat[b]] # FREE
    OBVIOUS
  <2>1. b \notin ToSet(s) /\ e.fat[b] = d.fat[b]
    BY <1>7, ClustersAre
  <2>2. d.fat[b] \notin ToSet(s)
    BY <1>9, <2>1
  <2> QED
    BY <1>7, <2>1, <2>2 DEF Sound
<1>16. e.fat[RootClus] # FREE
  BY <1>7, <1>10, ClustersAre DEF Sound
<1>17. \A q \in Places : Holds(e, q) => Holds(d, q) /\ In(e, q) = In(d, q)
  BY <1>6, <1>7 DEF Holds, In, Places
<1>18. \A q \in Places : Holds(e, q) => In(e, q).clus \in Starts(e) \ {RootClus}
  BY <1>12, <1>17 DEF Sound, Unheld
<1>19. \A q, r \in Places :
         Holds(e, q) /\ Holds(e, r) /\ In(e, q).clus = In(e, r).clus => q = r
  BY <1>17 DEF Sound
<1>20. Sound(e)
  BY <1>13, <1>14, <1>15, <1>16, <1>18, <1>19 DEF Sound
<1> QED
  BY <1>1, <1>20

LEMMA ErasedSound ==
  ASSUME NEW d, Sound(d), NEW p \in ProperPaths, Exists(d, p)
  PROVE  Sound(Erased(d, p))
<1>1. PICK c, q, b : c = Dirent(d, p).clus /\ q = Spot(d, p) /\ b = Put(d, q, Deleted)
  OBVIOUS
<1>2. /\ q \in Places /\ Holds(d, q) /\ In(d, q).clus = c /\ c \in Starts(d) \ {RootClus}
  BY <1>1, EntryIs
<1>3. Sound(b) /\ b.fat = d.fat /\ Starts(b) = Starts(d)
  BY <1>1, <1>2, MarksAre, PutSound
<1>4. Unheld(b, c)
  <2>1. In(b, q) = Deleted /\ \A r \in Places : r # q => In(b, r) = In(d, r)
    BY <1>1, <1>2, MarksAre, PutIs DEF Sound
  <2> QED
    BY <1>2, <1>3, <2>1, MarksAre DEF Unheld, Holds, Sound
<1>5. Chain(b, c) = Chain(d, c)
  <2>1. IsChain(d, c, Chain(d, c))
    BY <1>2, StartHasChain
  <2> QED
    BY <1>3, <2>1, SameChain
<1>6. Sound(Unlinked(b, Chain(b, c)))
  BY <1>2, <1>3, <1>4, UnlinkedSound
<1>7. Erased(d, p) = Unlinked(b, Chain(b, c))
  <2>1. SetCell(d, Parent(d, p), Min(Hits(d, p)), Deleted) = b
    BY <1>1, PutAtIs DEF SetCell, Spot
  <2>2. PICK s : s = Chain(d, c)
    OBVIOUS
  <2>3. Erased(d, p) = [Unlinked(d, s) EXCEPT !.cells = b.cells]
    BY <1>1, <2>1, <2>2 DEF Erased
  <2>4. /\ d = [fat |-> d.fat, cells |-> d.cells] /\ b = [fat |-> b.fat, cells |-> b.cells]
    BY <1>3, DiskIs DEF Sound
  <2>5. [Unlinked(d, s) EXCEPT !.cells = b.cells] = Unlinked(b, s)
    BY <1>3, <2>4 DEF Unlinked
  <2> QED
    BY <1>5, <2>2, <2>3, <2>5
<1> QED
  BY <1>6, <1>7

-----------------------------------------------------------------------------
(* What a call leaves alone.  Chains that begin at different clusters have *)
(* none in common, so a change to one of them does not show in another.    *)
LEMMA ChainsApart ==
  ASSUME NEW d, Sound(d), NEW u \in Starts(d), NEW w \in Starts(d), u # w,
         NEW i \in 1 .. Len(Chain(d, u)), NEW j \in 1 .. Len(Chain(d, w))
  PROVE  Chain(d, u)[i] # Chain(d, w)[j]
<1>1. PICK s, t : s = Chain(d, u) /\ t = Chain(d, w)
  OBVIOUS
<1>2. IsChain(d, u, s) /\ IsChain(d, w, t)
  BY <1>1, StartHasChain
<1> QED
  BY <1>1, <1>2, PathsMeet DEF IsChain, Starts, Sound

LEMMA Untouched ==
  ASSUME NEW d, Sound(d), NEW e, NEW u \in Starts(d),
         \A i \in 1 .. Len(Chain(d, u)) :
           e.fat[Chain(d, u)[i]] = d.fat[Chain(d, u)[i]] /\ e.cells[Chain(d, u)[i]] = d.cells[Chain(d, u)[i]]
  PROVE  Chain(e, u) = Chain(d, u) /\ Along(e, u) = Along(d, u)
<1>1. PICK s : s = Chain(d, u)
  OBVIOUS
<1>2. IsChain(d, u, s) /\ s \in Seq(Clusters)
  BY <1>1, StartHasChain
<1>3. Chain(e, u) = s
  <2>1. \A i \in 1 .. Len(s) : e.fat[s[i]] = d.fat[s[i]]
    BY <1>1
  <2>2. IsChain(d, u, s)
    BY <1>2
  <2>3. IsChain(e, u, s) /\ Chain(e, u) = s
    BY <2>1, <2>2, SameChain, SMTT(60)
  <2> QED
    BY <2>3
<1>4. PICK l \in Nat, w \in Nat \ {0} : l = Len(s) /\ w = Cells
  BY <1>2, Fat32Assumption, LenProperties
<1>5. ASSUME NEW n \in 0 .. l * w - 1
      PROVE  e.cells[s[(n \div w) + 1]][n % w] = d.cells[s[(n \div w) + 1]][n % w]
  <2>1. PICK k \in 1 .. l : k = (n \div w) + 1
    BY Rows
  <2>2. e.cells[s[k]] = d.cells[s[k]]
    BY <1>1, <1>4
  <2> QED
    BY <2>1, <2>2
<1>6. Spread(e, s) = Spread(d, s)
  <2>1. /\ Spread(e, s) = [n \in 0 .. l * w - 1 |-> e.cells[s[(n \div w) + 1]][n % w]]
        /\ Spread(d, s) = [n \in 0 .. l * w - 1 |-> d.cells[s[(n \div w) + 1]][n % w]]
    BY <1>4 DEF Spread
  <2> QED
    BY <1>5, <2>1
<1> QED
  BY <1>1, <1>3, <1>6 DEF Along

(* Different places of a listing are different cells.                      *)
LEMMA RowAndColumn ==
  ASSUME NEW w \in Nat \ {0}, NEW m \in Nat, NEW n \in Nat, m \div w = n \div w, m % w = n % w
  PROVE  m = n
<1>1. m = w * (m \div w) + (m % w) /\ n = w * (n \div w) + (n % w)
  OBVIOUS
<1> QED
  BY <1>1

LEMMA PlacesDiffer ==
  ASSUME NEW d, Sound(d), NEW w \in Starts(d), NEW m \in DOMAIN Along(d, w), NEW n \in DOMAIN Along(d, w),
         PlaceIn(Chain(d, w), m) = PlaceIn(Chain(d, w), n)
  PROVE  m = n
<1>1. PICK s : s = Chain(d, w)
  OBVIOUS
<1>2. s \in Seq(Clusters) /\ \A i, j \in 1 .. Len(s) : s[i] = s[j] => i = j
  BY <1>1, StartHasChain
<1>3. /\ DOMAIN Along(d, w) = 0 .. Len(s) * Cells - 1
      /\ \A k \in DOMAIN Along(d, w) : (k \div Cells) + 1 \in 1 .. Len(s)
  BY <1>1, <1>2, AlongIs DEF Sound
<1>4. PICK v \in Nat \ {0} : v = Cells
  BY Fat32Assumption
<1>5. m \in Nat /\ n \in Nat
  BY <1>3
<1>6. s[(m \div v) + 1] = s[(n \div v) + 1] /\ m % v = n % v
  BY <1>1, <1>4 DEF PlaceIn
<1>7. (m \div v) + 1 = (n \div v) + 1
  BY <1>2, <1>3, <1>4, <1>6
<1>8. m \div v = n \div v
  BY <1>4, <1>5, <1>7
<1> QED
  BY <1>4, <1>5, <1>6, <1>8, RowAndColumn

(* One cell of a directory is written.                                     *)
LEMMA PutShows ==
  ASSUME NEW d, Sound(d), NEW w \in Starts(d), NEW n \in DOMAIN Along(d, w), NEW v \in Contents
  PROVE  LET e == Put(d, PlaceIn(Chain(d, w), n), v)
         IN  /\ Chain(e, w) = Chain(d, w)
             /\ Along(e, w) = [Along(d, w) EXCEPT ![n] = v]
             /\ \A u \in Starts(d) : u # w => Chain(e, u) = Chain(d, u) /\ Along(e, u) = Along(d, u)
<1>1. PICK s, q, e : s = Chain(d, w) /\ q = PlaceIn(s, n) /\ e = Put(d, q, v)
  OBVIOUS
<1>2. /\ IsChain(d, w, s) /\ s \in Seq(Clusters) /\ d \in Disks
      /\ \A i \in 1 .. Len(s) : s[i] \in Clusters
  BY <1>1, StartHasChain DEF Sound
<1>3. /\ DOMAIN Along(d, w) = 0 .. Len(s) * Cells - 1
      /\ \A k \in DOMAIN Along(d, w) :
           /\ Along(d, w)[k] = In(d, PlaceIn(s, k)) /\ PlaceIn(s, k) \in Places
           /\ (k \div Cells) + 1 \in 1 .. Len(s)
  BY <1>1, <1>2, AlongIs
<1>4. /\ e \in Disks /\ e.fat = d.fat /\ In(e, q) = v
      /\ \A r \in Places : r # q => In(e, r) = In(d, r)
  BY <1>1, <1>2, <1>3, PutIs
<1>5. Chain(e, w) = s
  BY <1>2, <1>4, SameChain
<1>6. Along(e, w) = [Along(d, w) EXCEPT ![n] = v]
  <2>1. PICK x, y : x = Along(e, w) /\ y = Along(d, w)
    OBVIOUS
  <2>2. /\ DOMAIN x = DOMAIN y
        /\ \A k \in DOMAIN x : x[k] = In(e, PlaceIn(s, k))
    BY <1>2, <1>3, <1>4, <1>5, <2>1, AlongIs
  <2>3. \A k \in DOMAIN y : k # n => PlaceIn(s, k) # q
    BY <1>1, <2>1, PlacesDiffer
  <2>4. \A k \in DOMAIN y : x[k] = IF k = n THEN v ELSE y[k]
    BY <1>1, <1>3, <1>4, <2>1, <2>2, <2>3
  <2>5. x = [k \in DOMAIN x |-> x[k]] /\ y = [k \in DOMAIN y |-> y[k]]
    BY <2>1 DEF Along, Spread
  <2> QED
    BY <2>1, <2>2, <2>4, <2>5
<1>7. ASSUME NEW u \in Starts(d), u # w
      PROVE  Chain(e, u) = Chain(d, u) /\ Along(e, u) = Along(d, u)
  <2>1. q[1] = s[(n \div Cells) + 1] /\ (n \div Cells) + 1 \in 1 .. Len(s)
    BY <1>1, <1>3 DEF PlaceIn
  <2>2. PICK t : t = Chain(d, u) /\ \A i \in 1 .. Len(t) : t[i] \in Clusters
    BY StartHasChain
  <2>3. \A i \in 1 .. Len(t) : t[i] # q[1]
    BY <1>1, <1>7, <2>1, <2>2, ChainsApart
  <2>4. \A c \in Clusters : c # q[1] => e.cells[c] = d.cells[c]
    <3>1. d.cells \in [Clusters -> [0 .. Cells - 1 -> Contents]]
      BY <1>2, DiskIs
    <3> QED
      BY <1>1, <3>1 DEF Put
  <2>5. \A i \in 1 .. Len(t) : e.fat[t[i]] = d.fat[t[i]] /\ e.cells[t[i]] = d.cells[t[i]]
    BY <1>4, <2>2, <2>3, <2>4
  <2> QED
    BY <2>2, <2>5, Untouched
<1> QED
  BY <1>1, <1>5, <1>6, <1>7

-----------------------------------------------------------------------------
(* What fat32_create does to the directory, and to all others.             *)
LEMMA ClaimShows ==
  ASSUME NEW d, Sound(d), NEW c \in Clusters, d.fat[c] = FREE, NEW u \in Starts(d)
  PROVE  Chain(Claim(d, c), u) = Chain(d, u) /\ Along(Claim(d, c), u) = Along(d, u)
<1>1. PICK e, s : e = Claim(d, c) /\ s = Chain(d, u)
  OBVIOUS
<1>2. \A i \in 1 .. Len(s) : s[i] \in Clusters /\ s[i] # c
  BY <1>1, StartHasChain
<1>3. /\ d.fat \in [Clusters -> {FREE, EOC} \cup Clusters]
      /\ d.cells \in [Clusters -> [0 .. Cells - 1 -> Contents]]
  BY DiskIs DEF Sound
<1>4. \A i \in 1 .. Len(s) : e.fat[s[i]] = d.fat[s[i]] /\ e.cells[s[i]] = d.cells[s[i]]
  BY <1>1, <1>2, <1>3 DEF Claim
<1> QED
  BY <1>1, <1>4, Untouched

(* The entry is in the first vacant cell, or behind all cells; the listing *)
(* goes on as it did or ends there.                                        *)
Gains(old, new, n, ent) ==
  /\ n \in Nat /\ 0 .. n \subseteq DOMAIN new /\ DOMAIN old \subseteq DOMAIN new
  /\ DOMAIN new \subseteq Nat
  /\ new[n] = ent
  /\ \A m \in 0 .. n - 1 : m \in DOMAIN old /\ new[m] = old[m] /\ old[m] \notin {End, Deleted}
  /\ n \in DOMAIN old => old[n] \in {End, Deleted}
  /\ \/ n + 1 \in DOMAIN new /\ new[n + 1] = End
     \/ \A m \in DOMAIN new : m > n => m \in DOMAIN old /\ new[m] = old[m]

LEMMA CellBehindIs ==
  ASSUME NEW w \in Nat \ {0}, NEW l \in Nat, NEW n \in 0 .. l * w - 1, (n % w) + 1 < w
  PROVE  n + 1 \in 0 .. l * w - 1
<1>1. PICK k \in Nat, r \in 0 .. w - 1 : k = n \div w /\ r = n % w /\ n = w * k + r
  OBVIOUS
<1>2. k + 1 \in 1 .. l
  BY <1>1, Rows
<1>3. PICK x \in Nat : l = (k + 1) + x
  <2>1. l - (k + 1) \in Nat
    BY <1>2
  <2> QED
    BY <2>1
<1>4. l * w = (w * k + w) + w * x /\ w * x \in Nat /\ w * k \in Nat
  BY <1>1, <1>3
<1>5. PICK a \in Nat, b \in Nat, g \in Nat : a = w * k /\ b = w * x /\ g = l * w
  <2>1. w * k \in Nat /\ w * x \in Nat /\ l * w \in Nat
    BY <1>4
  <2> QED
    BY <2>1
<1>6. n = a + r /\ r + 1 < w /\ g = (a + w) + b
  BY <1>1, <1>4, <1>5
<1>7. n + 1 \in 0 .. g - 1
  BY <1>1, <1>5, <1>6
<1> QED
  BY <1>5, <1>7

LEMMA PlacedShows ==
  ASSUME NEW d, Sound(d), NEW w \in Starts(d), Vacancies(Along(d, w)) # {},
         NEW n, n = Min(Vacancies(Along(d, w))),
         NEW ent \in Contents, ent.kind = "entry", ent.clus \in Starts(d) \ {RootClus},
         Unheld(d, ent.clus)
  PROVE  LET e == Placed(d, w, n, ent)
         IN  /\ Gains(Along(d, w), Along(e, w), n, ent)
             /\ \A u \in Starts(d) : u # w => Chain(e, u) = Chain(d, u) /\ Along(e, u) = Along(d, u)
<1>1. PICK s, b, D : s = Chain(d, w) /\ b = Put(d, PlaceIn(s, n), ent) /\ D = Along(d, w)
  OBVIOUS
<1>2. PICK l \in Nat, v \in Nat \ {0} : l = Len(s) /\ v = Cells
  BY <1>1, StartHasChain, Fat32Assumption
<1>3. /\ IsChain(d, w, s) /\ s \in Seq(Clusters)
      /\ DOMAIN D = 0 .. l * v - 1
      /\ \A k \in DOMAIN D : PlaceIn(s, k) \in Places
  <2>1. IsChain(d, w, s) /\ s \in Seq(Clusters) /\ d \in Disks
    BY <1>1, StartHasChain DEF Sound
  <2>2. /\ DOMAIN D = 0 .. Len(s) * Cells - 1
        /\ \A k \in DOMAIN D : PlaceIn(s, k) \in Places
    BY <1>1, <2>1, AlongIs
  <2> QED
    BY <1>2, <2>1, <2>2
<1>4. /\ n \in DOMAIN D /\ n \in Nat /\ D[n] \in {End, Deleted}
      /\ \A m \in 0 .. n - 1 : m \in DOMAIN D /\ D[m] \notin {End, Deleted}
  <2>1. PICK V : V = Vacancies(D)
    OBVIOUS
  <2>2. V = {k \in 0 .. l * v - 1 : D[k] \in {End, Deleted}} /\ V \subseteq Nat
    BY <1>3, <2>1 DEF Vacancies
  <2>3. n \in V /\ \A k \in V : n <= k
    BY <1>1, <2>1, <2>2, LeastIs
  <2>4. l * v \in Nat
    OBVIOUS
  <2>5. \A m \in 0 .. n - 1 : m \in 0 .. l * v - 1 /\ m \notin V
    BY <2>2, <2>3, <2>4
  <2> QED
    BY <1>3, <2>2, <2>3, <2>5
<1>5. /\ Sound(b) /\ b.fat = d.fat /\ Starts(b) = Starts(d)
      /\ Chain(b, w) = s /\ Along(b, w) = [D EXCEPT ![n] = ent]
      /\ \A u \in Starts(d) : u # w => Chain(b, u) = Chain(d, u) /\ Along(b, u) = Along(d, u)
  <2>1. \A r \in Places : ~(Holds(d, r) /\ In(d, r).clus = ent.clus)
    BY DEF Unheld
  <2>2. PlaceIn(s, n) \in Places
    BY <1>3, <1>4
  <2>3. Sound(b) /\ b.fat = d.fat /\ Starts(b) = Starts(d)
    BY <1>1, <2>1, <2>2, PutSound
  <2> QED
    BY <1>1, <1>4, <2>3, PutShows
<1>6. SetCell(d, w, n, ent) = b
  BY <1>1, PutAtIs DEF SetCell
<1>7. DOMAIN D \subseteq Nat /\ 0 .. n \subseteq DOMAIN D
  BY <1>3, <1>4
<1>8. CASE (n % Cells) + 1 < Cells
  <2>1. n + 1 \in DOMAIN D
    BY <1>2, <1>3, <1>4, <1>8, CellBehindIs
  <2>2. PICK e : e = Put(b, PlaceIn(s, n + 1), End)
    OBVIOUS
  <2>3. PICK B : B = Along(b, w)
    OBVIOUS
  <2>4. n + 1 \in DOMAIN B
    BY <1>5, <2>1, <2>3
  <2>5. /\ Along(e, w) = [B EXCEPT ![n + 1] = End]
        /\ \A u \in Starts(d) : u # w => Chain(e, u) = Chain(b, u) /\ Along(e, u) = Along(b, u)
    <3>1. Sound(b) /\ w \in Starts(b) /\ Starts(b) = Starts(d) /\ n + 1 \in DOMAIN Along(b, w)
      BY <1>5, <2>3, <2>4
    <3>2. End \in Contents
      BY MarksAre
    <3>3. PICK q : q = PlaceIn(Chain(b, w), n + 1)
      OBVIOUS
    <3>4. /\ Along(Put(b, q, End), w) = [Along(b, w) EXCEPT ![n + 1] = End]
          /\ \A u \in Starts(b) : u # w => /\ Chain(Put(b, q, End), u) = Chain(b, u)
                                         /\ Along(Put(b, q, End), u) = Along(b, u)
      BY <3>1, <3>2, <3>3, PutShows
    <3> QED
      BY <1>5, <2>2, <2>3, <3>1, <3>3, <3>4
  <2>6. Placed(d, w, n, ent) = e
    <3>1. SetCell(b, w, n + 1, End) = e
      BY <1>5, <2>2, PutAtIs DEF SetCell
    <3> QED
      BY <1>6, <1>8, <3>1 DEF Placed
  <2>7. PICK E : E = [B EXCEPT ![n + 1] = End]
    OBVIOUS
  <2>8. /\ DOMAIN E = DOMAIN D /\ E[n + 1] = End /\ E[n] = ent
        /\ \A m \in 0 .. n - 1 : E[m] = D[m]
    BY <1>4, <1>5, <2>1, <2>3, <2>7
  <2>9. Gains(D, E, n, ent)
    BY <1>4, <1>7, <2>1, <2>8 DEF Gains
  <2> QED
    BY <1>1, <1>5, <2>5, <2>6, <2>7, <2>9
<1>9. CASE ~((n % Cells) + 1 < Cells)
  <2>1. PICK E : E = [D EXCEPT ![n] = ent]
    OBVIOUS
  <2>2. DOMAIN E = DOMAIN D /\ E[n] = ent /\ \A m \in DOMAIN D : m # n => E[m] = D[m]
    BY <1>4, <2>1
  <2>3. /\ \A m \in 0 .. n - 1 : E[m] = D[m]
        /\ \A m \in DOMAIN E : m > n => m \in DOMAIN D /\ E[m] = D[m]
    BY <1>4, <1>7, <2>2
  <2>4. Gains(D, E, n, ent)
    BY <1>4, <1>7, <2>2, <2>3 DEF Gains
  <2>5. Placed(d, w, n, ent) = b
    BY <1>6, <1>9 DEF Placed
  <2> QED
    BY <1>1, <1>5, <2>1, <2>4, <2>5
<1> QED
  BY <1>8, <1>9

LEMMA NoLongerThanDisk ==
  ASSUME NEW s \in Seq(Clusters), \A i, j \in 1 .. Len(s) : s[i] = s[j] => i = j
  PROVE  Len(s) \in Nat /\ Len(s) <= LastClus - 1
<1>1. PICK n \in Nat : n = Len(s)
  BY LenProperties
<1>2. s \in Injection(1 .. n, Clusters)
  <2>1. s \in [1 .. n -> Clusters]
    BY <1>1, LenProperties
  <2> QED
    BY <1>1, <2>1 DEF Injection, IsInjective
<1>3. Cardinality(1 .. n) <= Cardinality(Clusters)
  BY <1>2, ClustersAre, FS_Injection
<1>4. Cardinality(1 .. n) = n
  <2>1. Cardinality(1 .. n) = IF 1 > n THEN 0 ELSE (n - 1) + 1
    BY FS_Interval
  <2> QED
    BY <2>1
<1> QED
  BY <1>1, <1>3, <1>4, ClustersAre

(* The cells of the cluster that is put behind the others.                 *)
LEMMA NewRow ==
  ASSUME NEW w \in Nat, w >= 2, NEW l \in Nat
  PROVE  /\ l * w \in Nat /\ (l + 1) * w = l * w + w
         /\ (l * w) \div w = l /\ (l * w) % w = 0
         /\ (l * w + 1) \div w = l /\ (l * w + 1) % w = 1
<1>1. l * w \in Nat /\ (l + 1) * w = l * w + w
  OBVIOUS
<1>2. (l * w) % w = 0
  <2>1. (w * l + 0) % w = 0
    BY Remainder
  <2> QED
    BY <2>1
<1>3. (w * l + 0) \div w = l /\ (w * l + 1) \div w = l
  OBVIOUS
<1>4. (w * l + 1) % w = 1
  <2>1. 1 \in 0 .. w - 1 /\ w \in Nat \ {0} /\ l \in Int
    OBVIOUS
  <2> QED
    BY <2>1, Remainder
<1> QED
  BY <1>1, <1>2, <1>3, <1>4

LEMMA GrownShows ==
  ASSUME NEW d, Sound(d), NEW w \in Starts(d), Vacancies(Along(d, w)) = {},
         NEW new \in Clusters, d.fat[new] = FREE, NEW ent \in Contents
  PROVE  LET e == Grown(d, w, new, ent)
         IN  /\ \E n : Gains(Along(d, w), Along(e, w), n, ent)
             /\ \A u \in Starts(d) : u # w => Chain(e, u) = Chain(d, u) /\ Along(e, u) = Along(d, u)
<1>1. PICK s, D, e, t : /\ s = Chain(d, w) /\ D = Along(d, w) /\ e = Grown(d, w, new, ent)
                        /\ t = Append(s, new)
  OBVIOUS
<1>2. PICK l \in Nat, v \in Nat : l = Len(s) /\ v = Cells /\ v >= 2 /\ l >= 1
  BY <1>1, StartHasChain, Fat32Assumption
<1>3. /\ IsChain(d, w, s) /\ s \in Seq(Clusters) /\ d \in Disks /\ s[1] = w
      /\ \A i \in 1 .. l : s[i] \in Clusters /\ s[i] # new
      /\ \A i, j \in 1 .. l : s[i] = s[j] => i = j
  BY <1>1, <1>2, StartHasChain DEF Sound
<1>4. /\ DOMAIN D = 0 .. l * v - 1
      /\ \A k \in DOMAIN D : D[k] = In(d, PlaceIn(s, k)) /\ (k \div v) + 1 \in 1 .. l
  BY <1>1, <1>2, <1>3, AlongIs
<1>5. /\ d.fat \in [Clusters -> {FREE, EOC} \cup Clusters]
      /\ d.cells \in [Clusters -> [0 .. v - 1 -> Contents]]
  BY <1>2, <1>3, DiskIs
<1>6. /\ \A c \in Clusters : c # new => e.cells[c] = d.cells[c]
      /\ \A c \in Clusters : c # new /\ c # s[l] => e.fat[c] = d.fat[c]
      /\ e.fat[s[l]] = new /\ e.fat[new] = EOC
      /\ e.cells[new] = [Blank EXCEPT ![0] = ent]
  <2>1. l \in 1 .. l
    BY <1>2
  <2>2. e = [Claim(d, new) EXCEPT !.fat[s[l]] = new, !.cells[new][0] = ent]
    BY <1>1, <1>2 DEF Grown, Last
  <2>3. /\ e.fat = [[d.fat EXCEPT ![new] = EOC] EXCEPT ![s[l]] = new]
        /\ e.cells = [[d.cells EXCEPT ![new] = Blank] EXCEPT ![new][0] = ent]
    BY <2>2 DEF Claim
  <2> QED
    BY <1>3, <1>5, <2>1, <2>3
<1>7. /\ t \in Seq(Clusters) /\ Len(t) = l + 1 /\ t[l + 1] = new /\ \A i \in 1 .. l : t[i] = s[i]
  BY <1>1, <1>2, <1>3, AppendProperties
<1>8. Chain(e, w) = t
  <2>1. ASSUME NEW k \in 1 .. Len(t) - 1 PROVE e.fat[t[k]] = t[k + 1]
    <3>1. k \in 1 .. l
      BY <1>2, <1>7
    <3>2. CASE k = l
      BY <1>6, <1>7, <3>1, <3>2
    <3>3. CASE k # l
      <4>1. k \in 1 .. Len(s) - 1 /\ k + 1 \in 1 .. l /\ l \in 1 .. l
        BY <1>2, <3>1, <3>3
      <4>2. s[k] # s[l] /\ d.fat[s[k]] = s[k + 1]
        BY <1>3, <3>1, <3>3, <4>1 DEF IsChain, Path
      <4> QED
        BY <1>3, <1>6, <1>7, <3>1, <4>1, <4>2
    <3> QED
      BY <3>2, <3>3
  <2>2. t[1] = w /\ Len(t) >= 1
    BY <1>2, <1>3, <1>7
  <2>3. Path(e, w, t)
    BY <1>7, <2>1, <2>2 DEF Path
  <2>4. e.fat[t[Len(t)]] \notin Clusters
    BY <1>6, <1>7, ClustersAre
  <2>5. Len(t) <= LastClus
    <3>1. l <= LastClus - 1
      BY <1>2, <1>3, NoLongerThanDisk
    <3> QED
      BY <1>2, <1>7, <3>1, Fat32Assumption
  <2>6. IsChain(e, w, t)
    BY <2>3, <2>4, <2>5 DEF IsChain
  <2> QED
    BY <2>6, ChainIs
<1>9. PICK E : E = Along(e, w)
  OBVIOUS
<1>10. E = [n \in 0 .. (l + 1) * v - 1 |-> e.cells[t[(n \div v) + 1]][n % v]]
  BY <1>2, <1>7, <1>8, <1>9 DEF Along, Spread
<1>11. PICK n \in Nat : /\ n = l * v /\ (l + 1) * v = n + v
                        /\ n \div v = l /\ n % v = 0 /\ (n + 1) \div v = l /\ (n + 1) % v = 1
  <2>1. l * v \in Nat
    BY <1>2, NewRow
  <2> QED
    BY <1>2, <2>1, NewRow
<1>12. DOMAIN E = 0 .. n + v - 1 /\ DOMAIN D = 0 .. n - 1
  <2>1. DOMAIN E = 0 .. (l + 1) * v - 1
    BY <1>10
  <2> QED
    BY <1>4, <1>11, <2>1
<1>13. n \in DOMAIN E /\ n + 1 \in DOMAIN E
  BY <1>2, <1>11, <1>12
<1>14. E[n] = ent /\ E[n + 1] = End
  <2>1. E[n] = e.cells[t[l + 1]][0] /\ E[n + 1] = e.cells[t[l + 1]][1]
    <3>1. E[n] = e.cells[t[(n \div v) + 1]][n % v]
      BY <1>10, <1>13
    <3>2. E[n + 1] = e.cells[t[((n + 1) \div v) + 1]][(n + 1) % v]
      BY <1>10, <1>13
    <3> QED
      BY <1>11, <3>1, <3>2
  <2>2. 0 \in 0 .. Cells - 1 /\ 1 \in 0 .. Cells - 1
    BY <1>2
  <2> QED
    BY <1>6, <1>7, <2>1, <2>2 DEF Blank
<1>15. ASSUME NEW m \in DOMAIN D PROVE E[m] = D[m]
  <2>1. PICK k \in 1 .. l : k = (m \div v) + 1
    BY <1>4
  <2>2. t[k] = s[k] /\ e.cells[s[k]] = d.cells[s[k]]
    BY <1>3, <1>6, <1>7
  <2>3. m \in DOMAIN E
    BY <1>2, <1>12
  <2>4. E[m] = e.cells[t[k]][m % v]
    BY <1>10, <2>1, <2>3
  <2>5. D[m] = d.cells[s[k]][m % v]
    BY <1>2, <1>4, <2>1 DEF In, PlaceIn
  <2> QED
    BY <2>2, <2>4, <2>5
<1>16. \A m \in DOMAIN D : D[m] \notin {End, Deleted}
  BY <1>1 DEF Vacancies
<1>17. Gains(D, E, n, ent)
  <2>1. 0 .. n \subseteq DOMAIN E /\ DOMAIN D \subseteq DOMAIN E /\ DOMAIN E \subseteq Nat /\ n \notin DOMAIN D
    BY <1>2, <1>11, <1>12
  <2> QED
    BY <1>12, <1>13, <1>14, <1>15, <1>16, <2>1 DEF Gains
<1>18. ASSUME NEW u \in Starts(d), u # w
       PROVE  Chain(e, u) = Chain(d, u) /\ Along(e, u) = Along(d, u)
  <2>1. PICK r : r = Chain(d, u) /\ \A i \in 1 .. Len(r) : r[i] \in Clusters /\ r[i] # new
    BY StartHasChain
  <2>2. l \in 1 .. l
    BY <1>2
  <2>3. \A i \in 1 .. Len(r) : r[i] # s[l]
    BY <1>1, <1>2, <1>18, <2>1, <2>2, ChainsApart
  <2>4. \A i \in 1 .. Len(r) : e.fat[r[i]] = d.fat[r[i]] /\ e.cells[r[i]] = d.cells[r[i]]
    BY <1>6, <2>1, <2>3
  <2> QED
    BY <2>1, <2>4, Untouched
<1> QED
  BY <1>1, <1>9, <1>17, <1>18

LEMMA AddEntryShows ==
  ASSUME NEW d, Sound(d), NEW w \in Starts(d),
         NEW ent \in Contents, ent.kind = "entry", ent.clus \in Starts(d) \ {RootClus},
         Unheld(d, ent.clus)
  PROVE  LET e == AddEntry(d, w, ent)
         IN  /\ \A u \in Starts(d) : u # w => Chain(e, u) = Chain(d, u) /\ Along(e, u) = Along(d, u)
             /\ \/ \E n : Gains(Along(d, w), Along(e, w), n, ent)
                \/ FreeClusters(d) = {} /\ e = d
<1>1. CASE Vacancies(Along(d, w)) # {}
  <2>1. PICK n : n = Min(Vacancies(Along(d, w)))
    OBVIOUS
  <2>2. AddEntry(d, w, ent) = Placed(d, w, n, ent)
    BY <1>1, <2>1 DEF AddEntry
  <2>3. /\ Gains(Along(d, w), Along(Placed(d, w, n, ent), w), n, ent)
        /\ \A u \in Starts(d) : u # w => /\ Chain(Placed(d, w, n, ent), u) = Chain(d, u)
                                         /\ Along(Placed(d, w, n, ent), u) = Along(d, u)
    BY <1>1, <2>1, PlacedShows
  <2> QED
    BY <2>2, <2>3
<1>2. CASE Vacancies(Along(d, w)) = {} /\ FreeClusters(d) = {}
  BY <1>2 DEF AddEntry
<1>3. CASE Vacancies(Along(d, w)) = {} /\ FreeClusters(d) # {}
  <2>1. PICK new \in Clusters : new = Min(FreeClusters(d)) /\ d.fat[new] = FREE
    BY <1>3, FirstFree
  <2>2. AddEntry(d, w, ent) = Grown(d, w, new, ent)
    BY <1>3, <2>1 DEF AddEntry
  <2>3. /\ \E n : Gains(Along(d, w), Along(Grown(d, w, new, ent), w), n, ent)
        /\ \A u \in Starts(d) : u # w => /\ Chain(Grown(d, w, new, ent), u) = Chain(d, u)
                                         /\ Along(Grown(d, w, new, ent), u) = Along(d, u)
    BY <1>3, <2>1, GrownShows
  <2> QED
    BY <2>2, <2>3
<1> QED
  BY <1>1, <1>2, <1>3

LEMMA CreatedShows ==
  ASSUME NEW d, Sound(d), NEW p \in ProperPaths, NEW isDir \in BOOLEAN,
         Parent(d, p) # 0, ~Exists(d, p), FreeClusters(d) # {}
  PROVE  LET e == Created(d, p, isDir)
             w == Parent(d, p)
             ent == Entry(Last(p), isDir, Min(FreeClusters(d)), 0)
         IN  /\ \A u \in Starts(d) : u # w => Chain(e, u) = Chain(d, u) /\ Along(e, u) = Along(d, u)
             /\ \/ \E n : Gains(Along(d, w), Along(e, w), n, ent)
                \/ Cardinality(FreeClusters(d)) = 1 /\ Along(e, w) = Along(d, w)
<1>1. PICK c \in Clusters : c = Min(FreeClusters(d)) /\ d.fat[c] = FREE
  BY FirstFree
<1>2. PICK b, w, ent : b = Claim(d, c) /\ w = Parent(d, p) /\ ent = Entry(Last(p), isDir, c, 0)
  OBVIOUS
<1>3. Sound(b) /\ Starts(d) \subseteq Starts(b) /\ c \in Starts(b) \ {RootClus} /\ Unheld(b, c)
  BY <1>1, <1>2, ClaimSound
<1>4. w \in Starts(d) /\ w \in Starts(b)
  BY <1>2, <1>3, ParentType
<1>5. ent \in Contents /\ ent.kind = "entry" /\ ent.clus = c
  BY <1>2, EntryType, PathIs
<1>6. Created(d, p, isDir) = AddEntry(b, w, ent)
  BY <1>1, <1>2 DEF Created, CreatedAt
<1>7. \A u \in Starts(d) : Chain(b, u) = Chain(d, u) /\ Along(b, u) = Along(d, u)
  BY <1>1, <1>2, ClaimShows
<1>8. PICK e : e = AddEntry(b, w, ent)
  OBVIOUS
<1>9. /\ \A u \in Starts(b) : u # w => Chain(e, u) = Chain(b, u) /\ Along(e, u) = Along(b, u)
      /\ \/ \E n : Gains(Along(b, w), Along(e, w), n, ent)
         \/ FreeClusters(b) = {} /\ e = b
  BY <1>3, <1>4, <1>5, <1>8, AddEntryShows
<1>10. FreeClusters(b) = {} => Cardinality(FreeClusters(d)) = 1
  <2> SUFFICES ASSUME FreeClusters(b) = {} PROVE Cardinality(FreeClusters(d)) = 1
    OBVIOUS
  <2>1. \A a \in Clusters : d.fat[a] = FREE => a = c
    <3>1. d.fat \in [Clusters -> {FREE, EOC} \cup Clusters]
      BY DiskIs DEF Sound
    <3>2. \A a \in Clusters : a # c => b.fat[a] = d.fat[a]
      BY <1>2, <3>1 DEF Claim
    <3> QED
      BY <3>2 DEF FreeClusters
  <2>2. FreeClusters(d) = {c}
    BY <1>1, <2>1 DEF FreeClusters
  <2> QED
    BY <2>2, FS_Singleton
<1> QED
  BY <1>1, <1>2, <1>3, <1>4, <1>6, <1>7, <1>8, <1>9, <1>10

-----------------------------------------------------------------------------
(* What a look-up finds afterwards.                                        *)
LEMMA ListingIs == ASSUME NEW d, NEW c PROVE \E k \in Nat : DOMAIN Along(d, c) = 0 .. k - 1
<1>1. PICK h : Chain(d, c) = ChainBy(h)
  BY ChainIsHops
<1>2. PICK S : S = {k \in 0 .. LastClus : h[k] \in Clusters}
  OBVIOUS
<1>3. Cardinality(S) \in Nat
  <2>1. LastClus \in Nat
    BY Fat32Assumption
  <2>2. IsFiniteSet(0 .. LastClus) /\ S \subseteq 0 .. LastClus
    BY <1>2, <2>1, FS_Interval
  <2> QED
    BY <2>2, FS_Subset, FS_CardinalityType
<1>4. PICK l \in Nat : l = Len(Chain(d, c))
  BY <1>1, <1>2, <1>3 DEF ChainBy
<1>5. PICK v \in Nat : v = Cells
  BY Fat32Assumption
<1>6. l * v \in Nat /\ DOMAIN Along(d, c) = 0 .. l * v - 1
  BY <1>4, <1>5 DEF Along, Spread
<1> QED
  BY <1>6

(* The first entry of a name.                                              *)
LEMMA FirstMatch ==
  ASSUME NEW a, NEW k \in Nat, DOMAIN a = 0 .. k - 1, NEW name, Matches(a, name) # {}
  PROVE  LET n == Min(Matches(a, name))
         IN  /\ n \in 0 .. k - 1 /\ a[n].kind = "entry" /\ a[n].name = name
             /\ \A m \in 0 .. n : m \in 0 .. k - 1 /\ a[m] # End
             /\ \A m \in Matches(a, name) : n <= m
<1>1. PICK M, n : M = Matches(a, name) /\ n = Min(M)
  OBVIOUS
<1>2. M \subseteq Nat /\ M # {}
  BY <1>1 DEF Matches, Visible
<1>3. n \in M /\ \A m \in M : n <= m
  BY <1>1, <1>2, LeastIs
<1>4. n \in 0 .. k - 1 /\ a[n].kind = "entry" /\ a[n].name = name /\ \A m \in 0 .. n : a[m] # End
  BY <1>1, <1>3 DEF Matches, Visible
<1>5. \A m \in 0 .. n : m \in 0 .. k - 1
  BY <1>4
<1> QED
  BY <1>1, <1>3, <1>4, <1>5

LEMMA GainIsFound ==
  ASSUME NEW old, NEW new, NEW n, NEW ent, Gains(old, new, n, ent), ent.kind = "entry"
  PROVE  Matches(new, ent.name) # {}
<1>1. \A m \in 0 .. n : new[m] # End
  BY MarksAre DEF Gains
<1>2. n \in 0 .. n
  BY DEF Gains
<1>3. n \in Matches(new, ent.name)
  BY <1>1, <1>2 DEF Gains, Matches, Visible
<1> QED
  BY <1>3

(* No name leads to another entry than before, and while nothing was       *)
(* deleted all lead where they did.                                        *)
LEMMA GainKeeps ==
  ASSUME NEW old, NEW new, NEW n, NEW ent, Gains(old, new, n, ent), ent.kind = "entry",
         NEW i \in Nat, DOMAIN old = 0 .. i - 1, NEW j \in Nat, DOMAIN new = 0 .. j - 1,
         Matches(old, ent.name) = {}, NEW name, Matches(old, name) # {},
         Matches(new, name) # {} \/ NothingDeletedIn(old)
  PROVE  /\ Matches(new, name) # {} /\ Min(Matches(new, name)) = Min(Matches(old, name))
         /\ new[Min(Matches(new, name))] = old[Min(Matches(old, name))]
<1>1. PICK a : a = Min(Matches(old, name))
  OBVIOUS
<1>2. /\ a \in 0 .. i - 1 /\ old[a].kind = "entry" /\ old[a].name = name
      /\ \A m \in 0 .. a : m \in 0 .. i - 1 /\ old[m] # End
      /\ \A m \in Matches(old, name) : a <= m
  BY <1>1, FirstMatch
<1>3. name # ent.name
  OBVIOUS
<1>4. /\ n \in Nat /\ new[n] = ent /\ n < j
      /\ \A m \in 0 .. n - 1 : m \in 0 .. i - 1 /\ new[m] = old[m] /\ old[m] # End
      /\ n \in 0 .. i - 1 => old[n] \in {End, Deleted}
      /\ \/ n + 1 \in 0 .. j - 1 /\ new[n + 1] = End
         \/ \A m \in 0 .. j - 1 : m > n => m \in 0 .. i - 1 /\ new[m] = old[m]
      /\ i <= j
  <2>1. 0 .. n \subseteq 0 .. j - 1 /\ 0 .. i - 1 \subseteq 0 .. j - 1 /\ n \in Nat
    BY DEF Gains
  <2>2. n < j /\ i <= j
    <3>1. n \in 0 .. n /\ (i > 0 => i - 1 \in 0 .. i - 1)
      BY <2>1
    <3>2. n \in 0 .. j - 1 /\ (i > 0 => i - 1 \in 0 .. j - 1)
      BY <2>1, <3>1
    <3> QED
      BY <3>2
  <2> QED
    BY <2>1, <2>2 DEF Gains
<1>5. a # n /\ (a > n => old[n] = Deleted /\ n \in 0 .. i - 1)
  <2>1. a # n
    BY <1>2, <1>4, MarksAre
  <2>2. a > n => n \in 0 .. a
    BY <1>2, <1>4
  <2> QED
    BY <1>2, <1>4, <2>1, <2>2
<1>6. a < n \/ ~NothingDeletedIn(old)
  BY <1>2, <1>4, <1>5 DEF NothingDeletedIn
<1>7. CASE a < n
  <2>1. a \in Matches(new, name)
    <3>1. a \in 0 .. n - 1 /\ a \in 0 .. j - 1 /\ \A m \in 0 .. a : m \in 0 .. n - 1
      BY <1>2, <1>4, <1>7
    <3>2. \A m \in 0 .. a : new[m] # End
      BY <1>4, <3>1
    <3> QED
      BY <1>2, <1>4, <3>1, <3>2 DEF Matches, Visible
  <2>2. PICK b : b = Min(Matches(new, name))
    OBVIOUS
  <2>3. /\ b \in 0 .. j - 1 /\ new[b].kind = "entry" /\ new[b].name = name /\ b <= a
    BY <2>1, <2>2, FirstMatch
  <2>4. b \in Matches(old, name)
    <3>1. b \in 0 .. n - 1 /\ \A m \in 0 .. b : m \in 0 .. n - 1
      BY <1>2, <1>4, <1>7, <2>3
    <3> QED
      BY <1>4, <2>3, <3>1 DEF Matches, Visible
  <2>5. a = b
    BY <1>2, <2>3, <2>4
  <2>6. a \in 0 .. n - 1
    BY <1>2, <1>4, <1>7
  <2> QED
    BY <1>1, <1>4, <2>1, <2>2, <2>5, <2>6
<1>8. CASE ~(a < n)
  <2>1. a > n /\ old[n] = Deleted /\ Matches(new, name) # {}
    BY <1>2, <1>4, <1>5, <1>6, <1>8
  <2>2. PICK b : b = Min(Matches(new, name))
    OBVIOUS
  <2>3. /\ b \in 0 .. j - 1 /\ new[b].kind = "entry" /\ new[b].name = name
        /\ \A m \in 0 .. b : m \in 0 .. j - 1 /\ new[m] # End
        /\ \A m \in Matches(new, name) : b <= m
    BY <2>1, <2>2, FirstMatch
  <2>4. b > n
    <3>1. b # n
      BY <1>3, <1>4, <2>3
    <3>2. ~(b < n)
      <4> SUFFICES ASSUME b < n PROVE FALSE
        OBVIOUS
      <4>1. b \in 0 .. n - 1 /\ \A m \in 0 .. b : m \in 0 .. n - 1
        BY <1>4, <2>3
      <4>2. b \in Matches(old, name)
        BY <1>4, <2>3, <4>1 DEF Matches, Visible
      <4> QED
        BY <1>2, <1>4, <2>1, <2>3, <4>2
    <3> QED
      BY <1>4, <2>3, <3>1, <3>2
  <2>5. \A m \in 0 .. j - 1 : m > n => m \in 0 .. i - 1 /\ new[m] = old[m]
    <3>1. n + 1 \in 0 .. b
      BY <1>4, <2>3, <2>4
    <3> QED
      BY <1>4, <2>3, <3>1
  <2>6. old[n] # End
    <3>1. n \in 0 .. a
      BY <1>2, <1>4, <2>1
    <3> QED
      BY <1>2, <3>1
  <2>7. b \in Matches(old, name)
    <3>1. ASSUME NEW m \in 0 .. b PROVE old[m] # End
      <4>1. CASE m < n
        BY <1>4, <3>1, <4>1
      <4>2. CASE m = n
        BY <2>6, <4>2
      <4>3. CASE m > n
        BY <2>3, <2>5, <3>1, <4>3
      <4> QED
        BY <1>4, <2>3, <4>1, <4>2, <4>3
    <3>2. b \in 0 .. i - 1 /\ new[b] = old[b]
      BY <2>3, <2>4, <2>5
    <3> QED
      BY <2>3, <3>1, <3>2 DEF Matches, Visible
  <2>8. a \in Matches(new, name)
    <3>1. a \in 0 .. j - 1 /\ \A m \in 0 .. a : m \in 0 .. j - 1
      BY <1>2, <1>4
    <3>2. new[a] = old[a]
      BY <2>1, <2>5, <3>1
    <3>3. ASSUME NEW m \in 0 .. a PROVE new[m] # End
      <4>1. CASE m < n
        BY <1>4, <3>3, <4>1
      <4>2. CASE m = n
        BY <1>4, <4>2, MarksAre
      <4>3. CASE m > n
        BY <1>2, <2>5, <3>1, <3>3, <4>3
      <4> QED
        BY <1>2, <1>4, <3>3, <4>1, <4>2, <4>3
    <3> QED
      BY <1>2, <3>1, <3>2, <3>3 DEF Matches, Visible
  <2>9. a = b
    BY <1>2, <2>3, <2>7, <2>8
  <2>10. new[a] = old[a]
    BY <1>2, <1>4, <2>1, <2>5
  <2> QED
    BY <1>1, <2>1, <2>2, <2>9, <2>10
<1> QED
  BY <1>7, <1>8

-----------------------------------------------------------------------------
(* Where the ways of one path through two disks part.                      *)
LEMMA WalkStep ==
  ASSUME NEW d, Sound(d), NEW names \in Seq(Names), NEW k \in 1 .. Len(names)
  PROVE  /\ names[k] \in Names /\ SubSeq(names, 1, k - 1) \in Seq(Names)
         /\ Walk(d, SubSeq(names, 1, k)) = Entering(d, Walk(d, SubSeq(names, 1, k - 1)), names[k])
<1>1. names[k] \in Names
  BY ElementOfSeq
<1>2. SubSeq(names, 1, k - 1) \in Seq(Names) /\ Append(SubSeq(names, 1, k - 1), names[k]) = SubSeq(names, 1, k)
  BY PrefixGrows
<1>3. PICK f : f = SubSeq(names, 1, k - 1)
  OBVIOUS
<1>4. Walk(d, Append(f, names[k])) = Entering(d, Walk(d, f), names[k])
  BY <1>1, <1>2, <1>3, WalkGrows
<1> QED
  BY <1>1, <1>2, <1>3, <1>4

LEMMA NoWayBack ==
  ASSUME NEW d, Sound(d), NEW names \in Seq(Names), Walk(d, names) # 0, NEW k \in 0 .. Len(names)
  PROVE  Walk(d, SubSeq(names, 1, k)) # 0
<1>1. PICK n \in Nat : n = Len(names)
  BY LenProperties
<1> DEFINE G == {i \in 0 .. n : i >= k => Walk(d, SubSeq(names, 1, i)) = 0}
<1> HIDE DEF G
<1>2. SUFFICES ASSUME Walk(d, SubSeq(names, 1, k)) = 0 PROVE FALSE
  OBVIOUS
<1>3. 0 \in G
  <2>1. 0 >= k => k = 0
    OBVIOUS
  <2> QED
    BY <1>1, <1>2, <2>1 DEF G
<1>4. ASSUME NEW i \in 1 .. n, i - 1 \in G PROVE i \in G
  <2> SUFFICES ASSUME i >= k PROVE Walk(d, SubSeq(names, 1, i)) = 0
    BY DEF G
  <2>1. CASE i = k
    BY <1>2, <2>1
  <2>2. CASE i # k
    <3>1. i - 1 >= k
      BY <1>1, <2>2
    <3>2. Walk(d, SubSeq(names, 1, i - 1)) = 0
      BY <1>4, <3>1 DEF G
    <3>3. Walk(d, SubSeq(names, 1, i)) = Entering(d, 0, names[i])
      BY <1>1, <3>2, WalkStep
    <3> QED
      BY <3>3, EnteringIs
  <2> QED
    BY <2>1, <2>2
<1>5. n \in G
  <2>1. \A i \in 0 .. n : i \in G
    BY <1>3, <1>4, StepByStep
  <2>2. n \in 0 .. n
    OBVIOUS
  <2> QED
    BY <2>1, <2>2
<1>6. SubSeq(names, 1, n) = names /\ n >= k
  BY <1>1, SubSeqFull
<1>7. Walk(d, SubSeq(names, 1, n)) = 0
  BY <1>5, <1>6 DEF G
<1> QED
  BY <1>6, <1>7

PartAt(d, e, names, k) ==
  LET f == SubSeq(names, 1, k - 1)
      w == Walk(d, f)
  IN  /\ f \in Seq(Names) /\ Walk(e, f) = w /\ w # 0
      /\ Entering(d, w, names[k]) # Entering(e, w, names[k])
      /\ Walk(d, names) # 0 => Entering(d, w, names[k]) # 0
      /\ Walk(e, names) # 0 => Entering(e, w, names[k]) # 0

LEMMA WalksPart ==
  ASSUME NEW d, Sound(d), NEW e, Sound(e), NEW names \in Seq(Names), Walk(d, names) # Walk(e, names)
  PROVE  \E k \in 1 .. Len(names) : PartAt(d, e, names, k)
<1>1. PICK n \in Nat : n = Len(names)
  BY LenProperties
<1> DEFINE G == {i \in 0 .. n : Walk(d, SubSeq(names, 1, i)) = Walk(e, SubSeq(names, 1, i))}
<1> HIDE DEF G
<1>2. SubSeq(names, 1, n) = names /\ SubSeq(names, 1, 0) = << >>
  BY <1>1, SubSeqFull
<1>3. 0 \in G
  <2>1. Walk(d, << >>) = RootClus /\ Walk(e, << >>) = RootClus
    BY WalkOfNone
  <2>2. Walk(d, SubSeq(names, 1, 0)) = Walk(e, SubSeq(names, 1, 0))
    BY <1>2, <2>1
  <2>3. 0 \in 0 .. n
    OBVIOUS
  <2> QED
    BY <2>2, <2>3 DEF G
<1>4. PICK k \in 1 .. n : k - 1 \in G /\ k \notin G
  <2>1. n \notin G
    BY <1>2 DEF G
  <2>2. n \in 0 .. n
    OBVIOUS
  <2> QED
    BY <1>3, <2>1, <2>2, StepByStep
<1>5. PICK f, w : f = SubSeq(names, 1, k - 1) /\ w = Walk(d, f)
  OBVIOUS
<1>6. Walk(e, f) = w
  BY <1>4, <1>5 DEF G
<1>7. /\ f \in Seq(Names)
      /\ Walk(d, SubSeq(names, 1, k)) = Entering(d, w, names[k])
      /\ Walk(e, SubSeq(names, 1, k)) = Entering(e, w, names[k])
  BY <1>1, <1>5, <1>6, WalkStep
<1>8. Entering(d, w, names[k]) # Entering(e, w, names[k])
  BY <1>4, <1>7 DEF G
<1>9. w # 0
  <2>1. w = 0 => Entering(d, w, names[k]) = 0 /\ Entering(e, w, names[k]) = 0
    BY EnteringIs
  <2> QED
    BY <1>8, <2>1
<1>10. k \in 0 .. Len(names) /\ k \in 1 .. Len(names)
  BY <1>1
<1>11. /\ Walk(d, names) # 0 => Entering(d, w, names[k]) # 0
       /\ Walk(e, names) # 0 => Entering(e, w, names[k]) # 0
  BY <1>7, <1>10, NoWayBack
<1> QED
  BY <1>5, <1>6, <1>7, <1>8, <1>9, <1>10, <1>11 DEF PartAt

LEMMA WayIsKnown ==
  ASSUME NEW d, Sound(d), NEW f \in Seq(Names), NEW g \in Seq(Names), Walk(d, f) # 0, Walk(d, f) = Walk(d, g)
  PROVE  f = g
<1>1. \A h \in Seq(Names) : h # << >> /\ Walk(d, h) # 0
        => /\ h \in ProperPaths /\ Exists(d, h) /\ Walk(d, h) = Dirent(d, h).clus
           /\ Walk(d, h) # RootClus
  BY WalkIs, EntryIs DEF ProperPaths
<1>2. Walk(d, << >>) = RootClus
  BY WalkOfNone
<1> QED
  BY <1>1, <1>2, OnePath

(* A file is no directory on the way to anything.                          *)
LEMMA WayPassesNoFile ==
  ASSUME NEW d, Sound(d), NEW p \in ProperPaths, Exists(d, p), NEW f \in Seq(Names), f # p \/ ~Dirent(d, p).dir
  PROVE  Walk(d, f) # Dirent(d, p).clus
<1> SUFFICES ASSUME Walk(d, f) = Dirent(d, p).clus PROVE FALSE
  OBVIOUS
<1>1. Dirent(d, p).clus # RootClus /\ Dirent(d, p).clus # 0
  BY EntryIs, ClustersAre DEF Starts, Heads
<1>2. f # << >>
  BY <1>1, WalkOfNone
<1>3. f \in ProperPaths
  BY <1>2 DEF ProperPaths
<1>4. Exists(d, f) /\ Dirent(d, f).dir /\ Walk(d, f) = Dirent(d, f).clus
  BY <1>1, <1>3, WalkIs
<1>5. f = p
  BY <1>3, <1>4, OnePath
<1> QED
  BY <1>4, <1>5

Finds(d, e, u, name) ==
  /\ Matches(Along(e, u), name) # {}
  /\ Along(e, u)[Min(Matches(Along(e, u), name))] = Along(d, u)[Min(Matches(Along(d, u), name))]

LEMMA CreatedFinds ==
  ASSUME NEW d, Sound(d), NEW q \in ProperPaths, NEW isDir \in BOOLEAN,
         NEW e, e = Created(d, q, isDir), NEW u \in Starts(d), NEW name,
         Matches(Along(d, u), name) # {},
         Matches(Along(e, u), name) # {} \/ NothingDeletedIn(Listing(d, q))
  PROVE  Finds(d, e, u, name)
<1>1. CASE Parent(d, q) = 0 \/ Exists(d, q) \/ FreeClusters(d) = {}
  <2>1. e = d
    BY <1>1 DEF Created
  <2> QED
    BY <2>1 DEF Finds
<1>2. CASE ~(Parent(d, q) = 0 \/ Exists(d, q) \/ FreeClusters(d) = {})
  <2>1. PICK w, ent : w = Parent(d, q) /\ ent = Entry(Last(q), isDir, Min(FreeClusters(d)), 0)
    OBVIOUS
  <2>2. /\ \A v \in Starts(d) : v # w => Along(e, v) = Along(d, v)
        /\ (\E n : Gains(Along(d, w), Along(e, w), n, ent)) \/ Along(e, w) = Along(d, w)
    BY <1>2, <2>1, CreatedShows
  <2>3. ent.kind = "entry" /\ ent.name = Last(q)
    BY <2>1 DEF Entry
  <2>4. Matches(Along(d, w), ent.name) = {}
    BY <1>2, <2>1, <2>3 DEF Exists, Hits, Listing
  <2>5. CASE Along(e, u) = Along(d, u)
    BY <2>5 DEF Finds
  <2>6. CASE Along(e, u) # Along(d, u)
    <3>1. u = w
      BY <2>2, <2>6
    <3>2. PICK n : Gains(Along(d, w), Along(e, w), n, ent)
      BY <2>2, <2>6, <3>1
    <3>3. PICK a, b : a = Along(d, w) /\ b = Along(e, w)
      OBVIOUS
    <3>4. PICK i \in Nat : DOMAIN a = 0 .. i - 1
      BY <3>3, ListingIs
    <3>5. PICK j \in Nat : DOMAIN b = 0 .. j - 1
      BY <3>3, ListingIs
    <3>6. Matches(b, name) # {} \/ NothingDeletedIn(a)
      BY <2>1, <3>1, <3>3 DEF Listing
    <3>7. /\ Gains(a, b, n, ent) /\ Matches(a, ent.name) = {} /\ Matches(a, name) # {}
      BY <2>4, <3>1, <3>2, <3>3
    <3>8. /\ Matches(b, name) # {} /\ Min(Matches(b, name)) = Min(Matches(a, name))
          /\ b[Min(Matches(b, name))] = a[Min(Matches(a, name))]
      BY <2>3, <3>4, <3>5, <3>6, <3>7, GainKeeps
    <3> QED
      BY <3>1, <3>3, <3>8 DEF Finds
  <2> QED
    BY <2>5, <2>6
<1> QED
  BY <1>1, <1>2

LEMMA FindsEnters ==
  ASSUME NEW d, NEW e, NEW u, NEW name, Matches(Along(d, u), name) # {}, Finds(d, e, u, name)
  PROVE  Entering(e, u, name) = Entering(d, u, name)
BY DEF Finds, Entering, StepInto

(* A create takes no path elsewhere, and loses none where nothing was      *)
(* deleted.                                                                *)
LEMMA CreatedKeeps ==
  ASSUME NEW d, Sound(d), NEW q \in ProperPaths, NEW isDir \in BOOLEAN,
         NEW p \in ProperPaths, Exists(d, p),
         NEW e, e = Created(d, q, isDir),
         Exists(e, p) \/ NothingDeletedIn(Listing(d, q))
  PROVE  Exists(e, p) /\ Dirent(e, p) = Dirent(d, p) /\ Parent(e, p) = Parent(d, p)
<1>1. Sound(e)
  BY CreatedSound
<1>2. PICK f, x, w : f = Front(p) /\ x = Last(p) /\ w = Parent(d, p)
  OBVIOUS
<1>3. /\ f \in Seq(Names) /\ w = Walk(d, f) /\ Parent(e, p) = Walk(e, f)
      /\ w \in Starts(d) /\ w # 0
  BY <1>1, <1>2, EntryIs, PathIs, ParentType, ClustersAre DEF Starts, Heads
<1>4. Matches(Along(d, w), x) # {}
  BY <1>2 DEF Exists, Hits, Listing
<1>5. Walk(e, f) = w
  <2> SUFFICES ASSUME Walk(e, f) # w PROVE FALSE
    OBVIOUS
  <2>1. PICK g, u, y :
          /\ g \in Seq(Names)
          /\ u = Walk(d, g) /\ u # 0
          /\ Entering(d, u, y) # Entering(e, u, y)
          /\ Entering(d, u, y) # 0
          /\ Walk(e, f) # 0 => Entering(e, u, y) # 0
    <3>1. PICK k \in 1 .. Len(f) : PartAt(d, e, f, k)
      BY <1>1, <1>3, WalksPart
    <3> QED
      BY <1>3, <3>1 DEF PartAt
  <2>2. u \in Starts(d)
    BY <2>1, WalkType
  <2>3. Matches(Along(d, u), y) # {}
    BY <2>1, <2>2, EnteringIs
  <2>4. Exists(e, p) => Walk(e, f) # 0
    BY <1>1, <1>3, EntryIs, ClustersAre DEF Starts, Heads
  <2>5. Matches(Along(e, u), y) # {} \/ NothingDeletedIn(Listing(d, q))
    BY <2>1, <2>4 DEF Entering, StepInto
  <2>6. Finds(d, e, u, y)
    BY <2>2, <2>3, <2>5, CreatedFinds
  <2> QED
    BY <2>1, <2>3, <2>6, FindsEnters
<1>6. Matches(Along(e, w), x) # {} \/ NothingDeletedIn(Listing(d, q))
  BY <1>2, <1>3, <1>5 DEF Exists, Hits, Listing
<1>7. Finds(d, e, w, x)
  BY <1>3, <1>4, <1>6, CreatedFinds
<1> QED
  BY <1>2, <1>3, <1>5, <1>7 DEF Finds, Exists, Dirent, Hits, Listing

LEMMA CreatedIsThere ==
  ASSUME NEW d, Sound(d), NEW p \in ProperPaths, NEW isDir \in BOOLEAN,
         Parent(d, p) # 0, ~Exists(d, p), Cardinality(FreeClusters(d)) >= 2
  PROVE  Exists(Created(d, p, isDir), p)
<1>1. PICK e, w, ent : /\ e = Created(d, p, isDir) /\ w = Parent(d, p)
                       /\ ent = Entry(Last(p), isDir, Min(FreeClusters(d)), 0)
  OBVIOUS
<1>2. FreeClusters(d) # {} /\ Cardinality(FreeClusters(d)) # 1
  BY FS_EmptySet
<1>3. /\ \A u \in Starts(d) : u # w => Along(e, u) = Along(d, u)
      /\ \E n : Gains(Along(d, w), Along(e, w), n, ent)
  BY <1>1, <1>2, CreatedShows
<1>4. Sound(e)
  BY <1>1, CreatedSound
<1>5. PICK f : /\ f = Front(p) /\ f \in Seq(Names)
               /\ Parent(d, p) = Walk(d, f) /\ Parent(e, p) = Walk(e, f)
  BY <1>4, PathIs, ParentType
<1>6. Walk(e, f) = w
  <2> SUFFICES ASSUME Walk(e, f) # w PROVE FALSE
    OBVIOUS
  <2>1. PICK k, g, u :
          /\ k \in 1 .. Len(f)
          /\ g = SubSeq(f, 1, k - 1) /\ u = Walk(d, g) /\ g \in Seq(Names) /\ u # 0
          /\ Entering(d, u, f[k]) # Entering(e, u, f[k])
    <3>1. PICK k \in 1 .. Len(f) : PartAt(d, e, f, k)
      BY <1>1, <1>4, <1>5, WalksPart
    <3> QED
      BY <3>1 DEF PartAt
  <2>2. u \in Starts(d)
    BY <2>1, WalkType
  <2>3. u = w
    BY <1>3, <2>1, <2>2 DEF Entering
  <2>4. g = f
    BY <1>1, <1>5, <2>1, <2>3, WayIsKnown
  <2>5. Len(g) = k - 1 /\ Len(f) \in Nat
    BY <1>5, <2>1, PrefixGrows, LenProperties
  <2> QED
    BY <2>1, <2>4, <2>5
<1>7. Matches(Along(e, w), ent.name) # {} /\ ent.name = Last(p)
  <2>1. ent.kind = "entry" /\ ent.name = Last(p)
    BY <1>1 DEF Entry
  <2> QED
    BY <1>3, <2>1, GainIsFound
<1> QED
  BY <1>1, <1>5, <1>6, <1>7 DEF Exists, Hits, Listing

LEMMA SoundFindsRoom == ASSUME Sound(disk) PROVE CreateFindsRoom
<1>1. \A p \in Paths : p \in ProperPaths
  BY Fat32Assumption DEF ProperPaths
<1>2. SUFFICES ASSUME NEW p \in Paths, NEW isDir \in BOOLEAN, Parent(disk, p) # 0, ~Exists(disk, p),
                      Cardinality(FreeClusters(disk)) >= 2
               PROVE  /\ Exists(Created(disk, p, isDir), p)
                      /\ NothingDeletedIn(Listing(disk, p)) =>
                           Named(disk) \subseteq Named(Created(disk, p, isDir))
  BY DEF CreateFindsRoom
<1>3. Exists(Created(disk, p, isDir), p)
  BY <1>1, <1>2, CreatedIsThere
<1>4. ASSUME NothingDeletedIn(Listing(disk, p)), NEW q \in Paths, Exists(disk, q)
      PROVE  Exists(Created(disk, p, isDir), q)
  BY <1>1, <1>4, CreatedKeeps
<1> QED
  BY <1>3, <1>4 DEF Named

-----------------------------------------------------------------------------
(* What a write to an entry that is there does to the directories.         *)
LEMMA ExtentBegins ==
  ASSUME NEW d, Sound(d), NEW p \in ProperPaths, Exists(d, p), NEW n \in Nat
  PROVE  Extent(d, p, n)[1] = Dirent(d, p).clus
<1>1. PICK c, s, a : c = Dirent(d, p).clus /\ s = Chain(d, c) /\ a = Ascending(FreeClusters(d))
  OBVIOUS
<1>2. s \in Seq(Clusters) /\ Len(s) \in Nat /\ Len(s) >= 1 /\ s[1] = c
  BY <1>1, EntryIs, StartHasChain
<1>3. a \in Seq(Clusters) /\ Len(a) \in Nat
  <2>1. a \in Seq(FreeClusters(d)) /\ Len(a) \in Nat
    BY <1>1, AscendingIs DEF FreeClusters
  <2>2. \A i \in 1 .. Len(a) : a[i] \in Clusters
    BY <2>1, ElementOfSeq DEF FreeClusters
  <2> QED
    BY <2>1, <2>2
<1>4. PICK z : z = s \o a
  OBVIOUS
<1>5. z \in Seq(Clusters) /\ Len(z) = Len(s) + Len(a) /\ z[1] = s[1]
  BY <1>2, <1>3, <1>4, ConcatProperties
<1>6. PICK k \in Nat : k = ClustersFor(n) /\ k >= 1
  BY ClustersForIs
<1>7. Len(FirstOf(z, k)) >= 1 /\ Len(FirstOf(z, k)) \in Nat
  BY <1>2, <1>3, <1>5, <1>6, FirstOfIs
<1>8. FirstOf(z, k)[1] = z[1]
  <2>1. 1 \in 1 .. Len(FirstOf(z, k))
    BY <1>7
  <2> QED
    BY <1>5, <2>1, FirstOfIs
<1> QED
  BY <1>1, <1>2, <1>4, <1>5, <1>6, <1>8 DEF Extent

(* All directories but the one that is written over, if it is one, show    *)
(* what they showed, except for the size.                                  *)
Resized(d, p, n) == [Dirent(d, p) EXCEPT !.size = n]

LEMMA ResizedIs ==
  ASSUME NEW d, Sound(d), NEW p \in ProperPaths, Exists(d, p), NEW n \in Nat
  PROVE  LET v == Resized(d, p, n)
         IN  /\ v \in Contents /\ v.kind = "entry" /\ v.name = Last(p) /\ v.size = n
             /\ v.dir = Dirent(d, p).dir /\ v.clus = Dirent(d, p).clus
<1>1. /\ Dirent(d, p) = In(d, Spot(d, p)) /\ Spot(d, p) \in Places /\ In(d, Spot(d, p)).kind = "entry"
      /\ Dirent(d, p).name = Last(p)
  BY EntryIs DEF Holds
<1>2. PICK o : o = Dirent(d, p) /\ o.kind = "entry" /\ o.name = Last(p) /\ o \in Contents
  <2>1. d.cells \in [Clusters -> [0 .. Cells - 1 -> Contents]]
    BY DiskIs DEF Sound
  <2> QED
    BY <1>1, <2>1 DEF In, Places
<1>3. o \in [kind : {"entry"}, name : Names, dir : BOOLEAN, clus : Clusters, size : Nat]
  BY <1>2 DEF Contents, End, Deleted
<1>4. PICK v : v = [o EXCEPT !.size = n]
  OBVIOUS
<1>5. /\ v \in [kind : {"entry"}, name : Names, dir : BOOLEAN, clus : Clusters, size : Nat]
      /\ v.kind = "entry" /\ v.name = o.name /\ v.size = n /\ v.dir = o.dir /\ v.clus = o.clus
  BY <1>3, <1>4
<1> QED
  BY <1>2, <1>4, <1>5 DEF Resized, Contents

LEMMA OverwriteShows ==
  ASSUME NEW d, Sound(d), NEW p \in ProperPaths, Exists(d, p), NEW t \in Texts, NEW n \in Nat
  PROVE  LET b == Filled(d, Extent(d, p, n), t, n)
             e == Overwrite(d, p, t, n)
             w == Parent(d, p)
         IN  /\ e = Put(b, Spot(d, p), Resized(d, p, n)) /\ b \in Disks
             /\ Spot(d, p) \in Places /\ Spot(d, p)[1] \notin ToSet(Extent(d, p, n))
             /\ Along(e, w) = [Along(d, w) EXCEPT ![Min(Hits(d, p))] = Resized(d, p, n)]
             /\ \A u \in Starts(d) : u # w /\ u # Dirent(d, p).clus => Along(e, u) = Along(d, u)
<1>1. PICK x, c, s, w, h, v, b :
        /\ x = Extent(d, p, n) /\ c = Dirent(d, p).clus /\ s = Chain(d, c)
        /\ w = Parent(d, p) /\ h = Min(Hits(d, p)) /\ v = Resized(d, p, n)
        /\ b = Filled(d, x, t, n)
  OBVIOUS
<1>2. /\ w \in Starts(d) /\ c \in Starts(d) /\ w # c /\ h \in DOMAIN Along(d, w) /\ Spot(d, p) \in Places
      /\ Spot(d, p) = PlaceIn(Chain(d, w), h)
  BY <1>1, EntryIs, ParentIsAnother DEF Spot, Listing
<1>3. /\ x \in Seq(Clusters) /\ Len(x) \in Nat
      /\ \A i, j \in 1 .. Len(x) : x[i] = x[j] => i = j
      /\ \A k \in 1 .. Len(x) : Follows(d, x, k) \/ k = 1
      /\ \A k \in 1 .. Len(x) : d.fat[x[k]] = FREE \/ \E i \in 1 .. Len(s) : x[k] = s[i]
  BY <1>1, ExtentIs, SMTT(30)
<1>4. Sound(b) /\ Starts(d) \subseteq Starts(b) /\ b \in Disks
  <2>1. Sound(Filled(d, x, t, n)) /\ Starts(d) \subseteq Starts(Filled(d, x, t, n))
    BY <1>3, FilledSound
  <2> QED
    BY <1>1, <2>1 DEF Sound
<1>5. \A a \in Clusters : a \notin ToSet(x) => b.fat[a] = d.fat[a] /\ b.cells[a] = d.cells[a]
  <2>1. d \in Disks
    BY DEF Sound
  <2>2. \A a \in Clusters : a \notin ToSet(x) => /\ Filled(d, x, t, n).fat[a] = d.fat[a]
                                              /\ Filled(d, x, t, n).cells[a] = d.cells[a]
    BY <1>3, <2>1, FilledIs, SMTT(60)
  <2> QED
    BY <1>1, <2>2
<1>6. ASSUME NEW u \in Starts(d), u # c, NEW i \in 1 .. Len(Chain(d, u))
      PROVE  Chain(d, u)[i] \in Clusters /\ Chain(d, u)[i] \notin ToSet(x)
  <2>1. PICK r : r = Chain(d, u) /\ r[i] \in Clusters /\ d.fat[r[i]] # FREE
    BY <1>6, StartHasChain
  <2>2. \A j \in 1 .. Len(s) : r[i] # s[j]
    BY <1>1, <1>2, <1>6, <2>1, ChainsApart
  <2>3. ASSUME NEW k \in 1 .. Len(x) PROVE x[k] # r[i]
    BY <1>3, <2>1, <2>2
  <2>4. \A a \in ToSet(x) : \E k \in 1 .. Len(x) : x[k] = a
    BY <1>3, PositionIs
  <2> QED
    BY <2>1, <2>3, <2>4
<1>7. ASSUME NEW u \in Starts(d), u # c
      PROVE  Chain(b, u) = Chain(d, u) /\ Along(b, u) = Along(d, u)
  <2>1. \A i \in 1 .. Len(Chain(d, u)) : /\ b.fat[Chain(d, u)[i]] = d.fat[Chain(d, u)[i]]
                                          /\ b.cells[Chain(d, u)[i]] = d.cells[Chain(d, u)[i]]
    BY <1>5, <1>6, <1>7
  <2> QED
    BY <2>1, Untouched
<1>8. v \in Contents
  BY <1>1, ResizedIs
<1>9. PICK e : e = Put(b, PlaceIn(Chain(b, w), h), v)
  OBVIOUS
<1>10. /\ Along(e, w) = [Along(b, w) EXCEPT ![h] = v]
       /\ \A u \in Starts(b) : u # w => Along(e, u) = Along(b, u)
  <2>1. h \in DOMAIN Along(b, w) /\ w \in Starts(b)
    BY <1>2, <1>4, <1>7
  <2> QED
    BY <1>4, <1>8, <1>9, <2>1, PutShows
<1>11. Overwrite(d, p, t, n) = e
  <2>1. Overwrite(d, p, t, n) = SetCell(b, w, h, v)
    BY <1>1 DEF Overwrite, Resized
  <2>2. SetCell(b, w, h, v) = e
    BY <1>9, PutAtIs DEF SetCell
  <2> QED
    BY <2>1, <2>2
<1>12. Spot(d, p)[1] \notin ToSet(x)
  <2>1. PICK r : r = Chain(d, w) /\ r \in Seq(Clusters)
    BY <1>2, StartHasChain
  <2>2. (h \div Cells) + 1 \in 1 .. Len(r)
    BY <1>2, <2>1, AlongIs DEF Sound
  <2>3. Spot(d, p)[1] = r[(h \div Cells) + 1]
    BY <1>2, <2>1 DEF PlaceIn
  <2> QED
    BY <1>2, <1>6, <2>1, <2>2, <2>3
<1>13. e = Put(b, Spot(d, p), v)
  BY <1>2, <1>7, <1>9
<1> QED
  BY <1>1, <1>2, <1>4, <1>7, <1>10, <1>11, <1>12, <1>13

LEMMA RenewedMatches ==
  ASSUME NEW a, NEW i \in Nat, DOMAIN a = 0 .. i - 1, NEW h \in DOMAIN a, NEW v,
         a[h].kind = "entry", v.kind = "entry", v.name = a[h].name, NEW name,
         NEW b, DOMAIN b = DOMAIN a, \A m \in DOMAIN a : b[m] = IF m = h THEN v ELSE a[m]
  PROVE  Matches(b, name) = Matches(a, name)
<1>1. DOMAIN b = 0 .. i - 1 /\ \A m \in 0 .. i - 1 : b[m] = IF m = h THEN v ELSE a[m]
  OBVIOUS
<1>2. a[h] # End /\ v # End
  BY MarksAre
<1>3. \A m \in 0 .. i - 1 : /\ b[m] = End <=> a[m] = End
                            /\ b[m].kind = "entry" <=> a[m].kind = "entry"
                            /\ b[m].kind = "entry" => (b[m].name = name <=> a[m].name = name)
  BY <1>1, <1>2
<1>4. ASSUME NEW m \in 0 .. i - 1 PROVE m \in Matches(b, name) <=> m \in Matches(a, name)
  <2>1. \A l \in 0 .. m : l \in 0 .. i - 1
    OBVIOUS
  <2> QED
    BY <1>1, <1>3, <2>1 DEF Matches, Visible
<1>5. Matches(b, name) \subseteq 0 .. i - 1 /\ Matches(a, name) \subseteq 0 .. i - 1
  BY <1>1 DEF Matches, Visible
<1> QED
  BY <1>4, <1>5

LEMMA OverwriteFinds ==
  ASSUME NEW d, Sound(d), NEW p \in ProperPaths, Exists(d, p), NEW t \in Texts, NEW n \in Nat,
         NEW e, e = Overwrite(d, p, t, n), NEW u \in Starts(d), u # Dirent(d, p).clus, NEW name
  PROVE  /\ Matches(Along(e, u), name) = Matches(Along(d, u), name)
         /\ \A m \in Matches(Along(e, u), name) :
              Along(e, u)[m] = IF u = Parent(d, p) /\ m = Min(Hits(d, p)) THEN Resized(d, p, n)
                               ELSE Along(d, u)[m]
<1>1. PICK w, h, v : w = Parent(d, p) /\ h = Min(Hits(d, p)) /\ v = Resized(d, p, n)
  OBVIOUS
<1>2. Along(e, w) = [Along(d, w) EXCEPT ![h] = v] /\ (u # w => Along(e, u) = Along(d, u))
  BY <1>1, OverwriteShows
<1>3. CASE u # w
  BY <1>1, <1>2, <1>3
<1>4. CASE u = w
  <2>0. PICK a : a = Along(d, w)
    OBVIOUS
  <2>1. PICK i \in Nat : a = Along(d, w) /\ DOMAIN a = 0 .. i - 1
    BY <2>0, ListingIs
  <2>2. h \in DOMAIN a /\ a[h] = Dirent(d, p)
    BY <1>1, <2>1, EntryIs DEF Dirent, Listing
  <2>3. a[h].kind = "entry" /\ a[h].name = Last(p)
    BY <2>2, EntryIs DEF Holds
  <2>4. v.kind = "entry" /\ v.name = Last(p)
    BY <1>1, ResizedIs
  <2>5. PICK b : b = Along(e, w) /\ DOMAIN b = DOMAIN a /\ \A m \in DOMAIN a : b[m] = IF m = h THEN v ELSE a[m]
    BY <1>2, <2>1, <2>2
  <2>6. Matches(b, name) = Matches(a, name)
    <3>1. a[h].kind = "entry" /\ v.kind = "entry" /\ v.name = a[h].name
      BY <2>3, <2>4
    <3> QED
      BY <2>1, <2>2, <2>5, <3>1, RenewedMatches
  <2>7. \A m \in Matches(a, name) : m \in DOMAIN a
    BY DEF Matches, Visible
  <2> QED
    BY <1>1, <1>4, <2>1, <2>5, <2>6, <2>7
<1> QED
  BY <1>3, <1>4

LEMMA OverwriteEnters ==
  ASSUME NEW d, Sound(d), NEW p \in ProperPaths, Exists(d, p), NEW t \in Texts, NEW n \in Nat,
         NEW e, e = Overwrite(d, p, t, n), NEW u \in Starts(d), u # Dirent(d, p).clus, NEW name
  PROVE  Entering(e, u, name) = Entering(d, u, name)
<1>1. PICK M, a, b : a = Along(d, u) /\ b = Along(e, u) /\ M = Matches(a, name) /\ M = Matches(b, name)
  BY OverwriteFinds
<1>2. M \subseteq Nat
  <2>1. PICK i \in Nat : DOMAIN a = 0 .. i - 1
    BY <1>1, ListingIs
  <2> QED
    BY <1>1, <2>1 DEF Matches, Visible
<1>3. CASE M = {}
  BY <1>1, <1>3 DEF Entering, StepInto
<1>4. CASE M # {}
  <2>1. PICK m \in M : m = Min(M)
    BY <1>2, <1>4, LeastIs
  <2>2. b[m] = IF u = Parent(d, p) /\ m = Min(Hits(d, p)) THEN Resized(d, p, n) ELSE a[m]
    BY <1>1, OverwriteFinds
  <2>3. u = Parent(d, p) /\ m = Min(Hits(d, p)) => a[m] = Dirent(d, p)
    BY <1>1 DEF Dirent, Listing
  <2>4. b[m].dir = a[m].dir /\ b[m].clus = a[m].clus
    BY <2>2, <2>3, ResizedIs
  <2> QED
    BY <1>1, <1>4, <2>1, <2>4 DEF Entering, StepInto
<1> QED
  BY <1>3, <1>4

LEMMA OverwriteWalks ==
  ASSUME NEW d, Sound(d), NEW p \in ProperPaths, Exists(d, p), NEW t \in Texts, NEW n \in Nat,
         NEW e, e = Overwrite(d, p, t, n), NEW f \in Seq(Names),
         \A k \in 1 .. Len(f) : SubSeq(f, 1, k - 1) # p
  PROVE  Walk(e, f) = Walk(d, f)
<1> SUFFICES ASSUME Walk(e, f) # Walk(d, f) PROVE FALSE
  OBVIOUS
<1>1. Sound(e)
  BY OverwriteSound
<1>2. PICK k \in 1 .. Len(f) : PartAt(d, e, f, k)
  BY <1>1, WalksPart
<1>3. PICK g, u : /\ g \in Seq(Names) /\ g = SubSeq(f, 1, k - 1) /\ u = Walk(d, g) /\ u # 0
                                 /\ Entering(d, u, f[k]) # Entering(e, u, f[k])
  BY <1>2 DEF PartAt
<1>4. u \in Starts(d)
  BY <1>3, WalkType
<1>5. u # Dirent(d, p).clus
  BY <1>3, WayPassesNoFile
<1> QED
  BY <1>3, <1>4, <1>5, OverwriteEnters

LEMMA FrontSteps ==
  ASSUME NEW p \in ProperPaths, NEW k \in 1 .. Len(Front(p))
  PROVE  /\ SubSeq(Front(p), 1, k - 1) = SubSeq(p, 1, k - 1)
         /\ SubSeq(Front(p), 1, k) = SubSeq(p, 1, k)
         /\ Front(p)[k] = p[k]
         /\ k - 1 \in 0 .. Len(p) - 1 /\ k \in 1 .. Len(p) - 1
<1>1. PICK f, x : f = Front(p) /\ x = Last(p)
  OBVIOUS
<1>2. PICK n \in Nat : /\ f \in Seq(Names) /\ x \in Names /\ p = Append(f, x)
                       /\ n = Len(f) /\ Len(p) = n + 1 /\ p \in Seq(Names)
  BY <1>1, PathIs DEF ProperPaths
<1>3. \A i \in 1 .. n : p[i] = f[i]
  BY <1>2, AppendProperties
<1>4. ASSUME NEW m \in 0 .. n PROVE SubSeq(f, 1, m) = SubSeq(p, 1, m)
  <2>1. \A i \in 1 .. m : i \in 1 .. n /\ f[i] = p[i]
    BY <1>3
  <2>2. PICK g, h : g = SubSeq(f, 1, m) /\ h = SubSeq(p, 1, m)
    OBVIOUS
  <2>3. g = [i \in 1 .. m |-> f[i]] /\ h = [i \in 1 .. m |-> p[i]]
    BY <1>2, <2>2
  <2> QED
    BY <2>1, <2>2, <2>3
<1> QED
  BY <1>1, <1>2, <1>3, <1>4

(* The entry keeps its place.                                              *)
LEMMA OverwriteIsFound ==
  ASSUME NEW d, Sound(d), NEW p \in ProperPaths, Exists(d, p), NEW t \in Texts, NEW n \in Nat,
         NEW e, e = Overwrite(d, p, t, n)
  PROVE  Parent(e, p) = Parent(d, p) /\ Hits(e, p) = Hits(d, p) /\ Dirent(e, p) = Resized(d, p, n)
<1>1. Sound(e)
  BY OverwriteSound
<1>2. PICK f, w, h : f = Front(p) /\ w = Parent(d, p) /\ h = Min(Hits(d, p))
  OBVIOUS
<1>3. f \in Seq(Names) /\ w = Walk(d, f) /\ Parent(e, p) = Walk(e, f) /\ Len(f) = Len(p) - 1 /\ Len(p) \in Nat
  BY <1>1, <1>2, PathIs, ParentType
<1>4. \A k \in 1 .. Len(f) : SubSeq(f, 1, k - 1) # p
  BY <1>3, PrefixGrows
<1>5. Walk(e, f) = w
  BY <1>3, <1>4, OverwriteWalks
<1>6. w \in Starts(d) /\ w # Dirent(d, p).clus
  BY <1>2, EntryIs, ParentIsAnother
<1>7. Hits(e, p) = Hits(d, p)
  BY <1>2, <1>3, <1>5, <1>6, OverwriteFinds DEF Hits, Listing
<1>8. h \in Hits(e, p)
  <2>1. Hits(d, p) \subseteq Nat /\ Hits(d, p) # {}
    <3>1. PICK i \in Nat : DOMAIN Along(d, w) = 0 .. i - 1
      BY ListingIs
    <3> QED
      BY <1>2, <3>1 DEF Hits, Listing, Matches, Visible, Exists
  <2> QED
    BY <1>2, <1>7, <2>1, LeastIs
<1>9. Along(e, w)[h] = Resized(d, p, n)
  <2>1. h \in Matches(Along(e, w), Last(p))
    BY <1>3, <1>5, <1>8 DEF Hits, Listing
  <2>2. \A m \in Matches(Along(e, w), Last(p)) :
          Along(e, w)[m] = IF w = Parent(d, p) /\ m = Min(Hits(d, p)) THEN Resized(d, p, n)
                           ELSE Along(d, w)[m]
    BY <1>6, OverwriteFinds
  <2> QED
    BY <1>2, <2>1, <2>2
<1> QED
  BY <1>2, <1>3, <1>5, <1>7, <1>9 DEF Dirent, Listing

-----------------------------------------------------------------------------
(* A write that had all the room it needed reads back.                     *)
LEMMA RowAndOffset ==
  ASSUME NEW w \in Nat \ {0}, NEW n \in Nat
  PROVE  (((n \div w) + 1) - 1) * w + (n % w) = n
<1>1. n = w * (n \div w) + (n % w) /\ n \div w \in Nat /\ n % w \in 0 .. w - 1
  OBVIOUS
<1>2. PICK q \in Nat, r \in Nat : q = n \div w /\ r = n % w /\ n = w * q + r
  BY <1>1
<1>3. ((q + 1) - 1) * w = w * q
  OBVIOUS
<1> QED
  BY <1>2, <1>3

LEMMA OverwriteReads ==
  ASSUME NEW d, Sound(d), NEW p \in ProperPaths, Exists(d, p), NEW t \in Texts, NEW n \in Nat,
         Written(d, p, n) = n, NEW e, e = Overwrite(d, p, t, n)
  PROVE  Content(e, p) = [i \in 1 .. n |-> Text(t, i - 1)]
<1>1. PICK x, c, b, q : /\ x = Extent(d, p, n) /\ c = Dirent(d, p).clus /\ b = Filled(d, x, t, n)
                        /\ q = Spot(d, p)
  OBVIOUS
<1>2. /\ x \in Seq(Clusters) /\ Len(x) \in Nat /\ Len(x) >= 1 /\ x[1] = c
      /\ \A i, j \in 1 .. Len(x) : x[i] = x[j] => i = j
  BY <1>1, ExtentIs, ExtentBegins
<1>3. PICK l \in Nat, v \in Nat \ {0} : l = Len(x) /\ v = Cells
  BY <1>2, Fat32Assumption
<1>4. d \in Disks /\ b \in Disks /\ q \in Places /\ q[1] \notin ToSet(x) /\ e = Put(b, q, Resized(d, p, n))
  BY <1>1, OverwriteShows DEF Sound
(* The chain is the clusters that were written, in that order.             *)
<1>5. /\ \A k \in 1 .. l : x[k] \in Clusters /\ x[k] \in ToSet(x) /\ Position(x, x[k]) = k
      /\ \A k \in 1 .. l : k = l => b.fat[x[k]] = EOC
      /\ \A k \in 1 .. l : k # l => b.fat[x[k]] = x[k + 1]
  <2>1. b.fat = [a \in Clusters |-> IF a \notin ToSet(x) THEN d.fat[a]
                                    ELSE IF Position(x, a) = Len(x) THEN EOC ELSE x[Position(x, a) + 1]]
    BY <1>1, FilledFields
  <2>2. \A k \in 1 .. Len(x) : x[k] \in ToSet(x) /\ Position(x, x[k]) = k
    BY <1>2, PositionIs
  <2>3. \A k \in 1 .. Len(x) : x[k] \in Clusters
    BY <1>2, ElementOfSeq
  <2> QED
    BY <1>3, <2>1, <2>2, <2>3
<1>6. e.fat = b.fat /\ \A a \in Clusters : a # q[1] => e.cells[a] = b.cells[a]
  <2>1. b.cells \in [Clusters -> [0 .. Cells - 1 -> Contents]]
    BY <1>4, DiskIs
  <2> QED
    BY <1>4, <2>1 DEF Put
<1>7. Chain(e, c) = x
  <2>1. \A k \in 1 .. Len(x) - 1 : e.fat[x[k]] = x[k + 1]
    <3>1. \A k \in 1 .. Len(x) - 1 : k \in 1 .. l /\ k # l
      BY <1>3
    <3> QED
      BY <1>5, <1>6, <3>1
  <2>2. e.fat[x[Len(x)]] \notin Clusters
    <3>1. l \in 1 .. l
      BY <1>2, <1>3
    <3> QED
      BY <1>3, <1>5, <1>6, <3>1, ClustersAre
  <2>3. Len(x) <= LastClus
    <3>1. l <= LastClus - 1
      BY <1>2, <1>3, NoLongerThanDisk
    <3> QED
      BY <1>3, <3>1, Fat32Assumption
  <2>4. IsChain(e, c, x)
    BY <1>2, <2>1, <2>2, <2>3 DEF IsChain, Path
  <2> QED
    BY <2>4, ChainIs
(* And its cells are those of the text.                                    *)
<1>8. n <= l * v /\ l * v \in Nat
  <2>1. l * v \in Nat
    OBVIOUS
  <2>2. Min({n, l * v}) = n
    BY <1>1, <1>3 DEF Written
  <2>3. Min({n, l * v}) = IF n < l * v THEN n ELSE l * v
    BY <2>1, SmallerIs
  <2> QED
    BY <2>1, <2>2, <2>3
<1>9. PICK m \in Nat : m = l * v /\ n <= m
  BY <1>8
<1>10. PICK E : E = Along(e, c) /\ E = [i \in 0 .. m - 1 |-> e.cells[x[(i \div v) + 1]][i % v]]
  BY <1>3, <1>7, <1>9 DEF Along, Spread
<1>11. ASSUME NEW i \in 0 .. m - 1, i < n PROVE E[i] = Text(t, i)
  <2>1. PICK k \in 1 .. l, r \in 0 .. v - 1 : k = (i \div v) + 1 /\ r = i % v
    BY <1>9, Rows
  <2>2. E[i] = e.cells[x[k]][r]
    BY <1>10, <2>1
  <2>3. x[k] # q[1]
    BY <1>4, <1>5
  <2>4. e.cells[x[k]] = RowFilled(d, x, t, n, x[k])
    <3>1. b.cells[x[k]] = RowFilled(d, x, t, n, x[k])
      BY <1>1, <1>5, FilledCells
    <3> QED
      BY <1>5, <1>6, <2>3, <3>1
  <2>5. RowFilled(d, x, t, n, x[k])[r] = CellFilled(d, x, t, n, x[k], r)
    BY <1>3, <2>1 DEF RowFilled
  <2>6. (k - 1) * v + r = i
    BY <2>1, RowAndOffset
  <2>7. CellFilled(d, x, t, n, x[k], r) = Text(t, i)
    BY <1>3, <1>5, <1>11, <2>6 DEF CellFilled
  <2> QED
    BY <2>2, <2>4, <2>5, <2>7
<1>12. Dirent(e, p).clus = c /\ Dirent(e, p).size = n
  <2>1. Dirent(e, p) = Resized(d, p, n)
    BY OverwriteIsFound
  <2> QED
    BY <1>1, <2>1, ResizedIs
<1>13. Min({n, Cardinality(DOMAIN E)}) = n
  <2>1. Cardinality(0 .. m - 1) = m
    <3>1. Cardinality(0 .. m - 1) = IF 0 > m - 1 THEN 0 ELSE ((m - 1) - 0) + 1
      BY FS_Interval
    <3> QED
      BY <3>1
  <2>2. DOMAIN E = 0 .. m - 1
    BY <1>10
  <2>3. Min({n, m}) = n
    BY <1>9, SmallerIs
  <2> QED
    BY <2>1, <2>2, <2>3
<1>14. Content(e, p) = [i \in 1 .. n |-> E[i - 1]]
  BY <1>10, <1>12, <1>13 DEF Content
<1>15. \A i \in 1 .. n : E[i - 1] = Text(t, i - 1)
  <2>1. \A i \in 1 .. n : i - 1 \in 0 .. m - 1 /\ i - 1 < n
    BY <1>9
  <2> QED
    BY <1>11, <2>1
<1> QED
  BY <1>14, <1>15

LEMMA SoundReadsBack == ASSUME Sound(disk) PROVE WriteReadsBack
<1>1. SUFFICES ASSUME NEW p \in Paths, Exists(disk, p), NEW t \in Texts, NEW n \in Lengths,
                      Written(disk, p, n) = n
               PROVE  Content(WriteTo(disk, p, t, n), p) = [i \in 1 .. n |-> Text(t, i - 1)]
  BY DEF WriteReadsBack, Named
<1>2. p \in ProperPaths /\ n \in Nat
  BY Fat32Assumption DEF ProperPaths
<1>3. WriteTo(disk, p, t, n) = Overwrite(disk, p, t, n)
  BY <1>1 DEF WriteTo, Created, PutInto
<1> QED
  BY <1>1, <1>2, <1>3, OverwriteReads

-----------------------------------------------------------------------------
(* What a delete does to the directories.                                  *)
LEMMA ErasedShows ==
  ASSUME NEW d, Sound(d), NEW p \in ProperPaths, Exists(d, p), NEW e, e = Erased(d, p)
  PROVE  /\ Along(e, Parent(d, p)) = [Along(d, Parent(d, p)) EXCEPT ![Min(Hits(d, p))] = Deleted]
         /\ \A u \in Starts(d) : u # Parent(d, p) /\ u # Dirent(d, p).clus => Along(e, u) = Along(d, u)
<1>1. PICK c, s, q, b, w, h : /\ c = Dirent(d, p).clus /\ s = Chain(d, c) /\ q = Spot(d, p)
                              /\ b = Put(d, q, Deleted) /\ w = Parent(d, p) /\ h = Min(Hits(d, p))
  OBVIOUS
<1>2. /\ q \in Places /\ c \in Starts(d) /\ w \in Starts(d) /\ w # c
      /\ h \in DOMAIN Along(d, w) /\ q = PlaceIn(Chain(d, w), h)
  BY <1>1, EntryIs, ParentIsAnother DEF Spot, Listing
<1>3. Sound(b) /\ b.fat = d.fat /\ Starts(b) = Starts(d)
  BY <1>1, <1>2, MarksAre, PutSound
<1>4. /\ Chain(b, w) = Chain(d, w) /\ Along(b, w) = [Along(d, w) EXCEPT ![h] = Deleted]
      /\ \A u \in Starts(d) : u # w => Chain(b, u) = Chain(d, u) /\ Along(b, u) = Along(d, u)
  BY <1>1, <1>2, MarksAre, PutShows
<1>5. \A a \in Clusters : a \notin ToSet(s) => e.fat[a] = b.fat[a] /\ e.cells[a] = b.cells[a]
  <2>1. SetCell(d, w, h, Deleted) = b
    BY <1>1, <1>2, PutAtIs DEF SetCell
  <2>2. e = [Unlinked(d, s) EXCEPT !.cells = b.cells]
    BY <1>1, <2>1 DEF Erased
  <2>3. d = [fat |-> d.fat, cells |-> d.cells]
    BY DiskIs DEF Sound
  <2> QED
    BY <1>3, <2>2, <2>3 DEF Unlinked
<1>6. ASSUME NEW u \in Starts(d), u # c PROVE Along(e, u) = Along(b, u)
  <2>1. PICK r : r = Chain(d, u) /\ r = Chain(b, u) /\ \A i \in 1 .. Len(r) : r[i] \in Clusters
    <3>1. Chain(b, u) = Chain(d, u)
      BY <1>4
    <3> QED
      BY <3>1, StartHasChain
  <2>2. s \in Seq(Clusters)
    BY <1>1, <1>2, StartHasChain
  <2>3. ASSUME NEW i \in 1 .. Len(r) PROVE r[i] \notin ToSet(s)
    <3>1. \A j \in 1 .. Len(s) : r[i] # s[j]
      <4>1. \A l \in 1 .. Len(Chain(d, u)), j \in 1 .. Len(Chain(d, c)) : Chain(d, u)[l] # Chain(d, c)[j]
        BY <1>2, <1>6, ChainsApart
      <4> QED
        BY <1>1, <2>1, <4>1
    <3> QED
      BY <2>2, <3>1, LenProperties DEF ToSet
  <2>4. \A i \in 1 .. Len(Chain(b, u)) : /\ e.fat[Chain(b, u)[i]] = b.fat[Chain(b, u)[i]]
                                          /\ e.cells[Chain(b, u)[i]] = b.cells[Chain(b, u)[i]]
    BY <1>5, <2>1, <2>3
  <2>5. u \in Starts(b)
    BY <1>3
  <2> QED
    BY <1>3, <2>4, <2>5, Untouched
<1> QED
  BY <1>1, <1>2, <1>4, <1>6

-----------------------------------------------------------------------------
(* A call that writes to an entry or deletes it changes what is found of   *)
(* its name in its directory, and nothing else.                            *)
Agree(d, e, u, name) ==
  /\ Matches(Along(e, u), name) = Matches(Along(d, u), name)
  /\ \A m \in Matches(Along(d, u), name) : Along(e, u)[m] = Along(d, u)[m]

AgreeBut(d, e, q) ==
  \A u \in Starts(d), name \in Names :
    u # Dirent(d, q).clus /\ (u # Parent(d, q) \/ name # Last(q)) => Agree(d, e, u, name)

LEMMA OverwriteAgrees ==
  ASSUME NEW d, Sound(d), NEW q \in ProperPaths, Exists(d, q), NEW t \in Texts, NEW n \in Nat
  PROVE  AgreeBut(d, Overwrite(d, q, t, n), q)
<1>1. PICK e : e = Overwrite(d, q, t, n)
  OBVIOUS
<1>2. SUFFICES ASSUME NEW u \in Starts(d), NEW name \in Names, u # Dirent(d, q).clus,
                      u # Parent(d, q) \/ name # Last(q)
               PROVE  Agree(d, e, u, name)
  BY <1>1 DEF AgreeBut
<1>3. /\ Matches(Along(e, u), name) = Matches(Along(d, u), name)
      /\ \A m \in Matches(Along(e, u), name) :
           Along(e, u)[m] = IF u = Parent(d, q) /\ m = Min(Hits(d, q)) THEN Resized(d, q, n)
                            ELSE Along(d, u)[m]
  BY <1>1, <1>2, OverwriteFinds
<1>4. ASSUME NEW m \in Matches(Along(d, u), name) PROVE ~(u = Parent(d, q) /\ m = Min(Hits(d, q)))
  <2>1. Along(d, u)[m].name = name
    BY DEF Matches
  <2>2. Along(d, Parent(d, q))[Min(Hits(d, q))].name = Last(q)
    BY EntryIs DEF Dirent, Listing
  <2> QED
    BY <1>2, <2>1, <2>2
<1> QED
  BY <1>3, <1>4 DEF Agree

LEMMA MarkedMatches ==
  ASSUME NEW a, NEW i \in Nat, DOMAIN a = 0 .. i - 1, NEW h \in DOMAIN a, NEW name,
         a[h].kind = "entry", a[h].name # name,
         NEW b, DOMAIN b = DOMAIN a, \A m \in DOMAIN a : b[m] = IF m = h THEN Deleted ELSE a[m]
  PROVE  Matches(b, name) = Matches(a, name) /\ \A m \in Matches(a, name) : b[m] = a[m]
<1>1. \A m \in 0 .. i - 1 : /\ b[m] = End <=> a[m] = End
                            /\ m # h => b[m] = a[m]
  BY MarksAre DEF Deleted, End
<1>2. b[h].kind # "entry"
  BY MarksAre
<1>3. ASSUME NEW m \in 0 .. i - 1 PROVE m \in Matches(b, name) <=> m \in Matches(a, name)
  <2>1. \A l \in 0 .. m : l \in 0 .. i - 1
    OBVIOUS
  <2> QED
    BY <1>1, <1>2, <2>1 DEF Matches, Visible
<1>4. Matches(b, name) \subseteq 0 .. i - 1 /\ Matches(a, name) \subseteq 0 .. i - 1
  BY DEF Matches, Visible
<1>5. h \notin Matches(a, name)
  BY DEF Matches
<1> QED
  BY <1>1, <1>3, <1>4, <1>5

LEMMA ErasedAgrees ==
  ASSUME NEW d, Sound(d), NEW q \in ProperPaths, Exists(d, q)
  PROVE  AgreeBut(d, Erased(d, q), q)
<1>1. PICK e, w, h : e = Erased(d, q) /\ w = Parent(d, q) /\ h = Min(Hits(d, q))
  OBVIOUS
<1>2. SUFFICES ASSUME NEW u \in Starts(d), NEW name \in Names, u # Dirent(d, q).clus,
                      u # w \/ name # Last(q)
               PROVE  Agree(d, e, u, name)
  BY <1>1 DEF AgreeBut
<1>3. Along(e, w) = [Along(d, w) EXCEPT ![h] = Deleted] /\ (u # w => Along(e, u) = Along(d, u))
  BY <1>1, <1>2, ErasedShows
<1>4. CASE u # w
  BY <1>3, <1>4 DEF Agree
<1>5. CASE u = w
  <2>1. PICK a, b : a = Along(d, w) /\ b = Along(e, w)
    OBVIOUS
  <2>2. PICK i \in Nat : DOMAIN a = 0 .. i - 1
    BY <2>1, ListingIs
  <2>3. h \in DOMAIN a /\ a[h] = Dirent(d, q)
    BY <1>1, <2>1, EntryIs DEF Dirent, Listing
  <2>4. a[h].kind = "entry" /\ a[h].name # name
    BY <1>2, <1>5, <2>3, EntryIs DEF Holds
  <2>5. DOMAIN b = DOMAIN a /\ \A m \in DOMAIN a : b[m] = IF m = h THEN Deleted ELSE a[m]
    BY <1>3, <2>1, <2>3
  <2>6. Matches(b, name) = Matches(a, name) /\ \A m \in Matches(a, name) : b[m] = a[m]
    BY <2>2, <2>3, <2>4, <2>5, MarkedMatches
  <2> QED
    BY <1>5, <2>1, <2>6 DEF Agree
<1> QED
  BY <1>4, <1>5

(* So it leaves every path alone that does not lead through the entry.     *)
PathsOver(p) == {SubSeq(p, 1, k) : k \in 1 .. Len(p)}

LEMMA AgreeOnTheWay ==
  ASSUME NEW d, Sound(d), NEW q \in ProperPaths, Exists(d, q), NEW e, AgreeBut(d, e, q),
         NEW p \in ProperPaths, q \notin PathsOver(p), NEW k \in 1 .. Len(p),
         Walk(d, SubSeq(p, 1, k - 1)) # 0
  PROVE  Agree(d, e, Walk(d, SubSeq(p, 1, k - 1)), p[k])
<1>1. p \in Seq(Names)
  BY DEF ProperPaths
<1>2. PICK g, u : g = SubSeq(p, 1, k - 1) /\ u = Walk(d, g) /\ u # 0
  <2>1. PICK g : g = SubSeq(p, 1, k - 1)
    OBVIOUS
  <2>2. Walk(d, g) # 0
    BY <2>1, Zenon
  <2> QED
    BY <2>1, <2>2
<1>3. g \in Seq(Names) /\ Append(g, p[k]) = SubSeq(p, 1, k) /\ p[k] \in Names /\ Len(g) = k - 1
  BY <1>1, <1>2, PrefixGrows, ElementOfSeq
<1>4. u \in Starts(d)
  BY <1>2, <1>3, WalkType
<1>5. g # q
  <2>1. CASE k = 1
    <3>1. Len(g) = 0 /\ Len(q) >= 1
      BY <1>3, <2>1, PathIs
    <3> QED
      BY <3>1
  <2>2. CASE k # 1
    <3>1. k - 1 \in 1 .. Len(p)
      BY <1>1, <2>2, LenProperties
    <3> QED
      BY <1>2, <3>1 DEF PathsOver
  <2> QED
    BY <2>1, <2>2
<1>6. u # Dirent(d, q).clus
  BY <1>2, <1>3, <1>5, WayPassesNoFile
<1>7. u # Parent(d, q) \/ p[k] # Last(q)
  <2> SUFFICES ASSUME u = Parent(d, q), p[k] = Last(q) PROVE FALSE
    OBVIOUS
  <2>1. /\ Front(q) \in Seq(Names) /\ u = Walk(d, Front(q)) /\ q = Append(Front(q), Last(q))
    BY ParentType, PathIs
  <2>2. g = Front(q)
    BY <1>2, <1>3, <2>1, WayIsKnown
  <2>3. q = SubSeq(p, 1, k)
    BY <1>3, <2>1, <2>2
  <2> QED
    BY <2>3 DEF PathsOver
<1> QED
  BY <1>2, <1>3, <1>4, <1>6, <1>7 DEF AgreeBut

LEMMA AgreeIsSame ==
  ASSUME NEW d, Sound(d), NEW q \in ProperPaths, Exists(d, q), NEW e, Sound(e), AgreeBut(d, e, q),
         NEW p \in ProperPaths, q \notin PathsOver(p)
  PROVE  /\ Exists(e, p) <=> Exists(d, p)
         /\ Exists(d, p) => Dirent(e, p) = Dirent(d, p)
<1>1. PICK f, w, x : f = Front(p) /\ w = Walk(d, f) /\ x = Last(p)
  OBVIOUS
<1>2. f \in Seq(Names) /\ Parent(d, p) = w /\ Parent(e, p) = Walk(e, f)
  BY <1>1, PathIs, ParentType
<1>3. Walk(e, f) = w
  <2> SUFFICES ASSUME Walk(e, f) # w PROVE FALSE
    OBVIOUS
  <2>1. PICK k \in 1 .. Len(f) : PartAt(d, e, f, k)
    BY <1>1, <1>2, WalksPart
  <2>2. SubSeq(f, 1, k - 1) = SubSeq(p, 1, k - 1) /\ f[k] = p[k] /\ k \in 1 .. Len(p) - 1
    BY <1>1, FrontSteps
  <2>3. PICK u, y : /\ u = Walk(d, SubSeq(p, 1, k - 1)) /\ y = p[k] /\ u # 0
                    /\ Entering(d, u, y) # Entering(e, u, y)
    BY <2>1, <2>2 DEF PartAt
  <2>4. k \in 1 .. Len(p)
    BY <2>2, PathIs
  <2>5. Agree(d, e, u, y)
    BY <2>3, <2>4, AgreeOnTheWay
  <2>6. PICK M : M = Matches(Along(d, u), y) /\ M = Matches(Along(e, u), y) /\ M \subseteq Nat
    <3>1. PICK i \in Nat : DOMAIN Along(d, u) = 0 .. i - 1
      BY ListingIs
    <3>2. Matches(Along(d, u), y) \subseteq Nat
      BY <3>1 DEF Matches, Visible
    <3> QED
      BY <2>5, <3>2 DEF Agree
  <2>7. M # {} => Along(e, u)[Min(M)] = Along(d, u)[Min(M)]
    BY <2>5, <2>6, LeastIs DEF Agree
  <2>8. Entering(d, u, y) = Entering(e, u, y)
    BY <2>6, <2>7 DEF Entering, StepInto
  <2> QED
    BY <2>3, <2>8
<1>4. CASE w = 0
  <2>1. ~Exists(d, p) /\ ~Exists(e, p)
    BY <1>2, <1>3, <1>4, NothingAlong DEF Exists, Hits, Listing, Matches, Visible
  <2> QED
    BY <2>1
<1>5. CASE w # 0
  <2>1. PICK k \in 1 .. Len(p) : SubSeq(p, 1, k - 1) = f /\ p[k] = x
    <3>1. Len(p) \in 1 .. Len(p)
      BY PathIs
    <3> QED
      BY <1>1, <3>1 DEF Front, Last
  <2>2. Agree(d, e, w, x)
    BY <1>1, <1>5, <2>1, AgreeOnTheWay
  <2>3. Hits(d, p) = Hits(e, p) /\ \A m \in Hits(d, p) : Listing(e, p)[m] = Listing(d, p)[m]
    BY <1>1, <1>2, <1>3, <2>2 DEF Agree, Hits, Listing
  <2>4. Hits(d, p) \subseteq Nat
    <3>1. PICK i \in Nat : DOMAIN Along(d, w) = 0 .. i - 1
      BY ListingIs
    <3> QED
      BY <1>2, <3>1 DEF Hits, Listing, Matches, Visible
  <2>5. Exists(d, p) => Min(Hits(d, p)) \in Hits(d, p)
    BY <2>4, LeastIs DEF Exists
  <2> QED
    BY <2>3, <2>5 DEF Exists, Dirent
<1> QED
  BY <1>4, <1>5

-----------------------------------------------------------------------------
(* What a file reads as.                                                   *)
LEMMA SameContent ==
  ASSUME NEW d, NEW e, NEW p, Dirent(e, p) = Dirent(d, p),
         Along(e, Dirent(d, p).clus) = Along(d, Dirent(d, p).clus)
  PROVE  Content(e, p) = Content(d, p)
BY DEF Content

LEMMA FileIsApart ==
  ASSUME NEW d, Sound(d), NEW p \in ProperPaths, IsFile(d, p), NEW q \in ProperPaths
  PROVE  /\ Dirent(d, p).clus \in Starts(d) /\ Dirent(d, p).clus # Parent(d, q)
         /\ Exists(d, q) /\ q # p => Dirent(d, p).clus # Dirent(d, q).clus
<1>1. Exists(d, p) /\ ~Dirent(d, p).dir
  BY DEF IsFile
<1>2. Front(q) \in Seq(Names) /\ Parent(d, q) = Walk(d, Front(q))
  BY PathIs, ParentType
<1> QED
  BY <1>1, <1>2, EntryIs, WayPassesNoFile, OnePath

LEMMA CreatedKeepsContent ==
  ASSUME NEW d, Sound(d), NEW p \in ProperPaths, IsFile(d, p), NEW q \in ProperPaths, NEW isDir \in BOOLEAN,
         NEW e, e = Created(d, q, isDir), Exists(e, p)
  PROVE  IsFile(e, p) /\ Content(e, p) = Content(d, p)
<1>1. Exists(d, p) /\ ~Dirent(d, p).dir
  BY DEF IsFile
<1>2. Dirent(e, p) = Dirent(d, p)
  BY <1>1, CreatedKeeps
<1>3. Along(e, Dirent(d, p).clus) = Along(d, Dirent(d, p).clus)
  <2>1. CASE Parent(d, q) = 0 \/ Exists(d, q) \/ FreeClusters(d) = {}
    BY <2>1 DEF Created
  <2>2. CASE ~(Parent(d, q) = 0 \/ Exists(d, q) \/ FreeClusters(d) = {})
    <3>1. \A u \in Starts(d) : u # Parent(d, q) => Along(e, u) = Along(d, u)
      BY <2>2, CreatedShows
    <3> QED
      BY <3>1, FileIsApart
  <2> QED
    BY <2>1, <2>2
<1> QED
  BY <1>1, <1>2, <1>3, SameContent DEF IsFile

LEMMA OverwriteKeepsContent ==
  ASSUME NEW d, Sound(d), NEW p \in ProperPaths, NEW q \in ProperPaths, Exists(d, q), q \notin PathsOver(p),
         NEW t \in Texts, NEW n \in Nat, NEW e, e = Overwrite(d, q, t, n), IsFile(e, p)
  PROVE  IsFile(d, p) /\ Content(e, p) = Content(d, p)
<1>1. Sound(e) /\ AgreeBut(d, e, q)
  BY OverwriteSound, OverwriteAgrees
<1>2. Exists(d, p) /\ Dirent(e, p) = Dirent(d, p) /\ IsFile(d, p)
  BY <1>1, AgreeIsSame DEF IsFile
<1>3. p # q
  <2>1. Len(p) \in 1 .. Len(p) /\ SubSeq(p, 1, Len(p)) = p
    BY PathIs, SubSeqFull DEF ProperPaths
  <2> QED
    BY <2>1 DEF PathsOver
<1>4. Along(e, Dirent(d, p).clus) = Along(d, Dirent(d, p).clus)
  <2>1. \A u \in Starts(d) : u # Parent(d, q) /\ u # Dirent(d, q).clus => Along(e, u) = Along(d, u)
    BY OverwriteShows
  <2> QED
    BY <1>2, <1>3, <2>1, FileIsApart
<1> QED
  BY <1>2, <1>4, SameContent

LEMMA ErasedKeepsContent ==
  ASSUME NEW d, Sound(d), NEW p \in ProperPaths, NEW q \in ProperPaths, Exists(d, q), q \notin PathsOver(p),
         NEW e, e = Erased(d, q), IsFile(d, p)
  PROVE  Content(e, p) = Content(d, p)
<1>1. Sound(e) /\ AgreeBut(d, e, q)
  BY ErasedSound, ErasedAgrees
<1>2. Dirent(e, p) = Dirent(d, p)
  BY <1>1, AgreeIsSame DEF IsFile
<1>3. p # q
  <2>1. Len(p) \in 1 .. Len(p) /\ SubSeq(p, 1, Len(p)) = p
    BY PathIs, SubSeqFull DEF ProperPaths
  <2> QED
    BY <2>1 DEF PathsOver
<1>4. Along(e, Dirent(d, p).clus) = Along(d, Dirent(d, p).clus)
  <2>1. \A u \in Starts(d) : u # Parent(d, q) /\ u # Dirent(d, q).clus => Along(e, u) = Along(d, u)
    BY ErasedShows
  <2> QED
    BY <1>3, <2>1, FileIsApart
<1> QED
  BY <1>2, <1>4, SameContent

LEMMA NextKeepsContent ==
  ASSUME Sound(disk), Next, NEW p \in Paths, IsFile(disk, p), IsFile(disk', p),
         Content(disk', p) # Content(disk, p)
  PROVE  \E q \in {SubSeq(p, 1, k) : k \in 1 .. Len(p)} :
           \/ disk' = Erased(disk, q)
           \/ \E t \in Texts, n \in Lengths : disk' = WriteTo(disk, q, t, n)
<1>1. (\A q \in Paths : q \in ProperPaths) /\ \A n \in Lengths : n \in Nat
  BY Fat32Assumption DEF ProperPaths
<1>2. PICK e : e = disk'
  OBVIOUS
<1>3. IsFile(e, p) /\ Content(e, p) # Content(disk, p) /\ Exists(e, p)
  BY <1>2 DEF IsFile
<1>4. ASSUME NEW q \in Paths, NEW isDir \in BOOLEAN, Create(q, isDir) PROVE FALSE
  <2>1. e = Created(disk, q, isDir)
    BY <1>2, <1>4 DEF Create
  <2> QED
    BY <1>1, <1>3, <2>1, CreatedKeepsContent
<1>5. ASSUME NEW q \in Paths, NEW t \in Texts, NEW n \in Lengths, Write(q, t, n), q \notin PathsOver(p)
      PROVE  FALSE
  <2>1. PICK d : d = Created(disk, q, FALSE)
    OBVIOUS
  <2>2. Sound(d) /\ e = PutInto(d, q, t, n)
    BY <1>1, <1>2, <1>5, <2>1, CreatedSound DEF Write, WriteTo
  <2>3. IsFile(d, p) /\ Content(e, p) = Content(d, p)
    <3>1. CASE Exists(d, q)
      <4>1. e = Overwrite(d, q, t, n)
        BY <2>2, <3>1 DEF PutInto
      <4> QED
        BY <1>1, <1>3, <1>5, <2>2, <3>1, <4>1, OverwriteKeepsContent
    <3>2. CASE ~Exists(d, q)
      BY <1>3, <2>2, <3>2 DEF PutInto
    <3> QED
      BY <3>1, <3>2
  <2>4. Content(d, p) = Content(disk, p)
    <3>1. /\ Exists(d, p) /\ p \in ProperPaths /\ q \in ProperPaths /\ FALSE \in BOOLEAN
          /\ Sound(disk) /\ IsFile(disk, p)
      BY <1>1, <2>3 DEF IsFile
    <3> QED
      BY <2>1, <3>1, CreatedKeepsContent, ZenonT(40)
  <2> QED
    BY <1>3, <2>3, <2>4
<1>6. ASSUME NEW q \in Paths, Delete(q), q \notin PathsOver(p) PROVE FALSE
  <2>1. Exists(disk, q) /\ e = Erased(disk, q)
    BY <1>2, <1>6 DEF Delete
  <2> QED
    BY <1>1, <1>3, <1>6, <2>1, ErasedKeepsContent
<1>7. PICK q \in Paths :
        \/ \E t \in Texts, n \in Lengths : Write(q, t, n) /\ q \in PathsOver(p)
        \/ Delete(q) /\ q \in PathsOver(p)
  BY <1>4, <1>5, <1>6 DEF Next
<1> QED
  BY <1>7 DEF PathsOver, Write, Delete

-----------------------------------------------------------------------------
DiskIsSound == Sound(disk)

LEMMA InitSound == ASSUME Init PROVE Sound(disk)
<1>1. disk \in Disks
  BY BlankType, ClustersAre DEF Init, Disks
<1>2. /\ disk.fat = [c \in Clusters |-> IF c = RootClus THEN EOC ELSE FREE]
      /\ disk.cells = [c \in Clusters |-> Blank]
  BY DEF Init
<1>3. \A q \in Places : ~Holds(disk, q)
  BY <1>2, BlankType DEF Places, Holds, In
<1> QED
  BY <1>1, <1>2, <1>3, ClustersAre DEF Sound, OneWayIn

LEMMA NextSound == ASSUME Sound(disk), [Next]_disk PROVE Sound(disk')
<1>1. \A p \in Paths : p \in ProperPaths
  BY Fat32Assumption DEF ProperPaths
<1>2. \A n \in Lengths : n \in Nat
  BY Fat32Assumption
<1>3. ASSUME NEW p \in Paths, NEW isDir \in BOOLEAN, Create(p, isDir) PROVE Sound(disk')
  BY <1>1, <1>3, CreatedSound DEF Create
<1>4. ASSUME NEW p \in Paths, NEW t \in Texts, NEW n \in Lengths, Write(p, t, n) PROVE Sound(disk')
  BY <1>1, <1>2, <1>4, WriteToSound DEF Write
<1>5. ASSUME NEW p \in Paths, Delete(p) PROVE Sound(disk')
  BY <1>1, <1>5, ErasedSound DEF Delete
<1>6. CASE UNCHANGED disk
  BY <1>6
<1> QED
  BY <1>3, <1>4, <1>5, <1>6 DEF Next

(* fat32_create, fat32_write and fat32_delete never let two names reach    *)
(* one cluster, and no chain runs into itself or into a free cluster,      *)
(* however large the disk, however deep the paths and however often they   *)
(* fail half way.                                                          *)
THEOREM ChainsStayApart == Spec => []ChainsAreDisjoint
<1>1. Init => DiskIsSound
  BY InitSound DEF DiskIsSound
<1>2. DiskIsSound /\ [Next]_disk => DiskIsSound'
  BY NextSound DEF DiskIsSound
<1>3. DiskIsSound => ChainsAreDisjoint
  BY SoundIsDisjoint DEF DiskIsSound
<1> QED
  BY <1>1, <1>2, <1>3, PTL DEF Spec

(* With two free clusters fat32_create finds a place in every directory    *)
(* there is, on disks and directories of every size; and where nothing was *)
(* deleted no path is lost, neither in the directory nor elsewhere.        *)
THEOREM RoomIsFound == Spec => []CreateFindsRoom
<1>1. Init => DiskIsSound
  BY InitSound DEF DiskIsSound
<1>2. DiskIsSound /\ [Next]_disk => DiskIsSound'
  BY NextSound DEF DiskIsSound
<1>3. DiskIsSound => CreateFindsRoom
  BY SoundFindsRoom DEF DiskIsSound
<1> QED
  BY <1>1, <1>2, <1>3, PTL DEF Spec

(* Whatever was created, written and deleted before, what fat32_write had  *)
(* room for is what fat32_read returns, cell by cell and in every length.  *)
THEOREM WritesReadBack == Spec => []WriteReadsBack
<1>1. Init => DiskIsSound
  BY InitSound DEF DiskIsSound
<1>2. DiskIsSound /\ [Next]_disk => DiskIsSound'
  BY NextSound DEF DiskIsSound
<1>3. DiskIsSound => WriteReadsBack
  BY SoundReadsBack DEF DiskIsSound
<1> QED
  BY <1>1, <1>2, <1>3, PTL DEF Spec

(* No call changes what a file reads as unless it writes or deletes that   *)
(* file or a directory on the way to it: not one that takes over clusters, *)
(* fails half way, ends a directory early or lets hidden entries come back.*)
THEOREM OthersAreKept == Spec => OthersKeepTheirContent
<1>1. Init => DiskIsSound
  BY InitSound DEF DiskIsSound
<1>2. DiskIsSound /\ [Next]_disk => DiskIsSound'
  BY NextSound DEF DiskIsSound
<1>3. DiskIsSound /\ [Next]_disk =>
        [\A p \in Paths :
           IsFile(disk, p) /\ IsFile(disk', p) /\ Content(disk', p) # Content(disk, p)
           => \E q \in {SubSeq(p, 1, k) : k \in 1 .. Len(p)} :
                \/ disk' = Erased(disk, q)
                \/ \E t \in Texts, n \in Lengths : disk' = WriteTo(disk, q, t, n)]_disk
  BY NextKeepsContent DEF DiskIsSound
<1> QED
  BY <1>1, <1>2, <1>3, PTL DEF Spec, OthersKeepTheirContent


-----------------------------------------------------------------------------
(* The names.  Texts are sequences of characters.                         *)
Char == STRING \cup {"A", "B", "."}
NameTexts == Seq(Char)

(* One character in capitals.                                              *)
Capital(c) == CASE c = "a" -> "A" [] c = "b" -> "B" [] OTHER -> c

LEMMA CapitalIs ==
  ASSUME NEW c \in Char
  PROVE  /\ Capital(c) \in Char /\ Capital(Capital(c)) = Capital(c)
         /\ Capital(c) = "." <=> c = "."
<1>1. CASE c = "a"
  <2>1. Capital("a") = "A" /\ Capital("A") = "A"
    BY DEF Capital
  <2>2. Capital(c) = "A" /\ Capital(Capital(c)) = "A"
    BY <1>1, <2>1
  <2>3. "A" \in Char
    BY DEF Char
  <2>4. Capital(c) # "." /\ c # "."
    BY <1>1, <2>2
  <2> QED
    BY <2>2, <2>3, <2>4
<1>2. CASE c = "b"
  <2>1. Capital("b") = "B" /\ Capital("B") = "B"
    BY DEF Capital
  <2>2. Capital(c) = "B" /\ Capital(Capital(c)) = "B"
    BY <1>2, <2>1
  <2>3. "B" \in Char
    BY DEF Char
  <2>4. Capital(c) # "." /\ c # "."
    BY <1>2, <2>2
  <2> QED
    BY <2>2, <2>3, <2>4
<1>3. CASE c # "a" /\ c # "b"
  <2>1. Capital(c) = c
    BY <1>3 DEF Capital
  <2> QED
    BY <2>1
<1> QED
  BY <1>1, <1>2, <1>3

LEMMA UpperIs ==
  ASSUME NEW s \in NameTexts
  PROVE  /\ DosNames!Upper(s) \in NameTexts /\ Len(DosNames!Upper(s)) = Len(s)
         /\ \A i \in 1 .. Len(s) : DosNames!Upper(s)[i] = Capital(s[i])
<1>1. Len(s) \in Nat /\ DOMAIN s = 1 .. Len(s) /\ \A i \in 1 .. Len(s) : s[i] \in Char
  BY LenProperties, ElementOfSeq DEF NameTexts
<1>2. DosNames!Upper(s) = [i \in 1 .. Len(s) |-> Capital(s[i])]
  BY <1>1 DEF DosNames!Upper, Capital
<1>3. \A i \in 1 .. Len(s) : Capital(s[i]) \in Char
  BY <1>1, CapitalIs
<1> QED
  BY <1>1, <1>2, <1>3 DEF NameTexts

(* Capitals of a text in capitals, and of a part of a text.                *)
InCapitals(s) == \A i \in 1 .. Len(s) : Capital(s[i]) = s[i]

LEMMA UpperAgain ==
  ASSUME NEW s \in NameTexts
  PROVE  InCapitals(DosNames!Upper(s)) /\ (InCapitals(s) => DosNames!Upper(s) = s)
<1>1. PICK u : u = DosNames!Upper(s) /\ u \in NameTexts /\ Len(u) = Len(s)
               /\ \A i \in 1 .. Len(s) : u[i] = Capital(s[i])
  BY UpperIs
<1>2. \A i \in 1 .. Len(s) : s[i] \in Char
  BY ElementOfSeq DEF NameTexts
<1>3. \A i \in 1 .. Len(u) : Capital(u[i]) = u[i]
  BY <1>1, <1>2, CapitalIs
<1>4. ASSUME InCapitals(s) PROVE u = s
  <2>1. \A i \in 1 .. Len(u) : u[i] = s[i]
    BY <1>1, <1>4 DEF InCapitals
  <2> QED
    BY <1>1, <2>1, SeqEqual DEF NameTexts
<1> QED
  BY <1>1, <1>3, <1>4 DEF InCapitals

(* The first n characters, or all of them.                                 *)
LEMMA CutIs ==
  ASSUME NEW s \in NameTexts, NEW n \in Nat
  PROVE  /\ DosNames!Cut(s, n) \in NameTexts /\ Len(DosNames!Cut(s, n)) <= n /\ Len(DosNames!Cut(s, n)) <= Len(s)
         /\ \A i \in 1 .. Len(DosNames!Cut(s, n)) : DosNames!Cut(s, n)[i] = s[i]
         /\ Len(s) <= n => DosNames!Cut(s, n) = s
<1>1. PICK l \in Nat : l = Len(s)
  BY LenProperties DEF NameTexts
<1>2. PICK m \in Nat : m = (IF l < n THEN l ELSE n) /\ m <= l /\ m <= n /\ (l <= n => m = l)
  BY <1>1
<1>3. DosNames!Cut(s, n) = SubSeq(s, 1, m)
  BY <1>1, <1>2 DEF DosNames!Cut
<1>4. s \in Seq(Char) /\ 1 \in 1 .. Len(s) + 1 /\ m \in 1 - 1 .. Len(s)
  BY <1>1, <1>2 DEF NameTexts
<1>5. /\ SubSeq(s, 1, m) \in Seq(Char) /\ Len(SubSeq(s, 1, m)) = m - 1 + 1
      /\ \A i \in 1 .. m - 1 + 1 : SubSeq(s, 1, m)[i] = s[1 + i - 1]
  BY <1>4, PartIs
<1>6. m - 1 + 1 = m /\ \A i \in 1 .. m : 1 + i - 1 = i
  OBVIOUS
<1>7. Len(s) <= n => SubSeq(s, 1, m) = s
  BY <1>1, <1>2, <1>4, SubSeqFull
<1> QED
  BY <1>1, <1>2, <1>3, <1>5, <1>6, <1>7 DEF NameTexts

(* The stem goes up to the first dot.                                      *)
StopsAt(s, n) ==
  /\ n \in 0 .. Len(s) /\ \A i \in 1 .. n : s[i] # "."
  /\ n < Len(s) => s[n + 1] = "."

LEMMA StemIs ==
  ASSUME NEW s \in NameTexts
  PROVE  \E n \in 0 .. Len(s) : StopsAt(s, n) /\ DosNames!Stem(s) = SubSeq(s, 1, n)
<1>1. PICK l \in Nat : l = Len(s)
  BY LenProperties DEF NameTexts
<1>2. PICK Dots : Dots = {i \in 1 .. l : s[i] = "."} \cup {l + 1}
  OBVIOUS
<1>3. Dots \subseteq Nat /\ Dots # {}
  BY <1>1, <1>2
<1>4. PICK m : m = Min(Dots) /\ m \in Dots /\ \A x \in Dots : m <= x
  BY <1>3, LeastIs
<1>5. m \in 1 .. l + 1
  BY <1>1, <1>2, <1>4
<1>6. PICK n \in 0 .. l : n = m - 1
  BY <1>5
<1>7. \A i \in 1 .. n : s[i] # "."
  BY <1>2, <1>4, <1>5, <1>6
<1>8. n < l => s[n + 1] = "."
  BY <1>2, <1>4, <1>5, <1>6
<1>9. DosNames!Stem(s) = SubSeq(s, 1, n)
  <2>1. DosNames!Stem(s) = SubSeq(s, 1, Min({i \in 1 .. Len(s) : s[i] = "."} \cup {Len(s) + 1}) - 1)
    BY DEF DosNames!Stem, Min, DosNames!Min
  <2> QED
    BY <1>1, <1>2, <1>4, <1>6, <2>1
<1> QED
  BY <1>1, <1>6, <1>7, <1>8, <1>9 DEF StopsAt

LEMMA OneStop ==
  ASSUME NEW s \in NameTexts, NEW n, NEW m, StopsAt(s, n), StopsAt(s, m)
  PROVE  n = m
<1>1. PICK l \in Nat : l = Len(s)
  BY LenProperties DEF NameTexts
<1>2. n \in 0 .. l /\ m \in 0 .. l
  BY <1>1 DEF StopsAt
<1>3. ~(n < m)
  BY <1>1, <1>2 DEF StopsAt
<1>4. ~(m < n)
  BY <1>1, <1>2 DEF StopsAt
<1> QED
  BY <1>2, <1>3, <1>4

-----------------------------------------------------------------------------
(* Entries.  Packing what is unpacked gives the entry back.                *)
IsEntry(e) ==
  /\ e = [name |-> e.name, ext |-> e.ext]
  /\ e.name \in NameTexts /\ Len(e.name) <= NameMax /\ InCapitals(e.name)
  /\ \A i \in 1 .. Len(e.name) : e.name[i] # "."
  /\ e.ext \in NameTexts /\ Len(e.ext) <= ExtMax /\ InCapitals(e.ext)

(* What stands behind the dot.                                             *)
LEMMA RestIs ==
  ASSUME NEW s \in NameTexts, NEW n \in 0 .. Len(s)
  PROVE  /\ SubSeq(s, n + 2, Len(s)) \in NameTexts
         /\ n < Len(s) => /\ Len(SubSeq(s, n + 2, Len(s))) = Len(s) - n - 1
                          /\ \A i \in 1 .. Len(s) - n - 1 : SubSeq(s, n + 2, Len(s))[i] = s[n + 1 + i]
         /\ n = Len(s) => SubSeq(s, n + 2, Len(s)) = << >>
<1>1. PICK l \in Nat : l = Len(s)
  BY LenProperties DEF NameTexts
<1>2. CASE n < l
  <2>1. s \in Seq(Char) /\ n + 2 \in 1 .. Len(s) + 1 /\ l \in (n + 2) - 1 .. Len(s)
    BY <1>1, <1>2 DEF NameTexts
  <2>2. /\ SubSeq(s, n + 2, l) \in Seq(Char) /\ Len(SubSeq(s, n + 2, l)) = l - (n + 2) + 1
        /\ \A i \in 1 .. l - (n + 2) + 1 : SubSeq(s, n + 2, l)[i] = s[(n + 2) + i - 1]
    BY <2>1, PartIs
  <2>3. l - (n + 2) + 1 = l - n - 1 /\ \A i \in 1 .. l - n - 1 : (n + 2) + i - 1 = n + 1 + i
    BY <1>1
  <2> QED
    BY <1>1, <1>2, <2>2, <2>3 DEF NameTexts
<1>3. CASE n = l
  <2>1. n + 2 \in Int /\ l \in Int /\ l < n + 2
    BY <1>3
  <2>2. SubSeq(s, n + 2, l) = << >>
    BY <2>1, SubSeqEmpty
  <2> QED
    BY <1>1, <1>3, <2>2, EmptySeq DEF NameTexts
<1> QED
  BY <1>1, <1>2, <1>3

(* pack_83, by where the first dot is.                                     *)
LEMMA PackIs ==
  ASSUME DosNames!NameConstants, NEW s \in NameTexts, NEW n, StopsAt(s, n)
  PROVE  DosNames!Pack(s) = [name |-> DosNames!Cut(DosNames!Upper(SubSeq(s, 1, n)), NameMax),
                      ext |-> IF n > NameMax THEN << >>
                              ELSE DosNames!Cut(DosNames!Upper(SubSeq(s, n + 2, Len(s))), ExtMax)]
<1>1. PICK m \in 0 .. Len(s) : StopsAt(s, m) /\ DosNames!Stem(s) = SubSeq(s, 1, m)
  BY StemIs
<1>2. m = n
  BY <1>1, OneStop
<1>3. Len(SubSeq(s, 1, n)) = n
  <2>1. PICK l \in Nat : l = Len(s)
    BY LenProperties DEF NameTexts
  <2>2. s \in Seq(Char) /\ 1 \in 1 .. Len(s) + 1 /\ n \in 1 - 1 .. Len(s)
    BY <1>1, <1>2, <2>1 DEF NameTexts
  <2>3. Len(SubSeq(s, 1, n)) = n - 1 + 1
    BY <2>2, PartIs
  <2> QED
    BY <1>1, <1>2, <2>1, <2>3
<1> QED
  BY <1>1, <1>2, <1>3 DEF DosNames!Pack

LEMMA StemText ==
  ASSUME NEW s \in NameTexts, NEW n, StopsAt(s, n)
  PROVE  /\ SubSeq(s, 1, n) \in NameTexts /\ Len(SubSeq(s, 1, n)) = n
         /\ \A i \in 1 .. n : SubSeq(s, 1, n)[i] = s[i] /\ s[i] # "."
<1>1. PICK l \in Nat : l = Len(s)
  BY LenProperties DEF NameTexts
<1>2. s \in Seq(Char) /\ 1 \in 1 .. Len(s) + 1 /\ n \in 1 - 1 .. Len(s) /\ n \in Nat
  BY <1>1 DEF NameTexts, StopsAt
<1>3. /\ SubSeq(s, 1, n) \in Seq(Char) /\ Len(SubSeq(s, 1, n)) = n - 1 + 1
      /\ \A i \in 1 .. n - 1 + 1 : SubSeq(s, 1, n)[i] = s[1 + i - 1]
  BY <1>2, PartIs
<1>4. n - 1 + 1 = n /\ \A i \in 1 .. n : 1 + i - 1 = i
  BY <1>2
<1> QED
  BY <1>3, <1>4 DEF NameTexts, StopsAt

LEMMA CutCapitals ==
  ASSUME NEW s \in NameTexts, NEW n \in Nat
  PROVE  /\ DosNames!Cut(DosNames!Upper(s), n) \in NameTexts /\ Len(DosNames!Cut(DosNames!Upper(s), n)) <= n
         /\ Len(DosNames!Cut(DosNames!Upper(s), n)) <= Len(s) /\ InCapitals(DosNames!Cut(DosNames!Upper(s), n))
         /\ \A i \in 1 .. Len(DosNames!Cut(DosNames!Upper(s), n)) : DosNames!Cut(DosNames!Upper(s), n)[i] = Capital(s[i])
         /\ Len(s) <= n => DosNames!Cut(DosNames!Upper(s), n) = DosNames!Upper(s)
<1>1. PICK u : u = DosNames!Upper(s) /\ u \in NameTexts /\ Len(u) = Len(s)
               /\ (\A i \in 1 .. Len(s) : u[i] = Capital(s[i])) /\ InCapitals(u)
  BY UpperIs, UpperAgain
<1>2. PICK c : /\ c = DosNames!Cut(u, n) /\ c \in NameTexts /\ Len(c) <= n /\ Len(c) <= Len(u)
               /\ \A i \in 1 .. Len(c) : c[i] = u[i]
               /\ Len(u) <= n => c = u
  BY <1>1, CutIs
<1>3. Len(c) \in Nat /\ Len(u) \in Nat
  BY <1>1, <1>2, LenProperties DEF NameTexts
<1>4. \A i \in 1 .. Len(c) : i \in 1 .. Len(u)
  BY <1>2, <1>3
<1> QED
  BY <1>1, <1>2, <1>4 DEF InCapitals

LEMMA PackedIsEntry ==
  ASSUME DosNames!NameConstants, NEW s \in NameTexts
  PROVE  IsEntry(DosNames!Pack(s))
<1>1. PICK n \in 0 .. Len(s) : StopsAt(s, n)
  BY StemIs
<1>2. NameMax \in Nat /\ ExtMax \in Nat
  BY DEF DosNames!NameConstants
<1>11. PICK a : a = SubSeq(s, 1, n)
  OBVIOUS
<1>3. a \in NameTexts /\ Len(a) = n /\ \A i \in 1 .. n : a[i] = s[i] /\ s[i] # "."
  <2>1. /\ SubSeq(s, 1, n) \in NameTexts /\ Len(SubSeq(s, 1, n)) = n
        /\ \A i \in 1 .. n : SubSeq(s, 1, n)[i] = s[i] /\ s[i] # "."
    BY <1>1, StemText
  <2> QED
    BY <1>11, <2>1
<1>4. PICK b : b = SubSeq(s, n + 2, Len(s)) /\ b \in NameTexts
  BY RestIs
<1>5. PICK x : /\ x = DosNames!Cut(DosNames!Upper(a), NameMax) /\ x \in NameTexts /\ Len(x) <= NameMax /\ Len(x) <= Len(a)
               /\ InCapitals(x) /\ \A i \in 1 .. Len(x) : x[i] = Capital(a[i])
  <2>1. /\ DosNames!Cut(DosNames!Upper(a), NameMax) \in NameTexts /\ Len(DosNames!Cut(DosNames!Upper(a), NameMax)) <= NameMax
        /\ Len(DosNames!Cut(DosNames!Upper(a), NameMax)) <= Len(a) /\ InCapitals(DosNames!Cut(DosNames!Upper(a), NameMax))
        /\ \A i \in 1 .. Len(DosNames!Cut(DosNames!Upper(a), NameMax)) :
             DosNames!Cut(DosNames!Upper(a), NameMax)[i] = Capital(a[i])
    BY <1>2, <1>3, CutCapitals
  <2>2. PICK x : x = DosNames!Cut(DosNames!Upper(a), NameMax)
    OBVIOUS
  <2> QED
    BY <2>1, <2>2
<1>6. PICK y : y = DosNames!Cut(DosNames!Upper(b), ExtMax) /\ y \in NameTexts /\ Len(y) <= ExtMax /\ InCapitals(y)
  BY <1>2, <1>4, CutCapitals
<1>7. \A i \in 1 .. Len(x) : x[i] # "."
  <2>1. Len(x) \in Nat /\ n \in Nat
    BY <1>5, LenProperties DEF NameTexts
  <2>2. \A i \in 1 .. Len(x) : i \in 1 .. n /\ s[i] \in Char
    BY <1>3, <1>5, <2>1, ElementOfSeq DEF NameTexts
  <2> QED
    BY <1>3, <1>5, <2>2, CapitalIs
<1>8. << >> \in NameTexts /\ Len(<< >>) = 0 /\ InCapitals(<< >>)
  BY EmptySeq DEF NameTexts, InCapitals
<1>9. PICK z : z = (IF n > NameMax THEN << >> ELSE y) /\ z \in NameTexts /\ Len(z) <= ExtMax /\ InCapitals(z)
  BY <1>2, <1>6, <1>8
<1>10. DosNames!Pack(s) = [name |-> x, ext |-> z]
  BY <1>1, <1>4, <1>5, <1>6, <1>9, <1>11, PackIs
<1> QED
  BY <1>5, <1>7, <1>9, <1>10 DEF IsEntry

LEMMA UnpackIs ==
  ASSUME NEW e, IsEntry(e)
  PROVE  /\ DosNames!Unpack(e) \in NameTexts
         /\ e.ext = << >> => DosNames!Unpack(e) = e.name
         /\ e.ext # << >> => /\ Len(DosNames!Unpack(e)) = Len(e.name) + 1 + Len(e.ext)
                             /\ \A i \in 1 .. Len(e.name) : DosNames!Unpack(e)[i] = e.name[i]
                             /\ DosNames!Unpack(e)[Len(e.name) + 1] = "."
                             /\ \A i \in 1 .. Len(e.ext) : DosNames!Unpack(e)[Len(e.name) + 1 + i] = e.ext[i]
<1>1. PICK x, y : x = e.name /\ y = e.ext /\ x \in NameTexts /\ y \in NameTexts
  BY DEF IsEntry
<1>2. PICK l \in Nat, k \in Nat : l = Len(x) /\ k = Len(y)
  BY <1>1, LenProperties DEF NameTexts
<1>3. PICK dot : dot = <<".">> /\ dot \in Seq(Char) /\ Len(dot) = 1 /\ dot[1] = "."
  <2>1. "." \in Char
    BY DEF Char
  <2>2. <<".">> \in Seq(Char) /\ Len(<<".">>) = 1 /\ <<".">>[1] = "."
    BY <2>1
  <2> QED
    BY <2>2
<1>4. PICK u : u = x \o dot
  OBVIOUS
<1>5. /\ u \in Seq(Char) /\ Len(u) = l + 1
      /\ \A i \in 1 .. l + 1 : u[i] = IF i <= l THEN x[i] ELSE dot[i - l]
  <2>1. x \in Seq(Char) /\ dot \in Seq(Char)
    BY <1>1, <1>3 DEF NameTexts
  <2>2. /\ x \o dot \in Seq(Char) /\ Len(x \o dot) = Len(x) + Len(dot)
        /\ \A i \in 1 .. Len(x) + Len(dot) : (x \o dot)[i] = IF i <= Len(x) THEN x[i] ELSE dot[i - Len(x)]
    BY <2>1, ConcatProperties
  <2> QED
    BY <1>2, <1>3, <1>4, <2>2
<1>6. PICK w : w = u \o y
  OBVIOUS
<1>7. /\ w \in Seq(Char) /\ Len(w) = l + 1 + k
      /\ \A i \in 1 .. l + 1 + k : w[i] = IF i <= l + 1 THEN u[i] ELSE y[i - (l + 1)]
  <2>1. u \in Seq(Char) /\ y \in Seq(Char)
    BY <1>1, <1>5 DEF NameTexts
  <2>2. /\ u \o y \in Seq(Char) /\ Len(u \o y) = Len(u) + Len(y)
        /\ \A i \in 1 .. Len(u) + Len(y) : (u \o y)[i] = IF i <= Len(u) THEN u[i] ELSE y[i - Len(u)]
    BY <2>1, ConcatProperties
  <2> QED
    BY <1>2, <1>5, <1>6, <2>2
<1>8. DosNames!Unpack(e) = IF y = << >> THEN x ELSE w
  BY <1>1, <1>3, <1>4, <1>6 DEF DosNames!Unpack
<1>9. \A i \in 1 .. l : w[i] = x[i]
  BY <1>5, <1>7
<1>10. w[l + 1] = "."
  <2>1. ~(l + 1 <= l) /\ (l + 1) - l = 1 /\ l + 1 \in 1 .. l + 1 /\ l + 1 \in 1 .. l + 1 + k
    OBVIOUS
  <2> QED
    BY <1>3, <1>5, <1>7, <2>1
<1>11. ASSUME NEW i \in 1 .. k PROVE w[l + 1 + i] = y[i]
  <2>1. l + 1 + i \in 1 .. l + 1 + k /\ ~(l + 1 + i <= l + 1) /\ (l + 1 + i) - (l + 1) = i
    OBVIOUS
  <2> QED
    BY <1>7, <2>1
<1> QED
  BY <1>1, <1>2, <1>7, <1>8, <1>9, <1>10, <1>11 DEF NameTexts

(* Where the stem of what is unpacked ends.                                *)
LEMMA UnpackedStops ==
  ASSUME NEW e, IsEntry(e)
  PROVE  StopsAt(DosNames!Unpack(e), Len(e.name))
<1>1. PICK x, y : x = e.name /\ y = e.ext /\ x \in NameTexts /\ y \in NameTexts /\ \A i \in 1 .. Len(x) : x[i] # "."
  BY DEF IsEntry
<1>2. PICK l \in Nat, k \in Nat : l = Len(x) /\ k = Len(y)
  BY <1>1, LenProperties DEF NameTexts
<1>6. PICK w : w = DosNames!Unpack(e)
  OBVIOUS
<1>3. /\ w \in NameTexts
      /\ y = << >> => w = x
      /\ y # << >> => /\ Len(w) = l + 1 + k /\ w[l + 1] = "."
                      /\ \A i \in 1 .. l : w[i] = x[i]
  <2>1. /\ DosNames!Unpack(e) \in NameTexts
        /\ e.ext = << >> => DosNames!Unpack(e) = e.name
        /\ e.ext # << >> => /\ Len(DosNames!Unpack(e)) = Len(e.name) + 1 + Len(e.ext)
                            /\ \A i \in 1 .. Len(e.name) : DosNames!Unpack(e)[i] = e.name[i]
                            /\ DosNames!Unpack(e)[Len(e.name) + 1] = "."
                            /\ \A i \in 1 .. Len(e.ext) : DosNames!Unpack(e)[Len(e.name) + 1 + i] = e.ext[i]
    BY UnpackIs
  <2> QED
    BY <1>1, <1>2, <1>6, <2>1
<1>7. SUFFICES StopsAt(w, l)
  BY <1>1, <1>2, <1>6
<1>4. CASE y = << >>
  BY <1>1, <1>2, <1>3, <1>4 DEF StopsAt
<1>5. CASE y # << >>
  <2>1. l \in 0 .. Len(w)
    BY <1>3, <1>5
  <2>2. \A i \in 1 .. l : w[i] # "."
    BY <1>1, <1>2, <1>3, <1>5
  <2> QED
    BY <1>2, <1>3, <1>5, <2>1, <2>2 DEF StopsAt
<1> QED
  BY <1>4, <1>5

LEMMA PackedAgain ==
  ASSUME DosNames!NameConstants, NEW e, IsEntry(e)
  PROVE  DosNames!Pack(DosNames!Unpack(e)) = e
<1>1. PICK x, y : /\ x = e.name /\ y = e.ext /\ e = [name |-> x, ext |-> y]
                  /\ x \in NameTexts /\ Len(x) <= NameMax /\ InCapitals(x)
                  /\ y \in NameTexts /\ Len(y) <= ExtMax /\ InCapitals(y)
  BY DEF IsEntry
<1>2. PICK l \in Nat, k \in Nat : l = Len(x) /\ k = Len(y)
  BY <1>1, LenProperties DEF NameTexts
<1>3. PICK w : w = DosNames!Unpack(e)
  OBVIOUS
<1>4. /\ w \in NameTexts /\ StopsAt(w, l)
      /\ y = << >> => w = x
      /\ y # << >> => /\ Len(w) = l + 1 + k
                      /\ \A i \in 1 .. l : w[i] = x[i]
                      /\ \A i \in 1 .. k : w[l + 1 + i] = y[i]
  <2>1. /\ DosNames!Unpack(e) \in NameTexts
        /\ e.ext = << >> => DosNames!Unpack(e) = e.name
        /\ e.ext # << >> => /\ Len(DosNames!Unpack(e)) = Len(e.name) + 1 + Len(e.ext)
                            /\ \A i \in 1 .. Len(e.name) : DosNames!Unpack(e)[i] = e.name[i]
                            /\ DosNames!Unpack(e)[Len(e.name) + 1] = "."
                            /\ \A i \in 1 .. Len(e.ext) : DosNames!Unpack(e)[Len(e.name) + 1 + i] = e.ext[i]
    BY UnpackIs
  <2>2. StopsAt(DosNames!Unpack(e), Len(e.name))
    BY UnpackedStops
  <2> QED
    BY <1>1, <1>2, <1>3, <2>1, <2>2
<1>5. NameMax \in Nat /\ ExtMax \in Nat /\ ~(l > NameMax)
  BY <1>1, <1>2 DEF DosNames!NameConstants
<1>6. DosNames!Pack(w) = [name |-> DosNames!Cut(DosNames!Upper(SubSeq(w, 1, l)), NameMax),
                   ext |-> IF l > NameMax THEN << >>
                           ELSE DosNames!Cut(DosNames!Upper(SubSeq(w, l + 2, Len(w))), ExtMax)]
  BY <1>4, PackIs
<1>7. SubSeq(w, 1, l) = x
  <2>1. PICK a : a = SubSeq(w, 1, l)
    OBVIOUS
  <2>2. a \in NameTexts /\ Len(a) = l /\ \A i \in 1 .. l : a[i] = w[i] /\ w[i] # "."
    <3>1. /\ SubSeq(w, 1, l) \in NameTexts /\ Len(SubSeq(w, 1, l)) = l
          /\ \A i \in 1 .. l : SubSeq(w, 1, l)[i] = w[i] /\ w[i] # "."
      BY <1>4, StemText
    <3> QED
      BY <2>1, <3>1
  <2>3. \A i \in 1 .. Len(a) : a[i] = x[i]
    BY <1>4, <2>2
  <2>4. a = x
    BY <1>1, <1>2, <2>2, <2>3, SeqEqual DEF NameTexts
  <2> QED
    BY <2>1, <2>4
<1>8. SubSeq(w, l + 2, Len(w)) = y
  <2>1. PICK b : b = SubSeq(w, l + 2, Len(w))
    OBVIOUS
  <2>2. l \in 0 .. Len(w)
    BY <1>4 DEF StopsAt
  <2>3. /\ b \in NameTexts
        /\ l < Len(w) => Len(b) = Len(w) - l - 1 /\ \A i \in 1 .. Len(w) - l - 1 : b[i] = w[l + 1 + i]
        /\ l = Len(w) => b = << >>
    <3>1. /\ SubSeq(w, l + 2, Len(w)) \in NameTexts
          /\ l < Len(w) => /\ Len(SubSeq(w, l + 2, Len(w))) = Len(w) - l - 1
                           /\ \A i \in 1 .. Len(w) - l - 1 : SubSeq(w, l + 2, Len(w))[i] = w[l + 1 + i]
          /\ l = Len(w) => SubSeq(w, l + 2, Len(w)) = << >>
      BY <1>4, <2>2, RestIs
    <3> QED
      BY <2>1, <3>1
  <2>4. CASE y = << >>
    BY <1>2, <1>4, <2>1, <2>3, <2>4
  <2>5. CASE y # << >>
    <3>1. Len(w) - l - 1 = k /\ l < Len(w)
      BY <1>4, <2>5
    <3>2. Len(b) = k /\ \A i \in 1 .. k : b[i] = y[i]
      BY <1>4, <2>3, <2>5, <3>1
    <3>3. b = y
      BY <1>1, <1>2, <2>3, <3>2, SeqEqual DEF NameTexts
    <3> QED
      BY <2>1, <3>3
  <2> QED
    BY <2>4, <2>5
<1>9. DosNames!Cut(DosNames!Upper(x), NameMax) = x /\ DosNames!Cut(DosNames!Upper(y), ExtMax) = y
  <2>1. DosNames!Upper(x) = x /\ DosNames!Upper(y) = y
    BY <1>1, UpperAgain
  <2>2. DosNames!Cut(x, NameMax) = x /\ DosNames!Cut(y, ExtMax) = y
    BY <1>1, <1>5, CutIs
  <2> QED
    BY <2>1, <2>2
<1> QED
  BY <1>1, <1>3, <1>5, <1>6, <1>7, <1>8, <1>9

(* What is typed and fits is listed as it was typed, in capitals.          *)
LEMMA ListedAsTyped ==
  ASSUME DosNames!NameConstants, NEW s \in NameTexts, DosNames!Fits(s)
  PROVE  DosNames!Unpack(DosNames!Pack(s)) = DosNames!Upper(s)
<1>1. PICK n \in 0 .. Len(s) : StopsAt(s, n) /\ DosNames!Stem(s) = SubSeq(s, 1, n)
  BY StemIs
<1>2. PICK l \in Nat : l = Len(s)
  BY LenProperties DEF NameTexts
<1>3. PICK a, b : a = SubSeq(s, 1, n) /\ b = SubSeq(s, n + 2, l)
  OBVIOUS
<1>4. a \in NameTexts /\ Len(a) = n /\ \A i \in 1 .. n : a[i] = s[i]
  <2>1. /\ SubSeq(s, 1, n) \in NameTexts /\ Len(SubSeq(s, 1, n)) = n
        /\ \A i \in 1 .. n : SubSeq(s, 1, n)[i] = s[i] /\ s[i] # "."
    BY <1>1, StemText
  <2> QED
    BY <1>3, <2>1
<1>5. /\ b \in NameTexts
      /\ n < l => Len(b) = l - n - 1 /\ \A i \in 1 .. l - n - 1 : b[i] = s[n + 1 + i]
      /\ n = l => b = << >>
  <2>1. /\ SubSeq(s, n + 2, Len(s)) \in NameTexts
        /\ n < Len(s) => /\ Len(SubSeq(s, n + 2, Len(s))) = Len(s) - n - 1
                         /\ \A i \in 1 .. Len(s) - n - 1 : SubSeq(s, n + 2, Len(s))[i] = s[n + 1 + i]
        /\ n = Len(s) => SubSeq(s, n + 2, Len(s)) = << >>
    BY RestIs
  <2> QED
    BY <1>2, <1>3, <2>1
<1>6. /\ NameMax \in Nat /\ ExtMax \in Nat
      /\ n <= NameMax /\ l - n - 1 <= ExtMax /\ (s # << >> => n # l - 1)
  BY <1>1, <1>2, <1>3, <1>4 DEF DosNames!Fits, DosNames!NameConstants
<1>7. PICK x, y, u : x = DosNames!Upper(a) /\ y = DosNames!Upper(b) /\ u = DosNames!Upper(s)
  OBVIOUS
<1>8. x \in NameTexts /\ Len(x) = n /\ \A i \in 1 .. n : x[i] = Capital(a[i])
  BY <1>4, <1>7, UpperIs
<1>9. y \in NameTexts /\ Len(y) = Len(b) /\ \A i \in 1 .. Len(b) : y[i] = Capital(b[i])
  BY <1>5, <1>7, UpperIs
<1>10. u \in NameTexts /\ Len(u) = l /\ \A i \in 1 .. l : u[i] = Capital(s[i])
  BY <1>2, <1>7, UpperIs
<1>11. Len(y) <= ExtMax
  <2>1. CASE n < l
    BY <1>5, <1>6, <1>9, <2>1
  <2>2. CASE n = l
    BY <1>5, <1>6, <1>9, <2>2, EmptySeq
  <2> QED
    BY <1>2, <2>1, <2>2
<1>12. DosNames!Cut(x, NameMax) = x /\ DosNames!Cut(y, ExtMax) = y
  BY <1>6, <1>8, <1>9, <1>11, CutIs
<1>13. PICK e : e = DosNames!Pack(s) /\ IsEntry(e)
  BY PackedIsEntry
<1>14. e = [name |-> x, ext |-> y]
  <2>1. DosNames!Pack(s) = [name |-> DosNames!Cut(DosNames!Upper(SubSeq(s, 1, n)), NameMax),
                     ext |-> IF n > NameMax THEN << >>
                             ELSE DosNames!Cut(DosNames!Upper(SubSeq(s, n + 2, Len(s))), ExtMax)]
    BY <1>1, PackIs
  <2>2. ~(n > NameMax)
    BY <1>6
  <2> QED
    BY <1>2, <1>3, <1>7, <1>12, <1>13, <2>1, <2>2
<1>15. PICK w : w = DosNames!Unpack(e)
  OBVIOUS
<1>16. /\ w \in NameTexts
       /\ y = << >> => w = x
       /\ y # << >> => /\ Len(w) = n + 1 + Len(y)
                       /\ \A i \in 1 .. n : w[i] = x[i]
                       /\ w[n + 1] = "."
                       /\ \A i \in 1 .. Len(y) : w[n + 1 + i] = y[i]
  <2>1. /\ DosNames!Unpack(e) \in NameTexts
        /\ e.ext = << >> => DosNames!Unpack(e) = e.name
        /\ e.ext # << >> => /\ Len(DosNames!Unpack(e)) = Len(e.name) + 1 + Len(e.ext)
                            /\ \A i \in 1 .. Len(e.name) : DosNames!Unpack(e)[i] = e.name[i]
                            /\ DosNames!Unpack(e)[Len(e.name) + 1] = "."
                            /\ \A i \in 1 .. Len(e.ext) : DosNames!Unpack(e)[Len(e.name) + 1 + i] = e.ext[i]
    BY <1>13, UnpackIs
  <2>2. e.name = x /\ e.ext = y
    BY <1>14
  <2> QED
    BY <1>8, <1>15, <2>1, <2>2
<1>17. CASE n = l
  <2>1. y = << >>
    BY <1>5, <1>9, <1>17, EmptySeq DEF NameTexts
  <2>2. \A i \in 1 .. l : x[i] = u[i]
    BY <1>4, <1>8, <1>10, <1>17
  <2>3. x = u
    BY <1>8, <1>10, <1>17, <2>2, SeqEqual DEF NameTexts
  <2> QED
    BY <1>7, <1>13, <1>15, <1>16, <2>1, <2>3
<1>18. CASE n < l
  <2>1. n # l - 1
    BY <1>2, <1>6, <1>18, EmptySeq
  <2>2. PICK k \in Nat : k = l - n - 1 /\ k >= 1 /\ Len(y) = k /\ Len(b) = k
    BY <1>2, <1>5, <1>9, <1>18, <2>1
  <2>3. y # << >> /\ Len(w) = l
    BY <1>16, <2>2, EmptySeq
  <2>4. ASSUME NEW i \in 1 .. l PROVE w[i] = u[i]
    <3>1. CASE i <= n
      <4>1. i \in 1 .. n
        BY <3>1
      <4>2. w[i] = Capital(s[i])
        BY <1>4, <1>8, <1>16, <2>3, <4>1
      <4> QED
        BY <1>10, <4>2
    <3>2. CASE i = n + 1
      <4>1. s[i] = "." /\ "." \in Char
        BY <1>1, <1>2, <1>18, <3>2 DEF StopsAt, Char
      <4>2. Capital(s[i]) = "."
        BY <4>1, CapitalIs
      <4> QED
        BY <1>10, <1>16, <2>3, <3>2, <4>2
    <3>3. CASE i > n + 1
      <4>1. PICK j \in 1 .. k : j = i - n - 1 /\ n + 1 + j = i
        BY <2>2, <3>3
      <4>2. w[i] = y[j] /\ y[j] = Capital(b[j]) /\ b[j] = s[i]
        BY <1>5, <1>9, <1>16, <1>18, <2>2, <2>3, <4>1
      <4> QED
        BY <1>10, <4>2
    <3> QED
      BY <3>1, <3>2, <3>3
  <2>5. w = u
    BY <1>10, <1>16, <2>3, <2>4, SeqEqual DEF NameTexts
  <2> QED
    BY <1>7, <1>13, <1>15, <2>5
<1> QED
  BY <1>2, <1>17, <1>18

-----------------------------------------------------------------------------
(* The tree.  The invariant: every path in it is made of entries, and its  *)
(* last one is what the name that was typed packs to.                      *)
Entries == {e \in [name : NameTexts, ext : NameTexts] : IsEntry(e)}

LEMMA PackedIn ==
  ASSUME DosNames!NameConstants, NEW s \in NameTexts
  PROVE  DosNames!Pack(s) \in Entries
<1>1. PICK e : e = DosNames!Pack(s) /\ IsEntry(e)
  BY PackedIsEntry
<1>2. e \in [name : NameTexts, ext : NameTexts]
  BY <1>1 DEF IsEntry
<1> QED
  BY <1>1, <1>2 DEF Entries

NamesInv ==
  \A p \in DOMAIN tree :
    /\ p \in Seq(Entries) /\ p # << >>
    /\ tree[p].typed \in NameTexts /\ p[Len(p)] = DosNames!Pack(tree[p].typed)

LEMMA TypedPathIs ==
  ASSUME DosNames!NameConstants, NEW path \in DosNames!TypedPaths
  PROVE  path \in Seq(NameTexts) /\ path # << >>
<1>1. Typed \subseteq NameTexts
  <2>1. Typed \subseteq Seq(STRING) /\ STRING \subseteq Char
    BY DEF DosNames!NameConstants, Char
  <2>2. \A s \in Seq(STRING) : s \in Seq(Char)
    BY <2>1, SeqMonotonic
  <2> QED
    BY <2>1, <2>2 DEF NameTexts
<1>2. CASE path \in {<<a>> : a \in Typed}
  <2>1. PICK a \in Typed : path = <<a>>
    BY <1>2
  <2>2. a \in NameTexts
    BY <1>1
  <2>3. <<a>> \in Seq(NameTexts) /\ Len(<<a>>) = 1
    BY <2>2
  <2> QED
    BY <2>1, <2>3, EmptySeq
<1>3. CASE path \in {<<a, b>> : a \in Typed, b \in Typed}
  <2>1. PICK a \in Typed, b \in Typed : path = <<a, b>>
    BY <1>3
  <2>2. a \in NameTexts /\ b \in NameTexts
    BY <1>1
  <2>3. <<a, b>> \in Seq(NameTexts) /\ Len(<<a, b>>) = 2
    BY <2>2
  <2> QED
    BY <2>1, <2>3, EmptySeq
<1> QED
  BY <1>2, <1>3 DEF DosNames!TypedPaths

LEMMA PackedPathIs ==
  ASSUME DosNames!NameConstants, NEW path \in Seq(NameTexts), path # << >>
  PROVE  /\ DosNames!Packed(path) \in Seq(Entries) /\ DosNames!Packed(path) # << >>
         /\ Len(DosNames!Packed(path)) = Len(path)
         /\ DosNames!Packed(path)[Len(path)] = DosNames!Pack(path[Len(path)])
<1>1. PICK n \in Nat \ {0} : n = Len(path)
  BY EmptySeq
<1>2. DOMAIN path = 1 .. n /\ \A i \in 1 .. n : path[i] \in NameTexts
  BY <1>1, LenProperties, ElementOfSeq
<1>3. PICK f : f = [i \in 1 .. n |-> DosNames!Pack(IF i = n THEN path[i] ELSE DosNames!Cut(path[i], NameMax))]
  OBVIOUS
<1>4. DosNames!Packed(path) = f
  BY <1>1, <1>2, <1>3 DEF DosNames!Packed
<1>5. ASSUME NEW i \in 1 .. n PROVE f[i] \in Entries
  <2>1. PICK t : t = IF i = n THEN path[i] ELSE DosNames!Cut(path[i], NameMax)
    OBVIOUS
  <2>2. t \in NameTexts
    <3>1. NameMax \in Nat
      BY DEF DosNames!NameConstants
    <3>2. path[i] \in NameTexts /\ DosNames!Cut(path[i], NameMax) \in NameTexts
      BY <1>2, <3>1, CutIs
    <3> QED
      BY <2>1, <3>2
  <2>3. f[i] = DosNames!Pack(t)
    BY <1>3, <2>1
  <2> QED
    BY <2>2, <2>3, PackedIn
<1>6. f \in [1 .. n -> Entries]
  BY <1>3, <1>5
<1>7. f \in Seq(Entries) /\ Len(f) = n
  BY <1>6
<1>8. f[n] = DosNames!Pack(path[n])
  BY <1>3
<1> QED
  BY <1>1, <1>4, <1>7, <1>8, EmptySeq

LEMMA NamesStart == DosNames!Init => NamesInv
BY DEF DosNames!Init, NamesInv

LEMMA NamesStep ==
  ASSUME DosNames!NameConstants, NamesInv, [DosNames!Next]_tree
  PROVE  NamesInv'
<1>1. CASE UNCHANGED tree
  BY <1>1 DEF NamesInv
<1>2. ASSUME NEW path \in DosNames!TypedPaths, NEW isDir \in BOOLEAN, DosNames!Create(path, isDir)
      PROVE  NamesInv'
  <2>1. PICK q : q = DosNames!Packed(path)
    OBVIOUS
  <2>2. tree' = [r \in DOMAIN tree \cup {q} |->
                   IF r = q THEN [typed |-> DosNames!Last(path), dir |-> isDir] ELSE tree[r]]
    BY <1>2, <2>1 DEF DosNames!Create
  <2>3. path \in Seq(NameTexts) /\ path # << >>
    BY TypedPathIs
  <2>4. q \in Seq(Entries) /\ q # << >> /\ Len(q) = Len(path) /\ q[Len(path)] = DosNames!Pack(path[Len(path)])
    BY <2>1, <2>3, PackedPathIs
  <2>5. DosNames!Last(path) = path[Len(path)] /\ path[Len(path)] \in NameTexts
    BY <2>3, EmptySeq, ElementOfSeq DEF DosNames!Last
  <2>6. ASSUME NEW p \in DOMAIN tree'
        PROVE  /\ p \in Seq(Entries) /\ p # << >>
               /\ tree'[p].typed \in NameTexts /\ p[Len(p)] = DosNames!Pack(tree'[p].typed)
    <3>1. CASE p = q
      <4>1. tree'[p].typed = path[Len(path)]
        BY <2>2, <2>5, <3>1
      <4> QED
        BY <2>4, <2>5, <3>1, <4>1
    <3>2. CASE p # q
      <4>1. p \in DOMAIN tree /\ tree'[p] = tree[p]
        BY <2>2, <2>6, <3>2
      <4> QED
        BY <4>1 DEF NamesInv
    <3> QED
      BY <3>1, <3>2
  <2> QED
    BY <2>6 DEF NamesInv
<1>3. ASSUME NEW path \in DosNames!TypedPaths, DosNames!Delete(path) PROVE NamesInv'
  <2>1. PICK keep : keep \subseteq DOMAIN tree /\ tree' = [p \in keep |-> tree[p]]
    BY <1>3 DEF DosNames!Delete, DosNames!Restrict
  <2> QED
    BY <2>1 DEF NamesInv
<1> QED
  BY <1>1, <1>2, <1>3 DEF DosNames!Next

LEMMA NamesLead ==
  ASSUME DosNames!NameConstants, NamesInv
  PROVE  DosNames!ListingsLeadBack
<1>1. SUFFICES ASSUME NEW p \in DOMAIN tree, NEW listed, listed = [i \in DOMAIN p |-> DosNames!Unpack(p[i])]
               PROVE  /\ DosNames!Fits(tree[p].typed) => DosNames!Last(listed) = DosNames!Upper(tree[p].typed)
                      /\ (\A i \in 1 .. Len(p) - 1 : Len(listed[i]) <= NameMax) => DosNames!Packed(listed) = p
  BY DEF DosNames!ListingsLeadBack
<1>2. p \in Seq(Entries) /\ p # << >> /\ tree[p].typed \in NameTexts /\ p[Len(p)] = DosNames!Pack(tree[p].typed)
  BY DEF NamesInv
<1>3. PICK n \in Nat \ {0} : n = Len(p)
  BY <1>2, EmptySeq
<1>4. DOMAIN p = 1 .. n /\ \A i \in 1 .. n : IsEntry(p[i])
  BY <1>2, <1>3, LenProperties, ElementOfSeq DEF Entries
<1>5. listed \in [1 .. n -> NameTexts] /\ \A i \in 1 .. n : listed[i] = DosNames!Unpack(p[i]) /\ DosNames!Pack(listed[i]) = p[i]
  <2>1. \A i \in 1 .. n : DosNames!Unpack(p[i]) \in NameTexts
    BY <1>4, UnpackIs
  <2>2. \A i \in 1 .. n : DosNames!Pack(DosNames!Unpack(p[i])) = p[i]
    BY <1>4, PackedAgain
  <2> QED
    BY <1>1, <1>4, <2>1, <2>2
<1>6. Len(listed) = n /\ DOMAIN listed = 1 .. n
  BY <1>5
<1>7. ASSUME DosNames!Fits(tree[p].typed) PROVE DosNames!Last(listed) = DosNames!Upper(tree[p].typed)
  <2>1. DosNames!Unpack(DosNames!Pack(tree[p].typed)) = DosNames!Upper(tree[p].typed)
    BY <1>2, <1>7, ListedAsTyped
  <2>2. DosNames!Last(listed) = listed[n]
    BY <1>6 DEF DosNames!Last
  <2> QED
    BY <1>2, <1>3, <1>5, <2>1, <2>2
<1>8. ASSUME \A i \in 1 .. Len(p) - 1 : Len(listed[i]) <= NameMax PROVE DosNames!Packed(listed) = p
  <2>1. DosNames!Packed(listed) = [i \in 1 .. n |-> DosNames!Pack(IF i = n THEN listed[i] ELSE DosNames!Cut(listed[i], NameMax))]
    BY <1>6 DEF DosNames!Packed
  <2>2. ASSUME NEW i \in 1 .. n
        PROVE  DosNames!Pack(IF i = n THEN listed[i] ELSE DosNames!Cut(listed[i], NameMax)) = p[i]
    <3>1. CASE i = n
      BY <1>5, <3>1
    <3>2. CASE i # n
      <4>1. i \in 1 .. Len(p) - 1 /\ NameMax \in Nat /\ listed[i] \in NameTexts
        BY <1>3, <1>5, <3>2 DEF DosNames!NameConstants
      <4>2. DosNames!Cut(listed[i], NameMax) = listed[i]
        BY <1>8, <4>1, CutIs
      <4> QED
        BY <1>5, <3>2, <4>2
    <3> QED
      BY <3>1, <3>2
  <2>3. DosNames!Packed(listed) = [i \in 1 .. n |-> p[i]]
    BY <2>1, <2>2
  <2>4. p = [i \in 1 .. n |-> p[i]]
    BY <1>2, <1>3, LenProperties
  <2> QED
    BY <2>3, <2>4
<1> QED
  BY <1>7, <1>8

(* What the FAT32 disk lists can be typed again, and a name that fits is   *)
(* listed as it was typed, in capitals: pack_83, path_split and the listing*)
(* of src/fb.c, whatever names there are.                                  *)
THEOREM NamesLeadBack == DosNames!Spec => []ListingsLeadBack
<1>1. NamesInv => ListingsLeadBack
  BY NamesLead, RamDiskAssumption DEF ListingsLeadBack
<1>2. NamesInv /\ [DosNames!Next]_tree => NamesInv'
  BY NamesStep, RamDiskAssumption
<1>3. DosNames!Init => NamesInv
  BY NamesStart, RamDiskAssumption
<1> QED
  BY <1>1, <1>2, <1>3, PTL DEF DosNames!Spec
=============================================================================
