----------------------------- MODULE BootProofs -----------------------------
(***************************************************************************)
(* Proofs about Boot, for every list of tags and every archive a loader may*)
(* pass.  Where a tag or an entry stands is a sum over those before it; the*)
(* pointers of the loops are seen to go from one such place to the next.   *)
(***************************************************************************)
EXTENDS Boot, Basics

-----------------------------------------------------------------------------
(* Sums: f is a fold that adds W[1] to W[n] to base.                       *)
Sums(f, n, base, W) ==
  /\ f[{}] = base
  /\ \A s \in SUBSET (1 .. n) :
       s # {} /\ f[s \ {Max(s)}] \in Nat => f[s] = f[s \ {Max(s)}] + W[Max(s)]

LEMMA SumExists ==
  ASSUME NEW n \in Nat, NEW base \in Nat, NEW W \in [1 .. n -> Nat]
  PROVE  \E f \in [SUBSET (1 .. n) -> Nat] : Sums(f, n, base, W)
<1>1. PICK F : F = [q \in Nat \X (1 .. n) |-> q[1] + W[q[2]]]
  OBVIOUS
<1>2. F \in [Nat \X (1 .. n) -> Nat]
  BY <1>1
<1>3. PICK g : IsFold(g, n, base, F, Nat)
  BY <1>2, FoldExists
<1>4. ASSUME NEW s \in SUBSET (1 .. n), s # {}
      PROVE  g[s] = g[s \ {Max(s)}] + W[Max(s)]
  <2>1. Max(s) \in 1 .. n
    BY <1>4, LargestExists
  <2>2. g[s \ {Max(s)}] \in Nat
    BY <1>3 DEF IsFold
  <2> QED
    BY <1>1, <1>3, <1>4, <2>1, <2>2 DEF IsFold
<1>5. g \in [SUBSET (1 .. n) -> Nat] /\ g[{}] = base
  BY <1>3 DEF IsFold
<1>6. Sums(g, n, base, W)
  BY <1>4, <1>5 DEF Sums
<1> QED
  BY <1>5, <1>6

IsSum(P, n, base, W) ==
  /\ P \in [0 .. n -> Nat] /\ P[0] = base
  /\ \A k \in 1 .. n : P[k] = P[k - 1] + W[k]

SumEnds(f, n, base, W) == \E P : IsSum(P, n, base, W) /\ f[1 .. n] = P[n]

LEMMA SumRuns ==
  ASSUME NEW n \in Nat, NEW base \in Nat, NEW W \in [1 .. n -> Nat], NEW f, Sums(f, n, base, W)
  PROVE  SumEnds(f, n, base, W)
<1>1. PICK F : F = [q \in Nat \X (1 .. n) |-> q[1] + W[q[2]]]
  OBVIOUS
<1>2. F \in [Nat \X (1 .. n) -> Nat]
  BY <1>1
<1>3. ASSUME NEW s \in SUBSET (1 .. n), s # {}, f[s \ {Max(s)}] \in Nat
      PROVE  f[s] = F[<<f[s \ {Max(s)}], Max(s)>>]
  <2>1. Max(s) \in 1 .. n
    BY <1>3, LargestExists
  <2>2. f[s] = f[s \ {Max(s)}] + W[Max(s)]
    BY <1>3 DEF Sums
  <2> QED
    BY <1>1, <1>3, <2>1, <2>2
<1>4. f[{}] = base
  BY DEF Sums
<1>5. GoesOn(f, n, base, F, Nat)
  BY <1>3, <1>4 DEF GoesOn
<1>6. PICK end : end = f[1 .. n]
  OBVIOUS
<1>7. PICK P : IsRun(P, n, base, end, F, Nat)
  BY <1>2, <1>5, <1>6, FoldRuns
<1>8. P \in [0 .. n -> Nat] /\ P[0] = base /\ P[n] = end
      /\ \A k \in 1 .. n : P[k] = F[<<P[k - 1], k>>]
  BY <1>7 DEF IsRun
<1>9. \A k \in 1 .. n : P[k] = P[k - 1] + W[k]
  <2>1. \A k \in 1 .. n : k - 1 \in 0 .. n
    OBVIOUS
  <2>2. \A k \in 1 .. n : P[k - 1] \in Nat
    BY <1>8, <2>1
  <2> QED
    BY <1>1, <1>8, <2>2
<1>10. IsSum(P, n, base, W)
  BY <1>8, <1>9 DEF IsSum
<1> QED
  BY <1>6, <1>8, <1>10 DEF SumEnds

(* The sum of the first values is what the longer sum has gone through.    *)
FirstOf(W, m, V) == V \in [1 .. m -> Nat] /\ \A k \in 1 .. m : V[k] = W[k]

LEMMA SumsAgree ==
  ASSUME NEW n \in Nat, NEW m \in 0 .. n, NEW base \in Nat,
         NEW W \in [1 .. n -> Nat], NEW V, FirstOf(W, m, V),
         NEW P, IsSum(P, n, base, W), NEW Q, IsSum(Q, m, base, V)
  PROVE  Q[m] = P[m]
<1>1. PICK G : G = {k \in 0 .. m : Q[k] = P[k]}
  OBVIOUS
<1>2. 0 \in G
  BY <1>1 DEF IsSum
<1>3. ASSUME NEW k \in 1 .. m, k - 1 \in G PROVE k \in G
  <2>1. k \in 1 .. n /\ k \in 0 .. m
    OBVIOUS
  <2>2. Q[k] = Q[k - 1] + V[k] /\ P[k] = P[k - 1] + W[k]
    BY <2>1 DEF IsSum
  <2>3. V[k] = W[k] /\ Q[k - 1] = P[k - 1]
    BY <1>1, <1>3 DEF FirstOf
  <2> QED
    BY <1>1, <2>1, <2>2, <2>3
<1>4. m \in Nat
  OBVIOUS
<1>5. \A k \in 0 .. m : k \in G
  BY <1>2, <1>3, <1>4, StepByStep
<1> QED
  BY <1>1, <1>4, <1>5

(* A sum of values that are not 0 never comes back.                        *)
Apart(P, n) == \A i, j \in 0 .. n : P[i] = P[j] => i = j

LEMMA SumGrows ==
  ASSUME NEW n \in Nat, NEW base \in Nat, NEW W \in [1 .. n -> Nat \ {0}], NEW P, IsSum(P, n, base, W)
  PROVE  Apart(P, n)
<1>1. P \in [0 .. n -> Nat] /\ \A k \in 1 .. n : P[k] = P[k - 1] + W[k]
  BY DEF IsSum
<1>2. ASSUME NEW a \in 0 .. n PROVE \A b \in 0 .. n : a < b => P[a] < P[b]
  <2>1. PICK G : G = {b \in 0 .. n : a < b => P[a] < P[b]}
    OBVIOUS
  <2>2. 0 \in G
    BY <2>1
  <2>3. ASSUME NEW k \in 1 .. n, k - 1 \in G PROVE k \in G
    <3>1. k - 1 \in 0 .. n /\ k \in 0 .. n /\ P[k] \in Nat /\ P[k - 1] \in Nat /\ P[a] \in Nat
      BY <1>1
    <3>2. P[k - 1] < P[k]
      <4>1. W[k] \in Nat /\ W[k] >= 1
        OBVIOUS
      <4>2. P[k] = P[k - 1] + W[k]
        BY <1>1
      <4> QED
        BY <3>1, <4>1, <4>2
    <3>3. a < k => a = k - 1 \/ a < k - 1
      BY <3>1
    <3>4. a < k - 1 => P[a] < P[k - 1]
      BY <2>1, <2>3
    <3>5. CASE a = k - 1
      BY <2>1, <3>1, <3>2, <3>5
    <3>6. CASE a < k - 1
      <4>1. P[a] < P[k - 1]
        BY <3>4, <3>6
      <4>2. P[a] < P[k]
        BY <3>1, <3>2, <4>1
      <4> QED
        BY <2>1, <3>1, <4>2
    <3>7. CASE ~(a < k)
      BY <2>1, <3>1, <3>7
    <3> QED
      BY <3>3, <3>5, <3>6, <3>7
  <2>4. \A b \in 0 .. n : b \in G
    BY <2>2, <2>3, StepByStep
  <2> QED
    BY <2>1, <2>4
<1>3. ASSUME NEW i \in 0 .. n, NEW j \in 0 .. n, P[i] = P[j] PROVE i = j
  <2>1. P[i] \in Nat /\ P[j] \in Nat
    BY <1>1
  <2>2. ~(i < j) /\ ~(j < i)
    BY <1>2, <1>3, <2>1
  <2> QED
    BY <2>2
<1> QED
  BY <1>3 DEF Apart

LEMMA SumReached ==
  ASSUME NEW n \in Nat, NEW m \in 0 .. n, NEW base \in Nat,
         NEW W \in [1 .. n -> Nat], NEW V, FirstOf(W, m, V),
         NEW P, IsSum(P, n, base, W), NEW f, Sums(f, m, base, V)
  PROVE  f[1 .. m] = P[m]
<1>1. m \in Nat /\ base \in Nat /\ V \in [1 .. m -> Nat] /\ Sums(f, m, base, V)
  BY DEF FirstOf
<1>2. PICK Q : IsSum(Q, m, base, V) /\ f[1 .. m] = Q[m]
  <2>1. SumEnds(f, m, base, V)
    BY <1>1, SumRuns
  <2> QED
    BY <2>1 DEF SumEnds
<1>3. Q[m] = P[m]
  <2>1. FirstOf(W, m, V) /\ IsSum(P, n, base, W) /\ IsSum(Q, m, base, V)
    BY <1>2
  <2> QED
    BY <2>1, SumsAgree
<1> QED
  BY <1>2, <1>3

LEMMA RunningSum ==
  ASSUME NEW n \in Nat, NEW base \in Nat, NEW W \in [1 .. n -> Nat]
  PROVE  \E P : IsSum(P, n, base, W)
<1>1. PICK f : Sums(f, n, base, W)
  BY SumExists
<1> QED
  BY <1>1, SumRuns DEF SumEnds

-----------------------------------------------------------------------------
(* Where the tags stand.                                                   *)
Tags(ts) ==
  /\ IsSequence(ts)
  /\ \A i \in DOMAIN ts : /\ ts[i].size \in Nat /\ ts[i].size >= 8
                          /\ ts[i].type = 0 <=> i = Len(ts)

TagSumming(f, ts) ==
  f = [s \in SUBSET DOMAIN ts |-> IF s = {} THEN 8
                                  ELSE f[s \ {Max(s)}] + Padded(ts[Max(s)].size, 8)]

LEMMA TagPlaceIsFold ==
  ASSUME NEW ts, NEW i
  PROVE  TagPlace(ts, i) = (CHOOSE f : TagSumming(f, SubSeq(ts, 1, i - 1)))[DOMAIN SubSeq(ts, 1, i - 1)]
BY DEF TagPlace, FoldLeft, MapThenFoldSet, TagSumming

LEMMA TagRound ==
  ASSUME NEW n \in Nat
  PROVE  Padded(n, 8) \in Nat /\ Padded(n, 8) >= n /\ AlignTag(n) = Padded(n, 8)
<1>1. PICK q \in Nat, r \in 0 .. 7 : n + 7 = 8 * q + r /\ (n + 7) % 8 = r
  BY Division
<1>2. (n + 7) \div 8 = q
  BY <1>1
<1> QED
  BY <1>1, <1>2 DEF Padded, AlignTag

LEMMA TagsAre ==
  ASSUME NEW ts, Tags(ts)
  PROVE  /\ Len(ts) \in Nat \ {0} /\ DOMAIN ts = 1 .. Len(ts)
         /\ \E S : ts \in Seq(S)
         /\ \A i \in 1 .. Len(ts) : /\ ts[i].size \in Nat /\ ts[i].size >= 8
                                    /\ ts[i].type = 0 <=> i = Len(ts)
<1>1. PICK S : S = {ts[i] : i \in DOMAIN ts}
  OBVIOUS
<1>2. ts \in Seq(S) /\ ts # << >>
  BY <1>1 DEF Tags, IsSequence
<1>3. Len(ts) \in Nat /\ DOMAIN ts = 1 .. Len(ts)
  BY <1>2, LenProperties
<1>4. Len(ts) # 0
  BY <1>2, EmptySeq
<1>5. \A i \in 1 .. Len(ts) : /\ ts[i].size \in Nat /\ ts[i].size >= 8
                              /\ ts[i].type = 0 <=> i = Len(ts)
  BY <1>3 DEF Tags
<1> QED
  BY <1>2, <1>3, <1>4, <1>5

(* A tag stands behind the padded sizes of those before it.                *)
TagSums(ts, n, P, W) ==
  /\ W \in [1 .. n -> Nat \ {0}] /\ IsSum(P, n, 8, W)
  /\ \A k \in 1 .. n : W[k] = Padded(ts[k].size, 8)
  /\ \A i \in 1 .. n : TagPlace(ts, i) = P[i - 1]

LEMMA TagPlaces ==
  ASSUME NEW ts, Tags(ts), NEW n \in Nat, n = Len(ts)
  PROVE  \E P, W : TagSums(ts, n, P, W)
<1>1. PICK S : ts \in Seq(S)
  BY TagsAre
<1>2. DOMAIN ts = 1 .. n /\ \A i \in 1 .. n : ts[i].size \in Nat /\ ts[i].size >= 8
  BY TagsAre
<1>3. PICK W : W = [k \in 1 .. n |-> Padded(ts[k].size, 8)]
  OBVIOUS
<1>4. W \in [1 .. n -> Nat \ {0}] /\ \A k \in 1 .. n : W[k] = Padded(ts[k].size, 8)
  <2>1. ASSUME NEW k \in 1 .. n PROVE Padded(ts[k].size, 8) \in Nat /\ Padded(ts[k].size, 8) >= 1
    <3>1. PICK a \in Nat : a = ts[k].size /\ a >= 8
      BY <1>2
    <3>2. Padded(a, 8) \in Nat /\ Padded(a, 8) >= a
      BY TagRound
    <3> QED
      BY <3>1, <3>2
  <2> QED
    BY <1>3, <2>1
<1>5. PICK P : IsSum(P, n, 8, W)
  <2>1. W \in [1 .. n -> Nat]
    BY <1>4
  <2> QED
    BY <2>1, RunningSum
<1>6. ASSUME NEW i \in 1 .. n PROVE TagPlace(ts, i) = P[i - 1]
  <2>1. PICK part : part = SubSeq(ts, 1, i - 1)
    OBVIOUS
  <2>2. PICK m \in 0 .. n : m = i - 1
    OBVIOUS
  <2>3. /\ SubSeq(ts, 1, i - 1) \in Seq(S) /\ Len(SubSeq(ts, 1, i - 1)) = i - 1 - 1 + 1
        /\ \A k \in 1 .. i - 1 - 1 + 1 : SubSeq(ts, 1, i - 1)[k] = ts[1 + k - 1]
    <3>1. 1 \in 1 .. Len(ts) + 1 /\ i - 1 \in 1 - 1 .. Len(ts)
      OBVIOUS
    <3> QED
      BY <1>1, <3>1, PartIs
  <2>4. DOMAIN part = 1 .. m
    <3>1. part \in Seq(S) /\ Len(part) = m
      BY <2>1, <2>2, <2>3
    <3> QED
      BY <3>1, LenProperties
  <2>5. \A k \in 1 .. m : k \in 1 .. n /\ part[k] = ts[k]
    BY <2>1, <2>2, <2>3
  <2>6. PICK V : V = [k \in 1 .. m |-> W[k]]
    OBVIOUS
  <2>7. /\ V \in [1 .. m -> Nat] /\ FirstOf(W, m, V)
        /\ \A k \in 1 .. m : V[k] = Padded(part[k].size, 8)
    <3>1. ASSUME NEW k \in 1 .. m PROVE V[k] = W[k] /\ V[k] \in Nat /\ V[k] = Padded(part[k].size, 8)
      BY <1>4, <2>5, <2>6
    <3>2. V \in [1 .. m -> Nat]
      BY <2>6, <3>1
    <3> QED
      BY <3>1, <3>2 DEF FirstOf
  <2>8. TagSumming(CHOOSE f : TagSumming(f, part), part)
    <3>1. m \in Nat
      OBVIOUS
    <3>2. PICK f : f \in [SUBSET (1 .. m) -> Nat] /\ Sums(f, m, 8, V)
      BY <2>7, <3>1, SumExists
    <3>3. ASSUME NEW s \in SUBSET (1 .. m), s # {}
          PROVE  f[s] = f[s \ {Max(s)}] + Padded(part[Max(s)].size, 8)
      <4>1. Max(s) \in 1 .. m
        BY <3>1, <3>3, LargestExists
      <4>2. f[s \ {Max(s)}] \in Nat
        BY <3>2
      <4> QED
        BY <2>7, <3>2, <3>3, <4>1, <4>2 DEF Sums
    <3>4. f = [s \in SUBSET (1 .. m) |-> IF s = {} THEN 8
                                        ELSE f[s \ {Max(s)}] + Padded(part[Max(s)].size, 8)]
      BY <3>2, <3>3 DEF Sums
    <3>5. TagSumming(f, part)
      BY <2>4, <3>4 DEF TagSumming
    <3> QED
      BY <3>5
  <2>9. PICK h : h = (CHOOSE f : TagSumming(f, part))
    OBVIOUS
  <2>10. Sums(h, m, 8, V)
    <3>1. m \in Nat
      OBVIOUS
    <3>2. h = [s \in SUBSET (1 .. m) |-> IF s = {} THEN 8
                                        ELSE h[s \ {Max(s)}] + Padded(part[Max(s)].size, 8)]
      BY <2>4, <2>8, <2>9 DEF TagSumming
    <3>3. ASSUME NEW s \in SUBSET (1 .. m), s # {} PROVE h[s] = h[s \ {Max(s)}] + V[Max(s)]
      <4>1. Max(s) \in 1 .. m
        BY <3>1, <3>3, LargestExists
      <4>2. h[s] = h[s \ {Max(s)}] + Padded(part[Max(s)].size, 8)
        BY <3>2, <3>3
      <4> QED
        BY <2>7, <4>1, <4>2
    <3>4. h[{}] = 8
      BY <3>2
    <3> QED
      BY <3>3, <3>4 DEF Sums
  <2>11. h[1 .. m] = P[m]
    <3>1. W \in [1 .. n -> Nat] /\ Sums(h, m, 8, V)
      BY <1>4, <2>10
    <3> QED
      BY <1>5, <2>7, <3>1, SumReached
  <2>12. TagPlace(ts, i) = h[1 .. m]
    BY <2>1, <2>4, <2>9, TagPlaceIsFold
  <2> QED
    BY <2>2, <2>11, <2>12
<1> QED
  BY <1>4, <1>5, <1>6 DEF TagSums

(* No two tags stand at one place, the first at 8, and AlignTag leads from *)
(* one to the next.                                                        *)
LEMMA TagsApart ==
  ASSUME NEW ts, Tags(ts), NEW n \in Nat, n = Len(ts)
  PROVE  /\ n >= 1 /\ TagPlace(ts, 1) = 8
         /\ \A i \in 1 .. n : TagPlace(ts, i) \in Nat
         /\ \A i, j \in 1 .. n : TagPlace(ts, i) = TagPlace(ts, j) => i = j
         /\ \A i \in 1 .. n - 1 : TagPlace(ts, i) + AlignTag(ts[i].size) = TagPlace(ts, i + 1)
<1>1. n >= 1 /\ \A i \in 1 .. n : ts[i].size \in Nat
  BY TagsAre
<1>2. PICK P, W : /\ W \in [1 .. n -> Nat \ {0}] /\ IsSum(P, n, 8, W)
                  /\ \A k \in 1 .. n : W[k] = Padded(ts[k].size, 8)
                  /\ \A i \in 1 .. n : TagPlace(ts, i) = P[i - 1]
  <2>1. PICK P, W : TagSums(ts, n, P, W)
    BY TagPlaces
  <2> QED
    BY <2>1 DEF TagSums
<1>3. P \in [0 .. n -> Nat] /\ P[0] = 8 /\ \A k \in 1 .. n : P[k] = P[k - 1] + W[k]
  BY <1>2 DEF IsSum
<1>4. TagPlace(ts, 1) = 8
  BY <1>1, <1>2, <1>3
<1>5. ASSUME NEW i \in 1 .. n, NEW j \in 1 .. n, TagPlace(ts, i) = TagPlace(ts, j) PROVE i = j
  <2>1. PICK a, b : a = i - 1 /\ b = j - 1
    OBVIOUS
  <2>2. a \in 0 .. n /\ b \in 0 .. n
    BY <2>1
  <2>3. P[a] = P[b]
    BY <1>2, <1>5, <2>1
  <2>4. a = b
    <3>1. 8 \in Nat /\ W \in [1 .. n -> Nat \ {0}] /\ IsSum(P, n, 8, W)
      BY <1>2
    <3>2. Apart(P, n)
      BY <3>1, SumGrows
    <3> QED
      BY <2>2, <2>3, <3>2 DEF Apart
  <2> QED
    BY <2>1, <2>4
<1>6. ASSUME NEW i \in 1 .. n - 1
      PROVE  TagPlace(ts, i) + AlignTag(ts[i].size) = TagPlace(ts, i + 1)
  <2>1. i \in 1 .. n /\ i + 1 \in 1 .. n /\ (i + 1) - 1 = i
    OBVIOUS
  <2>2. TagPlace(ts, i) = P[i - 1] /\ TagPlace(ts, i + 1) = P[i]
    BY <1>2, <2>1
  <2>3. AlignTag(ts[i].size) = W[i]
    BY <1>1, <1>2, <2>1, TagRound
  <2> QED
    BY <1>3, <2>1, <2>2, <2>3
<1>7. ASSUME NEW i \in 1 .. n PROVE TagPlace(ts, i) \in Nat
  <2>1. TagPlace(ts, i) = P[i - 1] /\ i - 1 \in 0 .. n
    BY <1>2
  <2> QED
    BY <1>3, <2>1
<1> QED
  BY <1>1, <1>4, <1>5, <1>6, <1>7

-----------------------------------------------------------------------------
(* Where the entries stand.                                                *)
Entries(es) ==
  /\ IsSequence(es)
  /\ \A i \in DOMAIN es : es[i].name \in Seq(STRING) \ {<<>>} /\ es[i].text \in Seq(STRING)
  /\ \E i \in DOMAIN es : IsTrailer(es[i])

EntrySumming(f, es) ==
  f = [s \in SUBSET DOMAIN es |->
         IF s = {} THEN 0
         ELSE f[s \ {Max(s)}] + DataPlace(es[Max(s)]) + Padded(Len(es[Max(s)].text), 4)]

LEMMA EntryPlaceIsFold ==
  ASSUME NEW es, NEW i
  PROVE  EntryPlace(es, i)
         = (CHOOSE f : EntrySumming(f, SubSeq(es, 1, i - 1)))[DOMAIN SubSeq(es, 1, i - 1)]
BY DEF EntryPlace, FoldLeft, MapThenFoldSet, EntrySumming

LEMMA EntryRound ==
  ASSUME NEW n \in Nat, NEW l \in Nat
  PROVE  /\ Align4(n) = Padded(n, 4) /\ Padded(n, 4) \in Nat /\ Padded(n, 4) >= n
         /\ Align4(Align4(n) + l) = Padded(n, 4) + Padded(l, 4)
<1>1. PICK q \in Nat, r \in 0 .. 3 : n + 3 = 4 * q + r /\ (n + 3) % 4 = r
  BY Division
<1>2. PICK k \in Nat, t \in 0 .. 3 : l + 3 = 4 * k + t /\ (l + 3) % 4 = t
  BY Division
<1>3. (n + 3) \div 4 = q /\ (l + 3) \div 4 = k
  BY <1>1, <1>2
<1>4. Align4(n) = q * 4 /\ Padded(n, 4) = q * 4 /\ Padded(l, 4) = k * 4
  BY <1>3 DEF Align4, Padded
<1>5. ((q * 4 + l) + 3) \div 4 = q + k
  BY <1>2
<1>6. Align4(Align4(n) + l) = (q + k) * 4
  BY <1>4, <1>5 DEF Align4
<1> QED
  BY <1>1, <1>4, <1>6

LEMMA EntriesAre ==
  ASSUME NEW es, Entries(es)
  PROVE  /\ Len(es) \in Nat \ {0} /\ DOMAIN es = 1 .. Len(es)
         /\ \E S : es \in Seq(S)
         /\ \A i \in 1 .. Len(es) : /\ es[i].name \in Seq(STRING) /\ es[i].name # << >>
                                    /\ es[i].text \in Seq(STRING)
                                    /\ Len(es[i].name) \in Nat \ {0} /\ Len(es[i].text) \in Nat
<1>1. PICK S : S = {es[i] : i \in DOMAIN es}
  OBVIOUS
<1>2. es \in Seq(S) /\ es # << >>
  BY <1>1 DEF Entries, IsSequence
<1>3. Len(es) \in Nat /\ DOMAIN es = 1 .. Len(es)
  BY <1>2, LenProperties
<1>4. Len(es) # 0
  BY <1>2, EmptySeq
<1>5. \A i \in 1 .. Len(es) : es[i].name \in Seq(STRING) \ {<<>>} /\ es[i].text \in Seq(STRING)
  BY <1>3 DEF Entries
<1>6. ASSUME NEW i \in 1 .. Len(es)
      PROVE  /\ es[i].name \in Seq(STRING) /\ es[i].name # << >> /\ es[i].text \in Seq(STRING)
             /\ Len(es[i].name) \in Nat \ {0} /\ Len(es[i].text) \in Nat
  <2>1. PICK a, b : a = es[i].name /\ b = es[i].text
    OBVIOUS
  <2>2. a \in Seq(STRING) /\ a # << >> /\ b \in Seq(STRING)
    BY <1>5, <2>1
  <2>3. Len(a) \in Nat /\ Len(a) # 0 /\ Len(b) \in Nat
    BY <2>2, LenProperties, EmptySeq
  <2> QED
    BY <2>1, <2>2, <2>3
<1> QED
  BY <1>2, <1>3, <1>4, <1>6

(* What an entry takes, and how the pointers of the walks count it.        *)
LEMMA EntryStep ==
  ASSUME NEW es, Entries(es), NEW i \in 1 .. Len(es)
  PROVE  /\ DataPlace(es[i]) \in Nat \ {0} /\ Padded(Len(es[i].text), 4) \in Nat
         /\ \A a \in Nat : /\ DataOf(a, es[i]) = a + DataPlace(es[i])
                           /\ CpioNext(a, es[i])
                              = a + (DataPlace(es[i]) + Padded(Len(es[i].text), 4))
<1>1. PICK n, l : n = HeaderSize + NameSize(es[i]) /\ l = Len(es[i].text)
  OBVIOUS
<1>2. l \in Nat /\ n \in Nat /\ n >= 1
  <2>1. Len(es[i].name) \in Nat /\ Len(es[i].text) \in Nat
    BY EntriesAre
  <2> QED
    BY <1>1, <2>1 DEF HeaderSize, NameSize
<1>3. Align4(n) = Padded(n, 4) /\ Padded(n, 4) \in Nat /\ Padded(n, 4) >= n
  BY <1>2, EntryRound
<1>4. Align4(Align4(n) + l) = Padded(n, 4) + Padded(l, 4)
  BY <1>2, EntryRound
<1>5. Padded(l, 4) \in Nat
  BY <1>2, EntryRound
<1>6. DataPlace(es[i]) = Padded(n, 4)
  BY <1>1 DEF DataPlace
<1>7. ASSUME NEW a \in Nat
      PROVE  /\ DataOf(a, es[i]) = a + DataPlace(es[i])
             /\ CpioNext(a, es[i]) = a + (DataPlace(es[i]) + Padded(l, 4))
  <2>1. DataOf(a, es[i]) = a + Align4(n)
    BY <1>1 DEF DataOf
  <2>2. CpioNext(a, es[i]) = a + Align4(Align4(n) + l)
    BY <1>1 DEF CpioNext
  <2> QED
    BY <1>3, <1>4, <1>6, <2>1, <2>2
<1> QED
  BY <1>1, <1>2, <1>3, <1>5, <1>6, <1>7

EntrySums(es, n, P, W) ==
  /\ W \in [1 .. n -> Nat \ {0}] /\ IsSum(P, n, 0, W)
  /\ \A k \in 1 .. n : W[k] = DataPlace(es[k]) + Padded(Len(es[k].text), 4)
  /\ \A i \in 1 .. n : EntryPlace(es, i) = P[i - 1]

LEMMA EntryPlaces ==
  ASSUME NEW es, Entries(es), NEW n \in Nat, n = Len(es)
  PROVE  \E P, W : EntrySums(es, n, P, W)
<1>1. PICK S : es \in Seq(S)
  BY EntriesAre
<1>2. DOMAIN es = 1 .. n
  BY EntriesAre
<1>3. PICK W : W = [k \in 1 .. n |-> DataPlace(es[k]) + Padded(Len(es[k].text), 4)]
  OBVIOUS
<1>4. /\ W \in [1 .. n -> Nat \ {0}]
      /\ \A k \in 1 .. n : W[k] = DataPlace(es[k]) + Padded(Len(es[k].text), 4)
  <2>1. ASSUME NEW k \in 1 .. n
        PROVE  DataPlace(es[k]) + Padded(Len(es[k].text), 4) \in Nat \ {0}
    <3>1. DataPlace(es[k]) \in Nat \ {0} /\ Padded(Len(es[k].text), 4) \in Nat
      BY EntryStep
    <3> QED
      BY <3>1
  <2> QED
    BY <1>3, <2>1
<1>5. PICK P : IsSum(P, n, 0, W)
  <2>1. 0 \in Nat /\ W \in [1 .. n -> Nat]
    BY <1>4
  <2> QED
    BY <2>1, RunningSum
<1>6. ASSUME NEW i \in 1 .. n PROVE EntryPlace(es, i) = P[i - 1]
  <2>1. PICK part : part = SubSeq(es, 1, i - 1)
    OBVIOUS
  <2>2. PICK m \in 0 .. n : m = i - 1
    OBVIOUS
  <2>3. /\ SubSeq(es, 1, i - 1) \in Seq(S) /\ Len(SubSeq(es, 1, i - 1)) = i - 1 - 1 + 1
        /\ \A k \in 1 .. i - 1 - 1 + 1 : SubSeq(es, 1, i - 1)[k] = es[1 + k - 1]
    <3>1. 1 \in 1 .. Len(es) + 1 /\ i - 1 \in 1 - 1 .. Len(es)
      OBVIOUS
    <3> QED
      BY <1>1, <3>1, PartIs
  <2>4. DOMAIN part = 1 .. m
    <3>1. part \in Seq(S) /\ Len(part) = m
      BY <2>1, <2>2, <2>3
    <3> QED
      BY <3>1, LenProperties
  <2>5. \A k \in 1 .. m : k \in 1 .. n /\ part[k] = es[k]
    BY <2>1, <2>2, <2>3
  <2>6. PICK V : V = [k \in 1 .. m |-> W[k]]
    OBVIOUS
  <2>7. ASSUME NEW k \in 1 .. m
        PROVE  /\ V[k] = W[k] /\ V[k] \in Nat
               /\ V[k] = DataPlace(part[k]) + Padded(Len(part[k].text), 4)
               /\ DataPlace(part[k]) \in Nat /\ Padded(Len(part[k].text), 4) \in Nat
    <3>1. k \in 1 .. n /\ part[k] = es[k]
      BY <2>5
    <3>2. DataPlace(es[k]) \in Nat /\ Padded(Len(es[k].text), 4) \in Nat
      BY <3>1, EntryStep
    <3>3. V[k] = W[k] /\ W[k] = DataPlace(es[k]) + Padded(Len(es[k].text), 4)
      BY <1>4, <2>6, <3>1
    <3> QED
      BY <3>1, <3>2, <3>3
  <2>8. V \in [1 .. m -> Nat] /\ FirstOf(W, m, V)
    <3>1. V \in [1 .. m -> Nat]
      BY <2>6, <2>7
    <3> QED
      BY <2>7, <3>1 DEF FirstOf
  <2>9. EntrySumming(CHOOSE f : EntrySumming(f, part), part)
    <3>1. m \in Nat /\ 0 \in Nat
      OBVIOUS
    <3>2. PICK f : f \in [SUBSET (1 .. m) -> Nat] /\ Sums(f, m, 0, V)
      BY <2>8, <3>1, SumExists
    <3>3. ASSUME NEW s \in SUBSET (1 .. m), s # {}
          PROVE  f[s] = f[s \ {Max(s)}] + DataPlace(part[Max(s)]) + Padded(Len(part[Max(s)].text), 4)
      <4>1. Max(s) \in 1 .. m
        BY <3>1, <3>3, LargestExists
      <4>2. f[s \ {Max(s)}] \in Nat
        BY <3>2
      <4>3. f[s] = f[s \ {Max(s)}] + V[Max(s)]
        BY <3>2, <3>3, <4>2 DEF Sums
      <4>4. PICK k : k = Max(s)
        OBVIOUS
      <4>5. /\ V[k] = DataPlace(part[k]) + Padded(Len(part[k].text), 4)
            /\ DataPlace(part[k]) \in Nat /\ Padded(Len(part[k].text), 4) \in Nat
        BY <2>7, <4>1, <4>4
      <4> QED
        BY <4>2, <4>3, <4>4, <4>5
    <3>4. f = [s \in SUBSET (1 .. m) |->
                 IF s = {} THEN 0
                 ELSE f[s \ {Max(s)}] + DataPlace(part[Max(s)]) + Padded(Len(part[Max(s)].text), 4)]
      BY <3>2, <3>3 DEF Sums
    <3>5. EntrySumming(f, part)
      BY <2>4, <3>4 DEF EntrySumming
    <3> QED
      BY <3>5
  <2>10. PICK h : h = (CHOOSE f : EntrySumming(f, part))
    OBVIOUS
  <2>11. Sums(h, m, 0, V)
    <3>1. m \in Nat
      OBVIOUS
    <3>2. h = [s \in SUBSET (1 .. m) |->
                 IF s = {} THEN 0
                 ELSE h[s \ {Max(s)}] + DataPlace(part[Max(s)]) + Padded(Len(part[Max(s)].text), 4)]
      BY <2>4, <2>9, <2>10 DEF EntrySumming
    <3>3. ASSUME NEW s \in SUBSET (1 .. m), s # {}, h[s \ {Max(s)}] \in Nat
          PROVE  h[s] = h[s \ {Max(s)}] + V[Max(s)]
      <4>1. Max(s) \in 1 .. m
        BY <3>1, <3>3, LargestExists
      <4>2. h[s] = h[s \ {Max(s)}] + DataPlace(part[Max(s)]) + Padded(Len(part[Max(s)].text), 4)
        BY <3>2, <3>3
      <4>3. PICK k : k = Max(s)
        OBVIOUS
      <4>4. /\ V[k] = DataPlace(part[k]) + Padded(Len(part[k].text), 4)
            /\ DataPlace(part[k]) \in Nat /\ Padded(Len(part[k].text), 4) \in Nat
        BY <2>7, <4>1, <4>3
      <4> QED
        BY <3>3, <4>2, <4>3, <4>4
    <3>4. h[{}] = 0
      BY <3>2
    <3> QED
      BY <3>3, <3>4 DEF Sums
  <2>12. h[1 .. m] = P[m]
    <3>1. 0 \in Nat /\ W \in [1 .. n -> Nat] /\ Sums(h, m, 0, V)
      BY <1>4, <2>11
    <3>2. FirstOf(W, m, V) /\ IsSum(P, n, 0, W)
      BY <1>5, <2>8
    <3> QED
      BY <3>1, <3>2, SumReached
  <2>13. EntryPlace(es, i) = h[1 .. m]
    BY <2>1, <2>4, <2>10, EntryPlaceIsFold
  <2> QED
    BY <2>2, <2>12, <2>13
<1> QED
  BY <1>4, <1>5, <1>6 DEF EntrySums

LEMMA EntriesApart ==
  ASSUME NEW es, Entries(es), NEW n \in Nat, n = Len(es)
  PROVE  /\ n >= 1 /\ EntryPlace(es, 1) = 0
         /\ \A i \in 1 .. n : EntryPlace(es, i) \in Nat
         /\ \A i, j \in 1 .. n : EntryPlace(es, i) = EntryPlace(es, j) => i = j
         /\ \A i \in 1 .. n - 1 : CpioNext(EntryPlace(es, i), es[i]) = EntryPlace(es, i + 1)
<1>1. n >= 1
  BY EntriesAre
<1>2. PICK P, W : /\ W \in [1 .. n -> Nat \ {0}] /\ IsSum(P, n, 0, W)
                  /\ \A k \in 1 .. n : W[k] = DataPlace(es[k]) + Padded(Len(es[k].text), 4)
                  /\ \A i \in 1 .. n : EntryPlace(es, i) = P[i - 1]
  <2>1. PICK P, W : EntrySums(es, n, P, W)
    BY EntryPlaces
  <2> QED
    BY <2>1 DEF EntrySums
<1>3. P \in [0 .. n -> Nat] /\ P[0] = 0 /\ \A k \in 1 .. n : P[k] = P[k - 1] + W[k]
  BY <1>2 DEF IsSum
<1>4. EntryPlace(es, 1) = 0
  BY <1>1, <1>2, <1>3
<1>5. ASSUME NEW i \in 1 .. n, NEW j \in 1 .. n, EntryPlace(es, i) = EntryPlace(es, j) PROVE i = j
  <2>1. PICK a, b : a = i - 1 /\ b = j - 1
    OBVIOUS
  <2>2. a \in 0 .. n /\ b \in 0 .. n
    BY <2>1
  <2>3. P[a] = P[b]
    BY <1>2, <1>5, <2>1
  <2>4. a = b
    <3>1. 0 \in Nat /\ W \in [1 .. n -> Nat \ {0}] /\ IsSum(P, n, 0, W)
      BY <1>2
    <3>2. Apart(P, n)
      BY <3>1, SumGrows
    <3> QED
      BY <2>2, <2>3, <3>2 DEF Apart
  <2> QED
    BY <2>1, <2>4
<1>6. ASSUME NEW i \in 1 .. n PROVE EntryPlace(es, i) \in Nat
  <2>1. EntryPlace(es, i) = P[i - 1] /\ i - 1 \in 0 .. n
    BY <1>2
  <2> QED
    BY <1>3, <2>1
<1>7. ASSUME NEW i \in 1 .. n - 1
      PROVE  CpioNext(EntryPlace(es, i), es[i]) = EntryPlace(es, i + 1)
  <2>1. i \in 1 .. n /\ i + 1 \in 1 .. n /\ (i + 1) - 1 = i
    OBVIOUS
  <2>2. EntryPlace(es, i) = P[i - 1] /\ EntryPlace(es, i + 1) = P[i]
    BY <1>2, <2>1
  <2>3. EntryPlace(es, i) \in Nat
    BY <1>6, <2>1
  <2>4. CpioNext(EntryPlace(es, i), es[i]) = EntryPlace(es, i) + W[i]
    <3>1. PICK a, e : a = EntryPlace(es, i) /\ e = es[i]
      OBVIOUS
    <3>2. CpioNext(a, e) = a + (DataPlace(e) + Padded(Len(e.text), 4))
      BY <2>1, <2>3, <3>1, EntryStep
    <3>3. W[i] = DataPlace(e) + Padded(Len(e.text), 4)
      BY <1>2, <2>1, <3>1
    <3> QED
      BY <3>1, <3>2, <3>3
  <2> QED
    BY <1>3, <2>1, <2>2, <2>4
<1> QED
  BY <1>1, <1>4, <1>5, <1>6, <1>7

-----------------------------------------------------------------------------
(* The inductive invariant.                                                *)
NoTrailerBefore(i) == \A j \in 1 .. i - 1 : ~IsTrailer(archive[j])
FirstTrailer(t) == t \in 1 .. Len(archive) /\ IsTrailer(archive[t]) /\ NoTrailerBefore(t)

(* The walk stands on a tag, on an entry.                                  *)
OnTag(i) == i \in 1 .. Len(tags) /\ p = TagPlace(tags, i)
OnEntry(i) == i \in 1 .. Len(archive) /\ p = EntryPlace(archive, i) /\ NoTrailerBefore(i)

(* What tags there are before a place.                                     *)
NoFbBefore(i) == \A j \in 1 .. i - 1 : tags[j].type # TagFramebuffer
FbMeant == IF OfType(TagFramebuffer) = {} \/ tags[Min(OfType(TagFramebuffer))].value = 0
           THEN FallbackFb ELSE tags[Min(OfType(TagFramebuffer))].value
ModuleBefore(i) ==
  \/ module = "none" /\ \A j \in 1 .. i - 1 : tags[j].type # TagModule
  \/ \E m \in 1 .. i - 1 : /\ tags[m].type = TagModule /\ module = tags[m].value
                           /\ \A j \in m + 1 .. i - 1 : tags[j].type # TagModule

TagsInv ==
  /\ stage = "fb" => \E i : OnTag(i) /\ NoFbBefore(i)
  /\ stage \notin {"fb", "halted"} => fb = FbMeant
  /\ stage = "module" => \E i : OnTag(i) /\ ModuleBefore(i)
  /\ stage \notin {"fb", "halted", "module"} => ModuleBefore(Len(tags))

(* What is handed over of an entry, and what was before a place.           *)
PathOf(j) == Normalised(archive[j].name)
Given(j) == [path |-> Cut(PathOf(j)), data |-> EntryPlace(archive, j) + DataPlace(archive[j])]
SeenBefore(i) == seen = [j \in 1 .. i - 1 |-> Given(j)]

(* A path is at a place first, or at none before it.                       *)
NotBefore(path, i) == \A j \in 1 .. i - 1 : PathOf(j) # path
FirstAt(path, c, t) == c \in 1 .. t - 1 /\ PathOf(c) = path /\ NotBefore(path, c)

CfgRead(t) ==
  \/ \E c : FirstAt(CfgName, c, t) /\ wanted = <<"fonts/">> \o FontNamed(archive[c])
  \/ NotBefore(CfgName, t) /\ wanted = <<"fonts/", Fallback>>

FontRead(t) ==
  \/ \E c : FirstAt(wanted, c, t) /\ font = IF archive[c].text = <<>> THEN 0 ELSE Given(c).data
  \/ NotBefore(wanted, t) /\ font = 0

ArchiveInv ==
  /\ stage = "extract" => \E i : OnEntry(i) /\ SeenBefore(i)
  /\ stage \in {"cfg", "font", "shell"} => \E t : FirstTrailer(t) /\ SeenBefore(t)
  /\ stage = "cfg" => \E i : OnEntry(i) /\ NotBefore(CfgName, i)
  /\ stage = "font" => \E i : OnEntry(i) /\ NotBefore(wanted, i)
  /\ stage \in {"font", "shell"} => \E t : FirstTrailer(t) /\ CfgRead(t)
  /\ stage = "shell" => \E t : FirstTrailer(t) /\ FontRead(t)

BootInv ==
  /\ Tags(tags) /\ Entries(archive)
  /\ stage \in {"fb", "halted", "module", "extract", "cfg", "font", "shell"}
  /\ stage = "fb" => module = "none"
  /\ stage \in {"fb", "module"} => seen = <<>>
  /\ stage # "shell" => font = 0
  /\ TagsInv
  /\ module = "archive" /\ stage # "module" => ArchiveInv

-----------------------------------------------------------------------------
(* The walks stand on one tag and one entry, and go to the next.           *)
LEMMA TagHere ==
  ASSUME Tags(tags), NEW i, OnTag(i)
  PROVE  TagAt(p) = {i} /\ i \in 1 .. Len(tags) /\ (tags[i].type = 0 <=> i = Len(tags))
<1>1. PICK n : n = Len(tags)
  OBVIOUS
<1>2. n \in Nat /\ DOMAIN tags = 1 .. n /\ \A j \in 1 .. n : tags[j].type = 0 <=> j = n
  BY <1>1, TagsAre
<1>3. \A j, k \in 1 .. n : TagPlace(tags, j) = TagPlace(tags, k) => j = k
  BY <1>1, <1>2, TagsApart
<1>4. i \in 1 .. n /\ p = TagPlace(tags, i)
  BY <1>1 DEF OnTag
<1>5. TagAt(p) = {i}
  BY <1>2, <1>3, <1>4 DEF TagAt
<1> QED
  BY <1>1, <1>2, <1>4, <1>5

LEMMA NextTag ==
  ASSUME Tags(tags), NEW i, OnTag(i), tags[i].type # 0
  PROVE  i + 1 \in 1 .. Len(tags) /\ p + AlignTag(tags[i].size) = TagPlace(tags, i + 1)
<1>1. PICK n : n = Len(tags)
  OBVIOUS
<1>2. n \in Nat /\ i \in 1 .. n /\ i # n /\ p = TagPlace(tags, i)
  <2>1. n \in Nat
    BY <1>1, TagsAre
  <2> QED
    BY <1>1, <2>1, TagHere DEF OnTag
<1>3. \A j \in 1 .. n - 1 : TagPlace(tags, j) + AlignTag(tags[j].size) = TagPlace(tags, j + 1)
  BY <1>1, <1>2, TagsApart
<1>4. i \in 1 .. n - 1 /\ i + 1 \in 1 .. n
  BY <1>2
<1> QED
  BY <1>1, <1>2, <1>3, <1>4

LEMMA FirstTag ==
  ASSUME Tags(tags), p = 8
  PROVE  OnTag(1)
<1>1. PICK n : n = Len(tags)
  OBVIOUS
<1>2. n \in Nat
  BY <1>1, TagsAre
<1>3. n >= 1 /\ TagPlace(tags, 1) = 8
  BY <1>1, <1>2, TagsApart
<1> QED
  BY <1>1, <1>2, <1>3 DEF OnTag

LEMMA EntryHere ==
  ASSUME Entries(archive), module = "archive", NEW i, OnEntry(i)
  PROVE  /\ i \in 1 .. Len(archive)
         /\ IsTrailer(archive[i]) => Entry(p) = {} /\ FirstTrailer(i)
         /\ ~IsTrailer(archive[i]) => Entry(p) = {archive[i]}
<1>1. PICK n : n = Len(archive)
  OBVIOUS
<1>2. n \in Nat /\ DOMAIN archive = 1 .. n
  BY <1>1, EntriesAre
<1>3. \A j, k \in 1 .. n : EntryPlace(archive, j) = EntryPlace(archive, k) => j = k
  BY <1>1, <1>2, EntriesApart
<1>4. i \in 1 .. n /\ p = EntryPlace(archive, i) /\ NoTrailerBefore(i)
  BY <1>1 DEF OnEntry
<1>5. EntryAt(p) = {i}
  BY <1>2, <1>3, <1>4 DEF EntryAt
<1>6. IsTrailer(archive[i]) => Entry(p) = {}
  BY <1>5 DEF Entry
<1>7. ~IsTrailer(archive[i]) => Entry(p) = {archive[i]}
  BY <1>5 DEF Entry
<1>8. IsTrailer(archive[i]) => FirstTrailer(i)
  BY <1>1, <1>4 DEF FirstTrailer
<1> QED
  BY <1>1, <1>4, <1>6, <1>7, <1>8

LEMMA NextEntry ==
  ASSUME Entries(archive), NEW i, OnEntry(i), ~IsTrailer(archive[i])
  PROVE  /\ i + 1 \in 1 .. Len(archive) /\ NoTrailerBefore(i + 1)
         /\ CpioNext(p, archive[i]) = EntryPlace(archive, i + 1)
         /\ DataOf(p, archive[i]) = EntryPlace(archive, i) + DataPlace(archive[i])
<1>1. PICK n : n = Len(archive)
  OBVIOUS
<1>2. n \in Nat /\ DOMAIN archive = 1 .. n
  BY <1>1, EntriesAre
<1>3. i \in 1 .. n /\ p = EntryPlace(archive, i) /\ NoTrailerBefore(i)
  BY <1>1 DEF OnEntry
<1>4. PICK t \in 1 .. n : IsTrailer(archive[t])
  BY <1>2 DEF Entries
<1>5. i # n
  <2>1. ~(t \in 1 .. i - 1) /\ t # i
    BY <1>3, <1>4 DEF NoTrailerBefore
  <2> QED
    BY <1>2, <1>3, <1>4, <2>1
<1>6. NoTrailerBefore(i + 1)
  BY <1>2, <1>3 DEF NoTrailerBefore
<1>7. \A j \in 1 .. n - 1 : CpioNext(EntryPlace(archive, j), archive[j]) = EntryPlace(archive, j + 1)
  BY <1>1, <1>2, EntriesApart
<1>8. p \in Nat
  BY <1>1, <1>2, <1>3, EntriesApart
<1>9. DataOf(p, archive[i]) = p + DataPlace(archive[i])
  BY <1>1, <1>3, <1>8, EntryStep
<1>10. i \in 1 .. n - 1 /\ i + 1 \in 1 .. n
  BY <1>2, <1>3, <1>5
<1> QED
  BY <1>1, <1>3, <1>6, <1>7, <1>9, <1>10

LEMMA FirstTrailerIsOne ==
  ASSUME Entries(archive), NEW s, NEW t, FirstTrailer(s), FirstTrailer(t)
  PROVE  s = t
<1>1. PICK n : n = Len(archive)
  OBVIOUS
<1>2. n \in Nat
  BY <1>1, EntriesAre
<1>3. s \in 1 .. n /\ t \in 1 .. n /\ ~(s \in 1 .. t - 1) /\ ~(t \in 1 .. s - 1)
  BY <1>1 DEF FirstTrailer, NoTrailerBefore
<1> QED
  BY <1>2, <1>3

(* The first framebuffer tag.                                              *)
LEMMA FbFound ==
  ASSUME Tags(tags), NEW i, OnTag(i), NoFbBefore(i)
  PROVE  /\ tags[i].type = TagFramebuffer =>
              FbMeant = IF tags[i].value = 0 THEN FallbackFb ELSE tags[i].value
         /\ tags[i].type = 0 => FbMeant = FallbackFb
<1>1. PICK n : n = Len(tags)
  OBVIOUS
<1>2. n \in Nat /\ DOMAIN tags = 1 .. n /\ i \in 1 .. n /\ (tags[i].type = 0 <=> i = n)
  BY <1>1, TagsAre, TagHere
<1>3. OfType(TagFramebuffer) \subseteq Nat /\ \A j \in OfType(TagFramebuffer) : j \in 1 .. n /\ i <= j
  BY <1>2 DEF OfType, NoFbBefore
<1>4. CASE tags[i].type = TagFramebuffer
  <2>1. i \in OfType(TagFramebuffer)
    BY <1>2, <1>4 DEF OfType
  <2>2. Min(OfType(TagFramebuffer)) \in OfType(TagFramebuffer) /\ Min(OfType(TagFramebuffer)) <= i
    BY <1>3, <2>1, LeastIs
  <2>3. Min(OfType(TagFramebuffer)) = i
    BY <1>2, <1>3, <2>2
  <2>4. tags[i].type # 0
    BY <1>4 DEF TagFramebuffer
  <2> QED
    BY <2>1, <2>3, <2>4 DEF FbMeant
<1>5. CASE tags[i].type = 0
  <2>1. OfType(TagFramebuffer) = {}
    <3>1. \A j \in OfType(TagFramebuffer) : j = i
      BY <1>2, <1>3, <1>5
    <3>2. i \notin OfType(TagFramebuffer)
      BY <1>5 DEF OfType, TagFramebuffer
    <3> QED
      BY <3>1, <3>2
  <2>2. tags[i].type # TagFramebuffer
    BY <1>5 DEF TagFramebuffer
  <2> QED
    BY <2>1, <2>2, <1>5 DEF FbMeant
<1> QED
  BY <1>4, <1>5

-----------------------------------------------------------------------------
(* Every step keeps the invariant.                                         *)
LEMMA Kept ==
  ASSUME UNCHANGED boot
  PROVE  /\ tags' = tags /\ archive' = archive
         /\ FbMeant' = FbMeant
         /\ \A i : NoFbBefore(i)' <=> NoFbBefore(i)
         /\ \A i : NoTrailerBefore(i)' <=> NoTrailerBefore(i)
         /\ \A i : FirstTrailer(i)' <=> FirstTrailer(i)
         /\ \A i : Given(i)' = Given(i) /\ PathOf(i)' = PathOf(i)
         /\ \A path, i : NotBefore(path, i)' <=> NotBefore(path, i)
         /\ \A path, c, i : FirstAt(path, c, i)' <=> FirstAt(path, c, i)
<1>1. tags' = tags /\ archive' = archive
  BY DEF boot
<1>2. FbMeant' = FbMeant
  BY <1>1 DEF FbMeant, OfType
<1>3. \A i : NoFbBefore(i)' <=> NoFbBefore(i)
  BY <1>1 DEF NoFbBefore
<1>4. \A i : NoTrailerBefore(i)' <=> NoTrailerBefore(i)
  BY <1>1 DEF NoTrailerBefore
<1>5. \A i : FirstTrailer(i)' <=> FirstTrailer(i)
  BY <1>1, <1>4 DEF FirstTrailer
<1>6. \A i : Given(i)' = Given(i) /\ PathOf(i)' = PathOf(i)
  BY <1>1 DEF Given, PathOf
<1>7. \A path, i : NotBefore(path, i)' <=> NotBefore(path, i)
  BY <1>6 DEF NotBefore
<1>8. \A path, c, i : FirstAt(path, c, i)' <=> FirstAt(path, c, i)
  BY <1>6, <1>7 DEF FirstAt
<1> QED
  BY <1>1, <1>2, <1>3, <1>4, <1>5, <1>6, <1>7, <1>8

LEMMA StartIsSound == BootInit => BootInv
<1> SUFFICES ASSUME BootInit PROVE BootInv
  OBVIOUS
<1>1. PICK load \in Loads : tags = load.tags /\ archive = load.archive
  BY DEF BootInit
<1>2. Tags(tags)
  BY <1>1, LoadsAssumption DEF Tags
<1>3. Entries(archive)
  BY <1>1, LoadsAssumption DEF Entries
<1>4. stage = "fb" /\ p = 8 /\ module = "none" /\ seen = <<>> /\ font = 0
  BY DEF BootInit
<1>5. OnTag(1) /\ NoFbBefore(1)
  BY <1>2, <1>4, FirstTag DEF NoFbBefore
<1>6. TagsInv
  BY <1>4, <1>5 DEF TagsInv
<1> QED
  BY <1>2, <1>3, <1>4, <1>6 DEF BootInv

LEMMA HaltKeeps == BootInv /\ NoFramebuffer => BootInv'
<1> SUFFICES ASSUME BootInv, NoFramebuffer PROVE BootInv'
  OBVIOUS
<1>1. stage = "fb" /\ stage' = "halted" /\ UNCHANGED boot /\ module' = module /\ seen' = seen /\ font' = font
  BY DEF NoFramebuffer
<1>2. Tags(tags)' /\ Entries(archive)'
  BY <1>1, Kept DEF BootInv
<1>3. TagsInv'
  BY <1>1 DEF TagsInv
<1>4. module' = "none" /\ font' = 0
  BY <1>1 DEF BootInv
<1> QED
  BY <1>1, <1>2, <1>3, <1>4 DEF BootInv

LEMMA FbKeeps == BootInv /\ FbInit => BootInv'
<1> SUFFICES ASSUME BootInv, FbInit PROVE BootInv'
  OBVIOUS
<1>1. stage = "fb" /\ UNCHANGED boot /\ module' = module /\ seen' = seen /\ font' = font
  BY DEF FbInit
<1>2. Tags(tags) /\ Tags(tags)' /\ Entries(archive)'
  BY <1>1, Kept DEF BootInv
<1>3. module' = "none" /\ seen' = <<>> /\ font' = 0
  BY <1>1 DEF BootInv
<1>4. PICK i : OnTag(i) /\ NoFbBefore(i)
  BY <1>1 DEF BootInv, TagsInv
<1>5. i \in TagAt(p) /\ TagAt(p) = {i}
  BY <1>2, <1>4, TagHere
<1>6. CASE tags[i].type \in {0, TagFramebuffer}
  <2>1. /\ fb' = IF tags[i].type = 0 \/ tags[i].value = 0 THEN FallbackFb ELSE tags[i].value
        /\ stage' = "module" /\ p' = 8
    BY <1>5, <1>6 DEF FbInit
  <2>2. fb' = FbMeant'
    <3>1. fb' = FbMeant
      BY <1>2, <1>4, <1>6, <2>1, FbFound
    <3> QED
      BY <1>1, <3>1, Kept
  <2>3. OnTag(1)'
    <3>1. Len(tags) \in Nat \ {0} /\ TagPlace(tags, 1) = 8
      <4>1. PICK n : n = Len(tags)
        OBVIOUS
      <4>2. n \in Nat
        BY <1>2, <4>1, TagsAre
      <4> QED
        BY <1>2, <4>1, <4>2, TagsAre, TagsApart
    <3> QED
      BY <1>1, <2>1, <3>1, Kept DEF OnTag
  <2>4. ModuleBefore(1)'
    BY <1>3 DEF ModuleBefore
  <2>5. TagsInv'
    BY <2>1, <2>2, <2>3, <2>4 DEF TagsInv
  <2> QED
    BY <1>2, <1>3, <2>1, <2>5 DEF BootInv
<1>7. CASE tags[i].type \notin {0, TagFramebuffer}
  <2>1. p' = p + AlignTag(tags[i].size) /\ stage' = "fb"
    BY <1>1, <1>5, <1>7 DEF FbInit
  <2>2. i + 1 \in 1 .. Len(tags) /\ p + AlignTag(tags[i].size) = TagPlace(tags, i + 1)
    BY <1>2, <1>4, <1>7, NextTag
  <2>3. OnTag(i + 1)'
    BY <1>1, <2>1, <2>2, Kept DEF OnTag
  <2>4. NoFbBefore(i + 1)'
    <3>1. NoFbBefore(i + 1)
      <4>1. i \in Nat
        BY <1>2, <1>4, TagHere
      <4> QED
        BY <1>4, <1>7, <4>1 DEF NoFbBefore
    <3> QED
      BY <1>1, <3>1, Kept
  <2>5. TagsInv'
    BY <2>1, <2>3, <2>4 DEF TagsInv
  <2> QED
    BY <1>2, <1>3, <2>1, <2>5 DEF BootInv
<1> QED
  BY <1>6, <1>7

LEMMA DetectKeeps == BootInv /\ DetectInitramfs => BootInv'
<1> SUFFICES ASSUME BootInv, DetectInitramfs PROVE BootInv'
  OBVIOUS
<1>1. stage = "module" /\ UNCHANGED boot /\ fb' = fb /\ seen' = seen /\ font' = font
  BY DEF DetectInitramfs
<1>2. Tags(tags) /\ Tags(tags)' /\ Entries(archive) /\ Entries(archive)'
  BY <1>1, Kept DEF BootInv
<1>3. seen' = <<>> /\ font' = 0 /\ fb' = FbMeant'
  BY <1>1, Kept DEF BootInv, TagsInv
<1>4. PICK i : OnTag(i) /\ ModuleBefore(i)
  BY <1>1 DEF BootInv, TagsInv
<1>5. TagAt(p) = {i} /\ i \in 1 .. Len(tags) /\ (tags[i].type = 0 <=> i = Len(tags))
  BY <1>2, <1>4, TagHere
<1>6. CASE tags[i].type = 0
  <2>1. /\ stage' = IF module = "none" THEN "shell" ELSE "extract"
        /\ p' = 0 /\ module' = module
    BY <1>5, <1>6 DEF DetectInitramfs
  <2>2. ModuleBefore(Len(tags))'
    BY <1>1, <1>4, <1>5, <1>6, <2>1, Kept DEF ModuleBefore
  <2>3. TagsInv'
    BY <1>3, <2>1, <2>2 DEF TagsInv
  <2>4. module' = "archive" => ArchiveInv'
    <3> SUFFICES ASSUME module' = "archive" PROVE ArchiveInv'
      OBVIOUS
    <3>1. stage' = "extract"
      BY <2>1
    <3>2. OnEntry(1)'
      <4>1. Len(archive) \in Nat \ {0} /\ EntryPlace(archive, 1) = 0
        <5>1. PICK n : n = Len(archive)
          OBVIOUS
        <5>2. n \in Nat
          BY <1>2, <5>1, EntriesAre
        <5> QED
          BY <1>2, <5>1, <5>2, EntriesAre, EntriesApart
      <4> QED
        BY <1>1, <2>1, <4>1, Kept DEF OnEntry, NoTrailerBefore
    <3>3. SeenBefore(1)'
      BY <1>3 DEF SeenBefore
    <3> QED
      BY <3>1, <3>2, <3>3 DEF ArchiveInv
  <2> QED
    BY <1>2, <1>3, <2>1, <2>3, <2>4 DEF BootInv
<1>7. CASE tags[i].type # 0
  <2>1. /\ module' = IF tags[i].type = TagModule THEN tags[i].value ELSE module
        /\ p' = p + AlignTag(tags[i].size) /\ stage' = "module"
    BY <1>1, <1>5, <1>7 DEF DetectInitramfs
  <2>2. i + 1 \in 1 .. Len(tags) /\ p + AlignTag(tags[i].size) = TagPlace(tags, i + 1)
    BY <1>2, <1>4, <1>7, NextTag
  <2>3. OnTag(i + 1)'
    BY <1>1, <2>1, <2>2, Kept DEF OnTag
  <2>4. ModuleBefore(i + 1)'
    <3>1. i \in Nat /\ i >= 1
      BY <1>5
    <3>2. CASE tags[i].type = TagModule
      <4>1. module' = tags'[i].value /\ tags'[i].type = TagModule
        BY <1>1, <2>1, <3>2, Kept
      <4>2. i \in 1 .. (i + 1) - 1 /\ \A j \in i + 1 .. (i + 1) - 1 : FALSE
        BY <3>1
      <4> QED
        BY <4>1, <4>2 DEF ModuleBefore
    <3>3. CASE tags[i].type # TagModule
      <4>1. module' = module /\ tags' = tags
        BY <1>1, <2>1, <3>3, Kept
      <4>2. CASE module = "none" /\ \A j \in 1 .. i - 1 : tags[j].type # TagModule
        BY <3>1, <3>3, <4>1, <4>2 DEF ModuleBefore
      <4>3. ASSUME NEW m \in 1 .. i - 1, tags[m].type = TagModule, module = tags[m].value,
                   \A j \in m + 1 .. i - 1 : tags[j].type # TagModule
            PROVE  ModuleBefore(i + 1)'
        <5>1. m \in 1 .. (i + 1) - 1 /\ tags'[m].type = TagModule /\ module' = tags'[m].value
          BY <3>1, <4>1, <4>3
        <5>2. \A j \in m + 1 .. (i + 1) - 1 : tags'[j].type # TagModule
          BY <3>1, <3>3, <4>1, <4>3
        <5> QED
          BY <5>1, <5>2 DEF ModuleBefore
      <4> QED
        BY <1>4, <4>2, <4>3 DEF ModuleBefore
    <3> QED
      BY <3>2, <3>3
  <2>5. TagsInv'
    BY <1>3, <2>1, <2>3, <2>4 DEF TagsInv
  <2> QED
    BY <1>2, <1>3, <2>1, <2>5 DEF BootInv
<1> QED
  BY <1>6, <1>7

(* The walks over the archive.                                             *)
LEMMA LaterTags ==
  ASSUME BootInv, UNCHANGED <<boot, fb, module>>,
         stage \in {"extract", "cfg", "font"}, stage' \in {"extract", "cfg", "font", "shell"},
         stage' # "shell" => font' = 0, module = "archive" => ArchiveInv'
  PROVE  BootInv'
<1>1. UNCHANGED boot
  OBVIOUS
<1>2. Tags(tags)' /\ Entries(archive)' /\ FbMeant' = FbMeant /\ tags' = tags
  BY <1>1, Kept DEF BootInv
<1>3. fb = FbMeant /\ ModuleBefore(Len(tags))
  BY DEF BootInv, TagsInv
<1>4. ModuleBefore(Len(tags))'
  BY <1>2, <1>3 DEF ModuleBefore
<1>5. TagsInv'
  BY <1>2, <1>3, <1>4 DEF TagsInv
<1> QED
  BY <1>2, <1>5 DEF BootInv

LEMMA SeenGrows ==
  ASSUME NEW i \in Nat \ {0}, SeenBefore(i)
  PROVE  Append(seen, Given(i)) = [j \in 1 .. (i + 1) - 1 |-> Given(j)]
<1>1. PICK S : S = {Given(j) : j \in 1 .. i}
  OBVIOUS
<1>2. PICK n \in Nat : n = i - 1
  OBVIOUS
<1>3. PICK s : s = [j \in 1 .. n |-> Given(j)]
  OBVIOUS
<1>4. s \in Seq(S) /\ Len(s) = n
  <2>1. \A j \in 1 .. n : s[j] \in S
    BY <1>1, <1>2, <1>3
  <2>2. s \in [1 .. n -> S]
    BY <1>3, <2>1
  <2> QED
    BY <1>2, <1>3, <2>2
<1>5. Given(i) \in S
  BY <1>1
<1>6. PICK w : w = Append(s, Given(i))
  OBVIOUS
<1>7. /\ w \in Seq(S) /\ Len(w) = n + 1
      /\ \A j \in 1 .. n : w[j] = s[j]
      /\ w[n + 1] = Given(i)
  BY <1>4, <1>5, <1>6, AppendProperties
<1>8. DOMAIN w = 1 .. i
  BY <1>2, <1>7, LenProperties
<1>9. \A j \in 1 .. i : w[j] = Given(j)
  BY <1>2, <1>3, <1>7
<1>10. w = [j \in 1 .. i |-> Given(j)]
  BY <1>7, <1>8, <1>9, LenProperties
<1>11. seen = s
  BY <1>2, <1>3 DEF SeenBefore
<1>12. (i + 1) - 1 = i
  OBVIOUS
<1> QED
  BY <1>6, <1>10, <1>11, <1>12, Zenon

LEMMA ExtractKeeps == BootInv /\ ExtractEntry => BootInv'
<1> SUFFICES ASSUME BootInv, ExtractEntry PROVE BootInv'
  OBVIOUS
<1>1. stage = "extract" /\ stage' = "extract" /\ UNCHANGED <<boot, fb, module, font>> /\ font' = 0
  BY DEF ExtractEntry, BootInv
<1>2. ASSUME module = "archive" PROVE ArchiveInv'
  <2>1. PICK i : OnEntry(i) /\ SeenBefore(i)
    BY <1>1, <1>2 DEF BootInv, ArchiveInv
  <2>2. Entries(archive)
    BY DEF BootInv
  <2>3. /\ i \in 1 .. Len(archive) /\ (IsTrailer(archive[i]) => Entry(p) = {})
        /\ (~IsTrailer(archive[i]) => Entry(p) = {archive[i]})
    BY <1>2, <2>1, <2>2, EntryHere
  <2>4. ~IsTrailer(archive[i]) /\ Entry(p) = {archive[i]}
    BY <2>3 DEF ExtractEntry
  <2>5. /\ seen' = Append(seen, [path |-> Cut(Normalised(archive[i].name)), data |-> DataOf(p, archive[i])])
        /\ p' = CpioNext(p, archive[i])
    BY <2>4 DEF ExtractEntry
  <2>6. /\ i + 1 \in 1 .. Len(archive) /\ NoTrailerBefore(i + 1)
        /\ CpioNext(p, archive[i]) = EntryPlace(archive, i + 1)
        /\ DataOf(p, archive[i]) = EntryPlace(archive, i) + DataPlace(archive[i])
    BY <2>1, <2>2, <2>4, NextEntry
  <2>7. OnEntry(i + 1)'
    BY <1>1, <2>5, <2>6, Kept DEF OnEntry
  <2>8. SeenBefore(i + 1)'
    <3>1. seen' = Append(seen, Given(i))
      BY <2>5, <2>6 DEF Given, PathOf
    <3>2. i \in Nat \ {0}
      BY <2>3
    <3>3. seen' = [j \in 1 .. (i + 1) - 1 |-> Given(j)]
      BY <2>1, <3>1, <3>2, SeenGrows
    <3>4. \A j : Given(j)' = Given(j)
      BY <1>1, Kept
    <3> QED
      BY <3>3, <3>4 DEF SeenBefore
  <2> QED
    BY <1>1, <2>7, <2>8 DEF ArchiveInv
<1> QED
  BY <1>1, <1>2, LaterTags

LEMMA FirstEntryNext ==
  ASSUME Entries(archive), UNCHANGED boot, p' = 0
  PROVE  OnEntry(1)' /\ \A path : NotBefore(path, 1)'
<1>1. Len(archive) \in Nat \ {0} /\ EntryPlace(archive, 1) = 0
  <2>1. PICK n : n = Len(archive)
    OBVIOUS
  <2>2. n \in Nat
    BY <2>1, EntriesAre
  <2> QED
    BY <2>1, <2>2, EntriesAre, EntriesApart
<1>2. OnEntry(1)'
  BY <1>1, Kept DEF OnEntry, NoTrailerBefore
<1> QED
  BY <1>2 DEF NotBefore

LEMMA SeenStays ==
  ASSUME UNCHANGED <<boot, seen>>, NEW t, SeenBefore(t)
  PROVE  SeenBefore(t)'
<1>1. \A j : Given(j)' = Given(j)
  BY Kept
<1> QED
  BY <1>1 DEF SeenBefore

LEMMA ExtractEndKeeps == BootInv /\ ExtractEnd => BootInv'
<1> SUFFICES ASSUME BootInv, ExtractEnd PROVE BootInv'
  OBVIOUS
<1>1. /\ stage = "extract" /\ stage' = "cfg" /\ p' = 0 /\ UNCHANGED <<boot, fb, module, seen, font>>
      /\ font' = 0 /\ Entry(p) = {}
  BY DEF ExtractEnd, BootInv
<1>2. ASSUME module = "archive" PROVE ArchiveInv'
  <2>1. PICK i : OnEntry(i) /\ SeenBefore(i)
    BY <1>1, <1>2 DEF BootInv, ArchiveInv
  <2>2. Entries(archive)
    BY DEF BootInv
  <2>3. FirstTrailer(i)
    BY <1>1, <1>2, <2>1, <2>2, EntryHere
  <2>4. FirstTrailer(i)' /\ SeenBefore(i)'
    <3>1. UNCHANGED boot
      BY <1>1
    <3>2. FirstTrailer(i)'
      BY <2>3, <3>1, Kept
    <3> QED
      BY <1>1, <2>1, <3>2, SeenStays
  <2>5. OnEntry(1)' /\ NotBefore(CfgName, 1)'
    BY <1>1, <2>2, FirstEntryNext
  <2> QED
    BY <1>1, <2>4, <2>5 DEF ArchiveInv
<1> QED
  BY <1>1, <1>2, LaterTags

(* One round of cpio_find_file.                                            *)
LEMMA PassKeeps ==
  ASSUME BootInv, module = "archive", NEW path, FindPass(path),
         NEW i, OnEntry(i), NotBefore(path, i)
  PROVE  OnEntry(i + 1)' /\ NotBefore(path, i + 1)'
<1>1. UNCHANGED boot /\ Entries(archive)
  BY DEF FindPass, BootInv
<1>2. /\ i \in 1 .. Len(archive) /\ (IsTrailer(archive[i]) => Entry(p) = {})
      /\ (~IsTrailer(archive[i]) => Entry(p) = {archive[i]})
  BY <1>1, EntryHere
<1>3. ~IsTrailer(archive[i]) /\ Entry(p) = {archive[i]}
  BY <1>2 DEF FindPass
<1>4. PathOf(i) # path /\ p' = CpioNext(p, archive[i])
  BY <1>3 DEF FindPass, PathOf
<1>5. /\ i + 1 \in 1 .. Len(archive) /\ NoTrailerBefore(i + 1)
      /\ CpioNext(p, archive[i]) = EntryPlace(archive, i + 1)
  BY <1>1, <1>3, NextEntry
<1>6. OnEntry(i + 1)'
  BY <1>1, <1>4, <1>5, Kept DEF OnEntry
<1>7. NotBefore(path, i + 1)
  BY <1>2, <1>4 DEF NotBefore
<1> QED
  BY <1>1, <1>6, <1>7, Kept

LEMMA FoundIsFirst ==
  ASSUME Entries(archive), module = "archive", NEW path, NEW i, OnEntry(i), NotBefore(path, i),
         NEW t, FirstTrailer(t)
  PROVE  /\ Entry(p) = {} => NotBefore(path, t)
         /\ Entry(p) # {} => /\ Entry(p) = {archive[i]}
                             /\ PathOf(i) = path => FirstAt(path, i, t)
<1>1. PICK n : n = Len(archive)
  OBVIOUS
<1>2. n \in Nat /\ t \in 1 .. n /\ IsTrailer(archive[t])
  BY <1>1, EntriesAre DEF FirstTrailer
<1>3. /\ i \in 1 .. n /\ (IsTrailer(archive[i]) => Entry(p) = {} /\ FirstTrailer(i))
      /\ (~IsTrailer(archive[i]) => Entry(p) = {archive[i]})
  BY <1>1, EntryHere
<1>4. CASE IsTrailer(archive[i])
  <2>1. i = t
    BY <1>3, <1>4, FirstTrailerIsOne
  <2> QED
    BY <1>3, <1>4, <2>1
<1>5. CASE ~IsTrailer(archive[i])
  <2>1. i # t /\ ~(t \in 1 .. i - 1)
    BY <1>2, <1>5 DEF OnEntry, NoTrailerBefore
  <2>2. i \in 1 .. t - 1
    BY <1>2, <1>3, <2>1
  <2>3. PathOf(i) = path => FirstAt(path, i, t)
    BY <2>2 DEF FirstAt
  <2> QED
    BY <1>3, <1>5, <2>3
<1> QED
  BY <1>4, <1>5

LEMMA CfgKeeps == BootInv /\ FindCfg => BootInv'
<1> SUFFICES ASSUME BootInv, FindCfg PROVE BootInv'
  OBVIOUS
<1>1. /\ stage = "cfg" /\ UNCHANGED <<boot, fb, module, seen, font>> /\ font' = 0
      /\ stage' \in {"cfg", "font"}
  BY DEF FindCfg, FindPass, BootInv
<1>2. ASSUME module = "archive" PROVE ArchiveInv'
  <2>1. PICK i : OnEntry(i) /\ NotBefore(CfgName, i)
    BY <1>1, <1>2 DEF BootInv, ArchiveInv
  <2>2. PICK t : FirstTrailer(t) /\ SeenBefore(t)
    BY <1>1, <1>2 DEF BootInv, ArchiveInv
  <2>3. Entries(archive) /\ UNCHANGED boot
    BY <1>1 DEF BootInv
  <2>4. FirstTrailer(t)' /\ SeenBefore(t)'
    <3>1. FirstTrailer(t)'
      BY <2>2, <2>3, Kept
    <3> QED
      BY <1>1, <2>2, <3>1, SeenStays
  <2>5. /\ Entry(p) = {} => NotBefore(CfgName, t)
        /\ Entry(p) # {} => /\ Entry(p) = {archive[i]}
                            /\ PathOf(i) = CfgName => FirstAt(CfgName, i, t)
    BY <1>2, <2>1, <2>2, <2>3, FoundIsFirst
  <2>6. CASE FindPass(CfgName)
    <3>1. OnEntry(i + 1)' /\ NotBefore(CfgName, i + 1)'
      BY <1>2, <2>1, <2>6, PassKeeps
    <3>2. stage' = "cfg"
      BY <1>1, <2>6 DEF FindPass
    <3> QED
      BY <2>4, <3>1, <3>2 DEF ArchiveInv
  <2>7. ASSUME stage' = "font", p' = 0, CfgRead(t)' PROVE ArchiveInv'
    <3>1. OnEntry(1)' /\ \A path : NotBefore(path, 1)'
      BY <2>3, <2>7, FirstEntryNext
    <3>2. NotBefore(wanted, 1)'
      BY DEF NotBefore
    <3> QED
      BY <2>4, <2>7, <3>1, <3>2 DEF ArchiveInv
  <2>8. ASSUME NEW e \in Entry(p), Normalised(e.name) = CfgName,
               wanted' = <<"fonts/">> \o FontNamed(e), stage' = "font", p' = 0
        PROVE  ArchiveInv'
    <3>1. e = archive[i] /\ PathOf(i) = CfgName /\ FirstAt(CfgName, i, t)
      BY <2>5, <2>8 DEF PathOf
    <3>2. FirstAt(CfgName, i, t)' /\ wanted' = <<"fonts/">> \o FontNamed(archive'[i])
      BY <2>3, <2>8, <3>1, Kept
    <3>3. CfgRead(t)'
      BY <3>2 DEF CfgRead
    <3> QED
      BY <2>7, <2>8, <3>3
  <2>9. ASSUME Entry(p) = {}, wanted' = <<"fonts/", Fallback>>, stage' = "font", p' = 0
        PROVE  ArchiveInv'
    <3>1. NotBefore(CfgName, t)'
      BY <2>3, <2>5, <2>9, Kept
    <3>2. CfgRead(t)'
      BY <2>9, <3>1 DEF CfgRead
    <3> QED
      BY <2>7, <2>9, <3>2
  <2> QED
    BY <2>6, <2>8, <2>9 DEF FindCfg
<1> QED
  BY <1>1, <1>2, LaterTags

LEMMA FontKeeps == BootInv /\ FindFont => BootInv'
<1> SUFFICES ASSUME BootInv, FindFont PROVE BootInv'
  OBVIOUS
<1>1. /\ stage = "font" /\ UNCHANGED <<boot, fb, module, seen, wanted>>
      /\ stage' \in {"font", "shell"} /\ (stage' # "shell" => font' = 0) /\ font = 0
  BY DEF FindFont, FindPass, BootInv
<1>2. ASSUME module = "archive" PROVE ArchiveInv'
  <2>1. PICK i : OnEntry(i) /\ NotBefore(wanted, i)
    BY <1>1, <1>2 DEF BootInv, ArchiveInv
  <2>2. PICK t : FirstTrailer(t) /\ SeenBefore(t)
    BY <1>1, <1>2 DEF BootInv, ArchiveInv
  <2>3. Entries(archive) /\ UNCHANGED boot
    BY <1>1 DEF BootInv
  <2>4. FirstTrailer(t)' /\ SeenBefore(t)'
    <3>1. FirstTrailer(t)'
      BY <2>2, <2>3, Kept
    <3> QED
      BY <1>1, <2>2, <3>1, SeenStays
  <2>5. CfgRead(t)'
    <3>1. CfgRead(t)
      <4>1. PICK s : FirstTrailer(s) /\ CfgRead(s)
        BY <1>1, <1>2 DEF BootInv, ArchiveInv
      <4>2. s = t
        BY <2>2, <2>3, <4>1, FirstTrailerIsOne
      <4> QED
        BY <4>1, <4>2
    <3>2. /\ \A c : FirstAt(CfgName, c, t)' <=> FirstAt(CfgName, c, t)
          /\ NotBefore(CfgName, t)' <=> NotBefore(CfgName, t)
          /\ archive' = archive /\ wanted' = wanted
      BY <1>1, <2>3, Kept
    <3> QED
      BY <3>1, <3>2 DEF CfgRead
  <2>6. /\ Entry(p) = {} => NotBefore(wanted, t)
        /\ Entry(p) # {} => /\ Entry(p) = {archive[i]}
                            /\ PathOf(i) = wanted => FirstAt(wanted, i, t)
    BY <1>2, <2>1, <2>2, <2>3, FoundIsFirst
  <2>7. CASE FindPass(wanted)
    <3>1. OnEntry(i + 1)' /\ NotBefore(wanted, i + 1)'
      <4>1. PICK path : path = wanted
        OBVIOUS
      <4>2. NotBefore(path, i) /\ FindPass(path)
        BY <2>1, <2>7, <4>1
      <4>3. OnEntry(i + 1)' /\ NotBefore(path, i + 1)'
        BY <1>2, <2>1, <4>2, PassKeeps
      <4> QED
        BY <1>1, <4>1, <4>3 DEF NotBefore
    <3>2. stage' = "font"
      BY <1>1, <2>7 DEF FindPass
    <3> QED
      BY <2>4, <2>5, <3>1, <3>2 DEF ArchiveInv
  <2>8. /\ \A c : FirstAt(wanted, c, t)' <=> FirstAt(wanted, c, t)
        /\ NotBefore(wanted, t)' <=> NotBefore(wanted, t)
        /\ \A c : Given(c)' = Given(c)
        /\ archive' = archive /\ wanted' = wanted
    <3>1. PICK path : path = wanted /\ path = wanted'
      BY <1>1
    <3>2. /\ \A c : FirstAt(path, c, t)' <=> FirstAt(path, c, t)
          /\ NotBefore(path, t)' <=> NotBefore(path, t)
      BY <2>3, Kept
    <3>3. \A c : FirstAt(wanted, c, t)' <=> FirstAt(path, c, t)'
      BY <3>1 DEF FirstAt, NotBefore
    <3>4. NotBefore(wanted, t)' <=> NotBefore(path, t)'
      BY <3>1 DEF NotBefore
    <3> QED
      BY <1>1, <2>3, <3>1, <3>2, <3>3, <3>4, Kept
  <2>9. ASSUME stage' = "shell", FontRead(t)' PROVE ArchiveInv'
    BY <2>4, <2>5, <2>9 DEF ArchiveInv
  <2>10. ASSUME NEW e \in Entry(p), Normalised(e.name) = wanted,
                font' = (IF e.text = <<>> THEN 0 ELSE DataOf(p, e)), stage' = "shell"
         PROVE  ArchiveInv'
    <3>1. e = archive[i] /\ PathOf(i) = wanted /\ FirstAt(wanted, i, t)
      BY <2>6, <2>10 DEF PathOf
    <3>2. DataOf(p, e) = Given(i).data
      <4>1. ~IsTrailer(archive[i])
        BY <1>2, <2>1, <2>3, <2>10, EntryHere
      <4> QED
        BY <2>1, <2>3, <3>1, <4>1, NextEntry DEF Given
    <3>3. FontRead(t)'
      BY <2>8, <2>10, <3>1, <3>2 DEF FontRead
    <3> QED
      BY <2>9, <2>10, <3>3
  <2>11. ASSUME Entry(p) = {}, font' = font, stage' = "shell" PROVE ArchiveInv'
    <3>1. FontRead(t)'
      BY <1>1, <2>6, <2>8, <2>11 DEF FontRead
    <3> QED
      BY <2>9, <2>11, <3>1
  <2> QED
    BY <2>7, <2>10, <2>11 DEF FindFont
<1> QED
  BY <1>1, <1>2, LaterTags

LEMMA BootInvIsInductive == BootInv /\ [BootNext]_bootVars => BootInv'
<1>1. BootInv /\ UNCHANGED bootVars => BootInv'
  <2> SUFFICES ASSUME BootInv, UNCHANGED bootVars PROVE BootInv'
    OBVIOUS
  <2>1. /\ tags' = tags /\ archive' = archive /\ stage' = stage /\ p' = p /\ fb' = fb /\ module' = module
        /\ seen' = seen /\ wanted' = wanted /\ font' = font
    BY DEF bootVars
  <2>2. UNCHANGED boot
    BY DEF bootVars, boot
  <2>3. /\ \A i : OnTag(i)' <=> OnTag(i)
        /\ \A i : ModuleBefore(i)' <=> ModuleBefore(i)
    BY <2>1 DEF OnTag, ModuleBefore
  <2>4. \A i : OnEntry(i)' <=> OnEntry(i)
    BY <2>1, <2>2, Kept DEF OnEntry
  <2>5. \A i : SeenBefore(i) => SeenBefore(i)'
    BY <2>1, <2>2, SeenStays
  <2>6. \A i : NotBefore(wanted, i)' <=> NotBefore(wanted, i)
    BY <2>1 DEF NotBefore, PathOf
  <2>7. \A c, i : FirstAt(wanted, c, i)' <=> FirstAt(wanted, c, i)
    BY <2>1, <2>6 DEF FirstAt, NotBefore, PathOf
  <2>8. \A i : CfgRead(i) => CfgRead(i)'
    <3>1. \A c, i : FirstAt(CfgName, c, i)' <=> FirstAt(CfgName, c, i)
      BY <2>2, Kept
    <3>2. \A i : NotBefore(CfgName, i)' <=> NotBefore(CfgName, i)
      BY <2>2, Kept
    <3> QED
      BY <2>1, <3>1, <3>2 DEF CfgRead
  <2>9. \A i : FontRead(i) => FontRead(i)'
    <3>1. \A c : Given(c)' = Given(c)
      BY <2>2, Kept
    <3> QED
      BY <2>1, <2>6, <2>7, <3>1 DEF FontRead
  <2>10. TagsInv'
    <3>1. FbMeant' = FbMeant /\ \A i : NoFbBefore(i)' <=> NoFbBefore(i)
      BY <2>2, Kept
    <3> QED
      BY <2>1, <2>3, <3>1 DEF BootInv, TagsInv
  <2>11. ArchiveInv => ArchiveInv'
    <3>1. \A i : NotBefore(CfgName, i)' <=> NotBefore(CfgName, i)
      BY <2>2, Kept
    <3>2. \A t : FirstTrailer(t)' <=> FirstTrailer(t)
      BY <2>2, Kept
    <3> QED
      BY <2>1, <2>4, <2>5, <2>6, <2>8, <2>9, <3>1, <3>2 DEF ArchiveInv
  <2> QED
    BY <2>1, <2>10, <2>11 DEF BootInv
<1> QED
  BY <1>1, HaltKeeps, FbKeeps, DetectKeeps, ExtractKeeps, ExtractEndKeeps, CfgKeeps, FontKeeps
  DEF BootNext

LEMMA BootStaysSound == BootSpec => []BootInv
<1>1. BootInit => BootInv
  BY StartIsSound
<1>2. BootInv /\ [BootNext]_bootVars => BootInv'
  BY BootInvIsInductive
<1> QED
  BY <1>1, <1>2, PTL DEF BootSpec

-----------------------------------------------------------------------------
(* What the invariant says about the tags.                                 *)
LEMMA LastModule ==
  ASSUME Tags(tags), ModuleBefore(Len(tags))
  PROVE  module = IF OfType(TagModule) = {} THEN "none" ELSE tags[Max(OfType(TagModule))].value
<1>1. PICK n : n = Len(tags)
  OBVIOUS
<1>2. n \in Nat /\ DOMAIN tags = 1 .. n /\ n >= 1 /\ tags[n].type = 0
  BY <1>1, TagsAre
<1>3. OfType(TagModule) \subseteq Int /\ \A j \in OfType(TagModule) : j \in 1 .. n - 1
  <2>1. ASSUME NEW j \in OfType(TagModule) PROVE j \in 1 .. n - 1
    <3>1. j \in 1 .. n /\ tags[j].type = 3
      BY <1>2 DEF OfType, TagModule
    <3>2. j # n
      BY <1>2, <3>1
    <3> QED
      BY <1>2, <3>1, <3>2
  <2> QED
    BY <1>2, <2>1
<1>4. CASE module = "none" /\ \A j \in 1 .. n - 1 : tags[j].type # TagModule
  <2>1. OfType(TagModule) = {}
    BY <1>3, <1>4 DEF OfType
  <2> QED
    BY <1>4, <2>1
<1>5. ASSUME NEW m \in 1 .. n - 1, tags[m].type = TagModule, module = tags[m].value,
             \A j \in m + 1 .. n - 1 : tags[j].type # TagModule
      PROVE  OfType(TagModule) # {} /\ module = tags[Max(OfType(TagModule))].value
  <2>1. m \in OfType(TagModule)
    BY <1>2, <1>5 DEF OfType
  <2>2. \A j \in OfType(TagModule) : j <= m
    <3>1. ASSUME NEW j \in OfType(TagModule), ~(j <= m) PROVE FALSE
      <4>1. j \in m + 1 .. n - 1
        BY <1>2, <1>3, <3>1
      <4> QED
        BY <1>5, <4>1 DEF OfType
    <3> QED
      BY <3>1
  <2>3. Max(OfType(TagModule)) = m
    BY <1>3, <2>1, <2>2, LargestIs
  <2> QED
    BY <1>5, <2>1, <2>3
<1> QED
  BY <1>1, <1>4, <1>5 DEF ModuleBefore

LEMMA TagsFound == BootInv => FindsTheTags
<1> SUFFICES ASSUME BootInv PROVE FindsTheTags
  OBVIOUS
<1>1. Tags(tags) /\ TagsInv
  BY DEF BootInv
<1>2. stage \in {"fb", "module"} => TagAt(p) # {}
  BY <1>1, TagHere DEF TagsInv
<1>3. stage \notin {"fb", "halted"} => fb = FbMeant
  BY <1>1 DEF TagsInv
<1>4. stage \notin {"fb", "halted", "module"} =>
        module = (IF OfType(TagModule) = {} THEN "none" ELSE tags[Max(OfType(TagModule))].value)
  BY <1>1, LastModule DEF TagsInv
<1> QED
  BY <1>2, <1>3, <1>4 DEF FindsTheTags, FbMeant

-----------------------------------------------------------------------------
(* Names and what the path buffer holds of them.                           *)
LEMMA NormalisedIs ==
  ASSUME NEW name \in Seq(STRING)
  PROVE  Normalised(name) \in Seq(STRING)
<1>1. ASSUME NEW u \in Seq(STRING), NEW pre, Len(pre) \in Nat
      PROVE  Without(u, pre) \in Seq(STRING)
  <2>1. CASE IsPrefix(pre, u)
    <3>1. Len(pre) <= Len(u) /\ Len(u) \in Nat
      BY <2>1, LenProperties DEF IsPrefix
    <3>2. Len(pre) + 1 \in 1 .. Len(u) + 1 /\ Len(u) \in (Len(pre) + 1) - 1 .. Len(u)
      BY <1>1, <3>1
    <3>3. SubSeq(u, Len(pre) + 1, Len(u)) \in Seq(STRING)
      BY <3>2, PartIs
    <3> QED
      BY <2>1, <3>3 DEF Without
  <2>2. CASE ~IsPrefix(pre, u)
    BY <2>2 DEF Without
  <2> QED
    BY <2>1, <2>2
<1>2. Len(<<".", "/">>) \in Nat /\ Len(<<"/">>) \in Nat
  OBVIOUS
<1>3. PICK u : u = Without(name, <<".", "/">>)
  OBVIOUS
<1>4. u \in Seq(STRING)
  BY <1>1, <1>2, <1>3
<1>5. Without(u, <<"/">>) \in Seq(STRING)
  BY <1>1, <1>2, <1>4
<1> QED
  BY <1>3, <1>5 DEF Normalised

LEMMA CutIs ==
  ASSUME NEW name \in Seq(STRING)
  PROVE  StandsFor(Cut(name), name) /\ (Len(name) <= PathRoom => Cut(name) = name)
<1>1. PICK k, n \in Nat : n = Len(name) /\ k = IF n < PathRoom THEN n ELSE PathRoom
  BY LenProperties, RoomAssumption
<1>2. k \in 0 .. n /\ k <= PathRoom /\ (k = n \/ k = PathRoom) /\ (n <= PathRoom => k = n)
  BY <1>1, RoomAssumption
<1>3. PICK w : w = SubSeq(name, 1, k)
  OBVIOUS
<1>4. Cut(name) = w
  BY <1>1, <1>3 DEF Cut
<1>5. w \in Seq(STRING) /\ Len(w) = k
  <2>1. 1 \in 1 .. Len(name) + 1 /\ k \in 1 - 1 .. Len(name) /\ k - 1 + 1 = k
    BY <1>1, <1>2
  <2>2. SubSeq(name, 1, k) \in Seq(STRING) /\ Len(SubSeq(name, 1, k)) = k - 1 + 1
    BY <2>1, PartIs
  <2> QED
    BY <1>3, <2>1, <2>2
<1>6. IsPrefix(w, name)
  <2>1. SubSeq(w, 1, Len(w)) = w
    BY <1>5, SubSeqFull
  <2> QED
    BY <1>1, <1>2, <1>3, <1>5, <2>1 DEF IsPrefix
<1>7. k = n => w = name
  BY <1>1, <1>3, SubSeqFull
<1> QED
  BY <1>1, <1>2, <1>4, <1>5, <1>6, <1>7 DEF StandsFor

(* A path that the buffer holds is that of one name.                       *)
LEMMA CutShort ==
  ASSUME NEW name \in Seq(STRING), NEW path, Len(path) < PathRoom
  PROVE  Cut(name) = path <=> name = path
<1>1. /\ Cut(name) = name \/ Len(Cut(name)) = PathRoom
      /\ Len(name) <= PathRoom => Cut(name) = name
  BY CutIs DEF StandsFor
<1>2. ASSUME Cut(name) = path PROVE name = path
  <2>1. Len(Cut(name)) # PathRoom
    BY <1>2, RoomAssumption
  <2> QED
    BY <1>1, <1>2, <2>1
<1>3. ASSUME name = path PROVE Cut(name) = path
  <2>1. Len(name) <= PathRoom
    BY <1>3, LenProperties, RoomAssumption
  <2> QED
    BY <1>1, <1>3, <2>1
<1> QED
  BY <1>2, <1>3

-----------------------------------------------------------------------------
(* What it says about the archive.                                         *)
LEMMA StartsWith ==
  ASSUME NEW name \in Seq(STRING), name # << >>, NEW s
  PROVE  IsPrefix(<<s>>, name) <=> name[1] = s
<1>1. Len(name) \in Nat \ {0}
  BY EmptySeq
<1>2. PICK w : w = SubSeq(name, 1, 1)
  OBVIOUS
<1>3. SubSeq(name, 1, 1) \in Seq(STRING) /\ Len(SubSeq(name, 1, 1)) = 1 - 1 + 1
      /\ \A i \in 1 .. 1 - 1 + 1 : SubSeq(name, 1, 1)[i] = name[1 + i - 1]
  BY <1>1, PartIs
<1>4. w = <<name[1]>>
  <2>1. w \in Seq(STRING) /\ Len(w) = 1 /\ w[1] = name[1]
    BY <1>2, <1>3
  <2> QED
    BY <2>1
<1>5. SubSeq(<<s>>, 1, 1) = <<s>> /\ Len(<<s>>) = 1
  <2>1. <<s>> \in Seq({s}) /\ Len(<<s>>) = 1
    OBVIOUS
  <2> QED
    BY <2>1, SubSeqFull
<1>6. IsPrefix(<<s>>, name) <=> <<s>> = w
  BY <1>1, <1>2, <1>5 DEF IsPrefix
<1> QED
  BY <1>4, <1>6

LEMMA StartsWithTwo ==
  ASSUME NEW name \in Seq(STRING), name # << >>, NEW s, NEW t, IsPrefix(<<s, t>>, name)
  PROVE  name[1] = s
<1>1. Len(name) \in Nat \ {0}
  BY EmptySeq
<1>2. Len(<<s, t>>) = 2 /\ SubSeq(<<s, t>>, 1, 2) = <<s, t>> /\ <<s, t>>[1] = s
  <2>1. <<s, t>> \in Seq({s, t}) /\ Len(<<s, t>>) = 2 /\ <<s, t>>[1] = s
    OBVIOUS
  <2> QED
    BY <2>1, SubSeqFull
<1>3. 2 <= Len(name) /\ SubSeq(name, 1, 2) = <<s, t>>
  BY <1>2 DEF IsPrefix
<1>4. SubSeq(name, 1, 2) \in Seq(STRING) /\ Len(SubSeq(name, 1, 2)) = 2 - 1 + 1
      /\ \A i \in 1 .. 2 - 1 + 1 : SubSeq(name, 1, 2)[i] = name[1 + i - 1]
  BY <1>1, <1>3, PartIs
<1>5. SubSeq(name, 1, 2)[1] = name[1]
  BY <1>1, <1>4
<1> QED
  BY <1>2, <1>3, <1>5

(* An entry called like the trailer is one.                                *)
LEMMA PlainTrailer ==
  ASSUME NEW e, e.name \in Seq(STRING), e.name # << >>, e.name[1] = "TRAILER!!!"
  PROVE  IsTrailer(e)
<1>1. ~IsPrefix(<<".", "/">>, e.name)
  BY StartsWithTwo
<1>2. ~IsPrefix(<<"/">>, e.name)
  BY StartsWith
<1>3. IsPrefix(<<"TRAILER!!!">>, e.name)
  BY StartsWith
<1>4. Normalised(e.name) = e.name
  BY <1>1, <1>2 DEF Normalised, Without
<1> QED
  BY <1>3, <1>4 DEF IsTrailer

(* The entries called like the trailer, and what is handed over of others. *)
Ends == {i \in DOMAIN archive : archive[i].name[1] = "TRAILER!!!"}
HandedOver(i) == /\ StandsFor(seen[i].path, Normalised(archive[i].name))
                 /\ seen[i].data = EntryPlace(archive, i) + DataPlace(archive[i])

LEMMA ArchiveIsWalked == BootInv => ExtractsTheArchive
<1> SUFFICES ASSUME BootInv, stage \notin {"fb", "halted", "module"}, module = "archive",
                    \A i \in DOMAIN archive : IsTrailer(archive[i]) => i \in Ends
             PROVE  /\ Len(seen) < Min(Ends) /\ (stage # "extract" => Len(seen) = Min(Ends) - 1)
                    /\ \A i \in DOMAIN seen : HandedOver(i)
  BY DEF ExtractsTheArchive, Ends, HandedOver
<1>1. PICK n : n = Len(archive)
  OBVIOUS
<1>2. n \in Nat /\ DOMAIN archive = 1 .. n
  BY <1>1, EntriesAre DEF BootInv
<1>3. ArchiveInv /\ Entries(archive)
  BY DEF BootInv
<1>4. \A i \in 1 .. n : IsTrailer(archive[i]) <=> i \in Ends
  <2>1. ASSUME NEW i \in 1 .. n, i \in Ends PROVE IsTrailer(archive[i])
    <3>1. archive[i].name \in Seq(STRING) /\ archive[i].name # << >>
      BY <1>1, <1>3, EntriesAre
    <3>2. archive[i].name[1] = "TRAILER!!!"
      BY <2>1 DEF Ends
    <3> QED
      BY <3>1, <3>2, PlainTrailer
  <2> QED
    BY <1>2, <2>1
<1>5. Ends \subseteq Nat /\ Ends # {} /\ Ends \subseteq 1 .. n
  <2>1. PICK i \in 1 .. n : IsTrailer(archive[i])
    BY <1>2, <1>3 DEF Entries
  <2>2. Ends \subseteq 1 .. n
    BY <1>2 DEF Ends
  <2> QED
    BY <1>2, <1>4, <2>1, <2>2
<1>6. PICK t : t = Min(Ends)
  OBVIOUS
<1>7. t \in Ends /\ \A i \in Ends : t <= i
  BY <1>5, <1>6, LeastIs
<1>8. t \in 1 .. n
  BY <1>5, <1>7
<1>9. FirstTrailer(t)
  <2>1. ASSUME NEW j \in 1 .. t - 1 PROVE j \in 1 .. n /\ j \notin Ends
    <3>1. j \in 1 .. n /\ ~(t <= j)
      BY <1>2, <1>8
    <3> QED
      BY <1>7, <3>1
  <2> QED
    BY <1>1, <1>4, <1>7, <1>8, <2>1 DEF FirstTrailer, NoTrailerBefore
<1>10. PICK i \in 1 .. n : SeenBefore(i) /\ i <= t /\ (stage # "extract" => i = t)
  <2>1. CASE stage = "extract"
    <3>1. PICK i : OnEntry(i) /\ SeenBefore(i)
      BY <1>3, <2>1 DEF ArchiveInv
    <3>2. i \in 1 .. n /\ NoTrailerBefore(i)
      BY <1>1, <3>1 DEF OnEntry
    <3>3. i <= t
      BY <1>4, <1>7, <1>8, <3>2 DEF NoTrailerBefore
    <3> QED
      BY <2>1, <3>1, <3>2, <3>3
  <2>2. CASE stage # "extract"
    <3>1. stage \in {"cfg", "font", "shell"}
      BY <2>2 DEF BootInv
    <3>2. PICK s : FirstTrailer(s) /\ SeenBefore(s)
      BY <1>3, <3>1 DEF ArchiveInv
    <3>3. s = t
      BY <1>3, <1>9, <3>2, FirstTrailerIsOne
    <3> QED
      BY <1>8, <3>2, <3>3
  <2> QED
    BY <2>1, <2>2
<1>11. PICK k \in Nat : k = i - 1
  BY <1>2, <1>10
<1>12. seen = [j \in 1 .. k |-> Given(j)]
  BY <1>10, <1>11 DEF SeenBefore
<1>13. Len(seen) = k /\ DOMAIN seen = 1 .. k
  BY <1>11, <1>12
<1>14. ASSUME NEW j \in 1 .. k PROVE HandedOver(j)
  <2>1. j \in 1 .. n
    BY <1>2, <1>10, <1>11
  <2>2. PICK name : name = Normalised(archive[j].name)
    OBVIOUS
  <2>3. name \in Seq(STRING)
    <3>1. archive[j].name \in Seq(STRING)
      BY <1>1, <1>3, <2>1, EntriesAre
    <3> QED
      BY <2>2, <3>1, NormalisedIs
  <2>4. StandsFor(Cut(name), name)
    BY <2>3, CutIs
  <2>5. seen[j] = [path |-> Cut(name), data |-> EntryPlace(archive, j) + DataPlace(archive[j])]
    BY <1>12, <2>2 DEF Given, PathOf
  <2> QED
    BY <2>2, <2>4, <2>5 DEF HandedOver
<1> QED
  BY <1>6, <1>8, <1>10, <1>11, <1>13, <1>14

-----------------------------------------------------------------------------
(* The font.  A line of font.cfg that a newline ends is read as it stands. *)
LEMMA BytesAre ==
  ASSUME NEW e, e.text \in Seq(STRING)
  PROVE  /\ \E S : BytesFrom(e) \in Seq(S)
         /\ Len(e.text) \in Nat /\ Len(BytesFrom(e)) \in Nat /\ Len(BytesFrom(e)) >= Len(e.text) + 1
         /\ \A i \in 1 .. Len(e.text) : BytesFrom(e)[i] = e.text[i]
         /\ \A i \in Len(e.text) + 1 .. Len(BytesFrom(e)) : BytesFrom(e)[i] \in {"NUL", "070701"}
<1>1. PICK s : s = e.text
  OBVIOUS
<1>2. PICK n \in Nat : n = Len(s)
  BY <1>1, LenProperties
<1>3. PICK S : S = STRING \cup {"NUL", "070701"}
  OBVIOUS
<1>4. PICK k \in Nat : k = Padded(n, 4) - n
  <2>1. Padded(n, 4) \in Nat /\ Padded(n, 4) >= n
    BY EntryRound
  <2> QED
    BY <2>1
<1>5. PICK fill : fill = [i \in 1 .. k |-> "NUL"]
  OBVIOUS
<1>6. fill \in Seq(S) /\ Len(fill) = k /\ \A i \in 1 .. k : fill[i] = "NUL"
  <2>1. fill \in [1 .. k -> S]
    BY <1>3, <1>5
  <2> QED
    BY <1>5, <2>1
<1>7. PICK last : last = <<"070701">>
  OBVIOUS
<1>8. last \in Seq(S) /\ Len(last) = 1 /\ last[1] = "070701"
  BY <1>3, <1>7
<1>9. s \in Seq(S)
  <2>1. s \in Seq(STRING) /\ STRING \subseteq S
    BY <1>1, <1>3
  <2> QED
    BY <2>1, SeqMonotonic
<1>10. PICK u : u = s \o fill
  OBVIOUS
<1>11. /\ u \in Seq(S) /\ Len(u) = n + k
       /\ \A i \in 1 .. n + k : u[i] = IF i <= n THEN s[i] ELSE fill[i - n]
  <2>1. /\ s \o fill \in Seq(S) /\ Len(s \o fill) = Len(s) + Len(fill)
        /\ \A i \in 1 .. Len(s) + Len(fill) :
             (s \o fill)[i] = IF i <= Len(s) THEN s[i] ELSE fill[i - Len(s)]
    BY <1>6, <1>9, ConcatProperties
  <2> QED
    BY <1>2, <1>6, <1>10, <2>1
<1>12. PICK w : w = u \o last
  OBVIOUS
<1>13. /\ w \in Seq(S) /\ Len(w) = n + k + 1
       /\ \A i \in 1 .. n + k + 1 : w[i] = IF i <= n + k THEN u[i] ELSE last[i - (n + k)]
  <2>1. /\ u \o last \in Seq(S) /\ Len(u \o last) = Len(u) + Len(last)
        /\ \A i \in 1 .. Len(u) + Len(last) :
             (u \o last)[i] = IF i <= Len(u) THEN u[i] ELSE last[i - Len(u)]
    BY <1>8, <1>11, ConcatProperties
  <2> QED
    BY <1>8, <1>11, <1>12, <2>1
<1>14. BytesFrom(e) = w
  BY <1>1, <1>2, <1>4, <1>5, <1>7, <1>10, <1>12 DEF BytesFrom
<1>15. \A i \in 1 .. n : w[i] = s[i]
  <2> SUFFICES ASSUME NEW i \in 1 .. n PROVE w[i] = s[i]
    OBVIOUS
  <2>1. i \in 1 .. n + k /\ i \in 1 .. n + k + 1 /\ i <= n /\ i <= n + k
    OBVIOUS
  <2>2. u[i] = s[i]
    BY <1>11, <2>1
  <2>3. w[i] = u[i]
    BY <1>13, <2>1
  <2> QED
    BY <2>2, <2>3
<1>16. ASSUME NEW i \in n + 1 .. Len(w) PROVE w[i] \in {"NUL", "070701"}
  <2>1. CASE i <= n + k
    <3>1. w[i] = u[i] /\ u[i] = fill[i - n] /\ i - n \in 1 .. k
      BY <1>11, <1>13, <2>1
    <3> QED
      BY <1>6, <3>1
  <2>2. CASE ~(i <= n + k)
    <3>1. w[i] = last[i - (n + k)] /\ i - (n + k) = 1
      BY <1>13, <2>2
    <3> QED
      BY <1>8, <3>1
  <2> QED
    BY <2>1, <2>2
<1> QED
  BY <1>1, <1>2, <1>13, <1>14, <1>15, <1>16

Hits(bytes) == {i \in DOMAIN bytes : bytes[i] = "FONT=" /\ \A j \in 1 .. i : bytes[j] # "NUL"}

LEMMA NoMark ==
  ASSUME NEW e, e.text \in Seq(STRING), {k \in DOMAIN e.text : e.text[k] = "FONT="} = {}
  PROVE  FontNamed(e) = <<Fallback>>
<1>1. PICK n \in Nat : n = Len(e.text)
  BY LenProperties
<1>2. PICK bytes : bytes = BytesFrom(e)
  OBVIOUS
<1>3. PICK S : bytes \in Seq(S)
  BY <1>2, BytesAre
<1>4. /\ n \in Nat /\ n = Len(e.text) /\ Len(bytes) \in Nat /\ Len(bytes) >= n + 1
      /\ \A i \in 1 .. n : bytes[i] = e.text[i]
      /\ \A i \in n + 1 .. Len(bytes) : bytes[i] \in {"NUL", "070701"}
  BY <1>1, <1>2, BytesAre
<1>5. DOMAIN bytes = 1 .. Len(bytes) /\ DOMAIN e.text = 1 .. n
  BY <1>3, <1>4, LenProperties
<1>6. ASSUME NEW i \in DOMAIN bytes PROVE bytes[i] # "FONT="
  <2>1. CASE i \in 1 .. n
    BY <1>4, <1>2, <1>5, <2>1
  <2>2. CASE i \in n + 1 .. Len(bytes)
    BY <1>4, <1>2, <2>2
  <2> QED
    BY <1>4, <1>2, <1>5, <2>1, <2>2
<1>7. Hits(BytesFrom(e)) = {}
  BY <1>2, <1>6 DEF Hits
<1> QED
  BY <1>7 DEF FontNamed, Hits

(* The one mark of a text without NULs, before a name that its line ends.  *)
EndsLine(text, k, z) ==
  /\ z \in k + 1 .. Len(text) /\ text[z] \in {"NL", "CR"}
  /\ \A i \in k + 1 .. z - 1 : text[i] \notin {"NL", "CR"}

LEMMA OneMark ==
  ASSUME NEW e, e.text \in Seq(STRING), NEW k \in 1 .. Len(e.text),
         {i \in DOMAIN e.text : e.text[i] = "FONT="} = {k},
         \A i \in DOMAIN e.text : e.text[i] # "NUL",
         NEW z, EndsLine(e.text, k, z), z - (k + 1) <= NameRoom
  PROVE  FontNamed(e) = SubSeq(e.text, k + 1, z - 1)
<1>1. PICK n \in Nat : n = Len(e.text)
  BY LenProperties
<1>2. PICK bytes : bytes = BytesFrom(e)
  OBVIOUS
<1>3. PICK S : bytes \in Seq(S)
  BY <1>2, BytesAre
<1>4. /\ n \in Nat /\ n = Len(e.text) /\ Len(bytes) \in Nat /\ Len(bytes) >= n + 1
      /\ \A i \in 1 .. n : bytes[i] = e.text[i]
      /\ \A i \in n + 1 .. Len(bytes) : bytes[i] \in {"NUL", "070701"}
  BY <1>1, <1>2, BytesAre
<1>5. PICK m \in Nat : m = Len(bytes) /\ DOMAIN bytes = 1 .. m /\ m >= n + 1
  BY <1>3, <1>4, LenProperties
<1>6. DOMAIN e.text = 1 .. n
  BY <1>4, LenProperties
<1>7. /\ k \in 1 .. n /\ z \in k + 1 .. n /\ e.text[z] \in {"NL", "CR"}
      /\ \A i \in k + 1 .. z - 1 : e.text[i] \notin {"NL", "CR"}
  BY <1>4 DEF EndsLine
<1>8. \A i \in 1 .. n : bytes[i] = e.text[i] /\ bytes[i] # "NUL"
  <2> SUFFICES ASSUME NEW i \in 1 .. n PROVE bytes[i] = e.text[i] /\ bytes[i] # "NUL"
    OBVIOUS
  <2>1. i \in DOMAIN e.text
    BY <1>6
  <2>2. e.text[i] # "NUL"
    BY <2>1
  <2>3. bytes[i] = e.text[i]
    BY <1>4
  <2> QED
    BY <2>2, <2>3
<1>9. bytes[k] = "FONT=" /\ \A i \in 1 .. n : i # k => bytes[i] # "FONT="
  <2>1. k \in {i \in DOMAIN e.text : e.text[i] = "FONT="}
    OBVIOUS
  <2>2. \A i \in {j \in DOMAIN e.text : e.text[j] = "FONT="} : i = k
    OBVIOUS
  <2> QED
    BY <1>6, <1>7, <1>8, <2>1, <2>2
<1>10. \A i \in n + 1 .. m : bytes[i] # "FONT="
  BY <1>4, <1>2, <1>5
<1>11. PICK hits : hits = Hits(bytes)
  OBVIOUS
<1>12. hits = {k}
  <2>1. k \in hits
    <3>1. k \in 1 .. m /\ \A j \in 1 .. k : j \in 1 .. n
      BY <1>5, <1>7
    <3> QED
      BY <1>5, <1>8, <1>9, <1>11, <3>1 DEF Hits
  <2>2. ASSUME NEW i \in hits PROVE i = k
    <3>1. i \in 1 .. m /\ bytes[i] = "FONT="
      BY <1>5, <1>11 DEF Hits
    <3>2. i \in 1 .. n \/ i \in n + 1 .. m
      BY <3>1
    <3> QED
      BY <1>9, <1>10, <3>1, <3>2
  <2> QED
    BY <2>1, <2>2
<1>13. (CHOOSE i \in hits : \A j \in hits : i <= j) = k
  <2>1. k <= k
    BY <1>7
  <2> QED
    BY <1>12, <2>1
<1>14. e.text # << >>
  <2>1. n # 0
    BY <1>7
  <2> QED
    BY <1>4, <2>1, EmptySeq
<1>15. FontNamed(e) = NameBehind(bytes, k + 1)
  <2>1. hits # {}
    BY <1>12
  <2> QED
    <3>1. FontNamed(e) = IF e.text = <<>> \/ Hits(BytesFrom(e)) = {} THEN <<Fallback>>
                         ELSE NameBehind(BytesFrom(e), (CHOOSE i \in Hits(BytesFrom(e)) :
                                                          \A j \in Hits(BytesFrom(e)) : i <= j) + 1)
      BY DEF FontNamed, Hits
    <3> QED
      BY <1>2, <1>11, <1>13, <1>14, <2>1, <3>1
<1>16. PICK Stop : Stop = [j \in k + 1 .. m + 1 |-> \/ j - (k + 1) = NameRoom \/ j = m + 1
                                                 \/ bytes[j] \in {"NL", "CR", "NUL"}]
  OBVIOUS
<1>17. z \in k + 1 .. m + 1 /\ Stop[z]
  <2>1. z \in k + 1 .. n /\ z \in k + 1 .. m + 1 /\ z \in 1 .. n
    BY <1>5, <1>7
  <2>2. bytes[z] \in {"NL", "CR", "NUL"}
    BY <1>7, <1>8, <2>1
  <2> QED
    BY <1>16, <2>1, <2>2
<1>18. ASSUME NEW i \in k + 1 .. z - 1 PROVE i \in k + 1 .. m + 1 /\ ~Stop[i]
  <2>1. i \in 1 .. n /\ i \in k + 1 .. m + 1 /\ i # m + 1
    BY <1>5, <1>7
  <2>2. i - (k + 1) # NameRoom
    <3>1. i < z /\ z \in Int /\ i \in Int /\ k \in Int /\ z - (k + 1) <= NameRoom
      BY <1>7
    <3> QED
      BY <3>1, RoomAssumption
  <2>3. bytes[i] \notin {"NL", "CR", "NUL"}
    BY <1>7, <1>8, <2>1
  <2> QED
    BY <1>16, <2>1, <2>2, <2>3
<1>19. ASSUME NEW j \in k + 1 .. m + 1, Stop[j], \A i \in k + 1 .. j - 1 : ~Stop[i] PROVE j = z
  <2>1. ~(j < z)
    <3>1. j < z => j \in k + 1 .. z - 1
      BY <1>7
    <3> QED
      BY <1>18, <1>19, <3>1
  <2>2. ~(z < j)
    <3>1. z < j => z \in k + 1 .. j - 1
      BY <1>7, <1>17
    <3> QED
      BY <1>17, <1>19, <3>1
  <2> QED
    BY <1>7, <2>1, <2>2
<1>20. (CHOOSE j \in k + 1 .. m + 1 : Stop[j] /\ \A i \in k + 1 .. j - 1 : ~Stop[i]) = z
  BY <1>17, <1>18, <1>19
<1>21. (CHOOSE j \in k + 1 .. m + 1 :
          /\ j - (k + 1) = NameRoom \/ j = m + 1 \/ bytes[j] \in {"NL", "CR", "NUL"}
          /\ \A i \in k + 1 .. j - 1 :
               ~(i - (k + 1) = NameRoom \/ i = m + 1 \/ bytes[i] \in {"NL", "CR", "NUL"})) = z
  <2>1. ASSUME NEW j \in k + 1 .. m + 1
        PROVE  Stop[j] <=> (j - (k + 1) = NameRoom \/ j = m + 1 \/ bytes[j] \in {"NL", "CR", "NUL"})
    BY <1>16
  <2>2. ASSUME NEW j \in k + 1 .. m + 1, NEW i \in k + 1 .. j - 1 PROVE i \in k + 1 .. m + 1
    BY <1>5, <1>7
  <2> QED
    BY <1>20, <2>1, <2>2
<1>22. NameBehind(bytes, k + 1) = SubSeq(bytes, k + 1, z - 1)
  BY <1>5, <1>21 DEF NameBehind
<1>23. SubSeq(bytes, k + 1, z - 1) = SubSeq(e.text, k + 1, z - 1)
  <2>1. PICK a, b : a = k + 1 /\ b = z - 1
    OBVIOUS
  <2>2. a \in 1 .. n + 1 /\ a \in 1 .. m + 1 /\ b \in a - 1 .. n /\ b \in a - 1 .. m
    BY <1>5, <1>7, <2>1
  <2>3. PICK u, w : u = SubSeq(e.text, a, b) /\ w = SubSeq(bytes, a, b)
    OBVIOUS
  <2>4. PICK T : T = S \cup STRING
    OBVIOUS
  <2>5. e.text \in Seq(T) /\ bytes \in Seq(T)
    BY <1>3, <2>4, SeqMonotonic
  <2>6. /\ SubSeq(e.text, a, b) \in Seq(T) /\ Len(SubSeq(e.text, a, b)) = b - a + 1
        /\ \A i \in 1 .. b - a + 1 : SubSeq(e.text, a, b)[i] = e.text[a + i - 1]
    BY <1>4, <2>2, <2>5, PartIs
  <2>7. /\ SubSeq(bytes, a, b) \in Seq(T) /\ Len(SubSeq(bytes, a, b)) = b - a + 1
        /\ \A i \in 1 .. b - a + 1 : SubSeq(bytes, a, b)[i] = bytes[a + i - 1]
    BY <1>5, <2>2, <2>5, PartIs
  <2>8. \A i \in 1 .. b - a + 1 : a + i - 1 \in 1 .. n
    BY <2>2
  <2>9. \A i \in 1 .. b - a + 1 : w[i] = u[i]
    BY <1>8, <2>3, <2>6, <2>7, <2>8
  <2>10. w = u
    BY <2>3, <2>6, <2>7, <2>9, SeqEqual
  <2> QED
    BY <2>1, <2>3, <2>10
<1> QED
  BY <1>15, <1>22, <1>23

LEMMA MeantIsNamed ==
  ASSUME NEW e, e.text \in Seq(STRING), NEW name \in FontsMeant(e.text)
  PROVE  FontNamed(e) = name /\ Len(name) <= NameRoom /\ \E S : name \in Seq(S)
<1>1. PICK s : s = e.text
  OBVIOUS
<1>2. PICK marks : marks = {k \in DOMAIN s : s[k] = "FONT="}
  OBVIOUS
<1>3. CASE marks = {}
  <2>1. name = <<Fallback>>
    BY <1>1, <1>2, <1>3 DEF FontsMeant
  <2>2. Len(<<Fallback>>) = 1 /\ 1 <= NameRoom /\ <<Fallback>> \in Seq({Fallback})
    BY RoomAssumption
  <2> QED
    BY <1>1, <1>2, <1>3, <2>1, <2>2, NoMark
<1>4. CASE marks # {}
  <2>1. PICK k \in marks :
          LET ends == {j \in k + 1 .. Len(s) : s[j] \in {"NL", "CR"}}
          IN  /\ name = SubSeq(s, k + 1, Min(ends) - 1)
              /\ marks = {k} /\ \A i \in DOMAIN s : s[i] # "NUL"
              /\ ends # {} /\ Min(ends) - (k + 1) <= NameRoom
    BY <1>1, <1>2, <1>4 DEF FontsMeant
  <2>2. PICK ends : ends = {j \in k + 1 .. Len(s) : s[j] \in {"NL", "CR"}}
    OBVIOUS
  <2>3. PICK z : z = Min(ends)
    OBVIOUS
  <2>4. Len(s) \in Nat /\ DOMAIN s = 1 .. Len(s)
    BY <1>1, LenProperties
  <2>5. k \in 1 .. Len(s)
    BY <1>2, <2>4
  <2>6. z \in ends /\ \A j \in ends : z <= j
    <3>1. ends \subseteq Nat /\ ends # {}
      BY <2>1, <2>2, <2>5
    <3> QED
      BY <2>3, <3>1, LeastIs
  <2>7. EndsLine(s, k, z)
    <3>1. z \in k + 1 .. Len(s) /\ s[z] \in {"NL", "CR"}
      BY <2>2, <2>6
    <3>2. ASSUME NEW i \in k + 1 .. z - 1 PROVE s[i] \notin {"NL", "CR"}
      <4>1. i \in k + 1 .. Len(s) /\ ~(z <= i)
        BY <2>4, <2>5, <3>1
      <4> QED
        BY <2>2, <2>6, <4>1
    <3> QED
      BY <3>1, <3>2 DEF EndsLine
  <2>8. name = SubSeq(s, k + 1, z - 1) /\ z - (k + 1) <= NameRoom
    BY <2>1, <2>2, <2>3
  <2>9. FontNamed(e) = SubSeq(s, k + 1, z - 1)
    BY <1>1, <1>2, <2>1, <2>5, <2>7, <2>8, OneMark
  <2>10. /\ SubSeq(s, k + 1, z - 1) \in Seq(STRING)
         /\ Len(SubSeq(s, k + 1, z - 1)) = (z - 1) - (k + 1) + 1
    <3>1. z \in k + 1 .. Len(s)
      BY <2>7 DEF EndsLine
    <3>2. k + 1 \in 1 .. Len(s) + 1 /\ z - 1 \in (k + 1) - 1 .. Len(s)
      BY <2>4, <2>5, <3>1
    <3> QED
      BY <1>1, <3>2, PartIs
  <2>11. (z - 1) - (k + 1) + 1 = z - (k + 1)
    BY <2>4, <2>5, <2>7 DEF EndsLine
  <2> QED
    BY <2>8, <2>9, <2>10, <2>11
<1> QED
  BY <1>3, <1>4

Of(path) == {n \in DOMAIN seen : seen[n].path = path}
Once == \A i, j \in DOMAIN seen : seen[i].path = seen[j].path => i = j
FontsOf == IF Of(CfgName) = {} THEN {<<Fallback>>} ELSE UNION {FontsMeant(archive[n].text) : n \in Of(CfgName)}
Nodes(path) == {n \in Of(path) : archive[n].text # <<>>}

LEMMA OneAndOne ==
  ASSUME NEW a, NEW b
  PROVE  <<a>> \o <<b>> = <<a, b>>
<1>1. PICK S : S = {a, b}
  OBVIOUS
<1>2. PICK s, u, w : s = <<a>> /\ u = <<b>> /\ w = <<a, b>>
  OBVIOUS
<1>3. s \in Seq(S) /\ Len(s) = 1 /\ s[1] = a
  BY <1>1, <1>2
<1>4. u \in Seq(S) /\ Len(u) = 1 /\ u[1] = b
  BY <1>1, <1>2
<1>5. w \in Seq(S) /\ Len(w) = 2 /\ w[1] = a /\ w[2] = b
  BY <1>1, <1>2
<1>6. PICK v : v = s \o u
  OBVIOUS
<1>7. /\ s \o u \in Seq(S) /\ Len(s \o u) = Len(s) + Len(u)
      /\ \A i \in 1 .. Len(s) + Len(u) :
           (s \o u)[i] = IF i <= Len(s) THEN s[i] ELSE u[i - Len(s)]
  BY <1>3, <1>4, ConcatProperties
<1>8. v \in Seq(S) /\ Len(v) = 2 /\ v[1] = a /\ v[2] = b
  BY <1>3, <1>4, <1>6, <1>7
<1>9. v = w
  BY <1>5, <1>8, SeqEqual
<1> QED
  BY <1>2, <1>6, <1>9

LEMMA FontIsLoaded == BootInv => FontIsTheFile
<1> SUFFICES ASSUME BootInv, stage = "shell", module = "archive", Once, NEW name \in FontsOf
             PROVE  font = IF Nodes(<<"fonts/">> \o name) = {} THEN 0
                           ELSE seen[CHOOSE n \in Nodes(<<"fonts/">> \o name) : TRUE].data
  BY DEF FontIsTheFile, Once, FontsOf, Of, Nodes
<1>1. ArchiveInv /\ Entries(archive)
  BY DEF BootInv
<1>2. PICK t : FirstTrailer(t) /\ CfgRead(t)
  BY <1>1 DEF ArchiveInv
<1>3. SeenBefore(t) /\ FontRead(t)
  <2>1. PICK s : FirstTrailer(s) /\ SeenBefore(s)
    BY <1>1 DEF ArchiveInv
  <2>2. PICK r : FirstTrailer(r) /\ FontRead(r)
    BY <1>1 DEF ArchiveInv
  <2>3. s = t /\ r = t
    BY <1>1, <1>2, <2>1, <2>2, FirstTrailerIsOne
  <2> QED
    BY <2>1, <2>2, <2>3
<1>4. DOMAIN seen = 1 .. t - 1 /\ \A n \in 1 .. t - 1 : seen[n] = Given(n)
  BY <1>3 DEF SeenBefore
<1>5. \A n \in 1 .. t - 1 : seen[n].path = Cut(PathOf(n)) /\ seen[n].data = Given(n).data
  BY <1>4 DEF Given
<1>6. ASSUME NEW path, Len(path) < PathRoom, NEW n
      PROVE  n \in Of(path) <=> n \in 1 .. t - 1 /\ PathOf(n) = path
  <2>1. ASSUME n \in 1 .. t - 1 PROVE Cut(PathOf(n)) = path <=> PathOf(n) = path
    <3>1. n \in 1 .. Len(archive)
      <4>1. Len(archive) \in Nat /\ t \in 1 .. Len(archive)
        BY <1>1, <1>2, EntriesAre DEF FirstTrailer
      <4> QED
        BY <2>1, <4>1
    <3>2. archive[n].name \in Seq(STRING)
      BY <1>1, <3>1, EntriesAre
    <3>3. Normalised(archive[n].name) \in Seq(STRING)
      BY <3>2, NormalisedIs
    <3> QED
      BY <1>6, <3>3, CutShort DEF PathOf
  <2> QED
    BY <1>4, <1>5, <2>1 DEF Of
<1>7. \A path, c : Len(path) < PathRoom /\ FirstAt(path, c, t) => Of(path) = {c}
  <2>1. ASSUME NEW path, NEW c, Len(path) < PathRoom, FirstAt(path, c, t) PROVE Of(path) = {c}
    <3>1. c \in Of(path)
      BY <1>6, <2>1 DEF FirstAt
    <3>2. ASSUME NEW n \in Of(path) PROVE n = c
      <4>1. n \in DOMAIN seen /\ c \in DOMAIN seen /\ seen[n].path = seen[c].path
        BY <3>1 DEF Of
      <4> QED
        BY <4>1 DEF Once
    <3> QED
      BY <3>1, <3>2
  <2> QED
    BY <2>1
<1>8. \A path : Len(path) < PathRoom /\ NotBefore(path, t) => Of(path) = {}
  BY <1>6 DEF NotBefore
<1>9. wanted = <<"fonts/">> \o name /\ Len(wanted) < PathRoom
  <2> DEFINE Short == Len(name) <= NameRoom /\ \E S : name \in Seq(S)
  <2>1. ASSUME NEW c, FirstAt(CfgName, c, t), wanted = <<"fonts/">> \o FontNamed(archive[c])
        PROVE  wanted = <<"fonts/">> \o name /\ Short
    <3>1. Of(CfgName) = {c} /\ c \in 1 .. t - 1
      BY <1>7, <2>1, RoomAssumption DEF FirstAt
    <3>2. name \in FontsMeant(archive[c].text)
      BY <3>1 DEF FontsOf
    <3>3. archive[c].text \in Seq(STRING)
      <4>1. Len(archive) \in Nat /\ t \in 1 .. Len(archive)
        BY <1>1, <1>2, EntriesAre DEF FirstTrailer
      <4>2. c \in 1 .. Len(archive)
        BY <3>1, <4>1
      <4> QED
        BY <1>1, <4>2, EntriesAre
    <3>4. FontNamed(archive[c]) = name /\ Short
      BY <3>2, <3>3, MeantIsNamed
    <3> QED
      BY <2>1, <3>4
  <2>2. ASSUME NotBefore(CfgName, t), wanted = <<"fonts/", Fallback>>
        PROVE  wanted = <<"fonts/">> \o name /\ Short
    <3>1. name = <<Fallback>>
      BY <1>8, <2>2, RoomAssumption DEF FontsOf
    <3>2. <<"fonts/">> \o <<Fallback>> = <<"fonts/", Fallback>>
      BY OneAndOne
    <3>3. Len(<<Fallback>>) = 1 /\ 1 <= NameRoom /\ <<Fallback>> \in Seq({Fallback})
      BY RoomAssumption
    <3> QED
      BY <2>2, <3>1, <3>2, <3>3
  <2>3. wanted = <<"fonts/">> \o name /\ Short
    BY <1>2, <2>1, <2>2 DEF CfgRead
  <2>4. PICK S : name \in Seq(S)
    BY <2>3
  <2>5. Len(<<"fonts/">> \o name) = 1 + Len(name) /\ Len(name) \in Nat
    <3>1. PICK T : T = S \cup {"fonts/"}
      OBVIOUS
    <3>2. <<"fonts/">> \in Seq(T) /\ Len(<<"fonts/">>) = 1
      BY <3>1
    <3>3. name \in Seq(T) /\ Len(name) \in Nat
      BY <2>4, <3>1, SeqMonotonic, LenProperties
    <3>4. Len(<<"fonts/">> \o name) = Len(<<"fonts/">>) + Len(name)
      BY <3>2, <3>3, ConcatProperties
    <3> QED
      BY <3>2, <3>3, <3>4
  <2> QED
    BY <2>3, <2>5, RoomAssumption
<1>10. PICK path : path = wanted /\ path = <<"fonts/">> \o name /\ Len(path) < PathRoom
  BY <1>9
<1>11. ASSUME NEW c, FirstAt(path, c, t), font = IF archive[c].text = <<>> THEN 0 ELSE Given(c).data
       PROVE  font = IF Nodes(path) = {} THEN 0 ELSE seen[CHOOSE n \in Nodes(path) : TRUE].data
  <2>1. Of(path) = {c} /\ c \in 1 .. t - 1
    BY <1>7, <1>10, <1>11 DEF FirstAt
  <2>2. CASE archive[c].text = <<>>
    <3>1. Nodes(path) = {}
      BY <2>1, <2>2 DEF Nodes
    <3> QED
      BY <1>11, <2>2, <3>1
  <2>3. CASE archive[c].text # <<>>
    <3>1. Nodes(path) = {c}
      BY <2>1, <2>3 DEF Nodes
    <3>2. (CHOOSE n \in Nodes(path) : TRUE) = c
      BY <3>1
    <3> QED
      BY <1>5, <1>11, <2>1, <2>3, <3>1, <3>2
  <2> QED
    BY <2>2, <2>3
<1>12. ASSUME NotBefore(path, t), font = 0
       PROVE  font = IF Nodes(path) = {} THEN 0 ELSE seen[CHOOSE n \in Nodes(path) : TRUE].data
  <2>1. Nodes(path) = {}
    BY <1>8, <1>10, <1>12 DEF Nodes
  <2> QED
    BY <1>12, <2>1
<1>13. font = IF Nodes(path) = {} THEN 0 ELSE seen[CHOOSE n \in Nodes(path) : TRUE].data
  BY <1>3, <1>10, <1>11, <1>12 DEF FontRead
<1> QED
  BY <1>10, <1>13

-----------------------------------------------------------------------------
(* fb_init and detect_initramfs stand on tags only, and find the first     *)
(* framebuffer and the last module, for every list of tags that ends, with *)
(* tags of every size.                                                     *)
THEOREM TagsAreFound == BootSpec => []FindsTheTags
<1>1. BootInv => FindsTheTags
  BY TagsFound
<1> QED
  BY <1>1, BootStaysSound, PTL

(* cpio_extract_all hands over each entry before the trailer, in order,    *)
(* with the address of its data and with its name, cut to what the path    *)
(* buffer holds, whatever the lengths of names and texts.                  *)
THEOREM ArchiveIsExtracted == BootSpec => []ExtractsTheArchive
<1>1. BootInv => ExtractsTheArchive
  BY ArchiveIsWalked
<1> QED
  BY <1>1, BootStaysSound, PTL

(* load_dynamic_font loads what font.cfg names or the fallback, from where *)
(* the file system has it, in whatever order the archive has the two, as   *)
(* long as the name fits font_name.                                        *)
THEOREM FontIsFound == BootSpec => []FontIsTheFile
<1>1. BootInv => FontIsTheFile
  BY FontIsLoaded
<1> QED
  BY <1>1, BootStaysSound, PTL
=============================================================================
