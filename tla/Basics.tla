------------------------------- MODULE Basics -------------------------------
(***************************************************************************)
(* What the proofs need of numbers and sequences: induction, remainders,   *)
(* folds, and what is put behind or taken from the end of a sequence.      *)
(* Remainders are for rings whose size is a constant and not a number:     *)
(* counters that never wrap stand beside the driver's indices in those     *)
(* proofs, and an index is the remainder of its counter.  A fold is seen as*)
(* the run of the values it goes through, with its operator as a function. *)
(***************************************************************************)
EXTENDS Integers, Sequences, SequencesExt, FiniteSetsExt,
        WellFoundedInduction, SequenceTheorems, TLAPS

(* Induction, in the form of a least counterexample.                       *)
LEMMA LeastExists ==
  ASSUME NEW S, S \subseteq Nat, S # {}
  PROVE  \E x \in S : \A y \in S : x <= y
<1> DEFINE R == OpToRel(<, Nat)
<1>1. IsWellFoundedOn(R, Nat)
  BY NatLessThanWellFounded
<1>2. \A x, y \in Nat : x < y => <<x, y>> \in R
  BY DEF OpToRel
<1> HIDE DEF R
<1>3. PICK x \in S : \A y \in S : ~(<<y, x>> \in R)
  BY <1>1, WFMin
<1>4. ASSUME NEW y \in S PROVE x <= y
  <2>1. x \in Nat /\ y \in Nat
    OBVIOUS
  <2>2. ~(y < x)
    BY <1>2, <1>3, <2>1
  <2> QED
    BY <2>1, <2>2
<1> QED
  BY <1>4

(* Induction: what holds of 0, and of each number of which it holds of the *)
(* one before, holds up to n.                                              *)
LEMMA StepByStep ==
  ASSUME NEW n \in Nat, NEW G, 0 \in G, \A k \in 1 .. n : k - 1 \in G => k \in G
  PROVE  \A k \in 0 .. n : k \in G
<1> DEFINE Bad == {k \in 0 .. n : k \notin G}
<1>1. SUFFICES ASSUME Bad # {} PROVE FALSE
  OBVIOUS
<1>2. PICK k \in Bad : \A i \in Bad : k <= i
  <2>1. Bad \subseteq Nat
    OBVIOUS
  <2> QED
    BY <1>1, <2>1, LeastExists
<1>3. k \in 1 .. n /\ k - 1 \in 0 .. n
  BY <1>2
<1>4. k - 1 \in G
  BY <1>2, <1>3
<1> QED
  BY <1>2, <1>3, <1>4

-----------------------------------------------------------------------------
(* Remainders.                                                             *)
LEMMA Division ==
  ASSUME NEW n \in Nat \ {0}, NEW a \in Nat
  PROVE  \E q \in Nat, r \in 0 .. n - 1 : a = n * q + r /\ a % n = r
<1>1. a \div n \in Nat /\ a % n \in 0 .. n - 1 /\ a = n * (a \div n) + (a % n)
  OBVIOUS
<1> QED
  BY <1>1

LEMMA Remainder ==
  ASSUME NEW n \in Nat \ {0}, NEW q \in Int, NEW r \in 0 .. n - 1
  PROVE  (n * q + r) % n = r
OBVIOUS

LEMMA RemainderType ==
  ASSUME NEW n \in Nat \ {0}, NEW a \in Int
  PROVE  a % n \in 0 .. n - 1
OBVIOUS

(* The next index is the index of the next count.                          *)
LEMMA NextRemainder ==
  ASSUME NEW n \in Nat \ {0}, NEW a \in Nat
  PROVE  ((a % n) + 1) % n = (a + 1) % n
<1>1. PICK q \in Nat, r \in 0 .. n - 1 : a = n * q + r /\ a % n = r
  BY Division
<1>2. CASE r = n - 1
  <2>1. a + 1 = n * (q + 1) + 0
    BY <1>1, <1>2
  <2>2. (a + 1) % n = 0
    <3>1. (n * (q + 1) + 0) % n = 0
      BY Remainder
    <3> QED
      BY <2>1, <3>1
  <2> QED
    BY <1>1, <1>2, <2>2
<1>3. CASE r < n - 1
  <2>1. a + 1 = n * q + (r + 1) /\ r + 1 \in 0 .. n - 1
    BY <1>1, <1>3
  <2>2. (a + 1) % n = r + 1
    <3>1. PICK s \in 0 .. n - 1 : s = r + 1
      BY <2>1
    <3>2. (n * q + s) % n = s
      BY Remainder
    <3> QED
      BY <2>1, <3>1, <3>2
  <2>3. (r + 1) % n = r + 1
    BY <2>1
  <2> QED
    BY <1>1, <2>2, <2>3
<1> QED
  BY <1>1, <1>2, <1>3

LEMMA LaterRemainder ==
  ASSUME NEW n \in Nat \ {0}, NEW a \in Nat, NEW j \in Nat
  PROVE  ((a % n) + j) % n = (a + j) % n
<1>1. PICK q \in Nat, r \in 0 .. n - 1 : a = n * q + r /\ a % n = r
  BY Division
<1>2. PICK b \in Nat : b = r + j
  OBVIOUS
<1>3. PICK p \in Nat, s \in 0 .. n - 1 : b = n * p + s /\ b % n = s
  BY Division
<1>4. a + j = n * (q + p) + s
  BY <1>1, <1>2, <1>3
<1>5. PICK o \in Nat : o = q + p
  OBVIOUS
<1>6. (n * o + s) % n = s
  BY Remainder
<1> QED
  BY <1>1, <1>2, <1>3, <1>4, <1>5, <1>6

(* Two counts with one index are a whole round apart.                      *)
LEMMA RoundApart ==
  ASSUME NEW n \in Nat \ {0}, NEW a \in Nat, NEW b \in Nat, a < b, a % n = b % n
  PROVE  a + n <= b
<1>1. PICK q \in Nat, r \in 0 .. n - 1 : a = n * q + r /\ a % n = r
  BY Division
<1>2. PICK p \in Nat, s \in 0 .. n - 1 : b = n * p + s /\ b % n = s
  BY Division
<1>3. n * q < n * p
  BY <1>1, <1>2
<1>4. q < p
  BY <1>3
<1>5. n * p >= n * q + n
  BY <1>4
<1> QED
  BY <1>1, <1>2, <1>5

LEMMA RoundLater ==
  ASSUME NEW n \in Nat \ {0}, NEW a \in Nat
  PROVE  (a + n) % n = a % n
<1>1. PICK q \in Nat, r \in 0 .. n - 1 : a = n * q + r /\ a % n = r
  BY Division
<1>2. a + n = n * (q + 1) + r
  BY <1>1
<1> QED
  BY <1>1, <1>2, Remainder

(* The last count below b that has the index of a.                         *)
LEMMA LatestRound ==
  ASSUME NEW n \in Nat \ {0}, NEW a \in Nat, NEW b \in Nat, a < b
  PROVE  \E k \in Nat : a <= k /\ k < b /\ b <= k + n /\ k % n = a % n
<1>1. PICK q \in Nat, r \in 0 .. n - 1 : a = n * q + r /\ a % n = r
  BY Division
<1>2. PICK p \in Nat, s \in 0 .. n - 1 : b = n * p + s /\ b % n = s
  BY Division
<1>3. CASE r < s
  <2>1. q <= p
    <3>1. SUFFICES ASSUME p < q PROVE FALSE
      OBVIOUS
    <3>2. n * q >= n * p + n
      BY <3>1
    <3> QED
      BY <1>1, <1>2, <3>2
  <2>2. n * q <= n * p
    BY <2>1
  <2>3. n * p + r \in Nat /\ (n * p + r) % n = r
    BY Remainder
  <2>4. a <= n * p + r /\ n * p + r < b /\ b <= (n * p + r) + n
    BY <1>1, <1>2, <1>3, <2>2
  <2> QED
    BY <1>1, <2>3, <2>4
<1>4. CASE r >= s
  <2>1. q < p
    <3>1. SUFFICES ASSUME p <= q PROVE FALSE
      OBVIOUS
    <3>2. n * p <= n * q
      BY <3>1
    <3> QED
      BY <1>1, <1>2, <1>4, <3>2
  <2>2. PICK o \in Nat : p = o + 1
    BY <2>1
  <2>3. n * p = n * o + n
    BY <2>2
  <2>4. n * q <= n * o
    BY <2>1, <2>2
  <2>5. n * o + r \in Nat /\ (n * o + r) % n = r
    BY Remainder
  <2>6. a <= n * o + r /\ n * o + r < b /\ b <= (n * o + r) + n
    BY <1>1, <1>2, <1>4, <2>3, <2>4
  <2> QED
    BY <1>1, <2>5, <2>6
<1> QED
  BY <1>3, <1>4

(* An index that wraps later than the ring leads to the same slot.         *)
LEMMA RemainderOfRemainder ==
  ASSUME NEW m \in Nat \ {0}, NEW n \in Nat \ {0}, n % m = 0, NEW a \in Nat
  PROVE  (a % n) % m = a % m
<1>1. PICK p \in Nat : n = m * p
  <2>1. PICK p \in Nat, r \in 0 .. m - 1 : n = m * p + r /\ n % m = r
    BY Division
  <2>2. n = m * p
    BY <2>1
  <2> QED
    BY <2>2
<1>2. PICK q \in Nat, r \in 0 .. n - 1 : a = n * q + r /\ a % n = r
  BY Division
<1>3. PICK o \in Nat, s \in 0 .. m - 1 : r = m * o + s /\ r % m = s
  BY Division
<1>4. a = (m * p) * q + (m * o + s)
  BY <1>1, <1>2, <1>3
<1>5. a = m * (p * q + o) + s
  BY <1>4
<1>6. PICK u \in Nat : u = p * q + o
  OBVIOUS
<1>7. (m * u + s) % m = s
  BY Remainder
<1> QED
  BY <1>2, <1>3, <1>5, <1>6, <1>7

(* The distance of two counts less than a round apart, from their indices. *)
LEMMA DistanceOfRemainders ==
  ASSUME NEW n \in Nat \ {0}, NEW a \in Nat, NEW b \in Nat, a <= b, b < a + n
  PROVE  ((b % n) - (a % n)) % n = b - a
<1>1. PICK p \in Nat, r \in 0 .. n - 1 : a = n * p + r /\ a % n = r
  BY Division
<1>2. PICK q \in Nat, s \in 0 .. n - 1 : b = n * q + s /\ b % n = s
  BY Division
<1>3. PICK d \in 0 .. n - 1 : d = b - a
  OBVIOUS
<1>4. PICK k \in Int : k = p - q
  OBVIOUS
<1>5. s - r = n * k + d
  BY <1>1, <1>2, <1>3, <1>4
<1>6. (n * k + d) % n = d
  BY Remainder
<1> QED
  BY <1>1, <1>2, <1>3, <1>5, <1>6

-----------------------------------------------------------------------------
LEMMA LeastIs ==
  ASSUME NEW S, S \subseteq Nat, S # {}
  PROVE  Min(S) \in S /\ \A x \in S : Min(S) <= x
<1>1. PICK m \in S : \A x \in S : m <= x
  BY LeastExists
<1> QED
  BY <1>1 DEF Min

LEMMA SmallerIs ==
  ASSUME NEW a \in Nat, NEW b \in Nat
  PROVE  Min({a, b}) = IF a < b THEN a ELSE b
<1>1. PICK m : m = IF a < b THEN a ELSE b
  OBVIOUS
<1>2. m \in {a, b} /\ \A y \in {a, b} : m <= y
  BY <1>1
<1>3. \A x \in {a, b} : (\A y \in {a, b} : x <= y) => x = m
  BY <1>2
<1>4. Min({a, b}) = m
  BY <1>2, <1>3 DEF Min
<1> QED
  BY <1>1, <1>4

LEMMA LargestIs ==
  ASSUME NEW s, s \subseteq Int, NEW m \in s, \A x \in s : x <= m
  PROVE  Max(s) = m
<1>1. \A y \in s : (\A x \in s : y >= x) => y = m
  OBVIOUS
<1> QED
  BY <1>1 DEF Max

LEMMA LargestExists ==
  ASSUME NEW n \in Nat, NEW s \in SUBSET (1 .. n), s # {}
  PROVE  Max(s) \in s /\ \A x \in s : x <= Max(s)
<1> DEFINE D == {n - x : x \in s}
<1>1. PICK d \in D : \A e \in D : d <= e
  <2>1. \A x \in s : n - x \in Nat
    OBVIOUS
  <2>2. D \subseteq Nat /\ D # {}
    BY <2>1
  <2> QED
    BY <2>2, LeastExists
<1>2. PICK m \in s : d = n - m
  OBVIOUS
<1>3. ASSUME NEW x \in s PROVE x <= m
  <2>1. n - m <= n - x
    BY <1>1, <1>2
  <2> QED
    BY <2>1
<1> HIDE DEF D
<1>4. Max(s) = m
  <2>1. s \subseteq Int
    OBVIOUS
  <2> QED
    BY <1>3, <2>1, LargestIs
<1> QED
  BY <1>3, <1>4

(* A fold of the first n values goes on from the fold of the values before *)
(* each: what FoldLeft stands for, with the operator as a function F.      *)
IsFold(f, n, base, F, X) ==
  /\ f \in [SUBSET (1 .. n) -> X]
  /\ f[{}] = base
  /\ \A s \in SUBSET (1 .. n) : s # {} => f[s] = F[<<f[s \ {Max(s)}], Max(s)>>]

LEMMA FoldExists ==
  ASSUME NEW n \in Nat, NEW X, NEW base \in X, NEW F \in [X \X (1 .. n) -> X]
  PROVE  \E f : IsFold(f, n, base, F, X)
<1> DEFINE Bad == {k \in 0 .. n : ~ \E f : IsFold(f, k, base, F, X)}
<1>1. CASE Bad = {}
  BY <1>1
<1>2. CASE Bad # {}
  <2>1. PICK k \in Bad : \A i \in Bad : k <= i
    <3>1. Bad \subseteq Nat
      OBVIOUS
    <3> QED
      BY <1>2, <3>1, LeastExists
  <2>2. k # 0
    <3>1. CASE k = 0
      <4> DEFINE f == [s \in SUBSET (1 .. 0) |-> base]
      <4>1. SUBSET (1 .. 0) = {{}}
        OBVIOUS
      <4>2. IsFold(f, 0, base, F, X)
        BY <4>1 DEF IsFold
      <4> QED
        BY <3>1, <4>2
    <3> QED
      BY <3>1
  <2>3. k - 1 \in 0 .. n /\ k - 1 \notin Bad
    BY <2>1, <2>2
  <2>4. PICK f : IsFold(f, k - 1, base, F, X)
    BY <2>3
  <2> DEFINE g == [s \in SUBSET (1 .. k) |-> IF k \in s THEN F[<<f[s \ {k}], k>>] ELSE f[s]]
  <2>5. \A s \in SUBSET (1 .. k) : s \ {k} \in SUBSET (1 .. k - 1) /\ (k \notin s => s \in SUBSET (1 .. k - 1))
    <3>1. \A x \in 1 .. k : x # k => x \in 1 .. k - 1
      BY <2>3
    <3> QED
      BY <3>1
  <2>6. g \in [SUBSET (1 .. k) -> X]
    <3>1. ASSUME NEW s \in SUBSET (1 .. k) PROVE g[s] \in X
      <4>1. f[s \ {k}] \in X /\ (k \notin s => f[s] \in X)
        BY <2>4, <2>5 DEF IsFold
      <4>2. k \in 1 .. n
        BY <2>2
      <4>3. F[<<f[s \ {k}], k>>] \in X
        BY <4>1, <4>2
      <4> QED
        BY <4>1, <4>3
    <3> QED
      BY <3>1
  <2>7. g[{}] = base
    BY <2>4 DEF IsFold
  <2>8. ASSUME NEW s \in SUBSET (1 .. k), s # {}
        PROVE  g[s] = F[<<g[s \ {Max(s)}], Max(s)>>]
    <3>1. CASE k \in s
      <4>1. Max(s) = k
        <5>1. s \subseteq Int /\ \A x \in s : x <= k
          BY <2>3
        <5> HIDE DEF Bad
        <5> QED
          BY <3>1, <5>1, LargestIs
      <4>2. g[s \ {k}] = f[s \ {k}]
        OBVIOUS
      <4> QED
        BY <3>1, <4>1, <4>2
    <3>2. CASE k \notin s
      <4>1. s \in SUBSET (1 .. k - 1)
        BY <2>5, <3>2
      <4>2. f[s] = F[<<f[s \ {Max(s)}], Max(s)>>]
        BY <2>4, <2>8, <4>1 DEF IsFold
      <4>3. g[s] = f[s] /\ g[s \ {Max(s)}] = f[s \ {Max(s)}]
        BY <3>2
      <4> QED
        BY <4>2, <4>3
    <3> QED
      BY <3>1, <3>2
  <2> HIDE DEF g
  <2>9. IsFold(g, k, base, F, X)
    BY <2>6, <2>7, <2>8 DEF IsFold
  <2> QED
    BY <2>1, <2>9
<1> QED
  BY <1>1, <1>2

(* Its last steps: the fold of the first k values is a step from that of   *)
(* the first k - 1.                                                        *)
LEMMA Segment ==
  ASSUME NEW n \in Nat, NEW k \in 1 .. n
  PROVE  /\ 1 .. k \in SUBSET (1 .. n) /\ 1 .. k # {}
         /\ Max(1 .. k) = k /\ (1 .. k) \ {k} = 1 .. (k - 1)
<1>1. k \in 1 .. k /\ \A x \in 1 .. k : x <= k
  OBVIOUS
<1>2. 1 .. k \subseteq Int
  OBVIOUS
<1>3. Max(1 .. k) = k
  BY <1>1, <1>2, LargestIs
<1>4. (1 .. k) \ {k} = 1 .. (k - 1)
  OBVIOUS
<1>5. 1 .. k \in SUBSET (1 .. n)
  OBVIOUS
<1> QED
  BY <1>1, <1>3, <1>4, <1>5

(* The values that such a fold h goes through, one after the other.        *)
IsRun(P, n, base, end, F, X) ==
  /\ P \in [0 .. n -> X]
  /\ P[0] = base /\ P[n] = end
  /\ \A k \in 1 .. n : P[k] = F[<<P[k - 1], k>>]

GoesOn(h, n, base, F, X) ==
  /\ h[{}] = base
  /\ \A s \in SUBSET (1 .. n) :
       s # {} /\ h[s \ {Max(s)}] \in X => h[s] = F[<<h[s \ {Max(s)}], Max(s)>>]

LEMMA FoldRuns ==
  ASSUME NEW n \in Nat, NEW X, NEW base \in X, NEW F \in [X \X (1 .. n) -> X],
         NEW h, GoesOn(h, n, base, F, X), NEW end, end = h[1 .. n]
  PROVE  \E P : IsRun(P, n, base, end, F, X)
<1>1. PICK P : P = [k \in 0 .. n |-> h[1 .. k]]
  OBVIOUS
<1>2. P[0] = base
  <2>1. 1 .. 0 = {}
    OBVIOUS
  <2> QED
    BY <1>1, <2>1 DEF GoesOn
<1>3. ASSUME NEW k \in 1 .. n, P[k - 1] \in X PROVE P[k] = F[<<P[k - 1], k>>] /\ P[k] \in X
  <2>1. k \in 0 .. n /\ k - 1 \in 0 .. n
    OBVIOUS
  <2>2. P[k] = h[1 .. k] /\ P[k - 1] = h[1 .. (k - 1)]
    BY <1>1, <2>1
  <2>3. /\ 1 .. k \in SUBSET (1 .. n) /\ 1 .. k # {}
        /\ Max(1 .. k) = k /\ (1 .. k) \ {k} = 1 .. (k - 1)
    BY Segment
  <2>4. h[1 .. k] = F[<<h[1 .. (k - 1)], k>>]
    BY <1>3, <2>2, <2>3 DEF GoesOn
  <2> QED
    BY <1>3, <2>2, <2>4
<1> DEFINE G == {k \in 0 .. n : P[k] \in X}
<1> HIDE DEF G
<1>4. 0 \in G
  BY <1>2 DEF G
<1>5. ASSUME NEW k \in 1 .. n, k - 1 \in G PROVE k \in G
  <2>1. k \in 0 .. n /\ P[k - 1] \in X
    BY <1>5 DEF G
  <2>2. P[k] \in X
    BY <1>3, <2>1
  <2> QED
    BY <2>1, <2>2 DEF G
<1>6. \A k \in 0 .. n : k \in G
  BY <1>4, <1>5, StepByStep
<1>7. P \in [0 .. n -> X]
  BY <1>1, <1>6 DEF G
<1>8. \A k \in 1 .. n : P[k] = F[<<P[k - 1], k>>]
  <2>1. \A k \in 1 .. n : k - 1 \in 0 .. n
    OBVIOUS
  <2> QED
    BY <1>3, <1>6, <2>1 DEF G
<1>9. P[n] = end
  <2>1. n \in 0 .. n
    OBVIOUS
  <2> QED
    BY <1>1, <2>1
<1> QED
  BY <1>2, <1>7, <1>8, <1>9 DEF IsRun

-----------------------------------------------------------------------------
(* The ends of sequences.                                                  *)
LEMMA PrefixGrows ==
  ASSUME NEW S, NEW w \in Seq(S), NEW k \in 1 .. Len(w)
  PROVE  /\ SubSeq(w, 1, k - 1) \in Seq(S) /\ Len(SubSeq(w, 1, k - 1)) = k - 1
         /\ SubSeq(w, 1, k) \in Seq(S) /\ Len(SubSeq(w, 1, k)) = k
         /\ Append(SubSeq(w, 1, k - 1), w[k]) = SubSeq(w, 1, k)
         /\ Front(SubSeq(w, 1, k)) = SubSeq(w, 1, k - 1)
<1>1. Len(w) \in Nat /\ \A i \in 1 .. Len(w) : w[i] \in S
  BY LenProperties, ElementOfSeq
<1>2. PICK a, b : a = SubSeq(w, 1, k - 1) /\ b = SubSeq(w, 1, k)
  OBVIOUS
<1>3. a \in Seq(S) /\ Len(a) = k - 1 /\ \A i \in 1 .. k - 1 : a[i] = w[i]
  <2>1. PICK j \in Nat : j = k - 1
    BY <1>1
  <2>2. \A i \in 1 .. j : w[i] \in S
    BY <1>1, <2>1
  <2>3. /\ SubSeq(w, 1, j) \in Seq(S)
        /\ Len(SubSeq(w, 1, j)) = IF 1 <= j THEN j - 1 + 1 ELSE 0
        /\ \A i \in 1 .. j - 1 + 1 : SubSeq(w, 1, j)[i] = w[1 + i - 1]
    BY <2>2, SubSeqProperties
  <2>4. j - 1 + 1 = j /\ (IF 1 <= j THEN j - 1 + 1 ELSE 0) = j /\ \A i \in 1 .. j : 1 + i - 1 = i
    OBVIOUS
  <2> QED
    BY <1>2, <2>1, <2>3, <2>4
<1>4. b \in Seq(S) /\ Len(b) = k /\ \A i \in 1 .. k : b[i] = w[i]
  <2>1. \A i \in 1 .. k : w[i] \in S
    BY <1>1
  <2>2. /\ SubSeq(w, 1, k) \in Seq(S)
        /\ Len(SubSeq(w, 1, k)) = IF 1 <= k THEN k - 1 + 1 ELSE 0
        /\ \A i \in 1 .. k - 1 + 1 : SubSeq(w, 1, k)[i] = w[1 + i - 1]
    BY <2>1, SubSeqProperties
  <2>3. k - 1 + 1 = k /\ 1 <= k /\ \A i \in 1 .. k : 1 + i - 1 = i
    OBVIOUS
  <2> QED
    BY <1>2, <2>2, <2>3
<1>5. Append(a, w[k]) = b
  <2>1. w[k] \in S
    BY <1>1
  <2>2. Append(a, w[k]) \in Seq(S) /\ Len(Append(a, w[k])) = k
    BY <1>3, <2>1
  <2>3. \A i \in 1 .. k : Append(a, w[k])[i] = b[i]
    BY <1>3, <1>4
  <2> QED
    BY <1>4, <2>2, <2>3, SeqEqual
<1>6. Front(b) = a
  <2>1. \A i \in 1 .. k - 1 : b[i] \in S
    BY <1>1, <1>4
  <2>2. PICK j \in Nat : j = k - 1
    BY <1>1
  <2>3. /\ SubSeq(b, 1, j) \in Seq(S)
        /\ Len(SubSeq(b, 1, j)) = IF 1 <= j THEN j - 1 + 1 ELSE 0
        /\ \A i \in 1 .. j - 1 + 1 : SubSeq(b, 1, j)[i] = b[1 + i - 1]
    BY <2>1, <2>2, SubSeqProperties
  <2>4. j - 1 + 1 = j /\ (IF 1 <= j THEN j - 1 + 1 ELSE 0) = j /\ \A i \in 1 .. j : 1 + i - 1 = i
    OBVIOUS
  <2>5. Len(SubSeq(b, 1, j)) = Len(a) /\ \A i \in 1 .. j : SubSeq(b, 1, j)[i] = a[i]
    BY <1>3, <1>4, <2>2, <2>3, <2>4
  <2>6. SubSeq(b, 1, j) = a
    BY <1>3, <2>2, <2>3, <2>5, SeqEqual
  <2> QED
    BY <1>4, <2>2, <2>6 DEF Front
<1> QED
  BY <1>2, <1>3, <1>4, <1>5, <1>6

(* What stands before the other in a concatenation.                        *)
LEMMA Beginning ==
  ASSUME NEW S, NEW s \in Seq(S), NEW u \in Seq(S)
  PROVE  SubSeq(s \o u, 1, Len(s)) = s
<1>1. PICK w : w = s \o u
  OBVIOUS
<1>2. /\ w \in Seq(S) /\ Len(w) = Len(s) + Len(u) /\ Len(s) \in Nat /\ Len(u) \in Nat
      /\ \A i \in 1 .. Len(s) : w[i] = s[i]
  BY <1>1, ConcatProperties, LenProperties
<1>3. CASE Len(s) = 0
  <2>1. SubSeq(w, 1, 0) = << >>
    BY SubSeqEmpty
  <2>2. s = << >>
    BY <1>3, EmptySeq
  <2> QED
    BY <1>1, <1>3, <2>1, <2>2
<1>4. CASE Len(s) # 0
  <2>1. \A i \in 1 .. Len(s) : w[i] \in S
    BY <1>2, ElementOfSeq
  <2>2. /\ SubSeq(w, 1, Len(s)) \in Seq(S)
        /\ Len(SubSeq(w, 1, Len(s))) = IF 1 <= Len(s) THEN Len(s) - 1 + 1 ELSE 0
        /\ \A i \in 1 .. Len(s) - 1 + 1 : SubSeq(w, 1, Len(s))[i] = w[1 + i - 1]
    BY <1>2, <2>1, SubSeqProperties
  <2>3. Len(s) - 1 + 1 = Len(s) /\ 1 <= Len(s) /\ \A i \in 1 .. Len(s) : 1 + i - 1 = i
    BY <1>2, <1>4
  <2>4. Len(SubSeq(w, 1, Len(s))) = Len(s) /\ \A i \in 1 .. Len(s) : SubSeq(w, 1, Len(s))[i] = s[i]
    BY <1>2, <2>2, <2>3
  <2> QED
    BY <1>1, <2>2, <2>4, SeqEqual
<1> QED
  BY <1>3, <1>4

(* Append and \o, which the provers treat better under a name.             *)
Longer(s, e) == Append(s, e)
Glued(s, l) == s \o l

LEMMA AppendBehind ==
  ASSUME NEW S, NEW s \in Seq(S), NEW l \in Seq(S), NEW e \in S
  PROVE  Longer(Glued(s, l), e) = Glued(s, Longer(l, e))
<1>1. PICK a \in Nat, b \in Nat : a = Len(s) /\ b = Len(l)
  BY LenProperties
<1>2. PICK w, m : w = s \o l /\ m = Append(l, e)
  OBVIOUS
<1>3. /\ w \in Seq(S) /\ Len(w) = a + b
      /\ \A i \in 1 .. a + b : w[i] = IF i <= a THEN s[i] ELSE l[i - a]
  BY <1>1, <1>2, ConcatProperties
<1>4. /\ m \in Seq(S) /\ Len(m) = b + 1 /\ m[b + 1] = e /\ \A i \in 1 .. b : m[i] = l[i]
  BY <1>1, <1>2
<1>5. PICK x, y : x = Append(w, e) /\ y = s \o m
  OBVIOUS
<1>6. x \in Seq(S) /\ Len(x) = a + b + 1 /\ x[a + b + 1] = e /\ \A i \in 1 .. a + b : x[i] = w[i]
  BY <1>3, <1>5
<1>7. /\ y \in Seq(S) /\ Len(y) = a + (b + 1)
      /\ \A i \in 1 .. a + (b + 1) : y[i] = IF i <= a THEN s[i] ELSE m[i - a]
  <2>1. m \in Seq(S)
    BY <1>4
  <2>2. /\ s \o m \in Seq(S) /\ Len(s \o m) = Len(s) + Len(m)
        /\ \A i \in 1 .. Len(s) + Len(m) : (s \o m)[i] = IF i <= Len(s) THEN s[i] ELSE m[i - Len(s)]
    BY <2>1, ConcatProperties
  <2>3. Len(s) = a /\ Len(m) = b + 1 /\ y = s \o m
    BY <1>1, <1>4, <1>5
  <2> QED
    BY <2>2, <2>3
<1>8. ASSUME NEW i \in 1 .. a + b + 1 PROVE x[i] = y[i]
  <2>1. i \in 1 .. a + (b + 1)
    OBVIOUS
  <2>2. CASE i = a + b + 1
    <3>1. ~(i <= a) /\ i - a = b + 1
      BY <2>2
    <3> QED
      BY <1>4, <1>6, <1>7, <2>1, <2>2, <3>1
  <2>3. CASE i # a + b + 1
    <3>1. i \in 1 .. a + b
      BY <2>3
    <3>2. CASE i <= a
      BY <1>3, <1>6, <1>7, <2>1, <3>1, <3>2
    <3>3. CASE ~(i <= a)
      <4>1. i - a \in 1 .. b
        BY <3>1, <3>3
      <4>2. x[i] = l[i - a]
        BY <1>3, <1>6, <3>1, <3>3
      <4>3. y[i] = m[i - a]
        BY <1>7, <2>1, <3>3
      <4> QED
        BY <1>4, <4>1, <4>2, <4>3
    <3> QED
      BY <3>2, <3>3
  <2> QED
    BY <2>2, <2>3
<1>9. Len(x) = Len(y)
  BY <1>6, <1>7
<1>10. x = y
  BY <1>6, <1>7, <1>8, <1>9, SeqEqual
<1> QED
  BY <1>2, <1>5, <1>10 DEF Longer, Glued

LEMMA FrontIs ==
  ASSUME NEW S, NEW s \in Seq(S), s # << >>
  PROVE  /\ Front(s) \in Seq(S) /\ Len(Front(s)) = Len(s) - 1
         /\ s[Len(s)] \in S /\ s = Append(Front(s), s[Len(s)])
<1>1. PICK k \in 1 .. Len(s) : k = Len(s)
  BY EmptySeq
<1>2. /\ SubSeq(s, 1, k - 1) \in Seq(S) /\ Len(SubSeq(s, 1, k - 1)) = k - 1
      /\ Append(SubSeq(s, 1, k - 1), s[k]) = SubSeq(s, 1, k)
  BY PrefixGrows
<1>3. SubSeq(s, 1, k) = s /\ Front(s) = SubSeq(s, 1, k - 1)
  BY <1>1, SubSeqFull DEF Front
<1>4. s[k] \in S
  BY ElementOfSeq
<1> QED
  BY <1>1, <1>2, <1>3, <1>4

LEMMA FrontOfAppend ==
  ASSUME NEW S, NEW s \in Seq(S), NEW e \in S
  PROVE  Front(Append(s, e)) = s
<1>1. PICK w : w = Append(s, e)
  OBVIOUS
<1>2. w \in Seq(S) /\ Len(w) = Len(s) + 1 /\ Len(s) \in Nat /\ \A i \in 1 .. Len(s) : w[i] = s[i]
  BY <1>1
<1>3. w # << >>
  BY <1>2, EmptySeq
<1>4. PICK f : f = Front(w) /\ f \in Seq(S) /\ Len(f) = Len(s) /\ w = Append(f, w[Len(w)])
  BY <1>2, <1>3, FrontIs
<1>5. \A i \in 1 .. Len(s) : f[i] = s[i]
  <2>1. \A i \in 1 .. Len(f) : Append(f, w[Len(w)])[i] = f[i]
    BY <1>4
  <2> QED
    BY <1>2, <1>4, <2>1
<1>6. f = s
  BY <1>4, <1>5, SeqEqual
<1> QED
  BY <1>1, <1>4, <1>6

LEMMA FrontBehind ==
  ASSUME NEW S, NEW s \in Seq(S), NEW l \in Seq(S), l # << >>
  PROVE  Front(s \o l) = s \o Front(l) /\ s \o l # << >>
<1>1. PICK f, e : f \in Seq(S) /\ e \in S /\ l = Append(f, e) /\ f = Front(l)
  BY FrontIs
<1>2. s \o f \in Seq(S)
  BY <1>1, ConcatProperties
<1>3. s \o l = Append(s \o f, e)
  <2>1. s \in Seq(S) /\ f \in Seq(S) /\ e \in S
    BY <1>1
  <2>2. Longer(Glued(s, f), e) = Glued(s, Longer(f, e))
    BY <2>1, AppendBehind
  <2> QED
    BY <1>1, <2>2 DEF Longer, Glued
<1>4. Front(s \o l) = s \o f
  <2>1. PICK z \in Seq(S) : z = s \o f
    BY <1>2
  <2>2. Front(Append(z, e)) = z
    BY <1>1, FrontOfAppend
  <2> QED
    BY <1>3, <2>1, <2>2
<1>5. Len(Append(s \o f, e)) # 0
  BY <1>1, <1>2
<1> QED
  BY <1>1, <1>3, <1>4, <1>5, EmptySeq

(* A part of a sequence.                                                   *)
LEMMA PartIs ==
  ASSUME NEW S, NEW s \in Seq(S), NEW a \in 1 .. Len(s) + 1, NEW b \in a - 1 .. Len(s)
  PROVE  /\ SubSeq(s, a, b) \in Seq(S) /\ Len(SubSeq(s, a, b)) = b - a + 1
         /\ \A i \in 1 .. b - a + 1 : SubSeq(s, a, b)[i] = s[a + i - 1]
<1>1. PICK l \in Nat : l = Len(s) /\ \A i \in 1 .. l : s[i] \in S
  BY LenProperties, ElementOfSeq
<1>2. a \in Int /\ b \in Int /\ \A i \in a .. b : s[i] \in S
  BY <1>1
<1>3. /\ SubSeq(s, a, b) \in Seq(S)
      /\ Len(SubSeq(s, a, b)) = IF a <= b THEN b - a + 1 ELSE 0
      /\ \A i \in 1 .. b - a + 1 : SubSeq(s, a, b)[i] = s[a + i - 1]
  BY <1>2, SubSeqProperties
<1>4. (IF a <= b THEN b - a + 1 ELSE 0) = b - a + 1
  BY <1>1
<1> QED
  BY <1>3, <1>4
=============================================================================
