--------------------------- MODULE FsShellProofs ---------------------------
(***************************************************************************)
(* Proofs about FsShell, for every table size, inline size, set of paths   *)
(* and archive.  Each operation of es1.c is shown to keep the properties   *)
(* of the record it is given; a command is a composition of operations, so *)
(* the proof of a step cites one lemma per call.  First the counters and   *)
(* the slots; then what the nodes hold: that a text and its size stay      *)
(* together, that rmdir looks far enough, and that the table with its      *)
(* slots, scans and counters implements the map of FileMap; last the sum of*)
(* the sizes, as a function on the sets of slots.                          *)
(***************************************************************************)
EXTENDS FsShell, Basics, FiniteSetTheorems

(* A non-empty set of slots has a first one.                               *)
LEMMA FirstIsMember ==
  ASSUME NEW S, S \subseteq Slots, S # {}
  PROVE  First(S) \in S
<1>1. S \subseteq Nat
  BY ConstantsAssumption DEF Slots
<1> DEFINE R == OpToRel(<, Nat)
<1>2. IsWellFoundedOn(R, Nat)
  BY NatLessThanWellFounded
<1>3. \A x, y \in Nat : x < y => <<x, y>> \in R
  BY DEF OpToRel
<1> HIDE DEF R
<1>4. PICK x \in S : \A y \in S : ~(<<y, x>> \in R)
  BY <1>1, <1>2, WFMin
<1>5. ASSUME NEW y \in S
      PROVE  x <= y
  <2>1. x \in Nat /\ y \in Nat
    BY <1>1
  <2>2. ~(y < x)
    BY <1>3, <1>4, <2>1
  <2> QED
    BY <2>1, <2>2
<1> QED
  BY <1>5 DEF First

LEMMA FindIsLive ==
  ASSUME NEW f \in FileSystem, NEW p, Found(f, p)
  PROVE  /\ Find(f, p) \in Slots
         /\ Find(f, p) \in Live(f)
         /\ f.nodes[Find(f, p)].path = p
<1>1. At(f, p) \subseteq Slots
  BY DEF At, Live
<1>2. Find(f, p) \in At(f, p)
  BY <1>1, FirstIsMember DEF Find, Found
<1> QED
  BY <1>2 DEF At, Live

LEMMA LiveIsFinite ==
  ASSUME NEW f
  PROVE  IsFiniteSet(Live(f)) /\ Cardinality(Live(f)) \in Nat
<1>1. IsFiniteSet(Slots)
  BY FS_Interval, ConstantsAssumption DEF Slots
<1>2. Live(f) \subseteq Slots
  BY DEF Live
<1> QED
  BY <1>1, <1>2, FS_Subset, FS_CardinalityType

-----------------------------------------------------------------------------
(* What is kept, as predicates on one record.  Exact and Short hold as long*)
(* as no content is InlineSize bytes long.                                 *)
UniqueIn(f) ==
  \A i, j \in Live(f) : f.nodes[i].path = f.nodes[j].path => i = j

Good(f) ==
  /\ f \in FileSystem
  /\ UniqueIn(f)
  /\ Cardinality(Live(f)) <= f.used

Short(f) == \A i \in Slots : f.nodes[i].size < InlineSize

Exact(f) ==
  /\ Good(f)
  /\ Short(f)
  /\ Cardinality(Live(f)) = f.used

(* The two ways in which an operation can move the live slots, and what    *)
(* they do to the count.                                                   *)
LEMMA OneMore ==
  ASSUME NEW f, NEW g, NEW i, i \notin Live(f), Live(g) = Live(f) \cup {i}
  PROVE  Cardinality(Live(g)) = Cardinality(Live(f)) + 1
BY LiveIsFinite, FS_AddElement

LEMMA OneLess ==
  ASSUME NEW f, NEW g, NEW i, i \in Live(f), Live(g) = Live(f) \ {i}
  PROVE  /\ Cardinality(Live(g)) = Cardinality(Live(f)) - 1
         /\ Cardinality(Live(f)) > 0
<1>1. Cardinality(Live(g)) = Cardinality(Live(f)) - 1
  BY LiveIsFinite, FS_RemoveElement
<1>2. Cardinality(Live(f)) \in Nat /\ Cardinality(Live(g)) \in Nat
  BY LiveIsFinite
<1> QED
  BY <1>1, <1>2

(* es1_alloc takes a vacant slot, or nothing.                              *)
LEMMA AllocEffect ==
  ASSUME NEW f \in FileSystem, NEW p \in Paths, NEW who \in Users,
         NEW fl \in SUBSET Flags, "USED" \in fl
  PROVE  \/ Alloc(f, p, fl, who) = f
         \/ \E i \in Vacant(f) :
              /\ Alloc(f, p, fl, who) =
                   [nodes |-> [f.nodes EXCEPT ![i] = NewNode(p, fl, who)],
                    used  |-> f.used + 1,
                    total |-> f.total]
              /\ Live(Alloc(f, p, fl, who)) = Live(f) \cup {i}
<1>1. SUFFICES ASSUME Vacant(f) # {}
               PROVE  \E i \in Vacant(f) :
                 /\ Alloc(f, p, fl, who) =
                      [nodes |-> [f.nodes EXCEPT ![i] = NewNode(p, fl, who)],
                       used  |-> f.used + 1,
                       total |-> f.total]
                 /\ Live(Alloc(f, p, fl, who)) = Live(f) \cup {i}
  BY DEF Alloc
<1> DEFINE i == First(Vacant(f))
           g == [nodes |-> [f.nodes EXCEPT ![i] = NewNode(p, fl, who)],
                 used  |-> f.used + 1,
                 total |-> f.total]
<1>2. i \in Vacant(f)
  BY <1>1, FirstIsMember DEF Vacant
<1>3. Alloc(f, p, fl, who) = g
  BY <1>1 DEF Alloc, FileSystem
<1> HIDE DEF i
<1>4. Live(g) = Live(f) \cup {i}
  BY <1>2 DEF Live, Vacant, FileSystem, NewNode
<1> QED
  BY <1>2, <1>3, <1>4

LEMMA AllocKeeps ==
  ASSUME NEW f, Good(f), NEW p \in Paths, ~Found(f, p), NEW who \in Users,
         NEW fl \in SUBSET Flags, "USED" \in fl
  PROVE  /\ Good(Alloc(f, p, fl, who))
         /\ Exact(f) => Exact(Alloc(f, p, fl, who))
<1> DEFINE g == Alloc(f, p, fl, who)
<1>1. f \in FileSystem
  BY DEF Good
<1>2. CASE g = f
  BY <1>2
<1>3. CASE g # f
  <2>1. PICK i \in Vacant(f) :
          /\ g = [nodes |-> [f.nodes EXCEPT ![i] = NewNode(p, fl, who)],
                  used  |-> f.used + 1,
                  total |-> f.total]
          /\ Live(g) = Live(f) \cup {i}
    BY <1>1, <1>3, AllocEffect
  <2> HIDE DEF g
  <2>2. NewNode(p, fl, who) \in Node
    BY DEF NewNode, Node
  <2>3. g \in FileSystem
    <3>1. f.nodes \in [Slots -> Node] /\ f.used \in Nat /\ f.total \in Nat
      BY <1>1 DEF FileSystem
    <3>2. [f.nodes EXCEPT ![i] = NewNode(p, fl, who)] \in [Slots -> Node]
      BY <2>2, <3>1
    <3> QED
      BY <2>1, <3>1, <3>2 DEF FileSystem
  <2>4. UniqueIn(g)
    BY <1>1, <2>1 DEF UniqueIn, Good, Found, At, Live, Vacant, FileSystem, NewNode
  <2>5. Cardinality(Live(g)) = Cardinality(Live(f)) + 1
    BY <2>1, OneMore DEF Vacant
  <2>6. Good(g)
    BY <1>1, <2>1, <2>3, <2>4, <2>5, LiveIsFinite DEF Good, FileSystem
  <2>7. Short(f) => Short(g)
    BY <1>1, <2>1, ConstantsAssumption DEF Short, FileSystem, NewNode
  <2> QED
    BY <2>1, <2>5, <2>6, <2>7, LiveIsFinite DEF Exact, g
<1> QED
  BY <1>2, <1>3

(* es1_free vacates the slot it finds.                                     *)
LEMMA FreeKeeps ==
  ASSUME NEW f, Good(f), NEW p
  PROVE  /\ Good(Free(f, p))
         /\ Exact(f) => Exact(Free(f, p))
<1> SUFFICES ASSUME Found(f, p)
             PROVE  /\ Good(Free(f, p))
                    /\ Exact(f) => Exact(Free(f, p))
  BY DEF Free
<1> DEFINE i == Find(f, p)
           g == Free(f, p)
<1>1. f.nodes \in [Slots -> Node] /\ f.used \in Nat /\ f.total \in Nat
  BY DEF Good, FileSystem
<1>2. i \in Slots /\ i \in Live(f)
  BY FindIsLive DEF Good
<1>3. /\ g.nodes = [f.nodes EXCEPT ![i] = ZeroNode]
      /\ g.used = IF f.used > 0 THEN f.used - 1 ELSE f.used
      /\ g.total = Less(f.total, f.nodes[i].size)
      /\ g = [nodes |-> g.nodes, used |-> g.used, total |-> g.total]
  BY DEF Free, NodeAt
<1> HIDE DEF g, i
<1>4. ZeroNode \in Node /\ ZeroNode.flags = {} /\ ZeroNode.size = 0
  BY DEF ZeroNode, NewNode, Node
<1>5. g \in FileSystem
  <2>1. g.nodes \in [Slots -> Node]
    BY <1>1, <1>3, <1>4
  <2>4. g.used \in Nat
    BY <1>1, <1>3
  <2>2. f.nodes[i].size \in Nat
    BY <1>1, <1>2 DEF Node
  <2>3. g.total \in Nat
    BY <1>1, <1>3, <2>2 DEF Less
  <2> QED
    BY <1>3, <2>1, <2>3, <2>4 DEF FileSystem
<1>6. Live(g) = Live(f) \ {i}
  BY <1>1, <1>2, <1>3, <1>4 DEF Live
<1>7. UniqueIn(g)
  BY <1>1, <1>3, <1>6 DEF UniqueIn, Good, Live
<1>8. /\ Cardinality(Live(g)) = Cardinality(Live(f)) - 1
      /\ Cardinality(Live(f)) > 0
      /\ Cardinality(Live(f)) \in Nat
  BY <1>2, <1>6, OneLess, LiveIsFinite
<1>9. Good(g)
  BY <1>1, <1>3, <1>5, <1>7, <1>8 DEF Good
<1>10. Exact(f) => Exact(g)
  <2>1. Short(f) => Short(g)
    BY <1>1, <1>3, <1>4, ConstantsAssumption DEF Short
  <2> QED
    BY <1>1, <1>3, <1>8, <1>9, <2>1 DEF Exact
<1> QED
  BY <1>9, <1>10 DEF g

(* es1_write changes one node, and wipes the next one at most.             *)
LEMMA WriteKeeps ==
  ASSUME NEW f, Good(f), NEW p, NEW d \in Texts \cup {Zeros}, NEW len \in Nat
  PROVE  /\ Good(Write(f, p, d, len))
         /\ Exact(f) /\ len < InlineSize => Exact(Write(f, p, d, len))
<1> SUFFICES ASSUME Found(f, p), ~IsDir(f, p)
             PROVE  /\ Good(Write(f, p, d, len))
                    /\ Exact(f) /\ len < InlineSize => Exact(Write(f, p, d, len))
  BY DEF Write
<1> DEFINE i == Find(f, p)
           n == Clamp(len)
           m == [f.nodes EXCEPT ![i].data = d, ![i].size = n]
           g == Write(f, p, d, len)
<1>1. f.nodes \in [Slots -> Node] /\ f.used \in Nat /\ f.total \in Nat
  BY DEF Good, FileSystem
<1>2. i \in Slots /\ i \in Live(f)
  BY FindIsLive DEF Good
<1>3. n \in Nat
  BY ConstantsAssumption DEF Clamp
<1>4. /\ g.nodes = Terminate(m, i, n)
      /\ g.used = f.used
      /\ g.total = Less(f.total, f.nodes[i].size) + n
      /\ g = [nodes |-> g.nodes, used |-> g.used, total |-> g.total]
  BY DEF Write
<1>5. len < InlineSize => g.nodes = m /\ n < InlineSize
  BY <1>4, ConstantsAssumption DEF Terminate, Clamp
<1> HIDE DEF g, i, n
<1>6. m \in [Slots -> Node]
  BY <1>1, <1>2, <1>3 DEF Node
<1>7. \A k \in Slots : m[k].flags = f.nodes[k].flags /\ m[k].path = f.nodes[k].path
  BY <1>1, <1>2 DEF Node
<1>8. /\ g.nodes \in [Slots -> Node]
      /\ \A k \in Slots :
           /\ g.nodes[k].path = f.nodes[k].path
           /\ g.nodes[k].flags = f.nodes[k].flags \/ g.nodes[k].flags = {}
  <2>1. CASE n = InlineSize /\ i + 1 \in Slots
    <3>1. g.nodes = [m EXCEPT ![i + 1].flags = {}]
      BY <1>4, <2>1 DEF Terminate
    <3>2. [m[i + 1] EXCEPT !.flags = {}] \in Node
      BY <1>6, <2>1 DEF Node
    <3>3. g.nodes = [m EXCEPT ![i + 1] = [m[i + 1] EXCEPT !.flags = {}]]
      BY <3>1
    <3>4. g.nodes \in [Slots -> Node]
      BY <1>6, <3>2, <3>3
    <3>5. /\ [m[i + 1] EXCEPT !.flags = {}].flags = {}
          /\ [m[i + 1] EXCEPT !.flags = {}].path = m[i + 1].path
      BY <1>6, <2>1 DEF Node
    <3> QED
      BY <1>6, <1>7, <2>1, <3>3, <3>4, <3>5
  <2>2. CASE ~(n = InlineSize /\ i + 1 \in Slots)
    BY <1>4, <1>6, <1>7, <2>2 DEF Terminate
  <2> QED
    BY <2>1, <2>2
<1>9. g \in FileSystem
  <2>1. f.nodes[i].size \in Nat
    BY <1>1, <1>2 DEF Node
  <2>2. g.total \in Nat
    BY <1>1, <1>3, <1>4, <2>1 DEF Less
  <2> QED
    BY <1>1, <1>4, <1>8, <2>2 DEF FileSystem
<1>10. Live(g) \subseteq Live(f)
  BY <1>8 DEF Live
<1>11. UniqueIn(g)
  BY <1>8, <1>10 DEF UniqueIn, Good, Live
<1>12. Cardinality(Live(g)) <= Cardinality(Live(f))
  BY <1>10, LiveIsFinite, FS_Subset
<1>13. Good(g)
  <2>1. Cardinality(Live(f)) \in Nat /\ Cardinality(Live(g)) \in Nat
    BY LiveIsFinite
  <2> QED
    BY <1>1, <1>4, <1>9, <1>11, <1>12, <2>1 DEF Good
<1>14. Exact(f) /\ len < InlineSize => Exact(g)
  <2> SUFFICES ASSUME Exact(f), len < InlineSize
               PROVE  Exact(g)
    OBVIOUS
  <2>1. Live(g) = Live(f)
    BY <1>5, <1>7 DEF Live
  <2>2. Short(g)
    BY <1>1, <1>2, <1>5 DEF Short, Exact, Node
  <2> QED
    BY <1>4, <1>13, <2>1, <2>2 DEF Exact
<1> QED
  BY <1>13, <1>14 DEF g

(* An update of a node that leaves its path and its USED flag alone.       *)
LEMMA UpdateKeeps ==
  ASSUME NEW f, Good(f), NEW g \in FileSystem, g.used = f.used,
         Live(g) = Live(f),
         \A k \in Slots : g.nodes[k].path = f.nodes[k].path
  PROVE  /\ Good(g)
         /\ Exact(f) /\ Short(g) => Exact(g)
<1>1. UniqueIn(g)
  BY DEF UniqueIn, Good, Live
<1> QED
  BY <1>1 DEF Good, Exact

LEMMA TouchKeeps ==
  ASSUME NEW f, Good(f), NEW p \in Paths
  PROVE  /\ Good(Touch(f, p))
         /\ Exact(f) => Exact(Touch(f, p))
BY AllocKeeps DEF Touch, CurrentUser, Users, Flags

LEMMA CopyKeeps ==
  ASSUME NEW f, Good(f), NEW p, NEW q \in Paths, Found(f, p)
  PROVE  /\ Good(CopyInto(f, p, q))
         /\ Exact(f) => Exact(CopyInto(f, p, q))
<1>1. NodeAt(f, p) \in Node /\ Find(f, p) \in Slots
  BY FindIsLive DEF NodeAt, Good, FileSystem
<1>2. NodeAt(f, p).data \in Texts \cup {Zeros} /\ NodeAt(f, p).size \in Nat
  BY <1>1 DEF Node
<1>3. Exact(f) => NodeAt(f, p).size < InlineSize
  BY <1>1 DEF Exact, Short, NodeAt
<1>4. Good(Touch(f, q)) /\ (Exact(f) => Exact(Touch(f, q)))
  BY TouchKeeps
<1> QED
  BY <1>2, <1>3, <1>4, WriteKeeps DEF CopyInto

(* One archive entry, read into the table.                                 *)
LEMMA PointAtKeeps ==
  ASSUME NEW f, Good(f), NEW p, NEW d \in Payloads \cup {NoData}, NEW size \in Nat
  PROVE  /\ Good(PointAt(f, p, d, size))
         /\ Exact(f) /\ size < InlineSize => Exact(PointAt(f, p, d, size))
<1> SUFFICES ASSUME Found(f, p)
             PROVE  /\ Good(PointAt(f, p, d, size))
                    /\ Exact(f) /\ size < InlineSize
                         => Exact(PointAt(f, p, d, size))
  BY DEF PointAt
<1> DEFINE i == Find(f, p)
           g == PointAt(f, p, d, size)
<1>1. f.nodes \in [Slots -> Node] /\ f.used \in Nat /\ f.total \in Nat
  BY DEF Good, FileSystem
<1>2. i \in Slots
  BY FindIsLive DEF Good
<1>3. g = [nodes |-> [f.nodes EXCEPT ![i].ext = d, ![i].size = size],
           used  |-> f.used,
           total |-> f.total + size]
  BY DEF PointAt, Good, FileSystem
<1> HIDE DEF g, i
<1>4. [f.nodes[i] EXCEPT !.ext = d, !.size = size] \in Node
  BY <1>1, <1>2 DEF Node
<1>5. g.nodes \in [Slots -> Node]
  BY <1>1, <1>3, <1>4
<1>6. g \in FileSystem
  BY <1>1, <1>3, <1>5 DEF FileSystem
<1>7. /\ \A k \in Slots : g.nodes[k].path = f.nodes[k].path
      /\ Live(g) = Live(f)
  BY <1>1, <1>2, <1>3 DEF Node, Live
<1>8. Exact(f) /\ size < InlineSize => Short(g)
  BY <1>1, <1>2, <1>3 DEF Exact, Short, Node
<1>9. g.used = f.used
  BY <1>3
<1>10. Good(g) /\ (Exact(f) /\ Short(g) => Exact(g))
  BY <1>6, <1>7, <1>9, UpdateKeeps
<1> QED
  BY <1>8, <1>10 DEF g

LEMMA FlagKeeps ==
  ASSUME NEW f, Good(f), NEW p, Found(f, p)
  PROVE  LET g == [f EXCEPT !.nodes[Find(f, p)].flags = @ \cup {"EXTDATA"}]
         IN  Good(g) /\ (Exact(f) => Exact(g))
<1> DEFINE i == Find(f, p)
           g == [f EXCEPT !.nodes[i].flags = @ \cup {"EXTDATA"}]
<1>1. f.nodes \in [Slots -> Node] /\ f.used \in Nat /\ f.total \in Nat
  BY DEF Good, FileSystem
<1>2. i \in Slots
  BY FindIsLive DEF Good
<1> DEFINE n == [f.nodes[i] EXCEPT !.flags = @ \cup {"EXTDATA"}]
<1>3. g = [nodes |-> [f.nodes EXCEPT ![i] = n], used |-> f.used, total |-> f.total]
  BY DEF Good, FileSystem
<1>4. /\ n \in Node
      /\ n.path = f.nodes[i].path
      /\ n.size = f.nodes[i].size
      /\ n.flags = f.nodes[i].flags \cup {"EXTDATA"}
  BY <1>1, <1>2 DEF Node, Flags
<1> HIDE DEF g, i, n
<1>5. g.nodes \in [Slots -> Node]
  BY <1>1, <1>3, <1>4
<1>6. g \in FileSystem
  BY <1>1, <1>3, <1>5 DEF FileSystem
<1>7. /\ \A k \in Slots : g.nodes[k].path = f.nodes[k].path
      /\ Live(g) = Live(f)
  BY <1>1, <1>2, <1>3, <1>4 DEF Live
<1>8. Exact(f) => Short(g)
  BY <1>1, <1>2, <1>3, <1>4 DEF Exact, Short
<1>9. g.used = f.used
  BY <1>3
<1>10. Good(g) /\ (Exact(f) /\ Short(g) => Exact(g))
  BY <1>6, <1>7, <1>9, UpdateKeeps
<1> QED
  BY <1>8, <1>10 DEF g, i

LEMMA ExtractKeeps ==
  ASSUME NEW f, Good(f), NEW e \in Entry
  PROVE  /\ Good(ExtractRegular(f, e)) /\ Good(ExtractDirectory(f, e))
         /\ Exact(f) /\ e.size < InlineSize
              => Exact(ExtractRegular(f, e)) /\ Exact(ExtractDirectory(f, e))
<1>1. e.path \in Paths /\ e.size \in Nat /\ e.data \in Payloads \cup {NoData}
  BY DEF Entry
<1>2. Good(ExtractDirectory(f, e)) /\ (Exact(f) => Exact(ExtractDirectory(f, e)))
  BY <1>1, AllocKeeps DEF ExtractDirectory, Users, Flags
<1> DEFINE g == IF Found(f, e.path)
                THEN [f EXCEPT !.nodes[Find(f, e.path)].flags = @ \cup {"EXTDATA"}]
                ELSE Alloc(f, e.path, {"USED", "EXTDATA"}, "root")
<1>3. Good(g) /\ (Exact(f) => Exact(g))
  <2>1. CASE Found(f, e.path)
    BY <2>1, FlagKeeps
  <2>2. CASE ~Found(f, e.path)
    BY <1>1, <2>2, AllocKeeps DEF Users, Flags
  <2> QED
    BY <2>1, <2>2
<1>4. ExtractRegular(f, e) = PointAt(g, e.path, e.data, e.size)
  BY DEF ExtractRegular
<1> HIDE DEF g
<1> QED
  BY <1>1, <1>2, <1>3, <1>4, PointAtKeeps

(* The editor's save.                                                      *)
LEMMA SaveKeeps ==
  ASSUME NEW f, Good(f), NEW p, NEW t \in Texts
  PROVE  /\ Good(SaveInto(f, p, t))
         /\ Exact(f) => Exact(SaveInto(f, p, t))
<1> SUFFICES ASSUME Found(f, p), ~IsDir(f, p)
             PROVE  /\ Good(SaveInto(f, p, t))
                    /\ Exact(f) => Exact(SaveInto(f, p, t))
  BY DEF SaveInto
<1> DEFINE i == Find(f, p)
           g == SaveInto(f, p, t)
           n == [f.nodes[i] EXCEPT !.data = t, !.size = TextLen[t]]
<1>1. f.nodes \in [Slots -> Node] /\ f.used \in Nat /\ f.total \in Nat
  BY DEF Good, FileSystem
<1>2. i \in Slots
  BY FindIsLive DEF Good
<1>3. g = [nodes |-> [f.nodes EXCEPT ![i] = n], used |-> f.used, total |-> f.total]
  BY <1>1, <1>2 DEF SaveInto, Good, FileSystem
<1>4. /\ n \in Node
      /\ n.path = f.nodes[i].path
      /\ n.flags = f.nodes[i].flags
      /\ n.size < InlineSize
  BY <1>1, <1>2, ConstantsAssumption DEF Node
<1> HIDE DEF g, i, n
<1>5. g.nodes \in [Slots -> Node]
  BY <1>1, <1>3, <1>4
<1>6. g \in FileSystem
  BY <1>1, <1>3, <1>5 DEF FileSystem
<1>7. /\ \A k \in Slots : g.nodes[k].path = f.nodes[k].path
      /\ Live(g) = Live(f)
  BY <1>1, <1>2, <1>3, <1>4 DEF Live
<1>8. Exact(f) => Short(g)
  BY <1>1, <1>2, <1>3, <1>4 DEF Exact, Short
<1>9. g.used = f.used
  BY <1>3
<1>10. Good(g) /\ (Exact(f) /\ Short(g) => Exact(g))
  BY <1>6, <1>7, <1>9, UpdateKeeps
<1> QED
  BY <1>8, <1>10 DEF g

LEMMA FormattedIsExact == Good(Formatted) /\ Exact(Formatted)
<1> DEFINE z == [nodes |-> [i \in Slots |-> ZeroNode], used |-> 0, total |-> 0]
<1>1. ZeroNode \in Node /\ ZeroNode.flags = {} /\ ZeroNode.size = 0
  BY DEF ZeroNode, NewNode, Node
<1>2. z \in FileSystem
  BY <1>1 DEF FileSystem
<1>3. Live(z) = {}
  BY <1>1 DEF Live
<1>4. Cardinality(Live(z)) = 0
  BY <1>3, FS_EmptySet
<1>5. Good(z) /\ Exact(z)
  BY <1>1, <1>2, <1>3, <1>4, ConstantsAssumption DEF Good, Exact, Short, UniqueIn
<1>6. ~Found(z, Root)
  BY <1>3 DEF Found, At
<1> HIDE DEF z
<1>7. Root \in Paths
  BY ConstantsAssumption
<1>8. /\ Good(Alloc(z, Root, {"USED", "DIR"}, "root"))
      /\ Exact(Alloc(z, Root, {"USED", "DIR"}, "root"))
  BY <1>5, <1>6, <1>7, AllocKeeps DEF Users, Flags
<1> QED
  BY <1>8 DEF Formatted, z

-----------------------------------------------------------------------------
(* The inductive invariant.  TypeOK alone does not bound extracted: that   *)
(* takes its relation to pos.                                              *)
Inv ==
  /\ Good(fs)
  /\ cwd \in UserPaths
  /\ archive \in Archives
  /\ pos \in 1 .. Len(archive) + 1
  /\ extracted \in 0 .. pos - 1

LEMMA InitInv == Init => Inv /\ Exact(fs)
<1> SUFFICES ASSUME Init PROVE Inv /\ Exact(fs)
  OBVIOUS
<1>1. Good(fs) /\ Exact(fs)
  BY FormattedIsExact DEF Init
<1>2. cwd \in UserPaths
  BY ConstantsAssumption DEF Init, UserPaths, Root
<1>3. archive \in Archives /\ Len(archive) \in Nat
  BY ArchivesAssumption DEF Init
<1> QED
  BY <1>1, <1>2, <1>3 DEF Inv, Init

LEMMA ExtractStep ==
  ASSUME Inv, ExtractEntry
  PROVE  Inv' /\ (Fitting(archive) /\ Exact(fs) => Exact(fs)')
<1> DEFINE e == archive[pos]
<1>1. archive \in Seq(Entry) /\ Len(archive) \in Nat
  BY ArchivesAssumption DEF Inv
<1>2. pos \in 1 .. Len(archive)
  BY <1>1 DEF Inv, ExtractEntry, Booted
<1>3. e \in Entry
  BY <1>1, <1>2
<1>4. Fitting(archive) => e.size < InlineSize
  BY <1>2 DEF Fitting
<1>5. /\ fs' = IF IsFileEntry(e) THEN ExtractRegular(fs, e)
               ELSE IF IsDirEntry(e) THEN ExtractDirectory(fs, e)
               ELSE fs
      /\ extracted' \in {extracted, extracted + 1}
      /\ pos' = pos + 1
      /\ UNCHANGED <<cwd, archive>>
  BY DEF ExtractEntry, Inv
<1> HIDE DEF e
<1>6. Good(fs') /\ (Fitting(archive) /\ Exact(fs) => Exact(fs'))
  BY <1>3, <1>4, <1>5, ExtractKeeps DEF Inv
<1>7. pos' \in 1 .. Len(archive') + 1 /\ extracted' \in 0 .. pos' - 1
  BY <1>1, <1>2, <1>5 DEF Inv
<1> QED
  BY <1>5, <1>6, <1>7 DEF Inv, Good, Exact, Short, UniqueIn, Live

LEMMA CommandStep ==
  ASSUME Inv, Command \/ Edit
  PROVE  Inv' /\ (Exact(fs) => Exact(fs)')
<1>1. Good(fs) /\ UserPaths \subseteq Paths
  BY DEF Inv, UserPaths
<1>2. \A t \in Texts : TextLen[t] \in Nat /\ TextLen[t] < InlineSize
  BY ConstantsAssumption
<1>3. SUFFICES /\ Good(fs') /\ (Exact(fs) => Exact(fs'))
               /\ cwd' \in UserPaths
  BY DEF Inv, Command, Edit, Good, Exact, Short, UniqueIn, Live
<1>4. ASSUME NEW p \in UserPaths, CmdTouch(p)
      PROVE  Good(fs') /\ (Exact(fs) => Exact(fs')) /\ cwd' = cwd
  BY <1>1, <1>4, TouchKeeps DEF CmdTouch
<1>5. ASSUME NEW p \in UserPaths, CmdMkdir(p)
      PROVE  Good(fs') /\ (Exact(fs) => Exact(fs')) /\ cwd' = cwd
  BY <1>1, <1>5, AllocKeeps DEF CmdMkdir, CurrentUser, Users, Flags
<1>6. ASSUME NEW p \in UserPaths, CmdRm(p) \/ CmdRmdir(p)
      PROVE  Good(fs') /\ (Exact(fs) => Exact(fs')) /\ cwd' = cwd
  BY <1>1, <1>6, FreeKeeps DEF CmdRm, CmdRmdir
<1>7. ASSUME NEW p \in UserPaths, NEW t \in Texts, CmdWrite(p, t)
      PROVE  Good(fs') /\ (Exact(fs) => Exact(fs')) /\ cwd' = cwd
  <2>1. Good(Touch(fs, p)) /\ (Exact(fs) => Exact(Touch(fs, p)))
    BY <1>1, TouchKeeps
  <2> QED
    BY <1>2, <1>7, <2>1, WriteKeeps DEF CmdWrite
<1>8. ASSUME NEW p \in UserPaths, NEW q \in UserPaths, CmdCp(p, q)
      PROVE  Good(fs') /\ (Exact(fs) => Exact(fs')) /\ cwd' = cwd
  BY <1>1, <1>8, CopyKeeps DEF CmdCp
<1>9. ASSUME NEW p \in UserPaths, NEW q \in UserPaths, CmdMv(p, q)
      PROVE  Good(fs') /\ (Exact(fs) => Exact(fs')) /\ cwd' = cwd
  <2>1. Good(CopyInto(fs, p, q)) /\ (Exact(fs) => Exact(CopyInto(fs, p, q)))
    BY <1>1, <1>9, CopyKeeps DEF CmdMv
  <2> QED
    BY <1>9, <2>1, FreeKeeps DEF CmdMv
<1>10. ASSUME NEW p \in UserPaths, NEW t \in Texts, EditSave(p, t)
       PROVE  Good(fs') /\ (Exact(fs) => Exact(fs')) /\ cwd' = cwd
  <2>1. Good(Touch(fs, p)) /\ (Exact(fs) => Exact(Touch(fs, p)))
    BY <1>1, TouchKeeps
  <2> QED
    BY <1>10, <2>1, SaveKeeps DEF EditSave
<1>11. ASSUME NEW p \in UserPaths, CmdCd(p)
       PROVE  fs' = fs /\ cwd' \in UserPaths
  BY <1>11 DEF CmdCd
<1>12. CmdCdHome => fs' = fs /\ cwd' \in UserPaths
  BY ConstantsAssumption DEF CmdCdHome, UserPaths, Root
<1>13. cwd \in UserPaths
  BY DEF Inv
<1> QED
  BY <1>1, <1>4, <1>5, <1>6, <1>7, <1>8, <1>9, <1>10, <1>11, <1>12, <1>13
  DEF Command, Edit

LEMMA NextInv ==
  ASSUME Inv, [Next]_vars
  PROVE  Inv' /\ (Fitting(archive) /\ Exact(fs) => Exact(fs)')
<1>1. CASE Next
  BY <1>1, ExtractStep, CommandStep DEF Next
<1>2. CASE UNCHANGED vars
  BY <1>2 DEF vars, Inv, Good, Exact, Short, UniqueIn, Live
<1> QED
  BY <1>1, <1>2

LEMMA InvHolds == Spec => []Inv
<1>1. Init => Inv
  BY InitInv
<1>2. Inv /\ [Next]_vars => Inv'
  BY NextInv
<1> QED
  BY <1>1, <1>2, PTL DEF Spec

(* Every variable keeps its type through boot and every session.           *)
THEOREM TypeCorrect == Spec => []TypeOK
<1>1. Inv => TypeOK
  <2> SUFFICES ASSUME Inv PROVE TypeOK
    OBVIOUS
  <2>1. Len(archive) \in Nat
    BY ArchivesAssumption DEF Inv
  <2>2. extracted \in 0 .. Len(archive)
    BY <2>1 DEF Inv
  <2> QED
    BY <2>2 DEF Inv, Good, TypeOK
<1> QED
  BY <1>1, InvHolds, PTL

(* No two live slots ever have the same path, whatever the archive holds   *)
(* and whichever commands run, the editor included.                        *)
THEOREM PathsAreUnique == Spec => []UniquePaths
<1>1. Inv => UniquePaths
  BY DEF Inv, Good, UniqueIn, UniquePaths
<1> QED
  BY <1>1, InvHolds, PTL

(* used_nodes never falls below the number of live slots, even though a    *)
(* full inline_data can wipe its neighbour.                                *)
THEOREM UsedCovers == Spec => []UsedCoversLive
<1>1. Inv => UsedCoversLive
  BY DEF Inv, Good, UsedCoversLive
<1> QED
  BY <1>1, InvHolds, PTL

LEMMA ArchiveStays == [Next]_vars => archive' = archive
BY DEF Next, ExtractEntry, Command, Edit, vars

(* With an archive whose files leave room for the terminator, used_nodes is*)
(* the number of live slots: the hypothesis is what rules the wiping out.  *)
THEOREM UsedIsExact == Spec => []UsedIsLiveIfFitting
<1> DEFINE ExactIfFitting == Fitting(archive) => Exact(fs)
<1>1. Init => Inv /\ ExactIfFitting
  BY InitInv
<1>2. (Inv /\ ExactIfFitting) /\ [Next]_vars => (Inv /\ ExactIfFitting)'
  <2> SUFFICES ASSUME Inv, ExactIfFitting, [Next]_vars
               PROVE  Inv' /\ (Fitting(archive') => Exact(fs)')
    BY DEF Fitting
  <2> QED
    BY NextInv, ArchiveStays
<1>3. ExactIfFitting => UsedIsLiveIfFitting
  BY DEF Exact, UsedIsLive, UsedIsLiveIfFitting
<1> QED
  BY <1>1, <1>2, <1>3, PTL DEF Spec

-----------------------------------------------------------------------------
(* What each operation does to the array of nodes.                         *)
LEMMA AllocNodes ==
  ASSUME NEW f \in FileSystem, NEW p \in Paths, NEW who \in Users,
         NEW fl \in SUBSET Flags, "USED" \in fl
  PROVE  \/ Vacant(f) = {} /\ Alloc(f, p, fl, who) = f
         \/ \E i \in Vacant(f) :
              /\ Alloc(f, p, fl, who).nodes = [f.nodes EXCEPT ![i] = NewNode(p, fl, who)]
              /\ Live(Alloc(f, p, fl, who)) = Live(f) \cup {i}
<1>1. CASE Vacant(f) = {}
  BY <1>1 DEF Alloc
<1>2. CASE Vacant(f) # {}
  <2> DEFINE g == Alloc(f, p, fl, who)
  <2>1. g.used = f.used + 1
    BY <1>2 DEF Alloc, FileSystem
  <2>2. g # f
    BY <2>1 DEF FileSystem
  <2>3. PICK i \in Vacant(f) :
          /\ g = [nodes |-> [f.nodes EXCEPT ![i] = NewNode(p, fl, who)],
                  used  |-> f.used + 1,
                  total |-> f.total]
          /\ Live(g) = Live(f) \cup {i}
    BY <2>2, AllocEffect
  <2> HIDE DEF g
  <2>4. g.nodes = [f.nodes EXCEPT ![i] = NewNode(p, fl, who)]
    BY <2>3
  <2> QED
    BY <2>3, <2>4 DEF g
<1> QED
  BY <1>1, <1>2

LEMMA FreeNodes ==
  ASSUME NEW f \in FileSystem, NEW p, Found(f, p)
  PROVE  /\ Free(f, p).nodes = [f.nodes EXCEPT ![Find(f, p)] = ZeroNode]
         /\ Live(Free(f, p)) = Live(f) \ {Find(f, p)}
<1>1. Find(f, p) \in Slots
  BY FindIsLive
<1>2. Free(f, p).nodes = [f.nodes EXCEPT ![Find(f, p)] = ZeroNode]
  BY DEF Free
<1> QED
  BY <1>1, <1>2 DEF Live, ZeroNode, NewNode, FileSystem

(* A write changes the content and the size of one node, and nothing but   *)
(* that when the content leaves room for the NUL.                          *)
LEMMA WriteNodes ==
  ASSUME NEW f \in FileSystem, NEW p, NEW d, NEW len \in Nat,
         Found(f, p), ~IsDir(f, p), NEW g, g = Write(f, p, d, len)
  PROVE  /\ g.nodes[Find(f, p)].data = d
         /\ g.nodes[Find(f, p)].size = Clamp(len)
         /\ \A k \in Slots \ {Find(f, p)} :
              g.nodes[k].data = f.nodes[k].data /\ g.nodes[k].size = f.nodes[k].size
<1> DEFINE i == Find(f, p)
           m == [f.nodes EXCEPT ![i].data = d, ![i].size = Clamp(len)]
<1>1. i \in Slots /\ f.nodes \in [Slots -> Node]
  BY FindIsLive DEF FileSystem
<1>2. g.nodes = Terminate(m, i, Clamp(len))
  BY DEF Write
<1> HIDE DEF i
<1>3. /\ DOMAIN m = Slots
      /\ m[i] = [f.nodes[i] EXCEPT !.data = d, !.size = Clamp(len)]
      /\ \A k \in Slots \ {i} : m[k] = f.nodes[k]
  BY <1>1
<1>4. m[i].data = d /\ m[i].size = Clamp(len)
  BY <1>1, <1>3 DEF Node
<1> HIDE DEF m
<1>5. \A k \in Slots : g.nodes[k].data = m[k].data /\ g.nodes[k].size = m[k].size
  <2>1. CASE Clamp(len) = InlineSize /\ i + 1 \in Slots
    <3>1. g.nodes = [m EXCEPT ![i + 1] = [m[i + 1] EXCEPT !.flags = {}]]
      BY <1>2, <2>1 DEF Terminate
    <3>2. i + 1 # i
      BY <1>1, ConstantsAssumption DEF Slots
    <3>3. m[i + 1] \in Node
      BY <1>1, <1>3, <2>1, <3>2
    <3> QED
      BY <1>3, <2>1, <3>1, <3>3 DEF Node
  <2>2. CASE ~(Clamp(len) = InlineSize /\ i + 1 \in Slots)
    BY <1>2, <2>2 DEF Terminate
  <2> QED
    BY <2>1, <2>2
<1>6. g.nodes[i].data = d /\ g.nodes[i].size = Clamp(len)
  BY <1>1, <1>4, <1>5
<1>7. \A k \in Slots \ {i} : g.nodes[k].data = f.nodes[k].data /\ g.nodes[k].size = f.nodes[k].size
  BY <1>3, <1>5
<1> QED
  BY <1>6, <1>7 DEF i

LEMMA FittingWriteNodes ==
  ASSUME NEW f \in FileSystem, NEW p, NEW d, NEW len \in Nat, len < InlineSize,
         Found(f, p), ~IsDir(f, p), NEW g, g = Write(f, p, d, len),
         NEW i, i = Find(f, p)
  PROVE  /\ g.nodes[i].path = f.nodes[i].path /\ g.nodes[i].flags = f.nodes[i].flags
         /\ g.nodes[i].owner = f.nodes[i].owner
         /\ g.nodes[i].data = d /\ g.nodes[i].size = len
         /\ \A k \in Slots \ {i} : g.nodes[k] = f.nodes[k]
<1> DEFINE m == [f.nodes EXCEPT ![i].data = d, ![i].size = Clamp(len)]
<1>1. i \in Slots /\ f.nodes \in [Slots -> Node]
  BY FindIsLive DEF FileSystem
<1>2. g.nodes = Terminate(m, i, Clamp(len))
  BY DEF Write
<1>3. Clamp(len) = len /\ Terminate(m, i, Clamp(len)) = m
  BY ConstantsAssumption DEF Clamp, Terminate
<1>4. /\ m[i] = [f.nodes[i] EXCEPT !.data = d, !.size = len]
      /\ \A k \in Slots \ {i} : m[k] = f.nodes[k]
  BY <1>1, <1>3
<1>5. g.nodes = m
  BY <1>2, <1>3
<1> HIDE DEF m
<1>6. m[i].path = f.nodes[i].path /\ m[i].flags = f.nodes[i].flags /\ m[i].owner = f.nodes[i].owner
  BY <1>4
<1>7. m[i].data = d /\ m[i].size = len
  <2>1. f.nodes[i] \in Node
    BY <1>1
  <2> QED
    BY <1>4, <2>1 DEF Node
<1> QED
  BY <1>4, <1>5, <1>6, <1>7

-----------------------------------------------------------------------------
(* TextHasItsSize speaks of the live slots; a wiped slot keeps its content *)
(* and its size, so all of them are like that.  An archive sets the size   *)
(* alone, which is harmless as long as no text is in the table: texts come *)
(* from commands, and those wait until the archive is through.             *)
Sized(f) ==
  \A k \in Slots : f.nodes[k].data # Zeros => f.nodes[k].size = TextLen[f.nodes[k].data]

Textless(f) == \A k \in Slots : f.nodes[k].data = Zeros

SizedInv ==
  /\ Sized(fs)
  /\ ~Booted => Textless(fs)

LEMMA AllocSized ==
  ASSUME NEW f, Good(f), NEW p \in Paths, NEW who \in Users,
         NEW fl \in SUBSET Flags, "USED" \in fl
  PROVE  /\ Sized(f) => Sized(Alloc(f, p, fl, who))
         /\ Textless(f) => Textless(Alloc(f, p, fl, who))
<1> DEFINE g == Alloc(f, p, fl, who)
<1>1. f \in FileSystem
  BY DEF Good
<1>2. CASE g = f
  BY <1>2
<1>3. CASE \E i \in Vacant(f) : g.nodes = [f.nodes EXCEPT ![i] = NewNode(p, fl, who)]
  <2>1. PICK i \in Vacant(f) : g.nodes = [f.nodes EXCEPT ![i] = NewNode(p, fl, who)]
    BY <1>3
  <2>2. NewNode(p, fl, who).data = Zeros
    BY DEF NewNode
  <2> HIDE DEF g
  <2>3. \A k \in Slots : g.nodes[k] = IF k = i THEN NewNode(p, fl, who) ELSE f.nodes[k]
    BY <1>1, <2>1 DEF FileSystem, Vacant
  <2>4. (Sized(f) => Sized(g)) /\ (Textless(f) => Textless(g))
    BY <2>2, <2>3 DEF Sized, Textless
  <2> QED
    BY <2>4 DEF g
<1> QED
  BY <1>1, <1>2, <1>3, AllocNodes

LEMMA FreeSized ==
  ASSUME NEW f, Good(f), NEW p, Sized(f)
  PROVE  Sized(Free(f, p))
<1> SUFFICES ASSUME Found(f, p) PROVE Sized(Free(f, p))
  BY DEF Free
<1>1. f \in FileSystem
  BY DEF Good
<1>2. Free(f, p).nodes = [f.nodes EXCEPT ![Find(f, p)] = ZeroNode]
  BY <1>1, FreeNodes
<1>3. ZeroNode.data = Zeros
  BY DEF ZeroNode, NewNode
<1>4. \A k \in Slots : Free(f, p).nodes[k] = IF k = Find(f, p) THEN ZeroNode ELSE f.nodes[k]
  BY <1>1, <1>2 DEF FileSystem
<1> QED
  BY <1>3, <1>4 DEF Sized

(* Writing a text with its own length, or zeros with any.                  *)
LEMMA WriteSized ==
  ASSUME NEW f, Good(f), Sized(f), NEW p, NEW d \in Texts \cup {Zeros}, NEW len \in Nat,
         d # Zeros => len = TextLen[d]
  PROVE  Sized(Write(f, p, d, len))
<1> SUFFICES ASSUME Found(f, p), ~IsDir(f, p)
             PROVE  Sized(Write(f, p, d, len))
  BY DEF Write
<1> DEFINE i == Find(f, p)
           g == Write(f, p, d, len)
<1>1. f \in FileSystem
  BY DEF Good
<1>2. /\ \A k \in Slots \ {i} :
           g.nodes[k].data = f.nodes[k].data /\ g.nodes[k].size = f.nodes[k].size
      /\ g.nodes[i].data = d
      /\ g.nodes[i].size = Clamp(len)
  BY <1>1, WriteNodes
<1>3. d # Zeros => Clamp(len) = TextLen[d]
  BY ConstantsAssumption DEF Clamp
<1> HIDE DEF g, i
<1>4. Sized(g)
  BY <1>2, <1>3 DEF Sized
<1> QED
  BY <1>4 DEF g

LEMMA TouchSized ==
  ASSUME NEW f, Good(f), NEW p \in Paths, Sized(f)
  PROVE  Sized(Touch(f, p))
BY AllocSized DEF Touch, CurrentUser, Users, Flags

LEMMA CopySized ==
  ASSUME NEW f, Good(f), NEW p, NEW q \in Paths, Found(f, p), Sized(f)
  PROVE  Sized(CopyInto(f, p, q))
<1>1. NodeAt(f, p) \in Node /\ Find(f, p) \in Slots
  BY FindIsLive DEF NodeAt, Good, FileSystem
<1>2. NodeAt(f, p).data \in Texts \cup {Zeros} /\ NodeAt(f, p).size \in Nat
  BY <1>1 DEF Node
<1>3. NodeAt(f, p).data # Zeros => NodeAt(f, p).size = TextLen[NodeAt(f, p).data]
  BY <1>1 DEF NodeAt, Sized
<1>4. Good(Touch(f, q)) /\ Sized(Touch(f, q))
  BY TouchKeeps, TouchSized
<1> QED
  BY <1>2, <1>3, <1>4, WriteSized DEF CopyInto

LEMMA SaveSized ==
  ASSUME NEW f, Good(f), NEW p, NEW t \in Texts, Sized(f)
  PROVE  Sized(SaveInto(f, p, t))
<1> SUFFICES ASSUME Found(f, p), ~IsDir(f, p)
             PROVE  Sized(SaveInto(f, p, t))
  BY DEF SaveInto
<1> DEFINE i == Find(f, p)
           g == SaveInto(f, p, t)
           n == [f.nodes[i] EXCEPT !.data = t, !.size = TextLen[t]]
<1>1. i \in Slots /\ f.nodes \in [Slots -> Node]
  BY FindIsLive DEF Good, FileSystem
<1>2. g.nodes = [f.nodes EXCEPT ![i] = n]
  BY <1>1 DEF SaveInto, Good, FileSystem
<1>3. n.data = t /\ n.size = TextLen[t]
  BY <1>1 DEF Node
<1> HIDE DEF g, i, n
<1>4. \A k \in Slots : g.nodes[k] = IF k = i THEN n ELSE f.nodes[k]
  BY <1>1, <1>2
<1>5. Sized(g)
  BY <1>3, <1>4 DEF Sized
<1> QED
  BY <1>5 DEF g

(* An entry of the archive puts no text anywhere.                          *)
LEMMA ExtractTextless ==
  ASSUME NEW f, Good(f), NEW e \in Entry, Textless(f)
  PROVE  Textless(ExtractRegular(f, e)) /\ Textless(ExtractDirectory(f, e))
<1>1. e.path \in Paths /\ e.size \in Nat /\ e.data \in Payloads \cup {NoData}
  BY DEF Entry
<1>2. Textless(ExtractDirectory(f, e))
  BY <1>1, AllocSized DEF ExtractDirectory, Users, Flags
<1> DEFINE g == IF Found(f, e.path)
                THEN [f EXCEPT !.nodes[Find(f, e.path)].flags = @ \cup {"EXTDATA"}]
                ELSE Alloc(f, e.path, {"USED", "EXTDATA"}, "root")
<1>3. Good(g) /\ Textless(g)
  <2>1. CASE Found(f, e.path)
    <3>1. Good(g)
      BY <2>1, FlagKeeps
    <3>2. \A k \in Slots : g.nodes[k].data = f.nodes[k].data
      BY <2>1, FindIsLive DEF Good, FileSystem, Node
    <3> QED
      BY <3>1, <3>2 DEF Textless
  <2>2. CASE ~Found(f, e.path)
    BY <1>1, <2>2, AllocKeeps, AllocSized DEF Users, Flags
  <2> QED
    BY <2>1, <2>2
<1>4. ExtractRegular(f, e) = PointAt(g, e.path, e.data, e.size)
  BY DEF ExtractRegular
<1> HIDE DEF g
<1>5. Textless(PointAt(g, e.path, e.data, e.size))
  <2>1. CASE ~Found(g, e.path)
    BY <1>3, <2>1 DEF PointAt
  <2>2. CASE Found(g, e.path)
    <3>1. \A k \in Slots : PointAt(g, e.path, e.data, e.size).nodes[k].data = g.nodes[k].data
      BY <1>3, <2>2, FindIsLive DEF PointAt, Good, FileSystem, Node
    <3> QED
      BY <1>3, <3>1 DEF Textless
  <2> QED
    BY <2>1, <2>2
<1> QED
  BY <1>2, <1>4, <1>5

LEMMA TextlessIsSized == \A f : Textless(f) => Sized(f)
BY DEF Textless, Sized

LEMMA ExtractSized ==
  ASSUME Inv, SizedInv, ExtractEntry
  PROVE  SizedInv'
<1> DEFINE e == archive[pos]
<1>1. archive \in Seq(Entry) /\ pos \in 1 .. Len(archive)
  BY ArchivesAssumption DEF Inv, ExtractEntry, Booted
<1>2. e \in Entry
  BY <1>1
<1>3. fs' = IF IsFileEntry(e) THEN ExtractRegular(fs, e)
            ELSE IF IsDirEntry(e) THEN ExtractDirectory(fs, e)
            ELSE fs
  BY DEF ExtractEntry
<1>4. Good(fs) /\ Textless(fs)
  BY DEF Inv, SizedInv, ExtractEntry
<1> HIDE DEF e
<1>5. Textless(fs')
  BY <1>2, <1>3, <1>4, ExtractTextless
<1> QED
  BY <1>5, TextlessIsSized DEF SizedInv, Textless, Sized

LEMMA CommandSized ==
  ASSUME Inv, SizedInv, Command \/ Edit
  PROVE  SizedInv'
<1>1. Good(fs) /\ Sized(fs) /\ UserPaths \subseteq Paths
  BY DEF Inv, SizedInv, UserPaths
<1>2. \A t \in Texts : TextLen[t] \in Nat
  BY ConstantsAssumption
<1>3. SUFFICES Sized(fs')
  BY DEF SizedInv, Sized, Command, Edit, Booted
<1>4. ASSUME NEW p \in UserPaths, CmdTouch(p)
      PROVE  Sized(fs')
  BY <1>1, <1>4, TouchSized DEF CmdTouch
<1>5. ASSUME NEW p \in UserPaths, CmdMkdir(p)
      PROVE  Sized(fs')
  BY <1>1, <1>5, AllocSized DEF CmdMkdir, CurrentUser, Users, Flags
<1>6. ASSUME NEW p \in UserPaths, CmdRm(p) \/ CmdRmdir(p)
      PROVE  Sized(fs')
  BY <1>1, <1>6, FreeSized DEF CmdRm, CmdRmdir
<1>7. ASSUME NEW p \in UserPaths, NEW t \in Texts, CmdWrite(p, t)
      PROVE  Sized(fs')
  <2>1. Good(Touch(fs, p)) /\ Sized(Touch(fs, p))
    BY <1>1, TouchKeeps, TouchSized
  <2> QED
    BY <1>2, <1>7, <2>1, WriteSized DEF CmdWrite
<1>8. ASSUME NEW p \in UserPaths, NEW q \in UserPaths, CmdCp(p, q)
      PROVE  Sized(fs')
  BY <1>1, <1>8, CopySized DEF CmdCp
<1>9. ASSUME NEW p \in UserPaths, NEW q \in UserPaths, CmdMv(p, q)
      PROVE  Sized(fs')
  <2>1. Good(CopyInto(fs, p, q)) /\ Sized(CopyInto(fs, p, q))
    BY <1>1, <1>9, CopyKeeps, CopySized DEF CmdMv
  <2> QED
    BY <1>9, <2>1, FreeSized DEF CmdMv
<1>10. ASSUME NEW p \in UserPaths, NEW t \in Texts, EditSave(p, t)
       PROVE  Sized(fs')
  <2>1. Good(Touch(fs, p)) /\ Sized(Touch(fs, p))
    BY <1>1, TouchKeeps, TouchSized
  <2> QED
    BY <1>10, <2>1, SaveSized DEF EditSave
<1>11. ASSUME NEW p \in UserPaths, CmdCd(p) \/ CmdCdHome
       PROVE  Sized(fs')
  BY <1>1, <1>11 DEF CmdCd, CmdCdHome
<1>12. CmdCdHome => Sized(fs')
  BY <1>1 DEF CmdCdHome
<1> QED
  BY <1>4, <1>5, <1>6, <1>7, <1>8, <1>9, <1>10, <1>11, <1>12 DEF Command, Edit

(* cat and stat agree: the size of a node that holds a text is the length  *)
(* of the text, through every write, copy, move and save, and although the *)
(* archive and cp store sizes of contents that are not in the table.       *)
THEOREM TextsAreMeasured == Spec => []TextHasItsSize
<1>1. Init => SizedInv
  <2>1. Textless(Formatted)
    <3> DEFINE z == [nodes |-> [i \in Slots |-> ZeroNode], used |-> 0, total |-> 0]
    <3>1. Textless(z)
      BY DEF Textless, ZeroNode, NewNode
    <3>2. ZeroNode \in Node /\ ZeroNode.flags = {}
      BY DEF ZeroNode, NewNode, Node
    <3>3. z \in FileSystem
      BY <3>2 DEF FileSystem
    <3>4. Live(z) = {}
      BY <3>2 DEF Live
    <3>5. Good(z)
      BY <3>3, <3>4, FS_EmptySet DEF Good, UniqueIn
    <3> HIDE DEF z
    <3>6. Textless(Alloc(z, Root, {"USED", "DIR"}, "root"))
      BY <3>1, <3>5, AllocSized, ConstantsAssumption DEF Users, Flags
    <3> QED
      BY <3>6 DEF Formatted, z
  <2> QED
    BY <2>1, TextlessIsSized DEF Init, SizedInv
<1>2. (Inv /\ SizedInv) /\ [Next]_vars => SizedInv'
  <2>1. Inv /\ SizedInv /\ Next => SizedInv'
    BY ExtractSized, CommandSized DEF Next
  <2>2. SizedInv /\ UNCHANGED vars => SizedInv'
    BY DEF vars, SizedInv, Sized, Textless, Booted
  <2> QED
    BY <2>1, <2>2
<1>3. SizedInv => TextHasItsSize
  BY DEF SizedInv, Sized, TextHasItsSize, Live
<1> QED
  BY <1>1, <1>2, <1>3, InvHolds, PTL DEF Spec

(* rmdir compares texts and never takes a path apart, but what lies below a*)
(* directory has a longer text that starts with the directory's, so no     *)
(* directory goes while a live node is below it.                           *)
THEOREM RmdirIsSafe == Spec => RmdirLeavesNoOrphans
<1>1. Inv /\ [Next]_vars => \A p \in UserPaths : CmdRmdir(p) => Orphans(fs', p) = {}
  <2> SUFFICES ASSUME Inv, NEW p \in UserPaths, CmdRmdir(p)
               PROVE  Orphans(fs', p) = {}
    OBVIOUS
  <2>1. Found(fs, p) /\ fs \in FileSystem
    BY DEF CmdRmdir, IsDir, Inv, Good
  <2>2. /\ fs'.nodes = [fs.nodes EXCEPT ![Find(fs, p)] = ZeroNode]
        /\ Live(fs') = Live(fs) \ {Find(fs, p)}
    BY <2>1, FreeNodes DEF CmdRmdir
  <2>3. ASSUME NEW i \in Live(fs') PROVE ~Below(p, fs'.nodes[i].path)
    <3>1. i \in Live(fs) \ {Find(fs, p)} /\ i \in Slots
      BY <2>2, <2>3 DEF Live
    <3>2. fs'.nodes[i] = fs.nodes[i]
      BY <2>1, <2>2, <3>1 DEF FileSystem
    <3>3. ~TextPrefix(p, fs.nodes[i].path)
      BY <3>1 DEF CmdRmdir
    <3>4. Below(p, fs.nodes[i].path) => TextPrefix(p, fs.nodes[i].path)
      BY DEF Below, TextPrefix
    <3> QED
      BY <3>2, <3>3, <3>4
  <2> QED
    BY <2>3 DEF Orphans
<1> QED
  BY <1>1, InvHolds, PTL DEF Spec, RmdirLeavesNoOrphans

-----------------------------------------------------------------------------
(* The refinement.  FileIn is FileAt for any record: what a path names,    *)
(* with the slot forgotten.                                                *)
Nothing == [dir |-> "none"]

NodeFile(n) ==
  [dir |-> "DIR" \in n.flags, owner |-> n.owner, size |-> n.size,
   data |-> Content(n)]

FileIn(f, p) == IF Found(f, p) THEN NodeFile(NodeAt(f, p)) ELSE Nothing

NewFile(isDir, who) == [dir |-> isDir, owner |-> who, size |-> 0, data |-> Zeros]

ExternalIn(f, p) == Found(f, p) /\ "EXTDATA" \in NodeAt(f, p).flags

(* Every live slot has a path that can be named: the path of a zeroed node *)
(* is never live.                                                          *)
Placed(f) == \A i \in Live(f) : f.nodes[i].path \in Paths

LEMMA FileAtIsFileIn ==
  /\ \A p : FileAt(p) = FileIn(fs, p)
  /\ \A p : FileAt(p)' = FileIn(fs', p)
BY DEF FileAt, FileIn, NodeFile, Nothing, IsDir

LEMMA FileIsSomething ==
  \A isDir, who, n, d : [dir |-> isDir, owner |-> who, size |-> n, data |-> d] # Nothing
BY DEF Nothing

LEMMA NodeFileIsSomething == \A n : NodeFile(n) # Nothing
BY FileIsSomething DEF NodeFile

LEMMA FileInIsSomething == \A f, p : FileIn(f, p) # Nothing <=> Found(f, p)
BY NodeFileIsSomething DEF FileIn

LEMMA FileOfSlot ==
  ASSUME NEW f, Good(f), NEW i \in Live(f), NEW p, f.nodes[i].path = p
  PROVE  Found(f, p) /\ Find(f, p) = i /\ FileIn(f, p) = NodeFile(f.nodes[i])
<1>1. Found(f, p)
  BY DEF Found, At
<1>2. Find(f, p) \in Live(f) /\ f.nodes[Find(f, p)].path = p
  BY <1>1, FindIsLive DEF Good
<1>3. Find(f, p) = i
  BY <1>2 DEF Good, UniqueIn
<1> QED
  BY <1>1, <1>3 DEF FileIn, NodeAt

LEMMA FileOfNoSlot ==
  ASSUME NEW f, NEW p, \A i \in Live(f) : f.nodes[i].path # p
  PROVE  ~Found(f, p) /\ FileIn(f, p) = Nothing
BY DEF FileIn, Found, At

(* A change of one slot is not seen by the paths it has nothing to do with.*)
LEMMA OtherFiles ==
  ASSUME NEW f, Good(f), NEW g, Good(g), NEW i,
         \A k \in Slots \ {i} : g.nodes[k] = f.nodes[k],
         NEW q,
         i \in Live(f) => f.nodes[i].path # q,
         i \in Live(g) => g.nodes[i].path # q
  PROVE  FileIn(g, q) = FileIn(f, q)
<1>1. CASE \E k \in Live(f) : f.nodes[k].path = q
  <2>1. PICK k \in Live(f) : f.nodes[k].path = q
    BY <1>1
  <2>2. k \in Live(g) /\ g.nodes[k] = f.nodes[k]
    BY <2>1 DEF Live
  <2> QED
    BY <2>1, <2>2, FileOfSlot
<1>2. CASE \A k \in Live(f) : f.nodes[k].path # q
  <2>1. ASSUME NEW k \in Live(g) PROVE g.nodes[k].path # q
    <3>1. CASE k # i
      <4>1. k \in Live(f) /\ g.nodes[k] = f.nodes[k]
        BY <3>1 DEF Live
      <4> QED
        BY <1>2, <4>1
    <3>2. CASE k = i
      BY <3>2
    <3> QED
      BY <3>1, <3>2
  <2>2. FileIn(f, q) = Nothing
    BY <1>2, FileOfNoSlot
  <2>3. FileIn(g, q) = Nothing
    BY <2>1, FileOfNoSlot
  <2> QED
    BY <2>2, <2>3
<1> QED
  BY <1>1, <1>2

LEMMA AllocFiles ==
  ASSUME NEW f, Good(f), Placed(f), NEW p \in Paths, ~Found(f, p), Vacant(f) # {},
         NEW who \in Users, NEW fl \in SUBSET Flags, "USED" \in fl,
         NEW g, g = Alloc(f, p, fl, who)
  PROVE  /\ Good(g) /\ Placed(g)
         /\ Found(g, p) /\ NodeAt(g, p) = NewNode(p, fl, who)
         /\ "EXTDATA" \notin fl => FileIn(g, p) = NewFile("DIR" \in fl, who)
         /\ \A q : q # p => FileIn(g, q) = FileIn(f, q)
<1>1. f \in FileSystem
  BY DEF Good
<1>2. PICK i \in Vacant(f) :
        g.nodes = [f.nodes EXCEPT ![i] = NewNode(p, fl, who)] /\ Live(g) = Live(f) \cup {i}
  BY <1>1, AllocNodes
<1>3. Good(g)
  BY AllocKeeps
<1>4. /\ g.nodes[i] = NewNode(p, fl, who)
      /\ \A k \in Slots \ {i} : g.nodes[k] = f.nodes[k]
      /\ i \notin Live(f) /\ i \in Live(g)
  BY <1>1, <1>2 DEF FileSystem, Vacant
<1>5. g.nodes[i].path = p
  BY <1>4 DEF NewNode
<1>6. /\ Found(g, p) /\ NodeAt(g, p) = NewNode(p, fl, who)
      /\ FileIn(g, p) = NodeFile(NewNode(p, fl, who))
  BY <1>3, <1>4, <1>5, FileOfSlot DEF NodeAt
<1>7. "EXTDATA" \notin fl => NodeFile(NewNode(p, fl, who)) = NewFile("DIR" \in fl, who)
  BY DEF NodeFile, NewNode, NewFile, Content
<1>8. Placed(g)
  BY <1>2, <1>4, <1>5 DEF Placed, Live
<1>9. \A q : q # p => FileIn(g, q) = FileIn(f, q)
  BY <1>3, <1>4, <1>5, OtherFiles
<1> QED
  BY <1>3, <1>6, <1>7, <1>8, <1>9

LEMMA FreeFiles ==
  ASSUME NEW f, Good(f), Placed(f), NEW p, Found(f, p), NEW g, g = Free(f, p)
  PROVE  /\ Placed(g)
         /\ FileIn(g, p) = Nothing
         /\ \A q : q # p => FileIn(g, q) = FileIn(f, q)
<1> DEFINE i == Find(f, p)
<1>1. f \in FileSystem /\ i \in Live(f) /\ f.nodes[i].path = p
  BY FindIsLive DEF Good
<1>2. g.nodes = [f.nodes EXCEPT ![i] = ZeroNode] /\ Live(g) = Live(f) \ {i}
  BY <1>1, FreeNodes
<1>3. Good(g)
  BY FreeKeeps
<1> HIDE DEF i
<1>4. \A k \in Slots \ {i} : g.nodes[k] = f.nodes[k]
  BY <1>1, <1>2 DEF FileSystem
<1>5. ASSUME NEW k \in Live(g) PROVE g.nodes[k].path # p /\ g.nodes[k].path \in Paths
  <2>1. k \in Live(f) /\ k # i /\ g.nodes[k] = f.nodes[k]
    BY <1>2, <1>4 DEF Live
  <2> QED
    BY <1>1, <2>1 DEF Good, UniqueIn, Placed
<1>6. FileIn(g, p) = Nothing
  BY <1>5, FileOfNoSlot
<1>7. Placed(g)
  BY <1>5 DEF Placed
<1>8. ASSUME NEW q, q # p PROVE FileIn(g, q) = FileIn(f, q)
  <2>1. f.nodes[i].path # q /\ i \notin Live(g)
    BY <1>1, <1>2, <1>8
  <2> QED
    BY <1>3, <1>4, <2>1, OtherFiles
<1> QED
  BY <1>6, <1>7, <1>8

(* New content, or a new size, for a node that stays where it is.          *)
LEMMA UpdateFiles ==
  ASSUME NEW f, Good(f), Placed(f), NEW p, Found(f, p), NEW g, Good(g),
         NEW n, n.path = p, "USED" \in n.flags,
         g.nodes[Find(f, p)] = n,
         \A k \in Slots \ {Find(f, p)} : g.nodes[k] = f.nodes[k]
  PROVE  /\ Placed(g)
         /\ Found(g, p) /\ NodeAt(g, p) = n
         /\ FileIn(g, p) = NodeFile(n)
         /\ \A q : q # p => FileIn(g, q) = FileIn(f, q)
<1> DEFINE i == Find(f, p)
<1>1. f \in FileSystem /\ i \in Live(f) /\ f.nodes[i].path = p /\ i \in Slots
  BY FindIsLive DEF Good
<1> HIDE DEF i
<1>2. g.nodes[i] = n /\ \A k \in Slots \ {i} : g.nodes[k] = f.nodes[k]
  BY <1>1 DEF FileSystem, i
<1>3. i \in Live(g) /\ Live(g) = Live(f)
  BY <1>1, <1>2 DEF Live
<1>4. Found(g, p) /\ NodeAt(g, p) = n /\ FileIn(g, p) = NodeFile(n)
  BY <1>2, <1>3, FileOfSlot DEF NodeAt
<1>5. Placed(g)
  <2> SUFFICES ASSUME NEW k \in Live(g) PROVE g.nodes[k].path \in Paths
    BY DEF Placed
  <2>1. k \in Live(f) /\ k \in Slots /\ f.nodes[k].path \in Paths
    BY <1>3 DEF Live, Placed
  <2>2. f.nodes[i].path \in Paths
    BY <1>1 DEF Placed
  <2> QED
    BY <1>1, <1>2, <2>1, <2>2
<1>6. ASSUME NEW q, q # p PROVE FileIn(g, q) = FileIn(f, q)
  <2>1. f.nodes[i].path # q /\ g.nodes[i].path # q
    BY <1>1, <1>2, <1>6
  <2>2. \A k \in Slots \ {i} : g.nodes[k] = f.nodes[k]
    BY <1>2
  <2>3. (i \in Live(f) => f.nodes[i].path # q) /\ (i \in Live(g) => g.nodes[i].path # q)
    BY <2>1
  <2> QED
    BY <2>2, <2>3, OtherFiles
<1> QED
  BY <1>4, <1>5, <1>6

Stored(file, d, n) == [file EXCEPT !.data = d, !.size = n]

LEMMA NodeFileExcept ==
  ASSUME NEW m, NEW n, "DIR" \in n.flags <=> "DIR" \in m.flags, n.owner = m.owner
  PROVE  NodeFile(n) = Stored(NodeFile(m), Content(n), n.size)
<1>1. PICK old, mid, new :
        /\ old = NodeFile(m)
        /\ mid = [dir |-> "DIR" \in m.flags, owner |-> m.owner, size |-> m.size,
                   data |-> Content(n)]
        /\ new = NodeFile(n)
  OBVIOUS
<1>2. [old EXCEPT !.data = Content(n)] = mid
  BY <1>1 DEF NodeFile
<1>3. [mid EXCEPT !.size = n.size] = new
  BY <1>1 DEF NodeFile
<1>4. [old EXCEPT !.data = Content(n), !.size = n.size]
        = [[old EXCEPT !.data = Content(n)] EXCEPT !.size = n.size]
  OBVIOUS
<1> QED
  BY <1>1, <1>2, <1>3, <1>4 DEF Stored

(* New content and a new size, as es1_write and the editor leave them in a *)
(* node that holds its content itself.                                     *)
LEMMA ContentFiles ==
  ASSUME NEW f, Good(f), Placed(f), NEW p, Found(f, p), NEW d, NEW len, NEW g, Good(g),
         NEW i, i = Find(f, p),
         g.nodes[i].path = f.nodes[i].path, g.nodes[i].flags = f.nodes[i].flags,
         g.nodes[i].owner = f.nodes[i].owner,
         g.nodes[i].data = d, g.nodes[i].size = len,
         \A k \in Slots \ {i} : g.nodes[k] = f.nodes[k]
  PROVE  /\ Placed(g)
         /\ ~ExternalIn(f, p) => FileIn(g, p) = Stored(FileIn(f, p), d, len)
         /\ \A q : q # p => FileIn(g, q) = FileIn(f, q)
<1>1. i \in Live(f) /\ f.nodes[i].path = p
  BY FindIsLive DEF Good
<1>2. g.nodes[i].path = p /\ "USED" \in g.nodes[i].flags
  BY <1>1 DEF Live
<1>3. /\ Placed(g)
      /\ FileIn(g, p) = NodeFile(g.nodes[i])
      /\ \A q : q # p => FileIn(g, q) = FileIn(f, q)
  BY <1>2, UpdateFiles
<1>4. FileIn(f, p) = NodeFile(f.nodes[i])
  BY DEF FileIn, NodeAt
<1>5. ~ExternalIn(f, p) => Content(g.nodes[i]) = d
  BY DEF ExternalIn, NodeAt, Content
<1>6. NodeFile(g.nodes[i]) = Stored(NodeFile(f.nodes[i]), Content(g.nodes[i]), len)
  BY NodeFileExcept
<1> QED
  BY <1>3, <1>4, <1>5, <1>6

(* The total of files that exist is the total of slots that are taken.     *)
LEMMA RoomIsVacancy ==
  ASSUME NEW f, Good(f), Placed(f)
  PROVE  Cardinality({p \in Paths : FileIn(f, p) # Nothing}) < MaxNodes <=> Vacant(f) # {}
<1> DEFINE E == {p \in Paths : FileIn(f, p) # Nothing}
           F == [i \in Live(f) |-> f.nodes[i].path]
<1>1. ASSUME NEW i \in Live(f) PROVE f.nodes[i].path \in E
  <2>1. f.nodes[i].path \in Paths /\ FileIn(f, f.nodes[i].path) = NodeFile(f.nodes[i])
    BY FileOfSlot DEF Placed
  <2> QED
    BY <2>1, NodeFileIsSomething
<1>2. ASSUME NEW p \in E PROVE \E i \in Live(f) : F[i] = p
  BY <1>2, FileInIsSomething, FindIsLive DEF Good
<1>3. F \in [Live(f) -> E]
  BY <1>1
<1>4. \A i, j \in Live(f) : F[i] = F[j] => i = j
  BY DEF Good, UniqueIn
<1> HIDE DEF E, F
<1>5. ExistsBijection(Live(f), E)
  <2>1. F \in Injection(Live(f), E)
    BY <1>3, <1>4 DEF Injection, IsInjective
  <2>2. F \in Surjection(Live(f), E)
    BY <1>2, <1>3 DEF Surjection
  <2> QED
    BY <2>1, <2>2 DEF ExistsBijection, Bijection
<1>6. Cardinality(E) = Cardinality(Live(f))
  BY <1>5, LiveIsFinite, FS_Bijection
<1>7. IsFiniteSet(Slots) /\ Cardinality(Slots) = MaxNodes
  BY FS_Interval, ConstantsAssumption DEF Slots
<1>8. /\ Live(f) \in SUBSET Slots
      /\ Cardinality(Live(f)) <= MaxNodes
      /\ Cardinality(Live(f)) = MaxNodes => Live(f) = Slots
  <2>1. Live(f) \in SUBSET Slots
    BY DEF Live
  <2> QED
    BY <1>7, <2>1, FS_Subset
<1>9. Live(f) = Slots => Cardinality(Live(f)) = MaxNodes
  BY <1>7
<1>10. Cardinality(Live(f)) \in Nat /\ MaxNodes \in Nat
  BY LiveIsFinite, ConstantsAssumption
<1>11. Vacant(f) # {} <=> Live(f) # Slots
  BY <1>8 DEF Vacant
<1> QED
  BY <1>6, <1>8, <1>9, <1>10, <1>11 DEF E

(* What a command that writes to p finds there.                            *)
CanWrite(f, p) == IF Found(f, p) THEN ~IsDir(f, p) ELSE Vacant(f) # {}
OpenedIn(f, p, who) == IF Found(f, p) THEN FileIn(f, p) ELSE NewFile(FALSE, who)

LEMMA TouchFiles ==
  ASSUME NEW f, Exact(f), Placed(f), NEW p \in Paths, NEW g, g = Touch(f, p)
  PROVE  /\ Exact(g) /\ Placed(g)
         /\ CanWrite(f, p) =>
              /\ Found(g, p) /\ ~IsDir(g, p)
              /\ ~ExternalIn(f, p) => ~ExternalIn(g, p)
              /\ FileIn(g, p) = OpenedIn(f, p, CurrentUser)
              /\ \A q : q # p => FileIn(g, q) = FileIn(f, q)
         /\ ~CanWrite(f, p) => g = f /\ (~Found(g, p) \/ IsDir(g, p))
<1>1. Good(f) /\ f \in FileSystem
  BY DEF Exact, Good
<1>2. CASE Found(f, p)
  BY <1>2 DEF Touch, CanWrite, OpenedIn
<1>3. CASE ~Found(f, p) /\ Vacant(f) = {}
  BY <1>3 DEF Touch, Alloc, CanWrite
<1>4. CASE ~Found(f, p) /\ Vacant(f) # {}
  <2>1. g = Alloc(f, p, {"USED"}, CurrentUser)
    BY <1>4 DEF Touch
  <2>2. {"USED"} \in SUBSET Flags /\ "USED" \in {"USED"} /\ CurrentUser \in Users
    BY DEF Flags, CurrentUser, Users
  <2>3. Exact(g)
    BY <1>1, <1>4, <2>1, <2>2, AllocKeeps
  <2>4. /\ Placed(g) /\ NodeAt(g, p) = NewNode(p, {"USED"}, CurrentUser)
        /\ FileIn(g, p) = NewFile("DIR" \in {"USED"}, CurrentUser)
        /\ \A q : q # p => FileIn(g, q) = FileIn(f, q)
    BY <1>1, <1>4, <2>1, <2>2, AllocFiles
  <2>5. ("DIR" \in {"USED"}) = FALSE
    OBVIOUS
  <2>6. FileIn(g, p) = OpenedIn(f, p, CurrentUser)
    BY <1>4, <2>4, <2>5 DEF OpenedIn
  <2>7. Found(g, p) /\ ~IsDir(g, p)
    <3>1. NewFile(FALSE, CurrentUser) # Nothing /\ NewFile(FALSE, CurrentUser).dir = FALSE
      BY FileIsSomething DEF NewFile
    <3>2. Found(g, p)
      BY <2>4, <2>5, <3>1, FileInIsSomething
    <3>3. NodeFile(NodeAt(g, p)).dir = FALSE
      BY <2>4, <2>5, <3>1, <3>2 DEF FileIn
    <3> QED
      BY <3>2, <3>3 DEF NodeFile, IsDir
  <2>8. ~ExternalIn(g, p)
    BY <2>4 DEF ExternalIn, NewNode
  <2> QED
    BY <1>4, <2>3, <2>4, <2>6, <2>7, <2>8 DEF CanWrite
<1> QED
  BY <1>2, <1>3, <1>4

(* A write that fits and a save, behind the touch that comes before them.  *)
LEMMA StoreFiles ==
  ASSUME NEW f, Exact(f), Placed(f), NEW p \in Paths, NEW d \in Texts \cup {Zeros},
         NEW len \in Nat, len < InlineSize, NEW h, h = Touch(f, p), NEW g,
         \/ g = Write(h, p, d, len)
         \/ d \in Texts /\ len = TextLen[d] /\ g = SaveInto(h, p, d)
  PROVE  /\ Placed(g)
         /\ CanWrite(f, p) /\ ~ExternalIn(f, p) =>
              FileIn(g, p) = Stored(OpenedIn(f, p, CurrentUser), d, len)
         /\ \A q : q # p => FileIn(g, q) = FileIn(f, q)
         /\ ~CanWrite(f, p) => g = f
<1>1. /\ Exact(h) /\ Placed(h)
      /\ CanWrite(f, p) =>
           /\ Found(h, p) /\ ~IsDir(h, p)
           /\ ~ExternalIn(f, p) => ~ExternalIn(h, p)
           /\ FileIn(h, p) = OpenedIn(f, p, CurrentUser)
           /\ \A q : q # p => FileIn(h, q) = FileIn(f, q)
      /\ ~CanWrite(f, p) => h = f /\ (~Found(h, p) \/ IsDir(h, p))
  BY TouchFiles
<1>2. Good(h) /\ h \in FileSystem
  BY <1>1 DEF Exact, Good
<1>3. Good(g)
  BY <1>2, WriteKeeps, SaveKeeps
<1>4. CASE ~CanWrite(f, p)
  BY <1>1, <1>4 DEF Write, SaveInto
<1>5. CASE CanWrite(f, p)
  <2>1. PICK i : i = Find(h, p)
    OBVIOUS
  <2>2. i \in Slots /\ h.nodes \in [Slots -> Node]
    BY <1>1, <1>2, <1>5, <2>1, FindIsLive DEF FileSystem
  <2>3. /\ g.nodes[i].path = h.nodes[i].path /\ g.nodes[i].flags = h.nodes[i].flags
        /\ g.nodes[i].owner = h.nodes[i].owner
        /\ g.nodes[i].data = d /\ g.nodes[i].size = len
        /\ \A k \in Slots \ {i} : g.nodes[k] = h.nodes[k]
    <3>1. CASE g = Write(h, p, d, len)
      BY <1>1, <1>2, <1>5, <2>1, <3>1, FittingWriteNodes
    <3>2. CASE d \in Texts /\ len = TextLen[d] /\ g = SaveInto(h, p, d)
      <4>1. g.nodes = [h.nodes EXCEPT ![i].data = d, ![i].size = len]
        BY <1>1, <1>2, <1>5, <2>1, <2>2, <3>2 DEF SaveInto, FileSystem
      <4> QED
        BY <2>2, <4>1 DEF Node
    <3> QED
      BY <3>1, <3>2
  <2>4. /\ Placed(g)
        /\ ~ExternalIn(h, p) => FileIn(g, p) = Stored(FileIn(h, p), d, len)
        /\ \A q : q # p => FileIn(g, q) = FileIn(h, q)
    BY <1>1, <1>2, <1>3, <1>5, <2>1, <2>3, ContentFiles
  <2> QED
    BY <1>1, <1>5, <2>4
<1> QED
  BY <1>4, <1>5

(* A regular file of the archive, with content: whatever the node held, it *)
(* points to the archive afterwards.                                       *)
LEMMA ProvideFiles ==
  ASSUME NEW f, Exact(f), Placed(f), NEW e \in Entry, NEW g, g = ExtractRegular(f, e)
  PROVE  LET p == e.path
         IN  /\ Placed(g)
             /\ Found(f, p) \/ Vacant(f) # {} =>
                  FileIn(g, p) = Stored(OpenedIn(f, p, "root"), e.data, e.size)
             /\ \A q : q # p => FileIn(g, q) = FileIn(f, q)
             /\ ~(Found(f, p) \/ Vacant(f) # {}) => g = f
<1> DEFINE p == e.path
           old == OpenedIn(f, p, "root")
           h == IF Found(f, p)
                THEN [f EXCEPT !.nodes[Find(f, p)].flags = @ \cup {"EXTDATA"}]
                ELSE Alloc(f, p, {"USED", "EXTDATA"}, "root")
<1>1. /\ p \in Paths /\ e.size \in Nat /\ e.data \in Payloads \cup {NoData}
      /\ Good(f) /\ f \in FileSystem
  BY DEF Entry, Exact, Good
<1>2. g = PointAt(h, p, e.data, e.size)
  BY DEF ExtractRegular
<1>3. {"USED", "EXTDATA"} \in SUBSET Flags /\ "USED" \in {"USED", "EXTDATA"} /\ "root" \in Users
  BY DEF Flags, Users
<1>4. CASE ~(Found(f, p) \/ Vacant(f) # {})
  BY <1>2, <1>4 DEF Alloc, PointAt
<1>5. CASE Found(f, p) \/ Vacant(f) # {}
  <2>1. /\ Good(h) /\ Placed(h)
        /\ Found(h, p) /\ "EXTDATA" \in NodeAt(h, p).flags
        /\ \A q : q # p => FileIn(h, q) = FileIn(f, q)
        /\ \E m : /\ NodeFile(m) = old /\ m.owner = NodeAt(h, p).owner
                  /\ "DIR" \in m.flags <=> "DIR" \in NodeAt(h, p).flags
    <3>1. CASE Found(f, p)
      <4> DEFINE i == Find(f, p)
      <4>1. i \in Slots /\ f.nodes \in [Slots -> Node] /\ i \in Live(f) /\ f.nodes[i].path = p
        BY <1>1, <3>1, FindIsLive DEF FileSystem
      <4>2. h.nodes = [f.nodes EXCEPT ![i].flags = @ \cup {"EXTDATA"}]
        BY <1>1, <3>1 DEF FileSystem
      <4>3. Good(h)
        BY <1>1, <3>1, FlagKeeps
      <4> HIDE DEF h, i
      <4>4. /\ h.nodes[i].path = p
            /\ h.nodes[i].flags = f.nodes[i].flags \cup {"EXTDATA"}
            /\ h.nodes[i].owner = f.nodes[i].owner
        BY <4>1, <4>2 DEF Node
      <4>5. \A k \in Slots \ {i} : h.nodes[k] = f.nodes[k]
        BY <4>1, <4>2
      <4>6. "USED" \in h.nodes[i].flags
        BY <4>1, <4>4 DEF Live
      <4>7. /\ Placed(h)
            /\ Found(h, p) /\ NodeAt(h, p) = h.nodes[i]
            /\ \A q : q # p => FileIn(h, q) = FileIn(f, q)
        BY <1>1, <3>1, <4>3, <4>4, <4>5, <4>6, UpdateFiles DEF i
      <4>8. old = NodeFile(f.nodes[i])
        BY <3>1 DEF OpenedIn, FileIn, NodeAt, i
      <4> HIDE DEF old
      <4> QED
        BY <4>3, <4>4, <4>7, <4>8
    <3>2. CASE ~Found(f, p)
      <4>1. h = Alloc(f, p, {"USED", "EXTDATA"}, "root") /\ Vacant(f) # {}
        BY <1>5, <3>2
      <4>2. /\ Good(h) /\ Placed(h)
            /\ Found(h, p) /\ NodeAt(h, p) = NewNode(p, {"USED", "EXTDATA"}, "root")
            /\ \A q : q # p => FileIn(h, q) = FileIn(f, q)
        BY <1>1, <1>3, <3>2, <4>1, AllocFiles
      <4> DEFINE m == NewNode(p, {"USED"}, "root")
      <4>3. /\ "DIR" \notin m.flags /\ "EXTDATA" \notin m.flags
            /\ m.owner = "root" /\ m.size = 0 /\ m.data = Zeros
            /\ NodeAt(h, p).flags = {"USED", "EXTDATA"} /\ NodeAt(h, p).owner = "root"
        BY <4>2 DEF NewNode
      <4> HIDE DEF m, h
      <4>4. NodeFile(m) = NewFile(FALSE, "root")
        <5>1. ("DIR" \in m.flags) = FALSE /\ Content(m) = Zeros
          BY <4>3 DEF Content
        <5> QED
          BY <4>3, <5>1 DEF NodeFile, NewFile
      <4>5. NodeFile(m) = old
        BY <3>2, <4>4 DEF OpenedIn
      <4> HIDE DEF old
      <4> QED
        BY <4>2, <4>3, <4>5
    <3> QED
      BY <3>1, <3>2
  <2> HIDE DEF h, old
  <2> DEFINE i == Find(h, p)
  <2>2. i \in Slots /\ h.nodes \in [Slots -> Node] /\ i \in Live(h) /\ h.nodes[i].path = p
    BY <2>1, FindIsLive DEF Good, FileSystem
  <2>3. g.nodes = [h.nodes EXCEPT ![i].ext = e.data, ![i].size = e.size]
    BY <1>2, <2>1 DEF PointAt, Good, FileSystem
  <2>4. Good(g)
    BY <1>1, <1>2, <2>1, PointAtKeeps
  <2>5. NodeAt(h, p) = h.nodes[i]
    BY DEF NodeAt
  <2> HIDE DEF i
  <2>6. /\ g.nodes[i].path = p /\ g.nodes[i].flags = h.nodes[i].flags
        /\ g.nodes[i].owner = h.nodes[i].owner
        /\ g.nodes[i].ext = e.data /\ g.nodes[i].size = e.size
    BY <2>2, <2>3 DEF Node
  <2>7. \A k \in Slots \ {i} : g.nodes[k] = h.nodes[k]
    BY <2>2, <2>3
  <2>8. "USED" \in g.nodes[i].flags
    BY <2>2, <2>6 DEF Live
  <2>9. /\ Placed(g)
        /\ FileIn(g, p) = NodeFile(g.nodes[i])
        /\ \A q : q # p => FileIn(g, q) = FileIn(h, q)
    BY <2>1, <2>4, <2>6, <2>7, <2>8, UpdateFiles DEF i
  <2>10. Content(g.nodes[i]) = e.data
    BY <2>1, <2>5, <2>6 DEF Content
  <2>11. PICK m : /\ NodeFile(m) = old /\ m.owner = g.nodes[i].owner
                  /\ "DIR" \in m.flags <=> "DIR" \in g.nodes[i].flags
    BY <2>1, <2>5, <2>6
  <2>12. NodeFile(g.nodes[i]) = Stored(old, e.data, e.size)
    BY <2>6, <2>10, <2>11, NodeFileExcept
  <2> QED
    BY <1>5, <2>1, <2>9, <2>12 DEF old
<1> QED
  BY <1>4, <1>5

(* The operations of the map, from what they do to the files of fs and fs'.*)
MapOf(f) == [q \in Paths |-> FileIn(f, q)]

LEMMA FilesAreTheMap == Files = MapOf(fs) /\ Files' = MapOf(fs')
BY FileAtIsFileIn DEF MapOf, Files

LEMMA SparedFiles ==
  ASSUME NEW S, \A q : q \notin S => FileIn(fs', q) = FileIn(fs, q)
  PROVE  Spares(S)
BY FileAtIsFileIn DEF Spares

LEMMA SameFiles ==
  ASSUME fs' = fs
  PROVE  UNCHANGED Files /\ \A S : Spares(S)
<1>1. UNCHANGED Files
  BY FilesAreTheMap
<1>2. \A q : FileIn(fs', q) = FileIn(fs, q)
  OBVIOUS
<1> QED
  BY <1>1, <1>2, SparedFiles

LEMMA MapOfOne ==
  ASSUME NEW f, NEW g, NEW p \in Paths, NEW v, FileIn(g, p) = v,
         \A q : q # p => FileIn(g, q) = FileIn(f, q)
  PROVE  MapOf(g) = [MapOf(f) EXCEPT ![p] = v]
BY DEF MapOf

LEMMA MapHasRoom ==
  ASSUME Good(fs), Placed(fs)
  PROVE  Map!HasRoom <=> Vacant(fs) # {}
<1>1. Map!Exists = {p \in Paths : FileIn(fs, p) # Nothing}
  BY FilesAreTheMap DEF Map!Exists, Nothing, MapOf
<1>2. Map!HasRoom <=> Cardinality(Map!Exists) < MaxNodes
  BY DEF Map!HasRoom, Map!Cardinality, Cardinality
<1> QED
  BY <1>1, <1>2, RoomIsVacancy

LEMMA MapCreates ==
  ASSUME Good(fs), Placed(fs), NEW p \in Paths, ~Found(fs, p), Vacant(fs) # {},
         NEW isDir \in BOOLEAN, NEW who, FileIn(fs', p) = NewFile(isDir, who),
         \A q : q # p => FileIn(fs', q) = FileIn(fs, q)
  PROVE  Map!Create(p, isDir, who)
<1>1. PICK v : v = NewFile(isDir, who)
  OBVIOUS
<1>2. MapOf(fs') = [MapOf(fs) EXCEPT ![p] = v]
  BY <1>1, MapOfOne
<1>3. MapOf(fs)[p] = [dir |-> "none"]
  BY DEF MapOf, FileIn, Nothing
<1>4. v = Map!New(isDir, who)
  BY <1>1 DEF NewFile, Map!New
<1> QED
  BY <1>2, <1>3, <1>4, MapHasRoom, FilesAreTheMap DEF Map!Create

(* FileIn where the map looks at the file.                                 *)
LEMMA MapLooks ==
  ASSUME Good(fs), Placed(fs), NEW p \in Paths
  PROVE  /\ MapOf(fs)[p] = FileIn(fs, p)
         /\ (MapOf(fs)[p] = [dir |-> "none"]) <=> ~Found(fs, p)
         /\ Found(fs, p) => /\ MapOf(fs)[p].dir <=> IsDir(fs, p)
                            /\ MapOf(fs)[p].data = Content(NodeAt(fs, p))
                            /\ MapOf(fs)[p].size = NodeAt(fs, p).size
         /\ Map!Writable(p) <=> CanWrite(fs, p)
         /\ \A who : Map!Opened(p, who) = OpenedIn(fs, p, who)
<1>1. MapOf(fs)[p] = FileIn(fs, p)
  BY DEF MapOf
<1>2. (MapOf(fs)[p] = [dir |-> "none"]) <=> ~Found(fs, p)
  BY <1>1, FileInIsSomething DEF Nothing
<1>3. ASSUME Found(fs, p)
      PROVE  /\ MapOf(fs)[p].dir <=> IsDir(fs, p)
             /\ MapOf(fs)[p].data = Content(NodeAt(fs, p))
             /\ MapOf(fs)[p].size = NodeAt(fs, p).size
  <2>1. MapOf(fs)[p] = NodeFile(NodeAt(fs, p))
    BY <1>1, <1>3 DEF FileIn
  <2>2. NodeFile(NodeAt(fs, p)).dir = ("DIR" \in NodeAt(fs, p).flags)
    BY DEF NodeFile
  <2>3. IsDir(fs, p) <=> "DIR" \in NodeAt(fs, p).flags
    BY <1>3 DEF IsDir
  <2>4. /\ NodeFile(NodeAt(fs, p)).data = Content(NodeAt(fs, p))
        /\ NodeFile(NodeAt(fs, p)).size = NodeAt(fs, p).size
    BY DEF NodeFile
  <2> QED
    BY <2>1, <2>2, <2>3, <2>4
<1>4. Map!Writable(p) <=> CanWrite(fs, p)
  BY <1>2, <1>3, MapHasRoom, FilesAreTheMap DEF Map!Writable, CanWrite
<1>5. ASSUME NEW who PROVE Map!Opened(p, who) = OpenedIn(fs, p, who)
  <2>1. NewFile(FALSE, who) = Map!New(FALSE, who)
    BY DEF NewFile, Map!New
  <2> QED
    BY <1>1, <1>2, <2>1, FilesAreTheMap DEF Map!Opened, OpenedIn
<1> QED
  BY <1>1, <1>2, <1>3, <1>4, <1>5

LEMMA MapStores ==
  ASSUME Good(fs), Placed(fs), NEW p \in Paths, CanWrite(fs, p), NEW who, NEW d, NEW n,
         FileIn(fs', p) = Stored(OpenedIn(fs, p, who), d, n),
         \A q : q # p => FileIn(fs', q) = FileIn(fs, q)
  PROVE  Map!Store(p, who, d, n)
<1>1. PICK v : v = Stored(OpenedIn(fs, p, who), d, n)
  OBVIOUS
<1>2. MapOf(fs') = [MapOf(fs) EXCEPT ![p] = v]
  BY <1>1, MapOfOne
<1>3. v = Map!Filled(p, who, d, n)
  BY <1>1, MapLooks DEF Stored, Map!Filled
<1> QED
  BY <1>2, <1>3, MapLooks, FilesAreTheMap DEF Map!Store

LEMMA MapRemoves ==
  ASSUME Good(fs), Placed(fs), NEW p \in Paths, Found(fs, p),
         FileIn(fs', p) = Nothing,
         \A q : q # p => FileIn(fs', q) = FileIn(fs, q)
  PROVE  Map!Remove(p)
<1>1. MapOf(fs') = [MapOf(fs) EXCEPT ![p] = Nothing]
  BY MapOfOne
<1> QED
  BY <1>1, MapLooks, FilesAreTheMap DEF Map!Remove, Nothing

(* A file that holds its content itself, copied and moved.                 *)
LEMMA InlineContent ==
  ASSUME Good(fs), Placed(fs), NEW p \in Paths, Found(fs, p), ~IsDir(fs, p),
         ~ExternalIn(fs, p)
  PROVE  /\ Map!IsFile(p)
         /\ Files[p].data = NodeAt(fs, p).data /\ Files[p].size = NodeAt(fs, p).size
<1>1. Content(NodeAt(fs, p)) = NodeAt(fs, p).data
  BY DEF Content, ExternalIn
<1> QED
  BY <1>1, MapLooks, FilesAreTheMap DEF Map!IsFile

LEMMA MapCopies ==
  ASSUME Good(fs), Placed(fs), NEW p \in Paths, NEW q \in Paths,
         Found(fs, p), ~IsDir(fs, p), ~ExternalIn(fs, p), CanWrite(fs, q), NEW who,
         FileIn(fs', q) = Stored(OpenedIn(fs, q, who), NodeAt(fs, p).data, NodeAt(fs, p).size),
         \A r : r # q => FileIn(fs', r) = FileIn(fs, r)
  PROVE  Map!Copy(p, q, who)
<1>1. PICK d, n : d = NodeAt(fs, p).data /\ n = NodeAt(fs, p).size
  OBVIOUS
<1>2. Map!Store(q, who, d, n)
  BY <1>1, MapStores
<1>3. Map!IsFile(p) /\ Files[p].data = d /\ Files[p].size = n
  BY <1>1, InlineContent
<1> QED
  BY <1>2, <1>3 DEF Map!Copy

LEMMA MapMoves ==
  ASSUME Good(fs), Placed(fs), NEW p \in Paths, NEW q \in Paths, p # q,
         Found(fs, p), ~IsDir(fs, p), ~ExternalIn(fs, p), CanWrite(fs, q), NEW who, NEW g,
         FileIn(g, q) = Stored(OpenedIn(fs, q, who), NodeAt(fs, p).data, NodeAt(fs, p).size),
         \A r : r # q => FileIn(g, r) = FileIn(fs, r),
         FileIn(fs', p) = Nothing,
         \A r : r # p => FileIn(fs', r) = FileIn(g, r)
  PROVE  Map!Move(p, q, who)
<1>1. PICK d, n, v : /\ d = NodeAt(fs, p).data /\ n = NodeAt(fs, p).size
                     /\ v = Stored(OpenedIn(fs, q, who), d, n)
  OBVIOUS
<1>2. MapOf(g) = [MapOf(fs) EXCEPT ![q] = v]
  BY <1>1, MapOfOne
<1>3. MapOf(fs') = [MapOf(g) EXCEPT ![p] = Nothing]
  <2>1. PICK h, w : h = fs' /\ w = Nothing
    OBVIOUS
  <2>2. MapOf(h) = [MapOf(g) EXCEPT ![p] = w]
    BY <2>1, MapOfOne
  <2> QED
    BY <2>1, <2>2
<1>4. MapOf(fs') = [MapOf(fs) EXCEPT ![q] = v, ![p] = Nothing]
  BY <1>2, <1>3
<1>5. v = Map!Filled(q, who, d, n)
  BY <1>1, MapLooks DEF Stored, Map!Filled
<1>6. Map!IsFile(p) /\ Files[p].data = d /\ Files[p].size = n
  BY <1>1, InlineContent
<1>7. Map!Writable(q)
  BY MapLooks
<1> QED
  BY <1>4, <1>5, <1>6, <1>7, FilesAreTheMap DEF Map!Move, Nothing

-----------------------------------------------------------------------------
(* What each command and each entry of the archive does to the map.        *)

LEMMA RemoveMatches ==
  ASSUME Exact(fs), Placed(fs), NEW p \in UserPaths, CmdRm(p) \/ CmdRmdir(p)
  PROVE  Placed(fs') /\ Map!Remove(p)
<1>1. Good(fs) /\ p \in Paths
  BY DEF Exact, UserPaths
<1>2. Found(fs, p) /\ fs' = Free(fs, p)
  BY DEF CmdRm, CmdRmdir, IsDir
<1> QED
  BY <1>1, <1>2, FreeFiles, MapRemoves

LEMMA CreateMatches ==
  ASSUME Exact(fs), Placed(fs), NEW p \in Paths, ~Found(fs, p), Vacant(fs) # {},
         NEW who \in Users, NEW fl \in {{"USED"}, {"USED", "DIR"}},
         fs' = Alloc(fs, p, fl, who)
  PROVE  /\ Placed(fs')
         /\ "DIR" \in fl => Map!Create(p, TRUE, who)
         /\ "DIR" \notin fl => Map!Create(p, FALSE, who)
<1>1. Good(fs)
  BY DEF Exact
<1>2. fl \in SUBSET Flags /\ "USED" \in fl /\ "EXTDATA" \notin fl
  BY DEF Flags
<1>3. /\ Placed(fs')
      /\ FileIn(fs', p) = NewFile("DIR" \in fl, who)
      /\ \A q : q # p => FileIn(fs', q) = FileIn(fs, q)
  BY <1>1, <1>2, AllocFiles
<1>4. ASSUME "DIR" \in fl PROVE Map!Create(p, TRUE, who)
  <2>1. FileIn(fs', p) = NewFile(TRUE, who)
    BY <1>3, <1>4
  <2> QED
    BY <1>1, <1>3, <2>1, MapCreates
<1>5. ASSUME "DIR" \notin fl PROVE Map!Create(p, FALSE, who)
  <2>1. ("DIR" \in fl) = FALSE
    BY <1>5
  <2>2. FileIn(fs', p) = NewFile(FALSE, who)
    BY <1>3, <2>1
  <2> QED
    BY <1>1, <1>3, <2>2, MapCreates
<1> QED
  BY <1>3, <1>4, <1>5

LEMMA TouchMatches ==
  ASSUME Exact(fs), Placed(fs), NEW p \in UserPaths
  PROVE  /\ CmdTouch(p) => Placed(fs') /\ Map!Create(p, FALSE, CurrentUser)
         /\ CmdMkdir(p) => Placed(fs') /\ Map!Create(p, TRUE, CurrentUser)
<1>1. p \in Paths /\ CurrentUser \in Users
  BY DEF UserPaths, CurrentUser, Users
<1>2. ASSUME CmdTouch(p) PROVE Placed(fs') /\ Map!Create(p, FALSE, CurrentUser)
  <2>1. ~Found(fs, p) /\ Vacant(fs) # {} /\ fs' = Alloc(fs, p, {"USED"}, CurrentUser)
    BY <1>2 DEF CmdTouch, Touch
  <2>2. "DIR" \notin {"USED"} /\ {"USED"} \in {{"USED"}, {"USED", "DIR"}}
    OBVIOUS
  <2> QED
    BY <1>1, <2>1, <2>2, CreateMatches
<1>3. ASSUME CmdMkdir(p) PROVE Placed(fs') /\ Map!Create(p, TRUE, CurrentUser)
  <2>1. ~Found(fs, p) /\ Vacant(fs) # {} /\ fs' = Alloc(fs, p, {"USED", "DIR"}, CurrentUser)
    BY <1>3 DEF CmdMkdir
  <2>2. "DIR" \in {"USED", "DIR"} /\ {"USED", "DIR"} \in {{"USED"}, {"USED", "DIR"}}
    OBVIOUS
  <2> QED
    BY <1>1, <2>1, <2>2, CreateMatches
<1> QED
  BY <1>2, <1>3

LEMMA StoreMatches ==
  ASSUME Exact(fs), Placed(fs), NEW p \in UserPaths, NEW t \in Texts,
         CmdWrite(p, t) \/ EditSave(p, t)
  PROVE  /\ Placed(fs')
         /\ IF External(p)
            THEN Spares({p})
            ELSE IfWritable(p, Map!Store(p, CurrentUser, t, TextLen[t]))
<1>1. TextLen[t] \in Nat /\ TextLen[t] < InlineSize
  BY ConstantsAssumption
<1>2. PICK h, n : h = Touch(fs, p) /\ n = TextLen[t]
  OBVIOUS
<1>3. fs' = Write(h, p, t, n) \/ fs' = SaveInto(h, p, t)
  BY <1>2 DEF CmdWrite, EditSave
<1>4. p \in Paths /\ Good(fs)
  BY DEF UserPaths, Exact
<1>5. /\ Placed(fs')
      /\ CanWrite(fs, p) /\ ~ExternalIn(fs, p) =>
           FileIn(fs', p) = Stored(OpenedIn(fs, p, CurrentUser), t, n)
      /\ \A q : q # p => FileIn(fs', q) = FileIn(fs, q)
      /\ ~CanWrite(fs, p) => fs' = fs
  BY <1>1, <1>2, <1>3, <1>4, StoreFiles
<1>6. Spares({p})
  BY <1>5, SparedFiles
<1>7. CanWrite(fs, p) /\ ~ExternalIn(fs, p) => Map!Store(p, CurrentUser, t, n)
  BY <1>4, <1>5, MapStores
<1>8. ~CanWrite(fs, p) => UNCHANGED Files
  BY <1>5, SameFiles
<1>9. (Map!Writable(p) <=> CanWrite(fs, p)) /\ (External(p) <=> ExternalIn(fs, p))
  BY <1>4, MapLooks DEF External, ExternalIn
<1> QED
  BY <1>2, <1>5, <1>6, <1>7, <1>8, <1>9 DEF IfWritable

LEMMA CopiedFiles ==
  ASSUME Exact(fs), Placed(fs), NEW p \in Paths, NEW q \in Paths, Found(fs, p),
         NEW g, g = CopyInto(fs, p, q)
  PROVE  /\ Exact(g) /\ Placed(g)
         /\ CanWrite(fs, q) /\ ~ExternalIn(fs, q) =>
              FileIn(g, q)
                = Stored(OpenedIn(fs, q, CurrentUser), NodeAt(fs, p).data, NodeAt(fs, p).size)
         /\ \A r : r # q => FileIn(g, r) = FileIn(fs, r)
         /\ ~CanWrite(fs, q) => g = fs
<1>1. Good(fs) /\ fs \in FileSystem /\ Short(fs)
  BY DEF Exact, Good
<1>2. NodeAt(fs, p) \in Node /\ NodeAt(fs, p).size < InlineSize
  BY <1>1, FindIsLive DEF NodeAt, FileSystem, Short
<1>3. PICK d, n, h : d = NodeAt(fs, p).data /\ n = NodeAt(fs, p).size /\ h = Touch(fs, q)
  OBVIOUS
<1>4. d \in Texts \cup {Zeros} /\ n \in Nat /\ n < InlineSize
  BY <1>2, <1>3 DEF Node
<1>5. g = Write(h, q, d, n)
  BY <1>3 DEF CopyInto
<1>6. /\ Placed(g)
      /\ CanWrite(fs, q) /\ ~ExternalIn(fs, q) =>
           FileIn(g, q) = Stored(OpenedIn(fs, q, CurrentUser), d, n)
      /\ \A r : r # q => FileIn(g, r) = FileIn(fs, r)
      /\ ~CanWrite(fs, q) => g = fs
  BY <1>3, <1>4, <1>5, StoreFiles
<1>7. Exact(g)
  BY <1>1, CopyKeeps
<1> QED
  BY <1>3, <1>6, <1>7

LEMMA CopyMatches ==
  ASSUME Exact(fs), Placed(fs), NEW p \in UserPaths, NEW q \in UserPaths, CmdCp(p, q)
  PROVE  /\ Placed(fs')
         /\ IF External(p) \/ External(q)
            THEN Spares({q})
            ELSE IfWritable(q, Map!Copy(p, q, CurrentUser))
<1>1. p \in Paths /\ q \in Paths /\ Good(fs) /\ Found(fs, p) /\ ~IsDir(fs, p)
  BY DEF UserPaths, Exact, CmdCp
<1>2. fs' = CopyInto(fs, p, q)
  BY DEF CmdCp
<1>3. /\ Placed(fs')
      /\ CanWrite(fs, q) /\ ~ExternalIn(fs, q) =>
           FileIn(fs', q)
             = Stored(OpenedIn(fs, q, CurrentUser), NodeAt(fs, p).data, NodeAt(fs, p).size)
      /\ \A r : r # q => FileIn(fs', r) = FileIn(fs, r)
      /\ ~CanWrite(fs, q) => fs' = fs
  BY <1>1, <1>2, CopiedFiles
<1>4. Spares({q})
  BY <1>3, SparedFiles
<1>5. CanWrite(fs, q) /\ ~ExternalIn(fs, p) /\ ~ExternalIn(fs, q) => Map!Copy(p, q, CurrentUser)
  BY <1>1, <1>3, MapCopies
<1>6. ~CanWrite(fs, q) => UNCHANGED Files
  BY <1>3, SameFiles
<1>7. /\ Map!Writable(q) <=> CanWrite(fs, q)
      /\ External(p) <=> ExternalIn(fs, p)
      /\ External(q) <=> ExternalIn(fs, q)
  BY <1>1, MapLooks DEF External, ExternalIn
<1> QED
  BY <1>3, <1>4, <1>5, <1>6, <1>7 DEF IfWritable

LEMMA MoveMatches ==
  ASSUME Exact(fs), Placed(fs), NEW p \in UserPaths, NEW q \in UserPaths, CmdMv(p, q)
  PROVE  /\ Placed(fs')
         /\ IF \/ External(p) \/ External(q)
               \/ IsDir(fs, p) \/ p = q \/ ~Map!Writable(q)
            THEN Spares({p, q})
            ELSE Map!Move(p, q, CurrentUser)
<1>1. p \in Paths /\ q \in Paths /\ Good(fs) /\ Found(fs, p)
  BY DEF UserPaths, Exact, CmdMv
<1>2. PICK g : g = CopyInto(fs, p, q)
  OBVIOUS
<1>3. fs' = Free(g, p)
  BY <1>2 DEF CmdMv
<1>4. /\ Exact(g) /\ Placed(g)
      /\ CanWrite(fs, q) /\ ~ExternalIn(fs, q) =>
           FileIn(g, q)
             = Stored(OpenedIn(fs, q, CurrentUser), NodeAt(fs, p).data, NodeAt(fs, p).size)
      /\ \A r : r # q => FileIn(g, r) = FileIn(fs, r)
  BY <1>1, <1>2, CopiedFiles
<1>5. /\ Placed(fs')
      /\ FileIn(fs', p) = Nothing
      /\ \A r : r # p => FileIn(fs', r) = FileIn(g, r)
  <2>1. CASE Found(g, p)
    BY <1>3, <1>4, <2>1, FreeFiles DEF Exact
  <2>2. CASE ~Found(g, p)
    BY <1>3, <1>4, <2>2 DEF Free, FileIn
  <2> QED
    BY <2>1, <2>2
<1>6. Spares({p, q})
  BY <1>4, <1>5, SparedFiles
<1>7. ASSUME ~ExternalIn(fs, p), ~ExternalIn(fs, q), ~IsDir(fs, p), p # q, CanWrite(fs, q)
      PROVE  Map!Move(p, q, CurrentUser)
  BY <1>1, <1>4, <1>5, <1>7, MapMoves
<1>8. /\ Map!Writable(q) <=> CanWrite(fs, q)
      /\ External(p) <=> ExternalIn(fs, p)
      /\ External(q) <=> ExternalIn(fs, q)
  BY <1>1, MapLooks DEF External, ExternalIn
<1> QED
  BY <1>5, <1>6, <1>7, <1>8

LEMMA ExtractMatches ==
  ASSUME Inv, Exact(fs), Placed(fs), ExtractEntry
  PROVE  Placed(fs') /\ ExtractsItsEntry
<1>1. archive \in Seq(Entry) /\ pos \in 1 .. Len(archive)
  BY ArchivesAssumption DEF Inv, ExtractEntry, Booted
<1>2. PICK e, p : e = archive[pos] /\ p = e.path
  OBVIOUS
<1>3. e \in Entry
  BY <1>1, <1>2
<1>4. p \in Paths /\ e.size \in Nat /\ Good(fs)
  BY <1>2, <1>3 DEF Entry, Exact
<1>5. fs' = IF IsFileEntry(e) THEN ExtractRegular(fs, e)
            ELSE IF IsDirEntry(e) THEN ExtractDirectory(fs, e)
            ELSE fs
  BY <1>2 DEF ExtractEntry
<1>6. (Map!Writable(p) <=> CanWrite(fs, p)) /\ (Map!HasRoom <=> Vacant(fs) # {})
  BY <1>4, MapLooks, MapHasRoom
<1>7. ASSUME IsFileEntry(e)
      PROVE  /\ Placed(fs')
             /\ IF IsDir(fs, p)
                THEN Spares({p})
                ELSE IfWritable(p, Map!Store(p, "root", e.data, e.size))
  <2>1. fs' = ExtractRegular(fs, e)
    BY <1>5, <1>7
  <2>2. /\ Placed(fs')
        /\ Found(fs, p) \/ Vacant(fs) # {} =>
             FileIn(fs', p) = Stored(OpenedIn(fs, p, "root"), e.data, e.size)
        /\ \A q : q # p => FileIn(fs', q) = FileIn(fs, q)
        /\ ~(Found(fs, p) \/ Vacant(fs) # {}) => fs' = fs
    BY <1>2, <1>3, <2>1, ProvideFiles
  <2>3. Spares({p})
    BY <2>2, SparedFiles
  <2>4. CanWrite(fs, p) => Map!Store(p, "root", e.data, e.size)
    BY <1>4, <2>2, MapStores DEF CanWrite
  <2>5. ~CanWrite(fs, p) /\ ~IsDir(fs, p) => UNCHANGED Files
    BY <2>2, SameFiles DEF CanWrite
  <2> QED
    BY <1>6, <2>2, <2>3, <2>4, <2>5 DEF IfWritable
<1>8. ASSUME ~IsFileEntry(e), IsDirEntry(e)
      PROVE  /\ Placed(fs')
             /\ Spares({p})
             /\ IF ~Found(fs, p) /\ Map!HasRoom
                THEN Map!Create(p, TRUE, "root")
                ELSE UNCHANGED Files
  <2>1. fs' = IF Found(fs, p) THEN fs ELSE Alloc(fs, p, {"USED", "DIR"}, "root")
    BY <1>2, <1>5, <1>8 DEF ExtractDirectory
  <2>2. /\ {"USED", "DIR"} \in {{"USED"}, {"USED", "DIR"}} /\ "root" \in Users
        /\ "DIR" \in {"USED", "DIR"} /\ "USED" \in {"USED", "DIR"}
        /\ {"USED", "DIR"} \in SUBSET Flags
    BY DEF Users, Flags
  <2>3. CASE Found(fs, p) \/ Vacant(fs) = {}
    <3>1. fs' = fs
      BY <2>1, <2>3 DEF Alloc
    <3> QED
      BY <1>6, <2>3, <3>1, SameFiles
  <2>4. CASE ~Found(fs, p) /\ Vacant(fs) # {}
    <3>1. fs' = Alloc(fs, p, {"USED", "DIR"}, "root")
      BY <2>1, <2>4
    <3>2. Placed(fs') /\ Map!Create(p, TRUE, "root")
      BY <1>4, <2>2, <2>4, <3>1, CreateMatches
    <3>3. \A q : q # p => FileIn(fs', q) = FileIn(fs, q)
      BY <1>4, <2>2, <2>4, <3>1, AllocFiles
    <3>4. Spares({p})
      BY <3>3, SparedFiles
    <3> QED
      BY <1>6, <2>4, <3>2, <3>4
  <2> QED
    BY <2>3, <2>4
<1>9. ASSUME ~IsFileEntry(e), ~IsDirEntry(e) PROVE Placed(fs') /\ UNCHANGED Files
  BY <1>5, <1>9, SameFiles
<1>10. /\ IsFileEntry(e) => e.kind = "reg" /\ e.size # 0
       /\ e.kind = "dir" => ~IsFileEntry(e) /\ IsDirEntry(e)
       /\ e.kind = "reg" /\ e.size = 0 => ~IsFileEntry(e) /\ IsDirEntry(e)
       /\ e.kind = "other" => ~IsFileEntry(e) /\ ~IsDirEntry(e)
  BY <1>4 DEF IsFileEntry, IsDirEntry
<1>11. Placed(fs')
  BY <1>7, <1>8, <1>9
<1>12. /\ e.kind = "reg" /\ e.size = 0 => Spares({p})
       /\ e.kind = "dir" => IF ~Found(fs, p) /\ Map!HasRoom
                            THEN Map!Create(p, TRUE, "root")
                            ELSE UNCHANGED Files
       /\ e.kind = "other" => UNCHANGED Files
  BY <1>8, <1>9, <1>10
<1> QED
  BY <1>2, <1>7, <1>11, <1>12 DEF ExtractsItsEntry

LEMMA CommandMatches ==
  ASSUME Exact(fs), Placed(fs)
  PROVE  /\ DoesItsCommand
         /\ Command \/ Edit => Placed(fs')
<1>1. DoesItsCommand
  BY TouchMatches, RemoveMatches, StoreMatches, CopyMatches, MoveMatches DEF DoesItsCommand
<1>2. ASSUME Command \/ Edit PROVE Placed(fs')
  <2>1. (\E p \in UserPaths : CmdCd(p)) \/ CmdCdHome => Placed(fs')
    BY DEF CmdCd, CmdCdHome
  <2> QED
    BY <1>2, <2>1, TouchMatches, RemoveMatches, StoreMatches, CopyMatches, MoveMatches
       DEF Command, Edit
<1> QED
  BY <1>1, <1>2

LEMMA RootExistsFirst ==
  ASSUME Init
  PROVE  Placed(fs) /\ Map!Init
<1> DEFINE z == [nodes |-> [i \in Slots |-> ZeroNode], used |-> 0, total |-> 0]
<1>1. ZeroNode \in Node /\ ZeroNode.flags = {}
  BY DEF ZeroNode, NewNode, Node
<1>2. z \in FileSystem /\ Live(z) = {}
  BY <1>1 DEF FileSystem, Live
<1>3. Good(z) /\ Placed(z) /\ \A p : ~Found(z, p) /\ FileIn(z, p) = Nothing
  BY <1>2, FS_EmptySet DEF Good, UniqueIn, Placed, Found, At, FileIn
<1>4. Vacant(z) # {}
  <2>1. 0 \in Slots
    BY ConstantsAssumption DEF Slots
  <2>2. Vacant(z) = Slots
    BY <1>2 DEF Vacant
  <2> QED
    BY <2>1, <2>2
<1>5. fs = Alloc(z, Root, {"USED", "DIR"}, "root")
  BY DEF Init, Formatted
<1> HIDE DEF z
<1>6. /\ {"USED", "DIR"} \in SUBSET Flags /\ "USED" \in {"USED", "DIR"}
      /\ "root" \in Users /\ ("DIR" \in {"USED", "DIR"}) = TRUE
      /\ "EXTDATA" \notin {"USED", "DIR"}
  BY DEF Flags, Users
<1>7. /\ Placed(fs)
      /\ FileIn(fs, Root) = NewFile("DIR" \in {"USED", "DIR"}, "root")
      /\ \A q : q # Root => FileIn(fs, q) = FileIn(z, q)
  BY <1>3, <1>4, <1>5, <1>6, AllocFiles, ConstantsAssumption
<1>8. FileIn(fs, Root) = NewFile(TRUE, "root")
  BY <1>6, <1>7
<1>9. NewFile(TRUE, "root") = Map!New(TRUE, "root")
  BY DEF NewFile, Map!New
<1>10. PICK v : v = Map!New(TRUE, "root")
  OBVIOUS
<1>11. MapOf(fs) = [p \in Paths |-> IF p = <<>> THEN v ELSE [dir |-> "none"]]
  BY <1>3, <1>7, <1>8, <1>9, <1>10 DEF MapOf, Root, Nothing
<1> QED
  BY <1>7, <1>10, <1>11, FilesAreTheMap DEF Map!Init

(* With an archive whose files leave room for the terminator, the table    *)
(* with its slots and scans is a map from paths to files: an entry of the  *)
(* archive, a command and a save are the map's operation of their name on  *)
(* their arguments, or nothing, and what they do with files that are in    *)
(* the archive's memory, with empty ones of it and with a mv that cannot   *)
(* write stays with the paths they name.                                   *)
THEOREM ShellImplementsMap == Spec /\ Fitting(archive) => ImplementsFileMap
<1> DEFINE Whole == Inv /\ Exact(fs) /\ Placed(fs) /\ Fitting(archive)
<1>1. Init /\ Fitting(archive) => Whole /\ Map!Init
  BY InitInv, RootExistsFirst
<1>2. Whole /\ [Next]_vars => Whole' /\ [ExtractsItsEntry /\ DoesItsCommand]_vars
  <2> SUFFICES ASSUME Inv, Exact(fs), Placed(fs), Fitting(archive), [Next]_vars
               PROVE  Whole' /\ [ExtractsItsEntry /\ DoesItsCommand]_vars
    OBVIOUS
  <2>1. ExtractsItsEntry /\ DoesItsCommand
    BY ExtractMatches, CommandMatches DEF ExtractsItsEntry
  <2>2. Inv' /\ Exact(fs)'
    BY NextInv
  <2>3. Fitting(archive)'
    BY ArchiveStays DEF Fitting
  <2>4. Placed(fs')
    <3>1. UNCHANGED vars => Placed(fs')
      BY DEF vars
    <3> QED
      BY <3>1, ExtractMatches, CommandMatches DEF Next
  <2>5. Placed(fs)'
    BY <2>4 DEF Placed, Live
  <2> QED
    BY <2>1, <2>2, <2>3, <2>5
<1> QED
  BY <1>1, <1>2, PTL DEF Spec, ImplementsFileMap

-----------------------------------------------------------------------------
(* The sum of the sizes of a set of slots, which loses one size with each  *)
(* slot that is taken out.                                                 *)
Sums(T, sz) ==
  /\ T \in [SUBSET Slots -> Nat]
  /\ T[{}] = 0
  /\ \A s \in SUBSET Slots : \A x \in s : T[s] = sz[x] + T[s \ {x}]

(* The same of the slots below n.                                          *)
SlotsBelow(n) == {i \in Slots : i < n}
SumsBelow(T, sz, n) ==
  /\ T \in [SUBSET SlotsBelow(n) -> Nat]
  /\ T[{}] = 0
  /\ \A s \in SUBSET SlotsBelow(n) : \A x \in s : T[s] = sz[x] + T[s \ {x}]

(* g adds the sizes of S up, one after the other in some order.            *)
AddsUp(g, S, sz) ==
  /\ g[{}] = 0
  /\ \A s \in SUBSET S : s # {} => \E x \in s : g[s] = sz[x] + g[s \ {x}]

(* Slots are added one at a time.                                          *)
LEMMA SumsExist ==
  ASSUME NEW sz \in [Slots -> Nat]
  PROVE  \E T : Sums(T, sz)
<1> DEFINE G == {n \in 0 .. MaxNodes : \E T : SumsBelow(T, sz, n)}
<1> HIDE DEF G
<1>0. MaxNodes \in Nat /\ Slots = 0 .. MaxNodes - 1
  BY ConstantsAssumption DEF Slots
<1>1. 0 \in G
  <2>1. SlotsBelow(0) = {}
    BY <1>0 DEF SlotsBelow
  <2> DEFINE T == [s \in SUBSET SlotsBelow(0) |-> 0]
  <2>2. SumsBelow(T, sz, 0)
    BY <2>1 DEF SumsBelow
  <2> HIDE DEF T
  <2> QED
    BY <1>0, <2>2 DEF G
<1>2. ASSUME NEW n \in 1 .. MaxNodes, n - 1 \in G PROVE n \in G
  <2>1. PICK m \in Slots : m = n - 1 /\ m \in Nat
    BY <1>0
  <2>2. PICK T : SumsBelow(T, sz, m)
    BY <1>2, <2>1 DEF G
  <2>3. SlotsBelow(n) = SlotsBelow(m) \cup {m} /\ m \notin SlotsBelow(m) /\ SlotsBelow(n) \subseteq Slots
    BY <1>0, <2>1 DEF SlotsBelow
  <2>4. PICK V : V = SlotsBelow(m)
    OBVIOUS
  <2>5. PICK W : W = SlotsBelow(n)
    OBVIOUS
  <2>6. /\ T \in [SUBSET V -> Nat] /\ T[{}] = 0
        /\ \A s \in SUBSET V : \A x \in s : T[s] = sz[x] + T[s \ {x}]
    BY <2>2, <2>4 DEF SumsBelow
  <2>7. W = V \cup {m} /\ m \notin V /\ W \subseteq Slots
    BY <2>3, <2>4, <2>5
  <2> DEFINE U == [s \in SUBSET W |-> IF m \in s THEN sz[m] + T[s \ {m}] ELSE T[s]]
  <2>8. \A s \in SUBSET W : s \ {m} \in SUBSET V /\ (m \notin s => s \in SUBSET V)
    BY <2>7
  <2>9. U \in [SUBSET W -> Nat]
    <3>1. ASSUME NEW s \in SUBSET W PROVE U[s] \in Nat
      <4>1. T[s \ {m}] \in Nat /\ (m \notin s => T[s] \in Nat) /\ sz[m] \in Nat
        BY <2>1, <2>6, <2>8
      <4> QED
        BY <4>1
    <3> QED
      BY <3>1
  <2>10. U[{}] = 0
    BY <2>6
  <2>11. ASSUME NEW s \in SUBSET W, NEW x \in s
         PROVE  U[s] = sz[x] + U[s \ {x}]
    <3>1. s \ {x} \in SUBSET W /\ x \in Slots
      BY <2>7
    <3>2. CASE x = m
      BY <3>1, <3>2
    <3>3. CASE x # m /\ m \in s
      <4>1. PICK r \in SUBSET V : r = s \ {m} /\ x \in r /\ (s \ {x}) \ {m} = r \ {x}
        BY <2>8, <3>3
      <4>2. T[r] = sz[x] + T[r \ {x}]
        BY <2>6, <4>1
      <4>3. U[s] = sz[m] + T[r] /\ U[s \ {x}] = sz[m] + T[r \ {x}]
        BY <3>1, <3>3, <4>1
      <4>4. sz[m] \in Nat /\ sz[x] \in Nat /\ T[r \ {x}] \in Nat
        BY <2>1, <2>6, <3>1, <4>1
      <4> HIDE DEF U
      <4> QED
        BY <4>2, <4>3, <4>4
    <3>4. CASE m \notin s
      <4>1. s \in SUBSET V /\ m \notin s \ {x}
        BY <2>8, <3>4
      <4>2. U[s] = T[s] /\ U[s \ {x}] = T[s \ {x}]
        BY <3>1, <3>4, <4>1
      <4> QED
        BY <2>6, <4>1, <4>2
    <3> QED
      BY <3>2, <3>3, <3>4
  <2> HIDE DEF U
  <2>12. SumsBelow(U, sz, n)
    BY <2>5, <2>9, <2>10, <2>11 DEF SumsBelow
  <2> QED
    BY <1>0, <2>12 DEF G
<1>3. \A n \in 0 .. MaxNodes : n \in G
  BY <1>0, <1>1, <1>2, StepByStep
<1>4. PICK T : SumsBelow(T, sz, MaxNodes)
  BY <1>0, <1>3 DEF G
<1>5. SlotsBelow(MaxNodes) = Slots
  BY <1>0 DEF SlotsBelow
<1>6. Sums(T, sz)
  BY <1>4, <1>5 DEF Sums, SumsBelow
<1> QED
  BY <1>6

(* Whoever adds the sizes of S up, one after the other, gets the sum.      *)
LEMMA SumIs ==
  ASSUME NEW sz, NEW T, Sums(T, sz), NEW S \in SUBSET Slots, NEW g,
         AddsUp(g, S, sz)
  PROVE  g[S] = T[S]
<1> DEFINE Bad == {s \in SUBSET S : g[s] # T[s]}
           Counts == {Cardinality(s) : s \in Bad}
<1>1. SUFFICES ASSUME Bad # {} PROVE FALSE
  OBVIOUS
<1>2. \A s \in SUBSET S : IsFiniteSet(s) /\ Cardinality(s) \in Nat
  <2>1. IsFiniteSet(Slots)
    BY ConstantsAssumption, FS_Interval DEF Slots
  <2> QED
    BY <2>1, FS_Subset, FS_CardinalityType
<1>3. PICK n \in Counts : \A m \in Counts : n <= m
  <2>1. Counts \subseteq Nat /\ Counts # {}
    BY <1>1, <1>2
  <2> HIDE DEF Counts
  <2> QED
    BY <2>1, LeastExists
<1>4. PICK s \in SUBSET S : g[s] # T[s] /\ n = Cardinality(s)
  BY <1>3
<1>5. s # {}
  BY <1>4 DEF Sums, AddsUp
<1>6. PICK x \in s : g[s] = sz[x] + g[s \ {x}]
  BY <1>5 DEF AddsUp
<1>7. Cardinality(s \ {x}) = Cardinality(s) - 1
  BY <1>2, FS_RemoveElement
<1>8. s \ {x} \notin Bad
  <2>1. s \ {x} \in SUBSET S /\ Cardinality(s \ {x}) \in Nat /\ Cardinality(s) \in Nat
    BY <1>2
  <2>2. s \ {x} \in Bad => Cardinality(s) <= Cardinality(s \ {x})
    BY <1>3, <1>4
  <2> QED
    BY <1>7, <2>1, <2>2
<1>9. g[s \ {x}] = T[s \ {x}]
  BY <1>8
<1>10. T[s] = sz[x] + T[s \ {x}]
  <2>1. s \in SUBSET Slots
    OBVIOUS
  <2> QED
    BY <2>1 DEF Sums
<1> QED
  BY <1>4, <1>6, <1>9, <1>10

(* Two sums agree where the sizes do.                                      *)
LEMMA SumsAgree ==
  ASSUME NEW sz, NEW T, Sums(T, sz), NEW tz, NEW U, Sums(U, tz),
         NEW S \in SUBSET Slots, \A i \in S : sz[i] = tz[i]
  PROVE  U[S] = T[S]
<1>1. AddsUp(U, S, sz)
  <2> SUFFICES ASSUME NEW s \in SUBSET S, s # {} PROVE \E x \in s : U[s] = sz[x] + U[s \ {x}]
    BY DEF Sums, AddsUp
  <2>1. PICK x \in s : TRUE
    OBVIOUS
  <2>2. s \in SUBSET Slots /\ sz[x] = tz[x]
    OBVIOUS
  <2>3. U[s] = tz[x] + U[s \ {x}]
    BY <2>2 DEF Sums
  <2> QED
    BY <2>2, <2>3
<1> QED
  BY <1>1, SumIs

SizesOf(f) == [i \in Slots |-> f.nodes[i].size]

Summed(f) == \E T : Sums(T, SizesOf(f)) /\ f.total = T[Live(f)]

LEMMA SizesAre ==
  ASSUME NEW f \in FileSystem
  PROVE  /\ SizesOf(f) \in [Slots -> Nat] /\ f.total \in Nat /\ Live(f) \in SUBSET Slots
         /\ \A i \in Slots : SizesOf(f)[i] = f.nodes[i].size /\ f.nodes[i].size \in Nat
<1>1. \A i \in Slots : f.nodes[i] \in Node
  BY DEF FileSystem
<1> QED
  BY <1>1 DEF SizesOf, FileSystem, Node, Live

(* The sum of FsShell is this one.                                         *)
LEMMA SumOfSizes ==
  ASSUME Summed(fs), fs \in FileSystem
  PROVE  TotalIsSum
<1>1. PICK T : Sums(T, SizesOf(fs)) /\ fs.total = T[Live(fs)]
  BY DEF Summed
<1>2. PICK L \in SUBSET Slots : L = Live(fs)
  BY SizesAre
<1> DEFINE IsIter(g) == g = [s \in SUBSET L |-> IF s = {} THEN 0
                                ELSE fs.nodes[CHOOSE x \in s : TRUE].size + g[s \ {CHOOSE x \in s : TRUE}]]
<1>3. SizeSum = (CHOOSE g : IsIter(g))[L]
  BY <1>2 DEF SizeSum, MapThenSumSet, MapThenFoldSet
<1>4. IsIter([s \in SUBSET L |-> T[s]])
  <2> DEFINE h == [s \in SUBSET L |-> T[s]]
  <2>1. ASSUME NEW s \in SUBSET L, s # {}
        PROVE  h[s] = fs.nodes[CHOOSE x \in s : TRUE].size + h[s \ {CHOOSE x \in s : TRUE}]
    <3>1. PICK x \in s : x = CHOOSE y \in s : TRUE
      BY <2>1
    <3>2. s \in SUBSET Slots /\ s \ {x} \in SUBSET L /\ x \in Slots
      OBVIOUS
    <3>3. T[s] = SizesOf(fs)[x] + T[s \ {x}]
      BY <1>1, <3>2 DEF Sums
    <3> QED
      BY <3>1, <3>2, <3>3, SizesAre
  <2>2. h[{}] = 0
    BY <1>1 DEF Sums
  <2> QED
    BY <2>1, <2>2
<1>5. PICK g : IsIter(g) /\ g = CHOOSE h : IsIter(h)
  BY <1>4
<1>6. AddsUp(g, L, SizesOf(fs))
  <2>1. \A s \in SUBSET L :
          g[s] = IF s = {} THEN 0
                 ELSE fs.nodes[CHOOSE x \in s : TRUE].size + g[s \ {CHOOSE x \in s : TRUE}]
    BY <1>5
  <2>2. ASSUME NEW s \in SUBSET L, s # {}
        PROVE  \E x \in s : g[s] = SizesOf(fs)[x] + g[s \ {x}]
    <3>1. PICK x \in s : x = CHOOSE y \in s : TRUE
      BY <2>2
    <3>2. SizesOf(fs)[x] = fs.nodes[x].size
      BY SizesAre
    <3> QED
      BY <2>1, <2>2, <3>1, <3>2
  <2> QED
    BY <2>1, <2>2 DEF AddsUp
<1>7. g[L] = T[L]
  BY <1>1, <1>6, SumIs
<1> QED
  BY <1>1, <1>2, <1>3, <1>5, <1>7 DEF TotalIsSum

(* One live node gets another size, and the total the difference.          *)
LEMMA ResizedSummed ==
  ASSUME NEW f \in FileSystem, NEW g \in FileSystem, Summed(f), NEW i \in Live(f), Live(g) = Live(f),
         \A k \in Slots \ {i} : g.nodes[k].size = f.nodes[k].size,
         g.total = Less(f.total, f.nodes[i].size) + g.nodes[i].size
  PROVE  Summed(g)
<1>1. PICK T : Sums(T, SizesOf(f)) /\ f.total = T[Live(f)]
  BY DEF Summed
<1>2. PICK U : Sums(U, SizesOf(g))
  BY SizesAre, SumsExist
<1>3. PICK L \in SUBSET Slots : L = Live(f) /\ L = Live(g) /\ i \in L /\ L \ {i} \in SUBSET Slots
  BY SizesAre
<1>4. PICK sf \in Nat, sg \in Nat :
        sf = f.nodes[i].size /\ sg = g.nodes[i].size /\ SizesOf(f)[i] = sf /\ SizesOf(g)[i] = sg
  BY <1>3, SizesAre
<1>5. T[L] = sf + T[L \ {i}] /\ T[L \ {i}] \in Nat
  BY <1>1, <1>3, <1>4 DEF Sums
<1>6. U[L] = sg + U[L \ {i}]
  BY <1>2, <1>3, <1>4 DEF Sums
<1>7. U[L \ {i}] = T[L \ {i}]
  <2>1. \A k \in L \ {i} : SizesOf(f)[k] = SizesOf(g)[k]
    BY <1>3, SizesAre
  <2> QED
    BY <1>1, <1>2, <1>3, <2>1, SumsAgree
<1>8. g.total = Less(f.total, sf) + sg /\ f.total = T[L]
  BY <1>1, <1>3, <1>4
<1>9. g.total = U[L]
  BY <1>5, <1>6, <1>7, <1>8 DEF Less
<1> QED
  BY <1>2, <1>3, <1>9 DEF Summed

(* A slot comes to the live ones, or goes: what it held makes the sum.     *)
LEMMA JoinedSummed ==
  ASSUME NEW f \in FileSystem, NEW g \in FileSystem, Summed(f), NEW i \in Slots, i \notin Live(f),
         Live(g) = Live(f) \cup {i}, g.nodes[i].size = 0,
         \A k \in Slots \ {i} : g.nodes[k].size = f.nodes[k].size,
         g.total = f.total
  PROVE  Summed(g)
<1>1. PICK T : Sums(T, SizesOf(f)) /\ f.total = T[Live(f)]
  BY DEF Summed
<1>2. PICK U : Sums(U, SizesOf(g))
  BY SizesAre, SumsExist
<1>3. PICK L \in SUBSET Slots, M \in SUBSET Slots :
        L = Live(f) /\ M = Live(g) /\ i \in M /\ L = M \ {i}
  <2>1. Live(f) \in SUBSET Slots /\ Live(g) \in SUBSET Slots
    BY SizesAre
  <2>2. i \in Live(g) /\ Live(f) = Live(g) \ {i}
    OBVIOUS
  <2> QED
    BY <2>1, <2>2
<1>4. U[M] = 0 + U[L] /\ U[L] \in Nat
  <2>1. SizesOf(g)[i] = 0
    BY SizesAre
  <2>2. U[M] = SizesOf(g)[i] + U[M \ {i}] /\ U[M \ {i}] \in Nat
    BY <1>2, <1>3 DEF Sums
  <2> QED
    BY <1>3, <2>1, <2>2
<1>5. \A k \in L : SizesOf(f)[k] = SizesOf(g)[k]
  BY <1>3, SizesAre
<1>6. U[L] = T[L]
  BY <1>1, <1>2, <1>5, SumsAgree
<1> QED
  BY <1>1, <1>2, <1>3, <1>4, <1>6 DEF Summed

LEMMA LeftSummed ==
  ASSUME NEW f \in FileSystem, NEW g \in FileSystem, Summed(f), NEW i \in Live(f),
         Live(g) = Live(f) \ {i},
         \A k \in Slots \ {i} : g.nodes[k].size = f.nodes[k].size,
         g.total = Less(f.total, f.nodes[i].size)
  PROVE  Summed(g)
<1>1. PICK T : Sums(T, SizesOf(f)) /\ f.total = T[Live(f)]
  BY DEF Summed
<1>2. PICK U : Sums(U, SizesOf(g))
  BY SizesAre, SumsExist
<1>3. PICK L \in SUBSET Slots, M \in SUBSET Slots :
        L = Live(f) /\ M = Live(g) /\ i \in L /\ M = L \ {i}
  <2>1. Live(f) \in SUBSET Slots /\ Live(g) \in SUBSET Slots
    BY SizesAre
  <2>2. i \in Live(f) /\ Live(g) = Live(f) \ {i}
    OBVIOUS
  <2> QED
    BY <2>1, <2>2
<1>4. PICK sf \in Nat : sf = f.nodes[i].size /\ SizesOf(f)[i] = sf
  BY <1>3, SizesAre
<1>5. T[L] = sf + T[M] /\ T[M] \in Nat
  BY <1>1, <1>3, <1>4 DEF Sums
<1>6. \A k \in M : SizesOf(f)[k] = SizesOf(g)[k]
  BY <1>3, SizesAre
<1>7. U[M] = T[M]
  BY <1>1, <1>2, <1>6, SumsAgree
<1>8. g.total = Less(f.total, sf) /\ f.total = T[L]
  BY <1>1, <1>3, <1>4
<1>9. g.total = U[M]
  BY <1>5, <1>7, <1>8 DEF Less
<1> QED
  BY <1>2, <1>3, <1>9 DEF Summed

LEMMA AllocSummed ==
  ASSUME NEW f, Good(f), Summed(f), NEW p \in Paths, ~Found(f, p), NEW who \in Users,
         NEW fl \in SUBSET Flags, "USED" \in fl
  PROVE  Summed(Alloc(f, p, fl, who))
<1> DEFINE g == Alloc(f, p, fl, who)
<1>1. f \in FileSystem /\ g \in FileSystem /\ f.nodes \in [Slots -> Node]
  BY AllocKeeps DEF Good, FileSystem
<1>2. CASE g = f
  BY <1>2
<1>3. CASE g # f
  <2>1. PICK i \in Vacant(f) :
          /\ g = [nodes |-> [f.nodes EXCEPT ![i] = NewNode(p, fl, who)],
                  used  |-> f.used + 1,
                  total |-> f.total]
          /\ Live(g) = Live(f) \cup {i}
    BY <1>1, <1>3, AllocEffect
  <2> HIDE DEF g
  <2>2. i \in Slots /\ i \notin Live(f)
    BY DEF Vacant
  <2>3. /\ g.nodes[i].size = 0 /\ g.total = f.total
        /\ \A k \in Slots \ {i} : g.nodes[k].size = f.nodes[k].size
    BY <1>1, <2>1, <2>2 DEF NewNode
  <2>4. Summed(g)
    BY <1>1, <2>1, <2>2, <2>3, JoinedSummed
  <2> QED
    BY <2>4 DEF g
<1> QED
  BY <1>2, <1>3

LEMMA FreeSummed ==
  ASSUME NEW f, Good(f), Summed(f), NEW p
  PROVE  Summed(Free(f, p))
<1> SUFFICES ASSUME Found(f, p) PROVE Summed(Free(f, p))
  BY DEF Free
<1>1. PICK g \in FileSystem : g = Free(f, p)
  BY FreeKeeps DEF Good
<1>2. PICK i \in Live(f) : i = Find(f, p) /\ i \in Slots
  BY FindIsLive DEF Good
<1>3. f \in FileSystem /\ f.nodes \in [Slots -> Node]
  BY DEF Good, FileSystem
<1>4. g.nodes = [f.nodes EXCEPT ![i] = ZeroNode] /\ Live(g) = Live(f) \ {i}
  BY <1>1, <1>2, <1>3, FreeNodes
<1>5. g.total = Less(f.total, f.nodes[i].size)
  BY <1>1, <1>2 DEF Free, NodeAt
<1>6. \A k \in Slots \ {i} : g.nodes[k].size = f.nodes[k].size
  BY <1>3, <1>4
<1>7. Summed(g)
  BY <1>3, <1>4, <1>5, <1>6, LeftSummed
<1> QED
  BY <1>1, <1>7

LEMMA WriteSummed ==
  ASSUME NEW f, Good(f), Summed(f), NEW p, NEW d \in Texts \cup {Zeros}, NEW len \in Nat, len < InlineSize
  PROVE  Summed(Write(f, p, d, len))
<1> SUFFICES ASSUME Found(f, p), ~IsDir(f, p) PROVE Summed(Write(f, p, d, len))
  BY DEF Write
<1>1. PICK g \in FileSystem : g = Write(f, p, d, len)
  BY WriteKeeps DEF Good
<1>2. PICK i \in Live(f) : i = Find(f, p) /\ i \in Slots
  BY FindIsLive DEF Good
<1>3. f \in FileSystem
  BY DEF Good
<1>4. /\ g.nodes[i].flags = f.nodes[i].flags /\ g.nodes[i].size = len
      /\ \A k \in Slots \ {i} : g.nodes[k] = f.nodes[k]
  BY <1>1, <1>2, <1>3, FittingWriteNodes
<1>5. Live(g) = Live(f)
  BY <1>4 DEF Live
<1>6. g.total = Less(f.total, f.nodes[i].size) + g.nodes[i].size
  <2>1. Clamp(len) = len
    BY ConstantsAssumption DEF Clamp
  <2> QED
    BY <1>1, <1>2, <1>4, <2>1 DEF Write
<1>7. Summed(g)
  BY <1>3, <1>4, <1>5, <1>6, ResizedSummed
<1> QED
  BY <1>1, <1>7

LEMMA TouchSummed ==
  ASSUME NEW f, Good(f), Summed(f), NEW p \in Paths
  PROVE  Summed(Touch(f, p))
BY AllocSummed DEF Touch, CurrentUser, Users, Flags

LEMMA CopySummed ==
  ASSUME NEW f, Exact(f), Summed(f), NEW p, NEW q \in Paths, Found(f, p)
  PROVE  Summed(CopyInto(f, p, q))
<1>1. Good(f) /\ Find(f, p) \in Slots /\ NodeAt(f, p) \in Node /\ NodeAt(f, p).size < InlineSize
  <2>1. Good(f) /\ f \in FileSystem /\ Find(f, p) \in Slots
    BY FindIsLive DEF Exact, Good
  <2> QED
    BY <2>1 DEF Exact, Short, NodeAt, FileSystem
<1>2. NodeAt(f, p).data \in Texts \cup {Zeros} /\ NodeAt(f, p).size \in Nat
  BY <1>1 DEF Node
<1>3. Good(Touch(f, q)) /\ Summed(Touch(f, q))
  BY <1>1, TouchKeeps, TouchSummed
<1> QED
  BY <1>1, <1>2, <1>3, WriteSummed DEF CopyInto

(* The archive walker adds the size of an entry to the total and takes     *)
(* nothing off, which is right while the node is empty.                    *)
LEMMA PointAtSummed ==
  ASSUME NEW f, Good(f), Summed(f), NEW p, NEW d \in Payloads \cup {NoData}, 
         NEW size \in Nat,
         \A k \in Live(f) : f.nodes[k].path = p => f.nodes[k].size = 0
  PROVE  Summed(PointAt(f, p, d, size))
<1> SUFFICES ASSUME Found(f, p) PROVE Summed(PointAt(f, p, d, size))
  BY DEF PointAt
<1>1. PICK g \in FileSystem : g = PointAt(f, p, d, size)
  BY PointAtKeeps DEF Good
<1>2. PICK i \in Live(f) : i = Find(f, p) /\ i \in Slots /\ f.nodes[i].path = p
  BY FindIsLive DEF Good
<1>3. f \in FileSystem /\ f.nodes \in [Slots -> Node] /\ f.total \in Nat
  BY DEF Good, FileSystem
<1>4. /\ g.nodes = [f.nodes EXCEPT ![i].ext = d, ![i].size = size]
      /\ g.total = f.total + size
  BY <1>1, <1>2, <1>3 DEF PointAt, FileSystem
<1>5. g.nodes[i].size = size /\ g.nodes[i].flags = f.nodes[i].flags
  BY <1>2, <1>3, <1>4 DEF Node
<1>6. \A k \in Slots \ {i} : g.nodes[k] = f.nodes[k]
  BY <1>3, <1>4
<1>7. Live(g) = Live(f)
  BY <1>5, <1>6 DEF Live
<1>8. g.total = Less(f.total, f.nodes[i].size) + g.nodes[i].size
  BY <1>2, <1>3, <1>4, <1>5 DEF Less
<1>9. Summed(g)
  BY <1>3, <1>6, <1>7, <1>8, ResizedSummed
<1> QED
  BY <1>1, <1>9

LEMMA FlagSummed ==
  ASSUME NEW f, Good(f), Summed(f), NEW p, Found(f, p), NEW g,
         g = [f EXCEPT !.nodes[Find(f, p)].flags = @ \cup {"EXTDATA"}]
  PROVE  Summed(g) /\ Live(g) = Live(f)
         /\ \A k \in Slots : g.nodes[k].path = f.nodes[k].path /\ g.nodes[k].size = f.nodes[k].size
<1>1. g \in FileSystem /\ f \in FileSystem
  BY FlagKeeps DEF Good
<1>2. f.nodes \in [Slots -> Node] /\ f.total = g.total
  BY <1>1 DEF FileSystem
<1>3. PICK i \in Slots : i = Find(f, p) /\ i \in Live(f)
  BY FindIsLive DEF Good
<1>4. g.nodes = [f.nodes EXCEPT ![i] = [f.nodes[i] EXCEPT !.flags = @ \cup {"EXTDATA"}]]
  BY <1>3 DEF Good, FileSystem
<1>5. PICK n : n = [f.nodes[i] EXCEPT !.flags = @ \cup {"EXTDATA"}]
  OBVIOUS
<1>6. /\ n.path = f.nodes[i].path /\ n.size = f.nodes[i].size
      /\ n.flags = f.nodes[i].flags \cup {"EXTDATA"}
  BY <1>2, <1>5 DEF Node
<1>7. g.nodes = [f.nodes EXCEPT ![i] = n]
  BY <1>4, <1>5
<1>8. /\ \A k \in Slots : g.nodes[k].path = f.nodes[k].path /\ g.nodes[k].size = f.nodes[k].size
      /\ Live(g) = Live(f)
  BY <1>2, <1>3, <1>6, <1>7 DEF Live
<1>9. SizesOf(g) = SizesOf(f)
  BY <1>8 DEF SizesOf
<1> QED
  BY <1>2, <1>8, <1>9 DEF Summed

(* What is at a path has no content yet.                                   *)
Empty(f, p) == \A i \in Live(f) : f.nodes[i].path = p => f.nodes[i].size = 0

LEMMA AllocEmpty ==
  ASSUME NEW f \in FileSystem, NEW p \in Paths, NEW who \in Users,
         NEW fl \in SUBSET Flags, "USED" \in fl, NEW q, Empty(f, q)
  PROVE  Empty(Alloc(f, p, fl, who), q)
<1> DEFINE g == Alloc(f, p, fl, who)
<1>1. CASE Vacant(f) = {}
  BY <1>1, AllocNodes DEF Alloc
<1>2. CASE Vacant(f) # {}
  <2>1. PICK i \in Vacant(f) :
          /\ g.nodes = [f.nodes EXCEPT ![i] = NewNode(p, fl, who)]
          /\ Live(g) = Live(f) \cup {i}
    BY <1>2, AllocNodes
  <2> HIDE DEF g
  <2>2. i \in Slots /\ f.nodes \in [Slots -> Node] /\ Live(f) \subseteq Slots /\ i \notin Live(f)
    BY DEF Vacant, FileSystem, Live
  <2>3. g.nodes[i].size = 0 /\ \A k \in Live(f) : g.nodes[k] = f.nodes[k]
    BY <2>1, <2>2 DEF NewNode
  <2>4. Empty(g, q)
    BY <2>1, <2>3 DEF Empty
  <2> QED
    BY <2>4 DEF g
<1> QED
  BY <1>1, <1>2

LEMMA PointAtEmpty ==
  ASSUME NEW f \in FileSystem, NEW p, NEW d \in Payloads \cup {NoData}, NEW size \in Nat,
         NEW q, q # p, Empty(f, q)
  PROVE  Empty(PointAt(f, p, d, size), q)
<1> SUFFICES ASSUME Found(f, p) PROVE Empty(PointAt(f, p, d, size), q)
  BY DEF PointAt
<1>1. PICK g : g = PointAt(f, p, d, size)
  OBVIOUS
<1>2. PICK i \in Live(f) : i = Find(f, p) /\ i \in Slots /\ f.nodes[i].path = p
  BY FindIsLive
<1>3. f.nodes \in [Slots -> Node]
  BY DEF FileSystem
<1>4. g.nodes = [f.nodes EXCEPT ![i].ext = d, ![i].size = size]
  BY <1>1, <1>2, <1>3 DEF PointAt, FileSystem
<1>5. g.nodes[i].path = p /\ \A k \in Slots \ {i} : g.nodes[k] = f.nodes[k]
  BY <1>2, <1>3, <1>4 DEF Node
<1>6. \A k \in Live(g) : k # i => k \in Live(f) /\ k \in Slots
  BY <1>5 DEF Live
<1>7. Empty(g, q)
  BY <1>5, <1>6 DEF Empty
<1> QED
  BY <1>1, <1>7

(* One archive entry: the sum follows, and what is empty stays empty unless*)
(* it is the entry's own.                                                  *)
LEMMA ExtractSummed ==
  ASSUME NEW f, Good(f), Summed(f), NEW e \in Entry
  PROVE  /\ Summed(ExtractDirectory(f, e))
         /\ Empty(f, e.path) => Summed(ExtractRegular(f, e))
         /\ \A q : Empty(f, q) => /\ Empty(ExtractDirectory(f, e), q)
                                  /\ q # e.path => Empty(ExtractRegular(f, e), q)
<1>1. /\ e.path \in Paths /\ e.size \in Nat /\ f \in FileSystem
      /\ e.data \in Payloads \cup {NoData}
  BY DEF Entry, Good
<1>2. Summed(ExtractDirectory(f, e))
  BY <1>1, AllocSummed DEF ExtractDirectory, Users, Flags
<1>3. \A q : Empty(f, q) => Empty(ExtractDirectory(f, e), q)
  BY <1>1, AllocEmpty DEF ExtractDirectory, Users, Flags
<1>4. PICK g : g = IF Found(f, e.path)
                   THEN [f EXCEPT !.nodes[Find(f, e.path)].flags = @ \cup {"EXTDATA"}]
                   ELSE Alloc(f, e.path, {"USED", "EXTDATA"}, "root")
  OBVIOUS
<1>5. ExtractRegular(f, e) = PointAt(g, e.path, e.data, e.size)
  BY <1>4 DEF ExtractRegular
<1>6. Good(g) /\ Summed(g) /\ \A q : Empty(f, q) => Empty(g, q)
  <2>1. CASE Found(f, e.path)
    <3>1. g = [f EXCEPT !.nodes[Find(f, e.path)].flags = @ \cup {"EXTDATA"}]
      BY <1>4, <2>1
    <3>2. Good(g)
      BY <2>1, <3>1, FlagKeeps
    <3>3. /\ Summed(g) /\ Live(g) = Live(f)
          /\ \A k \in Slots : g.nodes[k].path = f.nodes[k].path /\ g.nodes[k].size = f.nodes[k].size
      BY <2>1, <3>1, FlagSummed
    <3>4. \A q : Empty(f, q) => Empty(g, q)
      BY <3>3 DEF Empty, Live
    <3> QED
      BY <3>2, <3>3, <3>4
  <2>2. CASE ~Found(f, e.path)
    <3>1. g = Alloc(f, e.path, {"USED", "EXTDATA"}, "root")
      BY <1>4, <2>2
    <3>2. {"USED", "EXTDATA"} \in SUBSET Flags /\ "root" \in Users
      BY DEF Flags, Users
    <3>3. Good(g)
      BY <1>1, <2>2, <3>1, <3>2, AllocKeeps
    <3>4. Summed(g)
      BY <1>1, <2>2, <3>1, <3>2, AllocSummed
    <3>5. \A q : Empty(f, q) => Empty(g, q)
      BY <1>1, <3>1, <3>2, AllocEmpty
    <3> QED
      BY <3>3, <3>4, <3>5
  <2> QED
    BY <2>1, <2>2
<1>7. Empty(f, e.path) => Summed(ExtractRegular(f, e))
  <2> SUFFICES ASSUME Empty(f, e.path) PROVE Summed(ExtractRegular(f, e))
    OBVIOUS
  <2>1. \A k \in Live(g) : g.nodes[k].path = e.path => g.nodes[k].size = 0
    BY <1>6 DEF Empty
  <2> QED
    BY <1>1, <1>5, <1>6, <2>1, PointAtSummed
<1>8. \A q : Empty(f, q) /\ q # e.path => Empty(ExtractRegular(f, e), q)
  BY <1>1, <1>5, <1>6, PointAtEmpty DEF Good
<1> QED
  BY <1>2, <1>3, <1>7, <1>8

(* The files still to come are not in the table, or empty.                 *)
Awaited == \A k \in pos .. Len(archive) : IsFileEntry(archive[k]) => Empty(fs, archive[k].path)

SumInv == Inv /\ Exact(fs) /\ Summed(fs) /\ Awaited

LEMMA FormattedIsSummed == Summed(Formatted) /\ \A i \in Slots : Formatted.nodes[i].size = 0
<1> DEFINE z == [nodes |-> [i \in Slots |-> ZeroNode], used |-> 0, total |-> 0]
<1>1. ZeroNode \in Node /\ ZeroNode.flags = {} /\ ZeroNode.size = 0
  BY DEF ZeroNode, NewNode, Node
<1>2. z \in FileSystem
  BY <1>1 DEF FileSystem
<1>3. Live(z) = {} /\ z.total = 0 /\ \A i \in Slots : z.nodes[i].size = 0
  BY <1>1 DEF Live
<1>4. Summed(z)
  <2>1. PICK T : Sums(T, SizesOf(z))
    BY <1>2, SizesAre, SumsExist
  <2> QED
    BY <1>3, <2>1 DEF Summed, Sums
<1>5. Good(z) /\ ~Found(z, Root)
  <2>1. Cardinality(Live(z)) = 0
    BY <1>3, FS_EmptySet
  <2> QED
    BY <1>2, <1>3, <2>1 DEF Good, UniqueIn, Found, At
<1> HIDE DEF z
<1>6. Root \in Paths /\ {"USED", "DIR"} \in SUBSET Flags /\ "root" \in Users
  BY ConstantsAssumption DEF Flags, Users
<1>7. Formatted = Alloc(z, Root, {"USED", "DIR"}, "root")
  BY DEF Formatted, z
<1>8. Summed(Formatted)
  BY <1>4, <1>5, <1>6, <1>7, AllocSummed
<1>9. \A i \in Slots : Formatted.nodes[i].size = 0
  <2>1. CASE Vacant(z) = {}
    BY <1>3, <1>7, <2>1 DEF Alloc
  <2>2. CASE Vacant(z) # {}
    <3>1. PICK i \in Vacant(z) : Formatted.nodes = [z.nodes EXCEPT ![i] = NewNode(Root, {"USED", "DIR"}, "root")]
      BY <1>2, <1>6, <1>7, <2>2, AllocNodes
    <3>2. z.nodes \in [Slots -> Node]
      BY <1>2 DEF FileSystem
    <3> QED
      BY <1>3, <3>1, <3>2 DEF NewNode
  <2> QED
    BY <2>1, <2>2
<1> QED
  BY <1>8, <1>9

LEMMA InitSums == Init => SumInv
<1> SUFFICES ASSUME Init PROVE SumInv
  OBVIOUS
<1>1. Inv /\ Exact(fs)
  BY InitInv
<1>2. Summed(fs) /\ \A i \in Live(fs) : fs.nodes[i].size = 0
  BY FormattedIsSummed DEF Init, Live
<1> QED
  BY <1>1, <1>2 DEF SumInv, Awaited, Empty

LEMMA ExtractSums ==
  ASSUME SumInv, NamedOnce(archive), ExtractEntry
  PROVE  Summed(fs') /\ Awaited'
<1>1. archive \in Seq(Entry) /\ Len(archive) \in Nat /\ Good(fs)
  BY ArchivesAssumption DEF SumInv, Inv
<1>2. pos \in 1 .. Len(archive)
  BY <1>1 DEF SumInv, Inv, ExtractEntry, Booted
<1>3. PICK e \in Entry : e = archive[pos]
  BY <1>1, <1>2
<1>4. /\ fs' = IF IsFileEntry(e) THEN ExtractRegular(fs, e)
               ELSE IF IsDirEntry(e) THEN ExtractDirectory(fs, e)
               ELSE fs
      /\ pos' = pos + 1 /\ archive' = archive
  BY <1>3 DEF ExtractEntry
<1>5. Summed(fs)
  BY DEF SumInv
<1>6. IsFileEntry(e) => Empty(fs, e.path)
  BY <1>1, <1>2, <1>3 DEF SumInv, Awaited
<1>7. Summed(fs')
  BY <1>1, <1>4, <1>5, <1>6, ExtractSummed
<1>8. ASSUME NEW k \in pos + 1 .. Len(archive), IsFileEntry(archive[k])
      PROVE  Empty(fs', archive[k].path)
  <2>1. PICK q : q = archive[k].path
    OBVIOUS
  <2>2. k \in pos .. Len(archive) /\ k \in DOMAIN archive /\ pos \in DOMAIN archive /\ k # pos
    BY <1>1, <1>2
  <2>3. Empty(fs, q)
    BY <1>8, <2>1, <2>2 DEF SumInv, Awaited
  <2>4. IsFileEntry(e) => q # e.path
    BY <1>3, <1>8, <2>1, <2>2 DEF NamedOnce
  <2>5. Empty(fs', q)
    BY <1>1, <1>4, <1>5, <2>3, <2>4, ExtractSummed
  <2> QED
    BY <2>1, <2>5
<1>9. Awaited'
  BY <1>4, <1>8 DEF Awaited, Empty, Live
<1> QED
  BY <1>7, <1>9

LEMMA CommandSums ==
  ASSUME SumInv, Command
  PROVE  Summed(fs')
<1>1. Good(fs) /\ Exact(fs) /\ Summed(fs) /\ UserPaths \subseteq Paths
  BY DEF SumInv, Inv, UserPaths
<1>2. \A t \in Texts : TextLen[t] \in Nat /\ TextLen[t] < InlineSize
  BY ConstantsAssumption
<1>3. ASSUME NEW p \in UserPaths, CmdTouch(p) PROVE Summed(fs')
  BY <1>1, <1>3, TouchSummed DEF CmdTouch
<1>4. ASSUME NEW p \in UserPaths, CmdMkdir(p) PROVE Summed(fs')
  BY <1>1, <1>4, AllocSummed DEF CmdMkdir, CurrentUser, Users, Flags
<1>5. ASSUME NEW p \in UserPaths, CmdRm(p) \/ CmdRmdir(p) PROVE Summed(fs')
  BY <1>1, <1>5, FreeSummed DEF CmdRm, CmdRmdir
<1>6. ASSUME NEW p \in UserPaths, NEW t \in Texts, CmdWrite(p, t) PROVE Summed(fs')
  <2>1. Good(Touch(fs, p)) /\ Summed(Touch(fs, p))
    BY <1>1, TouchKeeps, TouchSummed
  <2> QED
    BY <1>2, <1>6, <2>1, WriteSummed DEF CmdWrite
<1>7. ASSUME NEW p \in UserPaths, NEW q \in UserPaths, CmdCp(p, q) PROVE Summed(fs')
  BY <1>1, <1>7, CopySummed DEF CmdCp
<1>8. ASSUME NEW p \in UserPaths, NEW q \in UserPaths, CmdMv(p, q) PROVE Summed(fs')
  <2>1. Good(CopyInto(fs, p, q)) /\ Summed(CopyInto(fs, p, q))
    BY <1>1, <1>8, CopyKeeps, CopySummed DEF CmdMv
  <2> QED
    BY <1>8, <2>1, FreeSummed DEF CmdMv
<1>9. (\E p \in UserPaths : CmdCd(p)) \/ CmdCdHome => Summed(fs')
  BY <1>1 DEF CmdCd, CmdCdHome
<1> QED
  BY <1>3, <1>4, <1>5, <1>6, <1>7, <1>8, <1>9 DEF Command

LEMMA StepSums ==
  ASSUME SumInv, Fitting(archive), NamedOnce(archive), [ExtractEntry \/ Command]_vars
  PROVE  SumInv' /\ archive' = archive
<1>1. Inv' /\ Exact(fs)' /\ archive' = archive
  BY NextInv, ArchiveStays DEF SumInv, Next, vars
<1>2. CASE ExtractEntry
  BY <1>1, <1>2, ExtractSums DEF SumInv, Summed, Live, SizesOf
<1>3. CASE Command
  <2>1. Summed(fs')
    BY <1>3, CommandSums
  <2>2. pos' = pos /\ pos > Len(archive) /\ Len(archive) \in Nat /\ pos \in Nat
    BY <1>3, ArchivesAssumption DEF Command, Booted, SumInv, Inv
  <2>3. pos' .. Len(archive') = {}
    BY <1>1, <2>2
  <2>4. Awaited'
    BY <2>3 DEF Awaited
  <2> QED
    BY <1>1, <2>1, <2>4 DEF SumInv, Summed, Live, SizesOf
<1>4. CASE UNCHANGED vars
  <2>1. fs' = fs /\ pos' = pos
    BY <1>4 DEF vars
  <2>2. Summed(fs)'
    BY <2>1 DEF SumInv, Summed, Live, SizesOf
  <2>3. Awaited'
    BY <1>1, <2>1 DEF SumInv, Awaited, Empty
  <2> QED
    BY <1>1, <2>2, <2>3 DEF SumInv
<1> QED
  BY <1>2, <1>3, <1>4

(* total_bytes is the sum of the sizes of the live nodes, as kernel_utils.h*)
(* says, through boot and every session in which the editor is not used:   *)
(* for archives that name a file once and leave room for the terminator.   *)
THEOREM TotalIsExact ==
  NoEditSpec /\ Fitting(archive) /\ NamedOnce(archive) => []TotalIsSum
<1> DEFINE Tidy == SumInv /\ Fitting(archive) /\ NamedOnce(archive)
<1>1. Init /\ Fitting(archive) /\ NamedOnce(archive) => Tidy
  BY InitSums
<1>2. Tidy /\ [ExtractEntry \/ Command]_vars => Tidy'
  BY StepSums DEF Fitting, NamedOnce
<1>3. Tidy => TotalIsSum
  BY SumOfSizes DEF SumInv, Inv, Good
<1> HIDE DEF Tidy
<1> QED
  BY <1>1, <1>2, <1>3, PTL DEF NoEditSpec
=============================================================================
