---------------------------- MODULE NetworkProofs ----------------------------
(***************************************************************************)
(* Proofs about Ping and VirtioNet, the two ways of a frame.               *)
(*                                                                         *)
(* Ping, for rings of every size, every set of hosts and any number of     *)
(* pings and frames.  The driver and the card never see more of each other *)
(* than their indices, which wrap; the invariant says of each index which  *)
(* counter of the histories it is the remainder of, and of each buffer     *)
(* which frame is in it.                                                   *)
(*                                                                         *)
(* VirtioNet, for queues of every length that the device and the driver    *)
(* agree on ("must match device's queue size", virtio.h:93) and for every  *)
(* width of the indices.  The invariant of a queue gives each descriptor   *)
(* its place, and says that the free list, the available ring and the used *)
(* ring each hold the descriptors of one place once.  Counters that never  *)
(* wrap stand for the four indices.  Each vq_ helper and each step of the  *)
(* device moves one descriptor from one place to another, which is one     *)
(* lemma each.                                                             *)
(***************************************************************************)
EXTENDS Ping, VirtioNet, Basics, FiniteSetTheorems

(* The rings, by their types.                                              *)
TxRing == [buf : [Ring -> Nat \cup {NoFrame}], cur : Ring, tail : Ring, head : Ring]

Frames == {Reply(h) : h \in Hosts} \cup {Other, Oversize}

RxRing == [buf  : [Ring -> Frames \cup {NoFrame}],
           done : [Ring -> BOOLEAN],
           next : Ring, tail : Ring, head : Ring]

LEMMA RingHasZero == NumDesc \in Nat \ {0} /\ 0 \in Ring /\ NumDesc - 1 \in Ring
BY E1000Assumption DEF Ring

(* An index that is the remainder of a counter moves with it.              *)
LEMMA AfterRemainder ==
  ASSUME NEW a \in Nat
  PROVE  After(a % NumDesc) = (a + 1) % NumDesc /\ a % NumDesc \in Ring
<1>1. NumDesc \in Nat \ {0}
  BY RingHasZero
<1>2. a % NumDesc \in 0 .. NumDesc - 1
  BY <1>1, RemainderType
<1>3. ((a % NumDesc) + 1) % NumDesc = (a + 1) % NumDesc
  BY <1>1, NextRemainder
<1> QED
  BY <1>2, <1>3 DEF After, Ring

-----------------------------------------------------------------------------
(* Sending.  How many requests are in the ring's memory, and how many the  *)
(* card was told of.                                                       *)
FilledBy == IF pc = "fill" THEN Len(sent) - 1 ELSE Len(sent)
Pushed == IF pc \in {"fill", "push"} THEN Len(sent) - 1 ELSE Len(sent)

(* The last NumDesc requests are in the ring, each in the slot its number  *)
(* leads to.                                                               *)
TxHolds ==
  \A k \in Nat : k < FilledBy /\ FilledBy <= k + NumDesc => tx.buf[k % NumDesc] = k + 1

(* The distances on the wire are those of the calls or whole rounds longer.*)
WireInv ==
  /\ \A j \in 1 .. Len(wire) :
       j <= wire[j] /\ wire[j] <= Pushed /\ wire[j] % NumDesc = j % NumDesc
  /\ \A i, j \in 1 .. Len(wire) : i < j => j - i <= wire[j] - wire[i]

TxInv ==
  /\ tx \in TxRing
  /\ sent \in Seq(Hosts)
  /\ wire \in Seq(Nat)
  /\ pc \in {"fill", "push"} => sent # <<>>
  /\ tx.cur = Pushed % NumDesc
  /\ tx.tail = tx.cur
  /\ tx.head = Len(wire) % NumDesc
  /\ Len(wire) <= Pushed
  /\ TxHolds
  /\ WireInv

LEMMA PushedType ==
  ASSUME TxInv
  PROVE  /\ Len(sent) \in Nat /\ Len(wire) \in Nat
         /\ Pushed \in Nat /\ FilledBy \in Nat
         /\ Pushed <= FilledBy /\ FilledBy <= Len(sent) /\ FilledBy <= Pushed + 1
BY DEF TxInv, Pushed, FilledBy

LEMMA TxInit0 == PingInit => TxInv
<1> SUFFICES ASSUME PingInit PROVE TxInv
  OBVIOUS
<1>1. tx \in TxRing /\ tx.cur = 0 /\ tx.tail = 0 /\ tx.head = 0
  BY RingHasZero DEF PingInit, TxInit, TxRing
<1>2. Pushed = 0 /\ FilledBy = 0 /\ Len(wire) = 0 /\ Len(sent) = 0 /\ 0 % NumDesc = 0
  BY RingHasZero DEF PingInit, Pushed, FilledBy
<1> QED
  BY <1>1, <1>2 DEF PingInit, TxInv, TxHolds, WireInv

LEMMA TxStart ==
  ASSUME TxInv, NEW h \in Hosts, StartPing(h)
  PROVE  TxInv'
<1>1. /\ Len(sent) \in Nat /\ sent' \in Seq(Hosts) /\ Len(sent') = Len(sent) + 1
      /\ pc = "idle" /\ pc' = "fill" /\ tx' = tx /\ wire' = wire
  BY DEF StartPing, TxInv
<1>2. Pushed' = Pushed /\ FilledBy' = FilledBy
  BY <1>1 DEF Pushed, FilledBy
<1>3. sent' # <<>>
  BY <1>1
<1> QED
  BY <1>1, <1>2, <1>3 DEF TxInv, TxHolds, WireInv

LEMMA TxFill ==
  ASSUME TxInv, SendFill
  PROVE  TxInv'
<1>1. /\ pc = "fill" /\ pc' = "push" /\ wire' = wire /\ sent' = sent
      /\ tx' = Fill(tx, Len(sent)) /\ Len(sent) \in Nat /\ sent # <<>>
      /\ Len(sent) >= 1 /\ Len(wire) \in Nat
  BY DEF SendFill, TxInv
<1>2. Pushed' = Pushed /\ Pushed = Len(sent) - 1 /\ FilledBy = Len(sent) - 1 /\ FilledBy' = Len(sent)
  BY <1>1 DEF Pushed, FilledBy
<1>3. /\ tx'.buf = [tx.buf EXCEPT ![tx.cur] = Len(sent)]
      /\ tx'.cur = tx.cur /\ tx'.tail = tx.tail /\ tx'.head = tx.head
      /\ tx' \in TxRing
  BY <1>1 DEF Fill, TxInv, TxRing
<1>4. TxHolds'
  <2> SUFFICES ASSUME NEW k \in Nat, k < Len(sent), Len(sent) <= k + NumDesc
               PROVE  tx'.buf[k % NumDesc] = k + 1
    BY <1>2 DEF TxHolds
  <2>1. k % NumDesc \in Ring /\ tx.buf \in [Ring -> Nat \cup {NoFrame}] /\ tx.cur \in Ring
    BY AfterRemainder DEF TxInv, TxRing
  <2>2. CASE k = Len(sent) - 1
    <3>1. tx.cur = k % NumDesc
      BY <1>2, <2>2 DEF TxInv
    <3> QED
      BY <1>1, <1>3, <2>1, <2>2, <3>1
  <2>3. CASE k # Len(sent) - 1
    <3>1. k < Pushed /\ Pushed < k + NumDesc /\ Pushed \in Nat
      BY <1>1, <1>2, <2>3, RingHasZero
    <3>2. k % NumDesc # Pushed % NumDesc
      <4>1. k % NumDesc = Pushed % NumDesc => k + NumDesc <= Pushed
        BY <3>1, RingHasZero, RoundApart
      <4> QED
        BY <3>1, <4>1, RingHasZero
    <3>3. tx.buf[k % NumDesc] = k + 1
      <4>1. TxHolds /\ k < FilledBy /\ FilledBy <= k + NumDesc
        BY <1>1, <1>2, <2>3, RingHasZero, SMTT(30) DEF TxInv
      <4> QED
        BY <4>1 DEF TxHolds
    <3>4. k % NumDesc # tx.cur
      BY <3>2 DEF TxInv
    <3> QED
      BY <1>3, <2>1, <3>3, <3>4
  <2> QED
    BY <2>2, <2>3
<1> QED
  BY <1>1, <1>2, <1>3, <1>4 DEF TxInv, WireInv

LEMMA TxPush ==
  ASSUME TxInv, SendPush
  PROVE  TxInv'
<1>1. /\ pc = "push" /\ pc' = "sending" /\ wire' = wire /\ sent' = sent
      /\ tx' = PushTail(tx) /\ Len(sent) \in Nat /\ Len(sent) >= 1 /\ Len(wire) \in Nat
  BY DEF SendPush, TxInv
<1>2. Pushed \in Nat /\ Pushed' = Pushed + 1 /\ FilledBy' = FilledBy /\ Pushed = Len(sent) - 1
  BY <1>1 DEF Pushed, FilledBy
<1>3. After(tx.cur) = Pushed' % NumDesc /\ After(tx.cur) \in Ring
  BY <1>2, AfterRemainder DEF TxInv
<1>4. /\ tx'.buf = tx.buf /\ tx'.cur = After(tx.cur)
      /\ tx'.tail = After(tx.cur) /\ tx'.head = tx.head
      /\ tx' \in TxRing
  BY <1>1, <1>3 DEF PushTail, TxInv, TxRing
<1>5. WireInv'
  BY <1>1, <1>2 DEF TxInv, WireInv
<1> QED
  BY <1>1, <1>2, <1>3, <1>4, <1>5 DEF TxInv, TxHolds

(* The card's step: the slot at its head holds the last request that leads *)
(* there, which is later than all it has sent.                             *)
LEMMA TxTransmit ==
  ASSUME TxInv, Transmit
  PROVE  TxInv'
<1> DEFINE W == Len(wire)
<1>1. /\ tx.head # tx.tail /\ tx' = Transmitted(tx) /\ wire' = Append(wire, tx.buf[tx.head])
      /\ pc' = pc /\ sent' = sent
  BY DEF Transmit, CanTransmit, Outgoing, driverVars
<1>2. /\ Len(sent) \in Nat /\ W \in Nat /\ Pushed \in Nat /\ FilledBy \in Nat
      /\ Pushed <= FilledBy /\ FilledBy <= Pushed + 1 /\ NumDesc \in Nat \ {0}
      /\ Pushed' = Pushed /\ FilledBy' = FilledBy
  BY <1>1, PushedType, RingHasZero DEF Pushed, FilledBy
<1>3. W % NumDesc # Pushed % NumDesc /\ W < Pushed
  BY <1>1, <1>2 DEF TxInv
<1>4. PICK k \in Nat : W <= k /\ k < FilledBy /\ FilledBy <= k + NumDesc /\ k % NumDesc = W % NumDesc
  <2>1. W < FilledBy
    BY <1>2, <1>3
  <2> HIDE DEF W
  <2> QED
    BY <1>2, <2>1, LatestRound
<1>5. tx.buf[tx.head] = k + 1
  BY <1>4 DEF TxInv, TxHolds
<1>6. k # Pushed /\ k + 1 <= Pushed
  BY <1>2, <1>3, <1>4
<1>7. (k + 1) % NumDesc = (W + 1) % NumDesc
  BY <1>2, <1>4, NextRemainder
<1>8. /\ wire' \in Seq(Nat) /\ Len(wire') = W + 1 /\ wire'[W + 1] = k + 1
      /\ \A j \in 1 .. W : wire'[j] = wire[j]
  BY <1>1, <1>2, <1>5 DEF TxInv
<1>9. ASSUME NEW i \in 1 .. W PROVE (W + 1) - i <= (k + 1) - wire[i]
  <2>1. /\ wire[W] \in Nat /\ wire[i] \in Nat /\ W \in 1 .. W
        /\ wire[W] <= Pushed /\ wire[W] % NumDesc = W % NumDesc
    BY <1>2, SMTT(30) DEF TxInv, WireInv
  <2>2. wire[W] <= k
    <3>1. SUFFICES ASSUME k < wire[W] PROVE FALSE
      BY <2>1
    <3>2. k + NumDesc <= wire[W]
      BY <1>2, <1>4, <2>1, <3>1, RoundApart
    <3>3. wire[W] = Pushed
      BY <1>2, <1>4, <2>1, <3>2
    <3> QED
      BY <1>3, <2>1, <3>3
  <2>3. W - i <= wire[W] - wire[i]
    <3>1. CASE i = W
      BY <2>1, <3>1
    <3>2. CASE i # W
      BY <1>2, <2>1, <3>2 DEF TxInv, WireInv
    <3> QED
      BY <3>1, <3>2
  <2> QED
    BY <1>2, <2>1, <2>2, <2>3, SMTT(30)
<1>10. WireInv'
  <2>1. ASSUME NEW j \in 1 .. W + 1
        PROVE  j <= wire'[j] /\ wire'[j] <= Pushed /\ wire'[j] % NumDesc = j % NumDesc
    <3>1. CASE j = W + 1
      BY <1>2, <1>4, <1>6, <1>7, <1>8, <3>1
    <3>2. CASE j \in 1 .. W
      BY <1>8, <3>2 DEF TxInv, WireInv
    <3> QED
      BY <1>2, <3>1, <3>2
  <2>2. ASSUME NEW i \in 1 .. W + 1, NEW j \in 1 .. W + 1, i < j
        PROVE  j - i <= wire'[j] - wire'[i]
    <3>1. i \in 1 .. W
      BY <1>2, <2>2
    <3>2. CASE j = W + 1
      BY <1>8, <1>9, <3>1, <3>2
    <3>3. CASE j \in 1 .. W
      BY <1>8, <2>2, <3>1, <3>3 DEF TxInv, WireInv
    <3> QED
      BY <1>2, <3>2, <3>3
  <2> QED
    BY <1>2, <1>8, <2>1, <2>2 DEF WireInv
<1>11. /\ tx'.buf = tx.buf /\ tx'.cur = tx.cur /\ tx'.tail = tx.tail
       /\ tx'.head = (W + 1) % NumDesc
       /\ tx' \in TxRing
  <2>1. After(W % NumDesc) = (W + 1) % NumDesc /\ (W + 1) % NumDesc \in Ring
    <3>1. W + 1 \in Nat
      BY <1>2
    <3> QED
      BY <1>2, <3>1, AfterRemainder
  <2>2. tx.head = W % NumDesc
    BY DEF TxInv
  <2> QED
    BY <1>1, <2>1, <2>2 DEF Transmitted, TxInv, TxRing
<1>12. TxHolds'
  BY <1>2, <1>11 DEF TxInv, TxHolds
<1>13. Len(wire)' <= Pushed'
  BY <1>2, <1>3, <1>8
<1> HIDE DEF W
<1>14. tx'.cur = Pushed' % NumDesc /\ tx'.tail = tx'.cur
  BY <1>2, <1>11 DEF TxInv
<1> QED
  BY <1>1, <1>8, <1>10, <1>11, <1>12, <1>13, <1>14 DEF TxInv

LEMMA TxNext == TxInv /\ [PingNext]_pingVars => TxInv'
<1> SUFFICES ASSUME TxInv, [PingNext]_pingVars PROVE TxInv'
  OBVIOUS
<1>1. ASSUME \/ WaitTxDone \/ Poll \/ RecvCopy \/ RecvClear \/ RecvGiveBack
             \/ Receive \/ UNCHANGED pingVars
      PROVE  TxInv'
  <2>1. /\ tx' = tx /\ sent' = sent /\ wire' = wire
        /\ pc' = pc \/ (pc \notin {"fill", "push"} /\ pc' \notin {"fill", "push"})
    BY <1>1 DEF WaitTxDone, Poll, RecvCopy, RecvClear, RecvGiveBack, Receive, pingVars, driverVars
  <2>2. Pushed' = Pushed /\ FilledBy' = FilledBy
    BY <2>1 DEF Pushed, FilledBy
  <2> QED
    BY <2>1, <2>2 DEF TxInv, TxHolds, WireInv
<1> QED
  BY <1>1, TxStart, TxFill, TxPush, TxTransmit DEF PingNext, Driver

(* The card never sends a frame twice, an old one or one out of order,     *)
(* however far the driver runs ahead of it; and until NumDesc frames wait, *)
(* none is left out.                                                       *)
THEOREM SendsInOrder == PingSpec => []WireKeepsTheOrder
<1>1. TxInv => WireKeepsTheOrder
  <2> SUFFICES ASSUME TxInv PROVE WireKeepsTheOrder
    OBVIOUS
  <2>1. /\ Len(sent) \in Nat /\ Len(wire) \in Nat /\ Pushed \in Nat /\ Pushed <= Len(sent)
        /\ \A j \in 1 .. Len(wire) : wire[j] \in Nat
        /\ NumDesc \in Nat \ {0}
    BY PushedType, RingHasZero DEF TxInv
  <2>2. ASSUME NEW i \in 1 .. Len(wire), NEW j \in 1 .. Len(wire), i < j
        PROVE  wire[i] < wire[j]
    <3>1. j - i <= wire[j] - wire[i]
      BY <2>2 DEF TxInv, WireInv
    <3> QED
      BY <2>1, <2>2, <3>1
  <2>3. ASSUME Len(sent) - Len(wire) < NumDesc, NEW i \in 1 .. Len(wire), wire[i] # i
        PROVE  FALSE
    <3>1. i < wire[i] /\ wire[i] % NumDesc = i % NumDesc
      BY <2>1, <2>3, SMTT(30) DEF TxInv, WireInv
    <3>2. i + NumDesc <= wire[i]
      BY <2>1, <3>1, RoundApart
    <3>3. Len(wire) \in 1 .. Len(wire) /\ wire[Len(wire)] <= Pushed
      BY <2>1 DEF TxInv, WireInv
    <3>4. Len(wire) - i <= wire[Len(wire)] - wire[i]
      <4>1. CASE i = Len(wire)
        BY <2>1, <4>1
      <4>2. CASE i # Len(wire)
        BY <2>1, <3>3, <4>2 DEF TxInv, WireInv
      <4> QED
        BY <4>1, <4>2
    <3> QED
      BY <2>1, <2>3, <3>2, <3>3, <3>4
  <2> QED
    BY <2>2, <2>3 DEF WireKeepsTheOrder
<1> QED
  BY <1>1, TxInit0, TxNext, PTL DEF PingSpec
-----------------------------------------------------------------------------
(* Receiving.  The frames between taken and Len(stored) are in the ring,   *)
(* and every other descriptor has its DD bit clear; while the driver is    *)
(* between its two fences, so has the one it is about to give back.        *)
Waiting ==
  \A k \in Nat : taken <= k /\ k < Len(stored) =>
    /\ rx.buf[k % NumDesc] = stored[k + 1]
    /\ rx.done[k % NumDesc] \/ (k = taken /\ pc = "give")

Emptied ==
  \A k \in Nat : Len(stored) <= k /\ k < taken + NumDesc => ~rx.done[k % NumDesc]

RxInv ==
  /\ rx \in RxRing
  /\ stored \in Seq(Frames)
  /\ taken \in Nat
  /\ taken <= Len(stored)
  /\ Len(stored) <= taken + (NumDesc - 1)
  /\ rx.next = taken % NumDesc
  /\ rx.tail = (taken + (NumDesc - 1)) % NumDesc
  /\ rx.head = Len(stored) % NumDesc
  /\ Waiting
  /\ Emptied
  /\ pc = "give" => ~rx.done[rx.next]
  /\ pc \in {"copy", "clear", "give"} => taken < Len(stored)

LEMMA RxInit0 == PingInit => RxInv
<1> SUFFICES ASSUME PingInit PROVE RxInv
  OBVIOUS
<1>1. /\ rx \in RxRing /\ rx.next = 0 /\ rx.tail = NumDesc - 1 /\ rx.head = 0
      /\ rx.done = [i \in Ring |-> FALSE]
  BY RingHasZero DEF PingInit, RxInit, RxRing
<1>2. taken = 0 /\ stored = <<>> /\ Len(stored) = 0 /\ pc = "idle"
  BY DEF PingInit
<1>3. 0 % NumDesc = 0 /\ (0 + (NumDesc - 1)) % NumDesc = NumDesc - 1 /\ 0 <= 0 + (NumDesc - 1)
  BY RingHasZero
<1>4. Emptied
  <2> SUFFICES ASSUME NEW k \in Nat PROVE ~rx.done[k % NumDesc]
    BY DEF Emptied
  <2>1. k % NumDesc \in Ring
    BY AfterRemainder
  <2> QED
    BY <1>1, <2>1
<1>5. Waiting
  BY <1>2 DEF Waiting
<1>6. stored \in Seq(Frames)
  BY <1>2
<1> QED
  BY <1>1, <1>2, <1>3, <1>4, <1>5, <1>6 DEF RxInv

LEMMA RxClear ==
  ASSUME RxInv, RecvClear
  PROVE  RxInv'
<1>1. /\ pc = "clear" /\ pc' = "give" /\ rx' = Clear(rx) /\ stored' = stored /\ taken' = taken
      /\ taken \in Nat /\ Len(stored) \in Nat /\ taken < Len(stored)
      /\ Len(stored) <= taken + (NumDesc - 1) /\ NumDesc \in Nat \ {0}
  BY RingHasZero DEF RecvClear, RxInv
<1>2. /\ rx'.done = [rx.done EXCEPT ![rx.next] = FALSE] /\ rx'.buf = rx.buf
      /\ rx'.next = rx.next /\ rx'.tail = rx.tail /\ rx'.head = rx.head
      /\ rx' \in RxRing
  BY <1>1 DEF Clear, RxInv, RxRing
<1>3. rx.next \in Ring /\ rx.done \in [Ring -> BOOLEAN] /\ rx.next = taken % NumDesc
  BY DEF RxInv, RxRing
<1>4. \A i \in Ring : rx'.done[i] <=> (i # rx.next /\ rx.done[i])
  BY <1>2, <1>3
<1>5. Waiting'
  <2> SUFFICES ASSUME NEW k \in Nat, taken <= k, k < Len(stored)
               PROVE  /\ rx'.buf[k % NumDesc] = stored[k + 1]
                      /\ rx'.done[k % NumDesc] \/ k = taken
    BY <1>1 DEF Waiting
  <2>1. /\ rx.buf[k % NumDesc] = stored[k + 1]
        /\ rx.done[k % NumDesc]
    BY <1>1 DEF RxInv, Waiting
  <2>2. k # taken => k % NumDesc # taken % NumDesc
    <3> SUFFICES ASSUME k # taken, k % NumDesc = taken % NumDesc PROVE FALSE
      OBVIOUS
    <3>1. taken < k
      BY <1>1
    <3>2. taken + NumDesc <= k
      BY <1>1, <3>1, RoundApart
    <3> QED
      BY <1>1, <3>2
  <2>3. k % NumDesc \in Ring
    BY AfterRemainder
  <2> QED
    BY <1>2, <1>3, <1>4, <2>1, <2>2, <2>3
<1>6. Emptied'
  <2> SUFFICES ASSUME NEW k \in Nat, Len(stored) <= k, k < taken + NumDesc
               PROVE  ~rx'.done[k % NumDesc]
    BY <1>1 DEF Emptied
  <2>1. ~rx.done[k % NumDesc] /\ k % NumDesc \in Ring
    BY AfterRemainder DEF RxInv, Emptied
  <2> QED
    BY <1>4, <2>1
<1>7. ~rx'.done[rx'.next]
  BY <1>2, <1>3, <1>4
<1> QED
  BY <1>1, <1>2, <1>5, <1>6, <1>7 DEF RxInv

LEMMA RxGiveBack ==
  ASSUME RxInv, RecvGiveBack
  PROVE  RxInv'
<1>1. /\ pc = "give" /\ pc' \in {"idle", "poll"} /\ rx' = GiveBack(rx)
      /\ stored' = stored /\ taken' = taken + 1
      /\ taken \in Nat /\ Len(stored) \in Nat /\ taken < Len(stored)
      /\ Len(stored) <= taken + (NumDesc - 1) /\ NumDesc \in Nat \ {0}
  BY RingHasZero DEF RecvGiveBack, RxInv
<1>2. After(rx.next) = (taken + 1) % NumDesc /\ After(rx.next) \in Ring /\ rx.next \in Ring
  <2>1. taken + 1 \in Nat
    BY <1>1
  <2> QED
    BY <1>1, <2>1, AfterRemainder DEF RxInv
<1>3. /\ rx'.done = rx.done /\ rx'.buf = rx.buf /\ rx'.head = rx.head
      /\ rx'.next = After(rx.next) /\ rx'.tail = rx.next
      /\ rx' \in RxRing
  BY <1>1, <1>2 DEF GiveBack, RxInv, RxRing
<1>4. rx.next = ((taken + 1) + (NumDesc - 1)) % NumDesc
  <2>1. (taken + NumDesc) % NumDesc = taken % NumDesc
    BY <1>1, RoundLater
  <2>2. (taken + 1) + (NumDesc - 1) = taken + NumDesc
    BY <1>1
  <2> QED
    BY <2>1, <2>2 DEF RxInv
<1>5. Waiting'
  <2> SUFFICES ASSUME NEW k \in Nat, taken + 1 <= k, k < Len(stored)
               PROVE  rx.buf[k % NumDesc] = stored[k + 1] /\ rx.done[k % NumDesc]
    BY <1>1, <1>3 DEF Waiting
  <2>1. taken <= k /\ k # taken
    BY <1>1
  <2> QED
    BY <2>1 DEF RxInv, Waiting
<1>6. Emptied'
  <2> SUFFICES ASSUME NEW k \in Nat, Len(stored) <= k, k < taken + 1 + NumDesc
               PROVE  ~rx.done[k % NumDesc]
    BY <1>1, <1>3 DEF Emptied
  <2>1. CASE k = taken + NumDesc
    <3>1. (taken + NumDesc) % NumDesc = taken % NumDesc
      BY <1>1, RoundLater
    <3> QED
      BY <1>1, <2>1, <3>1 DEF RxInv
  <2>2. CASE k # taken + NumDesc
    <3>1. k < taken + NumDesc
      BY <1>1, <2>2
    <3> QED
      BY <3>1 DEF RxInv, Emptied
  <2> QED
    BY <2>1, <2>2
<1>7. taken + 1 <= Len(stored) /\ Len(stored) <= (taken + 1) + (NumDesc - 1)
  BY <1>1
<1>8. stored \in Seq(Frames) /\ taken + 1 \in Nat /\ rx'.head = Len(stored) % NumDesc
  BY <1>1, <1>3 DEF RxInv
<1> QED
  BY <1>1, <1>2, <1>3, <1>4, <1>5, <1>6, <1>7, <1>8 DEF RxInv

(* The card's step.  Only what a host can answer comes in as a reply.      *)
LEMMA AnswersAreFrames == TxInv => Answers \cup {Other, Oversize} \subseteq Frames
<1> SUFFICES ASSUME TxInv, NEW i \in 1 .. Len(wire) PROVE sent[wire[i]] \in Hosts
  BY DEF Answers, Frames
<1>1. wire[i] \in Nat /\ i <= wire[i] /\ wire[i] <= Pushed /\ Pushed <= Len(sent)
  BY PushedType, SMTT(30) DEF TxInv, WireInv
<1>2. wire[i] \in 1 .. Len(sent)
  BY <1>1, PushedType
<1> QED
  BY <1>2 DEF TxInv

LEMMA RxReceive ==
  ASSUME TxInv, RxInv, Receive
  PROVE  RxInv'
<1> DEFINE L == Len(stored)
<1>1. PICK f \in Frames : rx' = Stored(rx, f) /\ stored' = Append(stored, f)
  BY AnswersAreFrames DEF Receive
<1>2. /\ rx.head # rx.tail /\ pc' = pc /\ taken' = taken
      /\ taken \in Nat /\ L \in Nat /\ taken <= L
      /\ L <= taken + (NumDesc - 1) /\ NumDesc \in Nat \ {0} /\ stored \in Seq(Frames)
  BY RingHasZero DEF Receive, CanStore, RxInv, driverVars
<1>3. L % NumDesc # (taken + (NumDesc - 1)) % NumDesc /\ L < taken + (NumDesc - 1)
  BY <1>2 DEF RxInv
<1>4. /\ stored' \in Seq(Frames) /\ Len(stored') = L + 1 /\ stored'[L + 1] = f
      /\ \A j \in 1 .. L : stored'[j] = stored[j]
  BY <1>1, <1>2
<1>5. After(L % NumDesc) = (L + 1) % NumDesc /\ (L + 1) % NumDesc \in Ring /\ L % NumDesc \in Ring
  <2>1. L + 1 \in Nat
    BY <1>2
  <2> QED
    BY <1>2, <2>1, AfterRemainder
<1>6. /\ rx'.buf = [rx.buf EXCEPT ![L % NumDesc] = f]
      /\ rx'.done = [rx.done EXCEPT ![L % NumDesc] = TRUE]
      /\ rx'.head = (L + 1) % NumDesc /\ rx'.next = rx.next /\ rx'.tail = rx.tail
  BY <1>1, <1>5 DEF Stored, RxInv, RxRing
<1>7. rx' \in RxRing
  BY <1>1, <1>5, <1>6 DEF Stored, RxInv, RxRing
<1>8. rx.buf \in [Ring -> Frames \cup {NoFrame}] /\ rx.done \in [Ring -> BOOLEAN]
  BY DEF RxInv, RxRing
<1>9. /\ rx'.buf[L % NumDesc] = f /\ rx'.done[L % NumDesc]
      /\ \A i \in Ring : i # L % NumDesc =>
           rx'.buf[i] = rx.buf[i] /\ (rx'.done[i] <=> rx.done[i])
  BY <1>5, <1>6, <1>8
<1>10. \A k \in Nat : taken <= k /\ k < taken + NumDesc /\ k # L =>
         k % NumDesc # L % NumDesc /\ k % NumDesc \in Ring
  <2> SUFFICES ASSUME NEW k \in Nat, taken <= k, k < taken + NumDesc, k # L
               PROVE  k % NumDesc # L % NumDesc /\ k % NumDesc \in Ring
    OBVIOUS
  <2>1. k < L /\ k % NumDesc = L % NumDesc => k + NumDesc <= L
    BY <1>2, RoundApart
  <2>2. L < k /\ k % NumDesc = L % NumDesc => L + NumDesc <= k
    BY <1>2, RoundApart
  <2>3. k % NumDesc \in Ring
    BY AfterRemainder
  <2> QED
    BY <1>2, <1>3, <2>1, <2>2, <2>3
<1>11. Waiting'
  <2> SUFFICES ASSUME NEW k \in Nat, taken <= k, k < L + 1
               PROVE  /\ rx'.buf[k % NumDesc] = stored'[k + 1]
                      /\ rx'.done[k % NumDesc] \/ (k = taken /\ pc = "give")
    BY <1>2, <1>4 DEF Waiting
  <2>1. CASE k = L
    BY <1>4, <1>9, <2>1
  <2>2. CASE k # L
    <3>1. k < L /\ k + 1 \in 1 .. L /\ k < taken + NumDesc
      BY <1>2, <2>2
    <3>2. /\ rx.buf[k % NumDesc] = stored[k + 1]
          /\ rx.done[k % NumDesc] \/ (k = taken /\ pc = "give")
      BY <3>1 DEF RxInv, Waiting
    <3> QED
      BY <1>4, <1>9, <1>10, <2>2, <3>1, <3>2
  <2> QED
    BY <2>1, <2>2
<1>12. Emptied'
  <2> SUFFICES ASSUME NEW k \in Nat, L + 1 <= k, k < taken + NumDesc
               PROVE  ~rx'.done[k % NumDesc]
    BY <1>2, <1>4 DEF Emptied
  <2>1. taken <= k /\ k # L /\ L <= k
    BY <1>2
  <2>2. ~rx.done[k % NumDesc]
    BY <2>1 DEF RxInv, Emptied
  <2> QED
    BY <1>9, <1>10, <2>1, <2>2
<1>13. pc' = "give" => ~rx'.done[rx'.next]
  <2> SUFFICES ASSUME pc = "give" PROVE ~rx'.done[rx.next]
    BY <1>2, <1>6
  <2>1. taken # L /\ rx.next = taken % NumDesc /\ ~rx.done[rx.next]
    BY <1>2 DEF RxInv
  <2>2. taken < taken + NumDesc
    BY <1>2
  <2> QED
    BY <1>2, <1>9, <1>10, <2>1, <2>2
<1>14. pc' \in {"copy", "clear", "give"} => taken' < Len(stored')
  BY <1>2, <1>4 DEF RxInv
<1>15. taken' <= Len(stored') /\ Len(stored') <= taken' + (NumDesc - 1)
  BY <1>2, <1>3, <1>4
<1>16. rx'.next = taken' % NumDesc /\ rx'.tail = (taken' + (NumDesc - 1)) % NumDesc
  BY <1>2, <1>6 DEF RxInv
<1> QED
  BY <1>2, <1>4, <1>6, <1>7, <1>11, <1>12, <1>13, <1>14, <1>15, <1>16 DEF RxInv

LEMMA RxNext == TxInv /\ RxInv /\ [PingNext]_pingVars => RxInv'
<1> SUFFICES ASSUME TxInv, RxInv, [PingNext]_pingVars PROVE RxInv'
  OBVIOUS
<1>1. ASSUME \/ \E h \in Hosts : StartPing(h)
             \/ SendFill \/ SendPush \/ WaitTxDone \/ Poll \/ RecvCopy
             \/ Transmit \/ UNCHANGED pingVars
      PROVE  RxInv'
  <2>1. rx' = rx /\ stored' = stored /\ taken' = taken
    BY <1>1 DEF StartPing, SendFill, SendPush, WaitTxDone, Poll, RecvCopy, Transmit, pingVars, driverVars
  <2>2. \/ pc' = pc
        \/ pc \notin {"copy", "clear", "give"} /\ pc' \notin {"copy", "clear", "give"}
        \/ pc = "poll" /\ pc' = "copy" /\ Ready(rx)
        \/ pc = "copy" /\ pc' = "clear"
    BY <1>1 DEF StartPing, SendFill, SendPush, WaitTxDone, Poll, RecvCopy, Transmit, pingVars, driverVars
  <2>3. pc' = "give" <=> pc = "give"
    BY <2>2
  <2>4. pc' \in {"copy", "clear", "give"} => taken < Len(stored)
    <3>1. ASSUME Ready(rx), ~(taken < Len(stored)) PROVE FALSE
      <4>1. taken \in Nat /\ Len(stored) <= taken /\ taken < taken + NumDesc
        BY <3>1, RingHasZero DEF RxInv
      <4> QED
        BY <3>1, <4>1 DEF RxInv, Emptied, Ready
    <3> QED
      BY <2>2, <3>1 DEF RxInv
  <2> QED
    BY <2>1, <2>3, <2>4 DEF RxInv, Waiting, Emptied
<1> QED
  BY <1>1, RxClear, RxGiveBack, RxReceive DEF PingNext, Driver

(* virtio_net_recv returns the oldest frame it has not returned yet, if    *)
(* there is one, the card does not touch it while it is copied, and with   *)
(* no frame left to consume the card has a descriptor for the next one.    *)
THEOREM ReceivesInOrder == PingSpec => []RecvSeesTheOldest
<1>1. RxInv => RecvSeesTheOldest
  <2> SUFFICES ASSUME RxInv PROVE RecvSeesTheOldest
    OBVIOUS
  <2>1. taken \in Nat /\ Len(stored) \in Nat /\ NumDesc \in Nat \ {0} /\ NumDesc >= 2
    BY RingHasZero, E1000Assumption DEF RxInv
  <2>2. ASSUME pc \in {"idle", "poll", "copy"}, taken < Len(stored)
        PROVE  Ready(rx) /\ rx.buf[rx.next] = stored[taken + 1]
    BY <2>2, <2>1 DEF RxInv, Waiting, Ready
  <2>3. ASSUME ~(taken < Len(stored))
        PROVE  ~Ready(rx)
    <3>1. Len(stored) <= taken /\ taken < taken + NumDesc
      BY <2>1, <2>3
    <3> QED
      BY <2>1, <3>1 DEF RxInv, Emptied, Ready
  <2>4. ASSUME taken = Len(stored) PROVE CanStore(rx)
    <3>1. PICK last \in Nat : last = taken + (NumDesc - 1)
      BY <2>1
    <3>2. taken < last /\ last < taken + NumDesc
      BY <2>1, <3>1
    <3>3. taken % NumDesc # last % NumDesc
      <4> SUFFICES ASSUME taken % NumDesc = last % NumDesc PROVE FALSE
        OBVIOUS
      <4>1. taken + NumDesc <= last
        BY <2>1, <3>2, RoundApart
      <4> QED
        BY <2>1, <3>1, <3>2, <4>1
    <3> QED
      BY <2>4, <3>1, <3>3 DEF RxInv, CanStore
  <2> QED
    BY <2>2, <2>3, <2>4 DEF RecvSeesTheOldest
<1>2. PingInit => TxInv /\ RxInv
  BY TxInit0, RxInit0
<1>3. (TxInv /\ RxInv) /\ [PingNext]_pingVars => (TxInv /\ RxInv)'
  BY TxNext, RxNext
<1> QED
  BY <1>1, <1>2, <1>3, PTL DEF PingSpec

-----------------------------------------------------------------------------
(* The buffer.  Between two frames it holds no reply of the host that is   *)
(* being pinged; behind the copy it holds the frame, or what it held when  *)
(* the frame was too long.                                                 *)
PktInv ==
  /\ pc \in {"fill", "push", "sending", "poll", "copy"} => pkt # Reply(Target)
  /\ pc \in {"clear", "give"} =>
       \/ pkt = stored[taken + 1]
       \/ stored[taken + 1] = Oversize /\ pkt # Reply(Target)

LEMMA FramesDiffer == \A h, g : Request(h) # Reply(g) /\ Oversize # Reply(g)
BY DEF Request, Reply, Oversize

LEMMA PktNext == RxInv /\ PktInv /\ [PingNext]_pingVars => PktInv'
<1> SUFFICES ASSUME RxInv, PktInv, [PingNext]_pingVars PROVE PktInv'
  OBVIOUS
<1>1. ASSUME NEW h \in Hosts, StartPing(h) PROVE PktInv'
  BY <1>1, FramesDiffer DEF StartPing, Rebuild, PktInv
<1>2. ASSUME SendFill \/ SendPush \/ WaitTxDone \/ Poll PROVE PktInv'
  BY <1>2 DEF SendFill, SendPush, WaitTxDone, Poll, PktInv, Target
<1>3. ASSUME RecvCopy PROVE PktInv'
  <2>1. taken \in Nat /\ taken < Len(stored) /\ rx.buf[rx.next] = stored[taken + 1]
    BY <1>3 DEF RecvCopy, RxInv, Waiting
  <2>2. /\ pc = "copy" /\ pc' = "clear" /\ stored' = stored /\ taken' = taken /\ Target' = Target
        /\ pkt' = IF rx.buf[rx.next] = Oversize THEN pkt ELSE rx.buf[rx.next]
    BY <1>3 DEF RecvCopy, Target
  <2> QED
    BY <2>1, <2>2 DEF PktInv
<1>4. ASSUME RecvClear PROVE PktInv'
  BY <1>4 DEF RecvClear, PktInv, Target
<1>5. ASSUME RecvGiveBack PROVE PktInv'
  BY <1>5 DEF RecvGiveBack, PktInv, Target
<1>6. ASSUME Transmit \/ UNCHANGED pingVars PROVE PktInv'
  BY <1>6 DEF Transmit, pingVars, driverVars, PktInv, Target
<1>7. ASSUME Receive PROVE PktInv'
  <2>1. PICK f : stored' = Append(stored, f)
    BY <1>7 DEF Receive
  <2>2. pc' = pc /\ pkt' = pkt /\ taken' = taken /\ Target' = Target
    BY <1>7 DEF Receive, driverVars, Target
  <2>3. pc \in {"clear", "give"} => stored'[taken + 1] = stored[taken + 1]
    BY <2>1 DEF RxInv
  <2> QED
    BY <2>2, <2>3 DEF PktInv
<1> QED
  BY <1>1, <1>2, <1>3, <1>4, <1>5, <1>6, <1>7 DEF PingNext, Driver

(* A ping is answered by the frame it took last, never by what an earlier  *)
(* frame or an earlier ping left in the buffer: a frame too long to copy   *)
(* leaves the buffer alone, and the request that the ping wrote there, or  *)
(* a frame it has refused, is no reply.                                    *)
THEOREM AnswersAreFresh == PingSpec => AnsweredByThisFrame
<1>1. PingInit => TxInv /\ RxInv /\ PktInv
  <2>1. PingInit => PktInv
    BY DEF PingInit, PktInv
  <2> QED
    BY <2>1, TxInit0, RxInit0
<1>2. (TxInv /\ RxInv /\ PktInv) /\ [PingNext]_pingVars => (TxInv /\ RxInv /\ PktInv)'
  BY TxNext, RxNext, PktNext
<1>3. RxInv /\ PktInv /\ [PingNext]_pingVars =>
        (result' = "answered" /\ result # "answered" => stored[taken'] = Reply(Target))
  <2> SUFFICES ASSUME RxInv, PktInv, [PingNext]_pingVars, result' = "answered", result # "answered"
               PROVE  stored[taken'] = Reply(Target)
    OBVIOUS
  <2>1. RecvGiveBack
    BY DEF PingNext, Driver, StartPing, SendFill, SendPush, WaitTxDone, Poll, RecvCopy, RecvClear,
           Transmit, Receive, pingVars, driverVars
  <2>2. pc = "give" /\ pkt = Reply(Target) /\ taken' = taken + 1
    BY <2>1 DEF RecvGiveBack
  <2> QED
    BY <2>2, FramesDiffer DEF PktInv
<1> QED
  BY <1>1, <1>2, <1>3, PTL DEF PingSpec, AnsweredByThisFrame

-----------------------------------------------------------------------------
(* The queues of virtio-net.                                               *)
Places == {"free", "available", "device", "used", "hands"}

Queues ==
  [next : [Desc -> Desc], freeHead : Desc, numFree : 0 .. QueueSize,
   avail : [RingSlots -> Desc], availIdx : Nat,
   used : [RingSlots -> Desc], usedIdx : Nat, lastUsed : Nat,
   seen : Nat, busy : SUBSET Desc]

(* f lists the descriptors whose place is p, each at one key of D.         *)
Lists(w, p, f, D) ==
  /\ f \in [D -> Desc]
  /\ \A j, k \in D : f[j] = f[k] => j = k
  /\ \A d \in Desc : w[d] = p <=> \E k \in D : f[k] = d

Count(vq, a, s, u, l, hands) ==
  vq.numFree + (a - s) + Cardinality(vq.busy) + (u - l) + Cardinality(hands) = QueueSize

(* a and s count what was made available and what the device has taken, u  *)
(* and l what it has finished and what the driver has taken back.  The     *)
(* free list is numbered from its end, so that its head comes and goes at  *)
(* the highest key.                                                        *)
Holds(vq, hands, w, F, A, U, a, s, u, l) ==
  /\ vq \in Queues
  /\ w \in [Desc -> Places]
  /\ a \in Nat /\ s \in Nat /\ u \in Nat /\ l \in Nat /\ s <= a /\ l <= u
  /\ vq.availIdx = a % IndexWrap /\ vq.seen = s % IndexWrap
  /\ vq.usedIdx = u % IndexWrap /\ vq.lastUsed = l % IndexWrap
  /\ Lists(w, "free", F, 1 .. vq.numFree)
  /\ vq.numFree > 0 => F[vq.numFree] = vq.freeHead
  /\ \A k \in 1 .. vq.numFree - 1 : vq.next[F[k + 1]] = F[k]
  /\ Lists(w, "available", A, s .. a - 1)
  /\ \A k \in s .. a - 1 : A[k] = vq.avail[k % MaxDesc]
  /\ Lists(w, "used", U, l .. u - 1)
  /\ \A k \in l .. u - 1 : U[k] = vq.used[k % MaxDesc]
  /\ vq.busy = {d \in Desc : w[d] = "device"}
  /\ hands = {d \in Desc : w[d] = "hands"}
  /\ Count(vq, a, s, u, l, hands)

Queue(vq, hands, w) ==
  \E F, A, U, a, s, u, l : Holds(vq, hands, w, F, A, U, a, s, u, l)

-----------------------------------------------------------------------------
LEMMA Sizes ==
  /\ QueueSize \in Nat \ {0} /\ MaxDesc \in Nat \ {0} /\ IndexWrap \in Nat \ {0}
  /\ QueueSize <= MaxDesc /\ MaxDesc < IndexWrap /\ IndexWrap % MaxDesc = 0
BY VirtqueueAssumption

LEMMA DescIsFinite ==
  /\ IsFiniteSet(Desc) /\ Cardinality(Desc) = QueueSize
  /\ \A S \in SUBSET Desc : IsFiniteSet(S) /\ Cardinality(S) \in Nat
<1>1. IsFiniteSet(Desc) /\ Cardinality(Desc) = QueueSize
  BY FS_Interval, Sizes DEF Desc
<1> QED
  BY <1>1, FS_Subset, FS_CardinalityType

LEMMA CardinalityOfOne ==
  ASSUME NEW S \in SUBSET Desc, NEW d \in Desc
  PROVE  /\ d \notin S => Cardinality(S \cup {d}) = Cardinality(S) + 1
         /\ d \in S => Cardinality(S \ {d}) = Cardinality(S) - 1
BY DescIsFinite, FS_AddElement, FS_RemoveElement

LEMMA NoneAndOne ==
  Cardinality({}) = 0 /\ \A d : Cardinality({d}) = 1
BY FS_EmptySet, FS_Singleton

LEMMA CountNone ==
  ASSUME NEW vq, NEW a, NEW s, NEW u, NEW l,
         vq.numFree \in Nat, Cardinality(vq.busy) \in Nat,
         a \in Nat, s \in Nat, u \in Nat, l \in Nat
  PROVE  Count(vq, a, s, u, l, {})
           <=> vq.numFree + (a - s) + Cardinality(vq.busy) + (u - l) = QueueSize
<1>1. PICK b \in Nat : b = Cardinality(vq.busy)
  OBVIOUS
<1>2. PICK n \in Nat : n = vq.numFree
  OBVIOUS
<1>3. Count(vq, a, s, u, l, {}) <=> n + (a - s) + b + (u - l) + 0 = QueueSize
  BY <1>1, <1>2, NoneAndOne DEF Count
<1>4. n + (a - s) + b + (u - l) + 0 = n + (a - s) + b + (u - l)
  OBVIOUS
<1> QED
  BY <1>1, <1>2, <1>3, <1>4

LEMMA CountOne ==
  ASSUME NEW vq, NEW a, NEW s, NEW u, NEW l, NEW d
  PROVE  Count(vq, a, s, u, l, {d})
           <=> vq.numFree + (a - s) + Cardinality(vq.busy) + (u - l) + 1 = QueueSize
<1>1. Cardinality({d}) = 1
  BY NoneAndOne
<1> QED
  BY <1>1 DEF Count

LEMMA AdvanceRemainder ==
  ASSUME NEW a \in Nat
  PROVE  Advance(a % IndexWrap) = (a + 1) % IndexWrap
BY Sizes, NextRemainder DEF Advance

LEMMA SlotOfIndex ==
  ASSUME NEW a \in Nat
  PROVE  (a % IndexWrap) % MaxDesc = a % MaxDesc /\ a % MaxDesc \in RingSlots
<1>1. a % MaxDesc \in RingSlots
  BY Sizes, RemainderType DEF RingSlots
<1>2. (a % IndexWrap) % MaxDesc = a % MaxDesc
  BY Sizes, RemainderOfRemainder
<1> QED
  BY <1>1, <1>2

(* d goes to the place to, and nothing else moves.                         *)
Moved(w, v, d, to) ==
  v \in [Desc -> Places] /\ v[d] = to /\ \A x \in Desc \ {d} : v[x] = w[x]

Without(f, D, k, g, E) ==
  E = D \ {k} /\ g \in [E -> Desc] /\ \A j \in E : g[j] = f[j]

With(f, D, k, d, g, E) ==
  E = D \cup {k} /\ g \in [E -> Desc] /\ g[k] = d /\ \A j \in D : g[j] = f[j]

(* A descriptor leaves a list, joins one, or moves between two others.     *)
LEMMA ListLeft ==
  ASSUME NEW w \in [Desc -> Places], NEW p, NEW f, NEW D, Lists(w, p, f, D),
         NEW k \in D, NEW to, to # p, NEW v, Moved(w, v, f[k], to),
         NEW E, NEW g, Without(f, D, k, g, E)
  PROVE  Lists(v, p, g, E)
BY DEF Lists, Moved, Without

LEMMA ListJoined ==
  ASSUME NEW w \in [Desc -> Places], NEW p, NEW f, NEW D, Lists(w, p, f, D),
         NEW k, k \notin D, NEW d \in Desc, w[d] # p, NEW v, Moved(w, v, d, p),
         NEW E, NEW g, With(f, D, k, d, g, E)
  PROVE  Lists(v, p, g, E)
BY DEF Lists, Moved, With

LEMMA ListStays ==
  ASSUME NEW w \in [Desc -> Places], NEW p, NEW f, NEW D, Lists(w, p, f, D),
         NEW d \in Desc, w[d] # p, NEW to, to # p, NEW v, Moved(w, v, d, to)
  PROVE  Lists(v, p, f, D)
BY DEF Lists, Moved

-----------------------------------------------------------------------------
(* The helpers of the driver, and the device.                              *)
LEMMA AllocMoves ==
  ASSUME NEW vq, NEW w, Queue(vq, {}, w), CanAlloc(vq),
         NEW g, g = AllocDesc(vq), NEW d, d = AllocHead(vq),
         NEW v, Moved(w, v, d, "hands")
  PROVE  Queue(g, {d}, v) /\ d \in Desc /\ w[d] = "free" /\ g.numFree = vq.numFree - 1
<1>1. PICK F, A, U, a, s, u, l : Holds(vq, {}, w, F, A, U, a, s, u, l)
  BY DEF Queue
<1>2. PICK n : n = vq.numFree
  OBVIOUS
<1>3. /\ vq \in Queues /\ w \in [Desc -> Places] /\ n \in Nat /\ n > 0 /\ n <= QueueSize
      /\ a \in Nat /\ s \in Nat /\ u \in Nat /\ l \in Nat /\ s <= a /\ l <= u
  BY <1>1, <1>2 DEF Holds, Queues, CanAlloc
<1>4. PICK G : G = [j \in 1 .. n - 1 |-> F[j]]
  OBVIOUS
<1>5. F[n] = d /\ n \in 1 .. n /\ (1 .. n) \ {n} = 1 .. n - 1
  BY <1>1, <1>2, <1>3 DEF Holds, AllocHead
<1>6. Lists(v, "free", G, 1 .. n - 1) /\ d \in Desc /\ w[d] = "free"
  <2>1. Lists(w, "free", F, 1 .. n)
    BY <1>1, <1>2 DEF Holds
  <2>2. d \in Desc /\ w[d] = "free"
    BY <1>5, <2>1 DEF Lists
  <2>3. Without(F, 1 .. n, n, G, 1 .. n - 1)
    BY <1>3, <1>4, <1>5, <2>1 DEF Lists, Without
  <2>4. Moved(w, v, F[n], "hands")
    BY <1>5
  <2> QED
    BY <1>3, <1>5, <2>1, <2>2, <2>3, <2>4, ListLeft
<1>7. Lists(v, "available", A, s .. a - 1) /\ Lists(v, "used", U, l .. u - 1)
  BY <1>1, <1>3, <1>6, ListStays DEF Holds
<1>8. /\ g.freeHead = vq.next[d] /\ g.numFree = n - 1
      /\ g.next = vq.next /\ g.avail = vq.avail /\ g.availIdx = vq.availIdx
      /\ g.used = vq.used /\ g.usedIdx = vq.usedIdx /\ g.lastUsed = vq.lastUsed
      /\ g.seen = vq.seen /\ g.busy = vq.busy
  BY <1>2, <1>3 DEF AllocDesc, AllocHead, Queues
<1>9. g \in Queues
  <2>1. vq.next[vq.freeHead] \in Desc /\ vq.numFree - 1 \in 0 .. QueueSize
    BY <1>2, <1>3, Sizes DEF Queues
  <2> QED
    BY <1>3, <2>1 DEF AllocDesc, Queues
<1>10. v \in [Desc -> Places]
  BY DEF Moved
<1>11. n - 1 > 0 => G[n - 1] = vq.next[d]
  <2> SUFFICES ASSUME n - 1 > 0 PROVE G[n - 1] = vq.next[d]
    OBVIOUS
  <2>1. vq.next[F[(n - 1) + 1]] = F[n - 1]
    BY <1>1, <1>2, <1>3 DEF Holds
  <2> QED
    BY <1>3, <1>4, <1>5, <2>1
<1>12. \A k \in 1 .. (n - 1) - 1 : vq.next[G[k + 1]] = G[k]
  BY <1>1, <1>2, <1>3, <1>4, SMTT(30) DEF Holds
<1>13. vq.busy = {x \in Desc : v[x] = "device"} /\ {d} = {x \in Desc : v[x] = "hands"}
  BY <1>1, <1>3, <1>6 DEF Holds, Moved
<1>14. Count(g, a, s, u, l, {d})
  <2>1. Cardinality(vq.busy) \in Nat
    BY <1>3, DescIsFinite DEF Queues
  <2>2. Count(vq, a, s, u, l, {})
    BY <1>1 DEF Holds
  <2> QED
    <3>1. vq.numFree + (a - s) + Cardinality(vq.busy) + (u - l) = QueueSize
      BY <1>2, <1>3, <2>1, <2>2, CountNone, CountOne
    <3>2. g.numFree \in Nat /\ Cardinality(g.busy) \in Nat
      BY <1>3, <1>8, <2>1
    <3>3. g.numFree + (a - s) + Cardinality(g.busy) + (u - l) + 1 = QueueSize
      BY <1>2, <1>3, <1>8, <2>1, <3>1, Sizes
    <3> QED
      BY <1>3, <3>2, <3>3, CountNone, CountOne
<1>15. Holds(g, {d}, v, G, A, U, a, s, u, l)
  BY <1>1, <1>3, <1>6, <1>7, <1>8, <1>9, <1>10, <1>11, <1>12, <1>13, <1>14 DEF Holds
<1> QED
  BY <1>2, <1>6, <1>8, <1>15 DEF Queue

LEMMA FreeMoves ==
  ASSUME NEW vq, NEW w, NEW d, Queue(vq, {d}, w),
         NEW g, g = FreeDesc(vq, d), NEW v, Moved(w, v, d, "free")
  PROVE  Queue(g, {}, v) /\ d \in Desc /\ g.numFree = vq.numFree + 1
<1>1. PICK F, A, U, a, s, u, l : Holds(vq, {d}, w, F, A, U, a, s, u, l)
  BY DEF Queue
<1>2. PICK n : n = vq.numFree
  OBVIOUS
<1>3. /\ vq \in Queues /\ w \in [Desc -> Places] /\ n \in Nat
      /\ a \in Nat /\ s \in Nat /\ u \in Nat /\ l \in Nat /\ s <= a /\ l <= u
      /\ d \in Desc /\ w[d] = "hands" /\ "free" \in Places
  BY <1>1, <1>2 DEF Holds, Queues, Places
<1>4. Cardinality(vq.busy) \in Nat
  BY <1>3, DescIsFinite DEF Queues
<1>5. Count(vq, a, s, u, l, {d}) /\ n + 1 <= QueueSize
  <2>1. Count(vq, a, s, u, l, {d})
    BY <1>1 DEF Holds
  <2> QED
    <3>0. Cardinality({d}) = 1
      BY NoneAndOne
    <3>1. vq.numFree + (a - s) + Cardinality(vq.busy) + (u - l) + 1 = QueueSize
      BY <2>1, <3>0 DEF Count
    <3> QED
      BY <1>2, <1>3, <1>4, <2>1, <3>1, Sizes
<1>6. PICK G \in [1 .. n + 1 -> Desc] : G[n + 1] = d /\ \A j \in 1 .. n : G[j] = F[j]
  <2>1. PICK G : G = [j \in 1 .. n + 1 |-> IF j = n + 1 THEN d ELSE F[j]]
    OBVIOUS
  <2>2. F \in [1 .. n -> Desc]
    BY <1>1, <1>2 DEF Holds, Lists
  <2>3. G \in [1 .. n + 1 -> Desc] /\ G[n + 1] = d /\ \A j \in 1 .. n : G[j] = F[j]
    BY <1>3, <2>1, <2>2
  <2> QED
    BY <2>3
<1>7. n + 1 \notin 1 .. n /\ (1 .. n) \cup {n + 1} = 1 .. n + 1
  BY <1>3
<1>8. Lists(v, "free", G, 1 .. n + 1)
  <2>1. Lists(w, "free", F, 1 .. n)
    BY <1>1, <1>2 DEF Holds
  <2>2. With(F, 1 .. n, n + 1, d, G, 1 .. n + 1)
    BY <1>6, <1>7 DEF With
  <2> QED
    BY <1>3, <1>7, <2>1, <2>2, ListJoined
<1>9. Lists(v, "available", A, s .. a - 1) /\ Lists(v, "used", U, l .. u - 1)
  BY <1>1, <1>3, ListStays DEF Holds
<1>10. /\ g.freeHead = d /\ g.numFree = n + 1
       /\ g.next = [vq.next EXCEPT ![d] = vq.freeHead]
       /\ g.avail = vq.avail /\ g.availIdx = vq.availIdx
       /\ g.used = vq.used /\ g.usedIdx = vq.usedIdx /\ g.lastUsed = vq.lastUsed
       /\ g.seen = vq.seen /\ g.busy = vq.busy
  BY <1>2, <1>3 DEF FreeDesc, Queues
<1>11. g \in Queues
  <2>1. vq.numFree + 1 \in 0 .. QueueSize
    BY <1>2, <1>3, <1>5, Sizes
  <2> QED
    BY <1>3, <2>1 DEF FreeDesc, Queues
<1>12. v \in [Desc -> Places]
  BY DEF Moved
<1>13. G[n + 1] = d
  BY <1>3, <1>6
<1>14. \A k \in 1 .. (n + 1) - 1 : g.next[G[k + 1]] = G[k]
  <2> SUFFICES ASSUME NEW k \in 1 .. n PROVE g.next[G[k + 1]] = G[k]
    BY <1>3
  <2>1. G[k] = F[k]
    BY <1>3, <1>6
  <2>2. CASE k = n
    <3>1. F[n] = vq.freeHead
      BY <1>1, <1>2, <1>3, <2>2 DEF Holds
    <3> QED
      BY <1>3, <1>10, <1>13, <2>1, <2>2, <3>1 DEF Queues
  <2>3. CASE k # n
    <3>1. k \in 1 .. n - 1 /\ k + 1 \in 1 .. n
      BY <1>3, <2>3
    <3>2. G[k + 1] = F[k + 1] /\ vq.next[F[k + 1]] = F[k]
      BY <1>1, <1>2, <1>3, <1>6, <3>1 DEF Holds
    <3>3. F[k + 1] \in Desc /\ w[F[k + 1]] = "free"
      BY <1>1, <1>2, <3>1 DEF Holds, Lists
    <3>4. F[k + 1] # d
      BY <1>3, <3>3
    <3> QED
      BY <1>3, <1>10, <2>1, <3>2, <3>3, <3>4 DEF Queues
  <2> QED
    BY <2>2, <2>3
<1>15. vq.busy = {x \in Desc : v[x] = "device"} /\ {} = {x \in Desc : v[x] = "hands"}
  BY <1>1, <1>3 DEF Holds, Moved
<1>16. Count(g, a, s, u, l, {})
  <2>0. Cardinality({d}) = 1
    BY NoneAndOne
  <2>1. vq.numFree + (a - s) + Cardinality(vq.busy) + (u - l) + 1 = QueueSize
    BY <1>5, <2>0 DEF Count
  <2>2. g.numFree \in Nat /\ Cardinality(g.busy) \in Nat
    BY <1>3, <1>4, <1>10
  <2>3. g.numFree + (a - s) + Cardinality(g.busy) + (u - l) = QueueSize
    BY <1>2, <1>3, <1>4, <1>10, <2>1, Sizes
  <2> QED
    BY <1>3, <2>2, <2>3, CountNone, CountOne
<1>17. Holds(g, {}, v, G, A, U, a, s, u, l)
  BY <1>1, <1>3, <1>8, <1>9, <1>10, <1>11, <1>12, <1>13, <1>14, <1>15, <1>16 DEF Holds
<1> QED
  BY <1>2, <1>3, <1>10, <1>17 DEF Queue

LEMMA SubmitMoves ==
  ASSUME NEW vq, NEW w, NEW d, Queue(vq, {d}, w),
         NEW g, g = SubmitDesc(vq, d), NEW v, Moved(w, v, d, "available")
  PROVE  Queue(g, {}, v) /\ d \in Desc /\ w[d] = "hands" /\ g.numFree = vq.numFree
<1>1. PICK F, A, U, a, s, u, l : Holds(vq, {d}, w, F, A, U, a, s, u, l)
  BY DEF Queue
<1>2. /\ vq \in Queues /\ w \in [Desc -> Places] /\ vq.numFree \in Nat
      /\ a \in Nat /\ s \in Nat /\ u \in Nat /\ l \in Nat /\ s <= a /\ l <= u
      /\ d \in Desc /\ w[d] = "hands" /\ "available" \in Places
  BY <1>1 DEF Holds, Queues, Places
<1>3. Cardinality(vq.busy) \in Nat
  BY <1>2, DescIsFinite DEF Queues
<1>4. Count(vq, a, s, u, l, {d}) /\ a < s + MaxDesc
  <2>1. Count(vq, a, s, u, l, {d})
    BY <1>1 DEF Holds
  <2> QED
    <3>0. Cardinality({d}) = 1
      BY NoneAndOne
    <3>1. vq.numFree + (a - s) + Cardinality(vq.busy) + (u - l) + 1 = QueueSize
      BY <2>1, <3>0 DEF Count
    <3> QED
      BY <1>2, <1>3, <2>1, <3>1, Sizes
<1>5. PICK B \in [s .. a -> Desc] : B[a] = d /\ \A j \in s .. a - 1 : B[j] = A[j]
  <2>1. PICK B : B = [j \in s .. a |-> IF j = a THEN d ELSE A[j]]
    OBVIOUS
  <2>2. A \in [s .. a - 1 -> Desc]
    BY <1>1 DEF Holds, Lists
  <2>3. B \in [s .. a -> Desc] /\ B[a] = d /\ \A j \in s .. a - 1 : B[j] = A[j]
    BY <1>2, <2>1, <2>2
  <2> QED
    BY <2>3
<1>6. a \notin s .. a - 1 /\ (s .. a - 1) \cup {a} = s .. a /\ (a + 1) - 1 = a
  BY <1>2
<1>7. Lists(v, "available", B, s .. a)
  <2>1. Lists(w, "available", A, s .. a - 1)
    BY <1>1 DEF Holds
  <2>2. With(A, s .. a - 1, a, d, B, s .. a)
    BY <1>5, <1>6 DEF With
  <2> QED
    BY <1>2, <1>6, <2>1, <2>2, ListJoined
<1>8. Lists(v, "free", F, 1 .. vq.numFree) /\ Lists(v, "used", U, l .. u - 1)
  BY <1>1, <1>2, ListStays DEF Holds
<1>9. vq.availIdx % MaxDesc = a % MaxDesc /\ a % MaxDesc \in RingSlots
      /\ Advance(vq.availIdx) = (a + 1) % IndexWrap
  BY <1>1, <1>2, SlotOfIndex, AdvanceRemainder DEF Holds
<1>10. (a + 1) % IndexWrap \in Nat
  BY <1>2, Sizes, RemainderType
<1>11. /\ g.avail = [vq.avail EXCEPT ![a % MaxDesc] = d]
       /\ g.availIdx = (a + 1) % IndexWrap
       /\ g.freeHead = vq.freeHead /\ g.numFree = vq.numFree /\ g.next = vq.next
       /\ g.used = vq.used /\ g.usedIdx = vq.usedIdx /\ g.lastUsed = vq.lastUsed
       /\ g.seen = vq.seen /\ g.busy = vq.busy
  BY <1>2, <1>9 DEF SubmitDesc, Queues
<1>12. g \in Queues
  BY <1>2, <1>9, <1>10 DEF SubmitDesc, Queues
<1>13. v \in [Desc -> Places]
  BY DEF Moved
<1>14. \A k \in s .. a : B[k] = g.avail[k % MaxDesc]
  <2> SUFFICES ASSUME NEW k \in s .. a PROVE B[k] = g.avail[k % MaxDesc]
    OBVIOUS
  <2>1. CASE k = a
    BY <1>2, <1>5, <1>9, <1>11, <2>1 DEF Queues
  <2>2. CASE k # a
    <3>1. k \in s .. a - 1 /\ k \in Nat /\ k < a
      BY <1>2, <2>2
    <3>2. k % MaxDesc # a % MaxDesc
      <4> SUFFICES ASSUME k % MaxDesc = a % MaxDesc PROVE FALSE
        OBVIOUS
      <4>1. k + MaxDesc <= a
        BY <1>2, <3>1, Sizes, RoundApart
      <4> QED
        BY <1>2, <1>4, <3>1, <4>1, Sizes
    <3>3. k % MaxDesc \in RingSlots
      BY <3>1, SlotOfIndex
    <3>4. B[k] = A[k] /\ A[k] = vq.avail[k % MaxDesc]
      BY <1>1, <1>5, <2>2, <3>1 DEF Holds
    <3> QED
      BY <1>2, <1>9, <1>11, <3>2, <3>3, <3>4 DEF Queues
  <2> QED
    BY <2>1, <2>2
<1>15. vq.busy = {x \in Desc : v[x] = "device"} /\ {} = {x \in Desc : v[x] = "hands"}
  BY <1>1, <1>2 DEF Holds, Moved
<1>16. Count(g, a + 1, s, u, l, {})
  <2>0. Cardinality({d}) = 1
    BY NoneAndOne
  <2>1. vq.numFree + (a - s) + Cardinality(vq.busy) + (u - l) + 1 = QueueSize
    BY <1>4, <2>0 DEF Count
  <2>2. g.numFree \in Nat /\ Cardinality(g.busy) \in Nat /\ a + 1 \in Nat
    BY <1>2, <1>3, <1>11
  <2>3. g.numFree + ((a + 1) - s) + Cardinality(g.busy) + (u - l) = QueueSize
    BY <1>2, <1>3, <1>11, <2>1, Sizes
  <2> QED
    BY <1>2, <2>2, <2>3, CountNone, CountOne
<1>17. a + 1 \in Nat /\ s <= a + 1
  BY <1>2
<1>18. /\ g.seen = s % IndexWrap /\ g.usedIdx = u % IndexWrap /\ g.lastUsed = l % IndexWrap
       /\ g.numFree > 0 => F[g.numFree] = g.freeHead
       /\ \A k \in 1 .. g.numFree - 1 : g.next[F[k + 1]] = F[k]
       /\ \A k \in l .. u - 1 : U[k] = g.used[k % MaxDesc]
  BY <1>1, <1>11 DEF Holds
<1>19. /\ Lists(v, "free", F, 1 .. g.numFree) /\ Lists(v, "available", B, s .. (a + 1) - 1)
       /\ \A k \in s .. (a + 1) - 1 : B[k] = g.avail[k % MaxDesc]
  BY <1>6, <1>7, <1>8, <1>11, <1>14
<1>20. g.busy = {x \in Desc : v[x] = "device"}
  BY <1>11, <1>15
<1>21. Holds(g, {}, v, F, B, U, a + 1, s, u, l)
  BY <1>2, <1>8, <1>11, <1>12, <1>13, <1>15, <1>16, <1>17, <1>18, <1>19, <1>20 DEF Holds
<1> QED
  BY <1>2, <1>11, <1>21 DEF Queue

LEMMA PopMoves ==
  ASSUME NEW vq, NEW w, Queue(vq, {}, w), HasUsed(vq),
         NEW g, g = PopUsed(vq), NEW d, d = UsedId(vq), NEW v, Moved(w, v, d, "hands")
  PROVE  Queue(g, {d}, v) /\ d \in Desc /\ w[d] = "used" /\ g.numFree = vq.numFree
<1>1. PICK F, A, U, a, s, u, l : Holds(vq, {}, w, F, A, U, a, s, u, l)
  BY DEF Queue
<1>2. /\ vq \in Queues /\ w \in [Desc -> Places] /\ vq.numFree \in Nat
      /\ a \in Nat /\ s \in Nat /\ u \in Nat /\ l \in Nat /\ s <= a /\ l <= u
      /\ "hands" \in Places
  BY <1>1 DEF Holds, Queues, Places
<1>3. l < u
  BY <1>1, <1>2 DEF Holds, HasUsed
<1>4. PICK T : T = [j \in l + 1 .. u - 1 |-> U[j]]
  OBVIOUS
<1>5. l \in l .. u - 1 /\ (l .. u - 1) \ {l} = l + 1 .. u - 1
  BY <1>2, <1>3
<1>6. d = U[l]
  BY <1>1, <1>2, <1>5, SlotOfIndex DEF Holds, UsedId
<1>7. Lists(v, "used", T, l + 1 .. u - 1) /\ d \in Desc /\ w[d] = "used"
  <2>1. Lists(w, "used", U, l .. u - 1)
    BY <1>1 DEF Holds
  <2>2. d \in Desc /\ w[d] = "used"
    BY <1>5, <1>6, <2>1 DEF Lists
  <2>3. Without(U, l .. u - 1, l, T, l + 1 .. u - 1)
    BY <1>2, <1>4, <1>5, <2>1 DEF Lists, Without
  <2>4. Moved(w, v, U[l], "hands")
    BY <1>6
  <2> QED
    BY <1>2, <1>5, <2>1, <2>2, <2>3, <2>4, ListLeft
<1>8. Lists(v, "free", F, 1 .. vq.numFree) /\ Lists(v, "available", A, s .. a - 1)
  BY <1>1, <1>2, <1>7, ListStays DEF Holds
<1>9. Advance(vq.lastUsed) = (l + 1) % IndexWrap
  BY <1>1, <1>2, AdvanceRemainder DEF Holds
<1>10. (l + 1) % IndexWrap \in Nat
  BY <1>2, Sizes, RemainderType
<1>11. /\ g.lastUsed = (l + 1) % IndexWrap
       /\ g.freeHead = vq.freeHead /\ g.numFree = vq.numFree /\ g.next = vq.next
       /\ g.avail = vq.avail /\ g.availIdx = vq.availIdx
       /\ g.used = vq.used /\ g.usedIdx = vq.usedIdx
       /\ g.seen = vq.seen /\ g.busy = vq.busy
  BY <1>2, <1>9 DEF PopUsed, Queues
<1>12. g \in Queues
  BY <1>2, <1>9, <1>10 DEF PopUsed, Queues
<1>13. v \in [Desc -> Places]
  BY DEF Moved
<1>14. \A k \in l + 1 .. u - 1 : T[k] = g.used[k % MaxDesc]
  BY <1>1, <1>2, <1>4, <1>11 DEF Holds
<1>15. vq.busy = {x \in Desc : v[x] = "device"} /\ {d} = {x \in Desc : v[x] = "hands"}
  BY <1>1, <1>2, <1>7 DEF Holds, Moved
<1>16. Count(g, a, s, u, l + 1, {d})
  <2>1. Cardinality(vq.busy) \in Nat
    BY <1>2, DescIsFinite DEF Queues
  <2>2. Count(vq, a, s, u, l, {})
    BY <1>1 DEF Holds
  <2> QED
    <3>1. vq.numFree + (a - s) + Cardinality(vq.busy) + (u - l) = QueueSize
      BY <1>2, <2>1, <2>2, CountNone, CountOne
    <3>2. g.numFree \in Nat /\ Cardinality(g.busy) \in Nat /\ l + 1 \in Nat
      BY <1>2, <1>11, <2>1
    <3>3. g.numFree + (a - s) + Cardinality(g.busy) + (u - (l + 1)) + 1 = QueueSize
      BY <1>2, <1>11, <2>1, <3>1, Sizes
    <3> QED
      BY <1>2, <3>2, <3>3, CountNone, CountOne
<1>17. l + 1 \in Nat /\ l + 1 <= u
  BY <1>2, <1>3
<1>18. Holds(g, {d}, v, F, A, T, a, s, u, l + 1)
  BY <1>1, <1>2, <1>7, <1>8, <1>11, <1>12, <1>13, <1>14, <1>15, <1>16, <1>17, SMTT(30) DEF Holds
<1> QED
  BY <1>7, <1>11, <1>18 DEF Queue

LEMMA TakeMoves ==
  ASSUME QueueSize = MaxDesc,
         NEW vq, NEW hands, NEW w, Queue(vq, hands, w), CanTake(vq),
         NEW g, g = TakeAvail(vq), NEW d, d = vq.avail[vq.seen % QueueSize],
         NEW v, Moved(w, v, d, "device")
  PROVE  Queue(g, hands, v) /\ d \in Desc /\ w[d] = "available"
<1>1. PICK F, A, U, a, s, u, l : Holds(vq, hands, w, F, A, U, a, s, u, l)
  BY DEF Queue
<1>2. /\ vq \in Queues /\ w \in [Desc -> Places] /\ vq.numFree \in Nat
      /\ a \in Nat /\ s \in Nat /\ u \in Nat /\ l \in Nat /\ s <= a /\ l <= u
      /\ "device" \in Places /\ hands \in SUBSET Desc
  BY <1>1 DEF Holds, Queues, Places
<1>3. s < a
  BY <1>1, <1>2 DEF Holds, CanTake
<1>4. PICK B : B = [j \in s + 1 .. a - 1 |-> A[j]]
  OBVIOUS
<1>5. s \in s .. a - 1 /\ (s .. a - 1) \ {s} = s + 1 .. a - 1
  BY <1>2, <1>3
<1>6. d = A[s]
  <2>1. vq.seen % QueueSize = s % MaxDesc
    BY <1>1, <1>2, SlotOfIndex DEF Holds
  <2> QED
    BY <1>1, <1>5, <2>1 DEF Holds
<1>7. Lists(v, "available", B, s + 1 .. a - 1) /\ d \in Desc /\ w[d] = "available"
  <2>1. Lists(w, "available", A, s .. a - 1)
    BY <1>1 DEF Holds
  <2>2. d \in Desc /\ w[d] = "available"
    BY <1>5, <1>6, <2>1 DEF Lists
  <2>3. Without(A, s .. a - 1, s, B, s + 1 .. a - 1)
    BY <1>2, <1>4, <1>5, <2>1 DEF Lists, Without
  <2>4. Moved(w, v, A[s], "device")
    BY <1>6
  <2> QED
    BY <1>2, <1>5, <2>1, <2>2, <2>3, <2>4, ListLeft
<1>8. Lists(v, "free", F, 1 .. vq.numFree) /\ Lists(v, "used", U, l .. u - 1)
  BY <1>1, <1>2, <1>7, ListStays DEF Holds
<1>9. Advance(vq.seen) = (s + 1) % IndexWrap
  BY <1>1, <1>2, AdvanceRemainder DEF Holds
<1>10. (s + 1) % IndexWrap \in Nat
  BY <1>2, Sizes, RemainderType
<1>11. /\ g.seen = (s + 1) % IndexWrap /\ g.busy = vq.busy \cup {d}
       /\ g.freeHead = vq.freeHead /\ g.numFree = vq.numFree /\ g.next = vq.next
       /\ g.avail = vq.avail /\ g.availIdx = vq.availIdx
       /\ g.used = vq.used /\ g.usedIdx = vq.usedIdx /\ g.lastUsed = vq.lastUsed
  BY <1>2, <1>9 DEF TakeAvail, Queues
<1>12. g \in Queues
  BY <1>2, <1>7, <1>9, <1>10 DEF TakeAvail, Queues
<1>13. v \in [Desc -> Places]
  BY DEF Moved
<1>14. \A k \in s + 1 .. a - 1 : B[k] = g.avail[k % MaxDesc]
  BY <1>1, <1>2, <1>4, <1>11 DEF Holds
<1>15. /\ g.busy = {x \in Desc : v[x] = "device"} /\ d \notin vq.busy
       /\ hands = {x \in Desc : v[x] = "hands"}
  BY <1>1, <1>2, <1>7, <1>11 DEF Holds, Moved
<1>16. Count(g, a, s + 1, u, l, hands)
  <2>1. PICK b \in Nat, h \in Nat : b = Cardinality(vq.busy) /\ h = Cardinality(hands)
    BY <1>2, DescIsFinite DEF Queues
  <2>2. Cardinality(g.busy) = b + 1
    <3>1. vq.busy \in SUBSET Desc /\ d \in Desc /\ d \notin vq.busy
      BY <1>2, <1>7, <1>15 DEF Queues
    <3>2. Cardinality(vq.busy \cup {d}) = Cardinality(vq.busy) + 1
      BY <3>1, CardinalityOfOne
    <3> QED
      BY <1>11, <2>1, <3>2
  <2>3. PICK n \in Nat : n = vq.numFree
    BY <1>2
  <2>4. n + (a - s) + b + (u - l) + h = QueueSize
    BY <1>1, <2>1, <2>3 DEF Holds, Count
  <2>5. n + (a - (s + 1)) + (b + 1) + (u - l) + h = QueueSize
    BY <1>2, <2>4, Sizes
  <2> QED
    BY <1>11, <2>1, <2>2, <2>3, <2>5 DEF Count
<1>17. s + 1 \in Nat /\ s + 1 <= a
  BY <1>2, <1>3
<1>18. Holds(g, hands, v, F, B, U, a, s + 1, u, l)
  <2>1. /\ a \in Nat /\ u \in Nat /\ l \in Nat /\ l <= u
        /\ g.availIdx = a % IndexWrap /\ g.usedIdx = u % IndexWrap /\ g.lastUsed = l % IndexWrap
    BY <1>1, <1>11 DEF Holds
  <2>2. /\ Lists(v, "free", F, 1 .. g.numFree) /\ (g.numFree > 0 => F[g.numFree] = g.freeHead)
        /\ \A k \in 1 .. g.numFree - 1 : g.next[F[k + 1]] = F[k]
    BY <1>1, <1>8, <1>11 DEF Holds
  <2>3. Lists(v, "available", B, s + 1 .. a - 1)
    BY <1>7
  <2>4. \A k \in l .. u - 1 : U[k] = g.used[k % MaxDesc]
    BY <1>1, <1>11 DEF Holds
  <2> QED
    BY <1>8, <1>11, <1>12, <1>13, <1>14, <1>15, <1>16, <1>17, <2>1, <2>2, <2>3, <2>4 DEF Holds
<1> QED
  BY <1>7, <1>18 DEF Queue

LEMMA CompleteMoves ==
  ASSUME QueueSize = MaxDesc,
         NEW vq, NEW hands, NEW w, Queue(vq, hands, w), NEW d \in vq.busy,
         NEW g, g = Finish(vq, d), NEW v, Moved(w, v, d, "used")
  PROVE  Queue(g, hands, v) /\ d \in Desc /\ w[d] = "device"
<1>1. PICK F, A, U, a, s, u, l : Holds(vq, hands, w, F, A, U, a, s, u, l)
  BY DEF Queue
<1>2. /\ vq \in Queues /\ w \in [Desc -> Places] /\ vq.numFree \in Nat
      /\ a \in Nat /\ s \in Nat /\ u \in Nat /\ l \in Nat /\ s <= a /\ l <= u
      /\ "used" \in Places /\ hands \in SUBSET Desc
      /\ d \in Desc /\ w[d] = "device"
  BY <1>1 DEF Holds, Queues, Places
<1>3. PICK b \in Nat, h \in Nat, n \in Nat :
        b = Cardinality(vq.busy) /\ h = Cardinality(hands) /\ n = vq.numFree
  BY <1>2, DescIsFinite DEF Queues
<1>4. Cardinality(vq.busy \ {d}) = b - 1 /\ b > 0
  <2>1. vq.busy \in SUBSET Desc
    BY <1>2 DEF Queues
  <2>2. Cardinality(vq.busy \ {d}) = b - 1
    BY <1>2, <1>3, <2>1, CardinalityOfOne
  <2>3. vq.busy \ {d} \in SUBSET Desc
    BY <2>1
  <2>4. Cardinality(vq.busy \ {d}) \in Nat
    BY <2>3, DescIsFinite
  <2> QED
    BY <2>2, <2>4
<1>5. n + (a - s) + b + (u - l) + h = QueueSize
  BY <1>1, <1>3 DEF Holds, Count
<1>6. u < l + MaxDesc
  BY <1>2, <1>3, <1>4, <1>5, Sizes
<1>7. PICK T \in [l .. u -> Desc] : T[u] = d /\ \A j \in l .. u - 1 : T[j] = U[j]
  <2>1. PICK T : T = [j \in l .. u |-> IF j = u THEN d ELSE U[j]]
    OBVIOUS
  <2>2. U \in [l .. u - 1 -> Desc]
    BY <1>1 DEF Holds, Lists
  <2>3. T \in [l .. u -> Desc] /\ T[u] = d /\ \A j \in l .. u - 1 : T[j] = U[j]
    BY <1>2, <2>1, <2>2
  <2> QED
    BY <2>3
<1>8. u \notin l .. u - 1 /\ (l .. u - 1) \cup {u} = l .. u /\ (u + 1) - 1 = u
  BY <1>2
<1>9. Lists(v, "used", T, l .. u)
  <2>1. Lists(w, "used", U, l .. u - 1)
    BY <1>1 DEF Holds
  <2>2. With(U, l .. u - 1, u, d, T, l .. u)
    BY <1>7, <1>8 DEF With
  <2> QED
    BY <1>2, <1>8, <2>1, <2>2, ListJoined
<1>10. Lists(v, "free", F, 1 .. vq.numFree) /\ Lists(v, "available", A, s .. a - 1)
  BY <1>1, <1>2, ListStays DEF Holds
<1>11. /\ vq.usedIdx % QueueSize = u % MaxDesc /\ u % MaxDesc \in RingSlots
       /\ Advance(vq.usedIdx) = (u + 1) % IndexWrap
  BY <1>1, <1>2, SlotOfIndex, AdvanceRemainder DEF Holds
<1>12. (u + 1) % IndexWrap \in Nat
  <2>1. PICK m \in Nat \ {0}, x \in Nat : m = IndexWrap /\ x = u + 1
    BY <1>2, Sizes
  <2>2. x % m \in 0 .. m - 1
    OBVIOUS
  <2> QED
    BY <2>1, <2>2
<1>13. /\ g.used = [vq.used EXCEPT ![u % MaxDesc] = d]
       /\ g.usedIdx = (u + 1) % IndexWrap /\ g.busy = vq.busy \ {d}
       /\ g.freeHead = vq.freeHead /\ g.numFree = vq.numFree /\ g.next = vq.next
       /\ g.avail = vq.avail /\ g.availIdx = vq.availIdx
       /\ g.lastUsed = vq.lastUsed /\ g.seen = vq.seen
  BY <1>2, <1>11 DEF Finish, Queues
<1>14. g \in Queues
  BY <1>2, <1>11, <1>12 DEF Finish, Queues
<1>15. v \in [Desc -> Places]
  BY DEF Moved
<1>16. \A k \in l .. u : T[k] = g.used[k % MaxDesc]
  <2> SUFFICES ASSUME NEW k \in l .. u PROVE T[k] = g.used[k % MaxDesc]
    OBVIOUS
  <2>1. CASE k = u
    BY <1>2, <1>7, <1>11, <1>13, <2>1 DEF Queues
  <2>2. CASE k # u
    <3>1. k \in l .. u - 1 /\ k \in Nat /\ k < u
      BY <1>2, <2>2
    <3>2. k % MaxDesc # u % MaxDesc
      <4> SUFFICES ASSUME k % MaxDesc = u % MaxDesc PROVE FALSE
        OBVIOUS
      <4>1. k + MaxDesc <= u
        BY <1>2, <3>1, Sizes, RoundApart
      <4> QED
        BY <1>2, <1>6, <3>1, <4>1, Sizes
    <3>3. k % MaxDesc \in RingSlots
      BY <3>1, SlotOfIndex
    <3>4. T[k] = U[k] /\ U[k] = vq.used[k % MaxDesc]
      BY <1>1, <1>7, <2>2, <3>1 DEF Holds
    <3> QED
      BY <1>2, <1>11, <1>13, <3>2, <3>3, <3>4 DEF Queues
  <2> QED
    BY <2>1, <2>2
<1>17. g.busy = {x \in Desc : v[x] = "device"} /\ hands = {x \in Desc : v[x] = "hands"}
  BY <1>1, <1>2, <1>13 DEF Holds, Moved
<1>18. Count(g, a, s, u + 1, l, hands)
  <2>1. n + (a - s) + (b - 1) + ((u + 1) - l) + h = QueueSize
    BY <1>2, <1>3, <1>5, Sizes, SMTT(30)
  <2> QED
    BY <1>3, <1>4, <1>13, <2>1 DEF Count
<1>19. u + 1 \in Nat /\ l <= u + 1
  BY <1>2
<1>20. Holds(g, hands, v, F, A, T, a, s, u + 1, l)
  <2>1. l .. (u + 1) - 1 = l .. u
    BY <1>8
  <2>2. /\ g.availIdx = a % IndexWrap /\ g.seen = s % IndexWrap
        /\ g.usedIdx = (u + 1) % IndexWrap /\ g.lastUsed = l % IndexWrap
        /\ g.numFree > 0 => F[g.numFree] = g.freeHead
        /\ \A k \in 1 .. g.numFree - 1 : g.next[F[k + 1]] = F[k]
        /\ \A k \in s .. a - 1 : A[k] = g.avail[k % MaxDesc]
    BY <1>1, <1>13 DEF Holds
  <2> QED
    BY <1>2, <1>9, <1>10, <1>13, <1>14, <1>15, <1>16, <1>17, <1>18, <1>19, <2>1, <2>2 DEF Holds
<1> QED
  BY <1>2, <1>20 DEF Queue

-----------------------------------------------------------------------------
(* The lists of the three places, as the model reads them off the queue.   *)
Linked(vq, g, n) ==
  g = [k \in 0 .. n |-> IF k = 0 THEN vq.freeHead ELSE vq.next[g[k - 1]]]

LEMMA LinkExists ==
  ASSUME NEW vq, NEW n \in Nat
  PROVE  \E g : Linked(vq, g, n)
<1> DEFINE S == {m \in Nat : ~ \E g : Linked(vq, g, m)}
<1>1. SUFFICES ASSUME S # {} PROVE FALSE
  OBVIOUS
<1>2. PICK m \in S : \A y \in S : m <= y
  BY <1>1, LeastExists
<1>3. CASE m = 0
  <2>1. PICK g : g = [k \in 0 .. 0 |-> vq.freeHead]
    OBVIOUS
  <2>2. Linked(vq, g, 0)
    BY <2>1 DEF Linked
  <2> QED
    BY <1>2, <1>3, <2>2
<1>4. CASE m # 0
  <2>1. m \in Nat /\ m - 1 \in Nat /\ m - 1 \notin S
    BY <1>2, <1>4
  <2>2. PICK f : Linked(vq, f, m - 1)
    BY <2>1
  <2>3. \A k \in 0 .. m - 1 : f[k] = IF k = 0 THEN vq.freeHead ELSE vq.next[f[k - 1]]
    BY <2>1, <2>2 DEF Linked
  <2>4. PICK g : g = [k \in 0 .. m |-> IF k = m THEN vq.next[f[m - 1]] ELSE f[k]]
    OBVIOUS
  <2>5. ASSUME NEW k \in 0 .. m
        PROVE  g[k] = IF k = 0 THEN vq.freeHead ELSE vq.next[g[k - 1]]
    <3>1. CASE k = m
      BY <1>4, <2>1, <2>4, <3>1
    <3>2. CASE k # m
      <4>1. k \in 0 .. m - 1 /\ g[k] = f[k]
        BY <2>1, <2>4, <3>2
      <4>2. k # 0 => k - 1 \in 0 .. m /\ g[k - 1] = f[k - 1]
        BY <2>1, <2>4, <3>2, <4>1
      <4> QED
        BY <2>3, <4>1, <4>2
    <3> QED
      BY <3>1, <3>2
  <2>6. Linked(vq, g, m)
    BY <2>4, <2>5 DEF Linked
  <2> QED
    BY <1>2, <2>6
<1> QED
  BY <1>3, <1>4

LEMMA FreeListIs ==
  ASSUME NEW vq, NEW hands, NEW w, NEW F, NEW A, NEW U, NEW a, NEW s, NEW u, NEW l,
         Holds(vq, hands, w, F, A, U, a, s, u, l)
  PROVE  FreeList(vq) = [k \in 1 .. vq.numFree |-> F[vq.numFree + 1 - k]]
<1>1. PICK n \in 0 .. QueueSize : n = vq.numFree
  BY DEF Holds, Queues
<1>2. \E g : Linked(vq, g, QueueSize)
  BY Sizes, LinkExists
<1>3. PICK g : Linked(vq, g, QueueSize) /\ FreeList(vq) = [k \in 1 .. n |-> g[k - 1]]
  BY <1>1, <1>2 DEF Linked, FreeList
<1>4. \A k \in 0 .. QueueSize : g[k] = IF k = 0 THEN vq.freeHead ELSE vq.next[g[k - 1]]
  BY <1>3 DEF Linked
<1> DEFINE S == {k \in Nat : k < n /\ g[k] # F[n - k]}
<1>5. S = {}
  <2>1. SUFFICES ASSUME S # {} PROVE FALSE
    OBVIOUS
  <2>2. PICK m \in S : \A y \in S : m <= y
    BY <2>1, LeastExists
  <2>3. m \in Nat /\ m < n /\ m \in 0 .. QueueSize /\ g[m] # F[n - m]
    BY <1>1, <2>2, Sizes
  <2>4. CASE m = 0
    BY <1>1, <1>4, <2>3, <2>4, Sizes DEF Holds
  <2>5. CASE m # 0
    <3>1. m - 1 \in Nat /\ m - 1 < n /\ m - 1 \notin S
      BY <1>1, <2>2, <2>3, <2>5
    <3>2. g[m - 1] = F[n - (m - 1)]
      BY <3>1
    <3>3. n - m \in 1 .. n - 1 /\ n - (m - 1) = (n - m) + 1
      BY <1>1, <2>3, <2>5
    <3>4. vq.next[F[(n - m) + 1]] = F[n - m]
      BY <1>1, <3>3 DEF Holds
    <3> QED
      BY <1>4, <2>3, <2>5, <3>2, <3>3, <3>4
  <2> QED
    BY <2>4, <2>5
<1>6. \A k \in 1 .. n : g[k - 1] = F[n + 1 - k]
  <2> SUFFICES ASSUME NEW k \in 1 .. n PROVE g[k - 1] = F[n + 1 - k]
    OBVIOUS
  <2>1. k - 1 \in Nat /\ k - 1 < n /\ n - (k - 1) = n + 1 - k
    BY <1>1
  <2> QED
    BY <1>5, <2>1
<1> QED
  BY <1>1, <1>3, <1>6

LEMMA SequenceOfList ==
  ASSUME NEW w, NEW p, NEW f, NEW lo \in Nat, NEW hi \in Nat, lo <= hi,
         Lists(w, p, f, lo .. hi - 1),
         NEW q, q = [k \in 1 .. hi - lo |-> f[lo + k - 1]]
  PROVE  ToSet(q) = {x \in Desc : w[x] = p} /\ Len(q) = hi - lo
<1>1. Len(q) = hi - lo
  OBVIOUS
<1>2. ASSUME NEW x \in ToSet(q) PROVE x \in Desc /\ w[x] = p
  <2>1. PICK k \in 1 .. hi - lo : x = f[lo + k - 1]
    BY DEF ToSet
  <2>2. lo + k - 1 \in lo .. hi - 1
    OBVIOUS
  <2> QED
    BY <2>1, <2>2 DEF Lists
<1>3. ASSUME NEW x \in Desc, w[x] = p PROVE x \in ToSet(q)
  <2>1. PICK j \in lo .. hi - 1 : f[j] = x
    BY <1>3 DEF Lists
  <2>2. PICK k \in 1 .. hi - lo : k = j + 1 - lo
    OBVIOUS
  <2>3. lo + k - 1 = j
    BY <2>2
  <2>4. q[k] = x
    BY <2>1, <2>3
  <2> QED
    BY <2>4 DEF ToSet
<1> QED
  BY <1>1, <1>2, <1>3

LEMMA ReversedList ==
  ASSUME NEW w, NEW p, NEW f, NEW n \in Nat, Lists(w, p, f, 1 .. n),
         NEW q, q = [k \in 1 .. n |-> f[n + 1 - k]]
  PROVE  ToSet(q) = {x \in Desc : w[x] = p}
<1>1. ASSUME NEW x \in ToSet(q) PROVE x \in Desc /\ w[x] = p
  <2>1. PICK k \in 1 .. n : x = f[n + 1 - k]
    BY DEF ToSet
  <2>2. n + 1 - k \in 1 .. n
    OBVIOUS
  <2> QED
    BY <2>1, <2>2 DEF Lists
<1>2. ASSUME NEW x \in Desc, w[x] = p PROVE x \in ToSet(q)
  <2>1. PICK j \in 1 .. n : f[j] = x
    BY <1>2 DEF Lists
  <2>2. PICK k \in 1 .. n : k = n + 1 - j
    OBVIOUS
  <2>3. n + 1 - k = j
    BY <2>2
  <2>4. q[k] = x
    BY <2>1, <2>3
  <2> QED
    BY <2>4 DEF ToSet
<1> QED
  BY <1>1, <1>2

(* The slot of the k-th entry after an index, from the counter beside it.  *)
LEMMA EntriesBetween ==
  ASSUME NEW from \in Nat, NEW to \in Nat, from <= to, to - from <= QueueSize
  PROVE  /\ Between(from % IndexWrap, to % IndexWrap) = to - from
         /\ \A k \in 1 .. to - from :
              (((from % IndexWrap) + k - 1) % IndexWrap) % MaxDesc = (from + k - 1) % MaxDesc
<1>1. Between(from % IndexWrap, to % IndexWrap) = to - from
  <2>1. to < from + IndexWrap
    BY Sizes
  <2> QED
    BY <2>1, Sizes, DistanceOfRemainders DEF Between
<1>2. ASSUME NEW k \in 1 .. to - from
      PROVE  (((from % IndexWrap) + k - 1) % IndexWrap) % MaxDesc = (from + k - 1) % MaxDesc
  <2>1. PICK j \in Nat : j = k - 1
    OBVIOUS
  <2>2. PICK r \in Nat : r = from % IndexWrap
    BY Sizes, RemainderType
  <2>3. r + k - 1 = r + j /\ from + k - 1 = from + j
    BY <2>1, <2>2
  <2>4. (r + j) % IndexWrap = (from + j) % IndexWrap
    BY <2>2, Sizes, LaterRemainder
  <2>5. ((from + j) % IndexWrap) % MaxDesc = (from + j) % MaxDesc
    BY SlotOfIndex
  <2> QED
    BY <2>2, <2>3, <2>4, <2>5
<1> QED
  BY <1>1, <1>2

LEMMA RoomLeft ==
  ASSUME NEW vq, NEW hands, NEW w, NEW F, NEW A, NEW U, NEW a, NEW s, NEW u, NEW l,
         Holds(vq, hands, w, F, A, U, a, s, u, l)
  PROVE  a - s <= QueueSize /\ u - l <= QueueSize
<1>1. vq \in Queues /\ vq.busy \in SUBSET Desc /\ hands \in SUBSET Desc
  BY DEF Holds, Queues
<1>2. PICK b \in Nat, h \in Nat, n \in Nat :
        b = Cardinality(vq.busy) /\ h = Cardinality(hands) /\ n = vq.numFree
  BY <1>1, DescIsFinite DEF Queues
<1>3. /\ n + (a - s) + b + (u - l) + h = QueueSize
      /\ a \in Nat /\ s \in Nat /\ u \in Nat /\ l \in Nat /\ s <= a /\ l <= u
  BY <1>2 DEF Holds, Count
<1> QED
  BY <1>2, <1>3, Sizes

LEMMA QueueTypes ==
  ASSUME NEW vq, NEW hands, NEW w, Queue(vq, hands, w)
  PROVE  vq \in Queues /\ w \in [Desc -> Places]
BY DEF Queue, Holds

LEMMA PlacesAre ==
  ASSUME NEW vq, NEW hands, NEW w, Queue(vq, hands, w)
  PROVE  /\ ToSet(FreeList(vq)) = {x \in Desc : w[x] = "free"}
         /\ ToSet(Available(vq)) = {x \in Desc : w[x] = "available"}
         /\ vq.busy = {x \in Desc : w[x] = "device"}
         /\ ToSet(Finished(vq)) = {x \in Desc : w[x] = "used"}
         /\ hands = {x \in Desc : w[x] = "hands"}
         /\ w \in [Desc -> Places]
         /\ vq.numFree + Len(Available(vq)) + Cardinality(vq.busy)
              + Len(Finished(vq)) + Cardinality(hands) = QueueSize
<1>1. PICK F, A, U, a, s, u, l : Holds(vq, hands, w, F, A, U, a, s, u, l)
  BY DEF Queue
<1>2. PICK n \in Nat : n = vq.numFree
  BY <1>1 DEF Holds, Queues
<1>3. a \in Nat /\ s \in Nat /\ u \in Nat /\ l \in Nat /\ s <= a /\ l <= u
  BY <1>1 DEF Holds
<1>4. ToSet(FreeList(vq)) = {x \in Desc : w[x] = "free"}
  <2>1. FreeList(vq) = [k \in 1 .. n |-> F[n + 1 - k]]
    BY <1>1, <1>2, FreeListIs
  <2>2. Lists(w, "free", F, 1 .. n)
    BY <1>1, <1>2 DEF Holds
  <2> QED
    BY <2>1, <2>2, ReversedList
<1>5. ToSet(Available(vq)) = {x \in Desc : w[x] = "available"} /\ Len(Available(vq)) = a - s
  <2>1. /\ Between(vq.seen, vq.availIdx) = a - s
        /\ \A k \in 1 .. a - s : ((vq.seen + k - 1) % IndexWrap) % MaxDesc = (s + k - 1) % MaxDesc
    <3>1. vq.seen = s % IndexWrap /\ vq.availIdx = a % IndexWrap
      BY <1>1 DEF Holds
    <3>2. a - s <= QueueSize
      BY <1>1, RoomLeft
    <3>3. /\ Between(s % IndexWrap, a % IndexWrap) = a - s
          /\ \A k \in 1 .. a - s :
               (((s % IndexWrap) + k - 1) % IndexWrap) % MaxDesc = (s + k - 1) % MaxDesc
      BY <1>3, <3>2, EntriesBetween
    <3> QED
      BY <3>1, <3>3
  <2>2. \A k \in 1 .. a - s : vq.avail[(s + k - 1) % MaxDesc] = A[s + k - 1]
    <3> SUFFICES ASSUME NEW k \in 1 .. a - s
                 PROVE  vq.avail[(s + k - 1) % MaxDesc] = A[s + k - 1]
      OBVIOUS
    <3>1. s + k - 1 \in s .. a - 1
      BY <1>3
    <3> QED
      BY <1>1, <3>1 DEF Holds
  <2>3. Available(vq) = [k \in 1 .. a - s |-> A[s + k - 1]]
    BY <2>1, <2>2 DEF Available
  <2>4. Lists(w, "available", A, s .. a - 1)
    BY <1>1 DEF Holds
  <2>5. PICK q : q = Available(vq)
    OBVIOUS
  <2> QED
    BY <1>3, <2>3, <2>4, <2>5, SequenceOfList
<1>6. ToSet(Finished(vq)) = {x \in Desc : w[x] = "used"} /\ Len(Finished(vq)) = u - l
  <2>1. /\ Between(vq.lastUsed, vq.usedIdx) = u - l
        /\ \A k \in 1 .. u - l : ((vq.lastUsed + k - 1) % IndexWrap) % MaxDesc = (l + k - 1) % MaxDesc
    <3>1. vq.lastUsed = l % IndexWrap /\ vq.usedIdx = u % IndexWrap
      BY <1>1 DEF Holds
    <3>2. u - l <= QueueSize
      BY <1>1, RoomLeft
    <3>3. /\ Between(l % IndexWrap, u % IndexWrap) = u - l
          /\ \A k \in 1 .. u - l :
               (((l % IndexWrap) + k - 1) % IndexWrap) % MaxDesc = (l + k - 1) % MaxDesc
      BY <1>3, <3>2, EntriesBetween
    <3> QED
      BY <3>1, <3>3
  <2>2. \A k \in 1 .. u - l : vq.used[(l + k - 1) % MaxDesc] = U[l + k - 1]
    <3> SUFFICES ASSUME NEW k \in 1 .. u - l
                 PROVE  vq.used[(l + k - 1) % MaxDesc] = U[l + k - 1]
      OBVIOUS
    <3>1. l + k - 1 \in l .. u - 1
      BY <1>3
    <3> QED
      BY <1>1, <3>1 DEF Holds
  <2>3. Finished(vq) = [k \in 1 .. u - l |-> U[l + k - 1]]
    BY <2>1, <2>2 DEF Finished
  <2>4. Lists(w, "used", U, l .. u - 1)
    BY <1>1 DEF Holds
  <2> QED
    BY <1>3, <2>3, <2>4, SequenceOfList
<1>7. /\ vq.busy = {x \in Desc : w[x] = "device"}
      /\ hands = {x \in Desc : w[x] = "hands"} /\ w \in [Desc -> Places]
  BY <1>1 DEF Holds
<1>8. vq.numFree + (a - s) + Cardinality(vq.busy) + (u - l) + Cardinality(hands) = QueueSize
  BY <1>1 DEF Holds, Count
<1> QED
  BY <1>4, <1>5, <1>6, <1>7, <1>8

(* A queue whose descriptors all have a place has each in one place.       *)
LEMMA QueueIsOrderly ==
  ASSUME NEW vq, NEW hands, NEW w, Queue(vq, hands, w)
  PROVE  EachInOnePlace(vq, hands)
BY PlacesAre DEF EachInOnePlace, Places

-----------------------------------------------------------------------------
(* The queues that virtio_net_init leaves.                                 *)
LEMMA SomewhereElse ==
  ASSUME NEW w \in [Desc -> Places], NEW d \in Desc, NEW to \in Places
  PROVE  \E v : Moved(w, v, d, to)
<1>1. PICK v : v = [x \in Desc |-> IF x = d THEN to ELSE w[x]]
  OBVIOUS
<1> QED
  BY <1>1 DEF Moved

LEMMA EmptyQueue ==
  \E w : Queue(VqInit, {}, w) /\ \A d \in Desc : w[d] = "free"
<1>1. PICK w : w = [x \in Desc |-> "free"]
  OBVIOUS
<1>2. PICK F : F = [k \in 1 .. QueueSize |-> QueueSize - k]
  OBVIOUS
<1>3. PICK N : N = [k \in 0 .. -1 |-> 0]
  OBVIOUS
<1>4. 0 \in Desc
  BY Sizes DEF Desc
<1>5. Lists(w, "free", F, 1 .. QueueSize)
  <2>1. F \in [1 .. QueueSize -> Desc]
    BY <1>2, Sizes DEF Desc
  <2>2. ASSUME NEW d \in Desc PROVE \E k \in 1 .. QueueSize : F[k] = d
    <3>1. QueueSize - d \in 1 .. QueueSize /\ QueueSize - (QueueSize - d) = d
      BY Sizes DEF Desc
    <3> QED
      BY <1>2, <3>1
  <2>3. \A j, k \in 1 .. QueueSize : F[j] = F[k] => j = k
    BY <1>2, Sizes
  <2> QED
    BY <1>1, <2>1, <2>2, <2>3 DEF Lists
<1>6. /\ VqInit.numFree = QueueSize /\ VqInit.freeHead = 0 /\ VqInit.busy = {}
      /\ VqInit.availIdx = 0 /\ VqInit.seen = 0 /\ VqInit.usedIdx = 0 /\ VqInit.lastUsed = 0
      /\ VqInit.next = [i \in Desc |-> IF i = QueueSize - 1 THEN 0 ELSE i + 1]
  BY DEF VqInit
<1>7. VqInit \in Queues
  <2>1. \A i \in Desc : (IF i = QueueSize - 1 THEN 0 ELSE i + 1) \in Desc
    BY Sizes DEF Desc
  <2> QED
    BY <1>4, <2>1, Sizes DEF VqInit, Queues
<1>8. F[QueueSize] = 0
  BY <1>2, Sizes
<1>9. \A k \in 1 .. QueueSize - 1 : VqInit.next[F[k + 1]] = F[k]
  <2> SUFFICES ASSUME NEW k \in 1 .. QueueSize - 1 PROVE VqInit.next[F[k + 1]] = F[k]
    OBVIOUS
  <2>1. F[k + 1] = QueueSize - (k + 1) /\ F[k] = QueueSize - k
    BY <1>2, Sizes
  <2>2. /\ QueueSize - (k + 1) \in Desc /\ QueueSize - (k + 1) # QueueSize - 1
        /\ (QueueSize - (k + 1)) + 1 = QueueSize - k
    BY Sizes DEF Desc
  <2> QED
    BY <1>6, <2>1, <2>2
<1>10. Lists(w, "available", N, 0 .. 0 - 1) /\ Lists(w, "used", N, 0 .. 0 - 1)
  <2>1. 0 .. 0 - 1 = {} /\ 0 .. -1 = {}
    OBVIOUS
  <2> QED
    BY <1>1, <1>3, <2>1 DEF Lists
<1>11. Count(VqInit, 0, 0, 0, 0, {})
  BY <1>6, NoneAndOne, Sizes DEF Count
<1>12. 0 % IndexWrap = 0
  BY Sizes
<1>13. w \in [Desc -> Places]
  BY <1>1 DEF Places
<1>14. Holds(VqInit, {}, w, F, N, N, 0, 0, 0, 0)
  <2>1. 0 .. 0 - 1 = {}
    OBVIOUS
  <2>2. {} = {d \in Desc : w[d] = "device"} /\ {} = {d \in Desc : w[d] = "hands"}
    BY <1>1
  <2> QED
    BY <1>5, <1>6, <1>7, <1>8, <1>9, <1>10, <1>11, <1>12, <1>13, <2>1, <2>2 DEF Holds
<1> QED
  BY <1>1, <1>14 DEF Queue

Refilled(q) == SubmitDesc(AllocDesc(q), AllocHead(q))

Filled(f, n) ==
  f = [k \in 0 .. n |-> IF k = 0 THEN VqInit ELSE Refilled(f[k - 1])]

LEMMA FilledExists ==
  ASSUME NEW n \in Nat
  PROVE  \E f : Filled(f, n)
<1> DEFINE S == {m \in Nat : ~ \E f : Filled(f, m)}
<1>1. SUFFICES ASSUME S # {} PROVE FALSE
  OBVIOUS
<1>2. PICK m \in S : \A y \in S : m <= y
  BY <1>1, LeastExists
<1>3. CASE m = 0
  <2>1. PICK f : f = [k \in 0 .. 0 |-> VqInit]
    OBVIOUS
  <2>2. Filled(f, 0)
    BY <2>1 DEF Filled
  <2> QED
    BY <1>2, <1>3, <2>2
<1>4. CASE m # 0
  <2>1. m \in Nat /\ m - 1 \in Nat /\ m - 1 \notin S
    BY <1>2, <1>4
  <2>2. PICK f : Filled(f, m - 1)
    BY <2>1
  <2>3. \A k \in 0 .. m - 1 : f[k] = IF k = 0 THEN VqInit ELSE Refilled(f[k - 1])
    BY <2>1, <2>2 DEF Filled
  <2>4. PICK g : g = [k \in 0 .. m |-> IF k = m THEN Refilled(f[m - 1]) ELSE f[k]]
    OBVIOUS
  <2>5. ASSUME NEW k \in 0 .. m
        PROVE  g[k] = IF k = 0 THEN VqInit ELSE Refilled(g[k - 1])
    <3>1. CASE k = m
      BY <1>4, <2>1, <2>4, <3>1
    <3>2. CASE k # m
      <4>1. k \in 0 .. m - 1 /\ g[k] = f[k]
        BY <2>1, <2>4, <3>2
      <4>2. k # 0 => k - 1 \in 0 .. m /\ g[k - 1] = f[k - 1]
        BY <2>1, <2>4, <3>2, <4>1
      <4> QED
        BY <2>3, <4>1, <4>2
    <3> QED
      BY <3>1, <3>2
  <2>6. Filled(g, m)
    BY <2>4, <2>5 DEF Filled
  <2> QED
    BY <1>2, <2>6
<1> QED
  BY <1>3, <1>4

LEMMA RefillMoves ==
  ASSUME NEW q, NEW w, Queue(q, {}, w), CanAlloc(q)
  PROVE  \E v : Queue(Refilled(q), {}, v) /\ Refilled(q).numFree = q.numFree - 1
<1>1. "hands" \in Places /\ "available" \in Places /\ w \in [Desc -> Places]
  BY DEF Places, Queue, Holds
<1>2. PICK g, d : g = AllocDesc(q) /\ d = AllocHead(q)
  OBVIOUS
<1>3. PICK v : Moved(w, v, d, "hands")
  <2>1. d \in Desc
    BY <1>2 DEF Queue, Holds, Queues, AllocHead
  <2> QED
    BY <1>1, <2>1, SomewhereElse
<1>4. Queue(g, {d}, v) /\ g.numFree = q.numFree - 1
  BY <1>2, <1>3, AllocMoves
<1>5. v \in [Desc -> Places]
  BY <1>3 DEF Moved
<1>6. PICK y : Moved(v, y, d, "available")
  <2>1. d \in Desc
    BY <1>2 DEF Queue, Holds, Queues, AllocHead
  <2> QED
    BY <1>1, <1>5, <2>1, SomewhereElse
<1>7. PICK h : h = SubmitDesc(g, d)
  OBVIOUS
<1>8. Queue(h, {}, y) /\ h.numFree = g.numFree
  BY <1>4, <1>6, <1>7, SubmitMoves
<1>9. h = Refilled(q)
  BY <1>2, <1>7 DEF Refilled
<1> QED
  BY <1>4, <1>8, <1>9

LEMMA PrefilledQueue ==
  \E w : Queue(Prefilled, {}, w)
<1>1. \E f : Filled(f, QueueSize)
  BY Sizes, FilledExists
<1>2. PICK f : Filled(f, QueueSize) /\ Prefilled = f[QueueSize]
  BY <1>1 DEF Filled, Refilled, Prefilled
<1>3. \A k \in 0 .. QueueSize : f[k] = IF k = 0 THEN VqInit ELSE Refilled(f[k - 1])
  BY <1>2 DEF Filled
<1> DEFINE Ok(k) == (\E w : Queue(f[k], {}, w)) /\ f[k].numFree = QueueSize - k
           S == {k \in Nat : k <= QueueSize /\ ~Ok(k)}
<1>4. S = {}
  <2>1. SUFFICES ASSUME S # {} PROVE FALSE
    OBVIOUS
  <2>2. PICK m \in S : \A y \in S : m <= y
    BY <2>1, LeastExists
  <2>3. m \in Nat /\ m <= QueueSize /\ m \in 0 .. QueueSize /\ ~Ok(m)
    BY <2>2, Sizes
  <2>4. CASE m = 0
    <3>1. f[0] = VqInit /\ VqInit.numFree = QueueSize
      BY <1>3, Sizes DEF VqInit
    <3> QED
      BY <2>3, <2>4, <3>1, EmptyQueue, Sizes
  <2>5. CASE m # 0
    <3>1. m - 1 \in Nat /\ m - 1 <= QueueSize /\ m - 1 \notin S /\ QueueSize - (m - 1) > 0
      BY <2>2, <2>3, <2>5, Sizes
    <3>2. Ok(m - 1)
      BY <3>1
    <3>3. PICK q : q = f[m - 1]
      OBVIOUS
    <3>4. PICK w : Queue(q, {}, w)
      BY <3>2, <3>3
    <3>5. q.numFree = QueueSize - (m - 1) /\ CanAlloc(q)
      BY <3>1, <3>2, <3>3 DEF CanAlloc
    <3>6. PICK v : Queue(Refilled(q), {}, v) /\ Refilled(q).numFree = q.numFree - 1
      BY <3>4, <3>5, RefillMoves
    <3>7. f[m] = Refilled(q)
      BY <1>3, <2>3, <2>5, <3>3
    <3>8. (QueueSize - (m - 1)) - 1 = QueueSize - m
      BY <2>3, Sizes
    <3> QED
      BY <2>3, <3>5, <3>6, <3>7, <3>8
  <2> QED
    BY <2>4, <2>5
<1>5. Ok(QueueSize)
  BY <1>4, Sizes
<1> QED
  BY <1>2, <1>5

-----------------------------------------------------------------------------
(* The driver and the device.  As long as no wait gave up, the transmit    *)
(* queue has at most the descriptor of the running call outside its free   *)
(* list, and the shared buffer holds the frame that descriptor is for.     *)
HandsOf(c) == IF call = c THEN {held} ELSE {}

SendsOne(w) ==
  ~late => \A d \in Desc :
             w[d] # "free" => call \in {"send", "wait"} /\ d = held /\ given[d] = shared

NetInv(wt, wr) ==
  /\ Queue(txVq, HandsOf("send"), wt)
  /\ Queue(rxVq, HandsOf("recv"), wr)
  /\ shared \in {0, 1} /\ given \in [Desc -> {0, 1}]
  /\ SendsOne(wt)

Inv == \E wt, wr : NetInv(wt, wr)

LEMMA InvHoldsFirst ==
  VirtioInit => Inv
<1> SUFFICES ASSUME VirtioInit PROVE Inv
  OBVIOUS
<1>1. rxVq = Prefilled /\ txVq = VqInit /\ call = "none" /\ shared = 0
      /\ given = [d \in Desc |-> 0]
  BY DEF VirtioInit
<1>2. PICK wr : Queue(Prefilled, {}, wr)
  BY PrefilledQueue
<1>3. PICK wt : Queue(VqInit, {}, wt) /\ \A d \in Desc : wt[d] = "free"
  BY EmptyQueue
<1>4. HandsOf("send") = {} /\ HandsOf("recv") = {}
  BY <1>1 DEF HandsOf
<1> QED
  BY <1>1, <1>2, <1>3, <1>4 DEF Inv, NetInv, SendsOne

LEMMA SendBeginKeeps ==
  ASSUME NEW wt, NEW wr, NetInv(wt, wr), SendBegin
  PROVE  Inv'
<1>1. Queue(txVq, {}, wt) /\ Queue(rxVq, {}, wr) /\ SendsOne(wt) /\ wt \in [Desc -> Places]
  <2>1. HandsOf("send") = {} /\ HandsOf("recv") = {}
    BY DEF SendBegin, HandsOf
  <2> QED
    BY <2>1, QueueTypes DEF NetInv
<1>2. /\ call = "none" /\ call' = "send" /\ CanAlloc(txVq)
      /\ held' = AllocHead(txVq) /\ txVq' = AllocDesc(txVq)
      /\ rxVq' = rxVq /\ late' = late
      /\ shared' = 1 - shared /\ given' = [given EXCEPT ![held'] = shared']
  BY DEF SendBegin
<1>3. held' \in Desc /\ "hands" \in Places
  BY <1>1, <1>2 DEF Queue, Holds, Queues, AllocHead, Places
<1>4. PICK v : Moved(wt, v, held', "hands")
  BY <1>1, <1>3, SomewhereElse
<1>5. Queue(txVq', {held'}, v)
  BY <1>1, <1>2, <1>4, AllocMoves
<1>6. HandsOf("send")' = {held'} /\ HandsOf("recv")' = {}
  BY <1>2 DEF HandsOf
<1>7. shared' \in {0, 1} /\ given' \in [Desc -> {0, 1}] /\ given'[held'] = shared'
  BY <1>2, <1>3 DEF NetInv
<1>8. SendsOne(v)'
  BY <1>1, <1>2, <1>4, <1>7 DEF SendsOne, Moved
<1> QED
  BY <1>1, <1>2, <1>5, <1>6, <1>7, <1>8 DEF Inv, NetInv

LEMMA SendEndKeeps ==
  ASSUME NEW wt, NEW wr, NetInv(wt, wr), SendEnd
  PROVE  Inv'
<1>1. Queue(txVq, {held}, wt) /\ Queue(rxVq, {}, wr) /\ SendsOne(wt) /\ wt \in [Desc -> Places]
  <2>1. HandsOf("send") = {held} /\ HandsOf("recv") = {}
    BY DEF SendEnd, HandsOf
  <2> QED
    BY <2>1, QueueTypes DEF NetInv
<1>2. /\ call = "send" /\ call' = "wait" /\ txVq' = SubmitDesc(txVq, held)
      /\ rxVq' = rxVq /\ held' = held
      /\ shared' = shared /\ given' = given /\ late' = late
  BY DEF SendEnd, txVars
<1>3. held \in Desc /\ "available" \in Places
  BY <1>1 DEF Queue, Holds, Places
<1>4. PICK v : Moved(wt, v, held, "available")
  BY <1>1, <1>3, SomewhereElse
<1>5. Queue(txVq', {}, v) /\ wt[held] = "hands"
  BY <1>1, <1>2, <1>4, SubmitMoves
<1>6. HandsOf("send")' = {} /\ HandsOf("recv")' = {}
  BY <1>2 DEF HandsOf
<1>7. SendsOne(v)'
  BY <1>1, <1>2, <1>3, <1>4, <1>5 DEF SendsOne, Moved
<1> QED
  BY <1>1, <1>2, <1>5, <1>6, <1>7 DEF Inv, NetInv

LEMMA WaitTxDoneKeeps ==
  ASSUME NEW wt, NEW wr, NetInv(wt, wr), VirtioWaitTxDone
  PROVE  Inv'
<1>1. Queue(txVq, {}, wt) /\ Queue(rxVq, {}, wr) /\ SendsOne(wt) /\ wt \in [Desc -> Places]
  <2>1. HandsOf("send") = {} /\ HandsOf("recv") = {}
    BY DEF VirtioWaitTxDone, HandsOf
  <2> QED
    BY <2>1, QueueTypes DEF NetInv
<1>2. /\ call = "wait" /\ call' = "none" /\ rxVq' = rxVq /\ held' = held
      /\ shared' = shared /\ given' = given
  BY DEF VirtioWaitTxDone
<1>3. HandsOf("send")' = {} /\ HandsOf("recv")' = {}
  BY <1>2 DEF HandsOf
<1>4. CASE late' = TRUE /\ txVq' = txVq
  <2>1. SendsOne(wt)'
    BY <1>4 DEF SendsOne
  <2> QED
    BY <1>1, <1>2, <1>3, <1>4, <2>1 DEF Inv, NetInv
<1>5. CASE HasUsed(txVq) /\ txVq' = Reaped(txVq) /\ late' = late
  <2>1. PICK g, d : g = PopUsed(txVq) /\ d = UsedId(txVq)
    OBVIOUS
  <2>2. d \in Desc /\ "hands" \in Places /\ "free" \in Places
    <3>1. txVq.used \in [RingSlots -> Desc] /\ txVq.lastUsed \in Nat
      BY <1>1 DEF Queue, Holds, Queues
    <3>2. txVq.lastUsed % MaxDesc \in RingSlots
      BY <3>1, SlotOfIndex
    <3> QED
      BY <2>1, <3>1, <3>2 DEF UsedId, Places
  <2>3. PICK v : Moved(wt, v, d, "hands")
    BY <1>1, <2>2, SomewhereElse
  <2>4. Queue(g, {d}, v) /\ wt[d] = "used"
    BY <1>1, <1>5, <2>1, <2>3, PopMoves
  <2>5. v \in [Desc -> Places]
    BY <2>3 DEF Moved
  <2>6. PICK y : Moved(v, y, d, "free")
    BY <2>2, <2>5, SomewhereElse
  <2>7. txVq' = FreeDesc(g, d)
    BY <1>5, <2>1 DEF Reaped
  <2>8. Queue(txVq', {}, y)
    BY <2>4, <2>6, <2>7, FreeMoves
  <2>9. SendsOne(y)'
    <3> SUFFICES ASSUME ~late', NEW x \in Desc PROVE y[x] = "free"
      BY DEF SendsOne
    <3>1. d = held
      BY <1>1, <1>5, <2>2, <2>4 DEF SendsOne
    <3>2. x # d => wt[x] = "free"
      BY <1>1, <1>5, <3>1 DEF SendsOne
    <3> QED
      BY <2>3, <2>6, <3>2 DEF Moved
  <2> QED
    BY <1>1, <1>2, <1>3, <2>8, <2>9 DEF Inv, NetInv
<1> QED
  BY <1>4, <1>5 DEF VirtioWaitTxDone

LEMMA RecvBeginKeeps ==
  ASSUME NEW wt, NEW wr, NetInv(wt, wr), RecvBegin
  PROVE  Inv'
<1>1. Queue(txVq, {}, wt) /\ Queue(rxVq, {}, wr) /\ SendsOne(wt) /\ wr \in [Desc -> Places]
  <2>1. HandsOf("send") = {} /\ HandsOf("recv") = {}
    BY DEF RecvBegin, HandsOf
  <2> QED
    BY <2>1, QueueTypes DEF NetInv
<1>2. /\ call = "none" /\ call' = "recv" /\ HasUsed(rxVq) /\ held' = UsedId(rxVq)
      /\ rxVq' = PopUsed(rxVq) /\ txVq' = txVq
      /\ shared' = shared /\ given' = given /\ late' = late
  BY DEF RecvBegin, txVars
<1>3. held' \in Desc /\ "hands" \in Places
  <2>1. rxVq.used \in [RingSlots -> Desc] /\ rxVq.lastUsed \in Nat
    BY <1>1 DEF Queue, Holds, Queues
  <2>2. rxVq.lastUsed % MaxDesc \in RingSlots
    BY <2>1, SlotOfIndex
  <2> QED
    BY <1>2, <2>1, <2>2 DEF UsedId, Places
<1>4. PICK v : Moved(wr, v, held', "hands")
  BY <1>1, <1>3, SomewhereElse
<1>5. Queue(rxVq', {held'}, v)
  BY <1>1, <1>2, <1>4, PopMoves
<1>6. HandsOf("send")' = {} /\ HandsOf("recv")' = {held'}
  BY <1>2 DEF HandsOf
<1>7. SendsOne(wt)'
  BY <1>1, <1>2 DEF SendsOne
<1> QED
  BY <1>1, <1>2, <1>5, <1>6, <1>7 DEF Inv, NetInv

LEMMA RecvEndKeeps ==
  ASSUME NEW wt, NEW wr, NetInv(wt, wr), RecvEnd
  PROVE  Inv'
<1>1. Queue(txVq, {}, wt) /\ Queue(rxVq, {held}, wr) /\ SendsOne(wt) /\ wr \in [Desc -> Places]
  <2>1. HandsOf("send") = {} /\ HandsOf("recv") = {held}
    BY DEF RecvEnd, HandsOf
  <2> QED
    BY <2>1, QueueTypes DEF NetInv
<1>2. /\ call = "recv" /\ call' = "none" /\ rxVq' = SubmitDesc(rxVq, held)
      /\ txVq' = txVq /\ held' = held
      /\ shared' = shared /\ given' = given /\ late' = late
  BY DEF RecvEnd, txVars
<1>3. held \in Desc /\ "available" \in Places
  BY <1>1 DEF Queue, Holds, Places
<1>4. PICK v : Moved(wr, v, held, "available")
  BY <1>1, <1>3, SomewhereElse
<1>5. Queue(rxVq', {}, v)
  BY <1>1, <1>2, <1>4, SubmitMoves
<1>6. HandsOf("send")' = {} /\ HandsOf("recv")' = {}
  BY <1>2 DEF HandsOf
<1>7. SendsOne(wt)'
  BY <1>1, <1>2 DEF SendsOne
<1> QED
  BY <1>1, <1>2, <1>5, <1>6, <1>7 DEF Inv, NetInv

(* Whatever the device does on a queue moves no descriptor to or from the  *)
(* free list.                                                              *)
LEMMA DeviceMoves ==
  ASSUME QueueSize = MaxDesc, NEW vq, NEW hands, NEW w, Queue(vq, hands, w), NEW g,
         \/ CanTake(vq) /\ g = TakeAvail(vq)
         \/ \E id \in vq.busy : g = Finish(vq, id)
  PROVE  \E v : Queue(g, hands, v) /\ \A d \in Desc : v[d] # "free" => w[d] # "free"
<1>1. /\ w \in [Desc -> Places] /\ "device" \in Places /\ "used" \in Places
      /\ vq.busy \in SUBSET Desc /\ vq.avail \in [RingSlots -> Desc] /\ vq.seen \in Nat
  BY DEF Queue, Holds, Queues, Places
<1>2. CASE CanTake(vq) /\ g = TakeAvail(vq)
  <2>1. PICK d : d = vq.avail[vq.seen % QueueSize]
    OBVIOUS
  <2>2. d \in Desc
    <3>1. vq.seen % QueueSize \in RingSlots
      <4>1. PICK m \in Nat \ {0}, x \in Nat : m = QueueSize /\ x = vq.seen
        BY <1>1, Sizes
      <4>2. x % m \in 0 .. m - 1
        OBVIOUS
      <4> QED
        BY <4>1, <4>2 DEF RingSlots
    <3> QED
      BY <1>1, <2>1, <3>1
  <2>3. PICK v : Moved(w, v, d, "device")
    BY <1>1, <2>2, SomewhereElse
  <2>4. Queue(g, hands, v) /\ w[d] = "available"
    BY <1>2, <2>1, <2>3, TakeMoves
  <2> QED
    BY <2>3, <2>4 DEF Moved
<1>3. CASE \E id \in vq.busy : g = Finish(vq, id)
  <2>1. PICK d \in vq.busy : g = Finish(vq, d)
    BY <1>3
  <2>2. PICK v : Moved(w, v, d, "used")
    BY <1>1, SomewhereElse
  <2>3. Queue(g, hands, v) /\ w[d] = "device"
    BY <2>1, <2>2, CompleteMoves
  <2> QED
    BY <2>2, <2>3 DEF Moved
<1> QED
  BY <1>2, <1>3

LEMMA DeviceKeeps ==
  ASSUME QueueSize = MaxDesc, NEW wt, NEW wr, NetInv(wt, wr), DeviceOnTx \/ DeviceOnRx
  PROVE  Inv'
<1>1. /\ call' = call /\ held' = held /\ shared' = shared /\ given' = given /\ late' = late
  BY DEF DeviceOnTx, DeviceOnRx, txVars
<1>2. HandsOf("send")' = HandsOf("send") /\ HandsOf("recv")' = HandsOf("recv")
  BY <1>1 DEF HandsOf
<1>3. CASE DeviceOnTx
  <2>1. rxVq' = rxVq
    BY <1>3 DEF DeviceOnTx
  <2>2. PICK v : /\ Queue(txVq', HandsOf("send"), v)
                 /\ \A d \in Desc : v[d] # "free" => wt[d] # "free"
    BY <1>3, DeviceMoves DEF NetInv, DeviceOnTx
  <2>3. SendsOne(v)'
    BY <1>1, <2>2 DEF NetInv, SendsOne
  <2> QED
    BY <1>1, <1>2, <2>1, <2>2, <2>3 DEF Inv, NetInv
<1>4. CASE DeviceOnRx
  <2>1. txVq' = txVq
    BY <1>4 DEF DeviceOnRx
  <2>2. PICK v : Queue(rxVq', HandsOf("recv"), v)
    BY <1>4, DeviceMoves DEF NetInv, DeviceOnRx
  <2>3. SendsOne(wt)'
    BY <1>1 DEF NetInv, SendsOne
  <2> QED
    BY <1>1, <1>2, <2>1, <2>2, <2>3 DEF Inv, NetInv
<1> QED
  BY <1>3, <1>4

LEMMA StepKeepsInv ==
  ASSUME QueueSize = MaxDesc, Inv, [VirtioNext]_virtioVars
  PROVE  Inv'
<1>1. PICK wt, wr : NetInv(wt, wr)
  BY DEF Inv
<1>2. CASE UNCHANGED virtioVars
  BY <1>1, <1>2 DEF virtioVars, txVars, Inv, NetInv, SendsOne, HandsOf
<1>3. CASE Transmitting
  BY <1>1, <1>3, SendBeginKeeps, SendEndKeeps, WaitTxDoneKeeps, DeviceKeeps DEF Transmitting
<1>4. CASE Receiving
  BY <1>1, <1>4, RecvBeginKeeps, RecvEndKeeps, DeviceKeeps DEF Receiving
<1> QED
  BY <1>2, <1>3, <1>4 DEF VirtioNext

(* No descriptor is lost or handed out twice, on queues of any length and  *)
(* with indices of any width: virtio.c's vq_ helpers and whatever the      *)
(* device makes of the rings, in any order.                                *)
THEOREM DescriptorsKeepTheirPlace ==
  ASSUME QueueSize = MaxDesc
  PROVE  VirtioSpec => []InOnePlace
<1>1. Inv => InOnePlace
  BY QueueIsOrderly DEF Inv, NetInv, HandsOf, InOnePlace
<1>2. VirtioInit => Inv
  BY InvHoldsFirst
<1>3. Inv /\ [VirtioNext]_virtioVars => Inv'
  BY StepKeepsInv
<1> QED
  BY <1>1, <1>2, <1>3, PTL DEF VirtioSpec

(* recv copies from a buffer the device does not have, and as long as no   *)
(* wait gave up every frame the device still has to read in the one        *)
(* transmit buffer is the one it was told to send.                         *)
THEOREM BuffersHaveOneWriter ==
  ASSUME QueueSize = MaxDesc
  PROVE  VirtioSpec => []BuffersAreKept
<1>1. Inv => BuffersAreKept
  <2> SUFFICES ASSUME NEW wt, NEW wr, NetInv(wt, wr) PROVE BuffersAreKept
    BY DEF Inv
  <2>1. Queue(txVq, HandsOf("send"), wt) /\ Queue(rxVq, HandsOf("recv"), wr) /\ SendsOne(wt)
    BY DEF NetInv
  <2>2. call = "recv" => held \notin rxVq.busy \cup ToSet(Available(rxVq))
    BY <2>1, PlacesAre DEF HandsOf
  <2>3. ASSUME ~late, NEW d \in txVq.busy \cup ToSet(Available(txVq))
        PROVE  given[d] = shared
    BY <2>1, <2>3, PlacesAre DEF SendsOne
  <2> QED
    BY <2>2, <2>3 DEF BuffersAreKept
<1>2. VirtioInit => Inv
  BY InvHoldsFirst
<1>3. Inv /\ [VirtioNext]_virtioVars => Inv'
  BY StepKeepsInv
<1> QED
  BY <1>1, <1>2, <1>3, PTL DEF VirtioSpec
=============================================================================
