------------------------------ MODULE Virtqueue ------------------------------
(***************************************************************************)
(* One virtqueue of src/drivers/virtio/virtio.c: the memory the driver and *)
(* the device share, and the indices each keeps for itself.  The first     *)
(* part holds the vq_ helpers of the driver; the second the device, which  *)
(* is not in the repository: it takes what is available in order and may   *)
(* finish it in any order.                                                 *)
(*                                                                         *)
(* Chains have one descriptor each: every caller of vq_alloc_desc asks for *)
(* one, and both clear F_NEXT before they submit it.                       *)
(***************************************************************************)
EXTENDS Integers, FiniteSets

CONSTANTS
  MaxDesc,    \* VIRTQ_MAX_DESC (256 in the build)
  QueueSize,  \* the size the device reports
  IndexWrap   \* where avail_idx, used_idx and last_used_idx wrap (2^16)

ASSUME VirtqueueAssumption ==
  /\ QueueSize \in Nat \ {0}
  /\ MaxDesc \in Nat /\ QueueSize <= MaxDesc
  /\ IndexWrap \in Nat /\ MaxDesc < IndexWrap /\ IndexWrap % MaxDesc = 0

Desc == 0 .. QueueSize - 1
RingSlots == 0 .. MaxDesc - 1
Advance(idx) == (idx + 1) % IndexWrap

(* How many entries lie between two indices.                               *)
Between(from, to) == (to - from) % IndexWrap

-----------------------------------------------------------------------------
(* vq_init.                                                                *)
VqInit ==
  [next     |-> [i \in Desc |-> IF i = QueueSize - 1 THEN 0 ELSE i + 1],
   freeHead |-> 0,
   numFree  |-> QueueSize,
   avail    |-> [i \in RingSlots |-> 0],
   availIdx |-> 0,
   used     |-> [i \in RingSlots |-> 0],
   usedIdx  |-> 0,
   lastUsed |-> 0,
   seen     |-> 0,     \* the device's place in the available ring
   busy     |-> {}]    \* what the device works on

(* vq_alloc_desc for one descriptor: the answer and what it leaves.        *)
CanAlloc(vq) == vq.numFree > 0
AllocHead(vq) == vq.freeHead
AllocDesc(vq) == [vq EXCEPT !.freeHead = vq.next[@], !.numFree = @ - 1]

(* As FreeDesc, but the head moves before the link is taken from it.       *)
FreeDescSwapped(vq, id) ==
  [vq EXCEPT !.next[id] = id, !.freeHead = id, !.numFree = @ + 1]

(* vq_free_desc.                                                           *)
FreeDesc(vq, id) ==
  [vq EXCEPT !.next[id] = vq.freeHead, !.freeHead = id, !.numFree = @ + 1]

(* As SubmitDesc, but the index moves before the entry is chosen.          *)
SubmitAhead(vq, id) ==
  [vq EXCEPT !.avail[Advance(vq.availIdx) % MaxDesc] = id,
             !.availIdx = Advance(@)]

(* vq_submit.                                                              *)
SubmitDesc(vq, id) ==
  [vq EXCEPT !.avail[vq.availIdx % MaxDesc] = id, !.availIdx = Advance(@)]

(* As HasUsed, but the indices are not compared.                           *)
HasUsedAlways(vq) == TRUE

(* vq_get_used.                                                            *)
HasUsed(vq) == vq.lastUsed # vq.usedIdx
UsedId(vq) == vq.used[vq.lastUsed % MaxDesc]
PopUsed(vq) == [vq EXCEPT !.lastUsed = Advance(@)]

-----------------------------------------------------------------------------
(* The device.  It reduces the indices by its own queue size.              *)
CanTake(vq) == vq.seen # vq.availIdx
TakeAvail(vq) == [vq EXCEPT !.busy = @ \cup {vq.avail[vq.seen % QueueSize]},
                            !.seen = Advance(@)]
Finish(vq, id) == [vq EXCEPT !.busy = @ \ {id},
                             !.used[vq.usedIdx % QueueSize] = id,
                             !.usedIdx = Advance(@)]

-----------------------------------------------------------------------------
(* The free list, the available entries and the used ones, each in order.  *)
FreeList(vq) ==
  LET link[k \in 0 .. QueueSize] ==
        IF k = 0 THEN vq.freeHead ELSE vq.next[link[k - 1]]
  IN  [k \in 1 .. vq.numFree |-> link[k - 1]]
Available(vq) ==
  [k \in 1 .. Between(vq.seen, vq.availIdx) |->
     vq.avail[((vq.seen + k - 1) % IndexWrap) % MaxDesc]]
Finished(vq) ==
  [k \in 1 .. Between(vq.lastUsed, vq.usedIdx) |->
     vq.used[((vq.lastUsed + k - 1) % IndexWrap) % MaxDesc]]
=============================================================================
