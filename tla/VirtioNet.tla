------------------------------ MODULE VirtioNet ------------------------------
(***************************************************************************)
(* The virtio-net driver of src/drivers/virtio/virtio.c below net_ping: a  *)
(* receive queue that init fills with buffers and recv refills, and a      *)
(* transmit queue whose descriptors send takes and wait_tx_done brings     *)
(* back.  Each receive descriptor has a buffer of its own; every frame     *)
(* sent is built in pkt_buf[0].  The device works beside the driver, and   *)
(* wait_tx_done may give up before the device is done.                     *)
(***************************************************************************)
EXTENDS Virtqueue, Sequences, SequencesExt

VARIABLES
  rxVq, txVq,  \* g_virtio_net.rx_vq and tx_vq
  call,        \* the call in progress
  held,        \* the descriptor it holds
  shared,      \* the frame in pkt_buf[0] of tx_vq: frames are 0 and 1 by turns
  given,       \* history: the frame each transmit descriptor was taken for
  late         \* history: some wait_tx_done gave up

txVars == <<shared, given, late>>
virtioVars == <<rxVq, txVq, call, held, txVars>>

(* virtio_net_init allocates and submits every receive descriptor.         *)
Prefilled ==
  LET filled[k \in 0 .. QueueSize] ==
        IF k = 0 THEN VqInit
        ELSE LET q == filled[k - 1] IN SubmitDesc(AllocDesc(q), AllocHead(q))
  IN  filled[QueueSize]

VirtioInit ==
  /\ rxVq = Prefilled
  /\ txVq = VqInit
  /\ call = "none"
  /\ held = 0
  /\ shared = 0
  /\ given = [d \in Desc |-> 0]
  /\ late = FALSE

-----------------------------------------------------------------------------
(* virtio_net_send up to vq_submit; with no descriptor it returns -2.      *)
SendBegin ==
  /\ call = "none"
  /\ CanAlloc(txVq)
  /\ held' = AllocHead(txVq)
  /\ txVq' = AllocDesc(txVq)
  /\ shared' = 1 - shared
  /\ given' = [given EXCEPT ![held'] = shared']
  /\ call' = "send"
  /\ UNCHANGED <<rxVq, late>>

SendEnd ==
  /\ call = "send"
  /\ txVq' = SubmitDesc(txVq, held)
  /\ call' = "wait"
  /\ UNCHANGED <<rxVq, held, txVars>>

Reaped(q) == FreeDesc(PopUsed(q), UsedId(q))

(* virtio_net_wait_tx_done, which net_ping calls behind every send that    *)
(* did not fail: at most one descriptor comes back, maybe that of an       *)
(* earlier send.  Giving up leaves the descriptor where it is.             *)
VirtioWaitTxDone ==
  /\ call = "wait"
  /\ \/ HasUsed(txVq) /\ txVq' = Reaped(txVq) /\ UNCHANGED late
     \/ late' = TRUE /\ UNCHANGED txVq
  /\ call' = "none"
  /\ UNCHANGED <<rxVq, held, shared, given>>

(* virtio_net_recv, which copies the packet out of the buffer before it    *)
(* gives the buffer back.                                                  *)
RecvBegin ==
  /\ call = "none"
  /\ HasUsed(rxVq)
  /\ held' = UsedId(rxVq)
  /\ rxVq' = PopUsed(rxVq)
  /\ call' = "recv"
  /\ UNCHANGED <<txVq, txVars>>

RecvEnd ==
  /\ call = "recv"
  /\ rxVq' = SubmitDesc(rxVq, held)
  /\ call' = "none"
  /\ UNCHANGED <<txVq, held, txVars>>

-----------------------------------------------------------------------------
DeviceOnTx ==
  /\ \/ CanTake(txVq) /\ txVq' = TakeAvail(txVq)
     \/ \E id \in txVq.busy : txVq' = Finish(txVq, id)
  /\ UNCHANGED <<rxVq, call, held, txVars>>

DeviceOnRx ==
  /\ \/ CanTake(rxVq) /\ rxVq' = TakeAvail(rxVq)
     \/ \E id \in rxVq.busy : rxVq' = Finish(rxVq, id)
  /\ UNCHANGED <<txVq, call, held, txVars>>

Transmitting == SendBegin \/ SendEnd \/ VirtioWaitTxDone \/ DeviceOnTx
Receiving == RecvBegin \/ RecvEnd \/ DeviceOnRx

VirtioNext == Transmitting \/ Receiving

VirtioSpec == VirtioInit /\ [][VirtioNext]_virtioVars

-----------------------------------------------------------------------------
(* Properties.                                                             *)

(* Where the descriptors of a queue are: free, available, with the device, *)
(* used, or in the hands of the running call.  The places cover all of     *)
(* them, and there is no room to cover one twice.                          *)
EachInOnePlace(vq, hands) ==
  /\ ToSet(FreeList(vq)) \cup ToSet(Available(vq)) \cup vq.busy
       \cup ToSet(Finished(vq)) \cup hands = Desc
  /\ vq.numFree + Len(Available(vq)) + Cardinality(vq.busy)
       + Len(Finished(vq)) + Cardinality(hands) = QueueSize

(* No descriptor is lost or handed out twice, on either queue, in whatever *)
(* order the device finishes and however often a wait gave up.             *)
InOnePlace ==
  /\ EachInOnePlace(txVq, IF call = "send" THEN {held} ELSE {})
  /\ EachInOnePlace(rxVq, IF call = "recv" THEN {held} ELSE {})

(* No buffer is written under its reader.  The one that recv copies from is*)
(* not the device's; and although all frames share one buffer, what the    *)
(* device still has to read there is the frame it was told to send, as     *)
(* long as no wait gave up: so a send and its wait never overlap the next. *)
BuffersAreKept ==
  /\ call = "recv" => held \notin rxVq.busy \cup ToSet(Available(rxVq))
  /\ ~late => \A d \in txVq.busy \cup ToSet(Available(txVq)) : given[d] = shared
=============================================================================
