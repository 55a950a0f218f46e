-------------------------------- MODULE E1000 --------------------------------
(***************************************************************************)
(* The two descriptor rings that the e1000 driver (src/drivers/net/e1000.c)*)
(* shares with the network card.  A ring is one record: the buffers, the   *)
(* driver's own index and the two index registers of the card.  The        *)
(* operators of the first part are the driver's accesses to memory and     *)
(* registers, those of the second part are the card, which is not in the   *)
(* repository: it works on the descriptors from its head up to its tail.   *)
(***************************************************************************)
EXTENDS Integers

CONSTANTS
  NumDesc,  \* E1000_NUM_DESC: descriptors in a ring (64 in the build)
  NoFrame   \* the content of a buffer that was never filled

ASSUME E1000Assumption == NumDesc \in Nat /\ NumDesc >= 2

Ring == 0 .. NumDesc - 1
After(i) == (i + 1) % NumDesc

(* virtio_net_init: nothing to send, and all receive descriptors but one   *)
(* are the card's.                                                         *)
TxInit == [buf |-> [i \in Ring |-> NoFrame], cur |-> 0, tail |-> 0, head |-> 0]
RxInit == [buf  |-> [i \in Ring |-> NoFrame],
           done |-> [i \in Ring |-> FALSE],
           next |-> 0, tail |-> NumDesc - 1, head |-> 0]

-----------------------------------------------------------------------------
(* The driver.                                                             *)

(* As Fill, but one descriptor too far.                                    *)
FillAfter(tx, f) == [tx EXCEPT !.buf[After(tx.cur)] = f]

(* virtio_net_send, up to the fence: the descriptor at tx_cur gets the     *)
(* frame.  Whether the card is done with that descriptor is not asked.     *)
Fill(tx, f) == [tx EXCEPT !.buf[tx.cur] = f]

(* ... and behind it: TDT lets the card have the descriptor.               *)
PushTail(tx) == [tx EXCEPT !.cur = After(@), !.tail = After(tx.cur)]

(* The condition virtio_net_wait_tx_done spins on.                         *)
CaughtUp(tx) == tx.head = tx.cur

(* The DD bit virtio_net_recv looks at first.                              *)
Ready(rx) == rx.done[rx.next]

(* As Clear, but the DD bit stays set.                                     *)
ClearNothing(rx) == rx

(* virtio_net_recv, up to its second fence.                                *)
Clear(rx) == [rx EXCEPT !.done[rx.next] = FALSE]

(* ... and behind it: RDT gets the index of the descriptor just emptied.   *)
GiveBack(rx) == [rx EXCEPT !.next = After(@), !.tail = rx.next]

-----------------------------------------------------------------------------
(* The card.                                                               *)

CanTransmit(tx) == tx.head # tx.tail
Outgoing(tx) == tx.buf[tx.head]
Transmitted(tx) == [tx EXCEPT !.head = After(@)]

CanStore(rx) == rx.head # rx.tail
Stored(rx, f) == [rx EXCEPT !.buf[rx.head]  = f,
                            !.done[rx.head] = TRUE,
                            !.head          = After(@)]
=============================================================================
