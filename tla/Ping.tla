-------------------------------- MODULE Ping --------------------------------
(***************************************************************************)
(* net_ping (src/drivers/net/net.c) on top of the e1000 driver, with the   *)
(* card and the network running beside it.  The card moves between any two *)
(* accesses of the driver to the rings; the network answers a request late,*)
(* twice or never, and brings frames nobody asked for.                     *)
(*                                                                         *)
(* Every request carries the same id and the same sequence number, and a   *)
(* reply is taken by its source address and its id alone; the number a     *)
(* request has here is not in the frame.                                   *)
(***************************************************************************)
EXTENDS E1000, Sequences

CONSTANTS
  Hosts,      \* the addresses that are pinged
  MaxWait,    \* iterations of the two waiting loops
  MaxPings,   \* bound: calls of net_ping
  MaxFrames   \* bound: frames the card receives

PingConstants == MaxWait \in Nat /\ MaxPings \in Nat /\ MaxFrames \in Nat

(* What a received frame is to net_ping: an ICMP echo reply with its id    *)
(* from some host, something else, or a frame of more than PKT_BUF_SIZE    *)
(* bytes, which virtio_net_recv does not copy.                             *)
Reply(h) == [kind |-> "reply", host |-> h]
Other == [kind |-> "other"]
Oversize == [kind |-> "oversize"]
Request(h) == [kind |-> "request", host |-> h]

VARIABLES
  tx, rx,   \* the rings
  pc,       \* where the caller of net_ping is
  wait,     \* the counter of the loop it is in
  pkt,      \* net_ping's packet buffer
  result,   \* what the last call returned
  sent,     \* history: the host each request was for, in the order of calls
  wire,     \* history: the requests the card put on the wire, by number
  stored,   \* history: the frames the card stored
  taken     \* history: how many of them virtio_net_recv consumed

driverVars == <<pc, wait, pkt, result>>
pingVars == <<tx, rx, driverVars, sent, wire, stored, taken>>

Target == sent[Len(sent)]

-----------------------------------------------------------------------------
(* As Rebuild, but the buffer keeps what it held.                          *)
RebuildNothing(h) == pkt

(* net_ping writes its request over whatever the buffer holds.             *)
Rebuild(h) == Request(h)

StartPing(h) ==
  /\ pc = "idle"
  /\ Len(sent) < MaxPings
  /\ sent' = Append(sent, h)
  /\ pkt' = Rebuild(h)
  /\ result' = "none"
  /\ pc' = "fill"
  /\ UNCHANGED <<tx, rx, wait, wire, stored, taken>>

SendFill ==
  /\ pc = "fill"
  /\ tx' = Fill(tx, Len(sent))
  /\ pc' = "push"
  /\ UNCHANGED <<rx, wait, pkt, result, sent, wire, stored, taken>>

SendPush ==
  /\ pc = "push"
  /\ tx' = PushTail(tx)
  /\ pc' = "sending"
  /\ wait' = 0
  /\ UNCHANGED <<rx, pkt, result, sent, wire, stored, taken>>

(* virtio_net_wait_tx_done.  Its caller does not learn how it ended.       *)
WaitTxDone ==
  /\ pc = "sending"
  /\ IF wait = MaxWait \/ CaughtUp(tx)
     THEN pc' = "poll" /\ wait' = 0
     ELSE wait' = wait + 1 /\ UNCHANGED pc
  /\ UNCHANGED <<tx, rx, pkt, result, sent, wire, stored, taken>>

(* As PollLeft, but an empty poll is not counted.                          *)
PollLeftForever(w) == w

(* The loop counter after an iteration.                                    *)
PollLeft(w) == w + 1

Poll ==
  /\ pc = "poll"
  /\ \/ /\ wait = MaxWait
        /\ pc' = "idle"
        /\ result' = "timeout"
        /\ UNCHANGED wait
     \/ /\ wait < MaxWait
        /\ ~Ready(rx)
        /\ wait' = PollLeft(wait)
        /\ UNCHANGED <<pc, result>>
     \/ /\ wait < MaxWait
        /\ Ready(rx)
        /\ pc' = "copy"
        /\ UNCHANGED <<wait, result>>
  /\ UNCHANGED <<tx, rx, pkt, sent, wire, stored, taken>>

RecvCopy ==
  /\ pc = "copy"
  /\ pkt' = IF rx.buf[rx.next] = Oversize THEN pkt ELSE rx.buf[rx.next]
  /\ pc' = "clear"
  /\ UNCHANGED <<tx, rx, wait, result, sent, wire, stored, taken>>

RecvClear ==
  /\ pc = "clear"
  /\ rx' = Clear(rx)
  /\ pc' = "give"
  /\ UNCHANGED <<tx, wait, pkt, result, sent, wire, stored, taken>>

(* The end of virtio_net_recv, and what net_ping makes of the buffer.      *)
RecvGiveBack ==
  /\ pc = "give"
  /\ rx' = GiveBack(rx)
  /\ taken' = taken + 1
  /\ IF pkt = Reply(Target)
     THEN pc' = "idle" /\ result' = "answered" /\ UNCHANGED wait
     ELSE pc' = "poll" /\ wait' = PollLeft(wait) /\ UNCHANGED result
  /\ UNCHANGED <<tx, pkt, sent, wire, stored>>

-----------------------------------------------------------------------------
Transmit ==
  /\ CanTransmit(tx)
  /\ tx' = Transmitted(tx)
  /\ wire' = Append(wire, Outgoing(tx))
  /\ UNCHANGED <<rx, driverVars, sent, stored, taken>>

(* A host can answer what has reached the wire.  A frame that finds no     *)
(* descriptor is lost, as is one that never arrives.                       *)
Answers == {Reply(sent[wire[i]]) : i \in 1 .. Len(wire)}

Receive ==
  /\ CanStore(rx)
  /\ Len(stored) < MaxFrames
  /\ \E f \in Answers \cup {Other, Oversize} :
       rx' = Stored(rx, f) /\ stored' = Append(stored, f)
  /\ UNCHANGED <<tx, driverVars, sent, wire, taken>>

-----------------------------------------------------------------------------
PingInit ==
  /\ tx = TxInit
  /\ rx = RxInit
  /\ pc = "idle"
  /\ wait = 0
  /\ pkt = Other
  /\ result = "none"
  /\ sent = <<>>
  /\ wire = <<>>
  /\ stored = <<>>
  /\ taken = 0

Driver ==
  \/ SendFill \/ SendPush \/ WaitTxDone
  \/ Poll \/ RecvCopy \/ RecvClear \/ RecvGiveBack

PingNext ==
  \/ \E h \in Hosts : StartPing(h)
  \/ Driver
  \/ Transmit
  \/ Receive

(* Nothing but the processor has to run: the card may be stuck for good.   *)
PingSpec == PingInit /\ [][PingNext]_pingVars /\ WF_pingVars(Driver)

-----------------------------------------------------------------------------
(* Properties.                                                             *)

(* The card never sends a frame twice, an old one or one out of order, even*)
(* after the tail has lapped the head; and until NumDesc frames wait, none *)
(* is left out.                                                            *)
WireKeepsTheOrder ==
  /\ \A i, j \in 1 .. Len(wire) : i < j => wire[i] < wire[j]
  /\ Len(sent) - Len(wire) < NumDesc => \A i \in 1 .. Len(wire) : wire[i] = i

(* virtio_net_recv returns the oldest frame it has not returned yet, if    *)
(* there is one, although it and the card share nothing but the DD bits    *)
(* and RDT; the card does not touch the frame while it is copied; and with *)
(* no frame left to consume it has a descriptor to put the next one in.    *)
RecvSeesTheOldest ==
  /\ pc \in {"idle", "poll", "copy"} =>
       /\ Ready(rx) <=> taken < Len(stored)
       /\ Ready(rx) => rx.buf[rx.next] = stored[taken + 1]
  /\ taken = Len(stored) => CanStore(rx)

(* A ping is answered by the frame it took last, never by what an earlier  *)
(* frame or an earlier ping left in the buffer.                            *)
AnsweredByThisFrame ==
  [][result' = "answered" /\ result # "answered"
       => stored[taken'] = Reply(Target)]_pingVars

(* net_ping comes back, with the card stuck or under a shower of frames.   *)
PingReturns == pc # "idle" ~> pc = "idle"

(* "Spin until the TX head catches up to our last submitted descriptor"    *)
(* (e1000.c): a wait that does not run out ends with the request sent.     *)
WaitEndsWithTheFrameSent ==
  [][pc = "sending" /\ pc' = "poll" /\ wait < MaxWait
       => \E i \in 1 .. Len(wire) : wire[i] = Len(sent)]_pingVars
=============================================================================
