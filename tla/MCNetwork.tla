----------------------------- MODULE MCNetwork -----------------------------
(* The two network drivers, of which the build links one: net_ping over    *)
(* the e1000 with rings of three descriptors, which four requests lap, and *)
(* the virtio queues with two.                                             *)
EXTENDS Ping, VirtioNet

VARIABLE card

ASSUME PingConstants

ofPing == <<tx, rx, pc, wait, pkt, result, sent, wire, stored, taken>>
ofVirtio == <<rxVq, txVq, call, held, shared, given, late>>

MCHosts == {"near", "far"}

NetworkInit == card \in {"e1000", "virtio"} /\ PingInit /\ VirtioInit

OnE1000 == card = "e1000" /\ UNCHANGED <<card, ofVirtio>>
OnVirtio == card = "virtio" /\ UNCHANGED <<card, ofPing>>

NetworkNext == \/ OnE1000 /\ PingNext
               \/ OnVirtio /\ VirtioNext

(* The processor runs; the card, the device and the network need not.      *)
NetworkSpec == NetworkInit /\ [][NetworkNext]_<<card, ofPing, ofVirtio>>
                           /\ WF_<<card, ofPing, ofVirtio>>(OnE1000 /\ Driver)
=============================================================================
