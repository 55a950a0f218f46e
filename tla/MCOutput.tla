------------------------------ MODULE MCOutput ------------------------------
(* What leaves the machine: characters and glyphs to the screen, frames to *)
(* the wire.  Each of the two runs by itself.                              *)
EXTENDS MCTerminal, MCNetwork

VARIABLE out

ofTerminal == <<part, ofConsole, ofShell, ofGlyph>>
ofNetwork == <<card, ofPing, ofVirtio>>

MCInit ==
  /\ out \in {"screen", "wire"}
  /\ TerminalInit /\ (out # "screen" => part = "shell")
  /\ NetworkInit /\ (out # "wire" => card = "virtio")

OnScreen == out = "screen" /\ UNCHANGED <<out, ofNetwork>>
OnWire == out = "wire" /\ UNCHANGED <<out, ofTerminal>>

MCNext == \/ OnScreen /\ TerminalNext
          \/ OnWire /\ NetworkNext

(* The processor runs; the card, the device and the network need not.      *)
MCSpec == MCInit /\ [][MCNext]_<<out, ofTerminal, ofNetwork>>
                 /\ WF_<<out, ofTerminal, ofNetwork>>(OnWire /\ OnE1000 /\ Driver)
=============================================================================
