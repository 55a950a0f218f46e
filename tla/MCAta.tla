------------------------------- MODULE MCAta -------------------------------
(* A disk of three sectors with a disk of one beside it.  Addresses run to 7 *)
(* and wrap at 8; a request is for at most two sectors.                    *)
EXTENDS Ata, TLC

Attached(a, b) == (0 :> a) @@ (1 :> b)
MCKinds == {Attached("disk", "disk"), Attached("none", "disk"), Attached("disk", "none"), Attached("atapi", "disk")}
MCSize == (0 :> 3) @@ (1 :> 1)

(* Two values are enough to tell neighbours apart: they differ on the disk *)
(* and in what is written, and what the drive makes up is a third.         *)
MCContent == (0 :> [i \in 0..2 |-> IF i = 1 THEN "b" ELSE "a"]) @@ (1 :> [i \in 0..0 |-> "b"])
MCBuffers == {<<"b", "a">>}
MCJunk == "junk"
=============================================================================
