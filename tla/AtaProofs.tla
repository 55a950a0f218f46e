----------------------------- MODULE AtaProofs -----------------------------
(***************************************************************************)
(* Proofs about Ata, for every size of the drives, whatever is attached,   *)
(* and every length of the waits: as long as nothing goes wrong unnoticed, *)
(* the drives that ata_init reports are real; the guarded driver, and the  *)
(* linked one with careful callers, ask no drive for a sector it does not  *)
(* have; and with these a read brings what the sectors held, and a write   *)
(* stores what it was given and nothing else.                              *)
(***************************************************************************)
EXTENDS Ata, TLAPS

(* What stays of a number below the modulus.                               *)
LEMMA SmallMod ==
  ASSUME NEW a \in Nat, NEW b \in Nat, a < b
  PROVE  a % b = a
OBVIOUS

-----------------------------------------------------------------------------
Phases == {"idle", "busy", "drq"}
Commands == {"none", "reset", "identify", "read", "write", "flush"}
Transfers == {"read", "write"}
Works == [phase : Phases, err : BOOLEAN, cmd : Commands, at : Nat, left : Int]

Shape ==
  /\ table \in [Drives -> [present : BOOLEAN, sectors : Nat]]
  /\ dev \in [Drives -> Works]
  /\ chan.sel \in Drives
  /\ call = [op |-> call.op, d |-> call.d, lba |-> call.lba, n |-> call.n,
             s |-> call.s, buf |-> call.buf]
  /\ call.op \in {"none", "init"} \cup Transfers
  /\ call.d \in 0..2 /\ call.lba \in Nat /\ call.n \in Nat
  /\ orderly \in BOOLEAN

(* Which call is where, and which drive is selected.                       *)
Place ==
  /\ pc \in {"boot", "idle"} => call.op = "none"
  /\ pc \in {"reset", "identify", "identified", "signature"} => call.op = "init"
  /\ pc \in {"ready", "issue", "next", "sector", "flush", "flushed"} => call.op \in Transfers
  /\ pc \in {"drq", "data"} => call.op \in {"init"} \cup Transfers
  /\ call.op \in Transfers => call.d \in Drives
  /\ pc \in {"identified", "signature", "drq", "data", "next", "sector", "flush", "flushed"}
       => chan.sel = call.d

(* What the drives can be doing: none transfers before the first call, and *)
(* a data phase belongs to a transfer or to a disk that identifies itself. *)
Doing ==
  /\ pc = "boot" \/ call.op = "init" => \A d \in Drives : dev[d].cmd \notin Transfers
  /\ \A d \in Drives : dev[d].phase = "drq" =>
       dev[d].cmd \in Transfers \/ (dev[d].cmd = "identify" /\ Kind[d] = "disk")

(* What holds while nothing went wrong unnoticed; two of the parts only if *)
(* nobody asks the linked driver for what its check lets pass.             *)
Sound ==
  orderly =>
    /\ \A d \in Drives : table[d].present => d \in Disks /\ table[d].sectors = Size[d]
    /\ pc = "data" => dev[chan.sel].phase = "drq"
    /\ Trusted =>
         /\ \A d \in Drives : dev[d].cmd \in Transfers => dev[d].at + dev[d].left <= Size[d]
         /\ pc \in {"ready", "issue"} => call.n > 0 /\ call.lba + call.n <= Size[call.d]

Inv == Shape /\ Place /\ Doing /\ Sound

LEMMA InitInv == AtaInit => Inv
<1> SUFFICES ASSUME AtaInit PROVE Inv
  OBVIOUS
<1>1. Shape
  <2>1. [present |-> FALSE, sectors |-> 0] \in [present : BOOLEAN, sectors : Nat]
        /\ [phase |-> "idle", err |-> FALSE, cmd |-> "none", at |-> 0, left |-> 0] \in Works
    BY DEF Works, Phases, Commands
  <2>2. dev \in [Drives -> Works] /\ table \in [Drives -> [present : BOOLEAN, sectors : Nat]]
    BY <2>1 DEF AtaInit, Idle, Absent
  <2>3. chan.sel \in Drives /\ orderly \in BOOLEAN
    BY DEF AtaInit, Drives
  <2>4. call = [op |-> "none", d |-> 0, lba |-> 0, n |-> 0, s |-> 0, buf |-> <<>>]
    BY DEF AtaInit, NoCall
  <2> QED
    BY <2>2, <2>3, <2>4 DEF Shape
<1>2. Place /\ Doing /\ Sound
  BY AtaAssumption DEF AtaInit, Place, Doing, Sound, Drives, Idle, NoCall, Absent, Transfers
<1> QED
  BY <1>1, <1>2 DEF Inv

-----------------------------------------------------------------------------
(* The steps of a drive.                                                   *)
LEMMA DriveKeeps ==
  ASSUME Inv, NEW d \in Drives, Drive(d)
  PROVE  Inv'
<1> USE DEF Inv
<1>1. UNCHANGED <<setup, table, chan, pc, call>> /\ dev[d].phase = "busy"
  BY DEF Drive
<1>2. CASE Fail(d)
  <2>1. dev' = [dev EXCEPT ![d] = [Idle EXCEPT !.err = TRUE]]
        /\ orderly' \in BOOLEAN /\ (orderly' => orderly)
    BY <1>2 DEF Fail, Shape
  <2>2. dev'[d] = [phase |-> "idle", err |-> TRUE, cmd |-> "none", at |-> 0, left |-> 0]
        /\ dev'[d] \in Works
    <3>1. dev'[d] = [phase |-> "idle", err |-> TRUE, cmd |-> "none", at |-> 0, left |-> 0]
      BY <2>1 DEF Idle, Shape
    <3> QED
      BY <3>1 DEF Works, Phases, Commands
  <2>3. \A e \in Drives : e # d => dev'[e] = dev[e]
    BY <2>1 DEF Shape
  <2>4. Shape'
    <3>1. dev' \in [Drives -> Works]
      BY <2>1, <2>2 DEF Shape
    <3>2. orderly' \in BOOLEAN
      BY <2>1
    <3> QED
      BY <1>1, <3>1, <3>2 DEF Shape
  <2>5. Place' /\ Doing'
    BY <1>1, <2>2, <2>3 DEF Place, Doing, Transfers, Kind
  <2>6. Sound'
    BY <1>1, <2>1, <2>2, <2>3 DEF Sound, Trusted, Guarded, Transfers, Disks, Kind, Shape
  <2> QED
    BY <2>4, <2>5, <2>6
<1>3. CASE Ask(d)
  <2>1. dev' = [dev EXCEPT ![d].phase = "drq"] /\ UNCHANGED orderly
        /\ (dev[d].cmd \in Transfers \/ (dev[d].cmd = "identify" /\ Kind[d] = "disk"))
    BY <1>3 DEF Ask, Transfers
  <2>2. dev'[d] = [dev[d] EXCEPT !.phase = "drq"] /\ dev'[d].phase = "drq"
        /\ dev'[d] \in Works /\ dev'[d].cmd = dev[d].cmd /\ dev'[d].at = dev[d].at /\ dev'[d].left = dev[d].left
    BY <2>1 DEF Shape, Works, Phases
  <2>3. \A e \in Drives : e # d => dev'[e] = dev[e]
    BY <2>1 DEF Shape
  <2>4. Shape'
    BY <1>1, <2>1, <2>2 DEF Shape
  <2>5. Place' /\ Doing'
    BY <1>1, <2>1, <2>2, <2>3 DEF Place, Doing, Transfers, Kind
  <2>6. Sound'
    BY <1>1, <2>1, <2>2, <2>3 DEF Sound, Trusted, Guarded, Transfers, Disks, Kind, Shape
  <2> QED
    BY <2>4, <2>5, <2>6
<1>4. CASE Done(d)
  <2>1. dev' = [dev EXCEPT ![d] = Idle] /\ UNCHANGED orderly
    BY <1>4 DEF Done
  <2>2. dev'[d] = [phase |-> "idle", err |-> FALSE, cmd |-> "none", at |-> 0, left |-> 0]
        /\ dev'[d] \in Works
    BY <2>1 DEF Idle, Shape, Works, Phases, Commands
  <2>3. \A e \in Drives : e # d => dev'[e] = dev[e]
    BY <2>1 DEF Shape
  <2>4. Shape'
    BY <1>1, <2>1, <2>2 DEF Shape
  <2>5. Place' /\ Doing'
    BY <1>1, <2>2, <2>3 DEF Place, Doing, Transfers, Kind
  <2>6. Sound'
    BY <1>1, <2>1, <2>2, <2>3 DEF Sound, Trusted, Guarded, Transfers, Disks, Kind, Shape
  <2> QED
    BY <2>4, <2>5, <2>6
<1> QED
  BY <1>2, <1>3, <1>4 DEF Drive

-----------------------------------------------------------------------------
(* What a command and a data phase do to the drives.                       *)
LEMMA CommandedIs ==
  ASSUME Shape, NEW d \in Drives, NEW cmd \in Commands, NEW lba \in Nat, NEW n \in Nat,
         NEW new, new = Commanded(d, cmd, lba, n)
  PROVE  /\ new \in [Drives -> Works]
         /\ \A e \in Drives : new[e] = dev[e] \/
              (/\ e = d /\ new[e].phase = "busy" /\ new[e].cmd = cmd /\ new[e].at = lba
               /\ n > 0 => new[e].left = n
               /\ ~new[e].err /\ dev[e].phase = "idle")
<1>1. CASE dev[d].phase = "idle"
  <2> DEFINE begun == [phase |-> "busy", err |-> FALSE, cmd |-> cmd, at |-> lba,
                       left |-> IF n = 0 THEN Full ELSE n]
  <2>1. new = [dev EXCEPT ![d] = begun]
    BY <1>1 DEF Commanded
  <2>2. begun \in Works
    BY AtaAssumption DEF Phases, Works
  <2>3. /\ begun.phase = "busy" /\ begun.cmd = cmd /\ begun.at = lba /\ (n > 0 => begun.left = n)
        /\ ~begun.err
    OBVIOUS
  <2> HIDE DEF begun
  <2> QED
    BY <1>1, <2>1, <2>2, <2>3 DEF Shape
<1>2. CASE dev[d].phase # "idle"
  BY <1>2 DEF Commanded, Shape
<1> QED
  BY <1>1, <1>2

LEMMA SectorDoneIs ==
  ASSUME Shape, NEW new, new = SectorDone
  PROVE  /\ new \in [Drives -> Works]
         /\ \A e \in Drives : new[e].cmd = dev[e].cmd /\ new[e].at + new[e].left = dev[e].at + dev[e].left
         /\ \A e \in Drives : new[e].phase = "drq" => new[e].phase = dev[e].phase
<1> DEFINE d == chan.sel
           old == dev[d]
           more == old.left > 1 \/ old.cmd = "write"
           then == [old EXCEPT !.phase = IF more THEN "busy" ELSE "idle", !.at = @ + 1, !.left = @ - 1]
<1>1. d \in Drives /\ old \in Works
  BY DEF Shape
<1>2. new = [dev EXCEPT ![d] = then]
  BY <1>1 DEF SectorDone, Shape
<1>3. /\ then \in Works
      /\ then.cmd = old.cmd /\ then.at + then.left = old.at + old.left /\ then.phase # "drq"
  <2>1. old = [phase |-> old.phase, err |-> old.err, cmd |-> old.cmd, at |-> old.at, left |-> old.left]
        /\ old.err \in BOOLEAN /\ old.cmd \in Commands /\ old.at \in Nat /\ old.left \in Int
    BY <1>1 DEF Works
  <2>2. PICK phase \in {"busy", "idle"} : then = [old EXCEPT !.phase = phase, !.at = @ + 1, !.left = @ - 1]
    OBVIOUS
  <2> HIDE DEF then, old
  <2>3. then = [phase |-> phase, err |-> old.err, cmd |-> old.cmd, at |-> old.at + 1, left |-> old.left - 1]
    BY <2>1, <2>2
  <2>4. then \in Works
    BY <2>1, <2>2, <2>3 DEF Works, Phases
  <2>5. then.at + then.left = old.at + old.left
    <3>1. \A i \in Nat, j \in Int : (i + 1) + (j - 1) = i + j
      OBVIOUS
    <3> QED
      BY <2>1, <2>3, <3>1
  <2> QED
    BY <2>2, <2>3, <2>4, <2>5
<1> HIDE DEF then
<1> QED
  BY <1>1, <1>2, <1>3 DEF Shape

-----------------------------------------------------------------------------
(* The actions of the driver, one lemma each, or one for those that only   *)
(* move pc.                                                                *)
LEMMA BootKeeps == Inv /\ Boot => Inv'
<1> SUFFICES ASSUME Inv, Boot PROVE Inv'
  OBVIOUS
<1> USE DEF Inv
<1>1. ASSUME NEW d \in Drives
      PROVE  /\ dev'[d] \in Works /\ dev'[d].cmd \notin Transfers /\ dev'[d].phase # "drq"
             /\ table'[d] \in [present : BOOLEAN, sectors : Nat] /\ ~table'[d].present
  <2>1. table'[d] = [present |-> FALSE, sectors |-> 0]
    BY DEF Boot, Absent
  <2>2. CASE Kind[d] = "none"
    <3>1. dev'[d] = [phase |-> "idle", err |-> FALSE, cmd |-> "none", at |-> 0, left |-> 0]
      BY <2>2 DEF Boot, Idle
    <3> QED
      BY <2>1, <3>1 DEF Works, Phases, Commands, Transfers
  <2>3. CASE Kind[d] # "none"
    <3>1. dev'[d] = [phase |-> "busy", err |-> FALSE, cmd |-> "reset", at |-> 0, left |-> 0]
      BY <2>3 DEF Boot, Idle
    <3> QED
      BY <2>1, <3>1 DEF Works, Phases, Commands, Transfers
  <2> QED
    BY <2>2, <2>3
<1>2. dev' = [d \in Drives |-> dev'[d]] /\ table' = [d \in Drives |-> table'[d]]
  BY DEF Boot
<1>3. call' = [op |-> "init", d |-> 0, lba |-> 0, n |-> 0, s |-> 0, buf |-> <<>>]
  BY DEF Boot, NoCall
<1>4. Shape'
  <2>1. dev' \in [Drives -> Works] /\ table' \in [Drives -> [present : BOOLEAN, sectors : Nat]]
    BY <1>1, <1>2
  <2>2. UNCHANGED <<chan, orderly>>
    BY DEF Boot
  <2> QED
    BY <1>3, <2>1, <2>2 DEF Shape
<1>5. Place' /\ Doing'
  BY <1>1, <1>3 DEF Boot, Place, Doing, Transfers
<1>6. Sound'
  BY <1>1 DEF Boot, Sound
<1> QED
  BY <1>4, <1>5, <1>6

LEMMA IdentifyKeeps == Inv /\ Identify => Inv'
<1> SUFFICES ASSUME Inv, Identify PROVE Inv'
  OBVIOUS
<1> USE DEF Inv
<1>1. pc = "identify" /\ call.op = "init" /\ UNCHANGED <<setup, table, orderly>>
  BY DEF Identify, Place
<1>2. CASE call.d \notin Drives
  <2>1. pc' = "idle" /\ call' = NoCall /\ UNCHANGED <<chan, dev>>
    BY <1>2 DEF Identify, Return
  <2> QED
    BY <1>1, <2>1 DEF Shape, Place, Doing, Sound, Trusted, Guarded, NoCall, Transfers, Kind, Disks
<1>3. CASE call.d \in Drives
  <2>1. chan'.sel = call.d
    BY <1>3 DEF Identify
  <2>2. CASE Kind[call.d] = "none"
    <3>1. pc' = "identify" /\ call' = [call EXCEPT !.d = @ + 1] /\ UNCHANGED dev
      BY <1>3, <2>2 DEF Identify, NextDrive
    <3>2. call'.op = "init" /\ call'.d = call.d + 1 /\ call'.d \in 0..2
          /\ call'.lba = call.lba /\ call'.n = call.n
      BY <1>1, <1>3, <3>1 DEF Shape, Drives
    <3>3. Shape'
      BY <1>1, <1>3, <2>1, <3>1, <3>2 DEF Shape
    <3> QED
      BY <1>1, <3>1, <3>2, <3>3 DEF Place, Doing, Sound, Trusted, Guarded, Transfers, Kind, Disks
  <2>3. CASE Kind[call.d] # "none"
    <3>1. pc' = "identified" /\ UNCHANGED call /\ dev' = Commanded(call.d, "identify", 0, 1)
      BY <1>3, <2>3 DEF Identify
    <3>2. /\ dev' \in [Drives -> Works]
          /\ \A e \in Drives : dev'[e] = dev[e] \/ (dev'[e].phase = "busy" /\ dev'[e].cmd = "identify")
      <4>1. "identify" \in Commands /\ 0 \in Nat /\ 1 \in Nat /\ Shape
        BY DEF Commands
      <4> QED
        BY <1>3, <3>1, <4>1, CommandedIs
    <3>3. Shape'
      BY <1>1, <1>3, <2>1, <3>1, <3>2 DEF Shape
    <3>4. Place' /\ Doing'
      BY <1>1, <1>3, <2>1, <3>1, <3>2 DEF Place, Doing, Transfers, Kind
    <3>5. Sound'
      BY <1>1, <3>1, <3>2 DEF Sound, Trusted, Guarded, Doing, Transfers, Kind, Disks
    <3> QED
      BY <3>3, <3>4, <3>5
  <2> QED
    BY <2>2, <2>3
<1> QED
  BY <1>2, <1>3

LEMMA SignatureKeeps == Inv /\ Signature => Inv'
<1> SUFFICES ASSUME Inv, Signature PROVE Inv'
  OBVIOUS
<1> USE DEF Inv
<1>1. /\ pc = "signature" /\ call.op = "init" /\ call.d \in Drives
      /\ UNCHANGED <<setup, table, chan, dev, orderly>>
  BY DEF Signature, Place, Shape
<1>2. CASE Kind[call.d] = "atapi"
  <2>1. pc' = "identify" /\ call' = [call EXCEPT !.d = @ + 1]
    BY <1>2 DEF Signature, NextDrive
  <2>2. call'.op = "init" /\ call'.d \in 0..2 /\ call'.lba = call.lba /\ call'.n = call.n
    BY <1>1, <2>1 DEF Shape, Drives
  <2>3. Shape'
    BY <1>1, <2>1, <2>2 DEF Shape
  <2> QED
    BY <1>1, <2>1, <2>2, <2>3 DEF Place, Doing, Sound, Trusted, Guarded, Transfers, Kind, Disks
<1>3. CASE Kind[call.d] # "atapi"
  <2>1. pc' = "drq" /\ UNCHANGED call
    BY <1>3 DEF Signature
  <2> QED
    BY <1>1, <2>1 DEF Shape, Place, Doing, Sound, Trusted, Guarded, Transfers, Kind, Disks
<1> QED
  BY <1>2, <1>3

LEMMA IdentifyDataKeeps == Inv /\ IdentifyData => Inv'
<1> SUFFICES ASSUME Inv, IdentifyData PROVE Inv'
  OBVIOUS
<1> USE DEF Inv
<1>1. /\ pc = "data" /\ call.op = "init" /\ call.d \in Drives /\ chan.sel = call.d
      /\ pc' = "identify" /\ call' = [call EXCEPT !.d = @ + 1]
      /\ UNCHANGED <<setup, chan, orderly>>
  BY DEF IdentifyData, NextDrive, Place, Shape
<1>2. call'.op = "init" /\ call'.d \in 0..2 /\ call'.lba = call.lba /\ call'.n = call.n
  BY <1>1 DEF Shape, Drives
<1>3. CASE dev[call.d].phase = "drq" /\ dev[call.d].cmd = "identify"
  <2>1. table' = [table EXCEPT ![call.d] = [present |-> TRUE, sectors |-> Size[call.d]]] /\ dev' = SectorDone
    BY <1>3 DEF IdentifyData
  <2>2. /\ dev' \in [Drives -> Works]
        /\ \A e \in Drives : dev'[e].cmd = dev[e].cmd /\ dev'[e].at + dev'[e].left = dev[e].at + dev[e].left
        /\ \A e \in Drives : dev'[e].phase = "drq" => dev'[e].phase = dev[e].phase
    BY <2>1, SectorDoneIs
  <2>3. Kind[call.d] = "disk"
    BY <1>1, <1>3 DEF Doing, Transfers
  <2>4. Shape'
    BY <1>1, <1>2, <2>1, <2>2, AtaAssumption DEF Shape
  <2>5. Place' /\ Doing'
    BY <1>1, <1>2, <2>2 DEF Place, Doing, Transfers, Kind
  <2>6. Sound'
    BY <1>1, <2>1, <2>2, <2>3 DEF Sound, Trusted, Guarded, Shape, Transfers, Kind, Disks
  <2> QED
    BY <2>4, <2>5, <2>6
<1>4. CASE ~(dev[call.d].phase = "drq" /\ dev[call.d].cmd = "identify")
  <2>1. PICK n \in 0..(Word - 1) :
          table' = [table EXCEPT ![call.d] = [present |-> TRUE, sectors |-> n]] /\ UNCHANGED dev
    BY <1>4 DEF IdentifyData
  <2>2. ~orderly
    BY <1>1, <1>4 DEF Sound, Doing
  <2>3. Shape'
    BY <1>1, <1>2, <2>1, AtaAssumption DEF Shape
  <2> QED
    BY <1>1, <1>2, <2>1, <2>2, <2>3 DEF Place, Doing, Sound, Trusted, Guarded, Transfers, Kind
<1> QED
  BY <1>3, <1>4

(* The driver waits; where it goes on from is decided by where it is.      *)
LEMMA WaitBusyKeeps == Inv /\ WaitBusy => Inv'
<1> SUFFICES ASSUME Inv, WaitBusy PROVE Inv'
  OBVIOUS
<1> USE DEF Inv
<1>1. UNCHANGED <<setup, table, chan, dev, call>>
  BY DEF WaitBusy
<1>2. CASE Busy /\ Patience
  <2>1. UNCHANGED <<pc, orderly>>
    BY <1>2 DEF WaitBusy
  <2> QED
    BY <1>1, <2>1 DEF Shape, Place, Doing, Sound, Trusted, Guarded, Kind, Disks
<1>3. CASE ~(Busy /\ Patience)
  <2>1. orderly' = (orderly /\ ~Busy) /\ pc' = AfterBusy[pc] /\ pc \in DOMAIN AfterBusy
    BY <1>3 DEF WaitBusy
  <2>2. \/ pc = "reset" /\ pc' = "identify"
        \/ pc = "identified" /\ pc' = "signature"
        \/ pc = "ready" /\ pc' = "issue"
        \/ pc = "sector" /\ pc' = "drq"
        \/ pc = "flushed" /\ pc' = "next"
    BY <2>1 DEF AfterBusy
  <2>3. orderly' \in BOOLEAN /\ (orderly' => orderly)
    BY <2>1 DEF Shape
  <2>4. Shape'
    BY <1>1, <2>3 DEF Shape
  <2>5. Place' /\ Doing'
    BY <1>1, <2>2 DEF Place, Doing, Kind, Transfers
  <2>6. Sound'
    BY <1>1, <2>2, <2>3 DEF Sound, Trusted, Guarded, Kind, Disks
  <2> QED
    BY <2>4, <2>5, <2>6
<1> QED
  BY <1>2, <1>3

LEMMA WaitDrqKeeps == Inv /\ WaitDrq => Inv'
<1> SUFFICES ASSUME Inv, WaitDrq PROVE Inv'
  OBVIOUS
<1> USE DEF Inv
<1>1. pc = "drq" /\ UNCHANGED <<setup, table, chan, dev>>
      /\ call.op \in {"init"} \cup Transfers /\ call.d \in Drives /\ chan.sel = call.d
  BY DEF WaitDrq, Place, Shape
<1>2. CASE UNCHANGED <<pc, call, orderly>>
  BY <1>1, <1>2 DEF Shape, Place, Doing, Sound, Trusted, Guarded, Kind, Disks
<1>3. CASE call.op = "init" /\ NextDrive /\ UNCHANGED orderly
  <2>1. pc' = "identify" /\ call' = [call EXCEPT !.d = @ + 1]
    BY <1>3 DEF NextDrive
  <2>2. call'.op = "init" /\ call'.d \in 0..2 /\ call'.lba = call.lba /\ call'.n = call.n
    BY <1>1, <1>3, <2>1 DEF Shape, Drives
  <2>3. Shape'
    BY <1>1, <1>3, <2>1, <2>2 DEF Shape
  <2> QED
    BY <1>1, <1>3, <2>1, <2>2, <2>3 DEF Place, Doing, Sound, Trusted, Guarded, Transfers, Kind, Disks
<1>4. CASE Return(-4) /\ call.op # "init" /\ UNCHANGED orderly
  <2>1. pc' = "idle" /\ call' = [op |-> "none", d |-> 0, lba |-> 0, n |-> 0, s |-> 0, buf |-> <<>>]
    BY <1>4 DEF Return, NoCall
  <2>2. Shape'
    BY <1>1, <1>4, <2>1 DEF Shape
  <2> QED
    BY <1>1, <1>4, <2>1, <2>2 DEF Place, Doing, Sound, Trusted, Guarded, Transfers, Kind, Disks
<1>5. CASE pc' = "data" /\ orderly' = (orderly /\ Drq) /\ UNCHANGED call
  <2>1. orderly' \in BOOLEAN /\ (orderly' => orderly /\ dev[chan.sel].phase = "drq")
    BY <1>5 DEF Drq, Shape
  <2>2. Shape'
    BY <1>1, <1>5, <2>1 DEF Shape
  <2>3. Place' /\ Doing'
    BY <1>1, <1>5 DEF Place, Doing, Kind, Transfers
  <2> QED
    BY <1>1, <1>5, <2>1, <2>2, <2>3 DEF Sound, Trusted, Guarded, Kind, Disks
<1> QED
  BY <1>2, <1>3, <1>4, <1>5 DEF WaitDrq

-----------------------------------------------------------------------------
(* A request that is not refused is inside the drive, if it is one for the *)
(* guarded driver or a careful one.                                        *)
LEMMA NotRefused ==
  ASSUME NEW d \in Drives, NEW lba \in Nat, NEW n \in Nat, table[d].sectors \in Nat,
         ~Refused(d, lba, n), Guarded \/ Proper(lba, n)
  PROVE  n > 0 /\ lba + n <= table[d].sectors
<1>1. CASE Guarded
  BY <1>1 DEF Refused
<1>2. CASE ~Guarded
  <2>1. n > 0 /\ lba + n < Word /\ lba + n \in Nat
    BY <1>2 DEF Proper
  <2>2. (lba + n) % Word = lba + n
    BY <2>1, SmallMod, AtaAssumption
  <2> QED
    BY <1>2, <2>1, <2>2 DEF Refused
<1> QED
  BY <1>1, <1>2

LEMMA RequestKeeps ==
  ASSUME Inv, NEW op \in Transfers, NEW d \in 0..2, NEW lba \in Nat, NEW n \in Nat,
         NEW data, Request(op, d, lba, n, data)
  PROVE  Inv'
<1> USE DEF Inv
<1>1. pc = "idle" /\ orderly /\ call.op = "none" /\ UNCHANGED <<setup, table, chan, dev>>
  BY DEF Request, Place
<1>2. CASE result' = 0
  <2>1. d \in Drives /\ table[d].present /\ ~Refused(d, lba, n)
    BY <1>2 DEF Request
  <2>2. call' = [op |-> op, d |-> d, lba |-> lba, n |-> n, s |-> 0, buf |-> data]
        /\ orderly' = orderly /\ pc' = "ready"
    BY <1>2 DEF Request
  <2>3. orderly' \in BOOLEAN
    BY <2>2 DEF Shape
  <2>4. Shape'
    <3>1. call'.op = op /\ call'.d = d /\ call'.lba = lba /\ call'.n = n
      BY <2>2
    <3>2. call' = [op |-> call'.op, d |-> call'.d, lba |-> call'.lba, n |-> call'.n,
                   s |-> call'.s, buf |-> call'.buf]
      BY <2>2
    <3> QED
      BY <1>1, <2>3, <3>1, <3>2 DEF Shape
  <2>5. Place' /\ Doing'
    BY <1>1, <2>1, <2>2 DEF Place, Doing, Kind, Transfers
  <2>6. Trusted => n > 0 /\ lba + n <= Size[d]
    <3>1. Trusted => Guarded \/ Proper(lba, n)
      BY DEF Request, Trusted
    <3> QED
      BY <1>1, <2>1, <3>1, NotRefused DEF Sound, Shape
  <2>7. Sound'
    BY <1>1, <2>2, <2>6 DEF Sound, Trusted, Guarded, Kind, Disks
  <2> QED
    BY <2>4, <2>5, <2>7
<1>3. CASE result' # 0
  <2>1. UNCHANGED <<call, orderly, pc>>
    BY <1>3 DEF Request
  <2> QED
    BY <1>1, <2>1 DEF Shape, Place, Doing, Sound, Trusted, Guarded, Kind, Disks
<1> QED
  BY <1>2, <1>3

LEMMA IssueKeeps == Inv /\ Issue => Inv'
<1> SUFFICES ASSUME Inv, Issue PROVE Inv'
  OBVIOUS
<1> USE DEF Inv
<1> DEFINE lba == call.lba % LbaSpace
<1>1. /\ pc = "issue" /\ pc' = "next" /\ call.op \in Transfers /\ call.d \in Drives
      /\ chan'.sel = call.d /\ dev' = Commanded(call.d, call.op, lba, call.n)
      /\ UNCHANGED <<setup, table, call, orderly>>
  BY DEF Issue, Place
<1>2. call.op \in Commands /\ lba \in Nat /\ call.n \in Nat /\ call.lba \in Nat /\ Shape
  BY <1>1, AtaAssumption DEF Shape, Commands, Transfers
<1>3. /\ dev' \in [Drives -> Works]
      /\ \A e \in Drives : dev'[e] = dev[e] \/
           (/\ e = call.d /\ dev'[e].phase = "busy" /\ dev'[e].cmd = call.op /\ dev'[e].at = lba
            /\ call.n > 0 => dev'[e].left = call.n)
  <2> HIDE DEF lba
  <2> QED
    BY <1>1, <1>2, CommandedIs
<1>4. orderly /\ Trusted =>
        call.n > 0 /\ call.lba + call.n <= Size[call.d] /\ lba = call.lba
  <2>1. ASSUME orderly, Trusted PROVE call.n > 0 /\ call.lba + call.n <= Size[call.d]
    BY <1>1, <2>1 DEF Sound
  <2>2. ASSUME orderly, Trusted PROVE call.lba < LbaSpace
    BY <1>1, <1>2, <2>1, <2>2, AtaAssumption
  <2>3. ASSUME orderly, Trusted PROVE lba = call.lba
    BY <1>2, <2>2, <2>3, SmallMod, AtaAssumption
  <2> QED
    BY <2>1, <2>3
<1> HIDE DEF lba
<1>5. Shape'
  BY <1>1, <1>3 DEF Shape
<1>6. Place' /\ Doing'
  BY <1>1, <1>3 DEF Place, Doing, Kind, Transfers
<1>7. Sound'
  BY <1>1, <1>3, <1>4 DEF Sound, Trusted, Guarded, Kind, Disks
<1> QED
  BY <1>5, <1>6, <1>7

LEMMA NextSectorKeeps == Inv /\ NextSector => Inv'
<1> SUFFICES ASSUME Inv, NextSector PROVE Inv'
  OBVIOUS
<1> USE DEF Inv
<1>1. pc = "next" /\ UNCHANGED <<setup, table, chan, dev, orderly>>
  BY DEF NextSector
<1>2. CASE pc' = "sector" /\ UNCHANGED call
  BY <1>1, <1>2 DEF Shape, Place, Doing, Sound, Trusted, Guarded, Kind, Disks
<1>3. CASE Return(0)
  <2>1. pc' = "idle" /\ call' = [op |-> "none", d |-> 0, lba |-> 0, n |-> 0, s |-> 0, buf |-> <<>>]
    BY <1>3 DEF Return, NoCall
  <2>2. Shape'
    BY <1>1, <2>1 DEF Shape
  <2> QED
    BY <1>1, <2>1, <2>2 DEF Place, Doing, Sound, Trusted, Guarded, Transfers, Kind, Disks
<1> QED
  BY <1>2, <1>3 DEF NextSector

(* The data phases of a transfer.                                          *)
LEMMA TransferKeeps ==
  ASSUME Inv, call.op \in Transfers, dev' = dev \/ dev' = SectorDone,
         pc = "data", pc' \in {"next", "flush"}, UNCHANGED <<setup, table, chan, orderly>>,
         call'.op = call.op, call'.d = call.d, call'.lba = call.lba, call'.n = call.n,
         call' = [op |-> call'.op, d |-> call'.d, lba |-> call'.lba, n |-> call'.n,
                  s |-> call'.s, buf |-> call'.buf]
  PROVE  Inv'
<1> USE DEF Inv
<1>1. /\ dev' \in [Drives -> Works]
      /\ \A e \in Drives : dev'[e].cmd = dev[e].cmd /\ dev'[e].at + dev'[e].left = dev[e].at + dev[e].left
      /\ \A e \in Drives : dev'[e].phase = "drq" => dev[e].phase = "drq"
  BY SectorDoneIs DEF Shape
<1>2. Shape'
  BY <1>1 DEF Shape
<1>3. Place' /\ Doing'
  BY <1>1 DEF Place, Doing, Kind, Transfers
<1>4. Sound'
  BY <1>1 DEF Sound, Trusted, Guarded, Kind, Disks
<1> QED
  BY <1>2, <1>3, <1>4

LEMMA ReadDataKeeps == Inv /\ ReadData => Inv'
<1> SUFFICES ASSUME Inv, ReadData PROVE Inv'
  OBVIOUS
<1>1. pc = "data" /\ call.op = "read" /\ pc' = "next" /\ UNCHANGED <<setup, table, chan, orderly>>
      /\ (dev' = dev \/ dev' = SectorDone)
  BY DEF ReadData
<1>2. PICK buf : call' = [call EXCEPT !.s = @ + 1, !.buf = buf]
  BY DEF ReadData
<1>3. call' = [op |-> call.op, d |-> call.d, lba |-> call.lba, n |-> call.n,
               s |-> call.s + 1, buf |-> buf]
  BY <1>2 DEF Inv, Shape
<1> QED
  BY <1>1, <1>3, TransferKeeps DEF Transfers

LEMMA WriteDataKeeps == Inv /\ WriteData => Inv'
<1> SUFFICES ASSUME Inv, WriteData PROVE Inv'
  OBVIOUS
<1>1. pc = "data" /\ call.op = "write" /\ pc' = "flush" /\ UNCHANGED <<setup, table, chan, orderly>>
      /\ (dev' = dev \/ dev' = SectorDone)
  BY DEF WriteData
<1>2. call' = [op |-> call.op, d |-> call.d, lba |-> call.lba, n |-> call.n,
               s |-> call.s + 1, buf |-> call.buf]
  BY DEF WriteData, Inv, Shape
<1> QED
  BY <1>1, <1>2, TransferKeeps DEF Transfers

LEMMA FlushKeeps == Inv /\ Flush => Inv'
<1> SUFFICES ASSUME Inv, Flush PROVE Inv'
  OBVIOUS
<1> USE DEF Inv
<1>1. pc = "flush" /\ pc' = "flushed" /\ dev' = Commanded(chan.sel, "flush", 0, 1)
      /\ UNCHANGED <<setup, table, chan, call, orderly>>
  BY DEF Flush
<1>2. /\ dev' \in [Drives -> Works]
      /\ \A e \in Drives : dev'[e] = dev[e] \/ (dev'[e].phase = "busy" /\ dev'[e].cmd = "flush")
  <2>1. "flush" \in Commands /\ 0 \in Nat /\ 1 \in Nat /\ Shape /\ chan.sel \in Drives
    BY DEF Commands, Shape
  <2> QED
    BY <1>1, <2>1, CommandedIs
<1>3. Shape'
  BY <1>1, <1>2 DEF Shape
<1>4. Place' /\ Doing'
  BY <1>1, <1>2 DEF Place, Doing, Kind, Transfers
<1>5. Sound'
  BY <1>1, <1>2 DEF Sound, Trusted, Guarded, Kind, Disks, Transfers
<1> QED
  BY <1>3, <1>4, <1>5

-----------------------------------------------------------------------------
LEMMA NextKeeps == Inv /\ [AtaNext]_ataVars => Inv'
<1> SUFFICES ASSUME Inv, [AtaNext]_ataVars PROVE Inv'
  OBVIOUS
<1>1. CASE Driver
  BY <1>1, BootKeeps, IdentifyKeeps, SignatureKeeps, IdentifyDataKeeps, WaitBusyKeeps, WaitDrqKeeps,
     IssueKeeps, NextSectorKeeps, ReadDataKeeps, WriteDataKeeps, FlushKeeps DEF Driver
<1>2. CASE Read \/ Write
  <2>1. PICK op \in Transfers, d \in 0..2, lba \in 0..(Word - 1), n \in 0..MaxCount :
          \E data : Request(op, d, lba, n, data)
    BY <1>2 DEF Read, Write, Transfers
  <2>2. lba \in Nat /\ n \in Nat
    BY AtaAssumption
  <2> QED
    BY <2>1, <2>2, RequestKeeps
<1>3. CASE \E d \in Drives : Drive(d)
  BY <1>3, DriveKeeps
<1>4. CASE UNCHANGED ataVars
  BY <1>4 DEF ataVars, Inv, Shape, Place, Doing, Sound, Trusted, Guarded, Kind, Disks
<1> QED
  BY <1>1, <1>2, <1>3, <1>4 DEF AtaNext

(* The drives that ata_init reports are disks and have the sizes it        *)
(* reports, for all drives and whatever they do, unless a wait for one of  *)
(* them gave up (sata.c:45-103).                                           *)
THEOREM SizesAreReal == AtaSpec => []PresentIsReal
<1>1. Inv => PresentIsReal
  BY DEF Inv, Sound, PresentIsReal
<1> QED
  BY InitInv, NextKeeps, <1>1, PTL DEF AtaSpec

(* What a drive has still to transfer lies inside it, for all sizes: for   *)
(* the driver of drivers/sata/sata.c whatever is asked, and for sata.c if  *)
(* its callers ask for at least one sector and for none at or past 2^32,   *)
(* which its check lets pass (sata.c:164, 203).                            *)
THEOREM RequestsStayInside == AtaSpec => []AsksInside
<1>1. Inv => AsksInside
  BY DEF Inv, Sound, AsksInside, SectorsExist, Transfers
<1> QED
  BY InitInv, NextKeeps, <1>1, PTL DEF AtaSpec

-----------------------------------------------------------------------------
(* What a transfer does, sector by sector.  A command in progress is that  *)
(* of the running call, and has come as far as the loop over the sectors;  *)
(* an error ends it.                                                       *)
Identifying == {"identified", "signature", "drq", "data"}
Looping == {"next", "sector", "drq", "data", "flush", "flushed"}

Calm ==
  \A e \in Drives :
    /\ dev[e].err => dev[e].phase = "idle" /\ dev[e].cmd = "none"
    /\ dev[e].phase = "drq" => dev[e].left > 0

Identifies(e) ==
  dev[e].cmd = "identify" /\ dev[e].phase # "idle" =>
    call.op = "init" /\ call.d = e /\ pc \in Identifying /\ dev[e].left = 1

Transmits(e) ==
  /\ dev[e].cmd \in Transfers /\ dev[e].phase # "idle" =>
       /\ call.op = dev[e].cmd /\ call.d = e /\ pc \in Looping /\ chan.lba = call.lba
       /\ dev[e].at = call.lba + call.s /\ dev[e].left = call.n - call.s
       /\ dev[e].cmd = "read" => dev[e].left > 0
  /\ dev[e].cmd = "write" => dev[e].phase # "idle"

Course ==
  orderly =>
    /\ \A e \in Drives : Identifies(e) /\ Transmits(e)
    /\ pc = "signature" => dev[chan.sel].phase # "busy"
    /\ pc = "next" /\ dev[call.d].cmd = "write" => call.s = 0 \/ dev[call.d].phase = "drq"

Extent ==
  orderly /\ call.op \in Transfers =>
    /\ call.n > 0 /\ call.s \in 0 .. call.n /\ call.lba + call.n <= Size[call.d]
    /\ pc \in {"ready", "issue"} => call.s = 0

Progress == Calm /\ Course /\ Extent

LEMMA InitProgress == AtaInit => Progress
<1> SUFFICES ASSUME AtaInit PROVE Progress
  OBVIOUS
<1>1. pc = "boot" /\ call.op = "none"
      /\ \A e \in Drives : ~dev[e].err /\ dev[e].phase = "idle" /\ dev[e].cmd = "none"
  BY DEF AtaInit, NoCall, Idle
<1>2. Calm
  BY <1>1 DEF Calm
<1>3. Course /\ Extent
  BY <1>1 DEF Course, Extent, Identifies, Transmits, Transfers
<1> QED
  BY <1>2, <1>3 DEF Progress

(* A step of a drive, field by field.                                      *)
LEMMA DriveIs ==
  ASSUME Shape, NEW d \in Drives, Drive(d)
  PROVE  /\ dev[d].phase = "busy" /\ UNCHANGED <<setup, table, chan, pc, call, before, result>>
         /\ \A e \in Drives : e # d => dev'[e] = dev[e]
         /\ orderly' => orderly
         /\ \/ dev'[d].phase = "idle" /\ dev'[d].cmd = "none"
            \/ /\ dev'[d].phase = "drq" /\ dev'[d].cmd = dev[d].cmd /\ dev'[d].err = dev[d].err
               /\ dev'[d].at = dev[d].at /\ dev'[d].left = dev[d].left /\ dev[d].left > 0
               /\ dev[d].cmd \in {"identify"} \cup Transfers
<1>1. UNCHANGED <<setup, table, chan, pc, call, before, result>> /\ dev[d].phase = "busy"
  BY DEF Drive
<1>2. CASE Fail(d)
  <2>1. dev' = [dev EXCEPT ![d] = [Idle EXCEPT !.err = TRUE]] /\ (orderly' => orderly)
    BY <1>2 DEF Fail
  <2>2. dev'[d].phase = "idle" /\ dev'[d].cmd = "none"
    BY <2>1 DEF Idle, Shape
  <2> QED
    BY <1>1, <2>1, <2>2 DEF Shape
<1>3. CASE Ask(d)
  <2>1. dev' = [dev EXCEPT ![d].phase = "drq"] /\ UNCHANGED orderly /\ dev[d].left > 0
        /\ dev[d].cmd \in {"identify"} \cup Transfers
    BY <1>3 DEF Ask, Transfers
  <2>2. dev'[d] = [dev[d] EXCEPT !.phase = "drq"] /\ dev'[d].phase = "drq"
        /\ dev'[d].cmd = dev[d].cmd /\ dev'[d].at = dev[d].at /\ dev'[d].left = dev[d].left
        /\ dev'[d].err = dev[d].err
    BY <2>1 DEF Shape, Works
  <2> QED
    BY <1>1, <2>1, <2>2 DEF Shape
<1>4. CASE Done(d)
  <2>1. dev' = [dev EXCEPT ![d] = Idle] /\ UNCHANGED orderly
    BY <1>4 DEF Done
  <2>2. dev'[d].phase = "idle" /\ dev'[d].cmd = "none"
    BY <2>1 DEF Idle, Shape
  <2> QED
    BY <1>1, <2>1, <2>2 DEF Shape
<1> QED
  BY <1>2, <1>3, <1>4 DEF Drive

LEMMA DriveProgresses ==
  ASSUME Inv, Progress, NEW d \in Drives, Drive(d)
  PROVE  Progress'
<1> USE DEF Inv, Progress
<1>1. /\ dev[d].phase = "busy" /\ UNCHANGED <<chan, pc, call>>
      /\ \A e \in Drives : e # d => dev'[e] = dev[e]
      /\ orderly' => orderly
  BY DriveIs
<1>2. Calm'
  BY <1>1, DriveIs DEF Calm
<1>3. Course'
  <2> SUFFICES ASSUME orderly' PROVE Course'
    BY DEF Course
  <2>1. orderly /\ chan.sel \in Drives
    BY <1>1 DEF Shape
  <2>2. ASSUME NEW e \in Drives PROVE (Identifies(e) /\ Transmits(e))'
    <3>1. Identifies(e) /\ Transmits(e)
      BY <2>1 DEF Course
    <3>2. CASE e # d
      BY <1>1, <3>1, <3>2 DEF Identifies, Transmits
    <3>3. CASE e = d
      BY <1>1, <3>1, <3>3, DriveIs DEF Identifies, Transmits, Transfers
    <3> QED
      BY <3>2, <3>3
  <2>3. (pc = "signature" => dev[chan.sel].phase # "busy")'
    BY <1>1, <2>1 DEF Course
  <2>4. (pc = "next" /\ dev[call.d].cmd = "write" => call.s = 0 \/ dev[call.d].phase = "drq")'
    <3> SUFFICES ASSUME pc = "next", dev'[call.d].cmd = "write"
                 PROVE  call.s = 0 \/ dev'[call.d].phase = "drq"
      BY <1>1
    <3>1. call.d \in Drives
      BY DEF Place
    <3>2. dev[call.d].cmd = "write"
      BY <1>1, <3>1, DriveIs
    <3> QED
      BY <1>1, <2>1, <3>1, <3>2 DEF Course
  <2> QED
    BY <2>2, <2>3, <2>4 DEF Course
<1>4. Extent'
  BY <1>1, DriveIs DEF Extent
<1> QED
  BY <1>2, <1>3, <1>4

LEMMA SectorDoneAt ==
  ASSUME Shape, NEW d, d = chan.sel, NEW new, new = SectorDone
  PROVE  /\ \A e \in Drives : e # d => new[e] = dev[e]
         /\ new[d].cmd = dev[d].cmd /\ new[d].err = dev[d].err
         /\ new[d].at = dev[d].at + 1 /\ new[d].left = dev[d].left - 1
         /\ dev[d].left > 1 \/ dev[d].cmd = "write" => new[d].phase = "busy"
         /\ ~(dev[d].left > 1 \/ dev[d].cmd = "write") => new[d].phase = "idle"
<1> DEFINE old == dev[d]
           more == old.left > 1 \/ old.cmd = "write"
           then == [old EXCEPT !.phase = IF more THEN "busy" ELSE "idle", !.at = @ + 1, !.left = @ - 1]
<1>1. d \in Drives /\ old \in Works
  BY DEF Shape
<1>2. new = [dev EXCEPT ![d] = then]
  BY <1>1 DEF SectorDone, Shape
<1>3. old = [phase |-> old.phase, err |-> old.err, cmd |-> old.cmd, at |-> old.at, left |-> old.left]
  BY <1>1 DEF Works
<1>4. /\ then.cmd = old.cmd /\ then.err = old.err
      /\ then.at = old.at + 1 /\ then.left = old.left - 1
  <2> HIDE DEF old
  <2> QED
    BY <1>3
<1>5. (more => then.phase = "busy") /\ (~more => then.phase = "idle")
  <2> HIDE DEF old, more
  <2> QED
    BY <1>3
<1> HIDE DEF then
<1> QED
  BY <1>1, <1>2, <1>4, <1>5 DEF Shape

LEMMA BootProgresses == Inv /\ Progress /\ Boot => Progress'
<1> SUFFICES ASSUME Inv, Progress, Boot PROVE Progress'
  OBVIOUS
<1>1. pc' = "reset" /\ call'.op = "init"
  BY DEF Boot, NoCall
<1>2. ASSUME NEW e \in Drives
      PROVE  dev'[e].cmd \in {"none", "reset"} /\ ~dev'[e].err /\ dev'[e].phase # "drq"
  BY DEF Boot, Idle
<1>3. Calm'
  BY <1>2 DEF Calm
<1>4. Course' /\ Extent'
  BY <1>1, <1>2 DEF Course, Extent, Identifies, Transmits, Transfers
<1> QED
  BY <1>3, <1>4 DEF Progress

LEMMA IdentifyProgresses == Inv /\ Progress /\ Identify => Progress'
<1> SUFFICES ASSUME Inv, Progress, Identify PROVE Progress'
  OBVIOUS
<1> USE DEF Inv, Progress
<1>1. pc = "identify" /\ call.op = "init" /\ UNCHANGED orderly
  BY DEF Identify, Place
<1>2. CASE UNCHANGED dev /\ pc' \in {"identify", "idle"} /\ call'.op \in {"init", "none"}
  <2>1. Calm' /\ Extent'
    BY <1>2 DEF Calm, Extent, Transfers
  <2>2. ASSUME orderly, NEW e \in Drives
        PROVE  ~(dev[e].cmd \in {"identify"} \cup Transfers /\ dev[e].phase # "idle")
               /\ dev[e].cmd # "write"
    BY <1>1, <2>2 DEF Course, Identifies, Transmits, Identifying, Looping, Transfers
  <2>3. Course'
    BY <1>1, <1>2, <2>2 DEF Course, Identifies, Transmits
  <2> QED
    BY <2>1, <2>3
<1>3. CASE /\ pc' = "identified" /\ UNCHANGED call /\ call.d \in Drives
           /\ dev' = Commanded(call.d, "identify", 0, 1)
  <2>1. /\ dev' \in [Drives -> Works]
        /\ \A e \in Drives : dev'[e] = dev[e] \/
             (/\ e = call.d /\ dev'[e].phase = "busy" /\ dev'[e].cmd = "identify"
              /\ dev'[e].left = 1 /\ ~dev'[e].err)
    <3>1. "identify" \in Commands /\ 0 \in Nat /\ 1 \in Nat /\ 1 > 0 /\ Shape
      BY DEF Commands
    <3> QED
      BY <1>3, <3>1, CommandedIs
  <2>2. Calm' /\ Extent'
    BY <1>1, <1>3, <2>1 DEF Calm, Extent, Transfers
  <2>3. ASSUME orderly, NEW e \in Drives
        PROVE  ~(dev[e].cmd \in {"identify"} \cup Transfers /\ dev[e].phase # "idle")
               /\ dev[e].cmd # "write"
    BY <1>1, <2>3 DEF Course, Identifies, Transmits, Identifying, Looping, Transfers
  <2>4. ASSUME orderly, NEW e \in Drives PROVE (Identifies(e) /\ Transmits(e))'
    BY <1>1, <1>3, <2>1, <2>3, <2>4 DEF Identifies, Transmits, Identifying, Transfers
  <2>5. Course'
    BY <1>1, <1>3, <2>4 DEF Course
  <2> QED
    BY <2>2, <2>5
<1>4. CASE call.d \notin Drives
  <2>1. UNCHANGED dev /\ pc' = "idle" /\ call'.op = "none"
    BY <1>4 DEF Identify, Return, NoCall
  <2> QED
    BY <1>2, <2>1
<1>5. CASE call.d \in Drives /\ Kind[call.d] = "none"
  <2>1. UNCHANGED dev /\ pc' = "identify" /\ call' = [call EXCEPT !.d = @ + 1]
    BY <1>5 DEF Identify, NextDrive
  <2>2. call'.op = "init"
    BY <1>1, <2>1 DEF Shape
  <2> QED
    BY <1>2, <2>1, <2>2
<1>6. CASE call.d \in Drives /\ Kind[call.d] # "none"
  <2>1. pc' = "identified" /\ UNCHANGED call /\ dev' = Commanded(call.d, "identify", 0, 1)
    BY <1>6 DEF Identify
  <2> QED
    BY <1>3, <1>6, <2>1
<1> QED
  BY <1>4, <1>5, <1>6

LEMMA SignatureProgresses == Inv /\ Progress /\ Signature => Progress'
<1> SUFFICES ASSUME Inv, Progress, Signature PROVE Progress'
  OBVIOUS
<1> USE DEF Inv, Progress
<1>1. /\ pc = "signature" /\ call.op = "init" /\ call.d \in Drives /\ chan.sel = call.d
      /\ UNCHANGED <<setup, table, chan, dev, orderly>>
  BY DEF Signature, Place, Shape
<1>2. Calm'
  BY <1>1 DEF Calm
<1>3. CASE Kind[call.d] = "atapi"
  <2>1. pc' = "identify" /\ call' = [call EXCEPT !.d = @ + 1]
    BY <1>3 DEF Signature, NextDrive
  <2>2. call'.op = "init"
    BY <1>1, <2>1 DEF Shape
  <2>3. ASSUME orderly, NEW e \in Drives PROVE (Identifies(e) /\ Transmits(e))'
    <3>1. Identifies(e) /\ Transmits(e) /\ dev[call.d].phase # "busy"
      BY <1>1, <2>3 DEF Course
    <3>2. ~(dev[e].cmd = "identify" /\ dev[e].phase # "idle")
      <4>1. dev[e].phase \in Phases
        BY DEF Shape, Works
      <4> QED
        BY <1>1, <1>3, <3>1, <4>1 DEF Identifies, Doing, Transfers, Phases
    <3> QED
      BY <1>1, <2>1, <3>1, <3>2 DEF Identifies, Transmits, Looping, Transfers
  <2> QED
    BY <1>1, <1>2, <2>1, <2>2, <2>3 DEF Course, Extent, Transfers
<1>4. CASE Kind[call.d] # "atapi"
  <2>1. pc' = "drq" /\ UNCHANGED call
    BY <1>4 DEF Signature
  <2>2. ASSUME orderly, NEW e \in Drives PROVE (Identifies(e) /\ Transmits(e))'
    BY <1>1, <2>1, <2>2 DEF Course, Identifies, Transmits, Identifying, Looping, Transfers
  <2> QED
    BY <1>1, <1>2, <2>1, <2>2 DEF Course, Extent, Transfers
<1> QED
  BY <1>3, <1>4

LEMMA IdentifyDataProgresses == Inv /\ Progress /\ IdentifyData => Progress'
<1> SUFFICES ASSUME Inv, Progress, IdentifyData PROVE Progress'
  OBVIOUS
<1> USE DEF Inv, Progress
<1>1. /\ pc = "data" /\ call.op = "init" /\ call.d \in Drives /\ chan.sel = call.d
      /\ pc' = "identify" /\ call' = [call EXCEPT !.d = @ + 1]
      /\ UNCHANGED <<setup, chan, orderly>>
  BY DEF IdentifyData, NextDrive, Place, Shape
<1>2. call'.op = "init"
  BY <1>1 DEF Shape
<1>3. Extent'
  BY <1>2 DEF Extent, Transfers
<1>4. ASSUME orderly
      PROVE  /\ dev[call.d].phase = "drq" /\ dev[call.d].cmd = "identify" /\ dev[call.d].left = 1
             /\ \A e \in Drives : dev[e].cmd \notin Transfers
  BY <1>1, <1>4 DEF Sound, Doing, Course, Identifies
<1>5. CASE dev[call.d].phase = "drq" /\ dev[call.d].cmd = "identify"
  <2>1. dev' = SectorDone
    BY <1>5 DEF IdentifyData
  <2>2. /\ \A e \in Drives : e # call.d => dev'[e] = dev[e]
        /\ dev'[call.d].cmd = "identify" /\ dev'[call.d].err = dev[call.d].err
        /\ dev'[call.d].phase \in {"busy", "idle"}
        /\ orderly => dev'[call.d].phase = "idle"
    BY <1>1, <1>4, <1>5, <2>1, SectorDoneAt
  <2>3. Calm'
    BY <1>5, <2>2 DEF Calm
  <2>4. ASSUME orderly, NEW e \in Drives PROVE (Identifies(e) /\ Transmits(e))'
    <3>1. Identifies(e)
      BY <2>4 DEF Course
    <3> QED
      BY <1>1, <1>4, <2>2, <2>4, <3>1 DEF Identifies, Transmits, Transfers
  <2> QED
    BY <1>1, <1>3, <2>3, <2>4 DEF Course
<1>6. CASE ~(dev[call.d].phase = "drq" /\ dev[call.d].cmd = "identify")
  <2>1. UNCHANGED dev /\ ~orderly
    BY <1>4, <1>6 DEF IdentifyData
  <2> QED
    BY <1>1, <1>3, <2>1 DEF Calm, Course
<1> QED
  BY <1>5, <1>6

LEMMA WaitBusyProgresses == Inv /\ Progress /\ WaitBusy => Progress'
<1> SUFFICES ASSUME Inv, Progress, WaitBusy PROVE Progress'
  OBVIOUS
<1> USE DEF Inv, Progress
<1>1. UNCHANGED <<chan, dev, call>>
  BY DEF WaitBusy
<1>2. Calm'
  BY <1>1 DEF Calm
<1>3. CASE UNCHANGED <<pc, orderly>>
  BY <1>1, <1>2, <1>3 DEF Course, Extent, Identifies, Transmits
<1>4. CASE ~(Busy /\ Patience)
  <2>1. orderly' = (orderly /\ ~Busy) /\ pc' = AfterBusy[pc] /\ pc \in DOMAIN AfterBusy
    BY <1>4 DEF WaitBusy
  <2>2. \/ pc = "reset" /\ pc' = "identify"
        \/ pc = "identified" /\ pc' = "signature"
        \/ pc = "ready" /\ pc' = "issue"
        \/ pc = "sector" /\ pc' = "drq"
        \/ pc = "flushed" /\ pc' = "next"
    BY <2>1 DEF AfterBusy
  <2>3. Extent'
    BY <1>1, <2>1, <2>2 DEF Extent
  <2>4. Course'
    <3> SUFFICES ASSUME orderly' PROVE Course'
      BY DEF Course
    <3>1. orderly /\ dev[chan.sel].phase # "busy"
      BY <2>1 DEF Busy
    <3>2. ASSUME NEW e \in Drives PROVE (Identifies(e) /\ Transmits(e))'
      <4>1. Identifies(e) /\ Transmits(e)
        BY <3>1 DEF Course
      <4> QED
        BY <1>1, <2>2, <4>1 DEF Identifies, Transmits, Identifying, Looping
    <3>3. (pc = "next" /\ dev[call.d].cmd = "write" => call.s = 0 \/ dev[call.d].phase = "drq")'
      <4> SUFFICES ASSUME pc' = "next", dev[call.d].cmd = "write" PROVE dev[call.d].phase = "drq"
        BY <1>1
      <4>1. call.d \in Drives /\ chan.sel = call.d
        BY <2>2 DEF Place
      <4>2. dev[call.d].phase \in Phases /\ dev[call.d].phase # "idle"
        BY <3>1, <4>1 DEF Course, Transmits, Shape, Works
      <4> QED
        BY <3>1, <4>1, <4>2 DEF Phases
    <3>4. (pc = "signature" => dev[chan.sel].phase # "busy")'
      BY <1>1, <3>1
    <3> QED
      BY <3>2, <3>3, <3>4 DEF Course
  <2> QED
    BY <1>2, <2>3, <2>4
<1>5. CASE Busy /\ Patience
  BY <1>3, <1>5 DEF WaitBusy
<1> QED
  BY <1>4, <1>5

LEMMA WaitDrqProgresses == Inv /\ Progress /\ WaitDrq => Progress'
<1> SUFFICES ASSUME Inv, Progress, WaitDrq PROVE Progress'
  OBVIOUS
<1> USE DEF Inv, Progress
<1>1. pc = "drq" /\ UNCHANGED <<setup, table, chan, dev>>
      /\ call.op \in {"init"} \cup Transfers /\ call.d \in Drives /\ chan.sel = call.d
  BY DEF WaitDrq, Place, Shape
<1>2. Calm'
  BY <1>1 DEF Calm
<1>3. CASE UNCHANGED <<pc, call, orderly>>
  BY <1>1, <1>2, <1>3 DEF Course, Extent, Identifies, Transmits
<1>4. CASE /\ Err /\ UNCHANGED orderly
           /\ \/ pc' = "identify" /\ call'.op = "init"
              \/ pc' = "idle" /\ call'.op = "none"
  <2>1. dev[call.d].phase = "idle" /\ dev[call.d].cmd = "none"
    BY <1>1, <1>4 DEF Err, Calm
  <2>2. ASSUME orderly, NEW e \in Drives
        PROVE  ~(dev[e].cmd \in {"identify"} \cup Transfers /\ dev[e].phase # "idle")
               /\ dev[e].cmd # "write"
    <3>1. Identifies(e) /\ Transmits(e)
      BY <2>2 DEF Course
    <3> QED
      BY <2>1, <3>1 DEF Identifies, Transmits, Transfers
  <2>3. Course'
    BY <1>1, <1>4, <2>2 DEF Course, Identifies, Transmits
  <2> QED
    BY <1>2, <1>4, <2>3 DEF Extent, Transfers
<1>5. CASE pc' = "data" /\ orderly' = (orderly /\ Drq) /\ UNCHANGED call
  <2>1. ASSUME orderly, NEW e \in Drives PROVE (Identifies(e) /\ Transmits(e))'
    <3>1. Identifies(e) /\ Transmits(e)
      BY <2>1 DEF Course
    <3> QED
      BY <1>1, <1>5, <3>1 DEF Identifies, Transmits, Identifying, Looping
  <2> QED
    BY <1>1, <1>2, <1>5, <2>1 DEF Course, Extent
<1>6. CASE Err /\ call.op = "init" /\ NextDrive /\ UNCHANGED orderly
  <2>1. pc' = "identify" /\ call' = [call EXCEPT !.d = @ + 1]
    BY <1>6 DEF NextDrive
  <2>2. call'.op = "init"
    BY <1>6, <2>1 DEF Shape
  <2> QED
    BY <1>4, <1>6, <2>1, <2>2
<1>7. CASE Err /\ Return(-4) /\ UNCHANGED orderly
  <2>1. pc' = "idle" /\ call'.op = "none"
    BY <1>7 DEF Return, NoCall
  <2> QED
    BY <1>4, <1>7, <2>1
<1> QED
  BY <1>3, <1>5, <1>6, <1>7 DEF WaitDrq

LEMMA RequestProgresses ==
  ASSUME Inv, Inv', Progress, Trusted, NEW op \in Transfers, NEW d \in 0..2, NEW lba \in Nat, NEW n \in Nat,
         NEW data, Request(op, d, lba, n, data)
  PROVE  Progress'
<1> USE DEF Inv, Progress
<1>1. pc = "idle" /\ orderly /\ call.op = "none" /\ UNCHANGED <<setup, table, chan, dev>>
  BY DEF Request, Place
<1>2. Calm'
  BY <1>1 DEF Calm
<1>3. CASE result' = 0
  <2>1. call' = [op |-> op, d |-> d, lba |-> lba, n |-> n, s |-> 0, buf |-> data]
        /\ pc' = "ready"
    BY <1>3 DEF Request
  <2>2. ASSUME NEW e \in Drives
        PROVE  ~(dev[e].cmd \in {"identify"} \cup Transfers /\ dev[e].phase # "idle")
               /\ dev[e].cmd # "write"
    BY <1>1 DEF Course, Identifies, Transmits, Identifying, Looping, Transfers
  <2>3. Course'
    BY <1>1, <2>1, <2>2 DEF Course, Identifies, Transmits
  <2>4. Extent'
    <3>1. Trusted'
      BY <1>1 DEF Trusted, Guarded
    <3> QED
      BY <2>1, <3>1 DEF Extent, Sound
  <2> QED
    BY <1>2, <2>3, <2>4
<1>4. CASE result' # 0
  <2>1. UNCHANGED <<call, orderly, pc>>
    BY <1>4 DEF Request
  <2> QED
    BY <1>1, <1>2, <2>1 DEF Course, Extent, Identifies, Transmits
<1> QED
  BY <1>3, <1>4

LEMMA IssueProgresses == Inv /\ Progress /\ Issue => Progress'
<1> SUFFICES ASSUME Inv, Progress, Issue PROVE Progress'
  OBVIOUS
<1> USE DEF Inv, Progress
<1> DEFINE lba == call.lba % LbaSpace
<1>1. /\ pc = "issue" /\ pc' = "next" /\ call.op \in Transfers /\ call.d \in Drives
      /\ chan'.sel = call.d /\ chan'.lba = lba /\ dev' = Commanded(call.d, call.op, lba, call.n)
      /\ UNCHANGED <<setup, table, call, orderly>>
  BY DEF Issue, Place
<1>2. call.op \in Commands /\ lba \in Nat /\ call.n \in Nat /\ call.lba \in Nat /\ Shape
  BY <1>1, AtaAssumption DEF Shape, Commands, Transfers
<1>3. \A e \in Drives : dev'[e] = dev[e] \/
         (/\ e = call.d /\ dev'[e].phase = "busy" /\ dev'[e].cmd = call.op /\ dev'[e].at = lba
          /\ call.n > 0 => dev'[e].left = call.n
          /\ ~dev'[e].err)
  <2> HIDE DEF lba
  <2> QED
    BY <1>1, <1>2, CommandedIs
<1>4. orderly => call.n > 0 /\ call.s = 0 /\ lba = call.lba
  <2>1. ASSUME orderly PROVE call.n > 0 /\ call.s = 0 /\ call.lba + call.n <= Size[call.d]
    BY <1>1, <2>1 DEF Extent
  <2>2. ASSUME orderly PROVE call.lba < LbaSpace
    BY <1>1, <1>2, <2>1, <2>2, AtaAssumption
  <2>3. ASSUME orderly PROVE lba = call.lba
    BY <1>2, <2>2, <2>3, SmallMod, AtaAssumption
  <2> QED
    BY <2>1, <2>3
<1> HIDE DEF lba
<1>5. Calm'
  BY <1>3 DEF Calm
<1>6. Extent'
  BY <1>1 DEF Extent
<1>7. ASSUME orderly, NEW e \in Drives PROVE (Identifies(e) /\ Transmits(e))'
  <2>1. ~(dev[e].cmd \in {"identify"} \cup Transfers /\ dev[e].phase # "idle")
        /\ dev[e].cmd # "write"
    BY <1>1, <1>7 DEF Course, Identifies, Transmits, Identifying, Looping, Transfers
  <2> QED
    BY <1>1, <1>2, <1>3, <1>4, <1>7, <2>1 DEF Identifies, Transmits, Looping, Transfers
<1>8. Course'
  BY <1>1, <1>4, <1>7 DEF Course
<1> QED
  BY <1>5, <1>6, <1>8

LEMMA NextSectorProgresses == Inv /\ Progress /\ NextSector => Progress'
<1> SUFFICES ASSUME Inv, Progress, NextSector PROVE Progress'
  OBVIOUS
<1> USE DEF Inv, Progress
<1>1. pc = "next" /\ UNCHANGED <<setup, table, chan, dev, orderly>>
      /\ call.op \in Transfers /\ call.d \in Drives
  BY DEF NextSector, Place
<1>2. Calm'
  BY <1>1 DEF Calm
<1>3. CASE pc' = "sector" /\ UNCHANGED call
  <2>1. ASSUME orderly, NEW e \in Drives PROVE (Identifies(e) /\ Transmits(e))'
    <3>1. Identifies(e) /\ Transmits(e)
      BY <2>1 DEF Course
    <3> QED
      BY <1>1, <1>3, <3>1 DEF Identifies, Transmits, Identifying, Looping
  <2> QED
    BY <1>1, <1>2, <1>3, <2>1 DEF Course, Extent
<1>4. CASE Return(0) /\ ~(call.s < call.n)
  <2>1. pc' = "idle" /\ call'.op = "none"
    BY <1>4 DEF Return, NoCall
  <2>2. ASSUME orderly PROVE call.s = call.n /\ call.s # 0
    BY <1>1, <1>4, <2>2 DEF Extent, Shape
  <2>3. ASSUME orderly, NEW e \in Drives
        PROVE  ~(dev[e].cmd \in {"identify"} \cup Transfers /\ dev[e].phase # "idle")
               /\ dev[e].cmd # "write"
    <3>1. Identifies(e) /\ Transmits(e)
          /\ (dev[call.d].cmd = "write" => dev[call.d].phase = "drq")
      BY <1>1, <2>2, <2>3 DEF Course
    <3>2. dev[e].phase = "drq" => dev[e].left > 0
      BY DEF Calm
    <3>3. call.n - call.s = 0
      BY <1>1, <2>2, <2>3 DEF Shape
    <3> QED
      BY <1>1, <3>1, <3>2, <3>3 DEF Identifies, Transmits, Transfers
  <2>4. Course'
    BY <1>1, <2>1, <2>3 DEF Course, Identifies, Transmits
  <2> QED
    BY <1>2, <2>1, <2>4 DEF Extent, Transfers
<1> QED
  BY <1>3, <1>4 DEF NextSector

(* The drive that is asked offers the next sector, while all is well.      *)
LEMMA OffersTheNext ==
  ASSUME Inv, Progress, orderly, pc = "data", call.op \in Transfers
  PROVE  /\ chan.sel = call.d /\ call.d \in Drives
         /\ dev[call.d].phase = "drq" /\ dev[call.d].cmd = call.op
         /\ dev[call.d].at = call.lba + call.s /\ dev[call.d].left = call.n - call.s
         /\ dev[call.d].left > 0 /\ call.s < call.n
<1>1. chan.sel = call.d /\ call.d \in Drives /\ dev[call.d].phase = "drq"
  BY DEF Inv, Place, Sound
<1>2. /\ dev[call.d].cmd \in Transfers \cup {"identify"} /\ dev[call.d].left > 0
      /\ Identifies(call.d) /\ Transmits(call.d)
      /\ call.s \in Nat /\ call.n \in Nat
  BY <1>1 DEF Inv, Doing, Progress, Calm, Course, Extent, Shape
<1> QED
  BY <1>1, <1>2 DEF Identifies, Transmits, Transfers

(* A data phase of a transfer moves one sector.                            *)
LEMMA TransferProgresses ==
  ASSUME Inv, Progress, call.op \in Transfers, pc = "data",
         dev' = dev \/ (dev' = SectorDone /\ dev[chan.sel].phase = "drq"),
         orderly => dev' = SectorDone,
         pc' \in {"next", "flush"}, pc' = "next" => call.op = "read",
         UNCHANGED <<setup, table, chan, orderly>>,
         call'.op = call.op, call'.d = call.d, call'.lba = call.lba, call'.n = call.n,
         call'.s = call.s + 1
  PROVE  Progress'
<1> USE DEF Inv, Progress
<1>1. call.d \in Drives /\ chan.sel = call.d /\ Shape
  BY DEF Place
<1>2. /\ \A e \in Drives : e # call.d => dev'[e] = dev[e]
      /\ dev'[call.d].err = dev[call.d].err /\ dev'[call.d].cmd = dev[call.d].cmd
      /\ \/ dev'[call.d] = dev[call.d]
         \/ dev'[call.d].phase \in {"busy", "idle"} /\ dev[call.d].phase = "drq"
  BY <1>1, SectorDoneAt
<1>3. Calm'
  BY <1>1, <1>2 DEF Calm
<1>4. ASSUME orderly
      PROVE  /\ dev[call.d].phase = "drq" /\ dev[call.d].cmd = call.op
             /\ dev[call.d].at = call.lba + call.s /\ dev[call.d].left = call.n - call.s
             /\ dev[call.d].left > 0 /\ call.s < call.n
             /\ dev'[call.d].at = dev[call.d].at + 1 /\ dev'[call.d].left = dev[call.d].left - 1
             /\ dev[call.d].left > 1 \/ call.op = "write" => dev'[call.d].phase = "busy"
             /\ ~(dev[call.d].left > 1 \/ call.op = "write") => dev'[call.d].phase = "idle"
  BY <1>1, <1>4, OffersTheNext, SectorDoneAt
<1>5. Extent'
  BY <1>4 DEF Extent, Shape
<1>6. ASSUME orderly, NEW e \in Drives PROVE (Identifies(e) /\ Transmits(e))'
  <2>1. Identifies(e) /\ Transmits(e)
    BY <1>6 DEF Course
  <2>2. CASE e # call.d
    BY <1>1, <1>2, <2>1, <2>2 DEF Identifies, Transmits, Transfers
  <2>3. CASE e = call.d
    <3>1. call.n \in Nat /\ call.s \in Nat /\ call.lba \in Nat
      BY <1>6 DEF Extent, Shape
    <3>2. /\ (call.lba + call.s) + 1 = call.lba + (call.s + 1)
          /\ (call.n - call.s) - 1 = call.n - (call.s + 1)
      BY <3>1
    <3>3. dev'[e].phase # "idle" => dev'[e].phase = "busy" /\ (dev[e].left > 1 \/ call.op = "write")
      BY <1>4, <1>6, <2>3
    <3>4. dev[e].left > 1 => dev[e].left - 1 > 0
      BY <1>4, <1>6, <2>3, <3>1
    <3>5. chan.lba = call.lba
      BY <1>4, <1>6, <2>1, <2>3 DEF Transmits
    <3> QED
      BY <1>1, <1>2, <1>4, <1>6, <2>3, <3>2, <3>3, <3>4, <3>5
      DEF Identifies, Transmits, Transfers, Looping
  <2> QED
    BY <2>2, <2>3
<1>7. Course'
  BY <1>1, <1>2, <1>4, <1>6 DEF Course
<1> QED
  BY <1>3, <1>5, <1>7

LEMMA ReadDataIs ==
  ASSUME Inv, ReadData
  PROVE  /\ pc = "data" /\ call.op = "read" /\ pc' = "next"
         /\ UNCHANGED <<setup, table, chan, disk, before, result, orderly>>
         /\ call'.op = call.op /\ call'.d = call.d /\ call'.lba = call.lba /\ call'.n = call.n
         /\ call'.s = call.s + 1
<1>1. PICK buf : call' = [call EXCEPT !.s = @ + 1, !.buf = buf]
  BY DEF ReadData
<1>2. call' = [op |-> call.op, d |-> call.d, lba |-> call.lba, n |-> call.n,
               s |-> call.s + 1, buf |-> buf]
  BY <1>1 DEF Inv, Shape
<1> QED
  BY <1>2 DEF ReadData

LEMMA WriteDataIs ==
  ASSUME Inv, WriteData
  PROVE  /\ pc = "data" /\ call.op = "write" /\ pc' = "flush"
         /\ UNCHANGED <<setup, table, chan, before, result, orderly>>
         /\ call'.op = call.op /\ call'.d = call.d /\ call'.lba = call.lba /\ call'.n = call.n
         /\ call'.s = call.s + 1 /\ call'.buf = call.buf
<1>1. call' = [op |-> call.op, d |-> call.d, lba |-> call.lba, n |-> call.n,
               s |-> call.s + 1, buf |-> call.buf]
  BY DEF WriteData, Inv, Shape
<1> QED
  BY <1>1 DEF WriteData

LEMMA DataProgresses == Inv /\ Progress /\ (ReadData \/ WriteData) => Progress'
<1> SUFFICES ASSUME Inv, Progress, ReadData \/ WriteData PROVE Progress'
  OBVIOUS
<1>1. CASE ReadData
  <2>1. dev' = dev \/ (dev' = SectorDone /\ dev[chan.sel].phase = "drq")
    BY <1>1 DEF ReadData
  <2>2. orderly => dev' = SectorDone
    BY <1>1, ReadDataIs, OffersTheNext DEF ReadData, Transfers
  <2> QED
    BY <1>1, <2>1, <2>2, ReadDataIs, TransferProgresses DEF Transfers
<1>2. CASE WriteData
  <2>1. dev' = dev \/ (dev' = SectorDone /\ dev[chan.sel].phase = "drq")
    BY <1>2 DEF WriteData
  <2>2. orderly => dev' = SectorDone
    BY <1>2, WriteDataIs, OffersTheNext DEF WriteData, Transfers
  <2> QED
    BY <1>2, <2>1, <2>2, WriteDataIs, TransferProgresses DEF Transfers
<1> QED
  BY <1>1, <1>2

LEMMA FlushProgresses == Inv /\ Progress /\ Flush => Progress'
<1> SUFFICES ASSUME Inv, Progress, Flush PROVE Progress'
  OBVIOUS
<1> USE DEF Inv, Progress
<1>1. pc = "flush" /\ pc' = "flushed" /\ dev' = Commanded(chan.sel, "flush", 0, 1)
      /\ UNCHANGED <<setup, table, chan, call, orderly>>
  BY DEF Flush
<1>2. \A e \in Drives : dev'[e] = dev[e] \/
        (dev'[e].phase = "busy" /\ dev'[e].cmd = "flush" /\ ~dev'[e].err)
  <2>1. "flush" \in Commands /\ 0 \in Nat /\ 1 \in Nat /\ Shape /\ chan.sel \in Drives
    BY DEF Commands, Shape
  <2> QED
    BY <1>1, <2>1, CommandedIs
<1>3. Calm' /\ Extent'
  BY <1>1, <1>2 DEF Calm, Extent
<1>4. ASSUME orderly, NEW e \in Drives PROVE (Identifies(e) /\ Transmits(e))'
  <2>1. Identifies(e) /\ Transmits(e)
    BY <1>4 DEF Course
  <2> QED
    BY <1>1, <1>2, <2>1 DEF Identifies, Transmits, Identifying, Looping, Transfers
<1>5. Course'
  BY <1>1, <1>4 DEF Course
<1> QED
  BY <1>3, <1>5

LEMMA NextProgresses == Inv /\ Progress /\ Trusted /\ [AtaNext]_ataVars => Progress'
<1> SUFFICES ASSUME Inv, Progress, Trusted, [AtaNext]_ataVars PROVE Progress'
  OBVIOUS
<1>1. CASE Driver
  BY <1>1, BootProgresses, IdentifyProgresses, SignatureProgresses, IdentifyDataProgresses,
     WaitBusyProgresses, WaitDrqProgresses, IssueProgresses, NextSectorProgresses,
     DataProgresses, FlushProgresses DEF Driver
<1>2. CASE Read \/ Write
  <2>1. PICK op \in Transfers, d \in 0..2, lba \in 0..(Word - 1), n \in 0..MaxCount :
          \E data : Request(op, d, lba, n, data)
    BY <1>2 DEF Read, Write, Transfers
  <2>2. lba \in Nat /\ n \in Nat /\ Inv'
    BY NextKeeps, AtaAssumption
  <2> QED
    BY <2>1, <2>2, RequestProgresses
<1>3. CASE \E d \in Drives : Drive(d)
  BY <1>3, DriveProgresses
<1>4. CASE UNCHANGED ataVars
  BY <1>4 DEF ataVars, Progress, Calm, Course, Extent, Identifies, Transmits
<1> QED
  BY <1>1, <1>2, <1>3, <1>4 DEF AtaNext

-----------------------------------------------------------------------------
(* What the sectors hold meanwhile.  An error can take back the sector that*)
(* was sent last, but not when it is the last of the call: the driver would*)
(* not see it.                                                             *)
Sectors(e) == 0 .. Size[e] - 1

IsDisk(x) == x = [e \in Drives |-> [a \in Sectors(e) |-> x[e][a]]]

Wrote(s) ==
  \A e \in Drives : \A a \in Sectors(e) :
    disk[e][a] = IF e = call.d /\ a \in call.lba .. call.lba + s - 1
                 THEN call.buf[a - call.lba + 1] ELSE before[e][a]

ReadSoFar ==
  /\ DOMAIN call.buf = 1 .. call.s
  /\ \A i \in 1 .. call.s : call.buf[i] = before[call.d][call.lba + i - 1]

WroteSoFar ==
  \/ Wrote(call.s)
  \/ call.s < call.n /\ dev[call.d].cmd # "write" /\ Wrote(call.s - 1)

Delivered ==
  orderly => /\ call.op # "write" => disk = before
             /\ call.op = "read" => ReadSoFar
             /\ call.op = "write" => WroteSoFar

Held == IsDisk(disk) /\ IsDisk(before) /\ Delivered

All == Inv /\ Progress /\ Held

LEMMA InitHeld == AtaInit => Held
<1> SUFFICES ASSUME AtaInit PROVE Held
  OBVIOUS
<1>1. disk = [d \in Drives |-> [i \in 0..(Size[d] - 1) |-> Content[d][i]]]
      /\ before = disk /\ call.op = "none"
  BY DEF AtaInit, NoCall
<1>2. IsDisk(disk)
  BY <1>1 DEF IsDisk, Sectors
<1> QED
  BY <1>1, <1>2 DEF Held, Delivered

(* A step that leaves the call and the sectors alone.                      *)
LEMMA SameCallHolds ==
  ASSUME Shape, Held, UNCHANGED <<disk, before, call>>, orderly' => orderly,
         dev'[call.d].cmd = "write" => dev[call.d].cmd = "write" \/ call.s = 0
  PROVE  Held'
<1>1. IsDisk(disk)' /\ IsDisk(before)'
  BY DEF Held, IsDisk
<1>2. \A s : Wrote(s) => Wrote(s)'
  BY DEF Wrote
<1>3. ReadSoFar => ReadSoFar'
  BY DEF ReadSoFar
<1>4. WroteSoFar => WroteSoFar'
  <2>1. CASE Wrote(call.s)
    BY <1>2, <2>1 DEF WroteSoFar
  <2>2. CASE call.s < call.n /\ dev[call.d].cmd # "write" /\ Wrote(call.s - 1)
    <3>1. Wrote(call.s - 1)'
      BY <1>2, <2>2
    <3>2. CASE call.s = 0
      <4>1. \A a \in Int : /\ a \notin call.lba .. call.lba + 0 - 1
                           /\ a \notin call.lba .. call.lba + (0 - 1) - 1
        BY DEF Shape
      <4>2. \A e \in Drives : Sectors(e) \subseteq Int
        BY DEF Sectors
      <4>3. Wrote(0 - 1)' => Wrote(0)'
        BY <4>1, <4>2 DEF Wrote
      <4>4. Wrote(call.s)'
        BY <3>1, <3>2, <4>3
      <4> QED
        BY <4>4 DEF WroteSoFar
    <3>3. CASE call.s # 0
      BY <2>2, <3>1, <3>3 DEF WroteSoFar
    <3> QED
      BY <3>2, <3>3
  <2> QED
    BY <2>1, <2>2 DEF WroteSoFar
<1> QED
  BY <1>1, <1>3, <1>4 DEF Held, Delivered

(* A step of ata_init, or the end of a call.                               *)
LEMMA OtherCallHolds ==
  ASSUME Held, UNCHANGED <<disk, orderly>>, call'.op \in {"none", "init"},
         before' = disk \/ (before' = before /\ call.op # "write")
  PROVE  Held'
BY DEF Held, Delivered, IsDisk

(* Failing is the only thing a drive does to its sectors by itself.        *)
LEMMA DriveHolds ==
  ASSUME All, NEW d \in Drives, Drive(d)
  PROVE  Held'
<1> USE DEF All, Inv
<1>1. UNCHANGED <<call, before>> /\ (orderly' => orderly) /\ dev[d].phase = "busy"
      /\ (dev'[call.d].cmd = "write" => dev[call.d].cmd = "write" \/ call.d \notin Drives)
  BY DriveIs
<1>2. CASE UNCHANGED disk
  <2>1. CASE call.d \in Drives
    BY <1>1, <1>2, <2>1, SameCallHolds
  <2>2. CASE call.d \notin Drives
    <3>1. call.op # "write"
      BY <2>2 DEF Place, Transfers
    <3>2. IsDisk(disk)' /\ IsDisk(before)'
      BY <1>1, <1>2 DEF Held, IsDisk
    <3>3. ReadSoFar => ReadSoFar'
      BY <1>1 DEF ReadSoFar
    <3> QED
      BY <1>1, <1>2, <3>1, <3>2, <3>3 DEF Held, Delivered
  <2> QED
    BY <2>1, <2>2
<1>3. CASE disk' # disk
  <2> DEFINE last == dev[d].at - 1
  <2>1. /\ dev[d].cmd = "write" /\ dev[d].at > chan.lba
        /\ disk' = [disk EXCEPT ![d][last] = before[d][last]]
        /\ orderly' => orderly /\ dev[d].left # 0
        /\ dev'[d].cmd # "write"
    <3>1. Fail(d)
      BY <1>3 DEF Drive, Ask, Done
    <3>2. dev' = [dev EXCEPT ![d] = [Idle EXCEPT !.err = TRUE]]
      BY <3>1 DEF Fail
    <3>3. dev'[d].cmd # "write"
      BY <3>2 DEF Idle, Shape
    <3>4. dev[d].cmd = "write" /\ dev[d].at > chan.lba
          /\ disk' = [disk EXCEPT ![d][last] = before[d][last]]
      BY <1>3, <3>1 DEF Fail
    <3>5. orderly' => orderly /\ dev[d].left # 0
      BY <3>1, <3>4 DEF Fail
    <3> QED
      BY <3>3, <3>4, <3>5
  <2>2. PICK l : l = last
    OBVIOUS
  <2>3. disk' = [disk EXCEPT ![d] = [disk[d] EXCEPT ![l] = before[d][l]]]
    BY <2>1, <2>2
  <2> HIDE DEF last
  <2>4. /\ IsDisk(disk')
        /\ \A e \in Drives : \A a \in Sectors(e) :
             disk'[e][a] = IF e = d /\ a = l THEN before[e][a] ELSE disk[e][a]
    BY <2>3, ZenonT(40) DEF Held, IsDisk
  <2>5. IsDisk(disk)' /\ IsDisk(before)'
    BY <1>1, <2>4 DEF Held, IsDisk
  <2> SUFFICES ASSUME orderly' PROVE Delivered'
    BY <2>5 DEF Held, Delivered
  <2>6. /\ call.op = "write" /\ call.d = d /\ chan.lba = call.lba
        /\ dev[d].at = call.lba + call.s /\ dev[d].left = call.n - call.s
    BY <1>1, <2>1 DEF Progress, Course, Transmits, Transfers
  <2>7. call.s \in Nat /\ call.n \in Nat /\ call.lba \in Nat /\ call.s <= call.n
    BY <2>1, <2>6 DEF Progress, Extent, Shape, Transfers
  <2>8. l = call.lba + call.s - 1 /\ call.s > 0 /\ call.s < call.n
    BY <2>1, <2>2, <2>6, <2>7 DEF last
  <2>9. Wrote(call.s)
    BY <2>1, <2>6 DEF Held, Delivered, WroteSoFar
  <2>10. Wrote(call.s - 1)'
    <3> SUFFICES ASSUME NEW e \in Drives, NEW a \in Sectors(e)
                 PROVE  disk'[e][a] = IF e = call.d /\ a \in call.lba .. call.lba + (call.s - 1) - 1
                                      THEN call.buf[a - call.lba + 1] ELSE before[e][a]
      BY <1>1 DEF Wrote
    <3>1. disk[e][a] = IF e = call.d /\ a \in call.lba .. call.lba + call.s - 1
                       THEN call.buf[a - call.lba + 1] ELSE before[e][a]
      BY <2>9 DEF Wrote
    <3>2. a \in Int
      BY DEF Sectors
    <3> QED
      BY <2>4, <2>6, <2>7, <2>8, <3>1, <3>2
  <2> QED
    BY <1>1, <2>1, <2>6, <2>8, <2>10 DEF Delivered, WroteSoFar
<1> QED
  BY <1>2, <1>3

(* The steps that move no sector.                                          *)
LEMMA MovingOnHolds ==
  ASSUME All, Boot \/ Identify \/ Signature \/ IdentifyData \/ WaitBusy \/ NextSector
  PROVE  Held'
<1> USE DEF All, Inv
<1>1. CASE Boot
  BY <1>1, OtherCallHolds DEF Boot, NoCall, Place
<1>2. CASE Identify
  <2>1. call.op = "init" /\ UNCHANGED <<disk, orderly>>
    BY <1>2 DEF Identify, Place
  <2>2. CASE Return(0)
    BY <2>1, <2>2, OtherCallHolds DEF Return, NoCall
  <2>3. CASE before' = before /\ (NextDrive \/ UNCHANGED call)
    <3>1. call'.op = "init"
      BY <2>1, <2>3 DEF NextDrive, Shape
    <3> QED
      BY <2>1, <2>3, <3>1, OtherCallHolds
  <2> QED
    BY <1>2, <2>2, <2>3 DEF Identify
<1>3. CASE Signature \/ IdentifyData
  <2>1. call.op = "init" /\ UNCHANGED <<disk, before, orderly>> /\ (NextDrive \/ UNCHANGED call)
    BY <1>3 DEF Signature, IdentifyData, Place
  <2>2. call'.op = "init"
    BY <2>1 DEF NextDrive, Shape
  <2> QED
    BY <2>1, <2>2, OtherCallHolds
<1>4. CASE WaitBusy
  <2>1. UNCHANGED <<dev, disk, before, call>> /\ (orderly' => orderly)
    BY <1>4 DEF WaitBusy
  <2> QED
    BY <2>1, SameCallHolds
<1>5. CASE NextSector
  <2>1. UNCHANGED <<dev, disk, orderly>>
    BY <1>5 DEF NextSector
  <2>2. CASE UNCHANGED <<call, before>>
    BY <2>1, <2>2, SameCallHolds
  <2>3. CASE Return(0)
    BY <2>1, <2>3, OtherCallHolds DEF Return, NoCall
  <2> QED
    BY <1>5, <2>2, <2>3 DEF NextSector
<1> QED
  BY <1>1, <1>2, <1>3, <1>4, <1>5

LEMMA WaitDrqHolds == All /\ WaitDrq => Held'
<1> SUFFICES ASSUME All, WaitDrq PROVE Held'
  OBVIOUS
<1> USE DEF All, Inv
<1>1. UNCHANGED <<dev, disk>> /\ (orderly' => orderly)
  <2>1. UNCHANGED <<dev, disk>>
    BY DEF WaitDrq
  <2>2. orderly' = orderly \/ orderly' = (orderly /\ Drq)
    BY Zenon DEF WaitDrq
  <2>3. orderly' => orderly
    BY Zenon, <2>2
  <2> QED
    BY Zenon, <2>1, <2>3
<1>2. CASE UNCHANGED <<call, before>>
  BY <1>1, <1>2, SameCallHolds
<1>3. CASE UNCHANGED orderly /\ Return(-4)
  BY <1>1, <1>3, OtherCallHolds DEF Return, NoCall
<1>4. CASE UNCHANGED <<orderly, before>> /\ call.op = "init" /\ NextDrive
  <2>1. call'.op = "init"
    BY <1>4 DEF NextDrive, Shape
  <2> QED
    BY <1>1, <1>4, <2>1, OtherCallHolds
<1> QED
  BY <1>2, <1>3, <1>4 DEF WaitDrq

LEMMA RequestHolds ==
  ASSUME All, NEW op \in Transfers, NEW d \in 0..2, NEW lba \in Nat, NEW n \in Nat,
         NEW data, op = "read" => data = <<>>, Request(op, d, lba, n, data)
  PROVE  Held'
<1> USE DEF All, Inv
<1>1. pc = "idle" /\ orderly /\ call.op = "none" /\ UNCHANGED <<dev, disk, before>>
  BY DEF Request, Place
<1>2. disk = before
  BY <1>1 DEF Held, Delivered
<1>3. IsDisk(disk)' /\ IsDisk(before)'
  BY <1>1 DEF Held, IsDisk
<1>4. CASE result' = 0
  <2>1. call' = [op |-> op, d |-> d, lba |-> lba, n |-> n, s |-> 0, buf |-> data]
    BY <1>4 DEF Request
  <2>2. ReadSoFar' \/ op # "read"
    <3>1. op = "read" => DOMAIN data = {}
      OBVIOUS
    <3>2. 1 .. 0 = {}
      OBVIOUS
    <3> QED
      BY <2>1, <3>1, <3>2 DEF ReadSoFar
  <2>3. Wrote(0)'
    <3>1. \A e \in Drives : \A a \in Sectors(e) : ~(a \in lba .. lba + 0 - 1)
      BY DEF Sectors
    <3> QED
      BY <1>1, <1>2, <2>1, <3>1 DEF Wrote
  <2> QED
    BY <1>1, <1>2, <1>3, <2>1, <2>2, <2>3 DEF Held, Delivered, WroteSoFar
<1>5. CASE result' # 0
  <2>1. UNCHANGED <<call, orderly>>
    BY <1>5 DEF Request
  <2> QED
    BY <1>1, <2>1, SameCallHolds
<1> QED
  BY <1>4, <1>5

LEMMA IssueAndFlushHold == All /\ (Issue \/ Flush) => Held'
<1> SUFFICES ASSUME All, Issue \/ Flush PROVE Held'
  OBVIOUS
<1> USE DEF All, Inv
<1>1. UNCHANGED <<disk, before, call, orderly>> /\ call.op \in Transfers /\ call.d \in Drives
  BY DEF Issue, Flush, Place
<1>2. CASE orderly
  <2>1. dev'[call.d].cmd = "write" => dev[call.d].cmd = "write" \/ call.s = 0
    <3>1. CASE Issue
      BY <1>1, <1>2, <3>1 DEF Issue, Progress, Extent
    <3>2. CASE Flush
      <4>1. "flush" \in Commands /\ 0 \in Nat /\ 1 \in Nat /\ Shape /\ chan.sel \in Drives
        BY DEF Commands, Shape
      <4>2. dev'[call.d] = dev[call.d] \/ dev'[call.d].cmd = "flush"
        BY <1>1, <3>2, <4>1, CommandedIs DEF Flush
      <4> QED
        BY <4>2
    <3> QED
      BY <3>1, <3>2
  <2> QED
    BY <1>1, <2>1, SameCallHolds
<1>3. CASE ~orderly
  BY <1>1, <1>3 DEF Held, Delivered, IsDisk
<1> QED
  BY <1>2, <1>3

LEMMA ReadDataHolds == All /\ ReadData => Held'
<1> SUFFICES ASSUME All, ReadData PROVE Held'
  OBVIOUS
<1> USE DEF All
<1>1. /\ pc = "data" /\ call.op = "read" /\ UNCHANGED <<disk, before, orderly>>
      /\ call'.op = call.op /\ call'.d = call.d /\ call'.lba = call.lba /\ call'.n = call.n
      /\ call'.s = call.s + 1
  BY ReadDataIs
<1>2. IsDisk(disk)' /\ IsDisk(before)'
  BY <1>1 DEF Held, IsDisk
<1> SUFFICES ASSUME orderly PROVE ReadSoFar' /\ disk' = before'
  BY <1>1, <1>2 DEF Held, Delivered
<1>3. /\ chan.sel = call.d /\ dev[call.d].phase = "drq" /\ dev[call.d].cmd = "read"
      /\ dev[call.d].at = call.lba + call.s
  BY <1>1, OffersTheNext DEF Transfers
<1>4. disk = before /\ ReadSoFar /\ call.s \in Nat /\ call.lba \in Nat
  BY <1>1 DEF Held, Delivered, Progress, Extent, Transfers, Inv, Shape
<1>5. PICK word : word = before[call.d][call.lba + call.s]
  OBVIOUS
<1>6. PICK buf : buf = [i \in DOMAIN call.buf \cup {call.s + 1} |->
                          IF i = call.s + 1 THEN word ELSE call.buf[i]]
  OBVIOUS
<1>7. call' = [call EXCEPT !.s = @ + 1, !.buf = buf]
  BY <1>3, <1>4, <1>5, <1>6 DEF ReadData, Slot
<1>8. call'.buf = buf
  BY <1>7 DEF Inv, Shape
<1>9. DOMAIN buf = 1 .. call.s + 1
  BY <1>4, <1>6 DEF ReadSoFar
<1>10. ASSUME NEW i \in 1 .. call.s + 1 PROVE buf[i] = before[call.d][call.lba + i - 1]
  <2>1. CASE i = call.s + 1
    <3>1. call.lba + i - 1 = call.lba + call.s
      BY <1>4, <2>1
    <3> QED
      BY <1>5, <1>6, <2>1, <3>1
  <2>2. CASE i # call.s + 1
    <3>1. i \in 1 .. call.s
      BY <1>4, <2>2
    <3> QED
      BY <1>4, <1>6, <2>2, <3>1 DEF ReadSoFar
  <2> QED
    BY <2>1, <2>2
<1> QED
  BY <1>1, <1>4, <1>8, <1>9, <1>10 DEF ReadSoFar

LEMMA WriteDataHolds == All /\ WriteData => Held'
<1> SUFFICES ASSUME All, WriteData PROVE Held'
  OBVIOUS
<1> USE DEF All
<1>1. /\ pc = "data" /\ call.op = "write" /\ UNCHANGED <<before, orderly>>
      /\ call'.op = call.op /\ call'.d = call.d /\ call'.lba = call.lba /\ call'.n = call.n
      /\ call'.s = call.s + 1 /\ call'.buf = call.buf
  BY WriteDataIs
<1>2. PICK d, at, word : d = chan.sel /\ at = dev[d].at /\ word = call.buf[call.s + 1]
  OBVIOUS
<1>3. disk' = disk \/ disk' = [disk EXCEPT ![d] = [disk[d] EXCEPT ![at] = word]]
  BY <1>2 DEF WriteData, Slot
<1>4. IsDisk(disk)' /\ IsDisk(before)'
  BY <1>1, <1>3 DEF Held, IsDisk
<1> SUFFICES ASSUME orderly PROVE Wrote(call.s)'
  BY <1>1, <1>4 DEF Held, Delivered, WroteSoFar
<1>5. /\ d = call.d /\ call.d \in Drives /\ dev[d].phase = "drq" /\ dev[d].cmd = "write"
      /\ at = call.lba + call.s
  BY <1>1, <1>2, OffersTheNext DEF Transfers
<1>6. disk' = [disk EXCEPT ![d] = [disk[d] EXCEPT ![at] = word]]
  BY <1>2, <1>5 DEF WriteData, Slot
<1>7. Wrote(call.s) /\ call.s \in Nat /\ call.lba \in Nat
  BY <1>1, <1>5 DEF Held, Delivered, WroteSoFar, Progress, Extent, Transfers, Inv, Shape
<1>8. \A e \in Drives : \A a \in Sectors(e) :
        disk'[e][a] = IF e = d /\ a = at THEN word ELSE disk[e][a]
  BY <1>6 DEF Held, IsDisk
<1>9. ASSUME NEW e \in Drives, NEW a \in Sectors(e)
      PROVE  disk'[e][a] = IF e = call.d /\ a \in call.lba .. call.lba + (call.s + 1) - 1
                           THEN call.buf[a - call.lba + 1] ELSE before[e][a]
  <2>1. disk[e][a] = IF e = call.d /\ a \in call.lba .. call.lba + call.s - 1
                     THEN call.buf[a - call.lba + 1] ELSE before[e][a]
    BY <1>7 DEF Wrote
  <2>2. a \in Int
    BY DEF Sectors
  <2>3. CASE e = d /\ a = at
    <3>1. a - call.lba + 1 = call.s + 1 /\ a \in call.lba .. call.lba + (call.s + 1) - 1
      BY <1>5, <1>7, <2>2, <2>3
    <3> QED
      BY <1>2, <1>5, <1>8, <2>3, <3>1
  <2>4. CASE ~(e = d /\ a = at)
    <3>1. e = d => (a \in call.lba .. call.lba + (call.s + 1) - 1
                    <=> a \in call.lba .. call.lba + call.s - 1)
      BY <1>5, <1>7, <2>2, <2>4
    <3> QED
      BY <1>5, <1>8, <2>1, <2>4, <3>1
  <2> QED
    BY <2>3, <2>4
<1> QED
  BY <1>1, <1>9 DEF Wrote

LEMMA NextHolds == All /\ Trusted /\ [AtaNext]_ataVars => All'
<1> SUFFICES ASSUME All, Trusted, [AtaNext]_ataVars PROVE Held'
  BY NextKeeps, NextProgresses DEF All
<1>1. CASE Driver
  BY <1>1, MovingOnHolds, WaitDrqHolds, IssueAndFlushHold, ReadDataHolds, WriteDataHolds DEF Driver
<1>2. CASE Read \/ Write
  <2>1. PICK op \in Transfers, d \in 0..2, lba \in 0..(Word - 1), n \in 0..MaxCount :
          \E data : (op = "read" => data = <<>>) /\ Request(op, d, lba, n, data)
    BY <1>2 DEF Read, Write, Transfers
  <2>2. lba \in Nat /\ n \in Nat
    BY AtaAssumption
  <2> QED
    BY <2>1, <2>2, RequestHolds
<1>3. CASE \E d \in Drives : Drive(d)
  BY <1>3, DriveHolds
<1>4. CASE UNCHANGED ataVars
  BY <1>4, SameCallHolds DEF ataVars, All, Inv
<1> QED
  BY <1>1, <1>2, <1>3, <1>4 DEF AtaNext

-----------------------------------------------------------------------------
(* Who asks does not change.                                               *)
LEMMA StillTrusted ==
  ASSUME [AtaNext]_ataVars PROVE Trusted' = Trusted
<1>1. UNCHANGED setup
  BY DEF AtaNext, ataVars, Driver, Boot, Identify, Signature, IdentifyData, WaitBusy, WaitDrq, Issue,
     NextSector, ReadData, WriteData, Flush, Read, Write, Request, Drive
<1> QED
  BY <1>1 DEF Trusted, Guarded

LEMMA ReturnIs ==
  ASSUME All, [AtaNext]_ataVars, call.op \in Transfers, pc # "idle", pc' = "idle"
  PROVE  (result' = 0 /\ ~(call.s < call.n)) \/ result' = -4
<1>1. ~(call.op = "init") /\ ~(pc \in {"boot", "identify"})
  BY DEF All, Inv, Place, Transfers
<1>2. NextSector \/ WaitDrq
  BY <1>1, DriveIs DEF AtaNext, ataVars, Driver, Boot, Identify, Signature, IdentifyData, WaitBusy,
     AfterBusy, Issue, ReadData, WriteData, Flush, Read, Write, Request, Drive, NextDrive
<1> QED
  BY <1>1, <1>2 DEF NextSector, WaitDrq, Return, NextDrive

(* What is written, sector for sector, is what the property calls stored.  *)
LEMMA WroteIsStored ==
  ASSUME IsDisk(disk), IsDisk(before), call.d \in Drives, NEW s, Wrote(s)
  PROVE  disk = Stored(s)
<1>1. PICK x : x = [a \in Sectors(call.d) |-> IF a \in call.lba..(call.lba + s - 1)
                                              THEN call.buf[a - call.lba + 1] ELSE before[call.d][a]]
  OBVIOUS
<1>2. DOMAIN before[call.d] = Sectors(call.d)
  BY DEF IsDisk
<1>3. Stored(s) = [before EXCEPT ![call.d] = x]
  BY <1>1, <1>2 DEF Stored
<1>4. disk[call.d] = x
  <2>1. disk[call.d] = [a \in Sectors(call.d) |-> disk[call.d][a]]
    BY DEF IsDisk
  <2>2. ASSUME NEW a \in Sectors(call.d) PROVE disk[call.d][a] = x[a]
    BY <1>1, <2>2 DEF Wrote
  <2>3. x = [a \in Sectors(call.d) |-> x[a]]
    BY <1>1
  <2> QED
    BY <2>1, <2>2, <2>3
<1>5. \A e \in Drives : e # call.d => disk[e] = before[e]
  BY DEF Wrote, IsDisk
<1> QED
  BY <1>3, <1>4, <1>5 DEF IsDisk

(* A read that comes back with 0 filled the buffer with the sectors it was *)
(* for, one that fails filled the first of them, for drives of every size  *)
(* and whatever they do, with the guarded driver or careful callers        *)
(* (sata.c:159-195).                                                       *)
THEOREM ReadsDeliver == AtaSpec => ReadDelivers
<1>1. ASSUME All, [AtaNext]_ataVars, Returns("read"), orderly
      PROVE  /\ DOMAIN call.buf = 1..call.s
             /\ \A i \in DOMAIN call.buf :
                  LET a == call.lba + i - 1 IN a < Size[call.d] /\ call.buf[i] = before[call.d][a]
             /\ result' = 0 => call.s = call.n
             /\ disk = before
  <2>1. call.op = "read" /\ pc # "idle" /\ pc' = "idle" /\ "read" \in Transfers
    BY <1>1 DEF Returns, Transfers
  <2>2. disk = before /\ ReadSoFar
    BY <1>1, <2>1 DEF All, Held, Delivered
  <2>3. /\ call.s \in 0 .. call.n /\ call.lba + call.n <= Size[call.d]
        /\ call.n \in Nat /\ call.lba \in Nat /\ Size[call.d] \in Nat
    BY <1>1, <2>1, AtaAssumption DEF All, Progress, Extent, Inv, Shape, Place
  <2>4. result' = 0 => call.s = call.n
    BY <1>1, <2>1, <2>3, ReturnIs
  <2>5. \A i \in 1 .. call.s : call.lba + i - 1 < Size[call.d]
    BY <2>3
  <2> QED
    BY <2>2, <2>4, <2>5 DEF ReadSoFar
<1>2. AtaInit => (Trusted => All)
  BY InitInv, InitProgress, InitHeld DEF All
<1>3. (Trusted => All) /\ [AtaNext]_ataVars => (Trusted => All)'
  BY NextHolds, StillTrusted
<1>4. (Trusted => All) /\ [AtaNext]_ataVars =>
        [(Returns("read") /\ orderly /\ Trusted) =>
           /\ DOMAIN call.buf = 1..call.s
           /\ \A i \in DOMAIN call.buf :
                LET a == call.lba + i - 1 IN a < Size[call.d] /\ call.buf[i] = before[call.d][a]
           /\ result' = 0 => call.s = call.n
           /\ disk = before]_ataVars
  BY <1>1
<1> QED
  BY <1>2, <1>3, <1>4, PTL DEF AtaSpec, ReadDelivers

(* A write that comes back with 0 put all sectors in their places, one that*)
(* fails the first of them but perhaps not the last it sent, and nothing   *)
(* else changes on either drive, for drives of every size and whatever they*)
(* do, with the guarded driver or careful callers (sata.c:197-235).        *)
THEOREM WritesStore == AtaSpec => WriteStores
<1>1. ASSUME All, [AtaNext]_ataVars, Returns("write"), orderly
      PROVE  CASE result' = 0  -> disk = Stored(call.n)
               [] result' = -4 -> disk \in {Stored(call.s), Stored(call.s - 1)}
  <2>1. call.op = "write" /\ pc # "idle" /\ pc' = "idle" /\ "write" \in Transfers
    BY <1>1 DEF Returns, Transfers
  <2>2. WroteSoFar /\ IsDisk(disk) /\ IsDisk(before) /\ call.d \in Drives
    BY <1>1, <2>1 DEF All, Held, Delivered, Inv, Place
  <2>3. call.s \in 0 .. call.n /\ call.n \in Nat
    BY <1>1, <2>1 DEF All, Progress, Extent, Inv, Shape
  <2>4. CASE result' = 0
    <3>1. call.s = call.n
      BY <1>1, <2>1, <2>3, <2>4, ReturnIs
    <3>2. Wrote(call.n)
      BY <2>2, <2>3, <3>1 DEF WroteSoFar
    <3>3. disk = Stored(call.n)
      BY <2>2, <3>2, WroteIsStored
    <3> QED
      BY <2>4, <3>3
  <2>5. CASE result' = -4
    <3>1. disk = Stored(call.s) \/ disk = Stored(call.s - 1)
      BY <2>2, WroteIsStored DEF WroteSoFar
    <3> QED
      BY <2>5, <3>1
  <2> QED
    BY <1>1, <2>1, <2>4, <2>5, ReturnIs
<1>2. AtaInit => (Trusted => All)
  BY InitInv, InitProgress, InitHeld DEF All
<1>3. (Trusted => All) /\ [AtaNext]_ataVars => (Trusted => All)'
  BY NextHolds, StillTrusted
<1>4. (Trusted => All) /\ [AtaNext]_ataVars =>
        [(Returns("write") /\ orderly /\ Trusted) =>
           CASE result' = 0  -> disk = Stored(call.n)
             [] result' = -4 -> disk \in {Stored(call.s), Stored(call.s - 1)}]_ataVars
  BY <1>1
<1> QED
  BY <1>2, <1>3, <1>4, PTL DEF AtaSpec, WriteStores
=============================================================================
