-------------------------------- MODULE Ata --------------------------------
(***************************************************************************)
(* The ATA driver (src/sata.c) and one channel with its two drives.  The   *)
(* driver polls: every wait counts its rounds and goes on when they are    *)
(* used up, whatever the drive says.  The drives work beside it, are late, *)
(* and fail.  src/drivers/sata/sata.c is the same driver with another      *)
(* check of the arguments; which of the two runs is chosen at the start,   *)
(* and for the first whether its callers check what they ask for.          *)
(*                                                                         *)
(* The drives are external and modelled as the code presumes them: the     *)
(* data port hands out bytes one after the other, and a command is ignored *)
(* by a drive that is busy or in the middle of a data phase.  A sector is  *)
(* a value, and its 256 words are one step.                                *)
(***************************************************************************)
EXTENDS Integers, Sequences

CONSTANTS
  Kinds,     \* what may be attached: "disk", "atapi" or "none" for each drive
  Size,      \* sectors of each drive
  Content,   \* what a sector holds in the beginning, by drive and address
  Buffers,   \* what callers write: sequences of sectors
  Junk,      \* what the data port gives when the drive has nothing to say
  Word,      \* 2^32: one more than the largest uint32_t
  LbaSpace,  \* 2^28: addresses that the registers can hold
  Full,      \* 256: what a drive makes of a sector count of 0
  MaxCount,  \* bound: sectors a caller asks for
  MaxWait    \* rounds of a waiting loop

Drives == 0..1

ASSUME AtaAssumption ==
  /\ Kinds \subseteq [Drives -> {"disk", "atapi", "none"}]
  /\ Size \in [Drives -> Nat]
  /\ \A d \in Drives : Size[d] <= LbaSpace   \* the registers reach every sector
  /\ LbaSpace \in Nat \ {0} /\ Word \in Nat /\ LbaSpace < Word
  /\ MaxCount \in Nat /\ Full \in Nat \ {0} /\ MaxCount < Full
  /\ MaxWait \in Nat

VARIABLES
  setup,     \* which driver it is, who calls it, and what is attached
  table,     \* ata_drives
  chan,      \* the selected drive and the registers
  dev,       \* the drives
  disk,      \* their sectors
  pc, wait, call, result,
  before,    \* history: the sectors when the call began
  orderly    \* history: nothing went wrong that the driver did not notice, that is
             \* no wait gave up on a drive that was not ready, and no write failed
             \* after its last sector

ataVars == <<setup, table, chan, dev, disk, pc, wait, call, result, before, orderly>>

Guarded == setup.guarded   \* the driver is that of drivers/sata/sata.c
Kind == setup.kind
Disks == {d \in Drives : Kind[d] = "disk"}

Idle == [phase |-> "idle", err |-> FALSE, cmd |-> "none", at |-> 0, left |-> 0]
NoCall == [op |-> "none", d |-> 0, lba |-> 0, n |-> 0, s |-> 0, buf |-> <<>>]
Absent == [present |-> FALSE, sectors |-> 0]

-----------------------------------------------------------------------------
(* What the status register of the selected drive says.                    *)
Busy == dev[chan.sel].phase = "busy"
Err == dev[chan.sel].err

(* As Drq, but the driver does not look.                                   *)
DrqAnyway == TRUE

Drq == dev[chan.sel].phase = "drq"

-----------------------------------------------------------------------------
(* A command written to drive d, which takes it unless it is busy or in    *)
(* the middle of a data phase.                                             *)
Commanded(d, cmd, lba, n) ==
  IF dev[d].phase = "idle"
  THEN [dev EXCEPT ![d] = [phase |-> "busy", err |-> FALSE, cmd |-> cmd, at |-> lba,
                           left |-> IF n = 0 THEN Full ELSE n]]
  ELSE dev

(* The selected drive after a sector went over the data port.              *)
SectorDone ==
  LET now == dev[chan.sel]
      more == now.left > 1 \/ now.cmd = "write"
  IN  [dev EXCEPT ![chan.sel].phase = IF more THEN "busy" ELSE "idle",
                  ![chan.sel].at = @ + 1, ![chan.sel].left = @ - 1]

(* One step of a drive that works: it fails, asks for the next sector, or  *)
(* is done.  A sector whose write fails may not have arrived, and if it    *)
(* was the last, the driver does not look any more.                        *)
Fail(d) ==
  LET writing == dev[d].cmd = "write" /\ dev[d].at > chan.lba
      last == dev[d].at - 1
  IN  /\ dev[d].cmd # "reset"
      /\ dev' = [dev EXCEPT ![d] = [Idle EXCEPT !.err = TRUE]]
      /\ disk' \in IF writing THEN {disk, [disk EXCEPT ![d][last] = before[d][last]]} ELSE {disk}
      /\ orderly' = (orderly /\ ~(writing /\ dev[d].left = 0))

Ask(d) ==
  /\ dev[d].left > 0
  /\ \/ dev[d].cmd = "identify" /\ Kind[d] = "disk"
     \/ dev[d].cmd \in {"read", "write"} /\ dev[d].at < Size[d]
  /\ dev' = [dev EXCEPT ![d].phase = "drq"]
  /\ UNCHANGED <<disk, orderly>>

Done(d) ==
  /\ \/ dev[d].cmd \in {"reset", "flush"}
     \/ dev[d].cmd = "write" /\ dev[d].left = 0
  /\ dev' = [dev EXCEPT ![d] = Idle]
  /\ UNCHANGED <<disk, orderly>>

Drive(d) ==
  /\ dev[d].phase = "busy"
  /\ Fail(d) \/ Ask(d) \/ Done(d)
  /\ UNCHANGED <<setup, table, chan, pc, wait, call, result, before>>

-----------------------------------------------------------------------------
(* Where ata_wait_busy is called from, and where it returns to.            *)
AfterBusy == [reset |-> "identify", identified |-> "signature",
              ready |-> "issue", sector |-> "drq", flushed |-> "next"]

(* As Round, but the counter stays.                                        *)
RoundUncounted(w) == w

(* The counter of a loop after a round without an answer.                  *)
Round(w) == w + 1

(* The loops end with their last round.                                    *)
Patience == wait < MaxWait

WaitBusy ==
  /\ pc \in DOMAIN AfterBusy
  /\ IF Busy /\ Patience
     THEN /\ wait' = Round(wait)
          /\ UNCHANGED <<pc, orderly>>
     ELSE /\ pc' = AfterBusy[pc]
          /\ wait' = 0
          /\ orderly' = (orderly /\ ~Busy)
  /\ UNCHANGED <<setup, table, chan, dev, disk, call, result, before>>

(* The end of a call.                                                      *)
Return(r) ==
  /\ pc' = "idle"
  /\ result' = r
  /\ call' = NoCall
  /\ before' = disk

(* ata_identify returned: on with the next drive.                          *)
NextDrive ==
  /\ pc' = "identify"
  /\ call' = [call EXCEPT !.d = @ + 1]

(* The loop that waits for DRQ or ERR.                                     *)
WaitDrq ==
  /\ pc = "drq"
  /\ \/ /\ Patience /\ ~Err /\ ~Drq
        /\ wait' = Round(wait)
        /\ UNCHANGED <<pc, call, result, before, orderly>>
     \/ /\ Patience /\ Err
        /\ wait' = 0
        /\ IF call.op = "init" THEN NextDrive /\ UNCHANGED <<result, before>>
                               ELSE Return(-4)
        /\ UNCHANGED orderly
     \/ /\ ~Patience \/ (~Err /\ Drq)
        /\ wait' = 0
        /\ pc' = "data"
        /\ orderly' = (orderly /\ Drq)
        /\ UNCHANGED <<call, result, before>>
  /\ UNCHANGED <<setup, table, chan, dev, disk>>

-----------------------------------------------------------------------------
(* ata_init: forget the drives, reset the channel, and identify them one   *)
(* after the other.  A drive that is not there answers with status 0.      *)
Boot ==
  /\ pc = "boot"
  /\ table' = [d \in Drives |-> Absent]
  /\ dev' = [d \in Drives |-> IF Kind[d] = "none" THEN Idle
                             ELSE [Idle EXCEPT !.phase = "busy", !.cmd = "reset"]]
  /\ call' = [NoCall EXCEPT !.op = "init"]
  /\ pc' = "reset"
  /\ wait' = 0
  /\ UNCHANGED <<setup, chan, disk, result, before, orderly>>

Identify ==
  /\ pc = "identify"
  /\ IF call.d \notin Drives
     THEN Return(0) /\ UNCHANGED <<chan, dev>>
     ELSE LET d == call.d IN
       /\ chan' = [sel |-> d, lba |-> 0, count |-> 0]
       /\ before' = before /\ result' = result
       /\ IF Kind[d] = "none"
          THEN NextDrive /\ UNCHANGED dev
          ELSE /\ dev' = Commanded(d, "identify", 0, 1)
               /\ pc' = "identified"
               /\ UNCHANGED call
  /\ UNCHANGED <<setup, table, disk, wait, orderly>>

(* The signature of a drive that is no disk.                               *)
Signature ==
  /\ pc = "signature"
  /\ IF Kind[call.d] = "atapi" THEN NextDrive ELSE pc' = "drq" /\ UNCHANGED call
  /\ UNCHANGED <<setup, table, chan, dev, disk, wait, result, before, orderly>>

(* The number of sectors is read whether the drive offers it or not.       *)
IdentifyData ==
  /\ pc = "data" /\ call.op = "init"
  /\ IF dev[call.d].phase = "drq" /\ dev[call.d].cmd = "identify"
     THEN /\ table' = [table EXCEPT ![call.d] = [present |-> TRUE, sectors |-> Size[call.d]]]
          /\ dev' = SectorDone
     ELSE /\ \E n \in 0..(Word - 1) :
               table' = [table EXCEPT ![call.d] = [present |-> TRUE, sectors |-> n]]
          /\ UNCHANGED dev
  /\ NextDrive
  /\ UNCHANGED <<setup, chan, disk, wait, result, before, orderly>>

-----------------------------------------------------------------------------
(* As Refused, but it compares the address of the last sector only.        *)
RefusedTooFew(d, lba, n) == IF Guarded THEN n = 0 \/ lba > table[d].sectors ELSE lba > table[d].sectors

(* The check of the arguments.  The sum of sata.c wraps around.            *)
Refused(d, lba, n) ==
  LET sectors == table[d].sectors
  IN  IF Guarded THEN n = 0 \/ lba > sectors \/ n > sectors - lba
                 ELSE (lba + n) % Word > sectors

(* What callers ask for when they are careful.                             *)
Proper(lba, n) == n > 0 /\ lba + n < Word

(* ata_read_sectors and ata_write_sectors up to their first wait.  Nothing *)
(* in src/ calls them: a caller may ask for anything, or be careful.       *)
(* Bound: no call begins after one that was not orderly, or that left a    *)
(* drive at work.                                                          *)
Request(op, d, lba, n, data) ==
  /\ pc = "idle" /\ orderly /\ \A e \in Drives : dev[e].phase = "idle"
  /\ setup.careful => Proper(lba, n)
  /\ CASE d \notin Drives -> result' = -1
       [] d \in Drives /\ ~table[d].present -> result' = -2
       [] d \in Drives /\ table[d].present /\ Refused(d, lba, n) -> result' = -3
       [] OTHER -> result' = 0
  /\ IF result' = 0
     THEN /\ call' = [op |-> op, d |-> d, lba |-> lba, n |-> n, s |-> 0, buf |-> data]
          /\ pc' = "ready"
     ELSE UNCHANGED <<call, pc>>
  /\ wait' = 0
  /\ UNCHANGED <<setup, table, chan, dev, disk, before, orderly>>

Read == \E d \in 0..2, lba \in 0..(Word - 1), n \in 0..MaxCount : Request("read", d, lba, n, <<>>)
Write == \E d \in 0..2, lba \in 0..(Word - 1), n \in 0..MaxCount :
           \E b \in Buffers : Request("write", d, lba, n, SubSeq(b, 1, n))

(* Drive, count, address and command go to the registers, which both       *)
(* drives share.  No drive is busy here while the system is orderly, so    *)
(* nothing comes between the writes.                                       *)
Issue ==
  /\ pc = "issue"
  /\ chan' = [sel |-> call.d, lba |-> call.lba % LbaSpace, count |-> call.n]
  /\ dev' = Commanded(call.d, call.op, call.lba % LbaSpace, call.n)
  /\ pc' = "next"
  /\ UNCHANGED <<setup, table, disk, wait, call, result, before, orderly>>

(* The head of the loop over the sectors.                                  *)
NextSector ==
  /\ pc = "next"
  /\ IF call.s < call.n THEN pc' = "sector" /\ UNCHANGED <<call, result, before>>
                        ELSE Return(0)
  /\ UNCHANGED <<setup, table, chan, dev, disk, wait, orderly>>

(* As Slot, but every sector goes to the start of the caller's buffer.     *)
FirstSlot == 1

(* Where sector s is in the caller's buffer.                               *)
Slot == call.s + 1

(* The data phases.  Without DRQ the port gives junk and takes nothing.    *)
ReadData ==
  /\ pc = "data" /\ call.op = "read"
  /\ LET now == dev[chan.sel]
         offered == now.phase = "drq" /\ now.cmd = "read"
         word == IF offered THEN disk[chan.sel][now.at] ELSE Junk
     IN  /\ call' = [call EXCEPT !.s = @ + 1, !.buf = [i \in DOMAIN @ \cup {Slot} |-> IF i = Slot THEN word ELSE @[i]]]
         /\ dev' = IF offered THEN SectorDone ELSE dev
  /\ pc' = "next"
  /\ UNCHANGED <<setup, table, chan, disk, wait, result, before, orderly>>

WriteData ==
  /\ pc = "data" /\ call.op = "write"
  /\ LET now == dev[chan.sel]
     IN  IF now.phase = "drq" /\ now.cmd = "write"
         THEN /\ disk' = [disk EXCEPT ![chan.sel][now.at] = call.buf[Slot]]
              /\ dev' = SectorDone
         ELSE UNCHANGED <<disk, dev>>
  /\ call' = [call EXCEPT !.s = @ + 1]
  /\ pc' = "flush"
  /\ UNCHANGED <<setup, table, chan, wait, result, before, orderly>>

(* After every sector, also in the middle of a command.                    *)
Flush ==
  /\ pc = "flush"
  /\ dev' = Commanded(chan.sel, "flush", 0, 1)
  /\ pc' = "flushed"
  /\ UNCHANGED <<setup, table, chan, disk, wait, call, result, before, orderly>>

-----------------------------------------------------------------------------
AtaInit ==
  /\ setup \in [guarded : BOOLEAN, careful : BOOLEAN, kind : Kinds]
  /\ ~(setup.guarded /\ setup.careful)   \* the guarded driver needs no care
  /\ table = [d \in Drives |-> Absent]
  /\ chan = [sel |-> 0, lba |-> 0, count |-> 0]
  /\ dev = [d \in Drives |-> Idle]
  /\ disk = [d \in Drives |-> [i \in 0..(Size[d] - 1) |-> Content[d][i]]]
  /\ pc = "boot" /\ wait = 0 /\ call = NoCall /\ result = 0
  /\ before = disk
  /\ orderly = TRUE

Driver ==
  \/ Boot \/ Identify \/ Signature \/ IdentifyData
  \/ WaitBusy \/ WaitDrq \/ Issue \/ NextSector
  \/ ReadData \/ WriteData \/ Flush

AtaNext == Driver \/ Read \/ Write \/ \E d \in Drives : Drive(d)

AtaSpec == AtaInit /\ [][AtaNext]_ataVars /\ WF_ataVars(Driver)

-----------------------------------------------------------------------------
(* A drive that ata_init reports is a disk, and has the size it reports,   *)
(* unless a wait for it gave up (sata.c:45-103).                           *)
PresentIsReal ==
  orderly => \A d \in Drives : table[d].present => d \in Disks /\ table[d].sectors = Size[d]

(* The drives are asked only for sectors they have: what a drive has still *)
(* to transfer lies inside it.                                             *)
SectorsExist ==
  orderly => \A d \in Drives :
    dev[d].cmd \in {"read", "write"} => dev[d].at + dev[d].left <= Size[d]

(* So it is with the check of drivers/sata/sata.c:164, whatever is asked,  *)
(* and with that of sata.c:164 and 203 for callers that ask for at least   *)
(* one sector and for none at or past 2^32.                                *)
Trusted == Guarded \/ setup.careful
AsksInside == Trusted => SectorsExist

Returns(op) == call.op = op /\ pc # "idle" /\ pc' = "idle"

(* A read that comes back with 0 filled the caller's buffer with the       *)
(* sectors it asked for, in order; one that comes back with an error       *)
(* filled the first of them.  No read changes a drive (sata.c:159-195).    *)
ReadDelivers ==
  [][(Returns("read") /\ orderly /\ Trusted) =>
       /\ DOMAIN call.buf = 1..call.s
       /\ \A i \in DOMAIN call.buf :
            LET a == call.lba + i - 1 IN a < Size[call.d] /\ call.buf[i] = before[call.d][a]
       /\ result' = 0 => call.s = call.n
       /\ disk = before]_ataVars

(* A write that comes back with 0 put the caller's sectors where they      *)
(* belong; one that comes back with an error put the first of them there,  *)
(* but perhaps not the last it sent.  Nothing else on either drive changes *)
(* (sata.c:197-235).                                                       *)
Stored(s) ==
  [before EXCEPT ![call.d] = [a \in DOMAIN @ |-> IF a \in call.lba..(call.lba + s - 1)
                                                 THEN call.buf[a - call.lba + 1] ELSE @[a]]]
WriteStores ==
  [][(Returns("write") /\ orderly /\ Trusted) =>
       CASE result' = 0  -> disk = Stored(call.n)
         [] result' = -4 -> disk \in {Stored(call.s), Stored(call.s - 1)}]_ataVars

(* Every call comes back, ata_init too, whatever the drives do: each loop  *)
(* counts (sata.c:22, 71, 182, 220).                                       *)
CallsReturn == (pc # "idle") ~> (pc = "idle")
=============================================================================
