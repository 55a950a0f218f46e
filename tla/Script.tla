------------------------------- MODULE Script -------------------------------
(***************************************************************************)
(* bsh_run_file and bsh_exec of src/bsh.c: a script runs out of the slot   *)
(* its file is in, and its commands may rewrite or free that very slot.    *)
(* A token stands for a word; "#!" for the shebang and the blank behind it.*)
(***************************************************************************)
EXTENDS Integers, Sequences, SequencesExt, FiniteSetsExt

CONSTANTS
  SlotSize, \* ES1_INLINE_SIZE (480)
  MaxLine,  \* BSH_MAX_LINE (256)
  Scripts,  \* what the file can hold, shorter than the slot
  Rewrites  \* what a command of the script can put into the slot

VARIABLES
  mem,    \* the slot and the two cells behind it
  size,   \* node->size when the script was started
  state,  \* "idle", "run", "wait" or "done"
  start,  \* line_start - data
  ran,    \* history: the lines that were run as commands
  text,   \* history: what the file held when the script was started
  edited  \* history: whether a command has changed the slot

scriptVars == <<mem, size, state, start, ran, text, edited>>

ScriptConstants ==
  /\ SlotSize \in Nat /\ MaxLine \in Nat \ {0}
  /\ Scripts \cup Rewrites \subseteq Seq(STRING)
  /\ \A t \in Scripts \cup Rewrites : Len(t) < SlotSize /\ \A i \in DOMAIN t : t[i] # "NUL"

-----------------------------------------------------------------------------
IsEnd(c) == c \in {"LF", "CR"}

(* es1_write: the text and a NUL; what stood behind them stays.            *)
WrittenTo(cells, t) ==
  [a \in DOMAIN cells |-> IF a < Len(t) THEN t[a + 1] ELSE IF a = Len(t) THEN "NUL" ELSE cells[a]]

Zeroed == [a \in 0 .. SlotSize + 1 |-> IF a < SlotSize THEN "NUL" ELSE "next node"]

(* The first line, up to the first newline.                                *)
BehindShebang(cells, n) ==
  LET b == Min({a \in 0 .. SlotSize : cells[a] \in {"NUL", "LF"} \/ a >= n})
  IN  IF cells[b] = "LF" THEN b + 1 ELSE b

LineEnd(a) == Min({b \in a .. SlotSize : mem[b] = "NUL" \/ IsEnd(mem[b]) \/ b >= size})

(* What fits into line_buf.                                                *)
Line(a) == [i \in 1 .. Min({LineEnd(a) - a, MaxLine - 1}) |-> mem[a + i - 1]]

(* As Behind, but CR is always taken for the first half of CR LF.          *)
BehindPair(cells, a) ==
  IF cells[a] = "CR" THEN a + 2 ELSE IF IsEnd(cells[a]) THEN a + 1 ELSE a

(* As Behind, but only LF ends a line.                                     *)
BehindLF(cells, a) == IF cells[a] = "LF" THEN a + 1 ELSE a

(* LF, CR and CR LF end a line; the memory is read after the command.      *)
Behind(cells, a) ==
  IF cells[a] = "CR" /\ cells[a + 1] = "LF" THEN a + 2
  ELSE IF IsEnd(cells[a]) THEN a + 1 ELSE a

-----------------------------------------------------------------------------
ScriptInit ==
  /\ text \in Scripts
  /\ mem = WrittenTo(Zeroed, text)
  /\ size = Len(text) /\ start = 0 /\ ran = <<>>
  /\ state = "idle" /\ edited = FALSE

(* bsh_detect refuses a file without shebang.                              *)
Begin ==
  /\ state = "idle"
  /\ IF mem[0] = "#!" THEN state' = "run" /\ start' = BehindShebang(mem, size)
     ELSE state' = "done" /\ UNCHANGED start
  /\ UNCHANGED <<mem, size, ran, text, edited>>

InFile == state = "run" /\ mem[start] # "NUL" /\ start < size

(* A blank line, a comment and wait(0) do nothing.                         *)
First(line) == IF line = <<>> THEN "blank" ELSE line[1]
Skips(line) == First(line) \in {"blank", "//", "wait(0)"}

Skip ==
  /\ InFile /\ Skips(Line(start))
  /\ start' = Behind(mem, LineEnd(start))
  /\ UNCHANGED <<mem, size, state, ran, text, edited>>

(* bsh_wait: boot_ticks counts in the loop of kernel_main only, which is   *)
(* not running, so a wait of more than no time is the last thing a script  *)
(* does.                                                                   *)
Wait ==
  /\ InFile /\ First(Line(start)) = "wait(1)"
  /\ state' = "wait"
  /\ UNCHANGED <<mem, size, start, ran, text, edited>>

(* The command may leave the slot alone, write to it, free it, or free it  *)
(* and write the next file there.                                          *)
Run ==
  /\ InFile
  /\ LET line == Line(start) IN
       /\ ~Skips(line) /\ First(line) # "wait(1)"
       /\ ran' = Append(ran, line)
  /\ \E cells \in {mem, Zeroed} \cup {WrittenTo(was, t) : was \in {mem, Zeroed}, t \in Rewrites} :
       /\ mem' = cells
       /\ start' = Behind(cells, LineEnd(start))
       /\ edited' = (edited \/ cells # mem)
  /\ UNCHANGED <<size, state, text>>

End ==
  /\ state = "run" /\ (mem[start] = "NUL" \/ start >= size)
  /\ state' = "done"
  /\ UNCHANGED <<mem, size, start, ran, text, edited>>

ScriptNext == Begin \/ Skip \/ Wait \/ Run \/ End

(* The script has the processor; each of its commands comes back.          *)
ScriptSpec == ScriptInit /\ [][ScriptNext]_scriptVars /\ WF_scriptVars(ScriptNext)

-----------------------------------------------------------------------------
(* Properties.                                                             *)

(* A line of a text starts where the character before is an end of line    *)
(* and goes on to the next one.                                            *)
Begins(t) == {i \in 2 .. Len(t) : IsEnd(t[i - 1]) /\ ~IsEnd(t[i])}
LineFrom(t, i) == SubSeq(t, i, Max({j \in i .. Len(t) : \A k \in i .. j : ~IsEnd(t[k])}))

(* What a line says: what stands before the comment.  An empty line and a  *)
(* wait are no commands.                                                   *)
Said(line) ==
  SubSeq(line, 1, Min({k \in 1 .. Len(line) + 1 : k = Len(line) + 1 \/ line[k] = "//"}) - 1)
Silent(said) == First(said) \in {"blank", "wait(0)", "wait(1)"}

(* The commands to be run, of the lines that begin in the first i          *)
(* characters.                                                             *)
MeantUpTo(t) ==
  LET lines[i \in 0 .. Len(t)] ==
        IF i = 0 THEN <<>>
        ELSE IF i \in Begins(t) /\ ~Silent(Said(LineFrom(t, i)))
             THEN Append(lines[i - 1], Said(LineFrom(t, i)))
        ELSE lines[i - 1]
  IN  lines
Meant(t) == MeantUpTo(t)[Len(t)]

(* The line of the shebang ends with LF or CR LF, every line fits, and no  *)
(* comment stands behind a command.                                        *)
Plain(t) ==
  /\ \A i \in DOMAIN t : IsEnd(t[i]) /\ (\A j \in 1 .. i - 1 : ~IsEnd(t[j])) =>
       t[i] = "LF" \/ (i < Len(t) /\ t[i + 1] = "LF")
  /\ \A i \in Begins(t) :
       LET line == LineFrom(t, i)
       IN  Len(line) < MaxLine /\ (Silent(Said(line)) \/ Said(line) = line)

(* A script that no command touches runs its commands, each once and in    *)
(* order, whatever ends their lines and also when the last has no end: no  *)
(* other before the end, and at the end all, those behind a wait too       *)
(* (bsh_exec).  A comment behind a command is not stripped, although       *)
(* bsh.h:34 says so: texts with one are not Plain.                         *)
RunsEveryLine == ~edited /\ Plain(text) =>
  /\ IsPrefix(ran, Meant(text))
  /\ state = "done" => ran = IF text # <<>> /\ text[1] = "#!" THEN Meant(text) ELSE <<>>

(* A script without a wait that takes time comes to its end, whatever its  *)
(* commands make of the slot (bsh.c:168-195).                              *)
Pauses(t) == \E i \in DOMAIN t : t[i] = "wait(1)"
ScriptEnds == (\A t \in Rewrites \cup {text} : ~Pauses(t)) => <>(state = "done")

(* A wait ends: what bsh.h:8 and bsh.c:7 say.                              *)
WaitEnds == state = "wait" ~> state # "wait"
=============================================================================
