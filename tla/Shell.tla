-------------------------------- MODULE Shell --------------------------------
(***************************************************************************)
(* The command line of src/kernel.c: kernel_main reads keys, echoes them   *)
(* on the terminal and keeps the line and the history; process_command     *)
(* runs a line.  A character is what the layout, the shift keys and caps   *)
(* lock make of a key; a command is the text it prints.                    *)
(***************************************************************************)
EXTENDS Tty

CONSTANTS
  Typed,     \* glyphs of the characters that keys make
  LineMax,   \* characters in shell_buffer (63)
  HistMax,   \* entries in history (10)
  Prompt,    \* "user@Blex:~# ", as a sequence of glyphs
  Outputs,   \* what commands print
  MaxRuns    \* bound: commands run

(* A terminal of 640 pixels has 78 columns, the prompt 13 characters.      *)
(* Commands end their output with a newline.                               *)
ShellConstants ==
  /\ LineMax \in Nat \ {0} /\ HistMax \in Nat \ {0} /\ MaxRuns \in Nat
  /\ Typed \subseteq Glyphs \ {NL, BS}
  /\ Prompt \in Seq(Glyphs \ {NL, BS}) /\ Len(Prompt) + LineMax <= TtyCols
  /\ \A out \in Outputs : out \in Seq(Glyphs \cup {NL, BS}) /\ (out # <<>> => Last(out) = NL)

VARIABLES
  tty,
  line,     \* shell_buffer up to buf_idx
  history,  \* the history entries, oldest first
  hindex,   \* history_index
  ran       \* history variable: every line run so far

shellVars == <<tty, line, history, hindex, ran>>

-----------------------------------------------------------------------------
TypeChar(ch) ==
  /\ Len(line) < LineMax
  /\ line' = Append(line, ch)
  /\ tty' = Putchar(tty, ch)
  /\ UNCHANGED <<history, hindex, ran>>

Rubout ==
  /\ line # <<>>
  /\ line' = Front(line)
  /\ tty' = Putchar(tty, BS)
  /\ UNCHANGED <<history, hindex, ran>>

(* As Pushed, but the last entry is replaced when the history is full.     *)
PushedOver(h, l) == IF Len(h) < HistMax THEN Append(h, l) ELSE Append(Front(h), l)

(* A full history drops its oldest entry.                                  *)
Pushed(h, l) == IF Len(h) < HistMax THEN Append(h, l) ELSE Append(Tail(h), l)

(* process_command.  Some commands clear the screen instead.               *)
EnterEmpty ==
  /\ line = <<>>
  /\ tty' = PrintText(Putchar(tty, NL), Prompt)
  /\ UNCHANGED <<line, history, hindex, ran>>

EnterLine ==
  /\ line # <<>>
  /\ Len(ran) < MaxRuns
  /\ history' = Pushed(history, line)
  /\ hindex' = Len(history')
  /\ ran' = Append(ran, line)
  /\ \E shown \in {PrintText(Putchar(tty, NL), out) : out \in Outputs} \cup {Cleared} :
       tty' = PrintText(shown, Prompt)
  /\ line' = <<>>

(* As Replaced, but the old line is not rubbed out.                        *)
ReplacedOver(t, l) == PrintText(t, l)

(* The arrow keys rub the line out and echo the entry.                     *)
Replaced(t, l) == PrintText(PrintText(t, [i \in 1 .. Len(line) |-> BS]), l)

Recall(i) ==
  /\ hindex' = i
  /\ line' = history[i + 1]
  /\ tty' = Replaced(tty, history[i + 1])
  /\ UNCHANGED <<history, ran>>

ArrowUp == history # <<>> /\ hindex > 0 /\ Recall(hindex - 1)
ArrowDown == hindex < Len(history) - 1 /\ Recall(hindex + 1)

-----------------------------------------------------------------------------
ShellInit ==
  /\ tty = PrintText(Cleared, Prompt)
  /\ line = <<>>
  /\ history = <<>>
  /\ hindex = -1
  /\ ran = <<>>

ShellNext ==
  \/ \E ch \in Typed : TypeChar(ch)
  \/ Rubout \/ EnterEmpty \/ EnterLine \/ ArrowUp \/ ArrowDown

ShellSpec == ShellInit /\ [][ShellNext]_shellVars

-----------------------------------------------------------------------------
(* Properties.                                                             *)

(* What the user sees is what Enter will run: the row of the cursor holds  *)
(* the prompt and the line, and nothing behind them, through typing,       *)
(* rubbing out, recalling shorter and longer lines, and scrolling.         *)
EchoShowsTheLine ==
  LET shown == Prompt \o line
  IN  /\ tty.cx = Len(shown)
      /\ \A c \in 1 .. TtyCols :
           tty.cells[<<tty.cy + 1, c>>] = IF c <= Len(shown) THEN shown[c] ELSE Space

(* The history is the last HistMax lines that were run, in order.          *)
HistoryIsRecent ==
  history = SubSeq(ran, Max({1, Len(ran) - HistMax + 1}), Len(ran))
=============================================================================
