------------------------------- MODULE Editor -------------------------------
(***************************************************************************)
(* The full-screen editor of src/commands/command_logic.c (cmd_edit) and   *)
(* the one file it is used on.  The static struct E is the record ed; a    *)
(* row is the sequence of its first size characters.                       *)
(***************************************************************************)
EXTENDS Integers, Sequences, SequencesExt, FiniteSetsExt

CONSTANTS
  Rows,        \* ED_ROWS (48 in the build)
  Cols,        \* ED_COLS (180)
  InlineSize,  \* ES1_INLINE_SIZE (480)
  Chars,       \* the printable characters
  NL,          \* the newline
  ShellLines   \* what the command `write` can put into the file

ASSUME EditorAssumption ==
  /\ Rows \in Nat \ {0} /\ Cols \in Nat /\ Cols >= 2
  /\ InlineSize \in Nat /\ InlineSize >= 3
  /\ NL \notin Chars
  /\ \A line \in ShellLines :
       line \in Seq(Chars) /\ Len(line) < Cols /\ Len(line) < InlineSize

(* The last conjunct: a shell line has fewer than 64 characters.           *)

VARIABLES
  mode,   \* "shell" or "edit"
  ed,     \* the struct E
  file    \* the content of the file up to the NUL

vars == <<mode, ed, file>>

-----------------------------------------------------------------------------
(* From the file to rows and back.                                         *)

(* As Load, but a last line without newline is left out.                   *)
LoadTerminated(content) ==
  LET step(acc, ch) ==
        IF Len(acc.rows) = Rows THEN acc
        ELSE IF ch = NL THEN [rows |-> Append(acc.rows, acc.line), line |-> <<>>]
        ELSE IF Len(acc.line) < Cols - 1
        THEN [acc EXCEPT !.line = Append(@, ch)] ELSE acc
      end == FoldLeft(step, [rows |-> <<>>, line |-> <<>>], content)
  IN  IF end.rows = <<>> THEN << <<>> >> ELSE end.rows

(* cmd_edit: at most Rows lines of fewer than Cols characters; a text      *)
(* without any line becomes one empty row.                                 *)
Load(content) ==
  LET step(acc, ch) ==
        IF Len(acc.rows) = Rows THEN acc
        ELSE IF ch = NL THEN [rows |-> Append(acc.rows, acc.line), line |-> <<>>]
        ELSE IF Len(acc.line) < Cols - 1
        THEN [acc EXCEPT !.line = Append(@, ch)] ELSE acc
      end == FoldLeft(step, [rows |-> <<>>, line |-> <<>>], content)
      all == IF end.line = <<>> THEN end.rows ELSE Append(end.rows, end.line)
  IN  IF all = <<>> THEN << <<>> >> ELSE all

(* What the save loops compare the position with.                          *)
Room == InlineSize - 2

(* As Store, but an empty row does not get a newline.                      *)
StoreUnspaced(rows) ==
  LET step(out, row) ==
        IF Len(out) < Room /\ row # <<>>
        THEN Append(out \o SubSeq(row, 1, Min({Len(row), Room - Len(out)})), NL)
        ELSE out
  IN  FoldLeft(step, <<>>, rows)

(* ^S: row by row while there is room, each with a newline.                *)
Store(rows) ==
  LET step(out, row) ==
        IF Len(out) < Room
        THEN Append(out \o SubSeq(row, 1, Min({Len(row), Room - Len(out)})), NL)
        ELSE out
  IN  FoldLeft(step, <<>>, rows)

-----------------------------------------------------------------------------
(* The keys, as functions of the struct.                                   *)

FileRow(e) == e.cy + e.rowoff + 1
Row(e) == e.rows[FileRow(e)]

(* As Clamped, but the column stays.                                       *)
Unclamped(e) == e

(* "Clamp column to new line length".                                      *)
Clamped(e) == [e EXCEPT !.cx = Min({@, Len(Row(e))})]

Up(e) ==
  Clamped(IF e.cy > 0 THEN [e EXCEPT !.cy = @ - 1]
          ELSE IF e.rowoff > 0 THEN [e EXCEPT !.rowoff = @ - 1] ELSE e)

(* The cursor goes to the next row, of the screen or of the text.          *)
NextRow(e) == IF e.cy < Rows - 1 THEN [e EXCEPT !.cy = @ + 1]
              ELSE [e EXCEPT !.rowoff = @ + 1]

Down(e) == Clamped(IF FileRow(e) < Len(e.rows) THEN NextRow(e) ELSE e)

Left(e) == IF e.cx > 0 THEN [e EXCEPT !.cx = @ - 1] ELSE e
Right(e) == IF e.cx < Len(Row(e)) THEN [e EXCEPT !.cx = @ + 1] ELSE e

(* The text with the rows from..to replaced.                               *)
Spliced(rows, from, to, new) ==
  SubSeq(rows, 1, from - 1) \o new \o SubSeq(rows, to + 1, Len(rows))

(* As Enter, but the cursor keeps its column.                              *)
EnterSameColumn(e) ==
  IF Len(e.rows) < Rows
  THEN LET f == FileRow(e)
           head == SubSeq(Row(e), 1, e.cx)
           tail == SubSeq(Row(e), e.cx + 1, Len(Row(e)))
       IN  NextRow([e EXCEPT !.rows = Spliced(@, f, f, <<head, tail>>),
                             !.dirty = TRUE])
  ELSE e

(* Enter splits the row at the cursor.                                     *)
Enter(e) ==
  IF Len(e.rows) < Rows
  THEN LET f == FileRow(e)
           head == SubSeq(Row(e), 1, e.cx)
           tail == SubSeq(Row(e), e.cx + 1, Len(Row(e)))
       IN  NextRow([e EXCEPT !.rows = Spliced(@, f, f, <<head, tail>>),
                             !.cx = 0,
                             !.dirty = TRUE])
  ELSE e

(* Backspace deletes the character before the cursor or, in column 0,      *)
(* joins the row to the one above, unless the result were too long.        *)
JoinFits(e) ==
  /\ FileRow(e) > 1
  /\ Len(e.rows[FileRow(e) - 1]) + Len(Row(e)) < Cols - 1

Joined(e) ==
  LET f == FileRow(e)
      above == e.rows[f - 1]
      joined == [e EXCEPT !.rows = Spliced(@, f - 1, f, <<above \o Row(e)>>),
                          !.cx = Len(above),
                          !.dirty = TRUE]
  IN  IF e.cy > 0 THEN [joined EXCEPT !.cy = @ - 1]
      ELSE IF e.rowoff > 0 THEN [joined EXCEPT !.rowoff = @ - 1] ELSE joined

Backspace(e) ==
  IF e.cx > 0
  THEN [e EXCEPT !.rows[FileRow(e)] = RemoveAt(@, e.cx),
                 !.cx = @ - 1,
                 !.dirty = TRUE]
  ELSE IF JoinFits(e) THEN Joined(e) ELSE e

Type(e, ch) ==
  IF Len(Row(e)) < Cols - 1
  THEN [e EXCEPT !.rows[FileRow(e)] = InsertAt(@, e.cx + 1, ch),
                 !.cx = @ + 1,
                 !.dirty = TRUE]
  ELSE e

-----------------------------------------------------------------------------
Opened(content) ==
  [rows |-> Load(content), cx |-> 0, cy |-> 0, rowoff |-> 0, dirty |-> FALSE]

Init ==
  /\ mode = "shell"
  /\ file \in ShellLines
  /\ ed = Opened(<<>>)

Open ==
  /\ mode = "shell"
  /\ mode' = "edit"
  /\ ed' = Opened(file)
  /\ UNCHANGED file

(* The command `write`, on the same file.                                  *)
ShellWrite ==
  /\ mode = "shell"
  /\ file' \in ShellLines
  /\ UNCHANGED <<mode, ed>>

(* ^Q asks nothing.                                                        *)
Quit ==
  /\ mode = "edit"
  /\ mode' = "shell"
  /\ UNCHANGED <<ed, file>>

(* When the node cannot be made, ^S changes nothing and says so: a step    *)
(* that leaves everything as it is, and so is left out.                    *)
Save ==
  /\ mode = "edit"
  /\ file' = Store(ed.rows)
  /\ ed' = [ed EXCEPT !.dirty = FALSE]
  /\ UNCHANGED mode

Move ==
  /\ mode = "edit"
  /\ ed' \in {Up(ed), Down(ed), Left(ed), Right(ed)}
  /\ UNCHANGED <<mode, file>>

Change ==
  /\ mode = "edit"
  /\ ed' \in {Enter(ed), Backspace(ed)} \cup {Type(ed, ch) : ch \in Chars}
  /\ UNCHANGED <<mode, file>>

Next == Open \/ ShellWrite \/ Quit \/ Save \/ Move \/ Change

Spec == Init /\ [][Next]_vars

-----------------------------------------------------------------------------
(* Properties.                                                             *)

Flat(rows) == FlattenSeq(rows)
Lines(rows) == FlattenSeq([i \in DOMAIN rows |-> Append(rows[i], NL)])

(* The cursor is on a row of the text and within it, so every access to    *)
(* E.row[cy + rowoff] and its chars[cx] is to a row and a character that   *)
(* exist or to the place right behind them.                                *)
CursorInText ==
  /\ Len(ed.rows) \in 1 .. Rows
  /\ \A i \in DOMAIN ed.rows : ed.rows[i] \in Seq(Chars) /\ Len(ed.rows[i]) < Cols
  /\ ed.cy \in 0 .. Rows - 1 /\ ed.rowoff \in Nat
  /\ FileRow(ed) <= Len(ed.rows)
  /\ ed.cx \in 0 .. Len(Row(ed))

(* Wherever the cursor is, Backspace undoes Enter when the row is not full.*)
BackspaceUndoesEnter ==
  Len(ed.rows) < Rows /\ Len(Row(ed)) < Cols - 1
  => Backspace(Enter(ed)) = [ed EXCEPT !.dirty = TRUE]

(* Whatever the editor and `write` left in the file, opening it shows all  *)
(* of it: no line is cut and none is missing.                              *)
OpenShowsAll == Lines(Load(file)) \in {file, Append(file, NL)}

(* An unmodified text is the one in the file, as long as it leaves the last*)
(* two bytes of inline_data alone; one byte more, and an empty last row is *)
(* not stored.  What ^S writes always leaves room for the NUL.             *)
Fits(rows) == Len(Lines(rows)) <= InlineSize - 2
CleanMeansStored ==
  /\ Len(file) < InlineSize
  /\ mode = "edit" /\ ~ed.dirty /\ Fits(ed.rows) => Load(file) = ed.rows
=============================================================================
