--------------------------------- MODULE Tty ---------------------------------
(***************************************************************************)
(* The terminal of src/fb.c: a grid of character cells on the framebuffer  *)
(* and the cursor (tty_cx, tty_cy).  A cell is what is drawn in it; colours*)
(* and the underline that shows the cursor are left out.                   *)
(***************************************************************************)
EXTENDS Integers, Sequences, SequencesExt, FiniteSetsExt

CONSTANTS
  TtyCols,  \* tty_cols, from the width of the framebuffer
  TtyRows,  \* tty_rows, from its height
  Glyphs,   \* what can be drawn in a cell
  Space,    \* an empty cell
  NL, BS    \* '\n' and '\b'

ASSUME TtyAssumption ==
  /\ TtyCols \in Nat \ {0} /\ TtyRows \in Nat \ {0}
  /\ Space \notin Glyphs /\ NL # BS

Cells == (1 .. TtyRows) \X (1 .. TtyCols)

(* fb_init and tty_clear.                                                  *)
Cleared == [cells |-> [rc \in Cells |-> Space], cx |-> 0, cy |-> 0]

(* The cell under the cursor.                                              *)
Here(t) == <<t.cy + 1, t.cx + 1>>

(* tty_scroll.                                                             *)
Scrolled(t) ==
  [t EXCEPT !.cells = [rc \in Cells |-> IF rc[1] = TtyRows THEN Space
                                        ELSE t.cells[<<rc[1] + 1, rc[2]>>]],
            !.cy = TtyRows - 1]

(* The cursor never stays below the grid.                                   *)
ScrollIfBelow(t) == IF t.cy >= TtyRows THEN Scrolled(t) ELSE t

(* '\n' clears the rest of the row and goes to the start of the next.      *)
Newline(t) ==
  ScrollIfBelow(
    [cells |-> [rc \in Cells |-> IF rc[1] = t.cy + 1 /\ rc[2] > t.cx
                                 THEN Space ELSE t.cells[rc]],
     cx |-> 0, cy |-> t.cy + 1])

(* '\b' clears the cell on the left; it never goes back to the row above.  *)
Back(t) ==
  IF t.cx = 0 THEN t
  ELSE [t EXCEPT !.cx = @ - 1, !.cells[<<t.cy + 1, t.cx>>] = Space]

(* As Draw, but a full row wraps at once.                                  *)
DrawEager(t, ch) ==
  LET u == [t EXCEPT !.cells[Here(t)] = ch, !.cx = @ + 1]
  IN  IF u.cx = TtyCols THEN ScrollIfBelow([u EXCEPT !.cx = 0, !.cy = @ + 1]) ELSE u

(* Anything else is drawn.  A row that is full wraps with the character    *)
(* that no longer fits, not with the last one that does.                   *)
Draw(t, ch) ==
  LET u == ScrollIfBelow(IF t.cx >= TtyCols THEN [t EXCEPT !.cx = 0, !.cy = @ + 1]
                         ELSE t)
  IN  [u EXCEPT !.cells[Here(u)] = ch, !.cx = @ + 1]

(* tty_putchar and tty_print; '\r' is in module Console.                   *)
Putchar(t, ch) ==
  IF ch = NL THEN Newline(t) ELSE IF ch = BS THEN Back(t) ELSE Draw(t, ch)
PrintText(t, text) == FoldLeft(Putchar, t, text)
=============================================================================
