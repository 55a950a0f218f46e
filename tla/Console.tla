------------------------------ MODULE Console ------------------------------
(***************************************************************************)
(* A program that prints bytes on one of the two terminal drivers, on the  *)
(* grid of module Tty: that of src/fb.c, which is linked and takes a byte  *)
(* for a character, and that of src/drivers/fb/fb.c, which decodes UTF-8   *)
(* and knows tabs.  A cell holds the index of a glyph in font8x16.         *)
(***************************************************************************)
EXTENDS Tty, Utf8

CONSTANTS
  CR, HT,     \* '\r' and '\t'
  TabWidth,   \* columns between tab stops (8)
  Printed,    \* bytes the program prints with either driver
  MaxText     \* bound: bytes printed with either driver

ASSUME ConsoleAssumption ==
  /\ Printed.linked \cup Printed.utf8 \subseteq Bytes /\ TabWidth \in Nat \ {0}
  /\ NL = 10 /\ BS = 8 /\ CR = 13 /\ HT = 9 /\ Space = 0 /\ 1 .. 223 \subseteq Glyphs

VARIABLES
  driver,  \* "linked" or "utf8", never changed
  grid, dec,
  text     \* history variable: the bytes printed so far

vars == <<driver, grid, dec, text>>

-----------------------------------------------------------------------------
Return(t) == [t EXCEPT !.cx = 0]

(* '\t' clears up to the next stop, at most to the end of the row.         *)
Tab(t) ==
  LET stop == Min({((t.cx \div TabWidth) + 1) * TabWidth, TtyCols})
  IN  [t EXCEPT !.cells = [rc \in Cells |-> IF rc[1] = t.cy + 1 /\ rc[2] \in t.cx + 1 .. stop
                                            THEN Space ELSE t.cells[rc]],
                !.cx = stop]

(* fb_draw_char of src/fb.c: char is signed and the font ends with 0x7E.   *)
AsciiIndex(b) == IF b \in 32 .. 127 THEN b - 32 ELSE 31

(* tty_putchar of src/drivers/fb/fb.c, once a code point is complete.      *)
Show(t, cp) ==
  CASE cp \in {NL, BS} -> Putchar(t, cp)
    [] cp = CR -> Return(t)
    [] cp = HT -> Tab(t)
    [] cp \in 0 .. 31 \ {NL, BS, CR, HT} -> t
    [] OTHER -> Draw(t, FontIndex(cp))

PutByte(b) ==
  /\ driver = "utf8"
  /\ LET got == Decode(dec, b)
     IN  dec' = got.dec /\ grid' = FoldLeft(Show, grid, got.out)
  /\ UNCHANGED driver

(* tty_putchar of src/fb.c.                                                *)
PutChar(b) ==
  /\ driver = "linked"
  /\ grid' = IF b \in {NL, BS} THEN Putchar(grid, b)
            ELSE IF b = CR THEN Return(grid) ELSE Draw(grid, AsciiIndex(b))
  /\ UNCHANGED <<driver, dec>>

(* fb_init.                                                                *)
Init == driver \in {"linked", "utf8"} /\ grid = Cleared /\ dec = Fresh /\ text = << >>

Next ==
  /\ Len(text) < MaxText[driver]
  /\ \E b \in Printed[driver] : (PutByte(b) \/ PutChar(b)) /\ text' = Append(text, b)

Spec == Init /\ [][Next]_vars

-----------------------------------------------------------------------------
(* The text laid out on an endless page, which never scrolls: characters   *)
(* overwrite, a newline cuts its row at the cursor, and a character that   *)
(* finds the row full begins the next.                                     *)
Codes(d, bytes) ==
  IF d = "linked" THEN bytes
  ELSE FlattenSeq([i \in 1 .. Len(bytes) |-> Meaning(bytes, i)])
IndexOf(d, cp) == IF d = "linked" THEN AsciiIndex(cp) ELSE FontIndex(cp)

Put(row, c, g) == [i \in 1 .. Max({Len(row), c}) |->
                     IF i = c THEN g ELSE IF i <= Len(row) THEN row[i] ELSE Space]

Turned(p, row) == [above |-> Append(p.above, p.row), row |-> row, col |-> Len(row)]

TabStop(col) ==
  LET stop == CHOOSE c \in col + 1 .. col + TabWidth : c % TabWidth = 0
  IN  IF stop < TtyCols THEN stop ELSE TtyCols

Blanked(row, from, to) ==
  [i \in 1 .. Max({Len(row), to}) |-> IF i \in from + 1 .. to THEN Space ELSE row[i]]

Typeset(d, p, cp) ==
  CASE cp = NL -> Turned([p EXCEPT !.row = SubSeq(@, 1, p.col)], << >>)
    [] cp = BS -> IF p.col = 0 THEN p
                  ELSE [p EXCEPT !.row = Put(@, p.col, Space), !.col = @ - 1]
    [] cp = CR -> [p EXCEPT !.col = 0]
    [] d = "utf8" /\ cp = HT ->
         [p EXCEPT !.row = Blanked(@, p.col, TabStop(p.col)), !.col = TabStop(@)]
    [] d = "utf8" /\ cp < 32 /\ cp \notin {NL, BS, CR, HT} -> p
    [] OTHER -> IF p.col = TtyCols THEN Turned(p, <<IndexOf(d, cp)>>)
                ELSE [p EXCEPT !.row = Put(@, p.col + 1, IndexOf(d, cp)), !.col = @ + 1]

BlankPage == [above |-> << >>, row |-> << >>, col |-> 0]
PageOf(d, bytes) == FoldLeft(LAMBDA p, cp : Typeset(d, p, cp), BlankPage, Codes(d, bytes))
Page == PageOf(driver, text)

(* The grid shows the last rows of that page and nothing else, and the     *)
(* cursor is where the text ended: however rows fill, wrap and scroll, and *)
(* whatever malformed bytes come between the characters.                   *)
ShowsTheLastRows ==
  LET rows == Append(Page.above, Page.row)
      first == Max({0, Len(rows) - TtyRows})
      row(r) == IF first + r <= Len(rows) THEN rows[first + r] ELSE << >>
  IN  /\ \A rc \in Cells :
           grid.cells[rc] = IF rc[2] <= Len(row(rc[1])) THEN row(rc[1])[rc[2]] ELSE Space
      /\ grid.cx = Page.col
      /\ grid.cy = Len(rows) - first - 1
=============================================================================
