--------------------------- MODULE TerminalProofs ---------------------------
(***************************************************************************)
(* Proofs about what is on the screen.  First Console, for every grid, tab *)
(* width and text: what is on the grid is a window on the page that the    *)
(* text makes, and each character does to the window what it does to the   *)
(* page.                                                                   *)
(* Then Shell, for every grid that a prompt and a line fit on, and         *)
(* Keyboard, the flags of the keys it reads.  The grid is tidy: nothing is *)
(* drawn behind the cursor or below its row.  Every character keeps it so, *)
(* which is why a newline finds an empty row, and why what a line shows    *)
(* depends on the characters printed since.                                *)
(***************************************************************************)
EXTENDS Console, Shell, Keyboard, Basics


Rows == {s \in Seq(Int) : Len(s) <= TtyCols}

Pages == {p \in [above : Seq(Rows), row : Rows, col : Nat] : p.col <= Len(p.row)}

Grids == [cells : [Cells -> Int], cx : Nat, cy : Nat]

(* A row as the grid shows it.                                             *)
At(row, c) == IF c <= Len(row) THEN row[c] ELSE Space

(* The rows of a page by number, and how many have left the grid.          *)
RowOf(p, k) ==
  IF k <= Len(p.above) THEN p.above[k] ELSE IF k = Len(p.above) + 1 THEN p.row ELSE << >>
Gone(p) == IF Len(p.above) < TtyRows THEN 0 ELSE Len(p.above) + 1 - TtyRows

Showing(t, p) ==
  /\ t \in Grids
  /\ \A r \in 1 .. TtyRows, c \in 1 .. TtyCols : t.cells[<<r, c>>] = At(RowOf(p, Gone(p) + r), c)
  /\ t.cx = p.col
  /\ t.cy = Len(p.above) - Gone(p)

-----------------------------------------------------------------------------
(* Rows, pages and grids.                                                  *)
LEMMA PageIs ==
  ASSUME NEW p \in Pages
  PROVE  /\ p = [above |-> p.above, row |-> p.row, col |-> p.col]
         /\ p.above \in Seq(Rows) /\ Len(p.above) \in Nat
         /\ p.row \in Seq(Int) /\ Len(p.row) \in 0 .. TtyCols /\ p.row \in Rows
         /\ p.col \in 0 .. Len(p.row)
         /\ Gone(p) \in Nat /\ Gone(p) <= Len(p.above)
         /\ Len(p.above) - Gone(p) \in 0 .. TtyRows - 1
BY TtyAssumption, LenProperties DEF Pages, Rows, Gone

LEMMA GridIs ==
  ASSUME NEW t \in Grids
  PROVE  /\ t = [cells |-> t.cells, cx |-> t.cx, cy |-> t.cy]
         /\ t.cells \in [Cells -> Int] /\ t.cx \in Nat /\ t.cy \in Nat
BY DEF Grids

(* Only the row of the cursor changes.                                     *)
LEMMA RowChanges ==
  ASSUME NEW t, NEW p \in Pages, Showing(t, p), NEW x \in [Cells -> Int],
         NEW row \in Rows, NEW col \in 0 .. Len(row),
         \A r \in 1 .. TtyRows, c \in 1 .. TtyCols :
           x[<<r, c>>] = IF r = t.cy + 1 THEN At(row, c) ELSE t.cells[<<r, c>>]
  PROVE  /\ [above |-> p.above, row |-> row, col |-> col] \in Pages
         /\ Showing([cells |-> x, cx |-> col, cy |-> t.cy],
                    [above |-> p.above, row |-> row, col |-> col])
<1>1. PICK q : q = [above |-> p.above, row |-> row, col |-> col]
  OBVIOUS
<1>2. q \in Pages
  BY <1>1, PageIs, LenProperties DEF Pages, Rows
<1>3. PICK a \in Nat, g \in Nat : a = Len(p.above) /\ g = Gone(p) /\ t.cy = a - g /\ g <= a
  BY PageIs DEF Showing
<1>4. Gone(q) = g /\ Len(q.above) = a /\ q.above = p.above /\ q.row = row /\ q.col = col
  BY <1>1, <1>3 DEF Gone
<1>5. ASSUME NEW r \in 1 .. TtyRows, NEW c \in 1 .. TtyCols
      PROVE  x[<<r, c>>] = At(RowOf(q, Gone(q) + r), c)
  <2>1. CASE r = t.cy + 1
    <3>1. g + r = a + 1
      BY <1>3, <2>1, SMTT(30)
    <3>2. RowOf(q, Gone(q) + r) = row
      BY <1>3, <1>4, <3>1 DEF RowOf
    <3> QED
      BY <2>1, <3>2
  <2>2. CASE r # t.cy + 1
    <3>1. g + r # a + 1
      <4>1. r \in Int /\ r # (a - g) + 1
        BY <1>3, <2>2
      <4> QED
        BY <4>1
    <3>2. RowOf(q, Gone(q) + r) = RowOf(p, g + r)
      BY <1>3, <1>4, <3>1 DEF RowOf
    <3>3. x[<<r, c>>] = t.cells[<<r, c>>] /\ t.cells[<<r, c>>] = At(RowOf(p, g + r), c)
      BY <1>3, <2>2 DEF Showing
    <3> QED
      BY <3>2, <3>3
  <2> QED
    BY <2>1, <2>2
<1>6. PICK u : u = [cells |-> x, cx |-> col, cy |-> t.cy]
  OBVIOUS
<1>7. u \in Grids
  <2>1. t.cy \in Nat /\ col \in Nat
    BY LenProperties DEF Showing, Grids, Rows
  <2> QED
    BY <1>6, <2>1 DEF Grids
<1>8. u.cells = x /\ u.cx = q.col /\ u.cy = Len(q.above) - Gone(q)
  BY <1>3, <1>4, <1>6
<1>9. Showing(u, q)
  BY <1>5, <1>7, <1>8 DEF Showing
<1> QED
  BY <1>1, <1>2, <1>6, <1>9

(* The next row: of the page always a new one, of the grid the next or, at *)
(* the end, the last with the others moved up.                             *)
LEMMA RowTurns ==
  ASSUME NEW t, NEW p \in Pages, Showing(t, p)
  PROVE  /\ Turned(p, << >>) \in Pages
         /\ Turned(p, << >>) = [above |-> Append(p.above, p.row), row |-> << >>, col |-> 0]
         /\ Showing(ScrollIfBelow([cells |-> t.cells, cx |-> 0, cy |-> t.cy + 1]),
                    Turned(p, << >>))
<1>1. PICK q : q = Turned(p, << >>)
  OBVIOUS
<1>2. q = [above |-> Append(p.above, p.row), row |-> << >>, col |-> 0]
  BY <1>1 DEF Turned
<1>3. PICK a \in Nat, g \in Nat : a = Len(p.above) /\ g = Gone(p) /\ t.cy = a - g /\ g <= a
  BY PageIs DEF Showing
<1>4. /\ q.above \in Seq(Rows) /\ Len(q.above) = a + 1 /\ q.above[a + 1] = p.row
      /\ \A k \in 1 .. a : q.above[k] = p.above[k]
  <2>1. p.above \in Seq(Rows) /\ p.row \in Rows
    BY PageIs
  <2> QED
    BY <1>2, <1>3, <2>1, AppendProperties
<1>5. q.row = << >> /\ q.col = 0 /\ << >> \in Rows
  BY <1>2, TtyAssumption DEF Rows
<1>6. q \in Pages
  BY <1>2, <1>4, <1>5 DEF Pages
<1>7. \A k \in Nat : k >= 1 => RowOf(q, k) = RowOf(p, k)
  <2> SUFFICES ASSUME NEW k \in Nat, k >= 1 PROVE RowOf(q, k) = RowOf(p, k)
    OBVIOUS
  <2>1. CASE k <= a
    BY <1>3, <1>4, <2>1 DEF RowOf
  <2>2. CASE k = a + 1
    BY <1>3, <1>4, <2>2 DEF RowOf
  <2>3. CASE k > a + 1
    BY <1>3, <1>4, <1>5, <2>3 DEF RowOf
  <2> QED
    BY <2>1, <2>2, <2>3
<1>8. PICK s : s = [cells |-> t.cells, cx |-> 0, cy |-> t.cy + 1]
  OBVIOUS
<1>9. t.cells \in [Cells -> Int] /\ t.cy \in Nat
  BY DEF Showing, Grids
<1>10. CASE a + 1 < TtyRows
  <2>1. g = 0 /\ Gone(q) = 0
    BY <1>3, <1>4, <1>10, TtyAssumption DEF Gone
  <2>2. ScrollIfBelow(s) = s
    BY <1>3, <1>8, <1>10, <2>1, TtyAssumption DEF ScrollIfBelow
  <2>3. s \in Grids
    BY <1>8, <1>9 DEF Grids
  <2>4. \A r \in 1 .. TtyRows, c \in 1 .. TtyCols :
          s.cells[<<r, c>>] = At(RowOf(q, Gone(q) + r), c)
    <3>1. ASSUME NEW r \in 1 .. TtyRows, NEW c \in 1 .. TtyCols
          PROVE  s.cells[<<r, c>>] = At(RowOf(q, Gone(q) + r), c)
      <4>1. t.cells[<<r, c>>] = At(RowOf(p, Gone(p) + r), c)
        BY DEF Showing
      <4>2. RowOf(q, 0 + r) = RowOf(p, 0 + r)
        BY <1>7
      <4> QED
        BY <1>3, <1>8, <2>1, <4>1, <4>2
    <3> QED
      BY <3>1
  <2>5. s.cx = q.col /\ s.cy = Len(q.above) - Gone(q)
    BY <1>3, <1>4, <1>5, <1>8, <2>1
  <2>6. Showing(s, q)
    BY <2>3, <2>4, <2>5 DEF Showing
  <2> QED
    BY <1>1, <1>2, <1>6, <1>8, <2>2, <2>6
<1>11. CASE a + 1 >= TtyRows
  <2>1. Gone(q) = g + 1 /\ t.cy + 1 = TtyRows
    BY <1>3, <1>4, <1>11, TtyAssumption DEF Gone
  <2>2. PICK y : y = [rc \in Cells |-> IF rc[1] = TtyRows THEN Space ELSE t.cells[<<rc[1] + 1, rc[2]>>]]
    OBVIOUS
  <2>3. PICK u : u = ScrollIfBelow(s)
    OBVIOUS
  <2>4. u = [cells |-> y, cx |-> 0, cy |-> TtyRows - 1]
    <3>1. u = Scrolled(s)
      BY <1>8, <2>1, <2>3, TtyAssumption DEF ScrollIfBelow
    <3>2. Scrolled(s) = [s EXCEPT !.cells = y, !.cy = TtyRows - 1]
      BY <1>8, <2>2 DEF Scrolled
    <3> QED
      BY <1>8, <3>1, <3>2
  <2>5. y \in [Cells -> Int]
    <3>1. ASSUME NEW rc \in Cells, rc[1] # TtyRows PROVE <<rc[1] + 1, rc[2]>> \in Cells
      BY <3>1, TtyAssumption DEF Cells
    <3>2. Space \in Int
      BY ConsoleAssumption
    <3> QED
      BY <1>9, <2>2, <3>1, <3>2
  <2>6. u \in Grids
    BY <2>4, <2>5, TtyAssumption DEF Grids
  <2>7. ASSUME NEW r \in 1 .. TtyRows, NEW c \in 1 .. TtyCols
        PROVE  u.cells[<<r, c>>] = At(RowOf(q, Gone(q) + r), c)
    <3>1. <<r, c>> \in Cells
      BY DEF Cells
    <3>2. CASE r = TtyRows
      <4>1. RowOf(q, Gone(q) + r) = << >>
        BY <1>3, <1>4, <1>5, <2>1, <3>2 DEF RowOf
      <4>2. u.cells[<<r, c>>] = Space
        BY <2>2, <2>4, <3>1, <3>2
      <4> QED
        BY <4>1, <4>2 DEF At
    <3>3. CASE r # TtyRows
      <4>1. r + 1 \in 1 .. TtyRows
        BY <3>3, TtyAssumption
      <4>2. u.cells[<<r, c>>] = t.cells[<<r + 1, c>>]
        BY <2>2, <2>4, <3>1, <3>3
      <4>3. t.cells[<<r + 1, c>>] = At(RowOf(p, g + (r + 1)), c)
        BY <1>3, <4>1 DEF Showing
      <4>4. Gone(q) + r = g + (r + 1) /\ g + (r + 1) \in Nat /\ g + (r + 1) >= 1
        BY <2>1
      <4>5. RowOf(q, Gone(q) + r) = RowOf(p, g + (r + 1))
        BY <1>7, <4>4
      <4> QED
        BY <4>2, <4>3, <4>5
    <3> QED
      BY <3>2, <3>3
  <2>8. u.cx = q.col /\ u.cy = Len(q.above) - Gone(q)
    BY <1>3, <1>4, <1>5, <2>1, <2>4
  <2>9. Showing(u, q)
    BY <2>6, <2>7, <2>8 DEF Showing
  <2> QED
    BY <1>1, <1>2, <1>6, <1>8, <2>3, <2>9
<1> QED
  BY <1>3, <1>10, <1>11, TtyAssumption

-----------------------------------------------------------------------------
(* What a character does to its row.                                       *)
LEMMA LargerIs ==
  ASSUME NEW a \in Int, NEW b \in Int
  PROVE  Max({a, b}) = IF a < b THEN b ELSE a
<1>1. CASE a < b
  BY <1>1, LargestIs
<1>2. CASE ~(a < b)
  BY <1>2, LargestIs
<1> QED
  BY <1>1, <1>2

LEMMA PutIs ==
  ASSUME NEW row \in Rows, NEW c \in 1 .. TtyCols, c <= Len(row) + 1, NEW g \in Int
  PROVE  /\ Put(row, c, g) \in Rows /\ c <= Len(Put(row, c, g))
         /\ \A d \in 1 .. TtyCols : At(Put(row, c, g), d) = IF d = c THEN g ELSE At(row, d)
<1>1. PICK n \in Nat : n = Len(row) /\ n <= TtyCols
  BY LenProperties DEF Rows
<1>2. \A i \in 1 .. n : row[i] \in Int
  BY <1>1, ElementOfSeq DEF Rows
<1>3. PICK m \in Nat : m = Max({n, c}) /\ m <= TtyCols /\ m = IF n < c THEN c ELSE n
  BY <1>1, LargerIs
<1>4. PICK w : w = [i \in 1 .. m |-> IF i = c THEN g ELSE IF i <= n THEN row[i] ELSE Space]
  OBVIOUS
<1>5. w = Put(row, c, g)
  BY <1>1, <1>3, <1>4 DEF Put
<1>6. w \in [1 .. m -> Int]
  <2>1. Space \in Int
    BY ConsoleAssumption
  <2> QED
    BY <1>2, <1>4, <2>1
<1>7. w \in Seq(Int) /\ Len(w) = m
  BY <1>6
<1>8. \A d \in 1 .. TtyCols : At(w, d) = IF d = c THEN g ELSE At(row, d)
  <2> SUFFICES ASSUME NEW d \in 1 .. TtyCols PROVE At(w, d) = IF d = c THEN g ELSE At(row, d)
    OBVIOUS
  <2>1. CASE d <= m
    <3>1. w[d] = IF d = c THEN g ELSE IF d <= n THEN row[d] ELSE Space
      BY <1>4, <2>1
    <3> QED
      BY <1>1, <1>7, <2>1, <3>1 DEF At
  <2>2. CASE d > m
    BY <1>1, <1>3, <1>7, <2>2 DEF At
  <2> QED
    BY <2>1, <2>2
<1> QED
  BY <1>3, <1>5, <1>7, <1>8 DEF Rows

LEMMA BlankedIs ==
  ASSUME NEW row \in Rows, NEW from \in 0 .. Len(row), NEW to \in from .. TtyCols
  PROVE  /\ Blanked(row, from, to) \in Rows /\ to <= Len(Blanked(row, from, to))
         /\ \A d \in 1 .. TtyCols :
              At(Blanked(row, from, to), d) = IF d \in from + 1 .. to THEN Space ELSE At(row, d)
<1>1. PICK n \in Nat : n = Len(row) /\ n <= TtyCols
  BY LenProperties DEF Rows
<1>2. \A i \in 1 .. n : row[i] \in Int
  BY <1>1, ElementOfSeq DEF Rows
<1>3. PICK m \in Nat : m = Max({n, to}) /\ m <= TtyCols /\ m = IF n < to THEN to ELSE n
  BY <1>1, TtyAssumption, LargerIs
<1>4. PICK w : w = [i \in 1 .. m |-> IF i \in from + 1 .. to THEN Space ELSE row[i]]
  OBVIOUS
<1>5. w = Blanked(row, from, to)
  BY <1>1, <1>3, <1>4 DEF Blanked
<1>6. w \in [1 .. m -> Int]
  <2>1. Space \in Int
    BY ConsoleAssumption
  <2>2. \A i \in 1 .. m : i \notin from + 1 .. to => i \in 1 .. n
    BY <1>1, <1>3
  <2> QED
    BY <1>2, <1>4, <2>1, <2>2
<1>7. w \in Seq(Int) /\ Len(w) = m
  BY <1>6
<1>8. \A d \in 1 .. TtyCols : At(w, d) = IF d \in from + 1 .. to THEN Space ELSE At(row, d)
  <2> SUFFICES ASSUME NEW d \in 1 .. TtyCols
               PROVE  At(w, d) = IF d \in from + 1 .. to THEN Space ELSE At(row, d)
    OBVIOUS
  <2>1. CASE d <= m
    <3>1. w[d] = IF d \in from + 1 .. to THEN Space ELSE row[d]
      BY <1>4, <2>1
    <3> QED
      BY <1>1, <1>3, <1>7, <2>1, <3>1 DEF At
  <2>2. CASE d > m
    BY <1>1, <1>3, <1>7, <2>2 DEF At
  <2> QED
    BY <2>1, <2>2
<1> QED
  BY <1>3, <1>5, <1>7, <1>8 DEF Rows

LEMMA CutIs ==
  ASSUME NEW row \in Rows, NEW n \in 0 .. Len(row)
  PROVE  /\ SubSeq(row, 1, n) \in Rows /\ Len(SubSeq(row, 1, n)) = n
         /\ \A d \in 1 .. TtyCols : At(SubSeq(row, 1, n), d) = IF d <= n THEN At(row, d) ELSE Space
<1>1. PICK m \in Nat : m = Len(row) /\ m <= TtyCols
  BY LenProperties DEF Rows
<1>2. \A i \in 1 .. m : row[i] \in Int
  BY <1>1, ElementOfSeq DEF Rows
<1>3. \A i \in 1 .. n : row[i] \in Int
  BY <1>1, <1>2
<1>4. PICK w : w = SubSeq(row, 1, n)
  OBVIOUS
<1>5. /\ w \in Seq(Int)
      /\ Len(w) = IF 1 <= n THEN n - 1 + 1 ELSE 0
      /\ \A i \in 1 .. n - 1 + 1 : w[i] = row[1 + i - 1]
  BY <1>1, <1>3, <1>4, SubSeqProperties
<1>6. Len(w) = n /\ \A i \in 1 .. n : w[i] = row[i]
  <2>1. n - 1 + 1 = n /\ (IF 1 <= n THEN n - 1 + 1 ELSE 0) = n /\ \A i \in 1 .. n : 1 + i - 1 = i
    OBVIOUS
  <2> QED
    BY <1>5, <2>1
<1>7. \A d \in 1 .. TtyCols : At(w, d) = IF d <= n THEN At(row, d) ELSE Space
  BY <1>1, <1>6 DEF At
<1>8. w \in Rows
  BY <1>1, <1>5, <1>6, TtyAssumption DEF Rows
<1> QED
  BY <1>4, <1>6, <1>7, <1>8

-----------------------------------------------------------------------------
(* What a character does to the grid and to the page.                      *)
Placed(t, g) == [t EXCEPT !.cells[Here(t)] = g, !.cx = @ + 1]

LEMMA PlacedIs ==
  ASSUME NEW t, NEW p \in Pages, Showing(t, p), NEW g \in Int, p.col < TtyCols
  PROVE  /\ [above |-> p.above, row |-> Put(p.row, p.col + 1, g), col |-> p.col + 1] \in Pages
         /\ Showing(Placed(t, g),
                    [above |-> p.above, row |-> Put(p.row, p.col + 1, g), col |-> p.col + 1])
<1>1. /\ t = [cells |-> t.cells, cx |-> t.cx, cy |-> t.cy]
      /\ t.cells \in [Cells -> Int] /\ t.cx \in Nat /\ t.cy \in Nat
  BY GridIs DEF Showing
<1>2. p.row \in Rows /\ p.col \in 0 .. Len(p.row) /\ Len(p.row) \in 0 .. TtyCols
  BY PageIs
<1>3. PICK c \in 1 .. TtyCols : c = p.col + 1 /\ c = t.cx + 1 /\ c <= Len(p.row) + 1
  BY <1>2, TtyAssumption DEF Showing
<1>4. PICK row : row = Put(p.row, c, g)
  OBVIOUS
<1>5. /\ row \in Rows /\ c \in 0 .. Len(row)
      /\ \A d \in 1 .. TtyCols : At(row, d) = IF d = c THEN g ELSE At(p.row, d)
  <2>1. /\ row \in Rows /\ c <= Len(row)
        /\ \A d \in 1 .. TtyCols : At(row, d) = IF d = c THEN g ELSE At(p.row, d)
    BY <1>2, <1>3, <1>4, PutIs
  <2> QED
    BY <2>1, LenProperties DEF Rows
<1>6. PICK x : x = [t.cells EXCEPT ![<<t.cy + 1, c>>] = g]
  OBVIOUS
<1>7. Placed(t, g) = [cells |-> x, cx |-> c, cy |-> t.cy]
  <2>1. Here(t) = <<t.cy + 1, c>>
    BY <1>3 DEF Here
  <2>2. Placed(t, g) = [t EXCEPT !.cells[<<t.cy + 1, c>>] = g, !.cx = @ + 1]
    BY <2>1 DEF Placed
  <2>3. PICK y, a, b : t = [cells |-> y, cx |-> a, cy |-> b]
    BY <1>1
  <2>4. PICK e : e = <<b + 1, c>>
    OBVIOUS
  <2>5. Placed(t, g) = [cells |-> [y EXCEPT ![e] = g], cx |-> a + 1, cy |-> b]
    BY <2>2, <2>3, <2>4
  <2> QED
    BY <1>3, <1>6, <2>3, <2>4, <2>5
<1>8. x \in [Cells -> Int]
  BY <1>1, <1>6
<1>9. t.cy + 1 \in 1 .. TtyRows /\ Gone(p) + (t.cy + 1) = Len(p.above) + 1
  BY <1>1, PageIs, TtyAssumption DEF Showing
<1>10. \A d \in 1 .. TtyCols : t.cells[<<t.cy + 1, d>>] = At(p.row, d)
  <2>1. RowOf(p, Gone(p) + (t.cy + 1)) = p.row
    BY <1>9, PageIs DEF RowOf
  <2> QED
    BY <1>9, <2>1 DEF Showing
<1>11. ASSUME NEW r \in 1 .. TtyRows, NEW d \in 1 .. TtyCols
       PROVE  x[<<r, d>>] = IF r = t.cy + 1 THEN At(row, d) ELSE t.cells[<<r, d>>]
  <2>1. <<r, d>> \in Cells
    BY DEF Cells
  <2>2. x[<<r, d>>] = IF <<r, d>> = <<t.cy + 1, c>> THEN g ELSE t.cells[<<r, d>>]
    BY <1>1, <1>6, <2>1
  <2>3. <<r, d>> = <<t.cy + 1, c>> <=> r = t.cy + 1 /\ d = c
    OBVIOUS
  <2> QED
    BY <1>5, <1>10, <2>2, <2>3
<1>12. /\ [above |-> p.above, row |-> row, col |-> c] \in Pages
       /\ Showing([cells |-> x, cx |-> c, cy |-> t.cy], [above |-> p.above, row |-> row, col |-> c])
  BY <1>5, <1>8, <1>11, RowChanges
<1> QED
  BY <1>3, <1>4, <1>7, <1>12

Drawn(p, g) ==
  IF p.col = TtyCols THEN Turned(p, <<g>>)
  ELSE [p EXCEPT !.row = Put(@, p.col + 1, g), !.col = @ + 1]

LEMMA DrawShows ==
  ASSUME NEW t, NEW p \in Pages, Showing(t, p), NEW g \in Int
  PROVE  Drawn(p, g) \in Pages /\ Showing(Draw(t, g), Drawn(p, g))
<1>1. /\ t = [cells |-> t.cells, cx |-> t.cx, cy |-> t.cy]
      /\ t.cells \in [Cells -> Int] /\ t.cx \in Nat /\ t.cy \in Nat
  BY GridIs DEF Showing
<1>2. /\ p = [above |-> p.above, row |-> p.row, col |-> p.col]
      /\ p.col \in 0 .. TtyCols /\ t.cx = p.col /\ t.cy < TtyRows
  BY PageIs, TtyAssumption DEF Showing
<1>3. CASE p.col = TtyCols
  <2>1. PICK u : u = ScrollIfBelow([cells |-> t.cells, cx |-> 0, cy |-> t.cy + 1])
    OBVIOUS
  <2>2. PICK q \in Pages : /\ q = Turned(p, << >>) /\ Showing(u, q)
                           /\ q = [above |-> Append(p.above, p.row), row |-> << >>, col |-> 0]
    BY <2>1, RowTurns
  <2>3. Draw(t, g) = Placed(u, g)
    <3>1. [t EXCEPT !.cx = 0, !.cy = @ + 1] = [cells |-> t.cells, cx |-> 0, cy |-> t.cy + 1]
      <4>1. PICK x, a, b : t = [cells |-> x, cx |-> a, cy |-> b]
        BY <1>1
      <4>2. PICK z : z = [t EXCEPT !.cx = 0]
        OBVIOUS
      <4>3. z = [cells |-> x, cx |-> 0, cy |-> b]
        BY <4>1, <4>2
      <4>4. [t EXCEPT !.cx = 0, !.cy = @ + 1] = [z EXCEPT !.cy = b + 1]
        BY <4>1, <4>2
      <4>5. [z EXCEPT !.cy = b + 1] = [cells |-> x, cx |-> 0, cy |-> b + 1]
        BY <4>3
      <4> QED
        BY <4>1, <4>4, <4>5
    <3>2. t.cx >= TtyCols
      BY <1>2, <1>3, TtyAssumption
    <3> QED
      BY <2>1, <3>1, <3>2 DEF Draw, Placed
  <2>4. q.col = 0 /\ q.row = << >> /\ q.above = Append(p.above, p.row) /\ q.col < TtyCols
    BY <2>2, TtyAssumption
  <2>5. PICK v : v = [above |-> q.above, row |-> Put(q.row, q.col + 1, g), col |-> q.col + 1]
    OBVIOUS
  <2>6. v \in Pages /\ Showing(Placed(u, g), v)
    BY <2>2, <2>4, <2>5, PlacedIs
  <2>7. Put(<< >>, 1, g) = <<g>>
    <3>1. Max({0, 1}) = 1
      BY LargerIs
    <3>2. Put(<< >>, 1, g) = [i \in 1 .. 1 |-> g]
      BY <3>1 DEF Put
    <3> QED
      BY <3>2
  <2>8. v = Drawn(p, g)
    <3>1. v = [above |-> Append(p.above, p.row), row |-> <<g>>, col |-> 1]
      <4>1. q.col + 1 = 1
        BY <2>4
      <4> QED
        BY <2>4, <2>5, <2>7, <4>1
    <3>2. Turned(p, <<g>>) = [above |-> Append(p.above, p.row), row |-> <<g>>, col |-> 1]
      <4>1. Len(<<g>>) = 1
        OBVIOUS
      <4> QED
        BY <4>1 DEF Turned
    <3> QED
      BY <1>3, <3>1, <3>2 DEF Drawn
  <2> QED
    BY <2>3, <2>6, <2>8
<1>4. CASE p.col # TtyCols
  <2>1. p.col < TtyCols /\ ~(t.cx >= TtyCols)
    BY <1>2, <1>4, TtyAssumption
  <2>2. ScrollIfBelow(t) = t
    BY <1>1, <1>2, TtyAssumption DEF ScrollIfBelow
  <2>3. Draw(t, g) = Placed(t, g)
    BY <2>1, <2>2 DEF Draw, Placed
  <2>4. Drawn(p, g) = [above |-> p.above, row |-> Put(p.row, p.col + 1, g), col |-> p.col + 1]
    <3>1. PICK a, w, c : p = [above |-> a, row |-> w, col |-> c]
      BY <1>2
    <3>2. Drawn(p, g) = [p EXCEPT !.row = Put(@, c + 1, g), !.col = @ + 1]
      BY <1>4, <3>1 DEF Drawn
    <3> QED
      BY <3>1, <3>2
  <2> QED
    BY <2>1, <2>3, <2>4, PlacedIs
<1> QED
  BY <1>3, <1>4

LEMMA ReturnShows ==
  ASSUME NEW t, NEW p \in Pages, Showing(t, p)
  PROVE  [p EXCEPT !.col = 0] \in Pages /\ Showing(Return(t), [p EXCEPT !.col = 0])
<1>1. PICK q : q = [p EXCEPT !.col = 0]
  OBVIOUS
<1>2. q \in Pages /\ q.above = p.above /\ q.row = p.row /\ q.col = 0
  BY <1>1, PageIs, SMTT(30) DEF Pages, Rows
<1>3. t \in Grids
  BY DEF Showing
<1>4. PICK u \in Grids : u = Return(t) /\ u.cells = t.cells /\ u.cx = 0 /\ u.cy = t.cy
  <2>1. t = [cells |-> t.cells, cx |-> t.cx, cy |-> t.cy]
    BY <1>3, GridIs
  <2>2. Return(t) = [cells |-> t.cells, cx |-> 0, cy |-> t.cy]
    BY <2>1 DEF Return
  <2>3. Return(t) \in Grids
    BY <1>3, <2>2, GridIs DEF Grids
  <2> QED
    BY <2>2, <2>3
<1>5. Gone(q) = Gone(p) /\ \A k : RowOf(q, k) = RowOf(p, k)
  BY <1>2 DEF Gone, RowOf
<1>6. Showing(u, q)
  BY <1>2, <1>4, <1>5 DEF Showing
<1> QED
  BY <1>1, <1>2, <1>4, <1>6

(* What the three controls that blank a part of the row have in common.    *)
Blanks(row, old, from, to) ==
  \A d \in 1 .. TtyCols : At(row, d) = IF d \in from + 1 .. to THEN Space ELSE At(old, d)
BlankedCells(t, from, to) ==
  [rc \in Cells |-> IF rc[1] = t.cy + 1 /\ rc[2] \in from + 1 .. to THEN Space ELSE t.cells[rc]]

LEMMA RowBlanks ==
  ASSUME NEW t, NEW p \in Pages, Showing(t, p), NEW x,
         NEW row \in Rows, NEW col \in 0 .. Len(row), NEW from \in Nat, NEW to \in Nat,
         x = BlankedCells(t, from, to), Blanks(row, p.row, from, to)
  PROVE  /\ [above |-> p.above, row |-> row, col |-> col] \in Pages
         /\ Showing([cells |-> x, cx |-> col, cy |-> t.cy],
                    [above |-> p.above, row |-> row, col |-> col])
<1>1. t.cells \in [Cells -> Int] /\ t.cy \in Nat
  BY GridIs DEF Showing
<1>2. x \in [Cells -> Int]
  <2>1. Space \in Int
    BY ConsoleAssumption
  <2> QED
    BY <1>1, <2>1 DEF BlankedCells
<1>3. t.cy + 1 \in 1 .. TtyRows /\ Gone(p) + (t.cy + 1) = Len(p.above) + 1
  BY <1>1, PageIs, TtyAssumption, SMTT(30) DEF Showing
<1>4. \A d \in 1 .. TtyCols : t.cells[<<t.cy + 1, d>>] = At(p.row, d)
  <2>1. RowOf(p, Gone(p) + (t.cy + 1)) = p.row
    BY <1>3, PageIs DEF RowOf
  <2> QED
    BY <1>3, <2>1 DEF Showing
<1>5. ASSUME NEW r \in 1 .. TtyRows, NEW d \in 1 .. TtyCols
      PROVE  x[<<r, d>>] = IF r = t.cy + 1 THEN At(row, d) ELSE t.cells[<<r, d>>]
  <2>1. <<r, d>> \in Cells
    BY DEF Cells
  <2>2. x[<<r, d>>] = IF r = t.cy + 1 /\ d \in from + 1 .. to THEN Space ELSE t.cells[<<r, d>>]
    BY <2>1 DEF BlankedCells
  <2>3. CASE r = t.cy + 1
    BY <1>4, <2>2, <2>3 DEF Blanks
  <2>4. CASE r # t.cy + 1
    BY <2>2, <2>4
  <2> QED
    BY <2>3, <2>4
<1> QED
  BY <1>2, <1>5, RowChanges

LEMMA NewlineShows ==
  ASSUME NEW t, NEW p \in Pages, Showing(t, p)
  PROVE  /\ Turned([p EXCEPT !.row = SubSeq(@, 1, p.col)], << >>) \in Pages
         /\ Showing(Newline(t), Turned([p EXCEPT !.row = SubSeq(@, 1, p.col)], << >>))
<1>1. /\ p = [above |-> p.above, row |-> p.row, col |-> p.col]
      /\ p.row \in Rows /\ p.col \in 0 .. Len(p.row) /\ Len(p.row) \in 0 .. TtyCols
      /\ p.col \in Nat /\ t.cx = p.col
  BY PageIs, TtyAssumption DEF Showing
<1>2. PICK row : row = SubSeq(p.row, 1, p.col)
  OBVIOUS
<1>3. /\ row \in Rows /\ Len(row) = p.col
      /\ \A d \in 1 .. TtyCols : At(row, d) = IF d <= p.col THEN At(p.row, d) ELSE Space
  BY <1>1, <1>2, CutIs
<1>4. PICK q : q = [above |-> p.above, row |-> row, col |-> p.col]
  OBVIOUS
<1>5. q = [p EXCEPT !.row = SubSeq(@, 1, p.col)]
  <2>1. PICK a, w, c : p = [above |-> a, row |-> w, col |-> c]
    BY <1>1
  <2>2. p.above = a /\ p.row = w /\ p.col = c
    BY <2>1
  <2>3. [p EXCEPT !.row = SubSeq(@, 1, p.col)] = [p EXCEPT !.row = row]
    BY <1>2
  <2>4. [p EXCEPT !.row = row] = [above |-> a, row |-> row, col |-> c]
    BY <2>1
  <2> QED
    BY <1>4, <2>2, <2>3, <2>4
<1>6. PICK x : x = [rc \in Cells |-> IF rc[1] = t.cy + 1 /\ rc[2] > t.cx THEN Space ELSE t.cells[rc]]
  OBVIOUS
<1>7. x = BlankedCells(t, p.col, TtyCols)
  <2>1. \A rc \in Cells : rc[2] > t.cx <=> rc[2] \in p.col + 1 .. TtyCols
    BY <1>1, TtyAssumption DEF Cells
  <2> QED
    BY <1>6, <2>1 DEF BlankedCells
<1>8. Blanks(row, p.row, p.col, TtyCols)
  BY <1>1, <1>3, TtyAssumption DEF Blanks
<1>9. PICK s : s = [cells |-> x, cx |-> p.col, cy |-> t.cy]
  OBVIOUS
<1>10. q \in Pages /\ Showing(s, q)
  <2>1. PICK n \in Nat : n = p.col /\ n \in 0 .. Len(row)
    BY <1>1, <1>3
  <2>2. PICK m \in Nat : m = TtyCols
    BY TtyAssumption
  <2>3. x = BlankedCells(t, n, m) /\ Blanks(row, p.row, n, m)
    BY <1>7, <1>8, <2>1, <2>2
  <2>4. /\ [above |-> p.above, row |-> row, col |-> n] \in Pages
        /\ Showing([cells |-> x, cx |-> n, cy |-> t.cy], [above |-> p.above, row |-> row, col |-> n])
    BY <1>3, <2>1, <2>2, <2>3, RowBlanks
  <2> QED
    BY <1>4, <1>9, <2>1, <2>4
<1>11. Newline(t) = ScrollIfBelow([cells |-> s.cells, cx |-> 0, cy |-> s.cy + 1])
  BY <1>6, <1>9 DEF Newline
<1> QED
  BY <1>5, <1>10, <1>11, RowTurns

Rubbed(p) == [p EXCEPT !.row = Put(@, p.col, Space), !.col = @ - 1]

LEMMA BackShows ==
  ASSUME NEW t, NEW p \in Pages, Showing(t, p), p.col # 0
  PROVE  Rubbed(p) \in Pages /\ Showing(Back(t), Rubbed(p))
<1>1. /\ p = [above |-> p.above, row |-> p.row, col |-> p.col]
      /\ p.row \in Rows /\ p.col \in 0 .. Len(p.row) /\ Len(p.row) \in 0 .. TtyCols
      /\ p.col \in Nat /\ t.cx = p.col
  BY PageIs, TtyAssumption DEF Showing
<1>2. /\ t = [cells |-> t.cells, cx |-> t.cx, cy |-> t.cy]
      /\ t.cells \in [Cells -> Int] /\ t.cx \in Nat /\ t.cy \in Nat
  BY GridIs DEF Showing
<1>3. PICK n \in Nat : p.col = n + 1 /\ n < TtyCols /\ n <= Len(p.row) /\ TtyCols \in Nat
  <2>1. PICK c \in Nat : c = p.col /\ c # 0
    BY <1>1
  <2>2. c - 1 \in Nat /\ c = (c - 1) + 1
    BY <2>1
  <2>3. PICK l \in Nat, m \in Nat : l = Len(p.row) /\ m = TtyCols /\ c <= l /\ l <= m
    BY <1>1, <2>1, TtyAssumption
  <2>4. c - 1 < m /\ c - 1 <= l
    BY <2>1, <2>3
  <2> QED
    BY <2>1, <2>2, <2>3, <2>4
<1>4. PICK row : row = Put(p.row, p.col, Space)
  OBVIOUS
<1>5. /\ row \in Rows /\ n \in 0 .. Len(row)
      /\ \A d \in 1 .. TtyCols : At(row, d) = IF d = n + 1 THEN Space ELSE At(p.row, d)
  <2>1. p.col \in 1 .. TtyCols /\ p.col <= Len(p.row) + 1 /\ Space \in Int
    <3>1. Space \in Int
      BY ConsoleAssumption
    <3>2. n + 1 \in 1 .. TtyCols
      BY <1>3
    <3>3. p.col <= Len(p.row) + 1
      BY <1>1
    <3> QED
      BY <1>3, <3>1, <3>2, <3>3
  <2>2. /\ row \in Rows /\ p.col <= Len(row)
        /\ \A d \in 1 .. TtyCols : At(row, d) = IF d = p.col THEN Space ELSE At(p.row, d)
    BY <1>1, <1>4, <2>1, PutIs
  <2>3. Len(row) \in Nat
    BY <2>2, LenProperties DEF Rows
  <2> QED
    BY <1>3, <2>2, <2>3
<1>6. PICK q : q = [above |-> p.above, row |-> row, col |-> n]
  OBVIOUS
<1>7. q = [p EXCEPT !.row = Put(@, p.col, Space), !.col = @ - 1]
  <2>1. PICK a, w, c : p = [above |-> a, row |-> w, col |-> c]
    BY <1>1
  <2>2. p.above = a /\ p.row = w /\ p.col = c /\ c - 1 = n
    BY <1>3, <2>1
  <2>3. PICK z : z = [p EXCEPT !.row = row]
    OBVIOUS
  <2>4. z = [above |-> a, row |-> row, col |-> c]
    BY <2>1, <2>3
  <2>5. [p EXCEPT !.row = Put(@, p.col, Space), !.col = @ - 1] = [z EXCEPT !.col = p.col - 1]
    BY <1>4, <2>3
  <2>6. [z EXCEPT !.col = p.col - 1] = [above |-> a, row |-> row, col |-> n]
    BY <2>2, <2>4
  <2> QED
    BY <1>6, <2>2, <2>5, <2>6
<1>8. PICK x : x = [t.cells EXCEPT ![<<t.cy + 1, t.cx>>] = Space]
  OBVIOUS
<1>9. x = BlankedCells(t, n, n + 1)
  <2>1. \A rc \in Cells : rc = <<t.cy + 1, t.cx>> <=> rc[1] = t.cy + 1 /\ rc[2] \in n + 1 .. n + 1
    BY <1>1, <1>3 DEF Cells
  <2>2. x = [rc \in Cells |-> IF rc = <<t.cy + 1, t.cx>> THEN Space ELSE t.cells[rc]]
    BY <1>2, <1>8
  <2> QED
    BY <2>1, <2>2 DEF BlankedCells
<1>10. Back(t) = [cells |-> x, cx |-> n, cy |-> t.cy]
  <2>1. PICK y, a, b : t = [cells |-> y, cx |-> a, cy |-> b]
    BY <1>2
  <2>2. PICK e : e = <<b + 1, a>>
    OBVIOUS
  <2>3. Back(t) = [t EXCEPT !.cx = @ - 1, !.cells[e] = Space]
    BY <1>1, <2>1, <2>2 DEF Back
  <2>4. Back(t) = [cells |-> [y EXCEPT ![e] = Space], cx |-> a - 1, cy |-> b]
    BY <2>1, <2>3
  <2>5. t.cells = y /\ t.cy = b /\ a - 1 = n
    BY <1>1, <1>3, <2>1
  <2> QED
    BY <1>8, <2>1, <2>2, <2>4, <2>5
<1>11. q \in Pages /\ Showing([cells |-> x, cx |-> n, cy |-> t.cy], q)
  <2>1. n + 1 \in Nat /\ \A d \in 1 .. TtyCols : d = n + 1 <=> d \in n + 1 .. n + 1
    BY <1>3
  <2>2. Blanks(row, p.row, n, n + 1)
    BY <1>5, <2>1 DEF Blanks
  <2> QED
    BY <1>5, <1>6, <1>9, <2>1, <2>2, RowBlanks
<1> QED
  BY <1>7, <1>10, <1>11 DEF Rubbed

LEMMA Quotient ==
  ASSUME NEW n \in Nat \ {0}, NEW a \in Nat
  PROVE  \E q \in Nat, r \in 0 .. n - 1 : a = n * q + r /\ a \div n = q
OBVIOUS

LEMMA NextStop ==
  ASSUME NEW col \in Nat
  PROVE  (CHOOSE c \in col + 1 .. col + TabWidth : c % TabWidth = 0) = ((col \div TabWidth) + 1) * TabWidth
<1>1. PICK n \in Nat \ {0} : n = TabWidth
  BY ConsoleAssumption
<1>2. PICK q \in Nat, r \in 0 .. n - 1 : col = n * q + r /\ col \div n = q
  BY Quotient
<1>3. PICK m \in Nat : m = n * q
  BY <1>1, <1>2
<1>4. PICK v : v = (q + 1) * n
  OBVIOUS
<1>5. v = m + n /\ v = n * (q + 1) + 0
  BY <1>1, <1>2, <1>3, <1>4
<1>6. v \in col + 1 .. col + n
  BY <1>1, <1>2, <1>3, <1>5
<1>7. v % n = 0
  <2>1. PICK o \in Int : o = q + 1
    OBVIOUS
  <2>2. 0 \in 0 .. n - 1 /\ v = n * o + 0
    BY <1>5, <2>1
  <2>3. (n * o + 0) % n = 0
    BY <2>2, Remainder
  <2> QED
    BY <2>2, <2>3
<1>8. ASSUME NEW c \in col + 1 .. col + n, c % n = 0
      PROVE  c = v
  <2>1. c \in Nat /\ v \in Nat
    BY <1>6
  <2>2. CASE c < v
    <3>1. c + n <= v
      BY <1>7, <1>8, <2>1, <2>2, RoundApart
    <3> QED
      BY <1>6, <3>1
  <2>3. CASE v < c
    <3>1. v + n <= c
      BY <1>7, <1>8, <2>1, <2>3, RoundApart
    <3> QED
      BY <1>6, <3>1
  <2> QED
    BY <2>1, <2>2, <2>3
<1>9. (CHOOSE c \in col + 1 .. col + n : c % n = 0) = v
  BY <1>6, <1>7, <1>8
<1> QED
  BY <1>1, <1>2, <1>4, <1>9

Tabbed(p) == [p EXCEPT !.row = Blanked(@, p.col, TabStop(p.col)), !.col = TabStop(@)]

LEMMA TabShows ==
  ASSUME NEW t, NEW p \in Pages, Showing(t, p)
  PROVE  Tabbed(p) \in Pages /\ Showing(Tab(t), Tabbed(p))
<1>1. /\ p = [above |-> p.above, row |-> p.row, col |-> p.col]
      /\ p.row \in Rows /\ p.col \in 0 .. Len(p.row) /\ Len(p.row) \in 0 .. TtyCols
      /\ t.cx = p.col
  BY PageIs DEF Showing
<1>2. t = [cells |-> t.cells, cx |-> t.cx, cy |-> t.cy]
  BY GridIs DEF Showing
<1>3. PICK from \in Nat, m \in Nat : from = p.col /\ m = TtyCols /\ from <= m
  BY <1>1, TtyAssumption
<1>4. PICK to : to = TabStop(from)
  OBVIOUS
<1>5. PICK v \in Nat : v = ((from \div TabWidth) + 1) * TabWidth /\ v > from
  <2>1. PICK n \in Nat \ {0} : n = TabWidth
    BY ConsoleAssumption
  <2>2. PICK q \in Nat, r \in 0 .. n - 1 : from = n * q + r /\ from \div n = q
    BY Quotient
  <2>3. PICK k \in Nat : k = n * q
    BY <2>1, <2>2
  <2>4. (q + 1) * n = k + n
    BY <2>1, <2>2, <2>3
  <2>5. k + n \in Nat /\ k + n > from
    BY <2>1, <2>2, <2>3
  <2> QED
    BY <2>1, <2>2, <2>4, <2>5
<1>6. to = IF v < m THEN v ELSE m
  BY <1>3, <1>4, <1>5, NextStop DEF TabStop
<1>7. to \in from .. TtyCols /\ to \in Nat
  BY <1>3, <1>5, <1>6
<1>8. Min({v, m}) = to
  BY <1>6, SmallerIs
<1>9. PICK x : x = BlankedCells(t, from, to)
  OBVIOUS
<1>10. Tab(t) = [cells |-> x, cx |-> to, cy |-> t.cy]
  <2>1. Min({((t.cx \div TabWidth) + 1) * TabWidth, TtyCols}) = to
    BY <1>1, <1>3, <1>5, <1>8
  <2>2. [rc \in Cells |-> IF rc[1] = t.cy + 1 /\ rc[2] \in t.cx + 1 .. to THEN Space ELSE t.cells[rc]] = x
    BY <1>1, <1>3, <1>9 DEF BlankedCells
  <2>3. Tab(t) = [t EXCEPT !.cells = x, !.cx = to]
    BY <2>1, <2>2 DEF Tab
  <2> QED
    BY <1>2, <2>3
<1>11. PICK row : row = Blanked(p.row, from, to)
  OBVIOUS
<1>12. row \in Rows /\ to \in 0 .. Len(row) /\ Blanks(row, p.row, from, to)
  <2>1. /\ row \in Rows /\ to <= Len(row)
        /\ \A d \in 1 .. TtyCols : At(row, d) = IF d \in from + 1 .. to THEN Space ELSE At(p.row, d)
    BY <1>1, <1>3, <1>7, <1>11, BlankedIs
  <2>2. Len(row) \in Nat
    BY <2>1, LenProperties DEF Rows
  <2> QED
    BY <1>7, <2>1, <2>2 DEF Blanks
<1>13. PICK q : q = [above |-> p.above, row |-> row, col |-> to]
  OBVIOUS
<1>14. q = [p EXCEPT !.row = Blanked(@, p.col, TabStop(p.col)), !.col = TabStop(@)]
  <2>1. PICK z : z = [p EXCEPT !.row = row]
    OBVIOUS
  <2>2. [p EXCEPT !.row = Blanked(@, p.col, TabStop(p.col)), !.col = TabStop(@)] = [z EXCEPT !.col = to]
    BY <1>3, <1>4, <1>11, <2>1
  <2>3. z = [above |-> p.above, row |-> row, col |-> p.col]
    BY <1>1, <2>1
  <2> QED
    BY <1>13, <2>2, <2>3
<1>15. q \in Pages /\ Showing([cells |-> x, cx |-> to, cy |-> t.cy], q)
  BY <1>7, <1>9, <1>12, <1>13, RowBlanks
<1> QED
  BY <1>10, <1>14, <1>15 DEF Tabbed

-----------------------------------------------------------------------------
(* Each driver does to the grid what Typeset does to the page.             *)
LEMMA IndexType ==
  ASSUME NEW cp \in Nat, NEW d
  PROVE  IndexOf(d, cp) \in Int
<1>1. AsciiIndex(cp) \in Int
  BY DEF AsciiIndex
<1>2. FontIndex(cp) \in Int
  <2>1. cp \in DOMAIN Turkish => Turkish[cp] \in Int
    BY DEF Turkish
  <2> QED
    BY <2>1 DEF FontIndex
<1> QED
  BY <1>1, <1>2 DEF IndexOf

LinkedPut(t, b) ==
  IF b \in {NL, BS} THEN Putchar(t, b) ELSE IF b = CR THEN Return(t) ELSE Draw(t, AsciiIndex(b))

LEMMA LinkedShows ==
  ASSUME NEW t, NEW p \in Pages, Showing(t, p), NEW b \in Nat
  PROVE  Typeset("linked", p, b) \in Pages /\ Showing(LinkedPut(t, b), Typeset("linked", p, b))
<1>1. NL = 10 /\ BS = 8 /\ CR = 13 /\ "linked" # "utf8"
  BY ConsoleAssumption
<1>2. CASE b = NL
  <2>1. Typeset("linked", p, b) = Turned([p EXCEPT !.row = SubSeq(@, 1, p.col)], << >>)
    BY <1>1, <1>2 DEF Typeset
  <2>2. LinkedPut(t, b) = Newline(t)
    BY <1>1, <1>2 DEF LinkedPut, Putchar
  <2> QED
    BY <2>1, <2>2, NewlineShows
<1>3. CASE b = BS
  <2>1. LinkedPut(t, b) = Back(t)
    BY <1>1, <1>3 DEF LinkedPut, Putchar
  <2>2. CASE p.col = 0
    <3>1. Typeset("linked", p, b) = p
      BY <1>1, <1>3, <2>2 DEF Typeset
    <3>2. Back(t) = t
      BY <2>2 DEF Back, Showing
    <3> QED
      BY <2>1, <3>1, <3>2
  <2>3. CASE p.col # 0
    <3>1. Typeset("linked", p, b) = Rubbed(p)
      BY <1>1, <1>3, <2>3 DEF Typeset, Rubbed
    <3> QED
      BY <2>1, <2>3, <3>1, BackShows
  <2> QED
    BY <2>2, <2>3
<1>4. CASE b = CR
  <2>1. Typeset("linked", p, b) = [p EXCEPT !.col = 0]
    BY <1>1, <1>4 DEF Typeset
  <2>2. LinkedPut(t, b) = Return(t)
    BY <1>1, <1>4 DEF LinkedPut
  <2> QED
    BY <2>1, <2>2, ReturnShows
<1>5. CASE b \notin {NL, BS, CR}
  <2>1. Typeset("linked", p, b) = Drawn(p, IndexOf("linked", b))
    BY <1>1, <1>5 DEF Typeset, Drawn
  <2>2. LinkedPut(t, b) = Draw(t, IndexOf("linked", b))
    BY <1>5 DEF LinkedPut, IndexOf
  <2> QED
    BY <2>1, <2>2, IndexType, DrawShows
<1> QED
  BY <1>2, <1>3, <1>4, <1>5

LEMMA ShowShows ==
  ASSUME NEW t, NEW p \in Pages, Showing(t, p), NEW cp \in Nat
  PROVE  Typeset("utf8", p, cp) \in Pages /\ Showing(Show(t, cp), Typeset("utf8", p, cp))
<1>1. NL = 10 /\ BS = 8 /\ CR = 13 /\ HT = 9 /\ "linked" # "utf8"
  BY ConsoleAssumption
<1>2. CASE cp = NL
  <2>1. Typeset("utf8", p, cp) = Turned([p EXCEPT !.row = SubSeq(@, 1, p.col)], << >>)
    BY <1>1, <1>2 DEF Typeset
  <2>2. Show(t, cp) = Newline(t)
    BY <1>1, <1>2 DEF Show, Putchar
  <2> QED
    BY <2>1, <2>2, NewlineShows
<1>3. CASE cp = BS
  <2>1. Show(t, cp) = Back(t)
    BY <1>1, <1>3 DEF Show, Putchar
  <2>2. CASE p.col = 0
    <3>1. Typeset("utf8", p, cp) = p
      BY <1>1, <1>3, <2>2 DEF Typeset
    <3>2. Back(t) = t
      BY <2>2 DEF Back, Showing
    <3> QED
      BY <2>1, <3>1, <3>2
  <2>3. CASE p.col # 0
    <3>1. Typeset("utf8", p, cp) = Rubbed(p)
      BY <1>1, <1>3, <2>3 DEF Typeset, Rubbed
    <3> QED
      BY <2>1, <2>3, <3>1, BackShows
  <2> QED
    BY <2>2, <2>3
<1>4. CASE cp = CR
  <2>1. Typeset("utf8", p, cp) = [p EXCEPT !.col = 0]
    BY <1>1, <1>4 DEF Typeset
  <2>2. Show(t, cp) = Return(t)
    BY <1>1, <1>4 DEF Show
  <2> QED
    BY <2>1, <2>2, ReturnShows
<1>5. CASE cp = HT
  <2>1. Typeset("utf8", p, cp) = Tabbed(p)
    BY <1>1, <1>5 DEF Typeset, Tabbed
  <2>2. Show(t, cp) = Tab(t)
    BY <1>1, <1>5 DEF Show
  <2> QED
    BY <2>1, <2>2, TabShows
<1>6. CASE cp \notin {NL, BS, CR, HT} /\ cp < 32
  <2>1. Typeset("utf8", p, cp) = p
    BY <1>1, <1>6 DEF Typeset
  <2>2. Show(t, cp) = t
    BY <1>1, <1>6 DEF Show
  <2> QED
    BY <2>1, <2>2
<1>7. CASE cp \notin {NL, BS, CR, HT} /\ ~(cp < 32)
  <2>1. Typeset("utf8", p, cp) = Drawn(p, IndexOf("utf8", cp))
    BY <1>1, <1>7 DEF Typeset, Drawn
  <2>2. Show(t, cp) = Draw(t, IndexOf("utf8", cp))
    BY <1>1, <1>7 DEF Show, IndexOf
  <2> QED
    BY <2>1, <2>2, IndexType, DrawShows
<1> QED
  BY <1>2, <1>3, <1>4, <1>5, <1>6, <1>7

-----------------------------------------------------------------------------
(* The page of a text is made character by character.                      *)
Drivers == {"linked", "utf8"}

(* Every page can be seen on some grid.                                    *)
LEMMA PageIsShown ==
  ASSUME NEW p \in Pages
  PROVE  \E t : Showing(t, p)
<1>1. /\ p.above \in Seq(Rows) /\ Len(p.above) \in Nat
      /\ p.row \in Rows /\ p.col \in Nat
      /\ Gone(p) \in Nat /\ Len(p.above) - Gone(p) \in Nat
  BY PageIs, TtyAssumption
<1>2. PICK x : x = [rc \in Cells |-> At(RowOf(p, Gone(p) + rc[1]), rc[2])]
  OBVIOUS
<1>3. PICK t : t = [cells |-> x, cx |-> p.col, cy |-> Len(p.above) - Gone(p)]
  OBVIOUS
<1>4. x \in [Cells -> Int]
  <2>1. ASSUME NEW row \in Rows, NEW c \in 1 .. TtyCols PROVE At(row, c) \in Int
    <3>1. Space \in Int
      BY ConsoleAssumption
    <3>2. \A i \in 1 .. Len(row) : row[i] \in Int
      BY ElementOfSeq DEF Rows
    <3>3. Len(row) \in Nat
      BY LenProperties DEF Rows
    <3> QED
      BY <3>1, <3>2, <3>3 DEF At
  <2>2. ASSUME NEW rc \in Cells PROVE RowOf(p, Gone(p) + rc[1]) \in Rows
    <3>1. << >> \in Rows
      BY TtyAssumption DEF Rows
    <3>2. PICK k \in Nat : k = Gone(p) + rc[1] /\ k >= 1
      BY <1>1 DEF Cells
    <3>3. k <= Len(p.above) => p.above[k] \in Rows
      BY <1>1, <3>2, ElementOfSeq
    <3> QED
      BY <1>1, <3>1, <3>2, <3>3 DEF RowOf
  <2>3. \A rc \in Cells : rc[2] \in 1 .. TtyCols
    BY DEF Cells
  <2>4. ASSUME NEW rc \in Cells PROVE At(RowOf(p, Gone(p) + rc[1]), rc[2]) \in Int
    BY <2>1, <2>2, <2>3
  <2> QED
    BY <1>2, <2>4
<1>5. t \in Grids
  BY <1>1, <1>3, <1>4 DEF Grids
<1>6. ASSUME NEW r \in 1 .. TtyRows, NEW c \in 1 .. TtyCols
      PROVE  t.cells[<<r, c>>] = At(RowOf(p, Gone(p) + r), c)
  <2>1. <<r, c>> \in Cells
    BY DEF Cells
  <2> QED
    BY <1>2, <1>3, <2>1
<1> QED
  BY <1>3, <1>5, <1>6 DEF Showing

LEMMA TypesetType ==
  ASSUME NEW d \in Drivers, NEW p \in Pages, NEW cp \in Nat
  PROVE  Typeset(d, p, cp) \in Pages
<1>1. PICK t : Showing(t, p)
  BY PageIsShown
<1> QED
  BY <1>1, LinkedShows, ShowShows DEF Drivers

Laid(d, codes) == FoldLeft(LAMBDA p, cp : Typeset(d, p, cp), BlankPage, codes)

Laying(f, d, codes) ==
  f = [s \in SUBSET DOMAIN codes |-> IF s = {} THEN BlankPage
                                     ELSE Typeset(d, f[s \ {Max(s)}], codes[Max(s)])]

LEMMA LaidIsFold ==
  ASSUME NEW d, NEW codes
  PROVE  Laid(d, codes) = (CHOOSE f : Laying(f, d, codes))[DOMAIN codes]
BY DEF Laid, FoldLeft, MapThenFoldSet, Laying

LEMMA BlankIsPage == BlankPage \in Pages
BY TtyAssumption DEF BlankPage, Pages, Rows

LEMMA LaidRuns ==
  ASSUME NEW d \in Drivers, NEW codes \in Seq(Nat)
  PROVE  \E P \in [0 .. Len(codes) -> Pages] :
           /\ P[0] = BlankPage
           /\ \A k \in 1 .. Len(codes) : P[k] = Typeset(d, P[k - 1], codes[k])
           /\ Laid(d, codes) = P[Len(codes)]
<1>1. PICK n \in Nat : n = Len(codes) /\ DOMAIN codes = 1 .. n
  BY LenProperties
<1>2. PICK F : F = [q \in Pages \X (1 .. n) |-> Typeset(d, q[1], codes[q[2]])]
  OBVIOUS
<1>3. F \in [Pages \X (1 .. n) -> Pages]
  <2>1. \A p \in Pages, i \in 1 .. n : Typeset(d, p, codes[i]) \in Pages
    BY <1>1, TypesetType, ElementOfSeq
  <2> QED
    BY <1>2, <2>1
<1>4. PICK g : IsFold(g, n, BlankPage, F, Pages)
  BY <1>3, BlankIsPage, FoldExists
<1>5. Laying(g, d, codes)
  <2>1. ASSUME NEW s \in SUBSET (1 .. n), s # {}
        PROVE  g[s] = Typeset(d, g[s \ {Max(s)}], codes[Max(s)])
    <3>1. Max(s) \in 1 .. n
      BY <2>1, LargestExists
    <3>2. g[s \ {Max(s)}] \in Pages
      BY <1>4 DEF IsFold
    <3> QED
      BY <1>2, <1>4, <2>1, <3>1, <3>2 DEF IsFold
  <2>2. g \in [SUBSET (1 .. n) -> Pages] /\ g[{}] = BlankPage
    BY <1>4 DEF IsFold
  <2> QED
    BY <1>1, <2>1, <2>2 DEF Laying
<1>6. PICK h : Laying(h, d, codes) /\ Laid(d, codes) = h[1 .. n]
  BY <1>1, <1>5, LaidIsFold
<1>7. ASSUME NEW s \in SUBSET (1 .. n), s # {}, h[s \ {Max(s)}] \in Pages
      PROVE  h[s] = F[<<h[s \ {Max(s)}], Max(s)>>]
  <2>1. Max(s) \in 1 .. n
    BY <1>7, LargestExists
  <2>2. h[s] = Typeset(d, h[s \ {Max(s)}], codes[Max(s)])
    BY <1>1, <1>6, <1>7 DEF Laying
  <2> QED
    BY <1>2, <1>7, <2>1, <2>2
<1>8. GoesOn(h, n, BlankPage, F, Pages)
  BY <1>1, <1>6, <1>7 DEF GoesOn, Laying
<1>9. PICK P : IsRun(P, n, BlankPage, h[1 .. n], F, Pages)
  BY <1>3, <1>8, BlankIsPage, FoldRuns
<1>10. ASSUME NEW k \in 1 .. n PROVE P[k] = Typeset(d, P[k - 1], codes[k])
  <2>1. k - 1 \in 0 .. n
    OBVIOUS
  <2>2. P[k - 1] \in Pages /\ P[k] = F[<<P[k - 1], k>>]
    BY <1>9, <2>1 DEF IsRun
  <2> QED
    BY <1>2, <2>2
<1>11. P \in [0 .. n -> Pages] /\ P[0] = BlankPage /\ P[n] = h[1 .. n]
  BY <1>9 DEF IsRun
<1> QED
  BY <1>1, <1>6, <1>10, <1>11

LEMMA LaidEmpty == ASSUME NEW d \in Drivers PROVE Laid(d, << >>) = BlankPage
<1>1. PICK e \in Seq(Nat) : e = << >> /\ Len(e) = 0
  <2>1. << >> \in Seq(Nat) /\ Len(<< >>) = 0
    OBVIOUS
  <2> QED
    BY <2>1
<1>2. PICK P : P[0] = BlankPage /\ Laid(d, e) = P[Len(e)]
  BY LaidRuns
<1> QED
  BY <1>1, <1>2

LEMMA LaidGrows ==
  ASSUME NEW d \in Drivers, NEW codes \in Seq(Nat), NEW cp \in Nat
  PROVE  Laid(d, codes) \in Pages /\ Laid(d, Append(codes, cp)) = Typeset(d, Laid(d, codes), cp)
<1>1. PICK n \in Nat, w \in Seq(Nat) :
        /\ n = Len(codes) /\ w = Append(codes, cp) /\ Len(w) = n + 1 /\ w[n + 1] = cp
        /\ \A k \in 1 .. n : w[k] = codes[k]
  <2>1. /\ Append(codes, cp) \in Seq(Nat) /\ Len(Append(codes, cp)) = Len(codes) + 1
        /\ \A k \in 1 .. Len(codes) : Append(codes, cp)[k] = codes[k]
        /\ Append(codes, cp)[Len(codes) + 1] = cp
    BY AppendProperties
  <2>2. Len(codes) \in Nat
    OBVIOUS
  <2> QED
    BY <2>1, <2>2
<1>2. PICK P \in [0 .. n -> Pages] :
        /\ P[0] = BlankPage
        /\ \A k \in 1 .. n : P[k] = Typeset(d, P[k - 1], codes[k])
        /\ Laid(d, codes) = P[n]
  BY <1>1, LaidRuns
<1>3. PICK Q \in [0 .. n + 1 -> Pages] :
        /\ Q[0] = BlankPage
        /\ \A k \in 1 .. n + 1 : Q[k] = Typeset(d, Q[k - 1], w[k])
        /\ Laid(d, w) = Q[n + 1]
  <2>1. w \in Seq(Nat)
    BY <1>1
  <2>2. \E R \in [0 .. Len(w) -> Pages] :
          /\ R[0] = BlankPage
          /\ \A k \in 1 .. Len(w) : R[k] = Typeset(d, R[k - 1], w[k])
          /\ Laid(d, w) = R[Len(w)]
    BY <2>1, LaidRuns
  <2>3. Len(w) = n + 1
    BY <1>1
  <2> QED
    BY <2>2, <2>3
<1> DEFINE Same == {k \in 0 .. n : P[k] = Q[k]}
<1> HIDE DEF Same
<1>4. 0 \in Same
  BY <1>2, <1>3 DEF Same
<1>5. ASSUME NEW k \in 1 .. n, k - 1 \in Same PROVE k \in Same
  <2>1. P[k - 1] = Q[k - 1]
    BY <1>5 DEF Same
  <2>2. P[k] = Typeset(d, P[k - 1], codes[k]) /\ Q[k] = Typeset(d, Q[k - 1], codes[k])
    BY <1>1, <1>2, <1>3
  <2> QED
    BY <2>1, <2>2 DEF Same
<1>6. P[n] = Q[n]
  <2>1. \A k \in 0 .. n : k \in Same
    BY <1>4, <1>5, StepByStep
  <2> QED
    BY <2>1 DEF Same
<1>7. Q[n + 1] = Typeset(d, Q[n], cp)
  <2>1. n + 1 \in 1 .. n + 1 /\ (n + 1) - 1 = n
    OBVIOUS
  <2> QED
    BY <1>1, <1>3, <2>1
<1>8. n \in 0 .. n
  OBVIOUS
<1> QED
  BY <1>1, <1>2, <1>3, <1>6, <1>7, <1>8

(* The UTF-8 driver prints at most one character per byte.                 *)
ShowAll(t, out) == FoldLeft(Show, t, out)

Showings(f, t, out) ==
  f = [s \in SUBSET DOMAIN out |-> IF s = {} THEN t ELSE Show(f[s \ {Max(s)}], out[Max(s)])]

LEMMA ShowAllIsFold ==
  ASSUME NEW t, NEW out
  PROVE  ShowAll(t, out) = (CHOOSE f : Showings(f, t, out))[DOMAIN out]
BY DEF ShowAll, FoldLeft, MapThenFoldSet, Showings

LEMMA ShowNone == ASSUME NEW t PROVE ShowAll(t, << >>) = t
<1>1. DOMAIN << >> = {} /\ SUBSET {} = {{}}
  OBVIOUS
<1>2. Showings([s \in SUBSET {} |-> t], t, << >>)
  BY <1>1 DEF Showings
<1>3. PICK f : Showings(f, t, << >>) /\ ShowAll(t, << >>) = f[{}]
  BY <1>1, <1>2, ShowAllIsFold
<1> QED
  BY <1>1, <1>3 DEF Showings

LEMMA ShowOne == ASSUME NEW t, NEW cp PROVE ShowAll(t, <<cp>>) = Show(t, cp)
<1>1. DOMAIN <<cp>> = {1} /\ SUBSET {1} = {{}, {1}} /\ {1} \ {1} = {} /\ {1} # {} /\ <<cp>>[1] = cp
  OBVIOUS
<1>2. Max({1}) = 1
  BY LargestIs
<1>3. PICK g : g = [s \in SUBSET {1} |-> IF s = {} THEN t ELSE Show(t, cp)]
  OBVIOUS
<1>4. g[{}] = t /\ g[{1}] = Show(t, cp)
  BY <1>1, <1>3
<1>5. Showings(g, t, <<cp>>)
  <2>1. \A s \in SUBSET {1} :
          g[s] = IF s = {} THEN t ELSE Show(g[s \ {Max(s)}], <<cp>>[Max(s)])
    BY <1>1, <1>2, <1>4
  <2>2. PICK h : h = [s \in SUBSET {1} |-> IF s = {} THEN t ELSE Show(g[s \ {Max(s)}], <<cp>>[Max(s)])]
    OBVIOUS
  <2>3. \A s \in SUBSET {1} : g[s] = h[s]
    BY <2>1, <2>2
  <2>4. g = h
    BY <1>3, <2>2, <2>3
  <2>5. PICK D : D = DOMAIN <<cp>> /\ D = {1}
    BY <1>1
  <2>6. g = [s \in SUBSET D |-> IF s = {} THEN t ELSE Show(g[s \ {Max(s)}], <<cp>>[Max(s)])]
    BY <2>2, <2>4, <2>5
  <2> QED
    BY <2>5, <2>6 DEF Showings
<1>6. PICK f : Showings(f, t, <<cp>>) /\ ShowAll(t, <<cp>>) = f[{1}]
  BY <1>1, <1>5, ShowAllIsFold
<1>7. f[{}] = t
  BY <1>1, <1>6 DEF Showings
<1>8. f[{1}] = Show(f[{1} \ {Max({1})}], <<cp>>[Max({1})])
  BY <1>1, <1>6 DEF Showings
<1> QED
  BY <1>1, <1>2, <1>6, <1>7, <1>8

-----------------------------------------------------------------------------
(* What the bytes of a text mean depends on the bytes before only.         *)
Trails(s, i, k) ==
  /\ k \in 0 .. i
  /\ \A j \in i - k + 1 .. i : IsContinuation(s[j])
  /\ i = k \/ ~IsContinuation(s[i - k])

LEMMA RunIs ==
  ASSUME NEW s, NEW i \in Nat, NEW k, Trails(s, i, k)
  PROVE  RunUpTo(s, i) = k
<1>1. ASSUME NEW l, Trails(s, i, l), NEW m, Trails(s, i, m), l < m
      PROVE  FALSE
  <2>1. l \in 0 .. i /\ m \in 0 .. i
    BY <1>1 DEF Trails
  <2>2. i - l \in i - m + 1 .. i /\ i # l
    BY <1>1, <2>1
  <2> QED
    BY <1>1, <2>2 DEF Trails
<1>2. \A l : Trails(s, i, l) => l = k
  <2> SUFFICES ASSUME NEW l, Trails(s, i, l) PROVE l = k
    OBVIOUS
  <2>1. l \in 0 .. i /\ k \in 0 .. i
    BY DEF Trails
  <2>2. ~(l < k) /\ ~(k < l)
    BY <1>1
  <2> QED
    BY <2>1, <2>2
<1>3. PICK r : r = RunUpTo(s, i)
  OBVIOUS
<1>4. Trails(s, i, r)
  BY <1>3 DEF RunUpTo, Trails
<1> QED
  BY <1>2, <1>3, <1>4

LEMMA RunExists ==
  ASSUME NEW s, NEW i \in Nat
  PROVE  Trails(s, i, RunUpTo(s, i))
<1> DEFINE G == {m \in 0 .. i : \E k : Trails(s, m, k)}
<1> HIDE DEF G
<1>1. 0 \in G
  <2>1. Trails(s, 0, 0)
    BY DEF Trails
  <2> QED
    BY <2>1 DEF G
<1>2. ASSUME NEW m \in 1 .. i, m - 1 \in G PROVE m \in G
  <2>1. PICK k : Trails(s, m - 1, k)
    BY <1>2 DEF G
  <2>2. k \in 0 .. m - 1
    BY <2>1 DEF Trails
  <2>3. CASE IsContinuation(s[m])
    <3>1. (m - 1) - k = m - (k + 1) /\ k + 1 \in 0 .. m /\ (m - 1 = k => m = k + 1)
      BY <2>2
    <3>2. \A j \in m - (k + 1) + 1 .. m : j = m \/ j \in (m - 1) - k + 1 .. m - 1
      BY <2>2
    <3>3. Trails(s, m, k + 1)
      BY <2>1, <2>3, <3>1, <3>2 DEF Trails
    <3> QED
      BY <3>3 DEF G
  <2>4. CASE ~IsContinuation(s[m])
    <3>1. m - 0 = m /\ m - 0 + 1 .. m = {} /\ 0 \in 0 .. m
      OBVIOUS
    <3>2. Trails(s, m, 0)
      BY <2>4, <3>1 DEF Trails
    <3> QED
      BY <3>2 DEF G
  <2> QED
    BY <2>3, <2>4
<1>3. i \in G
  <2>1. \A m \in 0 .. i : m \in G
    BY <1>1, <1>2, StepByStep
  <2> QED
    BY <2>1
<1> QED
  BY <1>3, RunIs DEF G

(* The value of a sequence, as a function on its continuations.            *)
Collects(f, s, start, k) ==
  f = [j \in 0 .. k |-> IF j = 0 THEN LeadBits(s[start]) ELSE 64 * f[j - 1] + (s[start + j] % 64)]

LEMMA ValueIs ==
  ASSUME NEW s, NEW i \in Nat, NEW k, Trails(s, i, k)
  PROVE  ValueOf(s, i) = (CHOOSE f : Collects(f, s, i - k, k))[k]
<1>1. RunUpTo(s, i) = k
  BY RunIs
<1> QED
  BY <1>1 DEF ValueOf, Collects

LEMMA LeadBitsType == ASSUME NEW b \in Nat PROVE LeadBits(b) \in Nat
<1>1. PICK m \in Nat \ {0} : LeadBits(b) = b % m
  BY DEF LeadBits
<1>2. b % m \in 0 .. m - 1
  BY RemainderType
<1> QED
  BY <1>1, <1>2

LEMMA CollectsExists ==
  ASSUME NEW s, NEW start, NEW k \in Nat, s[start] \in Nat, \A j \in 1 .. k : s[start + j] \in Nat
  PROVE  \E f : Collects(f, s, start, k) /\ f \in [0 .. k -> Nat]
<1> DEFINE G == {m \in 0 .. k : \E f : Collects(f, s, start, m) /\ f \in [0 .. m -> Nat]}
<1> HIDE DEF G
<1>1. 0 \in G
  <2>1. PICK f : f = [j \in 0 .. 0 |-> LeadBits(s[start])]
    OBVIOUS
  <2>2. f \in [0 .. 0 -> Nat]
    BY <2>1, LeadBitsType
  <2>3. Collects(f, s, start, 0)
    BY <2>1 DEF Collects
  <2> QED
    BY <2>2, <2>3 DEF G
<1>2. ASSUME NEW m \in 1 .. k, m - 1 \in G PROVE m \in G
  <2>1. PICK f : Collects(f, s, start, m - 1) /\ f \in [0 .. m - 1 -> Nat]
    BY <1>2 DEF G
  <2>2. PICK c \in Nat : c = s[start + m] % 64
    <3>1. PICK v \in Nat : v = s[start + m]
      OBVIOUS
    <3>2. v % 64 \in 0 .. 64 - 1
      BY RemainderType
    <3> QED
      BY <3>1, <3>2
  <2>3. PICK g : g = [j \in 0 .. m |-> IF j = m THEN 64 * f[m - 1] + c ELSE f[j]]
    OBVIOUS
  <2>4. g \in [0 .. m -> Nat]
    <3>1. m - 1 \in 0 .. m - 1 /\ \A j \in 0 .. m : j # m => j \in 0 .. m - 1
      OBVIOUS
    <3>2. 64 * f[m - 1] + c \in Nat
      BY <2>1, <3>1
    <3> QED
      BY <2>1, <2>3, <3>1, <3>2
  <2>5. ASSUME NEW j \in 0 .. m
        PROVE  g[j] = IF j = 0 THEN LeadBits(s[start]) ELSE 64 * g[j - 1] + (s[start + j] % 64)
    <3>1. CASE j = m
      <4>1. j # 0 /\ j - 1 \in 0 .. m /\ j - 1 # m /\ j - 1 = m - 1
        BY <3>1
      <4>2. g[j - 1] = f[m - 1] /\ g[j] = 64 * f[m - 1] + c
        BY <2>3, <3>1, <4>1
      <4> QED
        BY <2>2, <3>1, <4>1, <4>2
    <3>2. CASE j # m
      <4>1. j \in 0 .. m - 1 /\ (j # 0 => j - 1 \in 0 .. m /\ j - 1 # m)
        BY <3>2
      <4>2. g[j] = f[j] /\ (j # 0 => g[j - 1] = f[j - 1])
        BY <2>3, <3>2, <4>1
      <4>3. f[j] = IF j = 0 THEN LeadBits(s[start]) ELSE 64 * f[j - 1] + (s[start + j] % 64)
        BY <2>1, <4>1 DEF Collects
      <4> QED
        BY <4>2, <4>3
    <3> QED
      BY <3>1, <3>2
  <2>6. Collects(g, s, start, m)
    <3>1. PICK h : h = [j \in 0 .. m |-> IF j = 0 THEN LeadBits(s[start])
                                         ELSE 64 * g[j - 1] + (s[start + j] % 64)]
      OBVIOUS
    <3>2. \A j \in 0 .. m : g[j] = h[j]
      BY <2>5, <3>1
    <3>3. g = h
      BY <2>3, <3>1, <3>2
    <3> QED
      BY <3>1, <3>3 DEF Collects
  <2> QED
    BY <2>4, <2>6 DEF G
<1>3. k \in G
  <2>1. \A m \in 0 .. k : m \in G
    BY <1>1, <1>2, StepByStep
  <2> QED
    BY <2>1
<1> QED
  BY <1>3 DEF G

AlikeFrom(s, u, start, k) == s[start] = u[start] /\ \A j \in 1 .. k : s[start + j] = u[start + j]

LEMMA CollectsAgree ==
  ASSUME NEW s, NEW u, NEW start, NEW k \in Nat, NEW l \in Nat, k <= l,
         NEW f, Collects(f, s, start, k), NEW g, Collects(g, u, start, l),
         AlikeFrom(s, u, start, k)
  PROVE  f[k] = g[k]
<1> DEFINE Same == {j \in 0 .. k : f[j] = g[j]}
<1> HIDE DEF Same
<1>1. 0 \in Same
  <2>1. 0 \in 0 .. k /\ 0 \in 0 .. l
    OBVIOUS
  <2>2. f[0] = LeadBits(s[start]) /\ g[0] = LeadBits(u[start])
    BY <2>1 DEF Collects
  <2> QED
    BY <2>1, <2>2 DEF Same, AlikeFrom
<1>2. ASSUME NEW j \in 1 .. k, j - 1 \in Same PROVE j \in Same
  <2>1. j \in 0 .. k /\ j \in 0 .. l /\ j # 0
    OBVIOUS
  <2>2. /\ f[j] = 64 * f[j - 1] + (s[start + j] % 64)
        /\ g[j] = 64 * g[j - 1] + (u[start + j] % 64)
    BY <2>1 DEF Collects
  <2>3. f[j - 1] = g[j - 1]
    BY <1>2 DEF Same
  <2> QED
    BY <2>1, <2>2, <2>3 DEF Same, AlikeFrom
<1>3. k \in Same
  <2>1. \A j \in 0 .. k : j \in Same
    BY <1>1, <1>2, StepByStep
  <2> QED
    BY <2>1
<1> QED
  BY <1>3 DEF Same

LEMMA ValueCollects ==
  ASSUME NEW s, NEW i \in Nat, NEW k, Trails(s, i, k), k < i, \A j \in 1 .. i : s[j] \in Bytes
  PROVE  ValueOf(s, i) \in Nat /\ \E f : Collects(f, s, i - k, k) /\ ValueOf(s, i) = f[k]
<1>1. PICK start \in Nat : start = i - k /\ start >= 1 /\ k \in Nat /\ start + k = i
  BY DEF Trails
<1>2. s[start] \in Nat /\ \A j \in 1 .. k : s[start + j] \in Nat
  <2>1. start \in 1 .. i /\ \A j \in 1 .. k : start + j \in 1 .. i
    BY <1>1
  <2>2. \A j \in 1 .. i : s[j] \in Nat
    BY DEF Bytes
  <2> QED
    BY <2>1, <2>2
<1>3. PICK g : Collects(g, s, start, k) /\ g \in [0 .. k -> Nat]
  BY <1>1, <1>2, CollectsExists
<1>4. PICK f : Collects(f, s, start, k) /\ ValueOf(s, i) = f[k]
  BY <1>1, <1>3, ValueIs
<1>5. f[k] = g[k] /\ g[k] \in Nat
  <2>1. AlikeFrom(s, s, start, k) /\ k <= k /\ k \in 0 .. k
    BY <1>1 DEF AlikeFrom
  <2>2. f[k] = g[k]
    BY <1>1, <1>3, <1>4, <2>1, CollectsAgree
  <2> QED
    BY <1>3, <2>1, <2>2
<1> QED
  BY <1>1, <1>4, <1>5

(* u begins like s.                                                        *)
LEMMA MeaningStays ==
  ASSUME NEW s, NEW u, NEW i \in Nat, \A j \in 1 .. i : s[j] \in Bytes /\ u[j] = s[j], i >= 1
  PROVE  /\ RunUpTo(u, i) = RunUpTo(s, i) /\ Announced(u, i) = Announced(s, i)
         /\ Meaning(u, i) = Meaning(s, i)
<1>1. PICK k : Trails(s, i, k) /\ k = RunUpTo(s, i)
  BY RunExists
<1>2. k \in 0 .. i /\ k \in Nat
  BY <1>1 DEF Trails
<1>3. Trails(u, i, k)
  <2>1. \A j \in i - k + 1 .. i : j \in 1 .. i
    BY <1>2
  <2>2. i # k => i - k \in 1 .. i
    BY <1>2
  <2> QED
    BY <1>1, <2>1, <2>2 DEF Trails
<1>4. RunUpTo(u, i) = k
  BY <1>3, RunIs
<1>5. Announced(u, i) = Announced(s, i)
  <2>1. i - k # 0 => i - k \in 1 .. i
    BY <1>2
  <2> QED
    BY <1>1, <1>4, <2>1 DEF Announced
<1>6. k < i => ValueOf(u, i) = ValueOf(s, i)
  <2> SUFFICES ASSUME k < i PROVE ValueOf(u, i) = ValueOf(s, i)
    OBVIOUS
  <2>1. PICK f : Collects(f, s, i - k, k) /\ ValueOf(s, i) = f[k]
    BY <1>1, ValueCollects
  <2>2. PICK g : Collects(g, u, i - k, k) /\ ValueOf(u, i) = g[k]
    BY <1>3, ValueCollects
  <2>3. AlikeFrom(s, u, i - k, k) /\ k <= k
    <3>1. i - k \in 1 .. i /\ \A j \in 1 .. k : (i - k) + j \in 1 .. i
      BY <1>2
    <3> QED
      BY <1>2, <3>1 DEF AlikeFrom
  <2>4. f[k] = g[k]
    BY <1>2, <2>1, <2>2, <2>3, CollectsAgree
  <2> QED
    BY <2>1, <2>2, <2>4
<1>7. k + 1 = Announced(s, i) => k < i
  <2> SUFFICES ASSUME k = i PROVE k + 1 # Announced(s, i)
    BY <1>2
  <2>1. Announced(s, i) = 0
    <3>1. i - RunUpTo(s, i) = 0
      <4>1. RunUpTo(s, i) = i
        BY <1>1
      <4> QED
        BY <4>1
    <3> QED
      BY <3>1 DEF Announced
  <2> QED
    BY <1>2, <2>1
<1>8. u[i] = s[i]
  OBVIOUS
<1> QED
  BY <1>1, <1>4, <1>5, <1>6, <1>7, <1>8 DEF Meaning

-----------------------------------------------------------------------------
(* The decoder is in the middle of a sequence exactly if the text is, and  *)
(* then holds what the sequence is worth so far.                           *)
DecoderAt(d, s) ==
  LET n == Len(s)
      k == RunUpTo(s, n)
  IN  /\ d \in [codepoint : Nat, expected : Nat, received : Nat]
      /\ IF k + 1 < Announced(s, n)
         THEN d.received = k + 1 /\ d.expected = Announced(s, n) /\ d.codepoint = ValueOf(s, n)
         ELSE d.received = 0

LEMMA LeadIs == ASSUME NEW b \in Bytes PROVE LeadOf(b) \in 0 .. 4 /\ (b < 128 \/ IsContinuation(b) \/ b >= 248 => LeadOf(b) = 0)
BY DEF LeadOf, IsContinuation, Bytes

LEMMA DecodeIs ==
  ASSUME NEW s \in Seq(Bytes), NEW b \in Bytes, NEW d, DecoderAt(d, s)
  PROVE  LET u == Append(s, b)
             m == Meaning(u, Len(s) + 1)
         IN  /\ Decode(d, b).out = m
             /\ DecoderAt(Decode(d, b).dec, u)
             /\ m = << >> \/ \E cp \in Nat : m = <<cp>>
<1>1. PICK n \in Nat, i \in Nat, u \in Seq(Bytes) :
        /\ n = Len(s) /\ i = n + 1 /\ u = Append(s, b) /\ Len(u) = i /\ u[i] = b
        /\ \A j \in 1 .. n : u[j] = s[j] /\ s[j] \in Bytes
  <2>0. PICK u \in Seq(Bytes), n \in Nat : u = Append(s, b) /\ n = Len(s)
    <3>1. Append(s, b) \in Seq(Bytes)
      BY AppendProperties
    <3>2. Len(s) \in Nat
      BY LenProperties
    <3> QED
      BY <3>1, <3>2
  <2>1. /\ Append(s, b) \in Seq(Bytes) /\ Len(Append(s, b)) = Len(s) + 1
        /\ \A j \in 1 .. Len(s) : Append(s, b)[j] = s[j]
        /\ Append(s, b)[Len(s) + 1] = b
    BY AppendProperties
  <2>2. Len(s) \in Nat /\ \A j \in 1 .. Len(s) : s[j] \in Bytes
    OBVIOUS
  <2>3. /\ Len(u) = n + 1 /\ u[n + 1] = b /\ n + 1 \in Nat
        /\ \A j \in 1 .. n : u[j] = s[j] /\ s[j] \in Bytes
    BY <2>0, <2>1, <2>2
  <2> QED
    BY <2>0, <2>3
<1>2. PICK m : m = Meaning(u, i)
  OBVIOUS
<1>3. PICK g : g = Decode(d, b)
  OBVIOUS
<1>4. PICK k \in Nat, A \in Nat :
        /\ Trails(s, n, k) /\ k = RunUpTo(s, n) /\ A = Announced(s, n) /\ k <= n
        /\ A = IF n = k THEN 0 ELSE LeadOf(s[n - k])
  <2>1. PICK k : Trails(s, n, k) /\ k = RunUpTo(s, n)
    BY RunExists
  <2>2. k \in 0 .. n
    BY <2>1 DEF Trails
  <2>3. Announced(s, n) = IF n = k THEN 0 ELSE LeadOf(s[n - k])
    BY <2>1, <2>2 DEF Announced
  <2>4. n # k => n - k \in 1 .. n
    BY <2>2
  <2>5. Announced(s, n) \in Nat
    BY <1>1, <2>3, <2>4, LeadIs
  <2> QED
    BY <2>1, <2>2, <2>3, <2>5
<1>5. /\ d \in [codepoint : Nat, expected : Nat, received : Nat]
      /\ k + 1 < A => d.received = k + 1 /\ d.expected = A /\ d.codepoint = ValueOf(s, n)
      /\ ~(k + 1 < A) => d.received = 0
  BY <1>1, <1>4 DEF DecoderAt
<1>6. b \in Nat /\ b < 256
  BY DEF Bytes
<1>7. SUFFICES /\ g.out = m /\ DecoderAt(g.dec, u)
               /\ m = << >> \/ \E cp \in Nat : m = <<cp>>
  BY <1>1, <1>2, <1>3
(* A byte that is no continuation stands alone.                            *)
<1>8. CASE ~IsContinuation(b)
  <2>1. Trails(u, i, 0)
    BY <1>1, <1>8 DEF Trails
  <2>2. RunUpTo(u, i) = 0 /\ Announced(u, i) = LeadOf(b)
    <3>1. RunUpTo(u, i) = 0
      BY <2>1, RunIs
    <3>2. i - 0 # 0 /\ i - 0 = i
      BY <1>1
    <3> QED
      BY <1>1, <3>1, <3>2 DEF Announced
  <2>3. CASE LeadOf(b) > 0
    <3>1. ~(b < 128) /\ LeadOf(b) \in 2 .. 4
      BY <1>6, <2>3 DEF LeadOf
    <3>2. m = << >>
      BY <1>1, <1>2, <1>8, <2>3, <3>1 DEF Meaning
    <3>3. g = Waiting([codepoint |-> LeadBits(b), expected |-> LeadOf(b), received |-> 1])
      BY <1>3, <2>3, <3>1 DEF Decode
    <3>4. PICK e : e = [codepoint |-> LeadBits(b), expected |-> LeadOf(b), received |-> 1]
      OBVIOUS
    <3>5. g.out = << >> /\ g.dec = e
      BY <3>3, <3>4 DEF Waiting
    <3>6. ValueOf(u, i) = LeadBits(b)
      <4>1. 0 < i /\ i - 0 = i /\ \A j \in 1 .. i : u[j] \in Bytes
        BY <1>1
      <4>2. PICK f : Collects(f, u, i, 0) /\ ValueOf(u, i) = f[0]
        BY <2>1, <4>1, ValueCollects
      <4> QED
        BY <1>1, <4>2 DEF Collects
    <3>7. DecoderAt(e, u)
      <4>1. LeadBits(b) \in Nat /\ LeadOf(b) \in Nat /\ 0 + 1 < LeadOf(b) /\ 0 + 1 = 1
        <5>1. LeadBits(b) \in Nat
          BY <1>6, LeadBitsType
        <5> QED
          BY <3>1, <5>1
      <4> QED
        BY <1>1, <2>2, <3>4, <3>6, <4>1 DEF DecoderAt
    <3> QED
      BY <3>2, <3>5, <3>7
  <2>4. CASE LeadOf(b) = 0
    <3>1. PICK cp \in Nat : cp = IF b < 128 THEN b ELSE Replacement
      BY <1>6 DEF Replacement
    <3>2. m = <<cp>>
      BY <1>1, <1>2, <1>8, <2>4, <3>1 DEF Meaning
    <3>3. g = Complete(d, cp)
      BY <1>3, <1>8, <2>4, <3>1 DEF Decode
    <3>4. PICK e : e = [d EXCEPT !.expected = 0, !.received = 0]
      OBVIOUS
    <3>5. g.out = <<cp>> /\ g.dec = e
      BY <3>3, <3>4 DEF Complete
    <3>6. e \in [codepoint : Nat, expected : Nat, received : Nat] /\ e.received = 0
      BY <1>5, <3>4
    <3>7. DecoderAt(e, u)
      BY <1>1, <2>2, <2>4, <3>6 DEF DecoderAt
    <3> QED
      BY <3>2, <3>5, <3>7
  <2> QED
    BY <2>3, <2>4, LeadIs
(* A continuation goes on with what was begun, or is alone as well.        *)
<1>9. CASE IsContinuation(b)
  <2>1. b \in 128 .. 191 /\ ~(b < 128) /\ LeadOf(b) = 0 /\ ~(LeadOf(b) > 0)
    BY <1>9, LeadIs DEF IsContinuation
  <2>2. Trails(u, i, k + 1)
    <3>1. k + 1 \in 0 .. i /\ i - (k + 1) = n - k /\ (n = k => i = k + 1)
      BY <1>1, <1>4
    <3>2. \A j \in i - (k + 1) + 1 .. i : j = i \/ (j \in n - k + 1 .. n /\ j \in 1 .. n)
      <4>1. i = n + 1 /\ i - (k + 1) + 1 = n - k + 1 /\ n - k + 1 >= 1
        BY <1>1, <1>4
      <4> QED
        BY <4>1
    <3>3. n # k => n - k \in 1 .. n
      BY <1>4
    <3> QED
      BY <1>1, <1>4, <1>9, <3>1, <3>2, <3>3 DEF Trails
  <2>3. RunUpTo(u, i) = k + 1 /\ Announced(u, i) = A
    <3>1. RunUpTo(u, i) = k + 1
      BY <2>2, RunIs
    <3>2. i - (k + 1) = n - k /\ (n - k = 0 <=> n = k) /\ (n # k => n - k \in 1 .. n)
      BY <1>1, <1>4
    <3> QED
      BY <1>1, <1>4, <3>1, <3>2 DEF Announced
  <2>4. CASE ~(k + 1 < A)
    <3>1. m = <<Replacement>> /\ Replacement \in Nat
      BY <1>1, <1>2, <1>4, <2>1, <2>3, <2>4 DEF Meaning, Replacement
    <3>2. g = Complete(d, Replacement)
      BY <1>3, <1>5, <2>1, <2>4 DEF Decode
    <3>3. PICK e : e = [d EXCEPT !.expected = 0, !.received = 0]
      OBVIOUS
    <3>4. g.out = <<Replacement>> /\ g.dec = e
      BY <3>2, <3>3 DEF Complete
    <3>5. e \in [codepoint : Nat, expected : Nat, received : Nat] /\ e.received = 0
      BY <1>5, <3>3
    <3>6. DecoderAt(e, u)
      <4>1. ~((k + 1) + 1 < A)
        BY <1>4, <2>4
      <4> QED
        BY <1>1, <2>3, <3>5, <4>1 DEF DecoderAt
    <3> QED
      BY <3>1, <3>4, <3>6
  <2>5. CASE k + 1 < A
    <3>1. d.received = k + 1 /\ d.expected = A /\ d.codepoint = ValueOf(s, n) /\ k < n
      BY <1>4, <1>5, <2>5
    <3>2. PICK c \in Nat : c = 64 * d.codepoint + (b % 64)
      <4>1. PICK r \in Nat : r = b % 64
        BY <1>6
      <4>2. d.codepoint \in Nat
        BY <1>5
      <4> QED
        BY <4>1, <4>2
    <3>3. ValueOf(u, i) = c
      <4>1. PICK f : Collects(f, s, n - k, k) /\ ValueOf(s, n) = f[k]
        BY <1>1, <1>4, <3>1, ValueCollects
      <4>2. /\ k + 1 < i /\ i - (k + 1) = n - k /\ \A j \in 1 .. i : u[j] \in Bytes
            /\ k + 1 \in Nat
        BY <1>1, <3>1
      <4>3. PICK h : Collects(h, u, n - k, k + 1) /\ ValueOf(u, i) = h[k + 1]
        BY <2>2, <4>2, ValueCollects, SMTT(30)
      <4>4. n - k \in 1 .. n /\ \A j \in 1 .. k : (n - k) + j \in 1 .. n
        BY <1>4, <3>1
      <4>5. AlikeFrom(s, u, n - k, k) /\ k <= k
        BY <1>1, <4>4 DEF AlikeFrom
      <4>6. PICK h0 : h0 = [j \in 0 .. k |-> h[j]]
        OBVIOUS
      <4>7. f[k] = h0[k]
        <5>1. ASSUME NEW j \in 0 .. k
              PROVE  h0[j] = IF j = 0 THEN LeadBits(u[n - k]) ELSE 64 * h0[j - 1] + (u[(n - k) + j] % 64)
          <6>1. j \in 0 .. k + 1 /\ (j # 0 => j - 1 \in 0 .. k)
            OBVIOUS
          <6>2. h[j] = IF j = 0 THEN LeadBits(u[n - k]) ELSE 64 * h[j - 1] + (u[(n - k) + j] % 64)
            BY <4>3, <6>1 DEF Collects
          <6> QED
            BY <4>6, <6>1, <6>2
        <5>2. Collects(h0, u, n - k, k)
          <6>1. PICK z : z = [j \in 0 .. k |-> IF j = 0 THEN LeadBits(u[n - k])
                                               ELSE 64 * h0[j - 1] + (u[(n - k) + j] % 64)]
            OBVIOUS
          <6>2. \A j \in 0 .. k : h0[j] = z[j]
            BY <5>1, <6>1
          <6>3. h0 = z
            BY <4>6, <6>1, <6>2
          <6> QED
            BY <6>1, <6>3 DEF Collects
        <5> QED
          BY <4>1, <4>5, <5>2, CollectsAgree
      <4>8. h[k + 1] = 64 * h[k] + (u[i] % 64)
        <5>1. k + 1 \in 0 .. k + 1 /\ k + 1 # 0 /\ (k + 1) - 1 = k /\ (n - k) + (k + 1) = i
          BY <1>1, <1>4, SMTT(30)
        <5>2. h[k + 1] = 64 * h[(k + 1) - 1] + (u[(n - k) + (k + 1)] % 64)
          BY <4>3, <5>1 DEF Collects
        <5> QED
          BY <5>1, <5>2
      <4>9. k \in 0 .. k
        OBVIOUS
      <4> QED
        BY <1>1, <3>1, <3>2, <4>1, <4>3, <4>6, <4>7, <4>8, <4>9
    <3>4. PICK e : e = [d EXCEPT !.codepoint = 64 * @ + (b % 64), !.received = @ + 1]
      OBVIOUS
    <3>5. e = [codepoint |-> c, expected |-> A, received |-> k + 2]
      <4>1. PICK x, y, z : d = [codepoint |-> x, expected |-> y, received |-> z]
        BY <1>5
      <4>2. PICK a : a = [d EXCEPT !.codepoint = c]
        OBVIOUS
      <4>3. a = [codepoint |-> c, expected |-> y, received |-> z]
        BY <4>1, <4>2
      <4>4. e = [a EXCEPT !.received = z + 1]
        BY <3>2, <3>4, <4>1, <4>2
      <4>5. y = A /\ z = k + 1 /\ (k + 1) + 1 = k + 2
        BY <3>1, <4>1
      <4> QED
        BY <4>3, <4>4, <4>5
    <3>6. g = IF e.received = e.expected THEN Complete(e, e.codepoint) ELSE Waiting(e)
      <4>1. d.received > 0 /\ d.received < d.expected
        BY <2>5, <3>1
      <4> QED
        BY <1>3, <1>9, <2>1, <3>4, <4>1 DEF Decode
    <3>7. CASE k + 2 = A
      <4>1. g = Complete(e, c)
        BY <3>5, <3>6, <3>7
      <4>2. PICK o : o = [codepoint |-> c, expected |-> 0, received |-> 0]
        OBVIOUS
      <4>3. g.out = <<c>> /\ g.dec = o
        BY <3>5, <4>1, <4>2 DEF Complete
      <4>4. m = <<c>>
        <5>1. RunUpTo(u, i) + 1 = Announced(u, i) /\ ~(RunUpTo(u, i) + 1 < Announced(u, i))
          BY <2>3, <3>7
        <5> QED
          BY <1>1, <1>2, <1>9, <2>1, <3>3, <5>1 DEF Meaning
      <4>5. DecoderAt(o, u)
        <5>1. ~((k + 1) + 1 < A)
          BY <3>7
        <5>2. o \in [codepoint : Nat, expected : Nat, received : Nat] /\ o.received = 0
          BY <4>2
        <5> QED
          BY <1>1, <2>3, <5>1, <5>2 DEF DecoderAt
      <4> QED
        BY <4>3, <4>4, <4>5
    <3>8. CASE k + 2 # A
      <4>1. g = Waiting(e)
        BY <3>5, <3>6, <3>8
      <4>2. g.out = << >> /\ g.dec = e
        BY <4>1 DEF Waiting
      <4>3. (k + 1) + 1 < A /\ (k + 1) + 1 = k + 2
        BY <2>5, <3>8
      <4>4. m = << >>
        <5>1. RunUpTo(u, i) + 1 < Announced(u, i) /\ RunUpTo(u, i) + 1 # Announced(u, i)
          BY <2>3, <3>8, <4>3
        <5> QED
          BY <1>1, <1>2, <1>9, <2>1, <5>1 DEF Meaning
      <4>5. DecoderAt(e, u)
        <5>1. e \in [codepoint : Nat, expected : Nat, received : Nat]
          BY <3>5
        <5>2. e.received = (k + 1) + 1 /\ e.expected = A /\ e.codepoint = ValueOf(u, i)
          BY <3>3, <3>5, <4>3
        <5> QED
          BY <1>1, <2>3, <4>3, <5>1, <5>2 DEF DecoderAt
      <4> QED
        BY <4>2, <4>4, <4>5
    <3> QED
      BY <3>7, <3>8
  <2> QED
    BY <2>4, <2>5
<1> QED
  BY <1>8, <1>9

-----------------------------------------------------------------------------
(* The characters of a text, one byte after the other.                     *)
Flattens(f, ms) == f = [i \in 1 .. Len(ms) |-> IF i = 1 THEN ms[i] ELSE f[i - 1] \o ms[i]]

LEMMA FlattenIs ==
  ASSUME NEW ms, Len(ms) # 0
  PROVE  FlattenSeq(ms) = (CHOOSE f : Flattens(f, ms))[Len(ms)]
BY DEF FlattenSeq, Flattens

(* Its first n values.                                                     *)
FlattensTo(f, ms, n) ==
  /\ f \in [1 .. n -> Seq(Nat)]
  /\ \A i \in 1 .. n : f[i] = IF i = 1 THEN ms[i] ELSE Glued(f[i - 1], ms[i])

LEMMA FlattensToExists ==
  ASSUME NEW ms \in Seq(Seq(Nat)), NEW n \in Nat, n = Len(ms)
  PROVE  \E f : FlattensTo(f, ms, n)
<1> DEFINE G == {m \in 0 .. n : \E f : FlattensTo(f, ms, m)}
<1> HIDE DEF G
<1>1. 0 \in G
  <2>1. PICK f : f = [i \in 1 .. 0 |-> << >>]
    OBVIOUS
  <2>2. FlattensTo(f, ms, 0)
    BY <2>1 DEF FlattensTo
  <2> QED
    BY <2>2 DEF G
<1>2. ASSUME NEW m \in 1 .. n, m - 1 \in G PROVE m \in G
  <2>1. PICK f : FlattensTo(f, ms, m - 1)
    BY <1>2 DEF G
  <2>2. PICK e \in Seq(Nat) : e = ms[m]
    BY ElementOfSeq
  <2>3. PICK w \in Seq(Nat) : w = IF m = 1 THEN e ELSE Glued(f[m - 1], e)
    <3>1. m # 1 => f[m - 1] \in Seq(Nat)
      BY <2>1 DEF FlattensTo
    <3>2. m # 1 => Glued(f[m - 1], e) \in Seq(Nat)
      BY <3>1 DEF Glued
    <3> QED
      BY <3>2
  <2>4. PICK g : g = [i \in 1 .. m |-> IF i = m THEN w ELSE f[i]]
    OBVIOUS
  <2>5. \A i \in 1 .. m : i # m => i \in 1 .. m - 1 /\ f[i] \in Seq(Nat)
    BY <2>1 DEF FlattensTo
  <2>6. g \in [1 .. m -> Seq(Nat)]
    BY <2>3, <2>4, <2>5
  <2>7. ASSUME NEW i \in 1 .. m
        PROVE  g[i] = IF i = 1 THEN ms[i] ELSE Glued(g[i - 1], ms[i])
    <3>1. i # 1 => i - 1 \in 1 .. m /\ i - 1 # m
      OBVIOUS
    <3>2. CASE i = m
      <4>1. g[i] = w /\ (i # 1 => g[i - 1] = f[m - 1])
        BY <2>4, <3>1, <3>2
      <4> QED
        BY <2>2, <2>3, <3>2, <4>1
    <3>3. CASE i # m
      <4>1. g[i] = f[i] /\ (i # 1 => g[i - 1] = f[i - 1])
        BY <2>4, <3>1, <3>3
      <4>2. f[i] = IF i = 1 THEN ms[i] ELSE Glued(f[i - 1], ms[i])
        BY <2>1, <2>5, <3>3 DEF FlattensTo
      <4> QED
        BY <4>1, <4>2
    <3> QED
      BY <3>2, <3>3
  <2>8. FlattensTo(g, ms, m)
    BY <2>6, <2>7 DEF FlattensTo
  <2> QED
    BY <2>8 DEF G
<1>3. n \in G
  <2>1. \A m \in 0 .. n : m \in G
    BY <1>1, <1>2, StepByStep
  <2> QED
    BY <2>1
<1> QED
  BY <1>3 DEF G

LEMMA FlattenRuns ==
  ASSUME NEW ms \in Seq(Seq(Nat)), NEW n \in Nat, n = Len(ms), n # 0
  PROVE  \E f : FlattensTo(f, ms, n) /\ FlattenSeq(ms) = f[n]
<1>1. PICK g : FlattensTo(g, ms, n)
  BY FlattensToExists
<1>2. Flattens(g, ms)
  <2>1. PICK z : z = [i \in 1 .. n |-> IF i = 1 THEN ms[i] ELSE g[i - 1] \o ms[i]]
    OBVIOUS
  <2>2. \A i \in 1 .. n : g[i] = z[i]
    BY <1>1, <2>1 DEF FlattensTo, Glued
  <2>3. g = z
    BY <1>1, <2>1, <2>2 DEF FlattensTo
  <2> QED
    BY <2>1, <2>3 DEF Flattens
<1>3. PICK f : Flattens(f, ms) /\ FlattenSeq(ms) = f[n]
  BY <1>2, FlattenIs
<1>4. \A i \in 1 .. n : f[i] = IF i = 1 THEN ms[i] ELSE Glued(f[i - 1], ms[i])
  BY <1>3 DEF Flattens, Glued
<1> DEFINE Same == {i \in 0 .. n : i = 0 \/ f[i] = g[i]}
<1> HIDE DEF Same
<1>5. 0 \in Same
  BY DEF Same
<1>6. ASSUME NEW i \in 1 .. n, i - 1 \in Same PROVE i \in Same
  <2>1. i = 1 \/ f[i - 1] = g[i - 1]
    BY <1>6 DEF Same
  <2>2. g[i] = IF i = 1 THEN ms[i] ELSE Glued(g[i - 1], ms[i])
    BY <1>1 DEF FlattensTo
  <2> QED
    BY <1>4, <2>1, <2>2 DEF Same
<1>7. n \in Same /\ n \in 1 .. n
  <2>1. \A i \in 0 .. n : i \in Same
    BY <1>5, <1>6, StepByStep
  <2> QED
    BY <2>1
<1>8. f[n] = g[n]
  BY <1>7 DEF Same
<1> QED
  BY <1>1, <1>3, <1>8

LEMMA FlattenGrows ==
  ASSUME NEW ms \in Seq(Seq(Nat)), NEW m \in Seq(Nat)
  PROVE  FlattenSeq(ms) \in Seq(Nat) /\ FlattenSeq(Append(ms, m)) = FlattenSeq(ms) \o m
<1>1. PICK n \in Nat, w \in Seq(Seq(Nat)) :
        /\ n = Len(ms) /\ w = Append(ms, m) /\ Len(w) = n + 1 /\ w[n + 1] = m
        /\ \A k \in 1 .. n : w[k] = ms[k]
  <2>1. /\ Append(ms, m) \in Seq(Seq(Nat)) /\ Len(Append(ms, m)) = Len(ms) + 1
        /\ \A k \in 1 .. Len(ms) : Append(ms, m)[k] = ms[k]
        /\ Append(ms, m)[Len(ms) + 1] = m
    BY AppendProperties
  <2>2. Len(ms) \in Nat
    BY LenProperties
  <2> QED
    BY <2>1, <2>2
<1>2. PICK l \in Nat : l = n + 1 /\ l = Len(w) /\ l # 0 /\ l \in 1 .. l
  BY <1>1
<1>3. PICK g : FlattensTo(g, w, l) /\ FlattenSeq(w) = g[l]
  BY <1>2, FlattenRuns
<1>4. g[l] = IF l = 1 THEN m ELSE Glued(g[l - 1], m)
  <2>1. \A k \in 1 .. l : g[k] = IF k = 1 THEN w[k] ELSE Glued(g[k - 1], w[k])
    BY <1>3 DEF FlattensTo
  <2>2. g[l] = IF l = 1 THEN w[l] ELSE Glued(g[l - 1], w[l])
    BY <1>2, <2>1
  <2> QED
    BY <1>1, <1>2, <2>2
<1>5. CASE n = 0
  <2>1. ms = << >>
    BY <1>1, <1>5, EmptySeq
  <2>2. FlattenSeq(ms) = << >>
    BY <2>1 DEF FlattenSeq
  <2>3. << >> \o m = m
    OBVIOUS
  <2>4. l = 1
    BY <1>2, <1>5
  <2> QED
    BY <1>1, <1>3, <1>4, <2>2, <2>3, <2>4
<1>6. CASE n # 0
  <2>1. PICK f : FlattensTo(f, ms, n) /\ FlattenSeq(ms) = f[n]
    BY <1>1, <1>6, FlattenRuns
  <2> DEFINE Same == {i \in 0 .. n : i = 0 \/ f[i] = g[i]}
  <2> HIDE DEF Same
  <2>2. 0 \in Same
    BY DEF Same
  <2>3. ASSUME NEW i \in 1 .. n, i - 1 \in Same PROVE i \in Same
    <3>1. i = 1 \/ f[i - 1] = g[i - 1]
      BY <2>3 DEF Same
    <3>2. f[i] = IF i = 1 THEN ms[i] ELSE Glued(f[i - 1], ms[i])
      BY <2>1 DEF FlattensTo
    <3>3. i \in 1 .. l /\ w[i] = ms[i]
      BY <1>1, <1>2
    <3>4. g[i] = IF i = 1 THEN ms[i] ELSE Glued(g[i - 1], ms[i])
      BY <1>3, <3>3 DEF FlattensTo
    <3> QED
      BY <3>1, <3>2, <3>4 DEF Same
  <2>4. n \in Same /\ n \in 1 .. n
    <3>1. \A i \in 0 .. n : i \in Same
      BY <2>2, <2>3, StepByStep
    <3> QED
      BY <1>6, <3>1
  <2>5. f[n] = g[n] /\ f[n] \in Seq(Nat)
    BY <1>6, <2>1, <2>4 DEF Same, FlattensTo
  <2>6. l # 1 /\ l - 1 = n
    BY <1>2, <1>6
  <2> QED
    BY <1>1, <1>3, <1>4, <2>1, <2>5, <2>6 DEF Glued
<1> QED
  BY <1>5, <1>6

Meanings(s) == [i \in 1 .. Len(s) |-> Meaning(s, i)]

LEMMA MeaningsGrow ==
  ASSUME NEW s \in Seq(Bytes), NEW b \in Bytes, Meanings(s) \in Seq(Seq(Nat)),
         Meaning(Append(s, b), Len(s) + 1) \in Seq(Nat)
  PROVE  /\ Meanings(Append(s, b)) = Append(Meanings(s), Meaning(Append(s, b), Len(s) + 1))
         /\ Meanings(Append(s, b)) \in Seq(Seq(Nat))
<1>1. PICK n \in Nat, u \in Seq(Bytes) :
        /\ n = Len(s) /\ u = Append(s, b) /\ Len(u) = n + 1
        /\ \A j \in 1 .. n : u[j] = s[j] /\ s[j] \in Bytes
  <2>1. /\ Append(s, b) \in Seq(Bytes) /\ Len(Append(s, b)) = Len(s) + 1
        /\ \A j \in 1 .. Len(s) : Append(s, b)[j] = s[j]
    BY AppendProperties
  <2>2. Len(s) \in Nat /\ \A j \in 1 .. Len(s) : s[j] \in Bytes
    BY LenProperties, ElementOfSeq
  <2> QED
    BY <2>1, <2>2
<1>2. PICK m \in Seq(Nat) : m = Meaning(u, n + 1)
  BY <1>1
<1>3. PICK x \in Seq(Seq(Nat)) : x = Meanings(s)
  OBVIOUS
<1>4. Len(x) = n /\ \A i \in 1 .. n : x[i] = Meaning(s, i)
  BY <1>1, <1>3 DEF Meanings
<1>5. PICK y \in Seq(Seq(Nat)) : /\ y = Append(x, m) /\ Len(y) = n + 1 /\ y[n + 1] = m
                                 /\ \A i \in 1 .. n : y[i] = x[i]
  <2>1. /\ Append(x, m) \in Seq(Seq(Nat)) /\ Len(Append(x, m)) = Len(x) + 1
        /\ \A k \in 1 .. Len(x) : Append(x, m)[k] = x[k]
        /\ Append(x, m)[Len(x) + 1] = m
    BY AppendProperties
  <2> QED
    BY <1>4, <2>1
<1>6. PICK z : z = Meanings(u)
  OBVIOUS
<1>7. ASSUME NEW i \in 1 .. n + 1 PROVE y[i] = Meaning(u, i)
  <2>1. CASE i = n + 1
    BY <1>2, <1>5, <2>1
  <2>2. CASE i # n + 1
    <3>1. i \in 1 .. n /\ i \in Nat /\ i >= 1 /\ \A j \in 1 .. i : j \in 1 .. n
      BY <2>2
    <3>2. \A j \in 1 .. i : s[j] \in Bytes /\ u[j] = s[j]
      BY <1>1, <3>1
    <3>3. Meaning(u, i) = Meaning(s, i)
      BY <3>1, <3>2, MeaningStays
    <3> QED
      BY <1>4, <1>5, <3>1, <3>3
  <2> QED
    BY <2>1, <2>2
<1>8. z = [i \in 1 .. n + 1 |-> Meaning(u, i)]
  BY <1>1, <1>6 DEF Meanings
<1>9. z \in Seq(Seq(Nat)) /\ Len(z) = n + 1
  <2>1. \A i \in 1 .. n + 1 : y[i] \in Seq(Nat)
    BY <1>5, ElementOfSeq
  <2>2. \A i \in 1 .. n + 1 : Meaning(u, i) \in Seq(Nat)
    BY <1>7, <2>1
  <2>3. z \in [1 .. n + 1 -> Seq(Nat)]
    BY <1>8, <2>2
  <2> QED
    BY <2>3
<1>10. y = z
  <2>1. \A i \in 1 .. n + 1 : y[i] = z[i]
    BY <1>7, <1>8
  <2> QED
    BY <1>5, <1>9, <2>1, SeqEqual
<1> QED
  BY <1>1, <1>2, <1>3, <1>5, <1>6, <1>10

-----------------------------------------------------------------------------
(* One byte more.                                                          *)
LEMMA PageIsLaid == ASSUME NEW d, NEW s PROVE PageOf(d, s) = Laid(d, Codes(d, s))
BY DEF PageOf, Laid

LEMMA LinkedGrows ==
  ASSUME NEW s \in Seq(Bytes), NEW b \in Bytes
  PROVE  /\ PageOf("linked", s) \in Pages
         /\ PageOf("linked", Append(s, b)) = Typeset("linked", PageOf("linked", s), b)
<1>1. Codes("linked", s) = s /\ Codes("linked", Append(s, b)) = Append(s, b)
  BY DEF Codes
<1>2. b \in Nat /\ Bytes \subseteq Nat
  BY DEF Bytes
<1>3. s \in Seq(Nat)
  BY <1>2, SeqMonotonic
<1>4. "linked" \in Drivers
  BY DEF Drivers
<1> QED
  BY <1>1, <1>2, <1>3, <1>4, LaidGrows, PageIsLaid

LEMMA Utf8Grows ==
  ASSUME NEW s \in Seq(Bytes), NEW b \in Bytes, Meanings(s) \in Seq(Seq(Nat)),
         NEW m, m = Meaning(Append(s, b), Len(s) + 1)
  PROVE  /\ PageOf("utf8", s) \in Pages
         /\ m = << >> => /\ Meanings(Append(s, b)) \in Seq(Seq(Nat))
                         /\ PageOf("utf8", Append(s, b)) = PageOf("utf8", s)
         /\ \A cp \in Nat :
              m = <<cp>> => /\ Meanings(Append(s, b)) \in Seq(Seq(Nat))
                            /\ PageOf("utf8", Append(s, b)) = Typeset("utf8", PageOf("utf8", s), cp)
<1>1. \A u : Codes("utf8", u) = FlattenSeq(Meanings(u))
  BY DEF Codes, Meanings
<1>2. PICK w : w = Codes("utf8", s)
  OBVIOUS
<1>3. << >> \in Seq(Nat) /\ 0 \in Nat /\ "utf8" \in Drivers
  BY DEF Drivers
<1>4. w \in Seq(Nat)
  BY <1>1, <1>2, <1>3, FlattenGrows
<1>5. m \in Seq(Nat) => /\ Meanings(Append(s, b)) \in Seq(Seq(Nat))
                        /\ Codes("utf8", Append(s, b)) = w \o m
  <2> SUFFICES ASSUME m \in Seq(Nat)
               PROVE  /\ Meanings(Append(s, b)) \in Seq(Seq(Nat))
                      /\ Codes("utf8", Append(s, b)) = w \o m
    OBVIOUS
  <2>1. /\ Meanings(Append(s, b)) = Append(Meanings(s), m)
        /\ Meanings(Append(s, b)) \in Seq(Seq(Nat))
    BY MeaningsGrow
  <2>2. FlattenSeq(Append(Meanings(s), m)) = FlattenSeq(Meanings(s)) \o m
    BY FlattenGrows
  <2> QED
    BY <1>1, <1>2, <2>1, <2>2
<1>6. Laid("utf8", w) \in Pages
  BY <1>3, <1>4, LaidGrows
<1>7. m = << >> => /\ Meanings(Append(s, b)) \in Seq(Seq(Nat))
                   /\ PageOf("utf8", Append(s, b)) = PageOf("utf8", s)
  <2>1. w \o << >> = w
    BY <1>4
  <2> QED
    BY <1>2, <1>3, <1>5, <2>1, PageIsLaid
<1>8. ASSUME NEW cp \in Nat, m = <<cp>>
      PROVE  /\ Meanings(Append(s, b)) \in Seq(Seq(Nat))
             /\ PageOf("utf8", Append(s, b)) = Typeset("utf8", PageOf("utf8", s), cp)
  <2>1. <<cp>> \in Seq(Nat)
    OBVIOUS
  <2>2. w \o <<cp>> = Append(w, cp)
    BY <1>4
  <2>3. Laid("utf8", Append(w, cp)) = Typeset("utf8", Laid("utf8", w), cp)
    BY <1>3, <1>4, LaidGrows
  <2> QED
    BY <1>2, <1>5, <1>8, <2>1, <2>2, <2>3, PageIsLaid
<1> QED
  BY <1>2, <1>6, <1>7, <1>8, PageIsLaid

GridInv ==
  /\ driver \in Drivers /\ text \in Seq(Bytes)
  /\ Page \in Pages /\ Showing(grid, Page)
  /\ driver = "utf8" => DecoderAt(dec, text) /\ Meanings(text) \in Seq(Seq(Nat))

LEMMA GridStarts == Init => GridInv
<1> SUFFICES ASSUME Init PROVE GridInv
  OBVIOUS
<1>1. driver \in Drivers /\ text = << >> /\ grid = Cleared /\ dec = Fresh
  BY DEF Init, Drivers
<1>2. Meanings(<< >>) = << >> /\ << >> \in Seq(Seq(Nat)) /\ << >> \in Seq(Bytes) /\ Len(<< >>) = 0
  BY DEF Meanings
<1>3. Codes(driver, << >>) = << >>
  <2>1. FlattenSeq(<< >>) = << >>
    BY DEF FlattenSeq
  <2> QED
    BY <1>2, <2>1 DEF Codes, Meanings
<1>4. Page = BlankPage
  <2>1. PageOf(driver, << >>) = BlankPage
    BY <1>1, <1>3, LaidEmpty, PageIsLaid
  <2> QED
    BY <1>1, <2>1 DEF Page
<1>5. Showing(Cleared, BlankPage)
  <2>1. BlankPage.above = << >> /\ BlankPage.row = << >> /\ BlankPage.col = 0 /\ Len(<< >>) = 0
    BY DEF BlankPage
  <2>2. Gone(BlankPage) = 0
    BY <2>1, TtyAssumption DEF Gone
  <2>3. Cleared \in Grids /\ Cleared.cx = 0 /\ Cleared.cy = 0
    BY ConsoleAssumption DEF Cleared, Grids
  <2>4. ASSUME NEW r \in 1 .. TtyRows, NEW c \in 1 .. TtyCols
        PROVE  Cleared.cells[<<r, c>>] = At(RowOf(BlankPage, Gone(BlankPage) + r), c)
    <3>1. RowOf(BlankPage, Gone(BlankPage) + r) = << >>
      BY <2>1, <2>2 DEF RowOf
    <3>2. At(<< >>, c) = Space
      BY <2>1 DEF At
    <3>3. Cleared.cells[<<r, c>>] = Space
      BY DEF Cleared, Cells
    <3> QED
      BY <3>1, <3>2, <3>3
  <2> QED
    BY <2>1, <2>2, <2>3, <2>4 DEF Showing
<1>6. DecoderAt(Fresh, << >>)
  <2>1. PICK k : Trails(<< >>, 0, k) /\ k = RunUpTo(<< >>, 0)
    BY RunExists
  <2>2. k = 0
    BY <2>1 DEF Trails
  <2>3. Announced(<< >>, 0) = 0
    BY <2>1, <2>2 DEF Announced
  <2> QED
    BY <1>2, <2>1, <2>2, <2>3 DEF DecoderAt, Fresh
<1> QED
  BY <1>1, <1>2, <1>4, <1>5, <1>6, BlankIsPage DEF GridInv

LEMMA GridStays == GridInv /\ [Next]_vars => GridInv'
<1> SUFFICES ASSUME GridInv, [Next]_vars PROVE GridInv'
  OBVIOUS
<1>1. CASE UNCHANGED vars
  BY <1>1 DEF vars, GridInv, Page
<1>2. CASE Next
  <2>1. PICK b \in Printed[driver] : (PutByte(b) \/ PutChar(b)) /\ text' = Append(text, b)
    BY <1>2 DEF Next
  <2>2. b \in Bytes /\ b \in Nat
    <3>1. b \in Bytes
      BY <2>1, ConsoleAssumption DEF GridInv, Drivers
    <3> QED
      BY <3>1 DEF Bytes
  <2>3. driver' = driver /\ text' \in Seq(Bytes)
    BY <2>1, <2>2 DEF PutByte, PutChar, GridInv
  <2>4. Page \in Pages /\ Showing(grid, Page) /\ Page = PageOf(driver, text)
        /\ Page' = PageOf(driver, Append(text, b))
    BY <2>1, <2>3 DEF GridInv, Page
  <2>5. CASE PutChar(b)
    <3>1. driver = "linked" /\ driver' = "linked" /\ "linked" # "utf8" /\ grid' = LinkedPut(grid, b)
      BY <2>3, <2>5 DEF PutChar, LinkedPut
    <3>2. Page' = Typeset("linked", Page, b)
      BY <2>2, <2>4, <3>1, LinkedGrows DEF GridInv
    <3>3. Page' \in Pages /\ Showing(grid', Page')
      BY <2>2, <2>4, <3>1, <3>2, LinkedShows
    <3> QED
      BY <2>3, <3>1, <3>3 DEF GridInv, Drivers
  <2>6. CASE PutByte(b)
    <3>1. PICK m, u : m = Meaning(Append(text, b), Len(text) + 1) /\ u = Append(text, b)
      OBVIOUS
    <3>2. /\ driver = "utf8" /\ driver' = "utf8" /\ dec' = Decode(dec, b).dec
          /\ grid' = ShowAll(grid, Decode(dec, b).out)
      BY <2>3, <2>6 DEF PutByte, ShowAll
    <3>3. text \in Seq(Bytes) /\ DecoderAt(dec, text) /\ Meanings(text) \in Seq(Seq(Nat))
      BY <3>2 DEF GridInv
    <3>4. /\ Decode(dec, b).out = m /\ DecoderAt(dec', u)
          /\ m = << >> \/ \E cp \in Nat : m = <<cp>>
      BY <2>2, <3>1, <3>2, <3>3, DecodeIs
    <3>5. text' = u
      BY <2>1, <3>1
    <3>6. CASE m = << >>
      <4>1. Meanings(u) \in Seq(Seq(Nat)) /\ PageOf("utf8", u) = PageOf("utf8", text)
        BY <2>2, <3>1, <3>3, <3>6, Utf8Grows
      <4>2. grid' = grid
        BY <3>2, <3>4, <3>6, ShowNone
      <4>3. Page' = Page
        BY <2>4, <3>1, <3>2, <4>1
      <4>4. Page' \in Pages /\ Showing(grid', Page')
        BY <2>4, <4>2, <4>3
      <4> QED
        BY <2>3, <3>2, <3>4, <3>5, <4>1, <4>4 DEF GridInv, Drivers
    <3>7. CASE \E cp \in Nat : m = <<cp>>
      <4>1. PICK cp \in Nat : m = <<cp>>
        BY <3>7
      <4>2. Meanings(u) \in Seq(Seq(Nat)) /\ PageOf("utf8", u) = Typeset("utf8", PageOf("utf8", text), cp)
        BY <2>2, <3>1, <3>3, <4>1, Utf8Grows
      <4>3. grid' = Show(grid, cp)
        BY <3>2, <3>4, <4>1, ShowOne
      <4>4. Page' = Typeset("utf8", Page, cp)
        BY <2>4, <3>1, <3>2, <4>2
      <4>5. Page' \in Pages /\ Showing(grid', Page')
        BY <2>4, <4>3, <4>4, ShowShows
      <4> QED
        BY <2>3, <3>2, <3>4, <3>5, <4>2, <4>5 DEF GridInv, Drivers
    <3> QED
      BY <3>4, <3>6, <3>7
  <2> QED
    BY <2>1, <2>5, <2>6
<1> QED
  BY <1>1, <1>2

LEMMA ShowsRows == ASSUME Page \in Pages, Showing(grid, Page) PROVE ShowsTheLastRows
<1>1. PICK p \in Pages : p = Page
  OBVIOUS
<1>2. PICK a \in Nat : a = Len(p.above) /\ p.above \in Seq(Rows) /\ p.row \in Rows
  BY PageIs
<1>3. PICK rows \in Seq(Rows) :
        /\ rows = Append(p.above, p.row) /\ Len(rows) = a + 1 /\ rows[a + 1] = p.row
        /\ \A k \in 1 .. a : rows[k] = p.above[k]
  <2>1. /\ Append(p.above, p.row) \in Seq(Rows) /\ Len(Append(p.above, p.row)) = Len(p.above) + 1
        /\ \A k \in 1 .. Len(p.above) : Append(p.above, p.row)[k] = p.above[k]
        /\ Append(p.above, p.row)[Len(p.above) + 1] = p.row
    BY <1>2, AppendProperties
  <2> QED
    BY <1>2, <2>1
<1>4. PICK first \in Nat : first = Gone(p) /\ first <= a
  BY <1>2, PageIs
<1>5. Max({0, Len(rows) - TtyRows}) = first
  <2>1. PICK x \in Int : x = Len(rows) - TtyRows /\ x = a + 1 - TtyRows
    BY <1>3, TtyAssumption
  <2>2. first = IF 0 < x THEN x ELSE 0
    BY <1>2, <1>4, <2>1, TtyAssumption DEF Gone
  <2>3. Max({0, x}) = IF 0 < x THEN x ELSE 0
    BY LargerIs
  <2> QED
    BY <2>1, <2>2, <2>3
<1>6. \A r \in 1 .. TtyRows :
        RowOf(p, first + r) = IF first + r <= Len(rows) THEN rows[first + r] ELSE << >>
  <2> SUFFICES ASSUME NEW r \in 1 .. TtyRows
               PROVE  RowOf(p, first + r) = IF first + r <= Len(rows) THEN rows[first + r] ELSE << >>
    OBVIOUS
  <2>1. PICK k \in Nat : k = first + r /\ k >= 1
    BY <1>4
  <2>2. CASE k <= a
    BY <1>2, <1>3, <2>1, <2>2 DEF RowOf
  <2>3. CASE k = a + 1
    BY <1>2, <1>3, <2>1, <2>3 DEF RowOf
  <2>4. CASE k > a + 1
    BY <1>2, <1>3, <2>1, <2>4 DEF RowOf
  <2> QED
    BY <2>1, <2>2, <2>3, <2>4
<1> DEFINE row(r) == IF first + r <= Len(rows) THEN rows[first + r] ELSE << >>
<1>7. ASSUME NEW rc \in Cells
      PROVE  grid.cells[rc] = IF rc[2] <= Len(row(rc[1])) THEN row(rc[1])[rc[2]] ELSE Space
  <2>1. PICK r \in 1 .. TtyRows, c \in 1 .. TtyCols : rc = <<r, c>> /\ rc[1] = r /\ rc[2] = c
    BY DEF Cells
  <2>2. grid.cells[<<r, c>>] = At(RowOf(p, first + r), c)
    BY <1>1, <1>4 DEF Showing
  <2>3. RowOf(p, first + r) = row(r)
    BY <1>6
  <2> QED
    BY <2>1, <2>2, <2>3 DEF At
<1>8. grid.cx = p.col /\ grid.cy = Len(rows) - first - 1
  <2>1. grid.cx = p.col /\ grid.cy = a - first
    BY <1>1, <1>2, <1>4 DEF Showing
  <2> QED
    BY <1>3, <1>4, <2>1
<1> QED
  BY <1>1, <1>3, <1>5, <1>7, <1>8 DEF ShowsTheLastRows

(* With both drivers, for every grid, every distance of tab stops and every*)
(* text, malformed UTF-8 included, the grid shows the last rows of what was*)
(* printed and nothing else, with the cursor where the text ended.         *)
THEOREM LastRowsAreShown == Spec => []ShowsTheLastRows
<1>1. GridInv => ShowsTheLastRows
  BY ShowsRows DEF GridInv
<1> QED
  BY <1>1, GridStarts, GridStays, PTL DEF Spec

-----------------------------------------------------------------------------
(* The command line.                                                       *)

Chars == Glyphs \cup {NL, BS}

Screens == [cells : [Cells -> Glyphs \cup {Space}], cx : 0 .. TtyCols, cy : 0 .. TtyRows - 1]

Tidy ==
  {t \in Screens : \A rc \in Cells :
     rc[1] > t.cy + 1 \/ (rc[1] = t.cy + 1 /\ rc[2] > t.cx) => t.cells[rc] = Space}

(* The row of the cursor, as far as the cursor.                            *)
Shows(t, s) ==
  /\ t.cx = Len(s)
  /\ \A c \in 1 .. Len(s) : t.cells[<<t.cy + 1, c>>] = s[c]

-----------------------------------------------------------------------------
(* Single characters.                                                      *)
LEMMA ScreenIs ==
  ASSUME NEW t \in Screens
  PROVE  /\ t = [cells |-> t.cells, cx |-> t.cx, cy |-> t.cy]
         /\ t.cells \in [Cells -> Glyphs \cup {Space}]
         /\ t.cx \in 0 .. TtyCols /\ t.cy \in 0 .. TtyRows - 1
BY DEF Screens

(* A row that was begun below the grid scrolls in.                         *)
LEMMA ScrollKeepsTidy ==
  ASSUME NEW x \in [Cells -> Glyphs \cup {Space}], NEW cx \in 0 .. TtyCols, NEW cy \in 0 .. TtyRows,
         \A rc \in Cells : rc[1] > cy + 1 \/ (rc[1] = cy + 1 /\ rc[2] > cx) => x[rc] = Space,
         NEW u, u = ScrollIfBelow([cells |-> x, cx |-> cx, cy |-> cy])
  PROVE  u \in Tidy /\ u.cx = cx
<1> DEFINE t == [cells |-> x, cx |-> cx, cy |-> cy]
<1>1. CASE cy < TtyRows
  <2>1. u = t
    BY <1>1, TtyAssumption DEF ScrollIfBelow
  <2>2. t \in Screens
    BY <1>1, TtyAssumption DEF Screens
  <2> QED
    BY <2>1, <2>2 DEF Tidy
<1>2. CASE cy = TtyRows
  <2> DEFINE y == [rc \in Cells |-> IF rc[1] = TtyRows THEN Space ELSE x[<<rc[1] + 1, rc[2]>>]]
  <2>1. u = [cells |-> y, cx |-> cx, cy |-> TtyRows - 1]
    <3>1. u = Scrolled(t)
      BY <1>2, TtyAssumption DEF ScrollIfBelow
    <3>2. Scrolled(t) = [t EXCEPT !.cells = y, !.cy = TtyRows - 1]
      BY DEF Scrolled
    <3> HIDE DEF y
    <3> QED
      BY <3>1, <3>2
  <2>2. y \in [Cells -> Glyphs \cup {Space}]
    <3>1. ASSUME NEW rc \in Cells, rc[1] # TtyRows PROVE <<rc[1] + 1, rc[2]>> \in Cells
      BY <3>1, TtyAssumption DEF Cells
    <3> QED
      BY <3>1
  <2>3. u \in Screens
    <3>1. TtyRows - 1 \in 0 .. TtyRows - 1
      BY TtyAssumption
    <3> HIDE DEF y
    <3> QED
      BY <2>1, <2>2, <3>1 DEF Screens
  <2>4. ASSUME NEW rc \in Cells, rc[1] > TtyRows - 1 + 1 \/ (rc[1] = TtyRows - 1 + 1 /\ rc[2] > cx)
        PROVE  y[rc] = Space
    <3>1. rc[1] = TtyRows
      BY <2>4, TtyAssumption DEF Cells
    <3> QED
      BY <3>1
  <2> HIDE DEF y
  <2> QED
    BY <2>1, <2>3, <2>4 DEF Tidy
<1> QED
  BY <1>1, <1>2, TtyAssumption

LEMMA NewlineIsTidy ==
  ASSUME NEW t \in Tidy
  PROVE  Newline(t) \in Tidy /\ Newline(t).cx = 0
<1>1. /\ t.cells \in [Cells -> Glyphs \cup {Space}]
      /\ t.cx \in 0 .. TtyCols /\ t.cy \in 0 .. TtyRows - 1
  BY DEF Tidy, Screens
<1>2. PICK x : x = [rc \in Cells |-> IF rc[1] = t.cy + 1 /\ rc[2] > t.cx THEN Space ELSE t.cells[rc]]
  OBVIOUS
<1>3. x \in [Cells -> Glyphs \cup {Space}]
  BY <1>1, <1>2
<1>4. PICK cy \in 0 .. TtyRows : cy = t.cy + 1
  BY <1>1, TtyAssumption
<1>5. ASSUME NEW rc \in Cells, rc[1] > cy + 1 \/ (rc[1] = cy + 1 /\ rc[2] > 0)
      PROVE  x[rc] = Space
  <2>1. rc[1] > t.cy + 1
    BY <1>1, <1>4, <1>5 DEF Cells
  <2>2. t.cells[rc] = Space
    BY <2>1 DEF Tidy
  <2> QED
    BY <1>2, <2>2
<1>6. Newline(t) = ScrollIfBelow([cells |-> x, cx |-> 0, cy |-> cy])
  BY <1>2, <1>4 DEF Newline
<1>7. 0 \in 0 .. TtyCols
  BY TtyAssumption
<1> QED
  BY <1>3, <1>5, <1>6, <1>7, ScrollKeepsTidy

LEMMA BackIs ==
  ASSUME NEW t \in Tidy
  PROVE  /\ Back(t) \in Tidy
         /\ \A s : s # <<>> /\ s \in Seq(Chars) /\ Shows(t, s) => Shows(Back(t), Front(s))
<1>1. /\ t = [cells |-> t.cells, cx |-> t.cx, cy |-> t.cy]
      /\ t.cells \in [Cells -> Glyphs \cup {Space}]
      /\ t.cx \in 0 .. TtyCols /\ t.cy \in 0 .. TtyRows - 1
  BY DEF Tidy, Screens
<1>2. CASE t.cx = 0
  <2>1. Back(t) = t
    BY <1>2 DEF Back
  <2>2. \A s \in Seq(Chars) : Shows(t, s) => s = <<>>
    BY <1>2, EmptySeq DEF Shows
  <2> QED
    BY <2>1, <2>2
<1>3. CASE t.cx # 0
  <2>1. PICK x : x = [t.cells EXCEPT ![<<t.cy + 1, t.cx>>] = Space]
    OBVIOUS
  <2>2. Back(t) = [cells |-> x, cx |-> t.cx - 1, cy |-> t.cy]
    BY <1>1, <1>3, <2>1 DEF Back
  <2>3. x \in [Cells -> Glyphs \cup {Space}]
    BY <1>1, <2>1
  <2>4. <<t.cy + 1, t.cx>> \in Cells
    BY <1>1, <1>3, TtyAssumption DEF Cells
  <2>5. ASSUME NEW rc \in Cells, rc[1] > t.cy + 1 \/ (rc[1] = t.cy + 1 /\ rc[2] > t.cx - 1)
        PROVE  x[rc] = Space
    <3>1. CASE rc = <<t.cy + 1, t.cx>>
      BY <1>1, <2>1, <2>4, <3>1
    <3>2. CASE rc # <<t.cy + 1, t.cx>>
      <4>1. rc[1] > t.cy + 1 \/ (rc[1] = t.cy + 1 /\ rc[2] > t.cx)
        BY <1>1, <2>5, <3>2 DEF Cells
      <4>2. t.cells[rc] = Space
        BY <4>1 DEF Tidy
      <4> QED
        BY <1>1, <2>1, <3>2, <4>2
    <3> QED
      BY <3>1, <3>2
  <2>6. Back(t) \in Screens
    <3>1. t.cx - 1 \in 0 .. TtyCols
      BY <1>1, <1>3, TtyAssumption
    <3> QED
      BY <1>1, <2>2, <2>3, <3>1 DEF Screens
  <2>7. Back(t) \in Tidy
    BY <2>2, <2>5, <2>6 DEF Tidy
  <2>8. ASSUME NEW s, s # <<>>, s \in Seq(Chars), Shows(t, s)
        PROVE  Shows(Back(t), Front(s))
    <3>1. Len(Front(s)) = Len(s) - 1 /\ \A c \in 1 .. Len(s) - 1 : Front(s)[c] = s[c]
      <4>1. Len(s) \in Nat \ {0} /\ \A c \in 1 .. Len(s) - 1 : s[c] \in Chars
        BY <2>8, EmptySeq, ElementOfSeq
      <4>2. /\ Len(SubSeq(s, 1, Len(s) - 1)) = IF 1 <= Len(s) - 1 THEN Len(s) - 1 - 1 + 1 ELSE 0
            /\ \A c \in 1 .. Len(s) - 1 - 1 + 1 : SubSeq(s, 1, Len(s) - 1)[c] = s[1 + c - 1]
        BY <4>1, SubSeqProperties
      <4>3. \A c \in 1 .. Len(s) - 1 : c \in 1 .. Len(s) - 1 - 1 + 1 /\ 1 + c - 1 = c
        BY <4>1
      <4>4. Len(Front(s)) = Len(s) - 1
        <5>1. PICK m \in Nat \ {0} : m = Len(s)
          BY <4>1
        <5>2. (IF 1 <= m - 1 THEN m - 1 - 1 + 1 ELSE 0) = m - 1
          OBVIOUS
        <5> QED
          BY <4>2, <5>1, <5>2 DEF Front
      <4> QED
        BY <4>2, <4>3, <4>4 DEF Front
    <3>2. ASSUME NEW c \in 1 .. Len(s) - 1 PROVE x[<<t.cy + 1, c>>] = s[c]
      <4>1. t.cells[<<t.cy + 1, c>>] = s[c] /\ t.cx = Len(s) /\ Len(s) \in Nat
        BY <2>8 DEF Shows
      <4>2. <<t.cy + 1, c>> \in Cells /\ <<t.cy + 1, c>> # <<t.cy + 1, t.cx>>
        BY <1>1, <4>1, TtyAssumption DEF Cells
      <4> QED
        BY <1>1, <2>1, <4>1, <4>2
    <3>3. t.cx = Len(s)
      BY <2>8 DEF Shows
    <3> QED
      BY <2>2, <3>1, <3>2, <3>3 DEF Shows
  <2> QED
    BY <2>7, <2>8
<1> QED
  BY <1>2, <1>3

LEMMA DrawIs ==
  ASSUME NEW t \in Tidy, NEW ch \in Glyphs
  PROVE  /\ Draw(t, ch) \in Tidy
         /\ \A s : s \in Seq(Chars) /\ Shows(t, s) /\ Len(s) < TtyCols
                => Shows(Draw(t, ch), Append(s, ch))
<1>1. /\ t = [cells |-> t.cells, cx |-> t.cx, cy |-> t.cy]
      /\ t.cells \in [Cells -> Glyphs \cup {Space}]
      /\ t.cx \in 0 .. TtyCols /\ t.cy \in 0 .. TtyRows - 1
  BY DEF Tidy, Screens
<1>2. PICK u : u = ScrollIfBelow(IF t.cx >= TtyCols THEN [t EXCEPT !.cx = 0, !.cy = @ + 1] ELSE t)
  OBVIOUS
<1>3. u \in Tidy /\ u.cx < TtyCols /\ (t.cx < TtyCols => u = t)
  <2>1. CASE t.cx >= TtyCols
    <3>1. PICK cy \in 0 .. TtyRows : cy = t.cy + 1
      BY <1>1, TtyAssumption
    <3>2. u = ScrollIfBelow([cells |-> t.cells, cx |-> 0, cy |-> cy])
      <4>1. u = ScrollIfBelow([t EXCEPT !.cx = 0, !.cy = @ + 1])
        BY <1>2, <2>1
      <4>2. [t EXCEPT !.cx = 0, !.cy = @ + 1] = [cells |-> t.cells, cx |-> 0, cy |-> cy]
        <5>1. PICK x, a, b : t = [cells |-> x, cx |-> a, cy |-> b]
          BY <1>1
        <5>2. t.cy = b /\ t.cells = x
          BY <5>1
        <5>3. PICK z : z = [t EXCEPT !.cx = 0]
          OBVIOUS
        <5>4. [t EXCEPT !.cx = 0, !.cy = @ + 1] = [z EXCEPT !.cy = b + 1]
          BY <5>2, <5>3
        <5>5. z = [cells |-> x, cx |-> 0, cy |-> b]
          BY <5>1, <5>3
        <5>6. [z EXCEPT !.cy = b + 1] = [cells |-> x, cx |-> 0, cy |-> b + 1]
          BY <5>5
        <5> QED
          BY <3>1, <5>2, <5>4, <5>6
      <4> QED
        BY <4>1, <4>2
    <3>3. \A rc \in Cells : rc[1] > cy + 1 \/ (rc[1] = cy + 1 /\ rc[2] > 0) => t.cells[rc] = Space
      <4>1. \A rc \in Cells : rc[1] > cy + 1 \/ rc[1] = cy + 1 => rc[1] > t.cy + 1
        BY <1>1, <3>1 DEF Cells
      <4> QED
        BY <4>1 DEF Tidy
    <3>4. 0 \in 0 .. TtyCols /\ TtyCols > 0
      BY TtyAssumption
    <3>5. u \in Tidy /\ u.cx = 0
      BY <1>1, <3>2, <3>3, <3>4, ScrollKeepsTidy
    <3> QED
      BY <1>1, <2>1, <3>4, <3>5, TtyAssumption
  <2>2. CASE t.cx < TtyCols
    <3>1. u = ScrollIfBelow(t)
      BY <1>1, <1>2, <2>2, TtyAssumption
    <3>2. u = t
      BY <1>1, <3>1, TtyAssumption DEF ScrollIfBelow
    <3> QED
      BY <2>2, <3>2
  <2> QED
    BY <1>1, <2>1, <2>2, TtyAssumption
<1>4. /\ u = [cells |-> u.cells, cx |-> u.cx, cy |-> u.cy]
      /\ u.cells \in [Cells -> Glyphs \cup {Space}]
      /\ u.cx \in 0 .. TtyCols /\ u.cy \in 0 .. TtyRows - 1
  BY <1>3 DEF Tidy, Screens
<1>5. PICK x : x = [u.cells EXCEPT ![<<u.cy + 1, u.cx + 1>>] = ch]
  OBVIOUS
<1>6. Draw(t, ch) = [cells |-> x, cx |-> u.cx + 1, cy |-> u.cy]
  <2>1. Draw(t, ch) = [u EXCEPT !.cells[Here(u)] = ch, !.cx = @ + 1]
    BY <1>2 DEF Draw
  <2> QED
    BY <1>4, <1>5, <2>1 DEF Here
<1>7. x \in [Cells -> Glyphs \cup {Space}] /\ <<u.cy + 1, u.cx + 1>> \in Cells
  <2>1. <<u.cy + 1, u.cx + 1>> \in Cells
    BY <1>3, <1>4, TtyAssumption DEF Cells
  <2> QED
    BY <1>4, <1>5, <2>1
<1>8. ASSUME NEW rc \in Cells, rc[1] > u.cy + 1 \/ (rc[1] = u.cy + 1 /\ rc[2] > u.cx + 1)
      PROVE  x[rc] = Space
  <2>1. rc # <<u.cy + 1, u.cx + 1>>
    BY <1>4, <1>8
  <2>2. rc[1] > u.cy + 1 \/ (rc[1] = u.cy + 1 /\ rc[2] > u.cx)
    BY <1>4, <1>8 DEF Cells
  <2>3. u.cells[rc] = Space
    BY <1>3, <2>2 DEF Tidy
  <2> QED
    BY <1>4, <1>5, <2>1, <2>3
<1>9. Draw(t, ch) \in Tidy
  <2>1. u.cx + 1 \in 0 .. TtyCols
    BY <1>3, <1>4, TtyAssumption
  <2>2. Draw(t, ch) \in Screens
    BY <1>4, <1>6, <1>7, <2>1 DEF Screens
  <2> QED
    BY <1>6, <1>8, <2>2 DEF Tidy
<1>10. ASSUME NEW s, s \in Seq(Chars), Shows(t, s), Len(s) < TtyCols
       PROVE  Shows(Draw(t, ch), Append(s, ch))
  <2>1. u = t /\ u.cx = Len(s) /\ Len(s) \in Nat
    BY <1>3, <1>10 DEF Shows
  <2>2. Len(Append(s, ch)) = Len(s) + 1
    BY <1>10
  <2>3. ASSUME NEW c \in 1 .. Len(s) + 1 PROVE x[<<u.cy + 1, c>>] = Append(s, ch)[c]
    <3>1. CASE c = Len(s) + 1
      <4>1. Append(s, ch)[c] = ch
        BY <1>10, <3>1
      <4> QED
        BY <1>4, <1>5, <1>7, <2>1, <3>1, <4>1
    <3>2. CASE c # Len(s) + 1
      <4>1. c \in 1 .. Len(s) /\ Append(s, ch)[c] = s[c]
        BY <1>10, <2>1, <3>2
      <4>2. u.cells[<<u.cy + 1, c>>] = s[c]
        BY <1>10, <2>1, <4>1 DEF Shows
      <4>3. <<u.cy + 1, c>> # <<u.cy + 1, u.cx + 1>> /\ <<u.cy + 1, c>> \in Cells
        BY <1>3, <1>4, <2>1, <3>2, <4>1, TtyAssumption DEF Cells
      <4> QED
        BY <1>4, <1>5, <4>1, <4>2, <4>3
    <3> QED
      BY <3>1, <3>2
  <2> QED
    BY <1>6, <2>1, <2>2, <2>3 DEF Shows
<1> QED
  BY <1>9, <1>10

LEMMA PutcharIsTidy ==
  ASSUME NEW t \in Tidy, NEW ch \in Chars
  PROVE  Putchar(t, ch) \in Tidy
BY NewlineIsTidy, BackIs, DrawIs DEF Putchar, Chars

Printing(f, t, chars) ==
  f = [s \in SUBSET DOMAIN chars |-> IF s = {} THEN t ELSE Putchar(f[s \ {Max(s)}], chars[Max(s)])]

LEMMA PrintIsFold ==
  ASSUME NEW t, NEW chars
  PROVE  PrintText(t, chars) = (CHOOSE f : Printing(f, t, chars))[DOMAIN chars]
BY DEF PrintText, FoldLeft, MapThenFoldSet, Printing

(* A chars is printed character by character.                               *)
LEMMA PrintRuns ==
  ASSUME NEW t \in Tidy, NEW chars \in Seq(Chars)
  PROVE  \E P \in [0 .. Len(chars) -> Tidy] :
           /\ P[0] = t
           /\ \A k \in 1 .. Len(chars) : P[k] = Putchar(P[k - 1], chars[k])
           /\ PrintText(t, chars) = P[Len(chars)]
<1>1. PICK n \in Nat : n = Len(chars) /\ DOMAIN chars = 1 .. n
  BY LenProperties
<1>2. PICK F : F = [p \in Tidy \X (1 .. n) |-> Putchar(p[1], chars[p[2]])]
  OBVIOUS
<1>3. F \in [Tidy \X (1 .. n) -> Tidy]
  <2>1. \A x \in Tidy, i \in 1 .. n : Putchar(x, chars[i]) \in Tidy
    BY <1>1, PutcharIsTidy, ElementOfSeq
  <2> QED
    BY <1>2, <2>1
<1>4. PICK g : IsFold(g, n, t, F, Tidy)
  BY <1>3, FoldExists
<1>5. Printing(g, t, chars)
  <2>1. ASSUME NEW s \in SUBSET (1 .. n), s # {}
        PROVE  g[s] = Putchar(g[s \ {Max(s)}], chars[Max(s)])
    <3>1. Max(s) \in 1 .. n
      BY <2>1, LargestExists
    <3>2. g[s \ {Max(s)}] \in Tidy
      BY <1>4 DEF IsFold
    <3> QED
      BY <1>2, <1>4, <2>1, <3>1, <3>2 DEF IsFold
  <2>2. g \in [SUBSET (1 .. n) -> Tidy] /\ g[{}] = t
    BY <1>4 DEF IsFold
  <2> QED
    BY <1>1, <2>1, <2>2 DEF Printing
<1>6. PICK h : Printing(h, t, chars) /\ PrintText(t, chars) = h[1 .. n]
  BY <1>1, <1>5, PrintIsFold
<1>7. ASSUME NEW s \in SUBSET (1 .. n), s # {}, h[s \ {Max(s)}] \in Tidy
      PROVE  h[s] = F[<<h[s \ {Max(s)}], Max(s)>>]
  <2>1. Max(s) \in 1 .. n
    BY <1>7, LargestExists
  <2>2. h[s] = Putchar(h[s \ {Max(s)}], chars[Max(s)])
    BY <1>1, <1>6, <1>7 DEF Printing
  <2> QED
    BY <1>2, <1>7, <2>1, <2>2
<1>8. GoesOn(h, n, t, F, Tidy)
  BY <1>1, <1>6, <1>7 DEF GoesOn, Printing
<1>9. PICK P : IsRun(P, n, t, h[1 .. n], F, Tidy)
  BY <1>3, <1>8, FoldRuns
<1>10. ASSUME NEW k \in 1 .. n PROVE P[k] = Putchar(P[k - 1], chars[k])
  <2>1. k - 1 \in 0 .. n
    OBVIOUS
  <2>2. P[k - 1] \in Tidy /\ P[k] = F[<<P[k - 1], k>>]
    BY <1>9, <2>1 DEF IsRun
  <2> QED
    BY <1>2, <2>2
<1>11. P \in [0 .. n -> Tidy] /\ P[0] = t /\ P[n] = h[1 .. n]
  BY <1>9 DEF IsRun
<1> QED
  BY <1>1, <1>6, <1>10, <1>11

-----------------------------------------------------------------------------
(* Texts.                                                                  *)
Plain == Seq(Glyphs \ {NL, BS})

(* What fits into the row stands behind what stood there.                  *)
LEMMA PrintsPlain ==
  ASSUME NEW t \in Tidy, NEW s \in Seq(Chars), NEW chars \in Plain,
         Shows(t, s), Len(s) + Len(chars) <= TtyCols
  PROVE  PrintText(t, chars) \in Tidy /\ Shows(PrintText(t, chars), s \o chars)
<1>1. chars \in Seq(Chars)
  <2>1. Glyphs \ {NL, BS} \subseteq Chars
    BY DEF Chars
  <2> QED
    BY <2>1, SeqMonotonic DEF Plain
<1>2. PICK P \in [0 .. Len(chars) -> Tidy] :
        /\ P[0] = t
        /\ \A k \in 1 .. Len(chars) : P[k] = Putchar(P[k - 1], chars[k])
        /\ PrintText(t, chars) = P[Len(chars)]
  BY <1>1, PrintRuns
<1>3. PICK n \in Nat, m \in Nat : n = Len(chars) /\ m = Len(s)
  BY LenProperties
<1>4. PICK w : w = s \o chars
  OBVIOUS
<1>5. w \in Seq(Chars) /\ Len(w) = m + n /\ \A k \in 1 .. n : w[m + k] = chars[k]
  <2>1. /\ w \in Seq(Chars) /\ Len(w) = m + n
        /\ \A i \in 1 .. m + n : w[i] = IF i <= m THEN s[i] ELSE chars[i - m]
    BY <1>1, <1>3, <1>4, ConcatProperties
  <2>2. \A k \in 1 .. n : m + k \in 1 .. m + n /\ ~(m + k <= m) /\ m + k - m = k
    OBVIOUS
  <2> QED
    BY <2>1, <2>2
<1> DEFINE G == {k \in 0 .. n : Shows(P[k], SubSeq(w, 1, m + k))}
<1> HIDE DEF G
<1>6. 0 \in G
  <2>1. SubSeq(w, 1, m) = s
    BY <1>1, <1>3, <1>4, Beginning
  <2>2. m + 0 = m /\ 0 \in 0 .. n
    OBVIOUS
  <2>3. Shows(P[0], SubSeq(w, 1, m + 0))
    BY <1>2, <2>1, <2>2
  <2> QED
    BY <2>2, <2>3 DEF G
<1>7. ASSUME NEW k \in 1 .. n, k - 1 \in G PROVE k \in G
  <2>1. m + k \in 1 .. Len(w) /\ m + (k - 1) = m + k - 1 /\ k - 1 \in 0 .. n /\ m + k - 1 < TtyCols
    BY <1>3, <1>5, TtyAssumption
  <2>2. PICK j \in 1 .. Len(w) : j = m + k
    BY <2>1
  <2>3. /\ SubSeq(w, 1, j - 1) \in Seq(Chars) /\ Len(SubSeq(w, 1, j - 1)) = j - 1
        /\ Append(SubSeq(w, 1, j - 1), w[j]) = SubSeq(w, 1, j)
    BY <1>5, PrefixGrows
  <2>4. Shows(P[k - 1], SubSeq(w, 1, j - 1))
    BY <1>7, <2>1, <2>2 DEF G
  <2>5. chars[k] \in Glyphs \ {NL, BS} /\ w[j] = chars[k]
    BY <1>3, <1>5, <2>2, ElementOfSeq DEF Plain
  <2>6. P[k] = Draw(P[k - 1], chars[k]) /\ P[k - 1] \in Tidy
    BY <1>2, <1>3, <2>1, <2>5 DEF Putchar
  <2>7. PICK a : a = SubSeq(w, 1, j - 1) /\ a \in Seq(Chars) /\ Len(a) < TtyCols
    BY <2>1, <2>2, <2>3, SMTT(30)
  <2>8. Shows(P[k], Append(a, chars[k]))
    BY <2>4, <2>5, <2>6, <2>7, DrawIs
  <2>9. Shows(P[k], SubSeq(w, 1, m + k)) /\ k \in 0 .. n
    <3>1. Append(a, chars[k]) = SubSeq(w, 1, j)
      BY <2>3, <2>5, <2>7
    <3>2. k \in 0 .. n
      OBVIOUS
    <3> QED
      BY <2>2, <2>8, <3>1, <3>2
  <2> QED
    BY <2>9 DEF G
<1>8. n \in G
  <2>1. n \in 0 .. n
    OBVIOUS
  <2> QED
    BY <1>6, <1>7, <2>1, StepByStep
<1>9. Shows(P[n], SubSeq(w, 1, m + n))
  BY <1>8 DEF G
<1>10. SubSeq(w, 1, m + n) = w
  BY <1>5, SubSeqFull
<1>11. P[n] \in Tidy
  BY <1>2, <1>3
<1> QED
  BY <1>2, <1>3, <1>4, <1>9, <1>10, <1>11

(* Backspaces take the characters before the cursor away.                  *)
LEMMA RubsOut ==
  ASSUME NEW t \in Tidy, NEW s \in Seq(Chars), NEW n \in 0 .. Len(s), Shows(t, s),
         NEW chars, chars = [i \in 1 .. n |-> BS]
  PROVE  PrintText(t, chars) \in Tidy /\ Shows(PrintText(t, chars), SubSeq(s, 1, Len(s) - n))
<1>1. PICK m \in Nat : m = Len(s) /\ n \in Nat
  BY LenProperties
<1>2. chars \in Seq(Chars) /\ Len(chars) = n /\ \A k \in 1 .. n : chars[k] = BS
  BY <1>1 DEF Chars
<1>3. PICK P \in [0 .. Len(chars) -> Tidy] :
        /\ P[0] = t
        /\ \A k \in 1 .. Len(chars) : P[k] = Putchar(P[k - 1], chars[k])
        /\ PrintText(t, chars) = P[Len(chars)]
  BY <1>2, PrintRuns
<1> DEFINE G == {k \in 0 .. n : Shows(P[k], SubSeq(s, 1, m - k))}
<1> HIDE DEF G
<1>4. 0 \in G
  <2>1. SubSeq(s, 1, m) = s
    BY <1>1, SubSeqFull
  <2>2. m - 0 = m /\ 0 \in 0 .. n
    BY <1>1
  <2>3. Shows(P[0], SubSeq(s, 1, m - 0))
    BY <1>3, <2>1, <2>2
  <2> QED
    BY <2>2, <2>3 DEF G
<1>5. ASSUME NEW k \in 1 .. n, k - 1 \in G PROVE k \in G
  <2>1. n <= m /\ k \in 1 .. n /\ k \in Int
    BY <1>1
  <2>2. m - (k - 1) \in 1 .. m /\ m - (k - 1) - 1 = m - k /\ k - 1 \in 0 .. n /\ k \in 0 .. n
    BY <1>1, <2>1
  <2>3. PICK j \in 1 .. Len(s) : j = m - (k - 1) /\ j - 1 = m - k
    BY <1>1, <2>2
  <2>4. /\ SubSeq(s, 1, j) \in Seq(Chars) /\ Len(SubSeq(s, 1, j)) = j
        /\ Front(SubSeq(s, 1, j)) = SubSeq(s, 1, j - 1)
    BY PrefixGrows
  <2>5. PICK a : a = SubSeq(s, 1, j) /\ a \in Seq(Chars) /\ Len(a) = j
    BY <2>4
  <2>6. a # << >>
    <3>1. j # 0
      OBVIOUS
    <3> QED
      BY <2>5, <3>1, EmptySeq
  <2>7. Shows(P[k - 1], a)
    BY <1>5, <2>3, <2>5 DEF G
  <2>8. P[k] = Back(P[k - 1]) /\ P[k - 1] \in Tidy
    BY <1>2, <1>3, <2>2, TtyAssumption DEF Putchar
  <2>9. Shows(P[k], Front(a))
    BY <2>5, <2>6, <2>7, <2>8, BackIs
  <2>10. Shows(P[k], SubSeq(s, 1, m - k))
    BY <2>3, <2>4, <2>5, <2>9
  <2> QED
    BY <2>2, <2>10 DEF G
<1>6. n \in G
  <2>1. n \in 0 .. n
    BY <1>1
  <2> QED
    BY <1>1, <1>4, <1>5, <2>1, StepByStep
<1>7. Shows(P[n], SubSeq(s, 1, m - n))
  BY <1>6 DEF G
<1> QED
  BY <1>1, <1>2, <1>3, <1>7

(* What a command prints ends at the beginning of a row.                   *)
LEMMA OutputEnds ==
  ASSUME NEW t \in Tidy, t.cx = 0, NEW out \in Seq(Chars), out # << >> => Last(out) = NL
  PROVE  PrintText(t, out) \in Tidy /\ PrintText(t, out).cx = 0
<1>1. PICK n \in Nat : n = Len(out)
  BY LenProperties
<1>2. PICK P \in [0 .. n -> Tidy] :
        /\ P[0] = t
        /\ \A k \in 1 .. n : P[k] = Putchar(P[k - 1], out[k])
        /\ PrintText(t, out) = P[n]
  BY <1>1, PrintRuns
<1>3. CASE n = 0
  BY <1>2, <1>3
<1>4. CASE n # 0
  <2>1. out[n] = NL /\ n \in 1 .. n /\ n - 1 \in 0 .. n
    BY <1>1, <1>4, EmptySeq DEF Last
  <2>2. P[n] = Newline(P[n - 1]) /\ P[n - 1] \in Tidy
    BY <1>2, <2>1 DEF Putchar
  <2> QED
    BY <1>2, <2>2, NewlineIsTidy
<1> QED
  BY <1>3, <1>4

-----------------------------------------------------------------------------
(* The command line.                                                       *)
Lines == {l \in Seq(Typed) : Len(l) <= LineMax}

Typing == tty \in Tidy /\ Shows(tty, Prompt \o line)

Inv ==
  /\ Typing
  /\ line \in Lines
  /\ history \in Seq(Lines)
  /\ hindex \in Int /\ hindex >= -1 /\ hindex <= Len(history)

(* A line fits into the row behind the prompt.                             *)
LEMMA LinesFit ==
  ASSUME ShellConstants
  PROVE  /\ Prompt \in Seq(Chars) /\ Prompt \in Plain /\ Len(Prompt) \in Nat
         /\ \A l \in Lines : /\ l \in Seq(Chars) /\ l \in Plain /\ Len(l) \in Nat /\ Len(l) <= LineMax
                            /\ Len(Prompt) + Len(l) <= TtyCols
         /\ LineMax \in Nat
<1>1. Typed \subseteq Glyphs \ {NL, BS} /\ Glyphs \ {NL, BS} \subseteq Chars /\ Typed \subseteq Chars
  BY DEF ShellConstants, Chars
<1>2. Prompt \in Plain /\ LineMax \in Nat /\ Len(Prompt) + LineMax <= TtyCols
  BY DEF ShellConstants, Plain
<1>3. Prompt \in Seq(Chars) /\ Len(Prompt) \in Nat
  BY <1>1, <1>2, SeqMonotonic, LenProperties DEF Plain
<1>4. ASSUME NEW l \in Lines
      PROVE  /\ l \in Seq(Chars) /\ l \in Plain /\ Len(l) \in Nat /\ Len(l) <= LineMax
             /\ Len(Prompt) + Len(l) <= TtyCols
  <2>1. l \in Seq(Typed) /\ Len(l) <= LineMax
    BY DEF Lines
  <2>2. l \in Seq(Chars) /\ l \in Plain
    BY <1>1, <2>1, SeqMonotonic DEF Plain
  <2>3. Len(l) \in Nat
    BY <2>1, LenProperties
  <2> QED
    BY <1>2, <1>3, <2>1, <2>2, <2>3, TtyAssumption
<1> QED
  BY <1>2, <1>3, <1>4

(* At the beginning of a row the prompt is printed, for an empty line.     *)
LEMMA PromptBegins ==
  ASSUME ShellConstants, NEW t \in Tidy, t.cx = 0
  PROVE  PrintText(t, Prompt) \in Tidy /\ Shows(PrintText(t, Prompt), Prompt \o << >>)
<1>1. << >> \in Seq(Chars) /\ Len(<< >>) = 0
  BY EmptySeq
<1>2. Shows(t, << >>)
  <2>1. 1 .. Len(<< >>) = {}
    BY <1>1
  <2> QED
    BY <1>1, <2>1 DEF Shows
<1>3. Len(<< >>) + Len(Prompt) <= TtyCols
  <2>1. Len(Prompt) \in Nat /\ Len(Prompt) + LineMax <= TtyCols /\ LineMax \in Nat
    BY LinesFit DEF ShellConstants
  <2> QED
    BY <1>1, <2>1, TtyAssumption
<1>4. PrintText(t, Prompt) \in Tidy /\ Shows(PrintText(t, Prompt), << >> \o Prompt)
  BY <1>1, <1>2, <1>3, LinesFit, PrintsPlain
<1>5. << >> \o Prompt = Prompt \o << >>
  BY LinesFit, ConcatEmptySeq
<1> QED
  BY <1>4, <1>5

LEMMA EmptyLine == << >> \in Lines \/ ~ShellConstants
<1>1. << >> \in Seq(Typed) /\ Len(<< >>) = 0
  BY EmptySeq
<1> QED
  BY <1>1 DEF Lines, ShellConstants

LEMMA ClearedIsTidy == Cleared \in Tidy /\ Cleared.cx = 0
<1>1. [rc \in Cells |-> Space] \in [Cells -> Glyphs \cup {Space}]
  OBVIOUS
<1>2. 0 \in 0 .. TtyCols /\ 0 \in 0 .. TtyRows - 1
  BY TtyAssumption
<1>3. Cleared \in Screens
  BY <1>1, <1>2 DEF Cleared, Screens
<1> QED
  BY <1>3 DEF Cleared, Tidy

LEMMA InitInv == ASSUME ShellConstants, ShellInit PROVE Inv
<1>1. tty \in Tidy /\ Shows(tty, Prompt \o << >>)
  BY ClearedIsTidy, PromptBegins DEF ShellInit
<1>2. << >> \in Seq(Lines) /\ Len(<< >>) = 0
  BY EmptySeq
<1> QED
  BY <1>1, <1>2, EmptyLine DEF ShellInit, Inv, Typing

LEMMA TypeCharInv ==
  ASSUME ShellConstants, Inv, NEW ch \in Typed, TypeChar(ch)
  PROVE  Inv'
<1>1. line \in Seq(Typed) /\ Len(line) < LineMax /\ Len(line) \in Nat /\ LineMax \in Nat
  BY LinesFit DEF Inv, Lines, TypeChar
<1>2. line' = Append(line, ch) /\ line' \in Seq(Typed) /\ Len(line') = Len(line) + 1
  BY <1>1 DEF TypeChar
<1>3. line' \in Lines
  BY <1>1, <1>2 DEF Lines
<1>4. ch \in Glyphs /\ ch # NL /\ ch # BS
  BY DEF ShellConstants
<1>5. tty' = Draw(tty, ch)
  BY <1>4 DEF TypeChar, Putchar
<1>6. PICK w : w = Prompt \o line
  OBVIOUS
<1>7. w \in Seq(Chars) /\ Len(w) < TtyCols
  <2>1. Prompt \in Seq(Chars) /\ line \in Seq(Chars) /\ Len(Prompt) \in Nat
    BY LinesFit DEF Inv
  <2>2. Len(w) = Len(Prompt) + Len(line) /\ w \in Seq(Chars)
    BY <1>6, <2>1, ConcatProperties
  <2>3. Len(Prompt) + LineMax <= TtyCols
    BY DEF ShellConstants
  <2> QED
    BY <1>1, <2>1, <2>2, <2>3, TtyAssumption
<1>8. tty' \in Tidy /\ Shows(tty', Append(w, ch))
  BY <1>4, <1>5, <1>6, <1>7, DrawIs DEF Inv, Typing
<1>9. Append(w, ch) = Prompt \o line'
  <2>1. /\ Prompt \in Seq(Chars) /\ line \in Seq(Chars) /\ line' \in Seq(Chars)
        /\ ch \in Chars
    BY <1>3, <1>4, LinesFit DEF Inv, Chars
  <2>2. Longer(Glued(Prompt, line), ch) = Glued(Prompt, Longer(line, ch))
    BY <2>1, AppendBehind
  <2> QED
    BY <1>2, <1>6, <2>2 DEF Longer, Glued
<1> QED
  BY <1>3, <1>8, <1>9 DEF Inv, Typing, TypeChar

LEMMA RuboutInv == ASSUME ShellConstants, Inv, Rubout PROVE Inv'
<1>1. line \in Seq(Typed) /\ line # << >> /\ Len(line) <= LineMax /\ LineMax \in Nat
  BY LinesFit DEF Inv, Lines, Rubout
<1>2. line' \in Seq(Typed) /\ Len(line') = Len(line) - 1 /\ Len(line) \in Nat
  BY <1>1, FrontIs, LenProperties DEF Rubout
<1>3. line' \in Lines
  BY <1>1, <1>2 DEF Lines
<1>4. tty' = Back(tty)
  BY TtyAssumption DEF Rubout, Putchar
<1>5. PICK w : w = Prompt \o line /\ w \in Seq(Chars) /\ w # << >> /\ Front(w) = Prompt \o line'
  <2>1. Prompt \in Seq(Chars) /\ line \in Seq(Chars)
    BY LinesFit DEF Inv
  <2>2. Front(Prompt \o line) = Prompt \o Front(line) /\ Prompt \o line # << >>
    BY <1>1, <2>1, FrontBehind
  <2>3. Prompt \o line \in Seq(Chars)
    BY <2>1, ConcatProperties
  <2> QED
    BY <2>2, <2>3 DEF Rubout
<1>6. tty' \in Tidy /\ Shows(tty', Prompt \o line')
  BY <1>4, <1>5, BackIs DEF Inv, Typing
<1> QED
  BY <1>3, <1>6 DEF Inv, Typing, Rubout

LEMMA EnterEmptyInv == ASSUME ShellConstants, Inv, EnterEmpty PROVE Inv'
<1>1. Newline(tty) \in Tidy /\ Newline(tty).cx = 0
  BY NewlineIsTidy DEF Inv, Typing
<1>2. tty' = PrintText(Newline(tty), Prompt) /\ line' = << >>
  BY DEF EnterEmpty, Putchar
<1>3. tty' \in Tidy /\ Shows(tty', Prompt \o line')
  BY <1>1, <1>2, PromptBegins
<1> QED
  BY <1>2, <1>3, EmptyLine DEF Inv, Typing, EnterEmpty

(* The history stays one of lines, and within its length.                  *)
LEMMA PushedIs ==
  ASSUME NEW h \in Seq(Lines), NEW l \in Lines, HistMax \in Nat \ {0}
  PROVE  /\ Pushed(h, l) \in Seq(Lines)
         /\ Len(h) < HistMax => Pushed(h, l) = Append(h, l)
         /\ ~(Len(h) < HistMax) => Pushed(h, l) = Append(Tail(h), l)
<1>1. CASE Len(h) < HistMax
  BY <1>1 DEF Pushed
<1>2. CASE ~(Len(h) < HistMax)
  <2>1. h # << >>
    BY <1>2, EmptySeq
  <2>2. Tail(h) \in Seq(Lines)
    BY <2>1, HeadTailProperties
  <2>3. Append(Tail(h), l) \in Seq(Lines)
    BY <2>2
  <2> QED
    BY <1>2, <2>3 DEF Pushed
<1> QED
  BY <1>1, <1>2

LEMMA EnterLineInv == ASSUME ShellConstants, Inv, EnterLine PROVE Inv'
<1>1. Newline(tty) \in Tidy /\ Newline(tty).cx = 0
  BY NewlineIsTidy DEF Inv, Typing
<1>2. PICK shown \in {PrintText(Newline(tty), out) : out \in Outputs} \cup {Cleared} :
        tty' = PrintText(shown, Prompt)
  BY DEF EnterLine, Putchar
<1>3. shown \in Tidy /\ shown.cx = 0
  <2>1. CASE shown = Cleared
    BY <2>1, ClearedIsTidy
  <2>2. ASSUME NEW out \in Outputs, shown = PrintText(Newline(tty), out)
        PROVE  shown \in Tidy /\ shown.cx = 0
    <3>1. out \in Seq(Chars) /\ (out # << >> => Last(out) = NL)
      BY DEF ShellConstants, Chars
    <3>2. PICK t : t = Newline(tty)
      OBVIOUS
    <3> QED
      BY <1>1, <2>2, <3>1, <3>2, OutputEnds
  <2> QED
    BY <2>1, <2>2
<1>4. line' = << >> /\ tty' \in Tidy /\ Shows(tty', Prompt \o line')
  BY <1>2, <1>3, PromptBegins DEF EnterLine
<1>5. history' \in Seq(Lines) /\ hindex' = Len(history') /\ Len(history') \in Nat
  <2>1. history' = Pushed(history, line) /\ hindex' = Len(history')
    BY DEF EnterLine
  <2>2. history' \in Seq(Lines)
    BY <2>1, PushedIs DEF Inv, ShellConstants
  <2> QED
    BY <2>1, <2>2, LenProperties
<1> QED
  BY <1>4, <1>5, EmptyLine DEF Inv, Typing

(* The old line is rubbed out and the other stands in its place.           *)
LEMMA RecallInv ==
  ASSUME ShellConstants, Inv, NEW i \in 0 .. Len(history) - 1, Recall(i)
  PROVE  Inv'
<1>1. PICK l \in Lines : l = history[i + 1]
  <2>1. i + 1 \in 1 .. Len(history)
    BY LenProperties DEF Inv
  <2> QED
    BY <2>1, ElementOfSeq DEF Inv
<1>2. PICK w : w = Prompt \o line
  OBVIOUS
<1>3. PICK a \in Nat, b \in Nat : a = Len(Prompt) /\ b = Len(line)
  BY LinesFit DEF Inv
<1>4. /\ w \in Seq(Chars) /\ Len(w) = a + b /\ Shows(tty, w) /\ tty \in Tidy
      /\ SubSeq(w, 1, a) = Prompt
  <2>1. Prompt \in Seq(Chars) /\ line \in Seq(Chars)
    BY LinesFit DEF Inv
  <2> QED
    BY <1>2, <1>3, <2>1, ConcatProperties, Beginning DEF Inv, Typing
<1>5. PICK back : back = [j \in 1 .. b |-> BS]
  OBVIOUS
<1>6. PICK t : t = PrintText(tty, back) /\ t \in Tidy /\ Shows(t, Prompt)
  <2>1. b \in 0 .. Len(w) /\ Len(w) - b = a
    BY <1>4
  <2>2. PrintText(tty, back) \in Tidy /\ Shows(PrintText(tty, back), SubSeq(w, 1, Len(w) - b))
    BY <1>4, <1>5, <2>1, RubsOut
  <2> QED
    BY <1>4, <2>1, <2>2
<1>7. tty' = PrintText(t, l) /\ line' = l
  BY <1>1, <1>3, <1>5, <1>6 DEF Recall, Replaced
<1>8. tty' \in Tidy /\ Shows(tty', Prompt \o line')
  BY <1>6, <1>7, LinesFit, PrintsPlain
<1>9. hindex' = i /\ history' = history /\ i \in Int /\ i >= -1 /\ i <= Len(history)
  BY LenProperties DEF Recall, Inv
<1> QED
  BY <1>7, <1>8, <1>9 DEF Inv, Typing

LEMMA NextInv == ASSUME ShellConstants, Inv, [ShellNext]_shellVars PROVE Inv'
<1>1. CASE UNCHANGED shellVars
  BY <1>1 DEF shellVars, Inv, Typing
<1>2. CASE ArrowUp
  <2>1. Len(history) \in Nat /\ hindex \in Int /\ hindex > 0 /\ hindex <= Len(history)
    BY <1>2, LenProperties DEF ArrowUp, Inv
  <2>2. hindex - 1 \in 0 .. Len(history) - 1
    BY <2>1
  <2> QED
    BY <1>2, <2>2, RecallInv DEF ArrowUp
<1>3. CASE ArrowDown
  <2>1. Len(history) \in Nat /\ hindex \in Int /\ hindex >= -1 /\ hindex < Len(history) - 1
    BY <1>3, LenProperties DEF ArrowDown, Inv
  <2>2. hindex + 1 \in 0 .. Len(history) - 1
    BY <2>1
  <2> QED
    BY <1>3, <2>2, RecallInv DEF ArrowDown
<1> QED
  BY <1>1, <1>2, <1>3, TypeCharInv, RuboutInv, EnterEmptyInv, EnterLineInv DEF ShellNext

-----------------------------------------------------------------------------
(* The row of the cursor holds the prompt and the line that Enter will run,*)
(* and nothing behind them, on every grid that a prompt and a line fit on, *)
(* whatever is typed, rubbed out, recalled and printed (kernel.c:243-266). *)
THEOREM LineIsShown == ASSUME ShellConstants PROVE ShellSpec => []EchoShowsTheLine
<1>1. Inv => EchoShowsTheLine
  <2> SUFFICES ASSUME Inv PROVE EchoShowsTheLine
    OBVIOUS
  <2>1. PICK s : s = Prompt \o line
    OBVIOUS
  <2>2. tty \in Tidy /\ Shows(tty, s)
    BY <2>1 DEF Inv, Typing
  <2>3. ASSUME NEW c \in 1 .. TtyCols
        PROVE  tty.cells[<<tty.cy + 1, c>>] = IF c <= Len(s) THEN s[c] ELSE Space
    <3>1. <<tty.cy + 1, c>> \in Cells /\ tty.cx = Len(s) /\ tty.cx \in 0 .. TtyCols /\ tty.cy \in Nat
      BY <2>2, TtyAssumption DEF Tidy, Screens, Cells, Shows
    <3>2. CASE c <= Len(s)
      BY <2>2, <3>1, <3>2, TtyAssumption DEF Shows
    <3>3. CASE ~(c <= Len(s))
      <4>1. c > tty.cx
        BY <3>1, <3>3, TtyAssumption
      <4> QED
        BY <2>2, <3>1, <3>3, <4>1 DEF Tidy
    <3> QED
      BY <3>2, <3>3
  <2> QED
    BY <2>1, <2>2, <2>3 DEF EchoShowsTheLine, Shows
<1>2. ShellInit => Inv
  BY InitInv
<1>3. Inv /\ [ShellNext]_shellVars => Inv'
  BY NextInv
<1> QED
  BY <1>1, <1>2, <1>3, PTL DEF ShellSpec

-----------------------------------------------------------------------------
(* The history, entry by entry.                                            *)
Recent ==
  /\ ran \in Seq(Lines)
  /\ Len(history) = IF Len(ran) <= HistMax THEN Len(ran) ELSE HistMax
  /\ \A i \in 1 .. Len(history) : history[i] = ran[Len(ran) - Len(history) + i]

LEMMA RecentIs == ASSUME ShellConstants, Inv, Recent PROVE HistoryIsRecent
<1>1. PICK n \in Nat, m \in Nat, h \in Nat \ {0} : n = Len(ran) /\ m = Len(history) /\ h = HistMax
  BY LenProperties DEF Inv, Recent, ShellConstants
<1>2. (n <= h => m = n) /\ (~(n <= h) => m = h)
  BY <1>1 DEF Recent
<1>3. PICK f \in Nat \ {0} : f = n - m + 1
  BY <1>1, <1>2, SMTT(30)
<1>4. Max({1, Len(ran) - HistMax + 1}) = f
  <2>1. f \in {1, n - h + 1} /\ 1 <= f /\ n - h + 1 <= f
    BY <1>1, <1>2, <1>3
  <2>2. {1, n - h + 1} \subseteq Int /\ \A x \in {1, n - h + 1} : x <= f
    BY <2>1
  <2> QED
    BY <1>1, <2>1, <2>2, LargestIs
<1>5. PICK s : s = SubSeq(ran, f, n)
  OBVIOUS
<1>6. s \in Seq(Lines) /\ Len(s) = m /\ \A i \in 1 .. m : s[i] = ran[f + i - 1]
  <2>1. \A i \in f .. n : ran[i] \in Lines
    <3>1. ran \in Seq(Lines)
      BY DEF Recent
    <3>2. \A i \in f .. n : i \in 1 .. Len(ran)
      BY <1>1, <1>2, <1>3
    <3> QED
      BY <3>1, <3>2, ElementOfSeq
  <2>2. /\ SubSeq(ran, f, n) \in Seq(Lines)
        /\ Len(SubSeq(ran, f, n)) = IF f <= n THEN n - f + 1 ELSE 0
        /\ \A i \in 1 .. n - f + 1 : SubSeq(ran, f, n)[i] = ran[f + i - 1]
    BY <2>1, SubSeqProperties
  <2>3. n - f + 1 = m /\ (IF f <= n THEN n - f + 1 ELSE 0) = m
    BY <1>1, <1>2, <1>3
  <2> QED
    BY <1>5, <2>2, <2>3
<1>7. \A i \in 1 .. m : history[i] = s[i]
  <2>1. \A i \in 1 .. m : n - m + i = f + i - 1
    BY <1>3
  <2>2. \A i \in 1 .. m : history[i] = ran[n - m + i]
    BY <1>1 DEF Recent
  <2> SUFFICES ASSUME NEW i \in 1 .. m PROVE history[i] = s[i]
    OBVIOUS
  <2>3. history[i] = ran[n - m + i] /\ n - m + i = f + i - 1 /\ s[i] = ran[f + i - 1]
    BY <1>6, <2>1, <2>2
  <2> QED
    BY <2>3
<1>8. history = s
  BY <1>1, <1>6, <1>7, SeqEqual DEF Inv
<1> QED
  BY <1>1, <1>4, <1>5, <1>8 DEF HistoryIsRecent

LEMMA EnterLineRecent == ASSUME ShellConstants, Inv, Recent, EnterLine PROVE Recent'
<1>1. PICK n \in Nat, m \in Nat, h \in Nat \ {0} : n = Len(ran) /\ m = Len(history) /\ h = HistMax
  BY LenProperties DEF Inv, Recent, ShellConstants
<1>2. (n <= h => m = n) /\ (~(n <= h) => m = h)
  BY <1>1 DEF Recent
<1>3. \A i \in 1 .. m : history[i] = ran[n - m + i]
  BY <1>1 DEF Recent
<1>4. line \in Lines /\ history \in Seq(Lines) /\ ran \in Seq(Lines)
  BY DEF Inv, Recent
<1>5. /\ ran' \in Seq(Lines) /\ Len(ran') = n + 1 /\ ran'[n + 1] = line
      /\ \A i \in 1 .. n : ran'[i] = ran[i]
  BY <1>1, <1>4 DEF EnterLine
<1>6. CASE m < h
  <2>1. history' = Append(history, line)
    BY <1>1, <1>4, <1>6, PushedIs DEF EnterLine
  <2>2. Len(history') = m + 1 /\ history'[m + 1] = line /\ \A i \in 1 .. m : history'[i] = history[i]
    BY <1>1, <1>4, <2>1
  <2>3. m = n /\ n + 1 <= h
    BY <1>2, <1>6
  <2>4. \A i \in 1 .. n : history'[i] = ran'[i]
    <3>1. \A i \in 1 .. n : n - n + i = i
      OBVIOUS
    <3> QED
      BY <1>3, <1>5, <2>2, <2>3, <3>1
  <2>5. \A i \in 1 .. n + 1 : history'[i] = ran'[i]
    <3>1. \A i \in 1 .. n + 1 : i = n + 1 \/ i \in 1 .. n
      OBVIOUS
    <3> QED
      BY <1>5, <2>2, <2>3, <2>4, <3>1
  <2>6. \A i \in 1 .. n + 1 : n + 1 - (n + 1) + i = i
    OBVIOUS
  <2>7. Len(history') = n + 1 /\ Len(ran') = n + 1 /\ n + 1 <= HistMax
    BY <1>1, <1>5, <2>2, <2>3
  <2>8. \A i \in 1 .. Len(history') : history'[i] = ran'[Len(ran') - Len(history') + i]
    BY <2>5, <2>6, <2>7
  <2> QED
    BY <1>5, <2>7, <2>8 DEF Recent
<1>7. CASE ~(m < h)
  <2>1. m = h /\ n >= h /\ history # << >>
    <3>1. m # 0
      BY <1>7
    <3> QED
      BY <1>1, <1>2, <1>4, <1>7, <3>1, EmptySeq
  <2>2. history' = Append(Tail(history), line)
    BY <1>1, <1>4, <1>7, PushedIs DEF EnterLine
  <2>3. PICK t : /\ t = Tail(history) /\ t \in Seq(Lines) /\ Len(t) = m - 1
                 /\ \A i \in 1 .. m - 1 : t[i] = history[i + 1]
    <3>1. /\ Tail(history) \in Seq(Lines) /\ Len(Tail(history)) = Len(history) - 1
          /\ \A i \in 1 .. Len(Tail(history)) : Tail(history)[i] = history[i + 1]
      BY <1>4, <2>1, HeadTailProperties
    <3>2. PICK t : t = Tail(history)
      OBVIOUS
    <3>3. t \in Seq(Lines) /\ Len(t) = m - 1
      BY <1>1, <3>1, <3>2
    <3>4. \A i \in 1 .. m - 1 : t[i] = history[i + 1]
      BY <3>1, <3>2, <3>3
    <3> QED
      BY <3>2, <3>3, <3>4
  <2>4. Len(history') = m /\ history'[m] = line /\ \A i \in 1 .. m - 1 : history'[i] = t[i]
    <3>1. history' = Append(t, line)
      BY <2>2, <2>3
    <3>2. Len(history') = m - 1 + 1 /\ history'[m - 1 + 1] = line
      BY <1>4, <2>3, <3>1
    <3>3. \A i \in 1 .. m - 1 : history'[i] = t[i]
      BY <1>4, <2>3, <3>1
    <3>4. m - 1 + 1 = m
      OBVIOUS
    <3> QED
      BY <3>2, <3>3, <3>4
  <2>5. ASSUME NEW i \in 1 .. m PROVE history'[i] = ran'[n + 1 - m + i]
    <3>1. CASE i = m
      <4>1. n + 1 - m + i = n + 1
        BY <3>1
      <4> QED
        BY <1>5, <2>4, <3>1, <4>1
    <3>2. CASE i # m
      <4>1. i \in 1 .. m - 1 /\ i + 1 \in 1 .. m
        BY <3>2
      <4>2. history'[i] = history[i + 1]
        BY <2>3, <2>4, <4>1
      <4>3. history[i + 1] = ran[n - m + (i + 1)]
        BY <1>3, <4>1
      <4>4. PICK j \in 1 .. n : j = n - m + (i + 1) /\ j = n + 1 - m + i
        BY <2>1, <4>1
      <4> QED
        BY <1>5, <4>2, <4>3, <4>4
    <3> QED
      BY <3>1, <3>2
  <2>6. ~(n + 1 <= h)
    BY <2>1
  <2>7. Len(history') = m /\ Len(ran') = n + 1 /\ ~(n + 1 <= HistMax) /\ HistMax = m
    BY <1>1, <1>5, <2>1, <2>4, <2>6
  <2>8. \A i \in 1 .. Len(history') : history'[i] = ran'[Len(ran') - Len(history') + i]
    BY <2>5, <2>7
  <2> QED
    BY <1>5, <2>7, <2>8 DEF Recent
<1> QED
  BY <1>6, <1>7

(* The history is the last lines that were run, in order, however long it  *)
(* may get (kernel.c:152-157).                                             *)
THEOREM HistoryIsKept == ASSUME ShellConstants PROVE ShellSpec => []HistoryIsRecent
<1>1. ShellInit => Inv /\ Recent
  <2>1. << >> \in Seq(Lines) /\ Len(<< >>) = 0 /\ 1 .. 0 = {}
    BY EmptySeq
  <2> QED
    BY <2>1, InitInv DEF ShellInit, Recent, ShellConstants
<1>2. Inv /\ Recent /\ [ShellNext]_shellVars => (Inv /\ Recent)'
  <2> SUFFICES ASSUME Inv, Recent, [ShellNext]_shellVars PROVE Recent'
    BY NextInv
  <2>1. CASE UNCHANGED <<history, ran>>
    BY <2>1 DEF Recent
  <2>2. EnterLine \/ UNCHANGED <<history, ran>>
    BY DEF ShellNext, shellVars, TypeChar, Rubout, EnterEmpty, ArrowUp, ArrowDown, Recall
  <2> QED
    BY <2>1, <2>2, EnterLineRecent
<1>3. Inv /\ Recent => HistoryIsRecent
  BY RecentIs
<1> QED
  BY <1>1, <1>2, <1>3, PTL DEF ShellSpec

-----------------------------------------------------------------------------
(* The keys of the command line and of the programs it runs: the flags of *)
(* the modifiers.                                                          *)
FlagNames == {"ctrl", "shift"}
FlagRecord == [ctrl : BOOLEAN, shift : BOOLEAN]

(* ModifiersAreHeld speaks of main only while kernel_main reads the keys.  *)
(* What makes it true again when a program ends is that missed collects    *)
(* every flag that main then gets wrong, so the invariant says the same    *)
(* whoever reads.                                                          *)
KeyInv ==
  /\ down \subseteq Modifiers
  /\ main \in FlagRecord
  /\ editor \in FlagRecord
  /\ \A flag \in FlagNames :
       /\ reader = "edit" /\ editor[flag] => Held(flag)
       /\ main[flag] /\ flag \notin missed => Held(flag)

LEMMA NoFlagsIsOff ==
  /\ NoFlags \in FlagRecord
  /\ \A flag \in FlagNames : ~NoFlags[flag]
BY DEF NoFlags, FlagNames, FlagRecord

LEMMA FlagIsName == \A key \in Modifiers : Flag(key) \in FlagNames
BY DEF Flag, FlagNames, Modifiers

LEMMA KeyInitInv == KeyInit => KeyInv
BY DEF KeyInit, KeyInv, FlagNames, FlagRecord, Held

(* A code moves one flag of whoever reads, and that flag follows the key   *)
(* it belongs to.                                                          *)
LEMMA CodeStep ==
  ASSUME KeyInv, NEW key \in Modifiers, NEW press \in BOOLEAN, Code(key, press)
  PROVE  KeyInv'
<1> DEFINE mine == Flag(key)
<1>1. mine \in FlagNames
  BY FlagIsName
<1>2. /\ down' = IF press THEN down \cup {key} ELSE down \ {key}
      /\ down' \subseteq Modifiers
      /\ reader' = reader
  BY DEF Code, KeyInv
<1>3. /\ main' \in FlagRecord
      /\ editor' \in FlagRecord
  BY <1>1 DEF Code, KeyInv, FlagNames, FlagRecord
<1>4. press => Held(mine)'
  BY <1>2 DEF Held
<1>5. ASSUME NEW flag \in FlagNames, flag # mine, Held(flag)
      PROVE  Held(flag)'
  BY <1>2, <1>5 DEF Held
<1>6. ASSUME NEW flag \in FlagNames
      PROVE  /\ reader' = "edit" /\ editor'[flag] => Held(flag)'
             /\ main'[flag] /\ flag \notin missed' => Held(flag)'
  <2>1. CASE flag # mine
    <3>1. editor'[flag] = editor[flag] /\ main'[flag] = main[flag]
      BY <1>1, <2>1 DEF Code, KeyInv, FlagNames, FlagRecord
    <3>2. flag \notin missed' => flag \notin missed
      BY <2>1 DEF Code
    <3> QED
      BY <1>2, <1>5, <2>1, <3>1, <3>2 DEF KeyInv
  <2>2. CASE flag = mine /\ press
    BY <1>4, <2>2
  <2>3. CASE flag = mine /\ ~press
    <3>1. reader = "edit" => ~editor'[flag]
      BY <1>1, <2>3 DEF Code, KeyInv, FlagNames, FlagRecord
    <3>2. reader = "main" => ~main'[flag]
      BY <1>1, <2>3 DEF Code, KeyInv, FlagNames, FlagRecord
    <3>3. reader # "main" => flag \in missed'
      BY <2>3 DEF Code
    <3> QED
      BY <1>2, <3>1, <3>2, <3>3
  <2> QED
    BY <2>1, <2>2, <2>3
<1> QED
  BY <1>2, <1>3, <1>6 DEF KeyInv

LEMMA KeyNextInv == KeyInv /\ [KeyNext]_keyVars => KeyInv'
<1> SUFFICES ASSUME KeyInv, [KeyNext]_keyVars PROVE KeyInv'
  OBVIOUS
<1>1. ASSUME NEW key \in Modifiers, NEW press \in BOOLEAN, Code(key, press)
      PROVE  KeyInv'
  BY <1>1, CodeStep
<1>2. CASE StartEdit
  BY <1>2, NoFlagsIsOff DEF StartEdit, KeyInv, Held
<1>3. CASE StartBeep \/ QuitEdit \/ QuitBeep
  BY <1>3 DEF StartBeep, QuitEdit, QuitBeep, KeyInv, Held
<1>4. CASE UNCHANGED keyVars
  BY <1>4 DEF keyVars, KeyInv, Held
<1> QED
  BY <1>1, <1>2, <1>3, <1>4 DEF KeyNext

(* A modifier that the editor takes for pressed is held down, whatever was *)
(* pressed before, and so is one that the command line takes for pressed,  *)
(* unless it was let go during a program.                                  *)
THEOREM FlagsAreHeld == KeySpec => []ModifiersAreHeld
<1>1. KeyInv => ModifiersAreHeld
  BY DEF KeyInv, ModifiersAreHeld, FlagNames
<1> QED
  BY <1>1, KeyInitInv, KeyNextInv, PTL DEF KeySpec
=============================================================================
