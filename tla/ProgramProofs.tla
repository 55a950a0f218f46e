---------------------------- MODULE ProgramProofs ---------------------------
(***************************************************************************)
(* Proofs about the programs that run on top of the command line: Editor,  *)
(* for every size of the text and of the file, Script, for every script    *)
(* and whatever its commands do, and Paths, for whatever is typed.         *)
(* Opening and saving are folds over the file and over the rows, the lines *)
(* of a script and the names of a path are gathered character by           *)
(* character: all are seen as runs.  A file is the rows it was glued       *)
(* together from, and a path the names.                                    *)
(***************************************************************************)
EXTENDS Editor, Script, Paths, Basics, FiniteSetTheorems

-----------------------------------------------------------------------------
(* The editor.                                                             *)

Rowset == {r \in Seq(Chars) : Len(r) < Cols}
Texts == {t \in Seq(Rowset) : Len(t) \in 1 .. Rows}
Files == Seq(Chars \cup {NL})

-----------------------------------------------------------------------------
(* Rows and characters are replaced, put in and taken out alike.           *)
LEMMA SplicedIs ==
  ASSUME NEW S, NEW w \in Seq(S), NEW from \in 1 .. Len(w) + 1,
         NEW to \in from - 1 .. Len(w), NEW new \in Seq(S)
  PROVE  /\ Spliced(w, from, to, new) \in Seq(S)
         /\ Len(Spliced(w, from, to, new)) = Len(w) - (to - from + 1) + Len(new)
         /\ \A i \in 1 .. Len(Spliced(w, from, to, new)) :
              Spliced(w, from, to, new)[i]
                = IF i < from THEN w[i]
                  ELSE IF i < from + Len(new) THEN new[i - from + 1]
                  ELSE w[i - Len(new) + (to - from + 1)]
<1>1. PICK n \in Nat, k \in Nat : n = Len(w) /\ k = Len(new)
  BY LenProperties
<1>2. from \in 1 .. n + 1 /\ to \in from - 1 .. n
  BY <1>1
<1>3. PICK a, b : a = SubSeq(w, 1, from - 1) /\ b = SubSeq(w, to + 1, Len(w))
  OBVIOUS
<1>4. a \in Seq(S) /\ Len(a) = from - 1 /\ \A i \in 1 .. from - 1 : a[i] = w[i]
  <2>1. PICK j \in Nat : j = from - 1
    BY <1>2
  <2>2. \A i \in 1 .. j : w[i] \in S
    BY <1>1, <1>2, <2>1, ElementOfSeq
  <2>3. /\ SubSeq(w, 1, j) \in Seq(S)
        /\ Len(SubSeq(w, 1, j)) = IF 1 <= j THEN j - 1 + 1 ELSE 0
        /\ \A i \in 1 .. j - 1 + 1 : SubSeq(w, 1, j)[i] = w[1 + i - 1]
    BY <2>2, SubSeqProperties
  <2>4. j - 1 + 1 = j /\ (IF 1 <= j THEN j - 1 + 1 ELSE 0) = j /\ \A i \in 1 .. j : 1 + i - 1 = i
    OBVIOUS
  <2> QED
    BY <1>3, <2>1, <2>3, <2>4
<1>5. b \in Seq(S) /\ Len(b) = n - to /\ \A i \in 1 .. n - to : b[i] = w[to + i]
  <2>1. PICK m \in Nat : m = to + 1
    BY <1>1, <1>2
  <2>2. \A i \in m .. n : w[i] \in S
    BY <1>1, <1>2, <2>1, ElementOfSeq
  <2>3. /\ SubSeq(w, m, n) \in Seq(S)
        /\ Len(SubSeq(w, m, n)) = IF m <= n THEN n - m + 1 ELSE 0
        /\ \A i \in 1 .. n - m + 1 : SubSeq(w, m, n)[i] = w[m + i - 1]
    BY <2>2, SubSeqProperties
  <2>4. /\ n - m + 1 = n - to /\ (IF m <= n THEN n - m + 1 ELSE 0) = n - to
        /\ \A i \in 1 .. n - to : m + i - 1 = to + i
    BY <1>1, <1>2, <2>1
  <2> QED
    BY <1>1, <1>3, <2>1, <2>3, <2>4
<1>6. PICK c : c = a \o new
  OBVIOUS
<1>7. /\ c \in Seq(S) /\ Len(c) = from - 1 + k
      /\ \A i \in 1 .. from - 1 + k : c[i] = IF i < from THEN w[i] ELSE new[i - from + 1]
  <2>1. /\ c \in Seq(S) /\ Len(c) = Len(a) + Len(new)
        /\ \A i \in 1 .. Len(a) + Len(new) : c[i] = IF i <= Len(a) THEN a[i] ELSE new[i - Len(a)]
    BY <1>4, <1>6, ConcatProperties
  <2>2. Len(a) = from - 1 /\ Len(new) = k
    BY <1>1, <1>4
  <2>3. ASSUME NEW i \in 1 .. from - 1 + k
        PROVE c[i] = IF i < from THEN w[i] ELSE new[i - from + 1]
    <3>1. c[i] = IF i <= from - 1 THEN a[i] ELSE new[i - (from - 1)]
      BY <2>1, <2>2
    <3>2. i - (from - 1) = i - from + 1 /\ (i < from <=> i <= from - 1)
      BY <1>2
    <3>3. i < from => a[i] = w[i]
      BY <1>2, <1>4
    <3> QED
      BY <3>1, <3>2, <3>3
  <2> QED
    BY <2>1, <2>2, <2>3
<1>8. PICK d : d = c \o b
  OBVIOUS
<1>9. d = Spliced(w, from, to, new)
  BY <1>3, <1>6, <1>8 DEF Spliced
<1>10. /\ d \in Seq(S) /\ Len(d) = Len(c) + Len(b)
       /\ \A i \in 1 .. Len(c) + Len(b) : d[i] = IF i <= Len(c) THEN c[i] ELSE b[i - Len(c)]
  BY <1>5, <1>7, <1>8, ConcatProperties
<1>11. Len(d) = n - (to - from + 1) + k
  BY <1>2, <1>5, <1>7, <1>10
<1>12. ASSUME NEW i \in 1 .. Len(d)
       PROVE d[i] = IF i < from THEN w[i]
                    ELSE IF i < from + k THEN new[i - from + 1]
                    ELSE w[i - k + (to - from + 1)]
  <2>1. i \in 1 .. Len(c) + Len(b)
    BY <1>10
  <2>2. CASE i <= from - 1 + k
    <3>1. d[i] = c[i] /\ i \in 1 .. from - 1 + k
      BY <1>7, <1>10, <2>1, <2>2, SMTT(30)
    <3>2. i < from + k
      BY <1>2, <2>2
    <3> QED
      BY <1>7, <3>1, <3>2
  <2>3. CASE ~(i <= from - 1 + k)
    <3>1. ~(i < from) /\ ~(i < from + k)
      BY <1>2, <2>3
    <3>2. PICK j \in Nat : j = i - (from - 1 + k)
      BY <1>2, <2>3
    <3>3. j \in 1 .. n - to /\ d[i] = b[j]
      BY <1>2, <1>5, <1>7, <1>10, <2>1, <2>3, <3>2
    <3>4. to + j = i - k + (to - from + 1)
      BY <1>2, <3>2
    <3> QED
      BY <1>5, <3>1, <3>3, <3>4
  <2> QED
    BY <1>2, <2>2, <2>3
<1> QED
  BY <1>1, <1>9, <1>10, <1>11, <1>12

LEMMA InsertAtIs ==
  ASSUME NEW S, NEW w \in Seq(S), NEW i \in 1 .. Len(w) + 1, NEW e \in S
  PROVE  InsertAt(w, i, e) \in Seq(S) /\ Len(InsertAt(w, i, e)) = Len(w) + 1
<1>1. PICK n \in Nat : n = Len(w)
  BY LenProperties
<1>2. PICK j \in i - 1 .. Len(w) : j = i - 1
  BY <1>1
<1>3. PICK new \in Seq(S) : new = <<e>> /\ Len(new) = 1
  <2>1. <<e>> \in Seq(S) /\ Len(<<e>>) = 1
    OBVIOUS
  <2> QED
    BY <2>1
<1>4. InsertAt(w, i, e) = Spliced(w, i, j, new)
  <2>1. j + 1 = i
    BY <1>2
  <2> QED
    BY <1>2, <1>3, <2>1 DEF InsertAt, Spliced
<1>5. /\ Spliced(w, i, j, new) \in Seq(S)
      /\ Len(Spliced(w, i, j, new)) = Len(w) - (j - i + 1) + Len(new)
  BY SplicedIs
<1> QED
  BY <1>1, <1>2, <1>3, <1>4, <1>5

LEMMA RemoveAtIs ==
  ASSUME NEW S, NEW w \in Seq(S), NEW i \in 1 .. Len(w)
  PROVE  RemoveAt(w, i) \in Seq(S) /\ Len(RemoveAt(w, i)) = Len(w) - 1
<1>1. PICK n \in Nat : n = Len(w)
  BY LenProperties
<1>2. PICK f \in 1 .. Len(w) + 1 : f = i /\ i \in f - 1 .. Len(w)
  BY <1>1
<1>3. PICK new \in Seq(S) : new = << >> /\ Len(new) = 0
  BY EmptySeq
<1>4. /\ Spliced(w, f, i, new) \in Seq(S)
      /\ Len(Spliced(w, f, i, new)) = Len(w) - (i - f + 1) + Len(new)
  BY <1>2, SplicedIs
<1>5. SubSeq(w, 1, i - 1) \in Seq(S)
  <2>1. \A j \in 1 .. i - 1 : w[j] \in S
    BY <1>1, ElementOfSeq
  <2> QED
    BY <2>1, SubSeqProperties
<1>6. RemoveAt(w, i) = Spliced(w, f, i, new)
  BY <1>2, <1>3, <1>5, ConcatEmptySeq DEF RemoveAt, Spliced
<1> QED
  BY <1>1, <1>2, <1>3, <1>4, <1>6
-----------------------------------------------------------------------------
(* The keys keep the cursor in the text.                                   *)
Edits ==
  {e \in [rows : Texts, cx : Nat, cy : 0 .. Rows - 1, rowoff : Nat, dirty : BOOLEAN] :
     FileRow(e) <= Len(e.rows) /\ e.cx <= Len(Row(e))}

LEMMA EditIs ==
  ASSUME NEW e \in Edits
  PROVE  /\ e = [rows |-> e.rows, cx |-> e.cx, cy |-> e.cy, rowoff |-> e.rowoff, dirty |-> e.dirty]
         /\ e.rows \in Texts /\ e.cx \in Nat /\ e.cy \in 0 .. Rows - 1 /\ e.rowoff \in Nat
         /\ e.dirty \in BOOLEAN
         /\ e.rows \in Seq(Rowset) /\ Len(e.rows) \in 1 .. Rows
         /\ FileRow(e) = e.cy + e.rowoff + 1 /\ Row(e) = e.rows[FileRow(e)]
         /\ FileRow(e) \in 1 .. Len(e.rows)
         /\ Row(e) \in Seq(Chars) /\ Len(Row(e)) \in 0 .. Cols - 1 /\ e.cx \in 0 .. Len(Row(e))
<1>1. /\ e = [rows |-> e.rows, cx |-> e.cx, cy |-> e.cy, rowoff |-> e.rowoff, dirty |-> e.dirty]
      /\ e.rows \in Texts /\ e.cx \in Nat /\ e.cy \in 0 .. Rows - 1 /\ e.rowoff \in Nat
      /\ e.dirty \in BOOLEAN
      /\ FileRow(e) <= Len(e.rows) /\ e.cx <= Len(Row(e))
  BY DEF Edits
<1>2. e.rows \in Seq(Rowset) /\ Len(e.rows) \in 1 .. Rows
  BY <1>1 DEF Texts
<1>3. FileRow(e) = e.cy + e.rowoff + 1 /\ Row(e) = e.rows[FileRow(e)]
  BY DEF FileRow, Row
<1>4. FileRow(e) \in 1 .. Len(e.rows)
  BY <1>1, <1>2, <1>3, EditorAssumption
<1>5. Row(e) \in Rowset
  BY <1>2, <1>3, <1>4, ElementOfSeq
<1>6. Row(e) \in Seq(Chars) /\ Len(Row(e)) \in 0 .. Cols - 1
  BY <1>5, LenProperties, EditorAssumption DEF Rowset
<1> QED
  BY <1>1, <1>2, <1>3, <1>4, <1>6

LEMMA MakesEdit ==
  ASSUME NEW rows \in Texts, NEW cx \in Nat, NEW cy \in 0 .. Rows - 1, NEW rowoff \in Nat,
         NEW dirty \in BOOLEAN, cy + rowoff + 1 <= Len(rows), cx <= Len(rows[cy + rowoff + 1])
  PROVE  [rows |-> rows, cx |-> cx, cy |-> cy, rowoff |-> rowoff, dirty |-> dirty] \in Edits
BY DEF Edits, FileRow, Row

(* To another row, and back into it.                                       *)
LEMMA ClampedIs ==
  ASSUME NEW rows \in Texts, NEW cx \in Nat, NEW cy \in 0 .. Rows - 1, NEW rowoff \in Nat,
         NEW dirty \in BOOLEAN, cy + rowoff + 1 <= Len(rows)
  PROVE  LET e == [rows |-> rows, cx |-> cx, cy |-> cy, rowoff |-> rowoff, dirty |-> dirty]
         IN  Clamped(e) \in Edits /\ Clamped(e).rows = rows /\ Clamped(e).dirty = dirty
<1>1. PICK n \in Nat : n = Len(rows[cy + rowoff + 1])
  <2>1. cy + rowoff + 1 \in 1 .. Len(rows) /\ rows \in Seq(Rowset)
    BY EditorAssumption DEF Texts
  <2>2. rows[cy + rowoff + 1] \in Rowset
    BY <2>1, ElementOfSeq
  <2> QED
    BY <2>2, LenProperties DEF Rowset
<1>2. PICK m \in Nat : m = Min({cx, n}) /\ m <= n
  <2>1. CASE cx <= n
    <3>1. Min({cx, n}) = cx
      BY <2>1 DEF Min
    <3> QED
      BY <2>1, <3>1
  <2>2. CASE ~(cx <= n)
    <3>1. Min({cx, n}) = n
      BY <2>2 DEF Min
    <3> QED
      BY <3>1
  <2> QED
    BY <2>1, <2>2
<1> DEFINE e == [rows |-> rows, cx |-> cx, cy |-> cy, rowoff |-> rowoff, dirty |-> dirty]
<1>3. Len(Row(e)) = n /\ e.cx = cx
  BY <1>1 DEF Row, FileRow
<1>4. Clamped(e) = [rows |-> rows, cx |-> m, cy |-> cy, rowoff |-> rowoff, dirty |-> dirty]
  <2>1. Clamped(e) = [e EXCEPT !.cx = m]
    BY <1>2, <1>3 DEF Clamped
  <2> QED
    BY <2>1
<1>5. [rows |-> rows, cx |-> m, cy |-> cy, rowoff |-> rowoff, dirty |-> dirty] \in Edits
  <2>1. m <= Len(rows[cy + rowoff + 1])
    BY <1>1, <1>2
  <2> QED
    BY <2>1, MakesEdit
<1> QED
  BY <1>4, <1>5

LEMMA UpIs ==
  ASSUME NEW e \in Edits
  PROVE  Up(e) \in Edits /\ Up(e).rows = e.rows /\ Up(e).dirty = e.dirty
<1>1. PICK rows \in Texts, cx \in Nat, cy \in 0 .. Rows - 1, rowoff \in Nat, dirty \in BOOLEAN :
        e = [rows |-> rows, cx |-> cx, cy |-> cy, rowoff |-> rowoff, dirty |-> dirty]
  BY EditIs
<1>2. cy + rowoff + 1 \in 1 .. Len(rows) /\ Len(rows) \in Nat
  BY <1>1, EditIs
<1>3. PICK y \in 0 .. Rows - 1, o \in Nat :
        /\ y + o + 1 <= Len(rows)
        /\ Up(e) = Clamped([rows |-> rows, cx |-> cx, cy |-> y, rowoff |-> o, dirty |-> dirty])
  <2>1. CASE cy > 0
    <3>1. [e EXCEPT !.cy = @ - 1]
             = [rows |-> rows, cx |-> cx, cy |-> cy - 1, rowoff |-> rowoff, dirty |-> dirty]
      BY <1>1
    <3>2. Up(e) = Clamped([e EXCEPT !.cy = @ - 1])
      BY <1>1, <2>1 DEF Up
    <3>3. cy - 1 \in 0 .. Rows - 1 /\ cy - 1 + rowoff + 1 <= Len(rows)
      BY <1>2, <2>1, EditorAssumption
    <3> QED
      BY <3>1, <3>2, <3>3
  <2>2. CASE ~(cy > 0) /\ rowoff > 0
    <3>1. [e EXCEPT !.rowoff = @ - 1]
             = [rows |-> rows, cx |-> cx, cy |-> cy, rowoff |-> rowoff - 1, dirty |-> dirty]
      BY <1>1
    <3>2. Up(e) = Clamped([e EXCEPT !.rowoff = @ - 1])
      BY <1>1, <2>2 DEF Up
    <3>3. rowoff - 1 \in Nat /\ cy + (rowoff - 1) + 1 <= Len(rows)
      BY <1>2, <2>2, EditorAssumption
    <3> QED
      BY <3>1, <3>2, <3>3
  <2>3. CASE ~(cy > 0) /\ ~(rowoff > 0)
    BY <1>1, <1>2, <2>3 DEF Up
  <2> QED
    BY <2>1, <2>2, <2>3
<1> QED
  BY <1>1, <1>3, ClampedIs

(* The next row exists.                                                    *)
LEMMA NextRowIs ==
  ASSUME NEW rows, NEW cx, NEW cy \in 0 .. Rows - 1, NEW rowoff \in Nat, NEW dirty, NEW e,
         e = [rows |-> rows, cx |-> cx, cy |-> cy, rowoff |-> rowoff, dirty |-> dirty]
  PROVE  \E y \in 0 .. Rows - 1, o \in Nat :
           /\ y + o = cy + rowoff + 1
           /\ cy < Rows - 1 => y = cy + 1 /\ o = rowoff
           /\ NextRow(e) = [rows |-> rows, cx |-> cx, cy |-> y, rowoff |-> o, dirty |-> dirty]
<1>1. CASE cy < Rows - 1
  <2>1. NextRow(e) = [rows |-> rows, cx |-> cx, cy |-> cy + 1, rowoff |-> rowoff, dirty |-> dirty]
    BY <1>1 DEF NextRow
  <2>2. cy + 1 \in 0 .. Rows - 1 /\ (cy + 1) + rowoff = cy + rowoff + 1
    BY <1>1, EditorAssumption
  <2> QED
    BY <2>1, <2>2
<1>2. CASE ~(cy < Rows - 1)
  <2>1. NextRow(e) = [rows |-> rows, cx |-> cx, cy |-> cy, rowoff |-> rowoff + 1, dirty |-> dirty]
    BY <1>2 DEF NextRow
  <2> QED
    BY <1>2, <2>1
<1> QED
  BY <1>1, <1>2

LEMMA DownIs ==
  ASSUME NEW e \in Edits
  PROVE  Down(e) \in Edits /\ Down(e).rows = e.rows /\ Down(e).dirty = e.dirty
<1>1. PICK rows \in Texts, cx \in Nat, cy \in 0 .. Rows - 1, rowoff \in Nat, dirty \in BOOLEAN :
        e = [rows |-> rows, cx |-> cx, cy |-> cy, rowoff |-> rowoff, dirty |-> dirty]
  BY EditIs
<1>2. /\ cy + rowoff + 1 \in 1 .. Len(rows) /\ Len(rows) \in Nat
      /\ FileRow(e) = cy + rowoff + 1
  BY <1>1, EditIs
<1>3. PICK y \in 0 .. Rows - 1, o \in Nat :
        /\ y + o + 1 <= Len(rows)
        /\ Down(e) = Clamped([rows |-> rows, cx |-> cx, cy |-> y, rowoff |-> o, dirty |-> dirty])
  <2>1. CASE FileRow(e) < Len(e.rows)
    <3>1. PICK y \in 0 .. Rows - 1, o \in Nat :
            /\ y + o = cy + rowoff + 1
            /\ NextRow(e) = [rows |-> rows, cx |-> cx, cy |-> y, rowoff |-> o, dirty |-> dirty]
      BY <1>1, NextRowIs
    <3>2. y + o + 1 <= Len(rows)
      BY <1>1, <1>2, <2>1, <3>1
    <3> QED
      BY <2>1, <3>1, <3>2 DEF Down
  <2>2. CASE ~(FileRow(e) < Len(e.rows))
    BY <1>1, <1>2, <2>2 DEF Down
  <2> QED
    BY <2>1, <2>2
<1> QED
  BY <1>1, <1>3, ClampedIs

LEMMA SidewaysIs ==
  ASSUME NEW e \in Edits, NEW d \in {Left(e), Right(e)}
  PROVE  d \in Edits /\ d.rows = e.rows /\ d.dirty = e.dirty
<1>1. PICK rows \in Texts, cx \in Nat, cy \in 0 .. Rows - 1, rowoff \in Nat, dirty \in BOOLEAN :
        e = [rows |-> rows, cx |-> cx, cy |-> cy, rowoff |-> rowoff, dirty |-> dirty]
  BY EditIs
<1>2. /\ cy + rowoff + 1 \in 1 .. Len(rows) /\ Len(rows) \in Nat
      /\ Row(e) = rows[cy + rowoff + 1] /\ Len(Row(e)) \in Nat /\ cx \in 0 .. Len(Row(e))
  BY <1>1, EditIs
<1>3. \A x \in 0 .. Len(Row(e)) :
        [rows |-> rows, cx |-> x, cy |-> cy, rowoff |-> rowoff, dirty |-> dirty] \in Edits
  BY <1>2, MakesEdit
<1>4. CASE d = Left(e)
  <2>1. CASE cx > 0
    <3>1. d = [rows |-> rows, cx |-> cx - 1, cy |-> cy, rowoff |-> rowoff, dirty |-> dirty]
      BY <1>1, <1>4, <2>1 DEF Left
    <3>2. cx - 1 \in 0 .. Len(Row(e))
      BY <1>2, <2>1
    <3> QED
      BY <1>1, <1>3, <3>1, <3>2
  <2>2. CASE ~(cx > 0)
    BY <1>1, <1>4, <2>2 DEF Left
  <2> QED
    BY <2>1, <2>2
<1>5. CASE d = Right(e)
  <2>1. CASE cx < Len(Row(e))
    <3>1. d = [rows |-> rows, cx |-> cx + 1, cy |-> cy, rowoff |-> rowoff, dirty |-> dirty]
      BY <1>1, <1>5, <2>1 DEF Right
    <3>2. cx + 1 \in 0 .. Len(Row(e))
      BY <1>2, <2>1
    <3> QED
      BY <1>1, <1>3, <3>1, <3>2
  <2>2. CASE ~(cx < Len(Row(e)))
    BY <1>1, <1>5, <2>2 DEF Right
  <2> QED
    BY <2>1, <2>2
<1> QED
  BY <1>4, <1>5
-----------------------------------------------------------------------------
(* The keys that change the text.                                          *)
LEMMA HalvesAre ==
  ASSUME NEW r \in Seq(Chars), NEW cx \in 0 .. Len(r)
  PROVE  \E head \in Seq(Chars), tail \in Seq(Chars) :
           /\ head = SubSeq(r, 1, cx) /\ tail = SubSeq(r, cx + 1, Len(r))
           /\ Len(head) = cx /\ Len(tail) = Len(r) - cx
           /\ head \o tail = r
<1>1. PICK n \in Nat : n = Len(r)
  BY LenProperties
<1>2. PICK head, tail : head = SubSeq(r, 1, cx) /\ tail = SubSeq(r, cx + 1, Len(r))
  OBVIOUS
<1>3. head \in Seq(Chars) /\ Len(head) = cx
  <2>1. \A i \in 1 .. cx : r[i] \in Chars
    BY <1>1, ElementOfSeq
  <2>2. /\ SubSeq(r, 1, cx) \in Seq(Chars)
        /\ Len(SubSeq(r, 1, cx)) = IF 1 <= cx THEN cx - 1 + 1 ELSE 0
    BY <1>1, <2>1, SubSeqProperties
  <2>3. (IF 1 <= cx THEN cx - 1 + 1 ELSE 0) = cx
    BY <1>1
  <2> QED
    BY <1>2, <2>2, <2>3
<1>4. tail \in Seq(Chars) /\ Len(tail) = n - cx
  <2>1. PICK m \in Nat : m = cx + 1
    BY <1>1
  <2>2. \A i \in m .. n : r[i] \in Chars
    BY <1>1, <2>1, ElementOfSeq
  <2>3. SubSeq(r, m, n) \in Seq(Chars) /\ Len(SubSeq(r, m, n)) = IF m <= n THEN n - m + 1 ELSE 0
    BY <2>2, SubSeqProperties
  <2>4. (IF m <= n THEN n - m + 1 ELSE 0) = n - cx
    BY <1>1, <2>1
  <2> QED
    BY <1>1, <1>2, <2>1, <2>3, <2>4
<1>5. head \o tail = r
  <2>1. PICK m \in 1 .. Len(r) + 1 : m = 1 /\ cx \in m - 1 .. Len(r)
    <3>1. 1 \in 1 .. Len(r) + 1 /\ cx \in 1 - 1 .. Len(r)
      BY <1>1
    <3> QED
      BY <3>1
  <2>2. n \in cx .. Len(r)
    BY <1>1, <2>1
  <2>3. SubSeq(r, m, cx) \o SubSeq(r, cx + 1, n) = SubSeq(r, m, n)
    BY <2>1, <2>2, ConcatAdjacentSubSeq
  <2> QED
    BY <1>1, <1>2, <2>1, <2>3, SubSeqFull
<1> QED
  BY <1>1, <1>2, <1>3, <1>4, <1>5

(* Rows of a text replaced by as many or by one more or less.              *)
LEMMA SplicedText ==
  ASSUME NEW t \in Texts, NEW from \in 1 .. Len(t), NEW to \in from - 1 .. Len(t),
         NEW new \in Seq(Rowset), Len(t) - (to - from + 1) + Len(new) \in 1 .. Rows
  PROVE  /\ Spliced(t, from, to, new) \in Texts
         /\ Len(Spliced(t, from, to, new)) = Len(t) - (to - from + 1) + Len(new)
         /\ \A i \in 1 .. Len(Spliced(t, from, to, new)) :
              Spliced(t, from, to, new)[i]
                = IF i < from THEN t[i]
                  ELSE IF i < from + Len(new) THEN new[i - from + 1]
                  ELSE t[i - Len(new) + (to - from + 1)]
<1>1. t \in Seq(Rowset) /\ from \in 1 .. Len(t) + 1
  BY DEF Texts
<1>2. /\ Spliced(t, from, to, new) \in Seq(Rowset)
      /\ Len(Spliced(t, from, to, new)) = Len(t) - (to - from + 1) + Len(new)
      /\ \A i \in 1 .. Len(Spliced(t, from, to, new)) :
           Spliced(t, from, to, new)[i]
             = IF i < from THEN t[i]
               ELSE IF i < from + Len(new) THEN new[i - from + 1]
               ELSE t[i - Len(new) + (to - from + 1)]
  BY <1>1, SplicedIs
<1> QED
  BY <1>2 DEF Texts

LEMMA EnterIs ==
  ASSUME NEW e \in Edits, Len(e.rows) < Rows
  PROVE  \E head \in Rowset, tail \in Rowset, t \in Texts :
           /\ Len(head) = e.cx /\ head \o tail = Row(e) /\ Len(head) + Len(tail) = Len(Row(e))
           /\ Len(t) = Len(e.rows) + 1
           /\ t[FileRow(e)] = head /\ t[FileRow(e) + 1] = tail
           /\ \A i \in 1 .. FileRow(e) - 1 : t[i] = e.rows[i]
           /\ \A i \in FileRow(e) + 1 .. Len(e.rows) : t[i + 1] = e.rows[i]
           /\ e.cy + 1 \in 0 .. Rows - 1
           /\ Enter(e) = [rows |-> t, cx |-> 0, cy |-> e.cy + 1, rowoff |-> e.rowoff, dirty |-> TRUE]
<1>1. PICK rows \in Texts, cx \in Nat, cy \in 0 .. Rows - 1, rowoff \in Nat, dirty \in BOOLEAN :
        e = [rows |-> rows, cx |-> cx, cy |-> cy, rowoff |-> rowoff, dirty |-> dirty]
  BY EditIs
<1>2. PICK f \in 1 .. Len(rows) : f = FileRow(e) /\ f = cy + rowoff + 1 /\ Row(e) = rows[f]
  BY <1>1, EditIs
<1>3. PICK r \in Seq(Chars) : r = Row(e) /\ Len(r) \in 0 .. Cols - 1 /\ cx \in 0 .. Len(r)
  BY <1>1, EditIs
<1>4. PICK head \in Seq(Chars), tail \in Seq(Chars) :
        /\ head = SubSeq(r, 1, cx) /\ tail = SubSeq(r, cx + 1, Len(r))
        /\ Len(head) = cx /\ Len(tail) = Len(r) - cx
        /\ head \o tail = r
  BY <1>3, HalvesAre
<1>5. head \in Rowset /\ tail \in Rowset
  <2>1. Len(head) < Cols /\ Len(tail) < Cols
    BY <1>3, <1>4, EditorAssumption
  <2> QED
    BY <2>1 DEF Rowset
<1>6. PICK n \in 1 .. Rows : n = Len(rows) /\ n < Rows
  BY <1>1 DEF Texts
<1>7. PICK new \in Seq(Rowset) : new = <<head, tail>> /\ Len(new) = 2 /\ new[1] = head /\ new[2] = tail
  <2>1. <<head, tail>> \in Seq(Rowset) /\ Len(<<head, tail>>) = 2
    BY <1>5
  <2> QED
    BY <2>1
<1>8. PICK t : t = Spliced(rows, f, f, new)
  OBVIOUS
<1>9. /\ t \in Texts /\ Len(t) = n + 1
      /\ \A i \in 1 .. n + 1 : t[i] = IF i < f THEN rows[i]
                                      ELSE IF i < f + 2 THEN new[i - f + 1] ELSE rows[i - 2 + 1]
  <2>1. f \in f - 1 .. Len(rows)
    BY <1>6
  <2>2. f - f + 1 = 1 /\ Len(rows) - (f - f + 1) + Len(new) = n + 1 /\ n + 1 \in 1 .. Rows
    BY <1>6, <1>7, EditorAssumption
  <2>3. /\ t \in Texts
        /\ Len(t) = Len(rows) - (f - f + 1) + Len(new)
        /\ \A i \in 1 .. Len(t) :
             t[i] = IF i < f THEN rows[i]
                    ELSE IF i < f + Len(new) THEN new[i - f + 1]
                    ELSE rows[i - Len(new) + (f - f + 1)]
    BY <1>8, <2>1, <2>2, SplicedText
  <2> QED
    BY <1>7, <2>2, <2>3
<1>10. /\ t[f] = head /\ t[f + 1] = tail
       /\ \A i \in 1 .. f - 1 : t[i] = rows[i]
       /\ \A i \in f + 1 .. n : t[i + 1] = rows[i]
  <2>1. f \in 1 .. n + 1 /\ ~(f < f) /\ f < f + 2 /\ f - f + 1 = 1
    BY <1>6
  <2>2. f + 1 \in 1 .. n + 1 /\ ~(f + 1 < f) /\ f + 1 < f + 2 /\ f + 1 - f + 1 = 2
    BY <1>6
  <2>3. \A i \in 1 .. f - 1 : i \in 1 .. n + 1 /\ i < f
    BY <1>6
  <2>4. ASSUME NEW i \in f + 1 .. n PROVE t[i + 1] = rows[i]
    <3>1. PICK j \in 1 .. n + 1 : j = i + 1 /\ ~(j < f) /\ ~(j < f + 2) /\ j - 2 + 1 = i
      BY <1>6
    <3>2. t[j] = rows[j - 2 + 1]
      BY <1>9, <3>1
    <3> QED
      BY <3>1, <3>2
  <2>5. t[f] = new[1]
    BY <1>9, <2>1
  <2>6. t[f + 1] = new[2]
    BY <1>9, <2>2
  <2> QED
    BY <1>7, <1>9, <2>3, <2>4, <2>5, <2>6
<1>11. cy + 1 \in 0 .. Rows - 1
  BY <1>2, <1>6, EditorAssumption
<1>12. Enter(e) = [rows |-> t, cx |-> 0, cy |-> cy + 1, rowoff |-> rowoff, dirty |-> TRUE]
  <2>1. PICK d : d = [e EXCEPT !.rows = t, !.cx = 0, !.dirty = TRUE]
    OBVIOUS
  <2>2. d = [rows |-> t, cx |-> 0, cy |-> cy, rowoff |-> rowoff, dirty |-> TRUE]
    BY <1>1, <2>1
  <2>3. Enter(e) = NextRow(d)
    BY <1>1, <1>2, <1>3, <1>4, <1>6, <1>7, <1>8, <2>1 DEF Enter
  <2>4. cy < Rows - 1
    BY <1>11, EditorAssumption
  <2> QED
    BY <2>2, <2>3, <2>4 DEF NextRow
<1>13. Len(head) = e.cx /\ head \o tail = Row(e) /\ Len(head) + Len(tail) = Len(Row(e))
  <2>1. e.cx = cx
    BY <1>1
  <2>2. PICK n1 \in Nat : n1 = Len(r) /\ Len(head) + Len(tail) = n1
    <3>1. Len(r) \in Nat
      BY LenProperties
    <3>2. cx + (Len(r) - cx) = Len(r)
      BY <1>3, <3>1
    <3> QED
      BY <1>4, <3>1, <3>2
  <2> QED
    BY <1>3, <1>4, <2>1, <2>2
<1>14. /\ e.rows = rows /\ e.cy = cy /\ e.rowoff = rowoff /\ FileRow(e) = f /\ Len(e.rows) = n
  BY <1>1, <1>2, <1>6
<1> QED
  BY <1>5, <1>9, <1>10, <1>11, <1>12, <1>13, <1>14

LEMMA EnterEdits ==
  ASSUME NEW e \in Edits
  PROVE  Enter(e) \in Edits /\ (Enter(e) = e \/ Enter(e).dirty)
<1>1. CASE ~(Len(e.rows) < Rows)
  BY <1>1 DEF Enter
<1>2. CASE Len(e.rows) < Rows
  <2>1. PICK t \in Texts :
          /\ Len(t) = Len(e.rows) + 1 /\ e.cy + 1 \in 0 .. Rows - 1
          /\ Enter(e) = [rows |-> t, cx |-> 0, cy |-> e.cy + 1, rowoff |-> e.rowoff, dirty |-> TRUE]
    BY <1>2, EnterIs
  <2>2. e.rowoff \in Nat /\ e.cy + 1 + e.rowoff + 1 \in 1 .. Len(t)
    BY <2>1, EditIs
  <2>3. t[e.cy + 1 + e.rowoff + 1] \in Rowset
    BY <2>2, ElementOfSeq DEF Texts
  <2>4. 0 <= Len(t[e.cy + 1 + e.rowoff + 1])
    BY <2>3, LenProperties DEF Rowset
  <2>5. PICK y \in 0 .. Rows - 1, x \in Nat, dirty \in BOOLEAN :
          y = e.cy + 1 /\ x = 0 /\ dirty = TRUE
    BY <2>1
  <2>6. [rows |-> t, cx |-> x, cy |-> y, rowoff |-> e.rowoff, dirty |-> dirty] \in Edits
    <3>1. y + e.rowoff + 1 <= Len(t) /\ x <= Len(t[y + e.rowoff + 1])
      BY <2>2, <2>4, <2>5 DEF Texts
    <3>2. e.rowoff \in Nat
      BY <2>2
    <3> QED
      BY <3>1, <3>2, MakesEdit
  <2> QED
    BY <2>1, <2>5, <2>6
<1> QED
  BY <1>1, <1>2
LEMMA TypeEdits ==
  ASSUME NEW e \in Edits, NEW ch \in Chars
  PROVE  Type(e, ch) \in Edits /\ (Type(e, ch) = e \/ Type(e, ch).dirty)
<1>1. PICK rows \in Texts, cx \in Nat, cy \in 0 .. Rows - 1, rowoff \in Nat, dirty \in BOOLEAN :
        e = [rows |-> rows, cx |-> cx, cy |-> cy, rowoff |-> rowoff, dirty |-> dirty]
  BY EditIs
<1>2. PICK f \in 1 .. Len(rows) : f = FileRow(e) /\ f = cy + rowoff + 1 /\ Row(e) = rows[f]
  BY <1>1, EditIs
<1>3. PICK s \in Seq(Chars) : s = Row(e) /\ Len(s) \in 0 .. Cols - 1 /\ cx \in 0 .. Len(s)
  BY <1>1, EditIs
<1>4. CASE ~(Len(s) < Cols - 1)
  BY <1>3, <1>4 DEF Type
<1>5. CASE Len(s) < Cols - 1
  <2>1. PICK i \in 1 .. Len(s) + 1 : i = cx + 1
    BY <1>3, EditorAssumption
  <2>2. PICK x : x = InsertAt(s, i, ch) /\ x \in Seq(Chars) /\ Len(x) = Len(s) + 1
    BY InsertAtIs
  <2>3. x \in Rowset
    BY <1>3, <1>5, <2>2, EditorAssumption DEF Rowset
  <2>4. PICK t : t = [rows EXCEPT ![f] = x]
    OBVIOUS
  <2>5. t \in Texts /\ Len(t) = Len(rows) /\ t[f] = x
    <3>1. rows \in Seq(Rowset)
      BY DEF Texts
    <3>2. t \in Seq(Rowset) /\ Len(t) = Len(rows) /\ \A j \in 1 .. Len(rows) : t[j] = IF j = f THEN x ELSE rows[j]
      BY <2>3, <2>4, <3>1, ExceptSeq
    <3> QED
      BY <3>2 DEF Texts
  <2>6. Type(e, ch) = [rows |-> t, cx |-> cx + 1, cy |-> cy, rowoff |-> rowoff, dirty |-> TRUE]
    <3>1. Type(e, ch) = [e EXCEPT !.rows[f] = InsertAt(@, e.cx + 1, ch), !.cx = @ + 1, !.dirty = TRUE]
      BY <1>2, <1>3, <1>5 DEF Type
    <3>2. InsertAt(e.rows[f], e.cx + 1, ch) = x
      BY <1>1, <1>2, <1>3, <2>1, <2>2
    <3>3. PICK a : a = [e EXCEPT !.rows[f] = x]
      OBVIOUS
    <3>4. a = [rows |-> t, cx |-> cx, cy |-> cy, rowoff |-> rowoff, dirty |-> dirty]
      BY <1>1, <2>4, <3>3
    <3>5. Type(e, ch) = [a EXCEPT !.cx = @ + 1, !.dirty = TRUE]
      BY <3>1, <3>2, <3>3
    <3> QED
      BY <3>4, <3>5
  <2>7. PICK y \in Nat : y = cx + 1
    OBVIOUS
  <2> PICK d \in BOOLEAN : d = TRUE
    OBVIOUS
  <2>8. cy + rowoff + 1 <= Len(t) /\ y <= Len(t[cy + rowoff + 1])
    BY <1>2, <1>3, <2>2, <2>5, <2>7 DEF Texts
  <2>9. [rows |-> t, cx |-> y, cy |-> cy, rowoff |-> rowoff, dirty |-> d] \in Edits
    BY <2>5, <2>8, MakesEdit
  <2> QED
    BY <2>6, <2>7, <2>9
<1> QED
  BY <1>4, <1>5

LEMMA RuboutEdits ==
  ASSUME NEW e \in Edits, e.cx > 0
  PROVE  Backspace(e) \in Edits /\ Backspace(e).dirty
<1>1. PICK rows \in Texts, cx \in Nat, cy \in 0 .. Rows - 1, rowoff \in Nat, dirty \in BOOLEAN :
        e = [rows |-> rows, cx |-> cx, cy |-> cy, rowoff |-> rowoff, dirty |-> dirty]
  BY EditIs
<1>2. PICK f \in 1 .. Len(rows) : f = FileRow(e) /\ f = cy + rowoff + 1 /\ Row(e) = rows[f]
  BY <1>1, EditIs
<1>3. PICK s \in Seq(Chars) : s = Row(e) /\ Len(s) \in 0 .. Cols - 1 /\ cx \in 0 .. Len(s)
  BY <1>1, EditIs
<1>4. cx \in 1 .. Len(s)
  BY <1>1, <1>3
<1>5. PICK x : x = RemoveAt(s, cx) /\ x \in Seq(Chars) /\ Len(x) = Len(s) - 1
  BY <1>4, RemoveAtIs
<1>6. x \in Rowset
  <2>1. Len(x) < Cols
    BY <1>3, <1>5, EditorAssumption
  <2> QED
    BY <1>5, <2>1 DEF Rowset
<1>7. PICK t : t = [rows EXCEPT ![f] = x]
  OBVIOUS
<1>8. t \in Texts /\ Len(t) = Len(rows) /\ t[f] = x
  <2>1. rows \in Seq(Rowset)
    BY DEF Texts
  <2>2. t \in Seq(Rowset) /\ Len(t) = Len(rows) /\ \A j \in 1 .. Len(rows) : t[j] = IF j = f THEN x ELSE rows[j]
    BY <1>6, <1>7, <2>1, ExceptSeq
  <2> QED
    BY <2>2 DEF Texts
<1>9. Backspace(e) = [rows |-> t, cx |-> cx - 1, cy |-> cy, rowoff |-> rowoff, dirty |-> TRUE]
  <2>1. Backspace(e) = [e EXCEPT !.rows[f] = RemoveAt(@, e.cx), !.cx = @ - 1, !.dirty = TRUE]
    BY <1>2 DEF Backspace
  <2>2. RemoveAt(e.rows[f], e.cx) = x
    BY <1>1, <1>2, <1>3, <1>5
  <2>3. PICK a : a = [e EXCEPT !.rows[f] = x]
    OBVIOUS
  <2>4. a = [rows |-> t, cx |-> cx, cy |-> cy, rowoff |-> rowoff, dirty |-> dirty]
    BY <1>1, <1>7, <2>3
  <2>5. Backspace(e) = [a EXCEPT !.cx = @ - 1, !.dirty = TRUE]
    BY <2>1, <2>2, <2>3
  <2> QED
    BY <2>4, <2>5
<1>10. PICK y \in Nat : y = cx - 1
  BY <1>4
<1> PICK d \in BOOLEAN : d = TRUE
  OBVIOUS
<1>11. cy + rowoff + 1 <= Len(t) /\ y <= Len(t[cy + rowoff + 1])
  BY <1>2, <1>3, <1>5, <1>8, <1>10 DEF Texts
<1>12. [rows |-> t, cx |-> y, cy |-> cy, rowoff |-> rowoff, dirty |-> d] \in Edits
  BY <1>8, <1>11, MakesEdit
<1> QED
  BY <1>9, <1>10, <1>12

(* In column 0, where the row fits on the one above.                       *)
LEMMA JoinedIs ==
  ASSUME NEW e \in Edits, JoinFits(e)
  PROVE  \E t \in Texts, y \in 0 .. Rows - 1, o \in Nat :
           /\ FileRow(e) - 1 \in 1 .. Len(e.rows)
           /\ Len(t) = Len(e.rows) - 1
           /\ t[FileRow(e) - 1] = e.rows[FileRow(e) - 1] \o Row(e)
           /\ \A i \in 1 .. FileRow(e) - 2 : t[i] = e.rows[i]
           /\ \A i \in FileRow(e) .. Len(t) : t[i] = e.rows[i + 1]
           /\ y + o + 1 = FileRow(e) - 1 /\ (e.cy > 0 => y = e.cy - 1 /\ o = e.rowoff)
           /\ Joined(e) = [rows |-> t, cx |-> Len(e.rows[FileRow(e) - 1]),
                           cy |-> y, rowoff |-> o, dirty |-> TRUE]
           /\ Joined(e) \in Edits
<1>1. PICK rows \in Texts, cx \in Nat, cy \in 0 .. Rows - 1, rowoff \in Nat, dirty \in BOOLEAN :
        e = [rows |-> rows, cx |-> cx, cy |-> cy, rowoff |-> rowoff, dirty |-> dirty]
  BY EditIs
<1>2. PICK f \in 1 .. Len(rows) : f = FileRow(e) /\ f = cy + rowoff + 1 /\ Row(e) = rows[f]
  BY <1>1, EditIs
<1>3. PICK n \in 1 .. Rows : n = Len(rows)
  BY <1>1 DEF Texts
<1>4. PICK g \in 1 .. Len(rows) : g = f - 1 /\ Len(rows[g]) + Len(rows[f]) < Cols - 1
  <2>1. f > 1 /\ f - 1 \in 1 .. Len(rows)
    BY <1>2, <1>3 DEF JoinFits
  <2>2. e.rows[FileRow(e) - 1] = rows[f - 1] /\ Row(e) = rows[f]
    BY <1>1, <1>2
  <2>3. Len(rows[f - 1]) + Len(rows[f]) < Cols - 1
    BY <2>2 DEF JoinFits
  <2> QED
    BY <2>1, <2>3
<1>5. rows \in Seq(Rowset) /\ rows[g] \in Rowset /\ rows[f] \in Rowset
  BY ElementOfSeq DEF Texts
<1>6. PICK x : /\ x = rows[g] \o rows[f] /\ x \in Rowset
               /\ Len(x) = Len(rows[g]) + Len(rows[f]) /\ Len(rows[g]) \in Nat /\ Len(rows[g]) <= Len(x)
  <2>0. PICK a \in Seq(Chars), b \in Seq(Chars) : a = rows[g] /\ b = rows[f]
    BY <1>5 DEF Rowset
  <2>1. PICK x : a = rows[g] /\ b = rows[f] /\ x = a \o b
    BY <2>0
  <2>2. x \in Seq(Chars) /\ Len(x) = Len(a) + Len(b)
    BY <2>1, ConcatProperties
  <2>3. Len(a) \in Nat /\ Len(b) \in Nat
    BY LenProperties
  <2>4. Len(x) < Cols
    <3>1. Len(a) + Len(b) < Cols - 1
      BY <1>4, <2>1
    <3> QED
      BY <2>2, <2>3, <3>1, EditorAssumption
  <2>5. x \in Rowset
    BY <2>2, <2>4 DEF Rowset
  <2>6. Len(a) \in Nat /\ Len(a) <= Len(x)
    BY <2>2, <2>3
  <2> QED
    BY <2>1, <2>2, <2>5, <2>6
<1>7. PICK new \in Seq(Rowset) : new = <<x>> /\ Len(new) = 1 /\ new[1] = x
  <2>1. <<x>> \in Seq(Rowset) /\ Len(<<x>>) = 1
    BY <1>6
  <2> QED
    BY <2>1
<1>8. PICK t : t = Spliced(rows, g, f, new)
  OBVIOUS
<1>9. /\ t \in Texts /\ Len(t) = n - 1
      /\ \A i \in 1 .. n - 1 : t[i] = IF i < g THEN rows[i]
                                      ELSE IF i < g + 1 THEN new[i - g + 1] ELSE rows[i - 1 + 2]
  <2>1. f \in g - 1 .. Len(rows)
    BY <1>3, <1>4
  <2>2. f - g + 1 = 2 /\ Len(rows) - (f - g + 1) + Len(new) = n - 1 /\ n - 1 \in 1 .. Rows
    BY <1>3, <1>4, <1>7, EditorAssumption
  <2>3. /\ t \in Texts
        /\ Len(t) = Len(rows) - (f - g + 1) + Len(new)
        /\ \A i \in 1 .. Len(t) :
             t[i] = IF i < g THEN rows[i]
                    ELSE IF i < g + Len(new) THEN new[i - g + 1]
                    ELSE rows[i - Len(new) + (f - g + 1)]
    BY <1>8, <2>1, <2>2, SplicedText
  <2> QED
    BY <1>7, <2>2, <2>3
<1>10. /\ t[g] = x
       /\ \A i \in 1 .. g - 1 : t[i] = rows[i]
       /\ \A i \in f .. n - 1 : t[i] = rows[i + 1]
  <2>1. g \in 1 .. n - 1 /\ ~(g < g) /\ g < g + 1 /\ g - g + 1 = 1
    BY <1>3, <1>4
  <2>2. \A i \in 1 .. g - 1 : i \in 1 .. n - 1 /\ i < g
    BY <1>3, <1>4
  <2>3. \A i \in f .. n - 1 : i \in 1 .. n - 1 /\ ~(i < g) /\ ~(i < g + 1) /\ i - 1 + 2 = i + 1
    BY <1>3, <1>4
  <2>4. t[g] = new[1]
    BY <1>9, <2>1
  <2> QED
    BY <1>7, <1>9, <2>2, <2>3, <2>4
<1>11. PICK d : d = [rows |-> t, cx |-> Len(rows[g]), cy |-> cy, rowoff |-> rowoff, dirty |-> TRUE]
  OBVIOUS
<1>12. d = [e EXCEPT !.rows = t, !.cx = Len(rows[g]), !.dirty = TRUE]
  <2>1. PICK c : c = Len(rows[g])
    OBVIOUS
  <2>2. PICK z : z = [e EXCEPT !.rows = t, !.cx = c, !.dirty = TRUE]
    OBVIOUS
  <2>3. z = [rows |-> t, cx |-> c, cy |-> cy, rowoff |-> rowoff, dirty |-> TRUE]
    BY <1>1, <2>2
  <2> QED
    BY <1>11, <2>1, <2>2, <2>3
<1>13. Joined(e) = IF e.cy > 0 THEN [d EXCEPT !.cy = @ - 1]
                   ELSE IF e.rowoff > 0 THEN [d EXCEPT !.rowoff = @ - 1] ELSE d
  <2>1. Spliced(e.rows, FileRow(e) - 1, FileRow(e), <<e.rows[FileRow(e) - 1] \o Row(e)>>) = t
    BY <1>1, <1>2, <1>4, <1>6, <1>7, <1>8
  <2>2. Len(e.rows[FileRow(e) - 1]) = Len(rows[g])
    BY <1>1, <1>2, <1>4
  <2> QED
    BY <1>12, <2>1, <2>2 DEF Joined
<1>14. PICK y \in 0 .. Rows - 1, o \in Nat :
         /\ y + o + 1 = g /\ (cy > 0 => y = cy - 1 /\ o = rowoff)
         /\ Joined(e) = [rows |-> t, cx |-> Len(rows[g]), cy |-> y, rowoff |-> o, dirty |-> TRUE]
  <2>1. CASE cy > 0
    <3>1. Joined(e) = [rows |-> t, cx |-> Len(rows[g]), cy |-> cy - 1, rowoff |-> rowoff, dirty |-> TRUE]
      BY <1>1, <1>11, <1>13, <2>1
    <3>2. cy - 1 \in 0 .. Rows - 1 /\ (cy - 1) + rowoff + 1 = g
      BY <1>2, <1>4, <2>1, EditorAssumption
    <3> QED
      BY <3>1, <3>2
  <2>2. CASE ~(cy > 0)
    <3>1. rowoff > 0 /\ rowoff - 1 \in Nat /\ cy + (rowoff - 1) + 1 = g
      BY <1>2, <1>4, <2>2, EditorAssumption
    <3>2. Joined(e) = [rows |-> t, cx |-> Len(rows[g]), cy |-> cy, rowoff |-> rowoff - 1, dirty |-> TRUE]
      BY <1>1, <1>11, <1>13, <2>2, <3>1
    <3> QED
      BY <2>2, <3>1, <3>2
  <2> QED
    BY <2>1, <2>2
<1>15. Joined(e) \in Edits
  <2>1. PICK c \in Nat : c = Len(rows[g]) /\ c <= Len(x)
    BY <1>6
  <2>2. y + o + 1 <= Len(t) /\ c <= Len(t[y + o + 1])
    <3>1. y + o + 1 = g /\ t[g] = x
      BY <1>10, <1>14
    <3>2. g <= Len(t)
      BY <1>3, <1>4, <1>9
    <3> QED
      BY <2>1, <3>1, <3>2
  <2> PICK b \in BOOLEAN : b = TRUE
    OBVIOUS
  <2>3. [rows |-> t, cx |-> c, cy |-> y, rowoff |-> o, dirty |-> b] \in Edits
    BY <1>9, <2>2, MakesEdit
  <2> QED
    BY <1>14, <2>1, <2>3
<1>16. /\ e.rows = rows /\ e.cy = cy /\ e.rowoff = rowoff /\ FileRow(e) = f /\ Row(e) = rows[f]
       /\ f - 1 = g /\ f - 2 = g - 1 /\ Len(rows) = n
  BY <1>1, <1>2, <1>3, <1>4
<1>17. \A i \in f .. Len(t) : t[i] = rows[i + 1]
  BY <1>9, <1>10
<1>18. FileRow(e) - 1 = g /\ FileRow(e) - 2 = g - 1
  BY <1>16
<1>19. t[FileRow(e) - 1] = e.rows[FileRow(e) - 1] \o Row(e)
  BY <1>6, <1>10, <1>16, <1>18
<1>20. /\ \A i \in 1 .. FileRow(e) - 2 : t[i] = e.rows[i]
       /\ \A i \in FileRow(e) .. Len(t) : t[i] = e.rows[i + 1]
  BY <1>10, <1>16, <1>17, <1>18
<1>21. /\ y + o + 1 = FileRow(e) - 1 /\ (e.cy > 0 => y = e.cy - 1 /\ o = e.rowoff)
       /\ FileRow(e) - 1 \in 1 .. Len(e.rows) /\ Len(t) = Len(e.rows) - 1
  BY <1>9, <1>14, <1>16, <1>18
<1>22. Joined(e) = [rows |-> t, cx |-> Len(e.rows[FileRow(e) - 1]),
                    cy |-> y, rowoff |-> o, dirty |-> TRUE]
  BY <1>14, <1>16, <1>18
<1> QED
  BY <1>9, <1>15, <1>19, <1>20, <1>21, <1>22

LEMMA BackspaceEdits ==
  ASSUME NEW e \in Edits
  PROVE  Backspace(e) \in Edits /\ (Backspace(e) = e \/ Backspace(e).dirty)
<1>1. CASE e.cx > 0
  BY <1>1, RuboutEdits
<1>2. CASE ~(e.cx > 0) /\ JoinFits(e)
  <2>1. Backspace(e) = Joined(e)
    BY <1>2 DEF Backspace
  <2>2. Joined(e) \in Edits /\ Joined(e).dirty = TRUE
    BY <1>2, JoinedIs
  <2> QED
    BY <2>1, <2>2
<1>3. CASE ~(e.cx > 0) /\ ~JoinFits(e)
  BY <1>3 DEF Backspace
<1> QED
  BY <1>1, <1>2, <1>3
-----------------------------------------------------------------------------
(* Opening, character by character.                                        *)
Fresh == [rows |-> << >>, line |-> << >>]

Accs ==
  {a \in [rows : Seq(Rowset), line : Rowset] :
     Len(a.rows) <= Rows /\ (Len(a.rows) = Rows => a.line = << >>)}

Take(acc, ch) ==
  IF Len(acc.rows) = Rows THEN acc
  ELSE IF ch = NL THEN [rows |-> Append(acc.rows, acc.line), line |-> << >>]
  ELSE IF Len(acc.line) < Cols - 1
  THEN [acc EXCEPT !.line = Append(@, ch)] ELSE acc

Whole(end) ==
  LET all == IF end.line = << >> THEN end.rows ELSE Append(end.rows, end.line)
  IN  IF all = << >> THEN << << >> >> ELSE all

Reads(a, s, b) ==
  \E P \in [0 .. Len(s) -> Accs] :
    /\ P[0] = a /\ P[Len(s)] = b
    /\ \A k \in 1 .. Len(s) : P[k] = Take(P[k - 1], s[k])

Loading(f, content) ==
  f = [s \in SUBSET DOMAIN content |->
         IF s = {} THEN Fresh ELSE Take(f[s \ {Max(s)}], content[Max(s)])]

LEMMA AccIs ==
  ASSUME NEW a \in Accs
  PROVE  /\ a = [rows |-> a.rows, line |-> a.line]
         /\ a.rows \in Seq(Rowset) /\ a.line \in Rowset
         /\ Len(a.rows) \in 0 .. Rows /\ (Len(a.rows) = Rows => a.line = << >>)
         /\ a.line \in Seq(Chars) /\ Len(a.line) \in 0 .. Cols - 1
<1>1. /\ a = [rows |-> a.rows, line |-> a.line]
      /\ a.rows \in Seq(Rowset) /\ a.line \in Rowset
      /\ Len(a.rows) <= Rows /\ (Len(a.rows) = Rows => a.line = << >>)
  BY DEF Accs
<1>2. Len(a.rows) \in 0 .. Rows
  BY <1>1, LenProperties, EditorAssumption
<1>3. a.line \in Seq(Chars) /\ Len(a.line) \in 0 .. Cols - 1
  BY <1>1, LenProperties, EditorAssumption DEF Rowset
<1> QED
  BY <1>1, <1>2, <1>3

LEMMA EmptyRow == << >> \in Rowset /\ << >> \in Seq(Rowset) /\ << >> \in Seq(Chars)
<1>1. << >> \in Seq(Chars) /\ Len(<< >>) = 0
  BY EmptySeq
<1>2. << >> \in Seq(Rowset)
  BY EmptySeq
<1> QED
  BY <1>1, <1>2, EditorAssumption DEF Rowset

LEMMA FreshIs == Fresh \in Accs
<1>1. Len(<< >>) = 0 /\ Rows \in Nat
  BY EmptySeq, EditorAssumption
<1> QED
  BY <1>1, EmptyRow DEF Fresh, Accs

(* The end of a line, and a character of one.                              *)
LEMMA TakesNewline ==
  ASSUME NEW a \in Accs, Len(a.rows) < Rows
  PROVE  /\ Take(a, NL) = [rows |-> Append(a.rows, a.line), line |-> << >>]
         /\ Take(a, NL) \in Accs
<1>1. PICK r \in Seq(Rowset) : r = Append(a.rows, a.line) /\ Len(r) = Len(a.rows) + 1
  <2>1. a.rows \in Seq(Rowset) /\ a.line \in Rowset
    BY AccIs
  <2>2. Append(a.rows, a.line) \in Seq(Rowset) /\ Len(Append(a.rows, a.line)) = Len(a.rows) + 1
    BY <2>1
  <2> QED
    BY <2>2
<1>2. Len(a.rows) # Rows /\ Len(r) <= Rows
  BY <1>1, AccIs, EditorAssumption
<1>3. Take(a, NL) = [rows |-> r, line |-> << >>]
  BY <1>1, <1>2 DEF Take
<1>4. [rows |-> r, line |-> << >>] \in Accs
  BY <1>2, EmptyRow DEF Accs
<1> QED
  BY <1>1, <1>3, <1>4

LEMMA TakesChar ==
  ASSUME NEW a \in Accs, Len(a.rows) < Rows, NEW ch \in Chars, Len(a.line) < Cols - 1
  PROVE  /\ Take(a, ch) = [rows |-> a.rows, line |-> Append(a.line, ch)]
         /\ Take(a, ch) \in Accs
<1>1. PICK l \in Seq(Chars) : l = Append(a.line, ch) /\ Len(l) = Len(a.line) + 1
  <2>1. a.line \in Seq(Chars)
    BY AccIs
  <2>2. Append(a.line, ch) \in Seq(Chars) /\ Len(Append(a.line, ch)) = Len(a.line) + 1
    BY <2>1
  <2> QED
    BY <2>2
<1>2. l \in Rowset
  <2>1. Len(l) < Cols
    BY <1>1, AccIs, EditorAssumption
  <2> QED
    BY <2>1 DEF Rowset
<1>3. Len(a.rows) # Rows /\ ch # NL /\ Len(a.rows) <= Rows
  BY AccIs, EditorAssumption
<1>4. Take(a, ch) = [rows |-> a.rows, line |-> l]
  <2>1. Take(a, ch) = [a EXCEPT !.line = l]
    BY <1>1, <1>3 DEF Take
  <2> QED
    BY <2>1, AccIs
<1>5. [rows |-> a.rows, line |-> l] \in Accs
  BY <1>2, <1>3, AccIs DEF Accs
<1> QED
  BY <1>1, <1>4, <1>5

LEMMA TakeIs ==
  ASSUME NEW a \in Accs, NEW ch \in Chars \cup {NL}
  PROVE  Take(a, ch) \in Accs
<1>1. CASE Len(a.rows) = Rows
  BY <1>1 DEF Take
<1>2. CASE Len(a.rows) # Rows
  <2>1. Len(a.rows) < Rows
    BY <1>2, AccIs, EditorAssumption
  <2>2. CASE ch = NL
    BY <2>1, <2>2, TakesNewline
  <2>3. CASE ch # NL /\ Len(a.line) < Cols - 1
    BY <2>1, <2>3, TakesChar
  <2>4. CASE ch # NL /\ ~(Len(a.line) < Cols - 1)
    BY <1>2, <2>4 DEF Take
  <2> QED
    BY <2>2, <2>3, <2>4
<1> QED
  BY <1>1, <1>2

LEMMA LoadIsFold ==
  ASSUME NEW content
  PROVE  Load(content) = Whole((CHOOSE f : Loading(f, content))[DOMAIN content])
BY DEF Load, FoldLeft, MapThenFoldSet, Loading, Take, Whole, Fresh

LEMMA LoadReads ==
  ASSUME NEW content \in Files
  PROVE  \E b \in Accs : Reads(Fresh, content, b) /\ Load(content) = Whole(b)
<1>1. PICK n \in Nat : n = Len(content) /\ DOMAIN content = 1 .. n
  BY LenProperties DEF Files
<1>2. PICK F : F = [p \in Accs \X (1 .. n) |-> Take(p[1], content[p[2]])]
  OBVIOUS
<1>3. F \in [Accs \X (1 .. n) -> Accs]
  <2>1. \A x \in Accs, i \in 1 .. n : Take(x, content[i]) \in Accs
    BY <1>1, TakeIs, ElementOfSeq DEF Files
  <2> QED
    BY <1>2, <2>1
<1>4. Fresh \in Accs
  BY FreshIs
<1>5. PICK g : IsFold(g, n, Fresh, F, Accs)
  BY <1>3, <1>4, FoldExists
<1>6. Loading(g, content)
  <2>1. ASSUME NEW s \in SUBSET (1 .. n), s # {}
        PROVE  g[s] = Take(g[s \ {Max(s)}], content[Max(s)])
    <3>1. Max(s) \in 1 .. n
      BY <2>1, LargestExists
    <3>2. g[s \ {Max(s)}] \in Accs
      BY <1>5 DEF IsFold
    <3> QED
      BY <1>2, <1>5, <2>1, <3>1, <3>2 DEF IsFold
  <2>2. g \in [SUBSET (1 .. n) -> Accs] /\ g[{}] = Fresh
    BY <1>5 DEF IsFold
  <2> QED
    BY <1>1, <2>1, <2>2 DEF Loading
<1>7. PICK h : Loading(h, content) /\ Load(content) = Whole(h[1 .. n])
  BY <1>1, <1>6, LoadIsFold
<1>8. ASSUME NEW s \in SUBSET (1 .. n), s # {}, h[s \ {Max(s)}] \in Accs
      PROVE  h[s] = F[<<h[s \ {Max(s)}], Max(s)>>]
  <2>1. Max(s) \in 1 .. n
    BY <1>8, LargestExists
  <2>2. h[s] = Take(h[s \ {Max(s)}], content[Max(s)])
    BY <1>1, <1>7, <1>8 DEF Loading
  <2> QED
    BY <1>2, <1>8, <2>1, <2>2
<1>9. GoesOn(h, n, Fresh, F, Accs)
  BY <1>1, <1>7, <1>8 DEF GoesOn, Loading
<1>10. PICK P : IsRun(P, n, Fresh, h[1 .. n], F, Accs)
  BY <1>3, <1>4, <1>9, FoldRuns
<1>11. ASSUME NEW k \in 1 .. n PROVE P[k] = Take(P[k - 1], content[k])
  <2>1. k - 1 \in 0 .. n
    OBVIOUS
  <2>2. P[k - 1] \in Accs /\ P[k] = F[<<P[k - 1], k>>]
    BY <1>10, <2>1 DEF IsRun
  <2> QED
    BY <1>2, <2>2
<1>12. P \in [0 .. n -> Accs] /\ P[0] = Fresh /\ P[n] = h[1 .. n]
  BY <1>10 DEF IsRun
<1>13. h[1 .. n] \in Accs
  BY <1>12
<1> QED
  BY <1>1, <1>7, <1>11, <1>12, <1>13 DEF Reads

LEMMA WholeIs ==
  ASSUME NEW b \in Accs
  PROVE  Whole(b) \in Texts
<1>1. CASE b.line # << >>
  <2>1. PICK r \in Seq(Rowset) : r = Append(b.rows, b.line) /\ Len(r) = Len(b.rows) + 1
    <3>1. b.rows \in Seq(Rowset) /\ b.line \in Rowset
      BY AccIs
    <3>2. Append(b.rows, b.line) \in Seq(Rowset) /\ Len(Append(b.rows, b.line)) = Len(b.rows) + 1
      BY <3>1
    <3> QED
      BY <3>2
  <2>2. Len(r) \in 1 .. Rows
    BY <1>1, <2>1, AccIs, EditorAssumption
  <2>3. r # << >>
    BY <2>2, EmptySeq
  <2>4. Whole(b) = r
    BY <1>1, <2>1, <2>3 DEF Whole
  <2> QED
    BY <2>2, <2>4 DEF Texts
<1>2. CASE b.line = << >> /\ b.rows # << >>
  <2>1. Whole(b) = b.rows
    BY <1>2 DEF Whole
  <2>2. Len(b.rows) \in 1 .. Rows
    BY <1>2, AccIs, EmptySeq, EditorAssumption
  <2> QED
    BY <2>1, <2>2, AccIs DEF Texts
<1>3. CASE b.line = << >> /\ b.rows = << >>
  <2>1. Whole(b) = << << >> >>
    BY <1>3 DEF Whole
  <2>2. PICK r \in Rowset : r = << >>
    BY EmptyRow
  <2>3. <<r>> \in Seq(Rowset) /\ Len(<<r>>) = 1
    OBVIOUS
  <2>4. 1 \in 1 .. Rows
    BY EditorAssumption
  <2> QED
    BY <2>1, <2>2, <2>3, <2>4 DEF Texts
<1> QED
  BY <1>1, <1>2, <1>3

LEMMA LoadIsText ==
  ASSUME NEW content \in Files
  PROVE  Load(content) \in Texts
BY LoadReads, WholeIs

LEMMA OpenedIs ==
  ASSUME NEW content \in Files
  PROVE  Opened(content) \in Edits /\ Opened(content).rows = Load(content)
<1>1. PICK t \in Texts : t = Load(content)
  BY LoadIsText
<1>2. PICK z \in Nat : z = 0
  OBVIOUS
<1>3. z \in 0 .. Rows - 1 /\ z + z + 1 = 1 /\ 1 \in 1 .. Len(t)
  BY <1>2, EditorAssumption DEF Texts
<1>4. t[z + z + 1] \in Rowset
  BY <1>3, ElementOfSeq DEF Texts
<1>5. z <= Len(t[z + z + 1]) /\ z + z + 1 <= Len(t)
  BY <1>2, <1>3, <1>4, LenProperties DEF Rowset, Texts
<1> PICK b \in BOOLEAN : b = FALSE
  OBVIOUS
<1>6. [rows |-> t, cx |-> z, cy |-> z, rowoff |-> z, dirty |-> b] \in Edits
  BY <1>3, <1>5, MakesEdit
<1>7. Opened(content) = [rows |-> t, cx |-> z, cy |-> z, rowoff |-> z, dirty |-> b]
  BY <1>1, <1>2 DEF Opened
<1> QED
  BY <1>1, <1>6, <1>7
-----------------------------------------------------------------------------
(* Saving, row by row.                                                     *)
Piece(out, row) == SubSeq(row, 1, Min({Len(row), Room - Len(out)}))

Put(out, row) ==
  IF Len(out) < Room THEN Longer(Glued(out, Piece(out, row)), NL) ELSE out

Storing(f, rows) ==
  f = [s \in SUBSET DOMAIN rows |->
         IF s = {} THEN << >> ELSE Put(f[s \ {Max(s)}], rows[Max(s)])]

LEMMA PieceIs ==
  ASSUME NEW out \in Files, Len(out) < Room, NEW row \in Rowset
  PROVE  /\ Piece(out, row) \in Rowset /\ Len(Piece(out, row)) <= Room - Len(out)
         /\ Len(out) + Len(row) <= Room => Piece(out, row) = row
<1>1. PICK n \in Nat, o \in Nat, m \in Nat : n = Len(row) /\ o = Len(out) /\ m = Room
  <2>1. Room \in Nat
    BY EditorAssumption DEF Room
  <2> QED
    BY <2>1, LenProperties DEF Rowset, Files
<1>2. PICK k \in Nat : /\ k = Min({Len(row), Room - Len(out)}) /\ k <= n /\ k <= m - o
                       /\ n <= m - o => k = n
  <2>1. CASE n <= m - o
    <3>1. Min({n, m - o}) = n
      BY <1>1, <2>1 DEF Min
    <3> QED
      BY <1>1, <2>1, <3>1
  <2>2. CASE ~(n <= m - o)
    <3>1. Min({n, m - o}) = m - o
      BY <1>1, <2>2 DEF Min
    <3>2. m - o \in Nat
      BY <1>1
    <3> QED
      BY <1>1, <2>2, <3>1, <3>2
  <2> QED
    BY <2>1, <2>2
<1>3. row \in Seq(Chars) /\ n < Cols
  BY <1>1 DEF Rowset
<1>4. Piece(out, row) = SubSeq(row, 1, k)
  BY <1>2 DEF Piece
<1>5. SubSeq(row, 1, k) \in Seq(Chars) /\ Len(SubSeq(row, 1, k)) = k
  <2>1. \A i \in 1 .. k : row[i] \in Chars
    BY <1>1, <1>2, <1>3, ElementOfSeq
  <2>2. /\ SubSeq(row, 1, k) \in Seq(Chars)
        /\ Len(SubSeq(row, 1, k)) = IF 1 <= k THEN k - 1 + 1 ELSE 0
    BY <2>1, SubSeqProperties
  <2>3. (IF 1 <= k THEN k - 1 + 1 ELSE 0) = k
    OBVIOUS
  <2> QED
    BY <2>2, <2>3
<1>6. Piece(out, row) \in Rowset
  <2>1. k < Cols
    BY <1>2, <1>3, EditorAssumption
  <2> QED
    BY <1>4, <1>5, <2>1 DEF Rowset
<1>7. Len(out) + Len(row) <= Room => Piece(out, row) = row
  <2>1. SUFFICES ASSUME Len(out) + Len(row) <= Room PROVE Piece(out, row) = row
    OBVIOUS
  <2>2. k = n
    BY <1>1, <1>2, <2>1
  <2> QED
    BY <1>1, <1>3, <1>4, <2>2, SubSeqFull
<1>8. k <= Room - Len(out)
  BY <1>1, <1>2
<1> QED
  BY <1>4, <1>5, <1>6, <1>7, <1>8

(* A row and its newline behind what is there.                             *)
LEMMA RowBehind ==
  ASSUME NEW w \in Files, NEW row \in Rowset
  PROVE  /\ Longer(Glued(w, row), NL) \in Files
         /\ Len(Longer(Glued(w, row), NL)) = Len(w) + Len(row) + 1
         /\ Longer(Glued(w, row), NL) = Glued(w, Longer(row, NL))
         /\ Longer(row, NL) \in Files
<1> DEFINE S == Chars \cup {NL}
<1>1. row \in Seq(S) /\ w \in Seq(S) /\ NL \in S
  <2>1. row \in Seq(Chars) /\ Chars \subseteq S
    BY DEF Rowset
  <2> QED
    BY <2>1, SeqMonotonic DEF Files
<1> HIDE DEF S
<1>2. PICK g \in Seq(S) : g = w \o row /\ Len(g) = Len(w) + Len(row)
  BY <1>1, ConcatProperties
<1>3. Append(g, NL) \in Seq(S) /\ Len(Append(g, NL)) = Len(g) + 1 /\ Append(row, NL) \in Seq(S)
  BY <1>1
<1>4. Longer(Glued(w, row), NL) = Glued(w, Longer(row, NL))
  BY <1>1, AppendBehind
<1> QED
  BY <1>2, <1>3, <1>4 DEF Longer, Glued, Files, S

LEMMA PutIs ==
  ASSUME NEW out \in Files, NEW row \in Rowset
  PROVE  Put(out, row) \in Files
BY PieceIs, RowBehind DEF Put

LEMMA StoreIsFold ==
  ASSUME NEW rows
  PROVE  Store(rows) = (CHOOSE f : Storing(f, rows))[DOMAIN rows]
BY DEF Store, FoldLeft, MapThenFoldSet, Storing, Put, Piece, Longer, Glued

LEMMA StoreRuns ==
  ASSUME NEW rows \in Texts
  PROVE  \E Q \in [0 .. Len(rows) -> Files] :
           /\ Q[0] = << >> /\ Q[Len(rows)] = Store(rows)
           /\ \A k \in 1 .. Len(rows) : Q[k] = Put(Q[k - 1], rows[k])
<1>1. PICK n \in Nat : n = Len(rows) /\ DOMAIN rows = 1 .. n
  BY LenProperties DEF Texts
<1>2. PICK F : F = [p \in Files \X (1 .. n) |-> Put(p[1], rows[p[2]])]
  OBVIOUS
<1>3. F \in [Files \X (1 .. n) -> Files]
  <2>1. \A x \in Files, i \in 1 .. n : Put(x, rows[i]) \in Files
    BY <1>1, PutIs, ElementOfSeq DEF Texts
  <2> QED
    BY <1>2, <2>1
<1>4. << >> \in Files
  BY EmptySeq DEF Files
<1>5. PICK g : IsFold(g, n, << >>, F, Files)
  BY <1>3, <1>4, FoldExists
<1>6. Storing(g, rows)
  <2>1. ASSUME NEW s \in SUBSET (1 .. n), s # {}
        PROVE  g[s] = Put(g[s \ {Max(s)}], rows[Max(s)])
    <3>1. Max(s) \in 1 .. n
      BY <2>1, LargestExists
    <3>2. g[s \ {Max(s)}] \in Files
      BY <1>5 DEF IsFold
    <3> QED
      BY <1>2, <1>5, <2>1, <3>1, <3>2 DEF IsFold
  <2>2. g \in [SUBSET (1 .. n) -> Files] /\ g[{}] = << >>
    BY <1>5 DEF IsFold
  <2> QED
    BY <1>1, <2>1, <2>2 DEF Storing
<1>7. PICK h : Storing(h, rows) /\ Store(rows) = h[1 .. n]
  BY <1>1, <1>6, StoreIsFold
<1>8. ASSUME NEW s \in SUBSET (1 .. n), s # {}, h[s \ {Max(s)}] \in Files
      PROVE  h[s] = F[<<h[s \ {Max(s)}], Max(s)>>]
  <2>1. Max(s) \in 1 .. n
    BY <1>8, LargestExists
  <2>2. h[s] = Put(h[s \ {Max(s)}], rows[Max(s)])
    BY <1>1, <1>7, <1>8 DEF Storing
  <2> QED
    BY <1>2, <1>8, <2>1, <2>2
<1>9. GoesOn(h, n, << >>, F, Files)
  BY <1>1, <1>7, <1>8 DEF GoesOn, Storing
<1>10. PICK P : IsRun(P, n, << >>, h[1 .. n], F, Files)
  BY <1>3, <1>4, <1>9, FoldRuns
<1>11. ASSUME NEW k \in 1 .. n PROVE P[k] = Put(P[k - 1], rows[k])
  <2>1. k - 1 \in 0 .. n
    OBVIOUS
  <2>2. P[k - 1] \in Files /\ P[k] = F[<<P[k - 1], k>>]
    BY <1>10, <2>1 DEF IsRun
  <2> QED
    BY <1>2, <2>2
<1>12. P \in [0 .. n -> Files] /\ P[0] = << >> /\ P[n] = h[1 .. n]
  BY <1>10 DEF IsRun
<1> QED
  BY <1>1, <1>7, <1>11, <1>12

LEMMA StoreIsFile ==
  ASSUME NEW rows \in Texts
  PROVE  Store(rows) \in Files
<1>1. PICK Q \in [0 .. Len(rows) -> Files] : Q[Len(rows)] = Store(rows)
  BY StoreRuns
<1>2. Len(rows) \in 0 .. Len(rows)
  BY EditorAssumption DEF Texts
<1> QED
  BY <1>1, <1>2

-----------------------------------------------------------------------------
(* Every key keeps the cursor in the text.                                 *)
Inv == ed \in Edits /\ file \in Files

LEMMA LinesAreFiles ==
  ASSUME NEW line \in ShellLines
  PROVE  line \in Files /\ line \in Rowset /\ Len(line) < InlineSize
<1>1. line \in Seq(Chars) /\ Len(line) < Cols /\ Len(line) < InlineSize
  BY EditorAssumption
<1>2. line \in Seq(Chars \cup {NL})
  BY <1>1, SeqMonotonic
<1> QED
  BY <1>1, <1>2 DEF Rowset, Files

LEMMA InitInv == Init => Inv
<1>1. << >> \in Files
  BY EmptySeq DEF Files
<1> QED
  BY <1>1, OpenedIs, LinesAreFiles DEF Init, Inv

LEMMA SaveInv == ASSUME Inv, Save PROVE Inv'
<1>1. PICK rows \in Texts, cx \in Nat, cy \in 0 .. Rows - 1, rowoff \in Nat, dirty \in BOOLEAN :
        ed = [rows |-> rows, cx |-> cx, cy |-> cy, rowoff |-> rowoff, dirty |-> dirty]
  BY EditIs DEF Inv
<1>2. ed' = [rows |-> rows, cx |-> cx, cy |-> cy, rowoff |-> rowoff, dirty |-> FALSE]
  BY <1>1 DEF Save
<1>3. cy + rowoff + 1 <= Len(rows) /\ cx <= Len(rows[cy + rowoff + 1])
  BY <1>1 DEF Inv, Edits, FileRow, Row
<1> PICK b \in BOOLEAN : b = FALSE
  OBVIOUS
<1>4. [rows |-> rows, cx |-> cx, cy |-> cy, rowoff |-> rowoff, dirty |-> b] \in Edits
  BY <1>3, MakesEdit
<1>5. ed' \in Edits
  BY <1>2, <1>4
<1>6. file' \in Files
  BY <1>1, StoreIsFile DEF Save
<1> QED
  BY <1>5, <1>6 DEF Inv

LEMMA MoveInv == ASSUME Inv, Move PROVE Inv' /\ ed'.rows = ed.rows /\ ed'.dirty = ed.dirty
BY UpIs, DownIs, SidewaysIs DEF Inv, Move

LEMMA ChangeInv == ASSUME Inv, Change PROVE Inv' /\ (ed' = ed \/ ed'.dirty)
BY EnterEdits, BackspaceEdits, TypeEdits DEF Inv, Change

LEMMA NextInv == ASSUME Inv, [Next]_vars PROVE Inv'
<1>1. CASE Open
  BY <1>1, OpenedIs DEF Open, Inv
<1>2. CASE ShellWrite
  BY <1>2, LinesAreFiles DEF ShellWrite, Inv
<1>3. CASE Quit
  BY <1>3 DEF Quit, Inv
<1>4. CASE Save
  BY <1>4, SaveInv
<1>5. CASE Move
  BY <1>5, MoveInv
<1>6. CASE Change
  BY <1>6, ChangeInv
<1>7. CASE UNCHANGED vars
  BY <1>7 DEF vars, Inv
<1> QED
  BY <1>1, <1>2, <1>3, <1>4, <1>5, <1>6, <1>7 DEF Next

(* The cursor stands in the text, whatever keys are pressed: E.row and its *)
(* chars are only read and written where there is a row and a character,   *)
(* and neither the rows nor a row grow out of their arrays.                *)
THEOREM CursorIsInText == Spec => []CursorInText
<1>1. Init => Inv
  BY InitInv
<1>2. Inv /\ [Next]_vars => Inv'
  BY NextInv
<1>3. Inv => CursorInText
  <2>1. SUFFICES ASSUME Inv PROVE CursorInText
    OBVIOUS
  <2>2. ed \in Edits
    BY <2>1 DEF Inv
  <2>3. \A i \in DOMAIN ed.rows : ed.rows[i] \in Rowset
    <3>1. ed.rows \in Seq(Rowset)
      BY <2>2, EditIs
    <3>2. DOMAIN ed.rows = 1 .. Len(ed.rows)
      BY <3>1, LenProperties
    <3> QED
      BY <3>1, <3>2, ElementOfSeq
  <2>4. /\ Len(ed.rows) \in 1 .. Rows /\ ed.cy \in 0 .. Rows - 1 /\ ed.rowoff \in Nat
        /\ FileRow(ed) <= Len(ed.rows) /\ ed.cx \in 0 .. Len(Row(ed))
    BY <2>2, EditIs, EditorAssumption
  <2> QED
    BY <2>3, <2>4 DEF CursorInText, Rowset
<1> QED
  BY <1>1, <1>2, <1>3, PTL DEF Spec
-----------------------------------------------------------------------------
(* Enter and then Backspace.                                               *)
LEMMA UndoesEnter ==
  ASSUME NEW e \in Edits, Len(e.rows) < Rows, Len(Row(e)) < Cols - 1
  PROVE  Backspace(Enter(e)) = [e EXCEPT !.dirty = TRUE]
<1>1. PICK rows \in Texts, cx \in Nat, cy \in 0 .. Rows - 1, rowoff \in Nat, dirty \in BOOLEAN :
        e = [rows |-> rows, cx |-> cx, cy |-> cy, rowoff |-> rowoff, dirty |-> dirty]
  BY EditIs
<1>2. PICK f \in 1 .. Len(rows) : f = FileRow(e) /\ f = cy + rowoff + 1 /\ Row(e) = rows[f]
  BY <1>1, EditIs
<1>3. PICK n \in 1 .. Rows : n = Len(rows)
  BY <1>1 DEF Texts
<1>4. PICK head \in Rowset, tail \in Rowset, t \in Texts :
        /\ Len(head) = e.cx /\ head \o tail = Row(e) /\ Len(head) + Len(tail) = Len(Row(e))
        /\ Len(t) = Len(e.rows) + 1
        /\ t[FileRow(e)] = head /\ t[FileRow(e) + 1] = tail
        /\ \A i \in 1 .. FileRow(e) - 1 : t[i] = e.rows[i]
        /\ \A i \in FileRow(e) + 1 .. Len(e.rows) : t[i + 1] = e.rows[i]
        /\ e.cy + 1 \in 0 .. Rows - 1
        /\ Enter(e) = [rows |-> t, cx |-> 0, cy |-> e.cy + 1, rowoff |-> e.rowoff, dirty |-> TRUE]
  BY EnterIs
<1>5. /\ Len(head) = cx /\ Len(t) = n + 1 /\ t[f] = head /\ t[f + 1] = tail
      /\ \A i \in 1 .. f - 1 : t[i] = rows[i]
      /\ \A i \in f + 1 .. n : t[i + 1] = rows[i]
  BY <1>1, <1>2, <1>3, <1>4
<1>6. PICK d \in Edits : /\ d = Enter(e)
                         /\ d.rows = t /\ d.cx = 0 /\ d.cy = cy + 1 /\ d.rowoff = rowoff
  BY <1>1, <1>4, EnterEdits
<1>7. PICK g \in Nat : g = f + 1 /\ FileRow(d) = g /\ Row(d) = tail /\ g - 1 = f /\ g - 2 = f - 1
  <2>1. FileRow(d) = f + 1
    BY <1>2, <1>6, EditorAssumption DEF FileRow
  <2> QED
    BY <1>5, <1>6, <2>1 DEF Row
<1>8. JoinFits(d)
  <2>1. Len(t[f]) + Len(tail) < Cols - 1
    BY <1>4, <1>5
  <2>2. FileRow(d) > 1 /\ FileRow(d) - 1 = f
    BY <1>7
  <2> QED
    BY <1>6, <1>7, <2>1, <2>2 DEF JoinFits
<1>9. PICK u \in Texts, y \in 0 .. Rows - 1, o \in Nat :
        /\ FileRow(d) - 1 \in 1 .. Len(d.rows)
        /\ Len(u) = Len(d.rows) - 1
        /\ u[FileRow(d) - 1] = d.rows[FileRow(d) - 1] \o Row(d)
        /\ \A i \in 1 .. FileRow(d) - 2 : u[i] = d.rows[i]
        /\ \A i \in FileRow(d) .. Len(u) : u[i] = d.rows[i + 1]
        /\ y + o + 1 = FileRow(d) - 1 /\ (d.cy > 0 => y = d.cy - 1 /\ o = d.rowoff)
        /\ Joined(d) = [rows |-> u, cx |-> Len(d.rows[FileRow(d) - 1]),
                        cy |-> y, rowoff |-> o, dirty |-> TRUE]
  BY <1>8, JoinedIs, ZenonT(40)
<1>10. Len(u) = n /\ u[f] = rows[f]
  <2>1. Len(u) = n
    BY <1>5, <1>6, <1>9
  <2>2. u[f] = t[f] \o tail
    BY <1>6, <1>7, <1>9
  <2> QED
    BY <1>2, <1>4, <1>5, <2>1, <2>2
<1>11. \A i \in 1 .. f - 1 : u[i] = rows[i]
  BY <1>5, <1>6, <1>7, <1>9
<1>12. ASSUME NEW i \in f + 1 .. n PROVE u[i] = rows[i]
  <2>1. i \in FileRow(d) .. Len(u)
    BY <1>7, <1>10
  <2>2. u[i] = t[i + 1]
    BY <1>6, <1>9, <2>1
  <2> QED
    BY <1>5, <2>2
<1>13. u = rows
  <2>1. \A i \in 1 .. n : i \in 1 .. f - 1 \/ i = f \/ i \in f + 1 .. n
    OBVIOUS
  <2>2. \A i \in 1 .. n : u[i] = rows[i]
    BY <1>10, <1>11, <1>12, <2>1
  <2> QED
    BY <1>3, <1>10, <2>2, SeqEqual DEF Texts
<1>14. y = cy /\ o = rowoff
  BY <1>6, <1>9, EditorAssumption
<1>15. Len(d.rows[FileRow(d) - 1]) = cx
  BY <1>5, <1>6, <1>7
<1>16. Joined(d) = [rows |-> rows, cx |-> cx, cy |-> cy, rowoff |-> rowoff, dirty |-> TRUE]
  BY <1>9, <1>13, <1>14, <1>15
<1>17. Backspace(d) = Joined(d)
  BY <1>6, <1>8 DEF Backspace
<1>18. [e EXCEPT !.dirty = TRUE]
          = [rows |-> rows, cx |-> cx, cy |-> cy, rowoff |-> rowoff, dirty |-> TRUE]
  <2>1. PICK z : z = [e EXCEPT !.dirty = TRUE]
    OBVIOUS
  <2>2. z = [rows |-> rows, cx |-> cx, cy |-> cy, rowoff |-> rowoff, dirty |-> TRUE]
    BY <1>1, <2>1
  <2> QED
    BY <2>1, <2>2
<1> QED
  BY <1>6, <1>16, <1>17, <1>18

(* Wherever the cursor stands, Backspace puts together what Enter split,   *)
(* and brings the cursor back to where it was.                             *)
THEOREM BackspaceIsEntersInverse == Spec => []BackspaceUndoesEnter
<1>1. Init => Inv
  BY InitInv
<1>2. Inv /\ [Next]_vars => Inv'
  BY NextInv
<1>3. Inv => BackspaceUndoesEnter
  BY UndoesEnter DEF Inv, BackspaceUndoesEnter
<1> QED
  BY <1>1, <1>2, <1>3, PTL DEF Spec
-----------------------------------------------------------------------------
(* What was read goes on with the next character.                          *)
LEMMA ReadsNothing == Reads(Fresh, << >>, Fresh)
<1>1. PICK P : P = [k \in 0 .. 0 |-> Fresh]
  OBVIOUS
<1>2. Len(<< >>) = 0
  BY EmptySeq
<1>3. P \in [0 .. 0 -> Accs] /\ P[0] = Fresh
  BY <1>1, FreshIs
<1>4. 1 .. 0 = {}
  OBVIOUS
<1> QED
  BY <1>2, <1>3, <1>4 DEF Reads

LEMMA ReadsOn ==
  ASSUME NEW a, NEW w \in Files, NEW b \in Accs, Reads(a, w, b), NEW ch \in Chars \cup {NL}
  PROVE  Reads(a, Longer(w, ch), Take(b, ch))
<1>1. PICK n \in Nat : n = Len(w)
  BY LenProperties DEF Files
<1>2. PICK v : /\ v = Longer(w, ch) /\ v \in Files /\ Len(v) = n + 1 /\ v[n + 1] = ch
               /\ \A k \in 1 .. n : v[k] = w[k]
  <2>1. PICK v : v = Append(w, ch)
    OBVIOUS
  <2>2. w \in Seq(Chars \cup {NL})
    BY DEF Files
  <2>3. /\ v \in Seq(Chars \cup {NL}) /\ Len(v) = n + 1 /\ v[n + 1] = ch
        /\ \A k \in 1 .. n : v[k] = w[k]
    BY <1>1, <2>1, <2>2
  <2> QED
    BY <2>1, <2>3 DEF Longer, Files
<1>3. PICK P \in [0 .. n -> Accs] :
        P[0] = a /\ P[n] = b /\ \A k \in 1 .. n : P[k] = Take(P[k - 1], w[k])
  BY <1>1 DEF Reads
<1>4. PICK R : R = [k \in 0 .. n + 1 |-> IF k = n + 1 THEN Take(b, ch) ELSE P[k]]
  OBVIOUS
<1>5. \A k \in 0 .. n + 1 : k # n + 1 => k \in 0 .. n
  OBVIOUS
<1>6. R \in [0 .. n + 1 -> Accs]
  BY <1>3, <1>4, <1>5, TakeIs
<1>7. R[0] = a /\ R[n + 1] = Take(b, ch)
  <2>1. 0 \in 0 .. n + 1 /\ 0 # n + 1 /\ n + 1 \in 0 .. n + 1
    OBVIOUS
  <2> QED
    BY <1>3, <1>4, <2>1
<1>8. ASSUME NEW k \in 1 .. n + 1 PROVE R[k] = Take(R[k - 1], v[k])
  <2>1. k \in 0 .. n + 1 /\ k - 1 \in 0 .. n + 1 /\ k - 1 \in 0 .. n /\ k - 1 # n + 1
    OBVIOUS
  <2>2. R[k - 1] = P[k - 1]
    BY <1>4, <2>1
  <2>3. CASE k = n + 1
    <3>1. k - 1 = n
      BY <2>3
    <3> QED
      BY <1>2, <1>3, <1>7, <2>2, <2>3, <3>1
  <2>4. CASE k # n + 1
    <3>1. k \in 1 .. n
      BY <2>4
    <3> QED
      BY <1>2, <1>3, <1>4, <2>1, <2>2, <2>4, <3>1
  <2> QED
    BY <2>3, <2>4
<1> QED
  BY <1>2, <1>6, <1>7, <1>8 DEF Reads

LEMMA ReadsOnce ==
  ASSUME NEW a, NEW w \in Files, NEW b, NEW c, Reads(a, w, b), Reads(a, w, c)
  PROVE  b = c
<1>1. PICK n \in Nat : n = Len(w)
  BY LenProperties DEF Files
<1>2. PICK P \in [0 .. n -> Accs] :
        P[0] = a /\ P[n] = b /\ \A k \in 1 .. n : P[k] = Take(P[k - 1], w[k])
  BY <1>1 DEF Reads
<1>3. PICK R \in [0 .. n -> Accs] :
        R[0] = a /\ R[n] = c /\ \A k \in 1 .. n : R[k] = Take(R[k - 1], w[k])
  BY <1>1 DEF Reads
<1> DEFINE G == {k \in 0 .. n : P[k] = R[k]}
<1> HIDE DEF G
<1>4. 0 \in G
  BY <1>2, <1>3 DEF G
<1>5. ASSUME NEW k \in 1 .. n, k - 1 \in G PROVE k \in G
  <2>1. P[k] = R[k]
    BY <1>2, <1>3, <1>5 DEF G
  <2> QED
    BY <2>1 DEF G
<1>6. \A k \in 0 .. n : k \in G
  BY <1>4, <1>5, StepByStep
<1>7. n \in 0 .. n
  OBVIOUS
<1>8. n \in G
  BY <1>6, <1>7
<1> QED
  BY <1>2, <1>3, <1>8 DEF G

LEMMA LoadIs ==
  ASSUME NEW content \in Files, NEW b \in Accs, Reads(Fresh, content, b)
  PROVE  Load(content) = Whole(b)
BY LoadReads, ReadsOnce

(* A line, character by character.                                         *)
LEMMA ReadsLine ==
  ASSUME NEW w \in Files, NEW b \in Accs, Reads(Fresh, w, b),
         b.line = << >>, Len(b.rows) < Rows, NEW row \in Rowset
  PROVE  /\ [rows |-> b.rows, line |-> row] \in Accs
         /\ Glued(w, row) \in Files
         /\ Reads(Fresh, Glued(w, row), [rows |-> b.rows, line |-> row])
<1>1. PICK n \in Nat : n = Len(row) /\ n < Cols
  BY LenProperties DEF Rowset
<1>2. row \in Seq(Chars) /\ b.rows \in Seq(Rowset)
  BY AccIs DEF Rowset
<1> DEFINE Upto(k) == SubSeq(row, 1, k)
<1> DEFINE G == {k \in 0 .. n :
     /\ Upto(k) \in Rowset /\ Len(Upto(k)) = k
     /\ [rows |-> b.rows, line |-> Upto(k)] \in Accs
     /\ Glued(w, Upto(k)) \in Files
     /\ Reads(Fresh, Glued(w, Upto(k)), [rows |-> b.rows, line |-> Upto(k)])}
<1>3. 0 \in G
  <2>1. Upto(0) = << >>
    BY SubSeqEmpty
  <2>2. Glued(w, << >>) = w
    BY ConcatEmptySeq DEF Glued, Files
  <2>3. b = [rows |-> b.rows, line |-> << >>]
    BY AccIs
  <2>4. Len(<< >>) = 0 /\ << >> \in Rowset
    BY EmptySeq, EmptyRow
  <2> HIDE DEF Upto
  <2> QED
    BY <2>1, <2>2, <2>3, <2>4
<1> HIDE DEF G
<1>4. ASSUME NEW k \in 1 .. n, k - 1 \in G PROVE k \in G
  <2>1. PICK x, z : x = Upto(k - 1) /\ z = Upto(k)
    OBVIOUS
  <2>2. PICK d : d = [rows |-> b.rows, line |-> x]
    OBVIOUS
  <2>3. /\ x \in Rowset /\ Len(x) = k - 1 /\ d \in Accs /\ Glued(w, x) \in Files
        /\ Reads(Fresh, Glued(w, x), d)
    BY <1>4, <2>1, <2>2 DEF G
  <2>4. k \in 1 .. Len(row) /\ row[k] \in Chars
    BY <1>1, <1>2, ElementOfSeq
  <2>5. z \in Seq(Chars) /\ Len(z) = k /\ Longer(x, row[k]) = z
    BY <1>2, <2>1, <2>4, PrefixGrows DEF Longer
  <2>6. z \in Rowset
    <3>1. Len(z) < Cols
      BY <1>1, <2>5, EditorAssumption
    <3> QED
      BY <2>5, <3>1 DEF Rowset
  <2>7. Take(d, row[k]) = [rows |-> b.rows, line |-> z] /\ Take(d, row[k]) \in Accs
    <3>1. Len(d.rows) < Rows /\ Len(d.line) < Cols - 1
      BY <1>1, <2>2, <2>3, EditorAssumption
    <3>2. Take(d, row[k]) = [rows |-> d.rows, line |-> Append(d.line, row[k])]
      BY <2>3, <2>4, <3>1, TakesChar
    <3>3. Take(d, row[k]) \in Accs
      BY <2>3, <2>4, <3>1, TakesChar
    <3> QED
      BY <2>2, <2>5, <3>2, <3>3 DEF Longer
  <2>8. Glued(w, z) = Longer(Glued(w, x), row[k])
    <3>1. w \in Seq(Chars \cup {NL}) /\ x \in Seq(Chars \cup {NL}) /\ row[k] \in Chars \cup {NL}
      <4>1. x \in Seq(Chars) /\ Chars \subseteq Chars \cup {NL}
        BY <2>3 DEF Rowset
      <4>2. x \in Seq(Chars \cup {NL})
        BY <4>1, SeqMonotonic
      <4> QED
        BY <2>4, <4>2 DEF Files
    <3>2. Longer(Glued(w, x), row[k]) = Glued(w, Longer(x, row[k]))
      BY <3>1, AppendBehind
    <3> QED
      BY <2>5, <3>2
  <2>9. Reads(Fresh, Glued(w, z), [rows |-> b.rows, line |-> z])
    BY <2>3, <2>4, <2>7, <2>8, ReadsOn
  <2>10. Glued(w, z) \in Files
    <3>1. z \in Seq(Chars \cup {NL})
      BY <2>5, SeqMonotonic
    <3> QED
      BY <3>1, ConcatProperties DEF Glued, Files
  <2> HIDE DEF Upto
  <2> QED
    BY <2>1, <2>5, <2>6, <2>7, <2>9, <2>10 DEF G
<1>5. \A k \in 0 .. n : k \in G
  BY <1>3, <1>4, StepByStep
<1>6. n \in G
  <2>1. n \in 0 .. n
    OBVIOUS
  <2> QED
    BY <1>5, <2>1
<1>7. Upto(n) = row
  BY <1>1, <1>2, SubSeqFull
<1> HIDE DEF Upto
<1> QED
  BY <1>6, <1>7 DEF G

LEMMA ReadsRow ==
  ASSUME NEW w \in Files, NEW b \in Accs, Reads(Fresh, w, b),
         b.line = << >>, Len(b.rows) < Rows, NEW row \in Rowset
  PROVE  /\ [rows |-> Append(b.rows, row), line |-> << >>] \in Accs
         /\ Reads(Fresh, Longer(Glued(w, row), NL), [rows |-> Append(b.rows, row), line |-> << >>])
<1>1. PICK d \in Accs : d = [rows |-> b.rows, line |-> row]
  BY ReadsLine
<1>2. PICK v \in Files : v = Glued(w, row)
  BY ReadsLine
<1>3. Reads(Fresh, v, d)
  BY <1>1, <1>2, ReadsLine
<1>4. Reads(Fresh, Longer(v, NL), Take(d, NL))
  BY <1>3, ReadsOn
<1>5. Len(d.rows) < Rows
  BY <1>1
<1>6. Take(d, NL) = [rows |-> Append(d.rows, d.line), line |-> << >>] /\ Take(d, NL) \in Accs
  BY <1>5, TakesNewline
<1> QED
  BY <1>1, <1>2, <1>4, <1>6
-----------------------------------------------------------------------------
(* The text of rows: each behind the others, with its newline.             *)
TextOf(P, rows, w) ==
  /\ P \in [0 .. Len(rows) -> Files]
  /\ P[0] = << >> /\ P[Len(rows)] = w
  /\ \A k \in 1 .. Len(rows) : P[k] = Longer(Glued(P[k - 1], rows[k]), NL)

LEMMA TextOnce ==
  ASSUME NEW rows \in Seq(Rowset), NEW P, NEW w, TextOf(P, rows, w), NEW R, NEW v, TextOf(R, rows, v)
  PROVE  w = v
<1>1. PICK n \in Nat : n = Len(rows)
  BY LenProperties
<1> DEFINE G == {k \in 0 .. n : P[k] = R[k]}
<1> HIDE DEF G
<1>2. 0 \in G
  BY DEF G, TextOf
<1>3. ASSUME NEW k \in 1 .. n, k - 1 \in G PROVE k \in G
  <2>1. P[k - 1] = R[k - 1] /\ k \in 0 .. n
    BY <1>3 DEF G
  <2>2. P[k] = R[k]
    BY <1>1, <2>1 DEF TextOf
  <2> QED
    BY <2>1, <2>2 DEF G
<1>4. \A k \in 0 .. n : k \in G
  BY <1>2, <1>3, StepByStep
<1>5. n \in G
  <2>1. n \in 0 .. n
    OBVIOUS
  <2> QED
    BY <1>4, <2>1
<1> QED
  BY <1>1, <1>5 DEF G, TextOf

LEMMA TextLonger ==
  ASSUME NEW rows \in Seq(Rowset), NEW P, NEW w, TextOf(P, rows, w), NEW row \in Rowset
  PROVE  \E R : TextOf(R, Append(rows, row), Longer(Glued(w, row), NL))
<1>1. PICK n \in Nat : n = Len(rows)
  BY LenProperties
<1>2. PICK more : /\ more = Append(rows, row) /\ Len(more) = n + 1 /\ more[n + 1] = row
                  /\ \A k \in 1 .. n : more[k] = rows[k]
  <2>1. PICK more : more = Append(rows, row)
    OBVIOUS
  <2>2. Len(more) = n + 1 /\ more[n + 1] = row /\ \A k \in 1 .. n : more[k] = rows[k]
    BY <1>1, <2>1
  <2> QED
    BY <2>1, <2>2
<1>3. /\ P \in [0 .. n -> Files] /\ P[0] = << >> /\ P[n] = w
      /\ \A k \in 1 .. n : P[k] = Longer(Glued(P[k - 1], rows[k]), NL)
  BY <1>1 DEF TextOf
<1>4. PICK v \in Files : v = Longer(Glued(w, row), NL)
  <2>1. w \in Files
    BY <1>3
  <2> QED
    BY <2>1, RowBehind
<1>5. PICK R : R = [k \in 0 .. n + 1 |-> IF k = n + 1 THEN v ELSE P[k]]
  OBVIOUS
<1>6. R \in [0 .. n + 1 -> Files]
  <2>1. \A k \in 0 .. n + 1 : k # n + 1 => k \in 0 .. n
    OBVIOUS
  <2> QED
    BY <1>3, <1>5, <2>1
<1>7. R[0] = << >> /\ R[n + 1] = v
  <2>1. 0 \in 0 .. n + 1 /\ 0 # n + 1 /\ n + 1 \in 0 .. n + 1
    OBVIOUS
  <2> QED
    BY <1>3, <1>5, <2>1
<1>8. ASSUME NEW k \in 1 .. n + 1 PROVE R[k] = Longer(Glued(R[k - 1], more[k]), NL)
  <2>1. k \in 0 .. n + 1 /\ k - 1 \in 0 .. n + 1 /\ k - 1 # n + 1
    OBVIOUS
  <2>2. R[k - 1] = P[k - 1]
    BY <1>5, <2>1
  <2>3. CASE k = n + 1
    <3>1. k - 1 = n
      BY <2>3
    <3> QED
      BY <1>2, <1>3, <1>4, <1>7, <2>2, <2>3, <3>1
  <2>4. CASE k # n + 1
    <3>1. k \in 1 .. n
      BY <2>4
    <3> QED
      BY <1>2, <1>3, <1>5, <2>1, <2>2, <2>4, <3>1
  <2> QED
    BY <2>3, <2>4
<1> QED
  BY <1>2, <1>4, <1>6, <1>7, <1>8 DEF TextOf

(* Opening such a text gives the rows.                                     *)
LEMMA LoadsText ==
  ASSUME NEW rows \in Texts, NEW P, NEW w, TextOf(P, rows, w)
  PROVE  w \in Files /\ Load(w) = rows
<1>1. PICK n \in 1 .. Rows : n = Len(rows) /\ n \in Nat /\ rows \in Seq(Rowset)
  BY EditorAssumption DEF Texts
<1>2. /\ P \in [0 .. n -> Files] /\ P[0] = << >> /\ P[n] = w
      /\ \A k \in 1 .. n : P[k] = Longer(Glued(P[k - 1], rows[k]), NL)
  BY <1>1 DEF TextOf
<1> DEFINE Upto(k) == SubSeq(rows, 1, k)
<1> DEFINE G == {k \in 0 .. n :
     /\ Upto(k) \in Seq(Rowset) /\ Len(Upto(k)) = k
     /\ [rows |-> Upto(k), line |-> << >>] \in Accs
     /\ Reads(Fresh, P[k], [rows |-> Upto(k), line |-> << >>])}
<1>3. 0 \in G
  <2>1. Upto(0) = << >>
    BY SubSeqEmpty
  <2>2. Fresh = [rows |-> << >>, line |-> << >>]
    BY DEF Fresh
  <2>3. Len(<< >>) = 0 /\ << >> \in Seq(Rowset)
    BY EmptySeq
  <2> HIDE DEF Upto
  <2>4. 0 \in 0 .. n
    BY <1>1
  <2>5. [rows |-> Upto(0), line |-> << >>] \in Accs
    BY <2>1, <2>2, FreshIs
  <2>6. Reads(Fresh, P[0], [rows |-> Upto(0), line |-> << >>])
    BY <1>2, <2>1, <2>2, ReadsNothing
  <2> QED
    BY <2>1, <2>3, <2>4, <2>5, <2>6
<1> HIDE DEF G
<1>4. ASSUME NEW k \in 1 .. n, k - 1 \in G PROVE k \in G
  <2>1. PICK x, z : x = Upto(k - 1) /\ z = Upto(k)
    OBVIOUS
  <2>2. PICK d : d = [rows |-> x, line |-> << >>]
    OBVIOUS
  <2>3. PICK v \in Files : v = P[k - 1]
    <3>1. k - 1 \in 0 .. n
      OBVIOUS
    <3> QED
      BY <1>2, <3>1
  <2>4. x \in Seq(Rowset) /\ Len(x) = k - 1 /\ d \in Accs /\ Reads(Fresh, v, d)
    BY <1>4, <2>1, <2>2, <2>3 DEF G
  <2>5. k \in 1 .. Len(rows) /\ rows[k] \in Rowset
    BY <1>1, ElementOfSeq
  <2>6. z \in Seq(Rowset) /\ Len(z) = k /\ Append(x, rows[k]) = z
    BY <1>1, <2>1, <2>5, PrefixGrows
  <2>7. Len(d.rows) < Rows /\ d.line = << >> /\ d.rows = x
    BY <1>1, <2>2, <2>4, EditorAssumption
  <2>8. /\ [rows |-> Append(d.rows, rows[k]), line |-> << >>] \in Accs
        /\ Reads(Fresh, Longer(Glued(v, rows[k]), NL),
                 [rows |-> Append(d.rows, rows[k]), line |-> << >>])
    BY <2>4, <2>5, <2>7, ReadsRow
  <2>9. P[k] = Longer(Glued(v, rows[k]), NL)
    BY <1>2, <2>3
  <2> HIDE DEF Upto
  <2>10. k \in 0 .. n
    BY <1>1
  <2>11. [rows |-> Upto(k), line |-> << >>] \in Accs
    BY <2>1, <2>6, <2>7, <2>8
  <2>12. Reads(Fresh, P[k], [rows |-> Upto(k), line |-> << >>])
    BY <2>1, <2>6, <2>7, <2>8, <2>9
  <2> QED
    BY <2>1, <2>6, <2>10, <2>11, <2>12 DEF G
<1>5. \A k \in 0 .. n : k \in G
  BY <1>1, <1>3, <1>4, StepByStep
<1>6. n \in G /\ n \in 0 .. n
  <2>1. n \in 0 .. n
    BY <1>1
  <2> QED
    BY <1>5, <2>1
<1>7. Upto(n) = rows
  BY <1>1, SubSeqFull
<1>8. PICK b \in Accs : b = [rows |-> rows, line |-> << >>] /\ Reads(Fresh, w, b)
  <2> HIDE DEF Upto
  <2> QED
    BY <1>2, <1>6, <1>7 DEF G
<1>9. w \in Files
  BY <1>2, <1>6
<1>10. rows # << >>
  BY <1>1, EmptySeq
<1>11. Whole(b) = rows
  BY <1>8, <1>10 DEF Whole
<1> QED
  BY <1>8, <1>9, <1>11, LoadIs

(* Lines gives the text of the rows.                                       *)
Flattening(f, seqs) ==
  f = [i \in 1 .. Len(seqs) |-> IF i = 1 THEN seqs[i] ELSE f[i - 1] \o seqs[i]]

LEMMA FlattenIs ==
  ASSUME NEW seqs, Len(seqs) # 0
  PROVE  FlattenSeq(seqs) = (CHOOSE f : Flattening(f, seqs))[Len(seqs)]
BY DEF FlattenSeq, Flattening

LEMMA LinesText ==
  ASSUME NEW rows \in Texts
  PROVE  \E P : TextOf(P, rows, Lines(rows))
<1>1. PICK n \in 1 .. Rows : n = Len(rows) /\ n \in Nat /\ rows \in Seq(Rowset) /\ DOMAIN rows = 1 .. n
  BY LenProperties, EditorAssumption DEF Texts
<1>2. PICK F : F = [p \in Files \X (1 .. n) |-> Longer(Glued(p[1], rows[p[2]]), NL)]
  OBVIOUS
<1>3. F \in [Files \X (1 .. n) -> Files]
  <2>1. \A x \in Files, i \in 1 .. n : Longer(Glued(x, rows[i]), NL) \in Files
    BY <1>1, RowBehind, ElementOfSeq
  <2> QED
    BY <1>2, <2>1
<1>4. << >> \in Files
  BY EmptySeq DEF Files
<1>5. PICK g : IsFold(g, n, << >>, F, Files)
  BY <1>1, <1>3, <1>4, FoldExists
<1>6. GoesOn(g, n, << >>, F, Files)
  BY <1>5 DEF IsFold, GoesOn
<1>7. PICK P : IsRun(P, n, << >>, g[1 .. n], F, Files)
  BY <1>1, <1>3, <1>4, <1>6, FoldRuns
<1>8. /\ P \in [0 .. n -> Files] /\ P[0] = << >>
      /\ \A k \in 1 .. n : P[k] = Longer(Glued(P[k - 1], rows[k]), NL)
  <2>1. \A k \in 1 .. n : k - 1 \in 0 .. n
    BY <1>1
  <2> QED
    BY <1>2, <1>7, <2>1 DEF IsRun
<1>9. PICK seqs : seqs = [i \in DOMAIN rows |-> Append(rows[i], NL)]
  OBVIOUS
<1>10. Len(seqs) = n /\ \A i \in 1 .. n : seqs[i] = Longer(rows[i], NL)
  BY <1>1, <1>9 DEF Longer
<1>11. ASSUME NEW k \in 1 .. n
       PROVE  P[k] = Glued(P[k - 1], seqs[k]) /\ (k = 1 => P[k] = seqs[k])
  <2>1. k - 1 \in 0 .. n /\ rows[k] \in Rowset
    BY <1>1, ElementOfSeq
  <2>2. PICK v \in Files : v = P[k - 1]
    BY <1>8, <2>1
  <2>3. /\ Longer(Glued(v, rows[k]), NL) = Glued(v, Longer(rows[k], NL))
        /\ Longer(rows[k], NL) \in Files
    BY <2>1, RowBehind
  <2>4. P[k] = Glued(v, seqs[k]) /\ seqs[k] \in Files
    BY <1>8, <1>10, <2>2, <2>3
  <2>5. k = 1 => Glued(v, seqs[k]) = seqs[k]
    <3>1. Glued(<< >>, seqs[k]) = seqs[k]
      BY <2>4, ConcatEmptySeq DEF Glued, Files
    <3>2. k = 1 => v = << >>
      BY <1>8, <2>2
    <3> QED
      BY <3>1, <3>2
  <2> QED
    BY <2>2, <2>4, <2>5
<1>12. PICK f : Flattening(f, seqs) /\ FlattenSeq(seqs) = f[n]
  <2>1. PICK f : f = [i \in 1 .. n |-> P[i]]
    OBVIOUS
  <2>2. ASSUME NEW i \in 1 .. n PROVE f[i] = IF i = 1 THEN seqs[i] ELSE f[i - 1] \o seqs[i]
    <3>1. CASE i = 1
      BY <1>11, <2>1, <3>1
    <3>2. CASE i # 1
      <4>1. i - 1 \in 1 .. n
        BY <1>1, <3>2
      <4> QED
        BY <1>11, <2>1, <3>2, <4>1 DEF Glued
    <3> QED
      BY <3>1, <3>2
  <2>3. Flattening(f, seqs)
    BY <1>10, <2>1, <2>2 DEF Flattening
  <2>4. Len(seqs) # 0
    BY <1>1, <1>10
  <2> QED
    BY <1>10, <2>3, <2>4, FlattenIs
<1> DEFINE G == {k \in 0 .. n : k = 0 \/ f[k] = P[k]}
<1> HIDE DEF G
<1>13. 0 \in G
  BY <1>1 DEF G
<1>14. ASSUME NEW k \in 1 .. n, k - 1 \in G PROVE k \in G
  <2>1. f[k] = IF k = 1 THEN seqs[k] ELSE f[k - 1] \o seqs[k]
    BY <1>10, <1>12 DEF Flattening
  <2>2. f[k] = P[k]
    <3>1. CASE k = 1
      BY <1>11, <2>1, <3>1
    <3>2. CASE k # 1
      <4>1. k - 1 # 0
        BY <3>2
      <4>2. f[k - 1] = P[k - 1]
        BY <1>14, <4>1 DEF G
      <4> QED
        BY <1>11, <2>1, <3>2, <4>2 DEF Glued
    <3> QED
      BY <3>1, <3>2
  <2>3. k \in 0 .. n
    BY <1>1
  <2> QED
    BY <2>2, <2>3 DEF G
<1>15. \A k \in 0 .. n : k \in G
  BY <1>1, <1>13, <1>14, StepByStep
<1>16. f[n] = P[n]
  <2>1. n \in 0 .. n /\ n # 0
    BY <1>1
  <2>2. n \in G
    BY <1>15, <2>1
  <2> QED
    BY <2>1, <2>2 DEF G
<1>17. P[n] = Lines(rows)
  BY <1>9, <1>12, <1>16 DEF Lines
<1> QED
  BY <1>1, <1>8, <1>17 DEF TextOf
-----------------------------------------------------------------------------
(* What is stored is the text of rows, the last of them perhaps cut, and   *)
(* leaves room for the NUL.                                                *)
LEMMA StoreText ==
  ASSUME NEW rows \in Texts
  PROVE  /\ Len(Store(rows)) < InlineSize
         /\ \E cut \in Texts : \E P : TextOf(P, cut, Store(rows))
<1>1. PICK n \in 1 .. Rows : n = Len(rows) /\ n \in Nat /\ rows \in Seq(Rowset)
  BY EditorAssumption DEF Texts
<1>2. PICK Q \in [0 .. n -> Files] :
        /\ Q[0] = << >> /\ Q[n] = Store(rows)
        /\ \A k \in 1 .. n : Q[k] = Put(Q[k - 1], rows[k])
  BY <1>1, StoreRuns
<1> DEFINE G == {k \in 0 .. n :
     /\ Len(Q[k]) < InlineSize
     /\ \E cut \in Seq(Rowset) : /\ Len(cut) <= k /\ (k > 0 => Len(cut) > 0)
                                 /\ \E P : TextOf(P, cut, Q[k])}
<1> HIDE DEF G
<1>3. 0 \in G
  <2>1. << >> \in Seq(Rowset) /\ Len(<< >>) = 0 /\ << >> \in Files
    BY EmptySeq DEF Files
  <2>2. PICK P : P = [k \in 0 .. 0 |-> << >>]
    OBVIOUS
  <2>3. 1 .. 0 = {} /\ 0 \in 0 .. n
    BY <1>1
  <2>4. TextOf(P, << >>, << >>)
    BY <2>1, <2>2, <2>3 DEF TextOf
  <2>5. Len(Q[0]) < InlineSize
    BY <1>2, <2>1, EditorAssumption
  <2> QED
    BY <1>2, <2>1, <2>3, <2>4, <2>5 DEF G
<1>4. ASSUME NEW k \in 1 .. n, k - 1 \in G PROVE k \in G
  <2>1. k \in 0 .. n /\ k - 1 \in 0 .. n /\ rows[k] \in Rowset
    BY <1>1, ElementOfSeq
  <2>2. PICK out \in Files : out = Q[k - 1] /\ Q[k] = Put(out, rows[k])
    BY <1>2, <2>1
  <2>3. PICK cut \in Seq(Rowset) : /\ Len(out) < InlineSize
                                   /\ Len(cut) <= k - 1 /\ (k - 1 > 0 => Len(cut) > 0)
                                   /\ \E P : TextOf(P, cut, out)
    BY <1>4, <2>2 DEF G
  <2> PICK P : TextOf(P, cut, out)
    BY <2>3
  <2>4. Len(cut) \in Nat /\ Len(out) \in Nat
    BY LenProperties DEF Files
  <2>5. CASE Len(out) < Room
    <3>1. PICK row \in Rowset : row = Piece(out, rows[k]) /\ Len(row) <= Room - Len(out)
      BY <2>1, <2>5, PieceIs
    <3>2. Q[k] = Longer(Glued(out, row), NL)
      BY <2>2, <2>5, <3>1 DEF Put
    <3>3. \E R : TextOf(R, Append(cut, row), Q[k])
      BY <2>3, <3>2, TextLonger
    <3>4. Append(cut, row) \in Seq(Rowset) /\ Len(Append(cut, row)) = Len(cut) + 1
      OBVIOUS
    <3>5. Len(Append(cut, row)) <= k /\ Len(Append(cut, row)) > 0
      BY <2>3, <2>4, <3>4
    <3>6. Len(Q[k]) < InlineSize
      <4>1. Len(Q[k]) = Len(out) + Len(row) + 1
        BY <3>2, RowBehind
      <4>2. Len(row) \in Nat
        BY LenProperties DEF Rowset
      <4>3. Room \in Int /\ InlineSize = Room + 2
        BY EditorAssumption DEF Room
      <4> QED
        BY <2>4, <3>1, <4>1, <4>2, <4>3
    <3> QED
      BY <2>1, <3>3, <3>4, <3>5, <3>6 DEF G
  <2>6. CASE ~(Len(out) < Room)
    <3>1. Q[k] = out
      BY <2>2, <2>6 DEF Put
    <3>2. k - 1 > 0
      <4>1. SUFFICES ASSUME k = 1 PROVE FALSE
        OBVIOUS
      <4>2. out = << >>
        BY <1>2, <2>2, <4>1
      <4>3. Len(out) = 0
        BY <4>2, EmptySeq
      <4>4. 0 < Room
        BY EditorAssumption DEF Room
      <4> QED
        BY <2>6, <4>3, <4>4
    <3>3. Len(cut) <= k /\ Len(cut) > 0
      BY <2>3, <2>4, <3>2
    <3> QED
      BY <2>1, <2>3, <3>1, <3>3 DEF G
  <2> QED
    BY <2>5, <2>6
<1>5. \A k \in 0 .. n : k \in G
  BY <1>1, <1>3, <1>4, StepByStep
<1>6. n \in G /\ n > 0
  <2>1. n \in 0 .. n
    BY <1>1
  <2> QED
    BY <1>1, <1>5, <2>1
<1>7. Len(Store(rows)) < InlineSize
  BY <1>2, <1>6 DEF G
<1>8. PICK cut \in Seq(Rowset) :
        Len(cut) <= n /\ Len(cut) > 0 /\ \E P : TextOf(P, cut, Store(rows))
  BY <1>2, <1>6 DEF G
<1>9. cut \in Texts
  <2>1. Len(cut) \in Nat
    BY LenProperties
  <2>2. Len(cut) \in 1 .. Rows
    BY <1>1, <1>8, <2>1, EditorAssumption
  <2> QED
    BY <2>2 DEF Texts
<1> QED
  BY <1>7, <1>8, <1>9

(* Where all the rows fit, nothing is cut.                                 *)
LEMMA FitsStores ==
  ASSUME NEW rows \in Texts, Fits(rows)
  PROVE  Store(rows) = Lines(rows)
<1>1. PICK n \in 1 .. Rows : n = Len(rows) /\ n \in Nat /\ rows \in Seq(Rowset)
  BY EditorAssumption DEF Texts
<1>2. PICK Q \in [0 .. n -> Files] :
        /\ Q[0] = << >> /\ Q[n] = Store(rows)
        /\ \A k \in 1 .. n : Q[k] = Put(Q[k - 1], rows[k])
  BY <1>1, StoreRuns
<1>3. PICK P \in [0 .. n -> Files] :
        /\ P[0] = << >> /\ P[n] = Lines(rows)
        /\ \A k \in 1 .. n : P[k] = Longer(Glued(P[k - 1], rows[k]), NL)
  BY <1>1, LinesText DEF TextOf
<1>4. Room \in Nat /\ Len(P[n]) <= Room
  BY <1>3, EditorAssumption DEF Fits, Room
<1>5. ASSUME NEW k \in 1 .. n
      PROVE  /\ P[k - 1] \in Files /\ rows[k] \in Rowset
             /\ Len(P[k - 1]) \in Nat /\ Len(rows[k]) \in Nat
             /\ Len(P[k]) = Len(P[k - 1]) + Len(rows[k]) + 1
  <2>1. k - 1 \in 0 .. n /\ rows[k] \in Rowset
    BY <1>1, ElementOfSeq
  <2>2. PICK v \in Files : v = P[k - 1]
    BY <1>3, <2>1
  <2>3. Len(Longer(Glued(v, rows[k]), NL)) = Len(v) + Len(rows[k]) + 1
    BY <2>1, RowBehind
  <2>4. Len(v) \in Nat /\ Len(rows[k]) \in Nat
    BY <2>1, LenProperties DEF Files, Rowset
  <2> QED
    BY <1>3, <2>1, <2>2, <2>3, <2>4
<1> DEFINE H == {j \in 0 .. n : Len(P[n - j]) <= Room}
<1> HIDE DEF H
<1>6. \A j \in 0 .. n : j \in H
  <2>1. 0 \in H
    <3>1. n - 0 = n /\ 0 \in 0 .. n
      BY <1>1
    <3> QED
      BY <1>4, <3>1 DEF H
  <2>2. ASSUME NEW j \in 1 .. n, j - 1 \in H PROVE j \in H
    <3>1. PICK k \in 1 .. n : k = n - (j - 1) /\ n - j = k - 1 /\ j \in 0 .. n
      <4>1. n - (j - 1) \in 1 .. n /\ n - j = (n - (j - 1)) - 1 /\ j \in 0 .. n
        BY <1>1
      <4> QED
        BY <4>1
    <3>2. Len(P[k]) <= Room
      BY <2>2, <3>1 DEF H
    <3>3. PICK a \in Nat, b \in Nat : a = Len(P[k - 1]) /\ Len(P[k]) = a + b + 1
      BY <1>5
    <3>4. Len(P[k - 1]) <= Room
      BY <1>4, <3>2, <3>3
    <3> QED
      BY <3>1, <3>4 DEF H
  <2> QED
    BY <1>1, <2>1, <2>2, StepByStep
<1>7. ASSUME NEW k \in 1 .. n PROVE Len(P[k]) <= Room
  <2>1. n - k \in 0 .. n /\ n - (n - k) = k
    BY <1>1
  <2>2. n - k \in H
    BY <1>6, <2>1
  <2> QED
    BY <2>1, <2>2 DEF H
<1> DEFINE G == {k \in 0 .. n : Q[k] = P[k]}
<1> HIDE DEF G
<1>8. 0 \in G
  BY <1>1, <1>2, <1>3 DEF G
<1>9. ASSUME NEW k \in 1 .. n, k - 1 \in G PROVE k \in G
  <2>1. PICK v \in Files : v = P[k - 1] /\ rows[k] \in Rowset
    BY <1>5
  <2>2. Q[k] = Put(v, rows[k])
    BY <1>2, <1>9, <2>1 DEF G
  <2>3. Len(v) < Room /\ Len(v) + Len(rows[k]) <= Room
    <3>1. PICK a \in Nat, b \in Nat :
            a = Len(P[k - 1]) /\ b = Len(rows[k]) /\ Len(P[k]) = a + b + 1
      BY <1>5
    <3>2. a + b + 1 <= Room
      BY <1>7, <3>1
    <3>3. a < Room /\ a + b <= Room
      BY <1>4, <3>2
    <3> QED
      BY <2>1, <3>1, <3>3
  <2>4. Piece(v, rows[k]) = rows[k]
    BY <2>1, <2>3, PieceIs
  <2>5. Q[k] = P[k]
    BY <1>3, <2>1, <2>2, <2>3, <2>4 DEF Put
  <2>6. k \in 0 .. n
    BY <1>1
  <2> QED
    BY <2>5, <2>6 DEF G
<1>10. \A k \in 0 .. n : k \in G
  BY <1>1, <1>8, <1>9, StepByStep
<1>11. n \in G
  <2>1. n \in 0 .. n
    BY <1>1
  <2> QED
    BY <1>10, <2>1
<1> QED
  BY <1>2, <1>3, <1>11 DEF G

-----------------------------------------------------------------------------
(* A file has been written by `write` or by ^S.                            *)
Written == file \in ShellLines \/ \E cut \in Texts : \E P : TextOf(P, cut, file)

LEMMA ShowsLine ==
  ASSUME NEW line \in ShellLines
  PROVE  Lines(Load(line)) = Append(line, NL)
<1>1. line \in Files /\ line \in Rowset
  BY LinesAreFiles
<1>2. PICK empty \in Files : empty = << >>
  BY EmptySeq DEF Files
<1>3. PICK b \in Accs : b = Fresh /\ b.line = << >> /\ b.rows = << >> /\ Len(b.rows) = 0
  BY FreshIs, EmptySeq DEF Fresh
<1>4. Glued(empty, line) = line
  BY <1>1, <1>2, ConcatEmptySeq DEF Glued, Files
<1>5. PICK d \in Accs : d = [rows |-> << >>, line |-> line] /\ Reads(Fresh, line, d)
  <2>1. Reads(Fresh, empty, b) /\ Len(b.rows) < Rows
    BY <1>2, <1>3, ReadsNothing, EditorAssumption
  <2>2. /\ [rows |-> b.rows, line |-> line] \in Accs
        /\ Reads(Fresh, Glued(empty, line), [rows |-> b.rows, line |-> line])
    BY <1>1, <1>3, <2>1, ReadsLine
  <2> QED
    BY <1>3, <1>4, <2>2
<1>6. PICK t \in Seq(Rowset) : t = <<line>> /\ Len(t) = 1 /\ t[1] = line
  <2>1. <<line>> \in Seq(Rowset) /\ Len(<<line>>) = 1
    BY <1>1
  <2> QED
    BY <2>1
<1>7. Load(line) = t
  <2>1. Load(line) = Whole(d)
    BY <1>1, <1>5, LoadIs
  <2>2. CASE line = << >>
    <3>1. d.line = << >> /\ d.rows = << >>
      BY <1>5, <2>2
    <3>2. Whole(d) = << << >> >>
      BY <3>1 DEF Whole
    <3> QED
      BY <1>6, <2>1, <2>2, <3>2
  <2>3. CASE line # << >>
    <3>1. d.line = line /\ d.rows = << >>
      BY <1>5
    <3>2. Append(<< >>, line) = t /\ t # << >>
      BY <1>6
    <3> QED
      BY <2>1, <2>3, <3>1, <3>2 DEF Whole
  <2> QED
    BY <2>2, <2>3
<1>8. t \in Texts
  BY <1>6, EditorAssumption DEF Texts
<1>9. PICK P : TextOf(P, t, Lines(t))
  BY <1>8, LinesText
<1>10. Lines(t) = Longer(Glued(empty, line), NL)
  <2>1. P[0] = << >> /\ P[1] = Lines(t) /\ P[1] = Longer(Glued(P[1 - 1], t[1]), NL)
    BY <1>6, <1>9 DEF TextOf
  <2>2. 1 - 1 = 0
    OBVIOUS
  <2> QED
    BY <1>2, <1>6, <2>1, <2>2
<1> QED
  BY <1>4, <1>7, <1>10 DEF Longer

LEMMA WrittenShows == Written => OpenShowsAll
<1>1. CASE file \in ShellLines
  BY <1>1, ShowsLine DEF OpenShowsAll
<1>2. ASSUME NEW cut \in Texts, NEW P, TextOf(P, cut, file) PROVE OpenShowsAll
  <2>1. Load(file) = cut
    BY <1>2, LoadsText
  <2>2. PICK R : TextOf(R, cut, Lines(cut))
    BY LinesText
  <2>3. Lines(cut) = file
    BY <1>2, <2>2, TextOnce DEF Texts
  <2> QED
    BY <2>1, <2>3 DEF OpenShowsAll
<1> QED
  BY <1>1, <1>2 DEF Written

LEMMA NextWritten == ASSUME Inv, Written, [Next]_vars PROVE Written'
<1>1. CASE ShellWrite
  BY <1>1 DEF ShellWrite, Written
<1>2. CASE Save
  <2>1. ed.rows \in Texts
    BY EditIs DEF Inv
  <2>2. \E cut \in Texts : \E P : TextOf(P, cut, Store(ed.rows))
    BY <2>1, StoreText
  <2> QED
    BY <1>2, <2>2 DEF Save, Written
<1>3. CASE UNCHANGED file
  BY <1>3 DEF Written
<1> QED
  BY <1>1, <1>2, <1>3 DEF Next, Open, Quit, Move, Change, vars

(* Whatever was written into the file, by the shell or by the editor that  *)
(* had to cut it, opening it shows all of it.                              *)
THEOREM OpeningShowsAll == Spec => []OpenShowsAll
<1>1. Init => Inv /\ Written
  BY InitInv DEF Init, Written
<1>2. Inv /\ Written /\ [Next]_vars => (Inv /\ Written)'
  BY NextInv, NextWritten
<1>3. Inv /\ Written => OpenShowsAll
  BY WrittenShows
<1> QED
  BY <1>1, <1>2, <1>3, PTL DEF Spec

(* A save makes it so, whatever the text.                                  *)
LEMMA SavesClean == ASSUME Inv, Save PROVE CleanMeansStored'
<1>1. PICK rows \in Texts : rows = ed.rows
  BY EditIs DEF Inv
<1>2. file' = Store(rows) /\ ed'.rows = rows
  <2>1. PICK cx, cy, rowoff, dirty :
          ed = [rows |-> rows, cx |-> cx, cy |-> cy, rowoff |-> rowoff, dirty |-> dirty]
    BY <1>1, EditIs DEF Inv
  <2> QED
    BY <1>1, <2>1 DEF Save
<1>3. Len(file') < InlineSize
  BY <1>2, StoreText
<1>4. ASSUME Fits(rows) PROVE Load(Store(rows)) = rows
  <2>1. Store(rows) = Lines(rows)
    BY <1>4, FitsStores
  <2>2. PICK P : TextOf(P, rows, Lines(rows))
    BY LinesText
  <2> QED
    BY <2>1, <2>2, LoadsText
<1> QED
  BY <1>2, <1>3, <1>4 DEF CleanMeansStored, Fits, Lines

(* An unmodified text is the one in the file: cmd_edit clears dirty only   *)
(* when it opens and when it saves, and every key that changes the text    *)
(* sets it.  And a file always leaves room for its NUL.                    *)
THEOREM CleanIsStored == Spec => []CleanMeansStored
<1>1. Init => Inv /\ CleanMeansStored
  BY InitInv, LinesAreFiles DEF Init, CleanMeansStored
<1>2. ASSUME Inv, CleanMeansStored, [Next]_vars PROVE CleanMeansStored'
  <2>1. CASE Open
    BY <1>2, <2>1 DEF Open, Opened, CleanMeansStored
  <2>2. CASE ShellWrite
    BY <2>2, LinesAreFiles DEF ShellWrite, CleanMeansStored
  <2>3. CASE Quit
    BY <1>2, <2>3 DEF Quit, CleanMeansStored
  <2>4. CASE Save
    BY <1>2, <2>4, SavesClean
  <2>5. CASE Move
    <3>1. ed'.rows = ed.rows /\ ed'.dirty = ed.dirty
      BY <1>2, <2>5, MoveInv
    <3> QED
      BY <1>2, <2>5, <3>1 DEF Move, CleanMeansStored, Fits
  <2>6. CASE Change
    <3>1. ed' = ed \/ ed'.dirty
      BY <1>2, <2>6, ChangeInv
    <3> QED
      BY <1>2, <2>6, <3>1 DEF Change, CleanMeansStored
  <2>7. CASE UNCHANGED vars
    BY <1>2, <2>7 DEF vars, CleanMeansStored
  <2> QED
    BY <1>2, <2>1, <2>2, <2>3, <2>4, <2>5, <2>6, <2>7 DEF Next
<1>3. Inv /\ [Next]_vars => Inv'
  BY NextInv
<1> QED
  BY <1>1, <1>2, <1>3, PTL DEF Spec

-----------------------------------------------------------------------------
(* A function that is defined by recursion over 1 to n goes through a run. *)
LEMMA RunExists ==
  ASSUME NEW n \in Nat, NEW X, NEW base \in X, NEW F \in [X \X (1 .. n) -> X]
  PROVE  \E P, end : IsRun(P, n, base, end, F, X)
<1>1. PICK f : IsFold(f, n, base, F, X)
  BY FoldExists
<1>2. GoesOn(f, n, base, F, X)
  BY <1>1 DEF IsFold, GoesOn
<1>3. PICK end : end = f[1 .. n]
  OBVIOUS
<1>4. PICK P : IsRun(P, n, base, end, F, X)
  BY <1>2, <1>3, FoldRuns
<1> QED
  BY <1>4

-----------------------------------------------------------------------------
(* What a script holds, and the slot that reads as it.                     *)
LineSeq == Seq(Seq(STRING))

LEMMA ScriptIs ==
  ASSUME ScriptConstants, NEW t \in Scripts
  PROVE  /\ t \in Seq(STRING) /\ Len(t) \in Nat /\ SlotSize \in Nat /\ Len(t) < SlotSize
         /\ DOMAIN t = 1 .. Len(t) /\ \A i \in 1 .. Len(t) : t[i] # "NUL"
<1>1. t \in Seq(STRING)
  BY DEF ScriptConstants
<1>2. Len(t) \in Nat /\ DOMAIN t = 1 .. Len(t)
  BY <1>1, LenProperties
<1> QED
  BY <1>1, <1>2 DEF ScriptConstants

Holds(cells, t) == (\A a \in 0 .. Len(t) - 1 : cells[a] = t[a + 1]) /\ cells[Len(t)] = "NUL"

LEMMA WrittenHolds ==
  ASSUME ScriptConstants, NEW t \in Scripts
  PROVE  Holds(WrittenTo(Zeroed, t), t)
<1>1. PICK n \in Nat : n = Len(t) /\ n < SlotSize
  BY ScriptIs
<1>2. PICK cells : cells = WrittenTo(Zeroed, t)
  OBVIOUS
<1>3. DOMAIN Zeroed = 0 .. SlotSize + 1
  BY DEF Zeroed
<1>4. \A a \in 0 .. SlotSize + 1 : a < n => cells[a] = t[a + 1]
  BY <1>1, <1>2, <1>3 DEF WrittenTo
<1>5. \A a \in 0 .. SlotSize + 1 : a = n => cells[a] = "NUL"
  BY <1>1, <1>2, <1>3 DEF WrittenTo
<1>6. SlotSize \in Nat
  BY DEF ScriptConstants
<1>7. 0 .. n - 1 \subseteq 0 .. SlotSize + 1 /\ n \in 0 .. SlotSize + 1 /\ \A a \in 0 .. n - 1 : a < n
  BY <1>1, <1>6
<1> QED
  BY <1>1, <1>2, <1>4, <1>5, <1>7 DEF Holds

(* The lines that are to be run.                                           *)
Gathering(h, t) ==
  h = [i \in 0 .. Len(t) |->
        IF i = 0 THEN <<>>
        ELSE IF i \in Begins(t) /\ ~Silent(Said(LineFrom(t, i)))
             THEN Append(h[i - 1], Said(LineFrom(t, i)))
        ELSE h[i - 1]]

LEMMA MeantUpToIs ==
  ASSUME NEW t
  PROVE  MeantUpTo(t) = CHOOSE h : Gathering(h, t)
BY DEF MeantUpTo, Gathering

NextMeant(lines, t, i) ==
  IF i \in Begins(t) /\ ~Silent(Said(LineFrom(t, i)))
  THEN Append(lines, Said(LineFrom(t, i))) ELSE lines

(* What a line says begins as the line does, unless the line is a comment. *)
LEMMA SaidIs ==
  ASSUME NEW line \in Seq(STRING)
  PROVE  /\ Said(line) \in Seq(STRING)
         /\ First(Said(line)) = IF First(line) = "//" THEN "blank" ELSE First(line)
<1>1. PICK n \in Nat : n = Len(line)
  BY LenProperties
<1>2. PICK stops : stops = {k \in 1 .. n + 1 : k = n + 1 \/ line[k] = "//"}
  OBVIOUS
<1>3. stops \subseteq Nat /\ n + 1 \in stops
  BY <1>1, <1>2
<1>4. PICK b : b = Min(stops)
  OBVIOUS
<1>5. b \in stops /\ \A x \in stops : b <= x
  BY <1>3, <1>4, LeastIs
<1>6. b \in 1 .. n + 1 /\ (b = n + 1 \/ line[b] = "//")
  BY <1>2, <1>5
<1>7. PICK said : said = Said(line) /\ said = SubSeq(line, 1, b - 1)
  BY <1>1, <1>2, <1>4 DEF Said
<1>8. said \in Seq(STRING) /\ Len(said) = b - 1 /\ \A i \in 1 .. b - 1 : said[i] = line[i]
  <2>1. 1 \in 1 .. Len(line) + 1 /\ b - 1 \in 1 - 1 .. Len(line)
    BY <1>1, <1>6
  <2>2. /\ SubSeq(line, 1, b - 1) \in Seq(STRING) /\ Len(SubSeq(line, 1, b - 1)) = (b - 1) - 1 + 1
        /\ \A i \in 1 .. (b - 1) - 1 + 1 : SubSeq(line, 1, b - 1)[i] = line[1 + i - 1]
    BY <2>1, PartIs
  <2> QED
    BY <1>6, <1>7, <2>2
<1>9. CASE b = 1
  <2>1. said = <<>>
    BY <1>8, <1>9, EmptySeq
  <2>2. line = <<>> \/ (line # <<>> /\ line[1] = "//")
    BY <1>1, <1>6, <1>9, EmptySeq
  <2> QED
    BY <1>7, <1>8, <2>1, <2>2 DEF First
<1>10. CASE b # 1
  <2>1. 1 \in 1 .. b - 1 /\ 1 \in 1 .. n + 1 /\ ~(b <= 1)
    BY <1>1, <1>6, <1>10
  <2>2. 1 \notin stops /\ said[1] = line[1]
    BY <1>5, <1>8, <2>1
  <2>3. line[1] # "//"
    BY <1>2, <2>1, <2>2
  <2>4. said # <<>> /\ line # <<>>
    BY <1>1, <1>6, <1>8, <1>10, EmptySeq
  <2> QED
    BY <1>7, <1>8, <2>2, <2>3, <2>4 DEF First
<1> QED
  BY <1>9, <1>10

(* Where a line that begins at i stops.                                    *)
StopsAt(t, i, j) ==
  /\ j \in i .. Len(t) /\ \A k \in i .. j : ~IsEnd(t[k])
  /\ j < Len(t) => IsEnd(t[j + 1])

LEMMA LineFromStops ==
  ASSUME NEW t \in Seq(STRING), NEW i \in 1 .. Len(t), NEW j, StopsAt(t, i, j)
  PROVE  LineFrom(t, i) = SubSeq(t, i, j)
<1>1. PICK n \in Nat : n = Len(t)
  BY LenProperties
<1>2. j \in i .. n /\ (\A k \in i .. j : ~IsEnd(t[k])) /\ (j < n => IsEnd(t[j + 1]))
  BY <1>1 DEF StopsAt
<1>3. PICK s : s = {l \in i .. Len(t) : \A k \in i .. l : ~IsEnd(t[k])}
  OBVIOUS
<1>4. s \subseteq Int /\ j \in s
  BY <1>1, <1>2, <1>3
<1>5. \A l \in s : l <= j
  <2> SUFFICES ASSUME NEW l \in s, ~(l <= j) PROVE FALSE
    OBVIOUS
  <2>1. l \in i .. n /\ \A k \in i .. l : ~IsEnd(t[k])
    BY <1>1, <1>3
  <2>2. j < n /\ j + 1 \in i .. l
    BY <1>1, <1>2, <2>1
  <2> QED
    BY <1>2, <2>1, <2>2
<1>6. Max(s) = j
  BY <1>4, <1>5, LargestIs
<1> QED
  BY <1>3, <1>6 DEF LineFrom

LEMMA StopExists ==
  ASSUME NEW t \in Seq(STRING), NEW i \in Begins(t)
  PROVE  i \in 2 .. Len(t) /\ \E j : StopsAt(t, i, j)
<1>1. PICK n \in Nat : n = Len(t)
  BY LenProperties
<1>2. i \in 2 .. n /\ IsEnd(t[i - 1]) /\ ~IsEnd(t[i])
  BY <1>1 DEF Begins
<1>3. PICK bad : bad = {k \in i .. n + 1 : k = n + 1 \/ IsEnd(t[k])}
  OBVIOUS
<1>4. bad \subseteq Nat /\ bad # {}
  <2>1. n + 1 \in i .. n + 1 /\ i .. n + 1 \subseteq Nat
    BY <1>2
  <2> QED
    BY <1>3, <2>1
<1>5. PICK b \in bad : \A k \in bad : b <= k
  BY <1>4, LeastExists
<1>6. b \in i .. n + 1 /\ b # i
  BY <1>2, <1>3, <1>5
<1>7. \A k \in i .. b - 1 : ~IsEnd(t[k])
  <2> SUFFICES ASSUME NEW k \in i .. b - 1, IsEnd(t[k]) PROVE FALSE
    OBVIOUS
  <2>1. k \in bad
    BY <1>1, <1>3, <1>6
  <2> QED
    BY <1>2, <1>5, <1>6, <2>1
<1>8. b - 1 < n => IsEnd(t[(b - 1) + 1])
  BY <1>1, <1>3, <1>5, <1>6
<1>9. b - 1 \in i .. n
  BY <1>2, <1>6
<1>10. StopsAt(t, i, b - 1)
  BY <1>1, <1>7, <1>8, <1>9 DEF StopsAt
<1> QED
  BY <1>1, <1>2, <1>10

LEMMA LineFromIs ==
  ASSUME NEW t \in Seq(STRING), NEW i \in Begins(t)
  PROVE  LineFrom(t, i) \in Seq(STRING)
<1>1. i \in 2 .. Len(t)
  BY StopExists
<1>2. PICK j : StopsAt(t, i, j)
  BY StopExists
<1>3. PICK n \in Nat : n = Len(t)
  BY LenProperties
<1>4. j \in i .. n /\ i \in 1 .. Len(t)
  BY <1>1, <1>2, <1>3 DEF StopsAt
<1>5. LineFrom(t, i) = SubSeq(t, i, j)
  BY <1>2, <1>4, LineFromStops
<1>6. i \in 1 .. Len(t) + 1 /\ j \in i - 1 .. Len(t)
  BY <1>3, <1>4
<1>7. SubSeq(t, i, j) \in Seq(STRING)
  BY <1>6, PartIs
<1> QED
  BY <1>5, <1>7

LEMMA NextMeantIs ==
  ASSUME NEW t \in Seq(STRING), NEW i, NEW lines \in LineSeq
  PROVE  NextMeant(lines, t, i) \in LineSeq
<1>1. CASE i \in Begins(t) /\ ~Silent(Said(LineFrom(t, i)))
  <2>1. PICK line : line = Said(LineFrom(t, i)) /\ line \in Seq(STRING)
    BY <1>1, LineFromIs, SaidIs
  <2>2. Append(lines, line) \in LineSeq
    BY <2>1, AppendProperties DEF LineSeq
  <2> QED
    BY <1>1, <2>1, <2>2 DEF NextMeant
<1>2. CASE ~(i \in Begins(t) /\ ~Silent(Said(LineFrom(t, i))))
  BY <1>2 DEF NextMeant
<1> QED
  BY <1>1, <1>2

Gathered(h, t) ==
  /\ h[0] = <<>>
  /\ \A i \in 0 .. Len(t) : h[i] \in LineSeq
  /\ \A i \in 1 .. Len(t) : h[i] = NextMeant(h[i - 1], t, i)

LEMMA MeantUpToGathers ==
  ASSUME NEW t \in Seq(STRING)
  PROVE  Gathered(MeantUpTo(t), t)
<1>1. PICK n \in Nat : n = Len(t)
  BY LenProperties
<1>2. PICK F : F = [q \in LineSeq \X (1 .. n) |-> NextMeant(q[1], t, q[2])]
  OBVIOUS
<1>3. F \in [LineSeq \X (1 .. n) -> LineSeq]
  <2>1. \A w \in LineSeq, k \in 1 .. n : NextMeant(w, t, k) \in LineSeq
    BY NextMeantIs
  <2> QED
    BY <1>2, <2>1
<1>4. PICK P \in [0 .. n -> LineSeq] : P[0] = <<>> /\ \A k \in 1 .. n : P[k] = F[<<P[k - 1], k>>]
  <2>1. <<>> \in LineSeq
    BY EmptySeq DEF LineSeq
  <2>2. PICK P, end : IsRun(P, n, <<>>, end, F, LineSeq)
    BY <1>3, <2>1, RunExists
  <2> QED
    BY <2>2 DEF IsRun
<1>5. \A k \in 1 .. n : P[k] = NextMeant(P[k - 1], t, k)
  <2> SUFFICES ASSUME NEW k \in 1 .. n PROVE P[k] = NextMeant(P[k - 1], t, k)
    OBVIOUS
  <2>1. P[k - 1] \in LineSeq
    BY <1>4
  <2> QED
    BY <1>2, <1>4, <2>1
<1>6. Gathering(P, t)
  <2>1. P = [k \in 0 .. n |-> IF k = 0 THEN <<>> ELSE NextMeant(P[k - 1], t, k)]
    <3>1. \A k \in 0 .. n : P[k] = IF k = 0 THEN <<>> ELSE NextMeant(P[k - 1], t, k)
      BY <1>4, <1>5
    <3> QED
      BY <1>4, <3>1
  <2> QED
    BY <1>1, <2>1 DEF Gathering, NextMeant
<1>7. PICK h : Gathering(h, t) /\ MeantUpTo(t) = h
  BY <1>6, MeantUpToIs
<1>8. h[0] = <<>> /\ \A k \in 1 .. n : h[k] = NextMeant(h[k - 1], t, k)
  <2>1. h = [k \in 0 .. n |-> IF k = 0 THEN <<>> ELSE NextMeant(h[k - 1], t, k)]
    BY <1>1, <1>7 DEF Gathering, NextMeant
  <2> QED
    BY <2>1
<1>9. PICK G : G = {k \in 0 .. n : h[k] \in LineSeq}
  OBVIOUS
<1>10. 0 \in G
  BY <1>4, <1>8, <1>9
<1>11. ASSUME NEW k \in 1 .. n, k - 1 \in G PROVE k \in G
  <2>1. h[k - 1] \in LineSeq /\ h[k] = NextMeant(h[k - 1], t, k)
    BY <1>8, <1>9, <1>11
  <2>2. h[k] \in LineSeq
    BY <2>1, NextMeantIs
  <2> QED
    BY <1>9, <2>2
<1>12. \A k \in 0 .. n : k \in G
  BY <1>10, <1>11, StepByStep
<1>13. Gathered(h, t)
  BY <1>1, <1>8, <1>9, <1>12 DEF Gathered
<1> QED
  BY <1>7, <1>13

-----------------------------------------------------------------------------
(* What was gathered is not taken back.                                    *)
Opens(a, b) == Len(a) <= Len(b) /\ \A k \in 1 .. Len(a) : a[k] = b[k]

LEMMA OpensFurther ==
  ASSUME NEW a \in LineSeq, NEW b \in LineSeq, NEW c \in LineSeq, Opens(a, b), Opens(b, c)
  PROVE  Opens(a, c)
<1>1. PICK l \in Nat, m \in Nat, n \in Nat : l = Len(a) /\ m = Len(b) /\ n = Len(c)
  BY LenProperties DEF LineSeq
<1>2. l <= m /\ m <= n /\ (\A k \in 1 .. l : a[k] = b[k]) /\ \A k \in 1 .. m : b[k] = c[k]
  BY <1>1 DEF Opens
<1>3. l <= n /\ \A k \in 1 .. l : a[k] = c[k]
  BY <1>2
<1> QED
  BY <1>1, <1>3 DEF Opens

LEMMA OpensItself ==
  ASSUME NEW a \in LineSeq
  PROVE  Opens(a, a)
BY LenProperties DEF Opens, LineSeq

LEMMA OpensNext ==
  ASSUME NEW t \in Seq(STRING), NEW i, NEW lines \in LineSeq
  PROVE  Opens(lines, NextMeant(lines, t, i))
<1>1. CASE i \in Begins(t) /\ ~Silent(Said(LineFrom(t, i)))
  <2>1. PICK line : line = Said(LineFrom(t, i)) /\ line \in Seq(STRING)
    BY <1>1, LineFromIs, SaidIs
  <2>2. PICK n \in Nat : n = Len(lines)
    BY LenProperties DEF LineSeq
  <2>3. Len(Append(lines, line)) = n + 1 /\ \A k \in 1 .. n : Append(lines, line)[k] = lines[k]
    BY <2>1, <2>2, AppendProperties DEF LineSeq
  <2>4. Opens(lines, Append(lines, line))
    BY <2>2, <2>3 DEF Opens
  <2> QED
    BY <1>1, <2>1, <2>4 DEF NextMeant
<1>2. CASE ~(i \in Begins(t) /\ ~Silent(Said(LineFrom(t, i))))
  BY <1>2, OpensItself DEF NextMeant
<1> QED
  BY <1>1, <1>2

LEMMA OpensPrefix ==
  ASSUME NEW a \in LineSeq, NEW b \in LineSeq, Opens(a, b)
  PROVE  SubSeq(b, 1, Len(a)) = a /\ IsPrefix(a, b)
<1>1. PICK m \in Nat, n \in Nat : m = Len(a) /\ n = Len(b)
  BY LenProperties DEF LineSeq
<1>2. m <= n /\ \A k \in 1 .. m : a[k] = b[k]
  BY <1>1 DEF Opens
<1>3. PICK c : c = SubSeq(b, 1, m)
  OBVIOUS
<1>4. c \in Seq(Seq(STRING)) /\ Len(c) = m /\ \A k \in 1 .. m : c[k] = b[k]
  <2>1. b \in Seq(Seq(STRING)) /\ 1 \in 1 .. Len(b) + 1 /\ m \in 1 - 1 .. Len(b)
    BY <1>1, <1>2 DEF LineSeq
  <2>2. /\ SubSeq(b, 1, m) \in Seq(Seq(STRING)) /\ Len(SubSeq(b, 1, m)) = m - 1 + 1
        /\ \A i \in 1 .. m - 1 + 1 : SubSeq(b, 1, m)[i] = b[1 + i - 1]
    BY <2>1, PartIs
  <2> QED
    BY <1>1, <1>3, <2>2
<1>5. c = a
  <2>1. \A k \in 1 .. Len(c) : c[k] = a[k]
    BY <1>2, <1>4
  <2> QED
    BY <1>1, <1>4, <2>1, SeqEqual DEF LineSeq
<1>6. SubSeq(a, 1, m) = a
  BY <1>1, SubSeqFull DEF LineSeq
<1> QED
  BY <1>1, <1>2, <1>3, <1>5, <1>6 DEF IsPrefix

LEMMA GatheredOpens ==
  ASSUME NEW t \in Seq(STRING), NEW h, Gathered(h, t), NEW i \in 0 .. Len(t)
  PROVE  Opens(h[i], h[Len(t)])
<1>1. PICK n \in Nat : n = Len(t)
  BY LenProperties
<1>2. PICK G : G = {k \in 0 .. n : k >= i => Opens(h[i], h[k])}
  OBVIOUS
<1>3. \A k \in 0 .. n : h[k] \in LineSeq
  BY <1>1 DEF Gathered
<1>4. i \in 0 .. n /\ Opens(h[i], h[i])
  BY <1>1, <1>3, OpensItself
<1>5. 0 \in G
  <2>1. 0 >= i => i = 0
    BY <1>4
  <2> QED
    BY <1>2, <1>4, <2>1
<1>6. ASSUME NEW k \in 1 .. n, k - 1 \in G PROVE k \in G
  <2>1. CASE k - 1 >= i
    <3>1. Opens(h[i], h[k - 1]) /\ k - 1 \in 0 .. n
      BY <1>2, <1>6, <2>1
    <3>2. h[k] = NextMeant(h[k - 1], t, k)
      BY <1>1 DEF Gathered
    <3>3. Opens(h[k - 1], h[k])
      BY <1>3, <3>1, <3>2, OpensNext
    <3>4. Opens(h[i], h[k])
      BY <1>3, <1>4, <3>1, <3>3, OpensFurther
    <3> QED
      BY <1>2, <3>4
  <2>2. CASE ~(k - 1 >= i)
    <3>1. k >= i => k = i
      BY <1>4, <2>2
    <3> QED
      BY <1>2, <1>4, <3>1
  <2> QED
    BY <2>1, <2>2
<1>7. \A k \in 0 .. n : k \in G
  BY <1>5, <1>6, StepByStep
<1>8. n \in G /\ n >= i
  BY <1>4, <1>7
<1> QED
  BY <1>1, <1>2, <1>8

(* Where no line begins, none is gathered.                                 *)
LEMMA NothingGathered ==
  ASSUME NEW t \in Seq(STRING), NEW h, Gathered(h, t),
         NEW i \in 0 .. Len(t), NEW j \in i .. Len(t), \A k \in i + 1 .. j : k \notin Begins(t)
  PROVE  h[j] = h[i]
<1>1. PICK n \in Nat : n = Len(t)
  BY LenProperties
<1>2. i \in 0 .. n /\ j \in i .. n
  BY <1>1
<1>3. PICK G : G = {k \in 0 .. n : i <= k /\ k <= j => h[k] = h[i]}
  OBVIOUS
<1>4. 0 \in G
  <2>1. i <= 0 => i = 0
    BY <1>2
  <2> QED
    BY <1>3, <2>1
<1>5. ASSUME NEW k \in 1 .. n, k - 1 \in G PROVE k \in G
  <2>1. CASE i <= k - 1 /\ k <= j
    <3>1. h[k - 1] = h[i] /\ k \in i + 1 .. j
      BY <1>2, <1>3, <1>5, <2>1
    <3>2. h[k] = NextMeant(h[k - 1], t, k)
      BY <1>1 DEF Gathered
    <3>3. h[k] = h[k - 1]
      BY <3>1, <3>2 DEF NextMeant
    <3> QED
      BY <1>3, <3>1, <3>3
  <2>2. CASE ~(i <= k - 1 /\ k <= j)
    <3>1. i <= k /\ k <= j => k = i
      BY <1>2, <2>2
    <3> QED
      BY <1>3, <3>1
  <2> QED
    BY <2>1, <2>2
<1>6. \A k \in 0 .. n : k \in G
  BY <1>4, <1>5, StepByStep
<1>7. j \in G /\ i <= j
  BY <1>2, <1>6
<1> QED
  BY <1>3, <1>7

-----------------------------------------------------------------------------
(* A script that no command has touched, at the end of a line.             *)
Untouched == text \in Scripts /\ size = Len(text) /\ Holds(mem, text)

LEMMA UntouchedIs ==
  ASSUME ScriptConstants, Untouched
  PROVE  /\ text \in Seq(STRING) /\ size \in Nat /\ size < SlotSize /\ Len(text) = size /\ SlotSize \in Nat
         /\ \A a \in 0 .. size - 1 : mem[a] = text[a + 1] /\ mem[a] # "NUL"
         /\ mem[size] = "NUL"
<1>1. /\ text \in Seq(STRING) /\ size \in Nat /\ size < SlotSize /\ Len(text) = size /\ SlotSize \in Nat
      /\ \A i \in 1 .. size : text[i] # "NUL"
  BY ScriptIs DEF Untouched
<1>2. (\A a \in 0 .. size - 1 : mem[a] = text[a + 1]) /\ mem[size] = "NUL"
  BY <1>1 DEF Untouched, Holds
<1>3. \A a \in 0 .. size - 1 : a + 1 \in 1 .. size
  BY <1>1
<1> QED
  BY <1>1, <1>2, <1>3

LEMMA LineEndIs ==
  ASSUME ScriptConstants, Untouched, NEW s \in 0 .. size - 1
  PROVE  /\ LineEnd(s) \in s .. size
         /\ \A j \in s + 1 .. LineEnd(s) : ~IsEnd(text[j])
         /\ LineEnd(s) < size => IsEnd(text[LineEnd(s) + 1])
<1>1. /\ text \in Seq(STRING) /\ size \in Nat /\ size < SlotSize /\ Len(text) = size /\ SlotSize \in Nat
      /\ \A a \in 0 .. size - 1 : mem[a] = text[a + 1] /\ mem[a] # "NUL"
      /\ mem[size] = "NUL"
  BY UntouchedIs
<1>2. PICK stops : stops = {b \in s .. SlotSize : mem[b] = "NUL" \/ IsEnd(mem[b]) \/ b >= size}
  OBVIOUS
<1>3. stops \subseteq Nat /\ size \in stops
  BY <1>1, <1>2
<1>4. PICK e : e = Min(stops)
  OBVIOUS
<1>5. e \in stops /\ \A x \in stops : e <= x
  BY <1>3, <1>4, LeastIs
<1>6. LineEnd(s) = e
  BY <1>2, <1>4 DEF LineEnd
<1>7. e \in s .. size
  BY <1>1, <1>2, <1>3, <1>5
<1>8. ASSUME NEW j \in s + 1 .. e PROVE ~IsEnd(text[j])
  <2>1. j - 1 \in 0 .. size - 1 /\ j - 1 \in s .. SlotSize /\ (j - 1) + 1 = j /\ ~(e <= j - 1)
    BY <1>1, <1>7
  <2>2. mem[j - 1] = text[j] /\ j - 1 \notin stops
    BY <1>1, <1>5, <2>1
  <2> QED
    BY <1>2, <2>1, <2>2
<1>9. ASSUME e < size PROVE IsEnd(text[e + 1])
  <2>1. e \in 0 .. size - 1
    BY <1>1, <1>7, <1>9
  <2>2. mem[e] = text[e + 1] /\ mem[e] # "NUL" /\ ~(e >= size)
    BY <1>1, <1>9, <2>1
  <2> QED
    BY <1>2, <1>5, <2>2
<1> QED
  BY <1>6, <1>7, <1>8, <1>9

(* The line at s is the one that begins behind s.                          *)
LEMMA LineIs ==
  ASSUME ScriptConstants, Untouched, Plain(text), NEW s \in 1 .. size - 1, IsEnd(text[s])
  PROVE  \/ LineEnd(s) = s /\ Line(s) = <<>> /\ s + 1 \notin Begins(text)
         \/ LineEnd(s) \in s + 1 .. size /\ s + 1 \in Begins(text) /\ Line(s) = LineFrom(text, s + 1)
<1>1. /\ text \in Seq(STRING) /\ size \in Nat /\ size < SlotSize /\ Len(text) = size
      /\ \A a \in 0 .. size - 1 : mem[a] = text[a + 1] /\ mem[a] # "NUL"
  BY UntouchedIs
<1>2. MaxLine \in Nat \ {0}
  BY DEF ScriptConstants
<1>3. PICK e : e = LineEnd(s)
  OBVIOUS
<1>4. e \in s .. size /\ (\A j \in s + 1 .. e : ~IsEnd(text[j])) /\ (e < size => IsEnd(text[e + 1]))
  BY <1>3, LineEndIs
<1>5. PICK m : m = Min({e - s, MaxLine - 1})
  OBVIOUS
<1>6. m = IF e - s < MaxLine - 1 THEN e - s ELSE MaxLine - 1
  BY <1>2, <1>4, <1>5, SmallerIs
<1>7. PICK line : line = Line(s) /\ line = [i \in 1 .. m |-> mem[s + i - 1]]
  BY <1>3, <1>5 DEF Line
<1>8. CASE e = s
  <2>1. m = 0
    BY <1>2, <1>6, <1>8
  <2>2. line = <<>>
    BY <1>7, <2>1
  <2>3. IsEnd(text[s + 1])
    BY <1>1, <1>4, <1>8
  <2>4. s + 1 \notin Begins(text)
    BY <2>3 DEF Begins
  <2> QED
    BY <1>3, <1>7, <1>8, <2>2, <2>4
<1>9. CASE e # s
  <2>1. e \in s + 1 .. size /\ s + 1 \in 1 .. Len(text) /\ s + 1 \in 2 .. Len(text)
    BY <1>1, <1>4, <1>9
  <2>2. ~IsEnd(text[s + 1]) /\ (s + 1) - 1 = s
    BY <1>4, <2>1
  <2>3. s + 1 \in Begins(text)
    BY <2>1, <2>2 DEF Begins
  <2>4. StopsAt(text, s + 1, e)
    BY <1>1, <1>4, <2>1 DEF StopsAt
  <2>5. PICK part : part = LineFrom(text, s + 1)
    OBVIOUS
  <2>6. part = SubSeq(text, s + 1, e)
    BY <1>1, <2>1, <2>4, <2>5, LineFromStops
  <2>7. /\ part \in Seq(STRING) /\ Len(part) = e - s
        /\ \A i \in 1 .. e - s : part[i] = text[s + i]
    <3>1. s + 1 \in 1 .. Len(text) + 1 /\ e \in (s + 1) - 1 .. Len(text)
      BY <1>1, <2>1
    <3>2. /\ SubSeq(text, s + 1, e) \in Seq(STRING) /\ Len(SubSeq(text, s + 1, e)) = e - (s + 1) + 1
          /\ \A i \in 1 .. e - (s + 1) + 1 : SubSeq(text, s + 1, e)[i] = text[s + 1 + i - 1]
      BY <1>1, <3>1, PartIs
    <3>3. e - (s + 1) + 1 = e - s /\ \A i \in 1 .. e - s : s + 1 + i - 1 = s + i
      BY <2>1
    <3> QED
      BY <2>6, <3>2, <3>3
  <2>8. e - s < MaxLine
    BY <2>3, <2>5, <2>7 DEF Plain
  <2>9. m = e - s
    BY <1>2, <1>6, <2>1, <2>8
  <2>10. \A i \in 1 .. e - s : mem[s + i - 1] = text[s + i]
    <3> SUFFICES ASSUME NEW i \in 1 .. e - s PROVE mem[s + i - 1] = text[s + i]
      OBVIOUS
    <3>1. s + i - 1 \in 0 .. size - 1 /\ (s + i - 1) + 1 = s + i
      BY <1>1, <2>1
    <3> QED
      BY <1>1, <3>1
  <2>11. \A i \in 1 .. e - s : line[i] = part[i]
    BY <1>7, <2>7, <2>9, <2>10
  <2>12. line = part
    <3>1. part = [i \in 1 .. e - s |-> part[i]]
      BY <2>1, <2>7, LenProperties
    <3> QED
      BY <1>7, <2>9, <2>11, <3>1
  <2> QED
    BY <1>3, <1>7, <2>1, <2>3, <2>5, <2>12
<1> QED
  BY <1>8, <1>9

LEMMA BehindIs ==
  ASSUME ScriptConstants, Untouched, NEW e \in 0 .. size, e < size => IsEnd(text[e + 1])
  PROVE  /\ Behind(mem, e) \in e .. size
         /\ \A i \in e + 1 .. Behind(mem, e) : IsEnd(text[i])
         /\ Behind(mem, e) = size \/ (Behind(mem, e) > e /\ IsEnd(text[Behind(mem, e)]))
<1>1. /\ size \in Nat /\ mem[size] = "NUL"
      /\ \A a \in 0 .. size - 1 : mem[a] = text[a + 1] /\ mem[a] # "NUL"
  BY UntouchedIs
<1>2. CASE e = size
  <2>1. Behind(mem, e) = e
    BY <1>1, <1>2 DEF Behind, IsEnd
  <2> QED
    BY <1>1, <1>2, <2>1
<1>3. CASE e < size /\ mem[e] = "CR" /\ mem[e + 1] = "LF"
  <2>1. e + 1 # size
    BY <1>1, <1>3
  <2>2. e + 1 \in 0 .. size - 1 /\ (e + 1) + 1 = e + 2
    BY <1>1, <1>3, <2>1
  <2>3. text[e + 2] = "LF" /\ IsEnd(text[e + 2]) /\ IsEnd(text[e + 1])
    BY <1>1, <1>3, <2>2 DEF IsEnd
  <2>4. Behind(mem, e) = e + 2
    BY <1>3 DEF Behind
  <2>5. \A i \in e + 1 .. e + 2 : i = e + 1 \/ i = e + 2
    OBVIOUS
  <2> QED
    BY <1>1, <2>2, <2>3, <2>4, <2>5
<1>4. CASE e < size /\ ~(mem[e] = "CR" /\ mem[e + 1] = "LF")
  <2>1. e \in 0 .. size - 1
    BY <1>1, <1>4
  <2>2. IsEnd(text[e + 1]) /\ mem[e] = text[e + 1]
    BY <1>1, <1>4, <2>1
  <2>3. Behind(mem, e) = e + 1
    BY <1>4, <2>2 DEF Behind
  <2> QED
    BY <1>1, <2>1, <2>2, <2>3
<1> QED
  BY <1>1, <1>2, <1>3, <1>4

(* What the interpreter passes over is what is no command.                 *)
Passes(line) == Skips(line) \/ First(line) = "wait(1)"

(* From one end of line to the next, one line is gathered at most.         *)
LEMMA NextLine ==
  ASSUME ScriptConstants, Untouched, Plain(text), NEW s \in 1 .. size - 1, IsEnd(text[s]),
         NEW h, Gathered(h, text), NEW to, to = Behind(mem, LineEnd(s))
  PROVE  /\ to \in 1 .. size /\ (to = size \/ IsEnd(text[to]))
         /\ h[to] = IF Passes(Line(s)) THEN h[s] ELSE Append(h[s], Line(s))
<1>1. text \in Seq(STRING) /\ size \in Nat /\ Len(text) = size
  BY UntouchedIs
<1>2. PICK e : e = LineEnd(s)
  OBVIOUS
<1>3. e \in s .. size /\ (\A j \in s + 1 .. e : ~IsEnd(text[j])) /\ (e < size => IsEnd(text[e + 1]))
  BY <1>1, <1>2, LineEndIs
<1>4. /\ to \in e .. size /\ (\A i \in e + 1 .. to : IsEnd(text[i]))
      /\ to = size \/ (to > e /\ IsEnd(text[to]))
  BY <1>1, <1>2, <1>3, BehindIs
<1>5. to \in 1 .. size /\ s \in 0 .. Len(text) /\ to \in s .. Len(text)
  BY <1>1, <1>3, <1>4
<1>6. \A i \in e + 1 .. to : i \notin Begins(text)
  BY <1>4 DEF Begins
<1>7. PICK line : line = Line(s)
  OBVIOUS
<1>8. CASE e = s /\ line = <<>>
  <2>1. h[to] = h[s]
    BY <1>1, <1>5, <1>6, <1>8, NothingGathered
  <2>2. Passes(line)
    BY <1>8 DEF Passes, Skips, First
  <2> QED
    BY <1>4, <1>5, <1>7, <2>1, <2>2
<1>9. CASE e \in s + 1 .. size /\ s + 1 \in Begins(text) /\ line = LineFrom(text, s + 1)
  <2>1. s + 1 \in 1 .. Len(text) /\ (s + 1) - 1 = s
    BY <1>1
  <2>2. h[s + 1] = NextMeant(h[s], text, s + 1)
    BY <2>1 DEF Gathered
  <2>3. h[s + 1] = IF Passes(line) THEN h[s] ELSE Append(h[s], line)
    <3>1. PICK said : said = Said(line)
      OBVIOUS
    <3>2. line \in Seq(STRING)
      BY <1>1, <1>9, LineFromIs
    <3>3. First(said) = IF First(line) = "//" THEN "blank" ELSE First(line)
      BY <3>1, <3>2, SaidIs
    <3>4. Silent(said) <=> Passes(line)
      BY <3>3 DEF Silent, Passes, Skips
    <3>5. Silent(said) \/ said = line
      BY <1>9, <3>1 DEF Plain
    <3>6. h[s + 1] = IF Silent(said) THEN h[s] ELSE Append(h[s], said)
      BY <1>9, <2>2, <3>1 DEF NextMeant
    <3> QED
      BY <3>4, <3>5, <3>6
  <2>4. ASSUME NEW k \in (s + 1) + 1 .. to PROVE k \notin Begins(text)
    <3>1. CASE k \in e + 1 .. to
      BY <1>6, <3>1
    <3>2. CASE k \notin e + 1 .. to
      <4>1. k - 1 \in s + 1 .. e
        BY <1>1, <1>3, <1>4, <3>2
      <4>2. ~IsEnd(text[k - 1])
        BY <1>3, <4>1
      <4> QED
        BY <4>2 DEF Begins
    <3> QED
      BY <3>1, <3>2
  <2>5. s + 1 \in 0 .. Len(text) /\ to \in s + 1 .. Len(text)
    BY <1>1, <1>4, <1>9
  <2>6. h[to] = h[s + 1]
    BY <1>1, <2>4, <2>5, NothingGathered
  <2> QED
    BY <1>4, <1>5, <1>7, <2>3, <2>6
<1> QED
  BY <1>2, <1>7, <1>8, <1>9, LineIs

(* The first line that is run begins behind the line of the shebang.       *)
LEMMA ShebangIs ==
  ASSUME ScriptConstants, Untouched, Plain(text), mem[0] = "#!", NEW s, s = BehindShebang(mem, size)
  PROVE  /\ text # <<>> /\ text[1] = "#!"
         /\ s \in 1 .. size /\ (s = size \/ IsEnd(text[s]))
         /\ \A i \in 1 .. s : i \notin Begins(text)
<1>1. /\ text \in Seq(STRING) /\ size \in Nat /\ size < SlotSize /\ Len(text) = size /\ SlotSize \in Nat
      /\ \A a \in 0 .. size - 1 : mem[a] = text[a + 1] /\ mem[a] # "NUL"
      /\ mem[size] = "NUL"
  BY UntouchedIs
<1>2. size # 0
  BY <1>1
<1>3. 0 \in 0 .. size - 1 /\ 0 + 1 = 1
  BY <1>1, <1>2
<1>4. text # <<>> /\ text[1] = "#!"
  BY <1>1, <1>2, <1>3, EmptySeq
<1>5. PICK stops : stops = {a \in 0 .. SlotSize : mem[a] \in {"NUL", "LF"} \/ a >= size}
  OBVIOUS
<1>6. stops \subseteq Nat /\ size \in stops
  BY <1>1, <1>5
<1>7. PICK b : b = Min(stops)
  OBVIOUS
<1>8. b \in stops /\ \A x \in stops : b <= x
  BY <1>6, <1>7, LeastIs
<1>9. s = IF mem[b] = "LF" THEN b + 1 ELSE b
  BY <1>5, <1>7 DEF BehindShebang
<1>10. b \in 0 .. size
  BY <1>1, <1>5, <1>6, <1>8
<1>11. ASSUME NEW j \in 1 .. b PROVE text[j] # "LF"
  <2>1. j - 1 \in 0 .. size - 1 /\ j - 1 \in 0 .. SlotSize /\ (j - 1) + 1 = j /\ ~(b <= j - 1)
    BY <1>1, <1>10
  <2>2. mem[j - 1] = text[j] /\ j - 1 \notin stops
    BY <1>1, <1>8, <2>1
  <2> QED
    BY <1>5, <2>1, <2>2
<1>12. b # 0
  BY <1>1, <1>3, <1>5, <1>8
<1>13. \/ b = size /\ s = size
       \/ b < size /\ s = b + 1 /\ text[b + 1] = "LF" /\ IsEnd(text[b + 1])
  <2>1. CASE b = size
    BY <1>1, <1>9, <2>1
  <2>2. CASE b # size
    <3>1. b \in 0 .. size - 1
      BY <1>1, <1>10, <2>2
    <3>2. mem[b] = "LF" /\ mem[b] = text[b + 1]
      BY <1>1, <1>5, <1>8, <3>1
    <3> QED
      BY <1>1, <1>9, <3>1, <3>2 DEF IsEnd
  <2> QED
    BY <2>1, <2>2
<1>14. s \in 1 .. size /\ (s = size \/ IsEnd(text[s]))
  BY <1>1, <1>10, <1>12, <1>13
<1>15. ASSUME NEW i \in 1 .. s, i \in Begins(text) PROVE FALSE
  <2>1. i \in 2 .. size /\ IsEnd(text[i - 1]) /\ ~IsEnd(text[i])
    BY <1>1, <1>15 DEF Begins
  <2>2. PICK ends : ends = {k \in 1 .. size : IsEnd(text[k])}
    OBVIOUS
  <2>3. i - 1 \in ends /\ ends \subseteq Nat
    BY <1>1, <2>1, <2>2
  <2>4. PICK f \in ends : \A k \in ends : f <= k
    BY <2>3, LeastExists
  <2>5. f \in 1 .. size /\ IsEnd(text[f]) /\ f <= i - 1
    BY <2>2, <2>3, <2>4
  <2>6. \A j \in 1 .. f - 1 : ~IsEnd(text[j])
    <3> SUFFICES ASSUME NEW j \in 1 .. f - 1, IsEnd(text[j]) PROVE FALSE
      OBVIOUS
    <3>1. j \in ends /\ ~(f <= j)
      BY <1>1, <2>2, <2>5
    <3> QED
      BY <2>4, <3>1
  <2>7. text[f] = "LF" \/ (f < size /\ text[f + 1] = "LF")
    BY <1>1, <2>5, <2>6, LenProperties DEF Plain
  <2>8. f \in 1 .. b
    BY <1>1, <1>10, <1>13, <2>1, <2>5
  <2>9. f < size /\ text[f + 1] = "LF" /\ IsEnd(text[f + 1])
    BY <1>11, <2>7, <2>8 DEF IsEnd
  <2>10. ~(f + 1 \in 1 .. b)
    BY <1>11, <2>9
  <2>11. f = b
    BY <1>1, <1>10, <2>8, <2>10
  <2>12. b < size /\ s = b + 1
    BY <1>1, <1>13, <2>9, <2>11
  <2>13. i = f + 1
    BY <1>1, <2>1, <2>5, <2>11, <2>12
  <2> QED
    BY <2>1, <2>9, <2>13
<1> QED
  BY <1>4, <1>14, <1>15

-----------------------------------------------------------------------------
(* The lines that were run are those that begin up to where the script is. *)
IsScript == text # <<>> /\ text[1] = "#!"

AsFar ==
  \/ state = "idle" /\ ran = <<>>
  \/ /\ state = "run" /\ IsScript /\ start \in 1 .. size /\ (start = size \/ IsEnd(text[start]))
     /\ ran = MeantUpTo(text)[start]
  \/ state = "wait" /\ start \in 1 .. size - 1 /\ ran = MeantUpTo(text)[start]
  \/ state = "done" /\ ran = IF IsScript THEN MeantUpTo(text)[size] ELSE <<>>

ScriptInv ==
  /\ text \in Scripts /\ size = Len(text) /\ edited \in BOOLEAN
  /\ ~edited => Holds(mem, text)
  /\ ~edited /\ Plain(text) => AsFar

LEMMA ScriptStarts ==
  ASSUME ScriptConstants, ScriptInit
  PROVE  ScriptInv
<1>1. text \in Scripts /\ mem = WrittenTo(Zeroed, text)
  BY DEF ScriptInit
<1>2. Holds(mem, text)
  BY <1>1, WrittenHolds
<1> QED
  BY <1>1, <1>2 DEF ScriptInit, ScriptInv, AsFar

LEMMA BeginIs ==
  ASSUME ScriptConstants, ScriptInv, Begin
  PROVE  ScriptInv'
<1>1. /\ UNCHANGED <<mem, size, ran, text, edited>> /\ state = "idle"
      /\ IF mem[0] = "#!" THEN state' = "run" /\ start' = BehindShebang(mem, size)
         ELSE state' = "done" /\ UNCHANGED start
  BY DEF Begin
<1>2. SUFFICES ASSUME ~edited, Plain(text) PROVE AsFar'
  BY <1>1 DEF ScriptInv
<1>3. Untouched /\ ran = <<>>
  BY <1>1, <1>2 DEF ScriptInv, Untouched, AsFar
<1>4. PICK h : h = MeantUpTo(text) /\ Gathered(h, text)
  BY <1>3, UntouchedIs, MeantUpToGathers
<1>5. text \in Seq(STRING) /\ size \in Nat /\ Len(text) = size
  BY <1>3, UntouchedIs
<1>6. CASE mem[0] = "#!"
  <2>1. PICK s : s = BehindShebang(mem, size)
    OBVIOUS
  <2>2. /\ text # <<>> /\ text[1] = "#!"
        /\ s \in 1 .. size /\ (s = size \/ IsEnd(text[s]))
        /\ \A i \in 1 .. s : i \notin Begins(text)
    BY <1>2, <1>3, <1>6, <2>1, ShebangIs
  <2>3. h[s] = h[0]
    <3>1. 0 \in 0 .. Len(text) /\ s \in 0 .. Len(text) /\ \A k \in 0 + 1 .. s : k \notin Begins(text)
      BY <1>5, <2>2
    <3> QED
      BY <1>4, <1>5, <3>1, NothingGathered
  <2>4. h[0] = <<>>
    BY <1>4 DEF Gathered
  <2>5. state' = "run" /\ start' = s
    BY <1>1, <1>6, <2>1
  <2> QED
    BY <1>1, <1>3, <1>4, <2>2, <2>3, <2>4, <2>5 DEF AsFar, IsScript
<1>7. CASE mem[0] # "#!"
  <2>1. ~IsScript
    <3> SUFFICES ASSUME text # <<>>, text[1] = "#!" PROVE FALSE
      BY DEF IsScript
    <3>1. size # 0
      BY <1>5, EmptySeq
    <3>2. 0 \in 0 .. size - 1 /\ 0 + 1 = 1
      BY <1>5, <3>1
    <3>3. mem[0] = text[1]
      BY <1>3, <3>2, UntouchedIs
    <3> QED
      BY <1>7, <3>3
  <2>2. state' = "done"
    BY <1>1, <1>7
  <2> QED
    BY <1>1, <1>3, <2>1, <2>2 DEF AsFar, IsScript
<1> QED
  BY <1>6, <1>7

(* In the file, the script is at an end of line.                           *)
LEMMA InFileIs ==
  ASSUME ScriptConstants, ScriptInv, ~edited, Plain(text), InFile
  PROVE  /\ Untouched /\ IsScript /\ start \in 1 .. size - 1 /\ IsEnd(text[start])
         /\ ran = MeantUpTo(text)[start] /\ text \in Seq(STRING) /\ size \in Nat
<1>1. Untouched /\ AsFar
  BY DEF ScriptInv, Untouched
<1>2. state = "run" /\ start < size
  BY DEF InFile
<1>3. IsScript /\ start \in 1 .. size /\ (start = size \/ IsEnd(text[start])) /\ ran = MeantUpTo(text)[start]
  BY <1>1, <1>2 DEF AsFar
<1>4. text \in Seq(STRING) /\ size \in Nat
  BY <1>1, UntouchedIs
<1>5. start \in 1 .. size - 1 /\ start # size
  BY <1>2, <1>3, <1>4
<1> QED
  BY <1>1, <1>3, <1>4, <1>5

LEMMA SkipIs ==
  ASSUME ScriptConstants, ScriptInv, Skip
  PROVE  ScriptInv'
<1>1. /\ UNCHANGED <<mem, size, state, ran, text, edited>> /\ InFile /\ state = "run"
      /\ Passes(Line(start)) /\ start' = Behind(mem, LineEnd(start))
  BY DEF Skip, InFile, Passes
<1>2. SUFFICES ASSUME ~edited, Plain(text) PROVE AsFar'
  BY <1>1 DEF ScriptInv
<1>3. /\ Untouched /\ IsScript /\ start \in 1 .. size - 1 /\ IsEnd(text[start])
      /\ ran = MeantUpTo(text)[start] /\ text \in Seq(STRING)
  BY <1>1, <1>2, InFileIs
<1>4. PICK h, s, to : h = MeantUpTo(text) /\ Gathered(h, text) /\ s = start /\ to = Behind(mem, LineEnd(s))
  BY <1>3, MeantUpToGathers
<1>5. to \in 1 .. size /\ (to = size \/ IsEnd(text[to])) /\ h[to] = IF Passes(Line(s)) THEN h[s] ELSE Append(h[s], Line(s))
  BY <1>2, <1>3, <1>4, NextLine
<1>6. start' = to /\ ran = h[to] /\ state' = "run"
  BY <1>1, <1>3, <1>4, <1>5
<1> QED
  BY <1>1, <1>3, <1>4, <1>5, <1>6 DEF AsFar, IsScript

LEMMA WaitIs ==
  ASSUME ScriptConstants, ScriptInv, Wait
  PROVE  ScriptInv'
<1>1. UNCHANGED <<mem, size, start, ran, text, edited>> /\ InFile /\ state' = "wait"
  BY DEF Wait
<1>2. SUFFICES ASSUME ~edited, Plain(text) PROVE AsFar'
  BY <1>1 DEF ScriptInv
<1>3. start \in 1 .. size - 1 /\ ran = MeantUpTo(text)[start]
  BY <1>1, <1>2, InFileIs
<1> QED
  BY <1>1, <1>3 DEF AsFar

LEMMA RunIs ==
  ASSUME ScriptConstants, ScriptInv, Run
  PROVE  ScriptInv'
<1>1. PICK cells : /\ mem' = cells /\ start' = Behind(cells, LineEnd(start))
                   /\ edited' = (edited \/ cells # mem)
  BY DEF Run
<1>2. /\ UNCHANGED <<size, state, text>> /\ InFile /\ state = "run"
      /\ ~Passes(Line(start)) /\ ran' = Append(ran, Line(start))
  BY DEF Run, InFile, Passes
<1>3. edited' \in BOOLEAN /\ (~edited' => ~edited /\ cells = mem)
  BY <1>1 DEF ScriptInv
<1>4. SUFFICES ASSUME ~edited', Plain(text) PROVE AsFar'
  BY <1>1, <1>2, <1>3 DEF ScriptInv
<1>5. ~edited /\ cells = mem
  BY <1>3, <1>4
<1>6. /\ Untouched /\ IsScript /\ start \in 1 .. size - 1 /\ IsEnd(text[start])
      /\ ran = MeantUpTo(text)[start] /\ text \in Seq(STRING)
  BY <1>2, <1>4, <1>5, InFileIs
<1>7. PICK h, s, to : h = MeantUpTo(text) /\ Gathered(h, text) /\ s = start /\ to = Behind(mem, LineEnd(s))
  BY <1>6, MeantUpToGathers
<1>8. to \in 1 .. size /\ (to = size \/ IsEnd(text[to])) /\ h[to] = IF Passes(Line(s)) THEN h[s] ELSE Append(h[s], Line(s))
  BY <1>4, <1>6, <1>7, NextLine
<1>9. start' = to /\ ran' = h[to] /\ state' = "run" /\ text' = text /\ size' = size
  BY <1>1, <1>2, <1>5, <1>6, <1>7, <1>8
<1> QED
  BY <1>6, <1>7, <1>8, <1>9 DEF AsFar, IsScript

LEMMA EndIs ==
  ASSUME ScriptConstants, ScriptInv, End
  PROVE  ScriptInv'
<1>1. /\ UNCHANGED <<mem, size, start, ran, text, edited>> /\ state = "run" /\ state' = "done"
      /\ mem[start] = "NUL" \/ start >= size
  BY DEF End
<1>2. SUFFICES ASSUME ~edited, Plain(text) PROVE AsFar'
  BY <1>1 DEF ScriptInv
<1>3. Untouched /\ IsScript /\ start \in 1 .. size /\ ran = MeantUpTo(text)[start]
  BY <1>1, <1>2 DEF ScriptInv, Untouched, AsFar
<1>4. size \in Nat /\ \A a \in 0 .. size - 1 : mem[a] # "NUL"
  BY <1>3, UntouchedIs
<1>5. start = size
  BY <1>1, <1>3, <1>4
<1> QED
  BY <1>1, <1>3, <1>5 DEF AsFar, IsScript

LEMMA ScriptInductive ==
  ASSUME ScriptConstants, ScriptInv, [ScriptNext]_scriptVars
  PROVE  ScriptInv'
<1>1. CASE UNCHANGED scriptVars
  BY <1>1 DEF scriptVars, ScriptInv, AsFar, IsScript
<1> QED
  BY <1>1, BeginIs, SkipIs, WaitIs, RunIs, EndIs DEF ScriptNext

LEMMA ScriptInvRuns ==
  ASSUME ScriptConstants, ScriptInv
  PROVE  RunsEveryLine
<1>1. SUFFICES ASSUME ~edited, Plain(text)
               PROVE  /\ IsPrefix(ran, Meant(text))
                      /\ state = "done" => ran = IF text # <<>> /\ text[1] = "#!" THEN Meant(text) ELSE <<>>
  BY DEF RunsEveryLine
<1>2. Untouched /\ AsFar
  BY <1>1 DEF ScriptInv, Untouched
<1>3. text \in Seq(STRING) /\ size \in Nat /\ Len(text) = size
  BY <1>2, UntouchedIs
<1>4. PICK h, all : h = MeantUpTo(text) /\ Gathered(h, text) /\ all = h[size]
  BY <1>3, MeantUpToGathers
<1>5. all = Meant(text)
  BY <1>3, <1>4 DEF Meant
<1>6. \A i \in 0 .. size : h[i] \in LineSeq /\ Opens(h[i], all)
  BY <1>3, <1>4, GatheredOpens DEF Gathered
<1>7. all \in LineSeq
  BY <1>3, <1>4, <1>6
<1>8. \E i \in 0 .. size : ran = h[i]
  <2>1. h[0] = <<>> /\ 0 \in 0 .. size /\ size \in 0 .. size
    BY <1>3, <1>4 DEF Gathered
  <2>2. start \in 1 .. size \/ start \in 1 .. size - 1 => start \in 0 .. size
    BY <1>3
  <2> QED
    BY <1>2, <1>4, <2>1, <2>2 DEF AsFar
<1>9. IsPrefix(ran, all)
  BY <1>6, <1>7, <1>8, OpensPrefix
<1>10. ASSUME state = "done" PROVE ran = IF IsScript THEN all ELSE <<>>
  BY <1>2, <1>4, <1>10 DEF AsFar
<1> QED
  BY <1>5, <1>9, <1>10 DEF IsScript

(* A script that no command touches runs its commands, each once and in    *)
(* order, whatever ends their lines: no other before its end, and all of   *)
(* them when it ends (bsh_run_file and bsh_exec).                          *)
THEOREM LinesAreRun ==
  ASSUME ScriptConstants
  PROVE  ScriptSpec => []RunsEveryLine
<1>1. ScriptInit => ScriptInv
  BY ScriptStarts
<1>2. ScriptInv /\ [ScriptNext]_scriptVars => ScriptInv'
  BY ScriptInductive
<1>3. ScriptInv => RunsEveryLine
  BY ScriptInvRuns
<1> QED
  BY <1>1, <1>2, <1>3, PTL DEF ScriptSpec

-----------------------------------------------------------------------------
(* Spellings, names without slashes, and those that are kept.                  *)
Char == STRING \cup {"/", "."}
Spellings == Seq(Char)
Dots == {<<".">>, <<".", ".">>}
NoSlash(w) == \A i \in DOMAIN w : w[i] # "/"
Kinds == {w \in Spellings : NoSlash(w)}
Names == {w \in Kinds : w # <<>> /\ w \notin Dots}

Walks == [parts : Seq(Names), tok : Kinds]
NoWalk == [parts |-> <<>>, tok |-> <<>>]

LEMMA NoneIsText == <<>> \in Spellings /\ NoSlash(<<>>) /\ <<>> \in Kinds /\ NoWalk \in Walks
<1>1. <<>> \in Spellings
  BY EmptySeq DEF Spellings
<1>2. NoSlash(<<>>)
  BY DEF NoSlash
<1>3. <<>> \in Seq(Names)
  BY EmptySeq
<1> QED
  BY <1>1, <1>2, <1>3 DEF Kinds, NoWalk, Walks

LEMMA SlashIs ==
  Slash \in Spellings /\ Len(Slash) = 1 /\ Slash[1] = "/" /\ Slash # <<>> /\ "/" \in Char
<1>1. PICK c \in Char : c = "/"
  BY DEF Char
<1>2. <<c>> \in Seq(Char)
  OBVIOUS
<1>3. Len(<<c>>) = 1 /\ <<c>>[1] = c /\ <<c>> # <<>>
  OBVIOUS
<1>4. Slash = <<c>>
  BY <1>1 DEF Slash
<1> QED
  BY <1>1, <1>2, <1>3, <1>4 DEF Spellings

LEMMA KindGrows ==
  ASSUME NEW w \in Kinds, NEW ch \in Char, ch # "/"
  PROVE  Append(w, ch) \in Kinds /\ Append(w, ch) # <<>>
<1>1. w \in Seq(Char) /\ \A i \in DOMAIN w : w[i] # "/"
  BY DEF Kinds, Spellings, NoSlash
<1>2. PICK n \in Nat : n = Len(w) /\ DOMAIN w = 1 .. n
  BY <1>1, LenProperties
<1>3. PICK v : v = Append(w, ch)
  OBVIOUS
<1>4. v \in Seq(Char) /\ Len(v) = n + 1 /\ (\A i \in 1 .. n : v[i] = w[i]) /\ v[n + 1] = ch
  BY <1>1, <1>2, <1>3, AppendProperties
<1>5. DOMAIN v = 1 .. n + 1
  BY <1>4, LenProperties
<1>6. NoSlash(v)
  <2> SUFFICES ASSUME NEW i \in 1 .. n + 1 PROVE v[i] # "/"
    BY <1>5 DEF NoSlash
  <2>1. CASE i = n + 1
    BY <1>4, <2>1
  <2>2. CASE i \in 1 .. n
    BY <1>1, <1>2, <1>4, <2>2
  <2> QED
    BY <2>1, <2>2
<1>7. v # <<>>
  BY <1>4, EmptySeq
<1> QED
  BY <1>3, <1>4, <1>6, <1>7 DEF Kinds, Spellings

LEMMA TakenIs ==
  ASSUME NEW parts \in Seq(Names), NEW tok \in Kinds, tok # <<>>
  PROVE  /\ Taken(parts, tok) \in Seq(Names)
         /\ tok \in Names => Taken(parts, tok) = Append(parts, tok)
<1>1. tok \notin Dots => tok \in Names /\ Taken(parts, tok) = Append(parts, tok)
  BY DEF Names, Taken, Dots
<1>2. tok \notin Dots => Append(parts, tok) \in Seq(Names)
  BY <1>1, AppendProperties
<1>3. CASE tok = <<".">>
  BY <1>3 DEF Taken, Names, Dots
<1>4. CASE tok = <<".", ".">>
  <2>1. <<".", ".">> # <<".">>
    OBVIOUS
  <2>2. Taken(parts, tok) = IF parts = <<>> THEN parts ELSE Front(parts)
    BY <1>4, <2>1 DEF Taken
  <2>3. parts # <<>> => Front(parts) \in Seq(Names)
    BY FrontIs
  <2> QED
    BY <1>4, <2>2, <2>3 DEF Names, Dots
<1> QED
  BY <1>1, <1>2, <1>3, <1>4 DEF Dots, Names

LEMMA StepIs ==
  ASSUME NEW w \in Walks, NEW ch \in Char
  PROVE  Step(w, ch) \in Walks
<1>1. w.parts \in Seq(Names) /\ w.tok \in Kinds /\ w = [parts |-> w.parts, tok |-> w.tok]
  BY DEF Walks
<1>2. CASE ch # "/"
  <2>1. Step(w, ch) = [parts |-> w.parts, tok |-> Append(w.tok, ch)]
    BY <1>1, <1>2 DEF Step
  <2>2. Append(w.tok, ch) \in Kinds
    BY <1>1, <1>2, KindGrows
  <2> QED
    BY <1>1, <2>1, <2>2 DEF Walks
<1>3. CASE ch = "/"
  <2>1. CASE w.tok = <<>>
    BY <1>3, <2>1 DEF Step
  <2>2. CASE w.tok # <<>>
    <3>1. Step(w, ch) = [parts |-> Taken(w.parts, w.tok), tok |-> <<>>]
      BY <1>3, <2>2 DEF Step
    <3> QED
      BY <1>1, <2>2, <3>1, TakenIs, NoneIsText DEF Walks
  <2> QED
    BY <2>1, <2>2
<1> QED
  BY <1>2, <1>3

-----------------------------------------------------------------------------
(* The walk over a text, character by character.                           *)
Walking(h, s) ==
  h = [n \in 0 .. Len(s) |-> IF n = 0 THEN [parts |-> <<>>, tok |-> <<>>] ELSE Step(h[n - 1], s[n])]

LEMMA WalkedIs ==
  ASSUME NEW s
  PROVE  Walked(s) = (CHOOSE h : Walking(h, s))[Len(s)]
BY DEF Walked, Walking

LEMMA WalkRuns ==
  ASSUME NEW s \in Spellings
  PROVE  \E P \in [0 .. Len(s) -> Walks] :
           /\ P[0] = NoWalk /\ P[Len(s)] = Walked(s)
           /\ \A k \in 1 .. Len(s) : P[k] = Step(P[k - 1], s[k])
<1>1. PICK n \in Nat : n = Len(s)
  BY LenProperties DEF Spellings
<1>2. \A k \in 1 .. n : s[k] \in Char
  BY <1>1, ElementOfSeq DEF Spellings
<1>3. PICK F : F = [q \in Walks \X (1 .. n) |-> Step(q[1], s[q[2]])]
  OBVIOUS
<1>4. F \in [Walks \X (1 .. n) -> Walks]
  <2>1. \A w \in Walks, k \in 1 .. n : Step(w, s[k]) \in Walks
    BY <1>2, StepIs
  <2> QED
    BY <1>3, <2>1
<1>5. PICK P \in [0 .. n -> Walks] : P[0] = NoWalk /\ \A k \in 1 .. n : P[k] = F[<<P[k - 1], k>>]
  <2>1. NoWalk \in Walks
    BY NoneIsText
  <2>2. PICK P, end : IsRun(P, n, NoWalk, end, F, Walks)
    BY <1>4, <2>1, RunExists
  <2> QED
    BY <2>2 DEF IsRun
<1>6. \A k \in 1 .. n : P[k] = Step(P[k - 1], s[k])
  <2> SUFFICES ASSUME NEW k \in 1 .. n PROVE P[k] = Step(P[k - 1], s[k])
    OBVIOUS
  <2>1. P[k - 1] \in Walks
    BY <1>5
  <2> QED
    BY <1>3, <1>5, <2>1
<1>7. Walking(P, s)
  <2>1. P = [k \in 0 .. n |-> IF k = 0 THEN NoWalk ELSE Step(P[k - 1], s[k])]
    <3>1. \A k \in 0 .. n : P[k] = IF k = 0 THEN NoWalk ELSE Step(P[k - 1], s[k])
      BY <1>5, <1>6
    <3> QED
      BY <1>5, <3>1
  <2> QED
    BY <1>1, <2>1 DEF Walking, NoWalk
<1>8. PICK h : Walking(h, s) /\ Walked(s) = h[n]
  BY <1>1, <1>7, WalkedIs
<1>9. h[0] = NoWalk /\ \A k \in 1 .. n : h[k] = Step(h[k - 1], s[k])
  <2>1. h = [k \in 0 .. n |-> IF k = 0 THEN NoWalk ELSE Step(h[k - 1], s[k])]
    BY <1>1, <1>8 DEF Walking, NoWalk
  <2> QED
    BY <2>1
<1>10. PICK G : G = {k \in 0 .. n : h[k] = P[k]}
  OBVIOUS
<1>11. 0 \in G
  BY <1>5, <1>9, <1>10
<1>12. ASSUME NEW k \in 1 .. n, k - 1 \in G PROVE k \in G
  BY <1>6, <1>9, <1>10, <1>12
<1>13. \A k \in 0 .. n : k \in G
  BY <1>11, <1>12, StepByStep
<1>14. h[n] = P[n]
  BY <1>10, <1>13
<1> QED
  BY <1>1, <1>5, <1>6, <1>8, <1>14

LEMMA WalkOfNone == Walked(<<>>) = NoWalk
<1>1. <<>> \in Spellings /\ Len(<<>>) = 0
  BY NoneIsText
<1>2. PICK P \in [0 .. Len(<<>>) -> Walks] : P[0] = NoWalk /\ P[Len(<<>>)] = Walked(<<>>)
  BY <1>1, WalkRuns
<1> QED
  BY <1>1, <1>2

LEMMA WalkGrows ==
  ASSUME NEW s \in Spellings, NEW ch \in Char
  PROVE  Walked(s) \in Walks /\ Walked(Append(s, ch)) = Step(Walked(s), ch)
<1>1. PICK n \in Nat : n = Len(s)
  BY LenProperties DEF Spellings
<1>2. PICK v : v = Append(s, ch)
  OBVIOUS
<1>3. v \in Spellings /\ Len(v) = n + 1 /\ (\A i \in 1 .. n : v[i] = s[i]) /\ v[n + 1] = ch
  BY <1>1, <1>2, AppendProperties DEF Spellings
<1>4. PICK P \in [0 .. n -> Walks] : /\ P[0] = NoWalk /\ P[n] = Walked(s)
                                     /\ \A k \in 1 .. n : P[k] = Step(P[k - 1], s[k])
  BY <1>1, WalkRuns
<1>5. PICK Q \in [0 .. n + 1 -> Walks] : /\ Q[0] = NoWalk /\ Q[n + 1] = Walked(v)
                                         /\ \A k \in 1 .. n + 1 : Q[k] = Step(Q[k - 1], v[k])
  <2>1. PICK Q \in [0 .. Len(v) -> Walks] : /\ Q[0] = NoWalk /\ Q[Len(v)] = Walked(v)
                                            /\ \A k \in 1 .. Len(v) : Q[k] = Step(Q[k - 1], v[k])
    BY <1>3, WalkRuns
  <2> QED
    BY <1>3, <2>1
<1>6. PICK G : G = {k \in 0 .. n : Q[k] = P[k]}
  OBVIOUS
<1>7. 0 \in G
  BY <1>4, <1>5, <1>6
<1>8. ASSUME NEW k \in 1 .. n, k - 1 \in G PROVE k \in G
  <2>1. k \in 1 .. n + 1 /\ k \in 0 .. n /\ Q[k - 1] = P[k - 1]
    BY <1>6, <1>8
  <2>2. Q[k] = Step(Q[k - 1], v[k]) /\ P[k] = Step(P[k - 1], s[k]) /\ v[k] = s[k]
    BY <1>3, <1>4, <1>5, <2>1
  <2> QED
    BY <1>6, <2>1, <2>2
<1>9. \A k \in 0 .. n : k \in G
  BY <1>7, <1>8, StepByStep
<1>10. Q[n] = P[n]
  BY <1>6, <1>9
<1>11. n + 1 \in 1 .. n + 1 /\ (n + 1) - 1 = n /\ n \in 0 .. n
  OBVIOUS
<1>12. Q[n + 1] = Step(Q[n], ch)
  BY <1>3, <1>5, <1>11
<1> QED
  BY <1>2, <1>4, <1>5, <1>10, <1>11, <1>12

(* Spellings that are glued.                                                   *)
LEMMA GluedIs ==
  ASSUME NEW a \in Spellings, NEW b \in Spellings
  PROVE  /\ a \o b \in Spellings
         /\ a \o <<>> = a
         /\ \A ch \in Char : a \o Append(b, ch) = Append(a \o b, ch)
         /\ a \o Slash = Append(a, "/")
         /\ b # <<>> => a \o b # <<>>
         /\ a # <<>> => a \o b # <<>> /\ (a \o b)[1] = a[1]
<1>1. a \in Seq(Char) /\ b \in Seq(Char)
  BY DEF Spellings
<1>2. a \o b \in Spellings
  BY <1>1, ConcatProperties DEF Spellings
<1>3. a \o <<>> = a
  BY <1>1, ConcatEmptySeq
<1>4. \A c, d \in Seq(Char), ch \in Char : c \o Append(d, ch) = Append(c \o d, ch)
  BY AppendBehind DEF Longer, Glued
<1>5. a \o Slash = Append(a, "/")
  <2>1. Slash = Append(<<>>, "/")
    BY DEF Slash
  <2>2. <<>> \in Seq(Char) /\ "/" \in Char
    BY EmptySeq, SlashIs
  <2> QED
    BY <1>1, <1>3, <1>4, <2>1, <2>2
<1>6. PICK m \in Nat, n \in Nat : m = Len(a) /\ n = Len(b)
  BY <1>1, LenProperties
<1>7. Len(a \o b) = m + n /\ \A i \in 1 .. m + n : (a \o b)[i] = IF i <= m THEN a[i] ELSE b[i - m]
  BY <1>1, <1>6, ConcatProperties
<1>8. (b # <<>> => n # 0) /\ (a # <<>> => m # 0)
  BY <1>1, <1>6, EmptySeq
<1>9. m + n # 0 => a \o b # <<>>
  BY <1>2, <1>6, <1>7
<1>10. m # 0 => (a \o b)[1] = a[1]
  BY <1>6, <1>7
<1> QED
  BY <1>1, <1>2, <1>3, <1>4, <1>5, <1>6, <1>8, <1>9, <1>10

LEMMA GluedThrice ==
  ASSUME NEW a \in Spellings, NEW b \in Spellings, NEW c \in Spellings
  PROVE  (a \o b) \o c = a \o (b \o c)
BY ConcatAssociative DEF Spellings

(* A walk knows only where it is.                                          *)
LEMMA WalksAlike ==
  ASSUME NEW a \in Spellings, NEW b \in Spellings, NEW w \in Spellings, Walked(a) = Walked(b)
  PROVE  Walked(a \o w) = Walked(b \o w)
<1>1. PICK n \in Nat : n = Len(w)
  BY LenProperties DEF Spellings
<1>2. PICK G : G = {k \in 0 .. n : Walked(a \o SubSeq(w, 1, k)) = Walked(b \o SubSeq(w, 1, k))}
  OBVIOUS
<1>3. 0 \in G
  <2>1. PICK z : z = SubSeq(w, 1, 0)
    OBVIOUS
  <2>2. z = <<>>
    BY <2>1, SubSeqEmpty
  <2>3. a \o z = a /\ b \o z = b
    BY <2>2, GluedIs
  <2>4. Walked(a \o z) = Walked(b \o z)
    BY <2>3
  <2> QED
    BY <1>2, <2>1, <2>4
<1>4. ASSUME NEW k \in 1 .. n, k - 1 \in G PROVE k \in G
  <2>1. PICK u, v, ch : u = SubSeq(w, 1, k - 1) /\ v = SubSeq(w, 1, k) /\ ch = w[k]
    OBVIOUS
  <2>2. u \in Spellings /\ v \in Spellings /\ v = Append(u, ch) /\ ch \in Char
    BY <1>1, <2>1, PrefixGrows, ElementOfSeq DEF Spellings
  <2>3. Walked(a \o u) = Walked(b \o u)
    BY <1>2, <1>4, <2>1
  <2>4. a \o u \in Spellings /\ a \o v = Append(a \o u, ch)
    BY <2>2, GluedIs
  <2>5. b \o u \in Spellings /\ b \o v = Append(b \o u, ch)
    BY <2>2, GluedIs
  <2>6. Walked(a \o v) = Step(Walked(a \o u), ch)
    BY <2>2, <2>4, WalkGrows
  <2>7. Walked(b \o v) = Step(Walked(b \o u), ch)
    BY <2>2, <2>5, WalkGrows
  <2> QED
    BY <1>2, <2>1, <2>3, <2>6, <2>7
<1>5. \A k \in 0 .. n : k \in G
  BY <1>3, <1>4, StepByStep
<1>6. SubSeq(w, 1, n) = w
  BY <1>1, SubSeqFull DEF Spellings
<1>7. n \in G
  BY <1>5
<1> QED
  BY <1>2, <1>6, <1>7

(* A name behind a slash is gathered.                                      *)
LEMMA NameIsGathered ==
  ASSUME NEW a \in Spellings, NEW w \in Kinds, Walked(a).tok = <<>>
  PROVE  Walked(a \o w) = [parts |-> Walked(a).parts, tok |-> w]
<1>1. w \in Spellings /\ NoSlash(w)
  BY DEF Kinds
<1>2. PICK n \in Nat : n = Len(w) /\ DOMAIN w = 1 .. n
  BY <1>1, LenProperties DEF Spellings
<1>3. PICK ps : ps = Walked(a).parts /\ Walked(a) = [parts |-> ps, tok |-> <<>>]
  <2>1. Walked(a) \in Walks
    BY WalkGrows, SlashIs
  <2> QED
    BY <2>1 DEF Walks
<1>4. PICK G : G = {k \in 0 .. n : Walked(a \o SubSeq(w, 1, k)) = [parts |-> ps, tok |-> SubSeq(w, 1, k)]}
  OBVIOUS
<1>5. 0 \in G
  <2>1. PICK z : z = SubSeq(w, 1, 0)
    OBVIOUS
  <2>2. z = <<>>
    BY <2>1, SubSeqEmpty
  <2>3. a \o z = a
    BY <2>2, GluedIs
  <2>4. Walked(a \o z) = [parts |-> ps, tok |-> z]
    BY <1>3, <2>2, <2>3
  <2> QED
    BY <1>4, <2>1, <2>4
<1>6. ASSUME NEW k \in 1 .. n, k - 1 \in G PROVE k \in G
  <2>1. PICK u, v, ch : u = SubSeq(w, 1, k - 1) /\ v = SubSeq(w, 1, k) /\ ch = w[k]
    OBVIOUS
  <2>2. u \in Spellings /\ v \in Spellings /\ v = Append(u, ch) /\ ch \in Char
    BY <1>1, <1>2, <2>1, PrefixGrows, ElementOfSeq DEF Spellings
  <2>3. ch # "/"
    BY <1>1, <1>2, <2>1 DEF NoSlash
  <2>4. Walked(a \o u) = [parts |-> ps, tok |-> u]
    BY <1>4, <1>6, <2>1
  <2>5. a \o u \in Spellings /\ a \o v = Append(a \o u, ch)
    BY <2>2, GluedIs
  <2>6. Walked(a \o v) = Step([parts |-> ps, tok |-> u], ch)
    BY <2>2, <2>4, <2>5, WalkGrows
  <2>7. Walked(a \o v) = [parts |-> ps, tok |-> v]
    BY <2>2, <2>3, <2>6 DEF Step
  <2> QED
    BY <1>4, <2>1, <2>7
<1>7. \A k \in 0 .. n : k \in G
  BY <1>5, <1>6, StepByStep
<1>8. SubSeq(w, 1, n) = w
  BY <1>1, <1>2, SubSeqFull DEF Spellings
<1>9. n \in G
  BY <1>7
<1> QED
  BY <1>3, <1>4, <1>8, <1>9

-----------------------------------------------------------------------------
(* A path is put together from names.                                      *)
Putting(h, ps) ==
  h = [n \in 0 .. Len(ps) |-> IF n = 0 THEN <<>> ELSE h[n - 1] \o Slash \o ps[n]]

LEMMA PathOfIs ==
  ASSUME NEW ps
  PROVE  PathOf(ps) = (CHOOSE h : Putting(h, ps))[Len(ps)]
BY DEF PathOf, Putting

With(path, w) == (path \o Slash) \o w

LEMMA WithIsText ==
  ASSUME NEW path \in Spellings, NEW w \in Spellings
  PROVE  With(path, w) \in Spellings
BY SlashIs, GluedIs DEF With

LEMMA PathRuns ==
  ASSUME NEW ps \in Seq(Names)
  PROVE  \E P \in [0 .. Len(ps) -> Spellings] :
           /\ P[0] = <<>> /\ P[Len(ps)] = PathOf(ps)
           /\ \A k \in 1 .. Len(ps) : P[k] = With(P[k - 1], ps[k])
<1>1. PICK n \in Nat : n = Len(ps)
  BY LenProperties
<1>2. \A k \in 1 .. n : ps[k] \in Spellings
  BY <1>1, ElementOfSeq DEF Names, Kinds
<1>3. PICK F : F = [q \in Spellings \X (1 .. n) |-> With(q[1], ps[q[2]])]
  OBVIOUS
<1>4. F \in [Spellings \X (1 .. n) -> Spellings]
  <2>1. \A w \in Spellings, k \in 1 .. n : With(w, ps[k]) \in Spellings
    BY <1>2, WithIsText
  <2> QED
    BY <1>3, <2>1
<1>5. PICK P \in [0 .. n -> Spellings] : P[0] = <<>> /\ \A k \in 1 .. n : P[k] = F[<<P[k - 1], k>>]
  <2>1. <<>> \in Spellings
    BY NoneIsText
  <2>2. PICK P, end : IsRun(P, n, <<>>, end, F, Spellings)
    BY <1>4, <2>1, RunExists
  <2> QED
    BY <2>2 DEF IsRun
<1>6. \A k \in 1 .. n : P[k] = With(P[k - 1], ps[k])
  <2> SUFFICES ASSUME NEW k \in 1 .. n PROVE P[k] = With(P[k - 1], ps[k])
    OBVIOUS
  <2>1. P[k - 1] \in Spellings
    BY <1>5
  <2> QED
    BY <1>3, <1>5, <2>1
<1>7. Putting(P, ps)
  <2>1. P = [k \in 0 .. n |-> IF k = 0 THEN <<>> ELSE With(P[k - 1], ps[k])]
    <3>1. \A k \in 0 .. n : P[k] = IF k = 0 THEN <<>> ELSE With(P[k - 1], ps[k])
      BY <1>5, <1>6
    <3> QED
      BY <1>5, <3>1
  <2> QED
    BY <1>1, <2>1 DEF Putting, With
<1>8. PICK h : Putting(h, ps) /\ PathOf(ps) = h[n]
  BY <1>1, <1>7, PathOfIs
<1>9. h[0] = <<>> /\ \A k \in 1 .. n : h[k] = With(h[k - 1], ps[k])
  <2>1. h = [k \in 0 .. n |-> IF k = 0 THEN <<>> ELSE With(h[k - 1], ps[k])]
    BY <1>1, <1>8 DEF Putting, With
  <2> QED
    BY <2>1
<1>10. PICK G : G = {k \in 0 .. n : h[k] = P[k]}
  OBVIOUS
<1>11. 0 \in G
  BY <1>5, <1>9, <1>10
<1>12. ASSUME NEW k \in 1 .. n, k - 1 \in G PROVE k \in G
  BY <1>6, <1>9, <1>10, <1>12
<1>13. \A k \in 0 .. n : k \in G
  BY <1>11, <1>12, StepByStep
<1>14. h[n] = P[n]
  BY <1>10, <1>13
<1> QED
  BY <1>1, <1>5, <1>6, <1>8, <1>14

LEMMA PathOfNone == PathOf(<<>>) = <<>>
<1>1. <<>> \in Seq(Names) /\ Len(<<>>) = 0
  BY EmptySeq
<1>2. PICK P \in [0 .. Len(<<>>) -> Spellings] : P[0] = <<>> /\ P[Len(<<>>)] = PathOf(<<>>)
  BY <1>1, PathRuns
<1> QED
  BY <1>1, <1>2

LEMMA PathGrows ==
  ASSUME NEW ps \in Seq(Names), NEW w \in Names
  PROVE  PathOf(ps) \in Spellings /\ PathOf(Append(ps, w)) = With(PathOf(ps), w)
<1>1. PICK n \in Nat : n = Len(ps)
  BY LenProperties
<1>2. PICK v : v = Append(ps, w)
  OBVIOUS
<1>3. v \in Seq(Names) /\ Len(v) = n + 1 /\ (\A i \in 1 .. n : v[i] = ps[i]) /\ v[n + 1] = w
  BY <1>1, <1>2, AppendProperties
<1>4. PICK P \in [0 .. n -> Spellings] : /\ P[0] = <<>> /\ P[n] = PathOf(ps)
                                     /\ \A k \in 1 .. n : P[k] = With(P[k - 1], ps[k])
  BY <1>1, PathRuns
<1>5. PICK Q \in [0 .. n + 1 -> Spellings] : /\ Q[0] = <<>> /\ Q[n + 1] = PathOf(v)
                                         /\ \A k \in 1 .. n + 1 : Q[k] = With(Q[k - 1], v[k])
  <2>1. PICK Q \in [0 .. Len(v) -> Spellings] : /\ Q[0] = <<>> /\ Q[Len(v)] = PathOf(v)
                                            /\ \A k \in 1 .. Len(v) : Q[k] = With(Q[k - 1], v[k])
    BY <1>3, PathRuns
  <2> QED
    BY <1>3, <2>1
<1>6. PICK G : G = {k \in 0 .. n : Q[k] = P[k]}
  OBVIOUS
<1>7. 0 \in G
  BY <1>4, <1>5, <1>6
<1>8. ASSUME NEW k \in 1 .. n, k - 1 \in G PROVE k \in G
  <2>1. k \in 1 .. n + 1 /\ k \in 0 .. n /\ Q[k - 1] = P[k - 1]
    BY <1>6, <1>8
  <2>2. Q[k] = With(Q[k - 1], v[k]) /\ P[k] = With(P[k - 1], ps[k]) /\ v[k] = ps[k]
    BY <1>3, <1>4, <1>5, <2>1
  <2> QED
    BY <1>6, <2>1, <2>2
<1>9. \A k \in 0 .. n : k \in G
  BY <1>7, <1>8, StepByStep
<1>10. Q[n] = P[n]
  BY <1>6, <1>9
<1>11. n + 1 \in 1 .. n + 1 /\ (n + 1) - 1 = n /\ n \in 0 .. n
  OBVIOUS
<1>12. Q[n + 1] = With(Q[n], w)
  BY <1>3, <1>5, <1>11
<1> QED
  BY <1>2, <1>4, <1>5, <1>10, <1>11, <1>12

(* A slash behind a text leaves no name open.                              *)
LEMMA SlashCloses ==
  ASSUME NEW s \in Spellings
  PROVE  s \o Slash \in Spellings /\ Parts(s) \in Seq(Names)
         /\ Walked(s \o Slash) = [parts |-> Parts(s), tok |-> <<>>]
<1>1. "/" \in Char /\ s \o Slash = Append(s, "/") /\ s \o Slash \in Spellings
  BY SlashIs, GluedIs
<1>2. Walked(s) \in Walks /\ Walked(s \o Slash) = Step(Walked(s), "/") /\ Walked(s \o Slash) \in Walks
  BY <1>1, WalkGrows, SlashIs
<1>3. Walked(s \o Slash).tok = <<>>
  BY <1>2 DEF Step, Walks
<1> QED
  BY <1>1, <1>2, <1>3 DEF Parts, Walks

(* A path is walked to the names it was put together from.                 *)
LEMMA PathWalks ==
  ASSUME NEW ps \in Seq(Names)
  PROVE  Walked(PathOf(ps) \o Slash) = [parts |-> ps, tok |-> <<>>]
<1>1. PICK n \in Nat : n = Len(ps)
  BY LenProperties
<1>2. PICK G : G = {k \in 0 .. n : Walked(PathOf(SubSeq(ps, 1, k)) \o Slash) = [parts |-> SubSeq(ps, 1, k), tok |-> <<>>]}
  OBVIOUS
<1>3. 0 \in G
  <2>1. PICK z : z = SubSeq(ps, 1, 0)
    OBVIOUS
  <2>6. z = <<>>
    BY <2>1, SubSeqEmpty
  <2>2. z = <<>> /\ PathOf(z) = <<>>
    BY <2>6, PathOfNone
  <2>3. <<>> \in Spellings /\ <<>> \o Slash = Append(<<>>, "/") /\ "/" \in Char
    BY NoneIsText, GluedIs, SlashIs
  <2>4. Walked(<<>> \o Slash) = Step(NoWalk, "/")
    BY <2>3, WalkGrows, WalkOfNone
  <2>5. Walked(PathOf(z) \o Slash) = [parts |-> z, tok |-> <<>>]
    BY <2>2, <2>4 DEF Step, NoWalk
  <2> QED
    BY <1>2, <2>1, <2>5
<1>4. ASSUME NEW k \in 1 .. n, k - 1 \in G PROVE k \in G
  <2>1. PICK u, v, w : u = SubSeq(ps, 1, k - 1) /\ v = SubSeq(ps, 1, k) /\ w = ps[k]
    OBVIOUS
  <2>2. u \in Seq(Names) /\ v = Append(u, w) /\ w \in Names
    BY <1>1, <2>1, PrefixGrows, ElementOfSeq
  <2>3. PICK p : p = PathOf(u) \o Slash
    OBVIOUS
  <2>4. Walked(p) = [parts |-> u, tok |-> <<>>]
    BY <1>2, <1>4, <2>1, <2>3
  <2>5. p \in Spellings /\ PathOf(v) = p \o w
    BY <2>2, <2>3, PathGrows, GluedIs, SlashIs DEF With
  <2>6. w \in Kinds /\ w \in Spellings /\ w # <<>>
    BY <2>2 DEF Names, Kinds
  <2>7. Walked(p \o w) = [parts |-> u, tok |-> w]
    BY <2>4, <2>5, <2>6, NameIsGathered
  <2>8. p \o w \in Spellings /\ (p \o w) \o Slash = Append(p \o w, "/") /\ "/" \in Char
    BY <2>5, <2>6, GluedIs, SlashIs
  <2>9. Walked((p \o w) \o Slash) = Step([parts |-> u, tok |-> w], "/")
    BY <2>7, <2>8, WalkGrows
  <2>10. Taken(u, w) = v
    BY <2>2, <2>6, TakenIs
  <2>11. Walked(PathOf(v) \o Slash) = [parts |-> v, tok |-> <<>>]
    BY <2>5, <2>6, <2>9, <2>10 DEF Step
  <2> QED
    BY <1>2, <2>1, <2>11
<1>5. \A k \in 0 .. n : k \in G
  BY <1>3, <1>4, StepByStep
<1>6. SubSeq(ps, 1, n) = ps
  BY <1>1, SubSeqFull
<1>7. n \in G
  BY <1>5
<1> QED
  BY <1>2, <1>6, <1>7

(* It starts with a slash and ends with none.                              *)
StartsRight(path) == (path \o Slash)[1] = "/"

LEMMA PathStarts ==
  ASSUME NEW ps \in Seq(Names)
  PROVE  StartsRight(PathOf(ps))
<1>1. PICK n \in Nat : n = Len(ps)
  BY LenProperties
<1>2. PICK G : G = {k \in 0 .. n : StartsRight(PathOf(SubSeq(ps, 1, k)))}
  OBVIOUS
<1>3. 0 \in G
  <2>1. PICK z : z = SubSeq(ps, 1, 0)
    OBVIOUS
  <2>6. z = <<>>
    BY <2>1, SubSeqEmpty
  <2>2. z = <<>> /\ PathOf(z) = <<>>
    BY <2>6, PathOfNone
  <2>3. <<>> \o Slash = Slash
    BY SlashIs, ConcatEmptySeq DEF Spellings
  <2>4. StartsRight(PathOf(z))
    BY <2>2, <2>3, SlashIs DEF StartsRight
  <2> QED
    BY <1>2, <2>1, <2>4
<1>4. ASSUME NEW k \in 1 .. n, k - 1 \in G PROVE k \in G
  <2>1. PICK u, v, w : u = SubSeq(ps, 1, k - 1) /\ v = SubSeq(ps, 1, k) /\ w = ps[k]
    OBVIOUS
  <2>2. u \in Seq(Names) /\ v = Append(u, w) /\ w \in Names
    BY <1>1, <2>1, PrefixGrows, ElementOfSeq
  <2>3. PICK p : p = PathOf(u) \o Slash
    OBVIOUS
  <2>4. p[1] = "/"
    BY <1>2, <1>4, <2>1, <2>3 DEF StartsRight
  <2>5. p \in Spellings /\ PathOf(v) = p \o w /\ p # <<>>
    BY <2>2, <2>3, PathGrows, GluedIs, SlashIs DEF With
  <2>6. w \in Spellings
    BY <2>2 DEF Names, Kinds
  <2>7. p \o w \in Spellings /\ p \o w # <<>> /\ (p \o w)[1] = "/"
    BY <2>4, <2>5, <2>6, GluedIs
  <2>8. StartsRight(PathOf(v))
    BY <2>5, <2>7, GluedIs, SlashIs DEF StartsRight
  <2> QED
    BY <1>2, <2>1, <2>8
<1>5. \A k \in 0 .. n : k \in G
  BY <1>3, <1>4, StepByStep
<1>6. SubSeq(ps, 1, n) = ps
  BY <1>1, SubSeqFull
<1>7. n \in G
  BY <1>5
<1> QED
  BY <1>2, <1>6, <1>7

LEMMA PathEnds ==
  ASSUME NEW ps \in Seq(Names), ps # <<>>
  PROVE  PathOf(ps) \in Spellings \ {<<>>} /\ PathOf(ps)[1] = "/" /\ Last(PathOf(ps)) # "/"
<1>1. PICK u, w : u = Front(ps) /\ w = ps[Len(ps)]
  OBVIOUS
<1>2. u \in Seq(Names) /\ w \in Names /\ ps = Append(u, w)
  BY <1>1, FrontIs
<1>3. PICK p : p = PathOf(u) \o Slash
  OBVIOUS
<1>4. p \in Spellings /\ p # <<>> /\ PathOf(ps) = p \o w
  BY <1>2, <1>3, PathGrows, GluedIs, SlashIs DEF With
<1>5. w \in Spellings /\ w # <<>> /\ NoSlash(w)
  BY <1>2 DEF Names, Kinds
<1>6. p[1] = "/"
  BY <1>2, <1>3, PathStarts DEF StartsRight
<1>7. p \o w \in Spellings /\ p \o w # <<>> /\ (p \o w)[1] = "/"
  BY <1>4, <1>5, <1>6, GluedIs
<1>8. Last(p \o w) # "/"
  <2>1. PICK m \in Nat, n \in Nat : m = Len(p) /\ n = Len(w)
    BY <1>4, <1>5, LenProperties DEF Spellings
  <2>2. n # 0 /\ DOMAIN w = 1 .. n
    BY <1>5, <2>1, EmptySeq, LenProperties DEF Spellings
  <2>3. Len(p \o w) = m + n /\ (p \o w)[m + n] = w[n]
    BY <1>4, <1>5, <2>1, <2>2, ConcatProperties DEF Spellings
  <2>4. w[n] # "/"
    BY <1>5, <2>2 DEF NoSlash
  <2> QED
    BY <2>3, <2>4 DEF Last
<1> QED
  BY <1>4, <1>7, <1>8

-----------------------------------------------------------------------------
(* What normalize_path makes of a text is the text it makes of itself.     *)
LEMMA NormalizedIs ==
  ASSUME NEW s \in Spellings
  PROVE  /\ Normalized(s) \in Spellings \ {<<>>} /\ Normalized(s)[1] = "/"
         /\ Walked(Normalized(s) \o Slash) = Walked(s \o Slash)
         /\ \/ Normalized(s) = Slash /\ Walked(s \o Slash) = NoWalk
            \/ Last(Normalized(s)) # "/"
<1>1. PICK ps : ps = Parts(s)
  OBVIOUS
<1>2. ps \in Seq(Names) /\ Walked(s \o Slash) = [parts |-> ps, tok |-> <<>>]
  BY <1>1, SlashCloses
<1>3. CASE ps = <<>>
  <2>1. Normalized(s) = Slash /\ Walked(s \o Slash) = NoWalk
    BY <1>1, <1>2, <1>3 DEF Normalized, NoWalk
  <2>2. Walked(Slash) = NoWalk
    <3>1. <<>> \in Spellings /\ Append(<<>>, "/") = Slash /\ "/" \in Char
      BY NoneIsText, SlashIs DEF Slash
    <3>2. Walked(Slash) = Step(NoWalk, "/")
      BY <3>1, WalkGrows, WalkOfNone
    <3> QED
      BY <3>2 DEF Step, NoWalk
  <2>3. Walked(Slash \o Slash) = NoWalk
    <3>1. Slash \in Spellings /\ Slash \o Slash = Append(Slash, "/") /\ "/" \in Char
      BY SlashIs, GluedIs
    <3>2. Walked(Slash \o Slash) = Step(NoWalk, "/")
      BY <2>2, <3>1, WalkGrows
    <3> QED
      BY <3>2 DEF Step, NoWalk
  <2> QED
    BY <2>1, <2>3, SlashIs
<1>4. CASE ps # <<>>
  <2>1. Normalized(s) = PathOf(ps)
    BY <1>1, <1>4 DEF Normalized
  <2> QED
    BY <1>2, <1>4, <2>1, PathWalks, PathEnds
<1> QED
  BY <1>3, <1>4

LEMMA SameWalkSameName ==
  ASSUME NEW s, NEW t, Walked(s \o Slash) = Walked(t \o Slash)
  PROVE  Normalized(s) = Normalized(t)
BY DEF Normalized, Parts

LEMMA NormalizedTwice ==
  ASSUME NEW s \in Spellings
  PROVE  Normalized(Normalized(s)) = Normalized(s)
BY NormalizedIs, SameWalkSameName

(* What is typed is glued to the directory unless it starts with a slash.  *)
Base(dir, s) == IF s[1] = "/" THEN s ELSE IF Last(dir) = "/" THEN dir \o s ELSE (dir \o Slash) \o s
Below(g, y) == (g \o Slash) \o y

LEMMA BelowIs ==
  ASSUME NEW g \in Spellings, NEW y \in Spellings
  PROVE  Below(g, y) \in Spellings /\ Below(g, y) = g \o (Slash \o y) /\ g \o Slash \o y = Below(g, y)
<1>1. Slash \in Spellings /\ Slash \o y \in Spellings /\ g \o Slash \in Spellings
  BY SlashIs, GluedIs
<1>2. (g \o Slash) \o y = g \o (Slash \o y)
  BY <1>1, GluedThrice
<1>3. (g \o Slash) \o y \in Spellings
  BY <1>1, GluedIs
<1> QED
  BY <1>2, <1>3 DEF Below

LEMMA BaseIs ==
  ASSUME NEW dir \in Spellings, NEW s \in Spellings
  PROVE  Base(dir, s) \in Spellings /\ Resolved(dir, s) = Normalized(Base(dir, s))
<1>1. Base(dir, s) \in Spellings
  BY SlashIs, GluedIs DEF Base
<1>2. Resolved(dir, s) = Normalized(Base(dir, s))
  BY DEF Resolved, Base
<1> QED
  BY <1>1, <1>2

LEMMA ResolvedIs ==
  ASSUME NEW dir \in Spellings, NEW s \in Spellings
  PROVE  /\ Resolved(dir, s) \in Spellings \ {<<>>}
         /\ Resolved(dir, Resolved(dir, s)) = Resolved(dir, s)
<1>1. PICK t : t = Resolved(dir, s)
  OBVIOUS
<1>2. t \in Spellings \ {<<>>} /\ t[1] = "/" /\ Normalized(t) = t
  BY <1>1, BaseIs, NormalizedIs, NormalizedTwice
<1>3. Resolved(dir, t) = Normalized(t)
  BY <1>2, BaseIs DEF Base
<1> QED
  BY <1>1, <1>2, <1>3

(* x/y is glued to a directory as x is, and y behind it.                   *)
LEMMA BaseOfBelow ==
  ASSUME NEW dir \in Spellings, NEW x \in Spellings, x # <<>>, NEW y \in Spellings
  PROVE  Base(dir, Below(x, y)) = Below(Base(dir, x), y)
<1>1. PICK z : z = Slash \o y /\ z \in Spellings
  BY SlashIs, GluedIs
<1>2. Below(x, y) = x \o z /\ x \o z \in Spellings /\ (x \o z)[1] = x[1]
  BY <1>1, BelowIs, GluedIs
<1>3. \A g \in Spellings : Below(g, y) = g \o z
  BY <1>1, BelowIs
<1>4. CASE x[1] = "/"
  <2>1. Base(dir, x) = x /\ Base(dir, x \o z) = x \o z
    BY <1>2, <1>4 DEF Base
  <2> QED
    BY <1>2, <2>1
<1>5. CASE x[1] # "/" /\ Last(dir) = "/"
  <2>1. Base(dir, x) = dir \o x /\ Base(dir, x \o z) = dir \o (x \o z)
    BY <1>2, <1>5 DEF Base
  <2>2. dir \o x \in Spellings
    BY GluedIs
  <2>3. dir \o (x \o z) = (dir \o x) \o z
    BY <1>1, GluedThrice
  <2> QED
    BY <1>2, <1>3, <2>1, <2>2, <2>3
<1>6. CASE x[1] # "/" /\ Last(dir) # "/"
  <2>1. Base(dir, x) = (dir \o Slash) \o x /\ Base(dir, x \o z) = (dir \o Slash) \o (x \o z)
    BY <1>2, <1>6 DEF Base
  <2>2. dir \o Slash \in Spellings
    BY SlashIs, GluedIs
  <2>3. (dir \o Slash) \o x \in Spellings
    BY <2>2, GluedIs
  <2>4. (dir \o Slash) \o (x \o z) = ((dir \o Slash) \o x) \o z
    BY <1>1, <2>2, GluedThrice
  <2> QED
    BY <1>2, <1>3, <2>1, <2>3, <2>4
<1> QED
  BY <1>4, <1>5, <1>6

(* To go to x and to name y there is to name x/y.                          *)
LEMMA ResolvedBelow ==
  ASSUME NEW dir \in Spellings, NEW x \in Spellings, x # <<>>, NEW y \in Spellings, y[1] # "/"
  PROVE  Resolved(Resolved(dir, x), y) = Resolved(dir, x \o Slash \o y)
<1>1. PICK g : g = Base(dir, x) /\ g \in Spellings
  BY BaseIs
<1>2. PICK there : there = Resolved(dir, x) /\ there = Normalized(g)
  BY <1>1, BaseIs
<1>3. there \in Spellings \ {<<>>} /\ Walked(there \o Slash) = Walked(g \o Slash)
  BY <1>1, <1>2, NormalizedIs
<1>4. (there = Slash /\ Walked(g \o Slash) = NoWalk) \/ Last(there) # "/"
  BY <1>1, <1>2, NormalizedIs
<1>5. PICK z : z = y \o Slash /\ z \in Spellings
  BY SlashIs, GluedIs
<1>6. g \o Slash \in Spellings /\ there \o Slash \in Spellings
  BY <1>1, <1>3, SlashIs, GluedIs
<1>7. Below(g, y) \o Slash = (g \o Slash) \o z
  <2>1. PICK t : t = g \o Slash /\ t \in Spellings
    BY <1>6
  <2>2. Slash \in Spellings
    BY SlashIs
  <2>3. (t \o y) \o Slash = t \o (y \o Slash)
    BY <2>1, <2>2, GluedThrice
  <2>4. Below(g, y) = t \o y
    BY <2>1 DEF Below
  <2> QED
    BY <1>5, <2>1, <2>3, <2>4
<1>8. Walked(Base(there, y) \o Slash) = Walked(Below(g, y) \o Slash)
  <2>1. CASE there = Slash /\ Walked(g \o Slash) = NoWalk
    <3>1. Last(Slash) = "/"
      BY SlashIs DEF Last
    <3>2. Base(there, y) = Slash \o y
      BY <2>1, <3>1 DEF Base
    <3>3. (Slash \o y) \o Slash = Slash \o z
      <4>1. Slash \in Spellings
        BY SlashIs
      <4>2. (Slash \o y) \o Slash = Slash \o (y \o Slash)
        BY <4>1, GluedThrice
      <4> QED
        BY <1>5, <4>2
    <3>4. Walked(Slash) = NoWalk
      <4>1. <<>> \in Spellings /\ Append(<<>>, "/") = Slash /\ "/" \in Char
        BY NoneIsText, SlashIs DEF Slash
      <4>2. Walked(Slash) = Step(NoWalk, "/")
        BY <4>1, WalkGrows, WalkOfNone
      <4> QED
        BY <4>2 DEF Step, NoWalk
    <3>5. Walked(Slash \o z) = Walked((g \o Slash) \o z)
      BY <1>5, <1>6, <2>1, <3>4, SlashIs, WalksAlike
    <3> QED
      BY <1>7, <3>2, <3>3, <3>5
  <2>2. CASE Last(there) # "/"
    <3>1. Base(there, y) = (there \o Slash) \o y
      BY <2>2 DEF Base
    <3>2. ((there \o Slash) \o y) \o Slash = (there \o Slash) \o z
      <4>1. PICK t : t = there \o Slash /\ t \in Spellings
        BY <1>6
      <4>2. Slash \in Spellings
        BY SlashIs
      <4>3. (t \o y) \o Slash = t \o (y \o Slash)
        BY <4>1, <4>2, GluedThrice
      <4> QED
        BY <1>5, <4>1, <4>3
    <3>3. Walked((there \o Slash) \o z) = Walked((g \o Slash) \o z)
      BY <1>3, <1>5, <1>6, WalksAlike
    <3> QED
      BY <1>7, <3>1, <3>2, <3>3
  <2> QED
    BY <1>4, <2>1, <2>2
<1>9. Resolved(there, y) = Normalized(Below(g, y))
  BY <1>3, <1>8, BaseIs, SameWalkSameName
<1>10. x \o Slash \o y = Below(x, y) /\ Below(x, y) \in Spellings
  BY BelowIs
<1>11. Resolved(dir, Below(x, y)) = Normalized(Below(g, y))
  BY <1>1, <1>10, BaseIs, BaseOfBelow
<1> QED
  BY <1>2, <1>9, <1>10, <1>11

-----------------------------------------------------------------------------
(* A path that fits is the path of one node.                               *)
Once(path) == \E n \in DOMAIN nodes : nodes[n] = path /\ \A m \in DOMAIN nodes : nodes[m] = path => m = n

PathsInv ==
  /\ cwd \in Spellings \ {<<>>} /\ nodes \in Seq(Spellings) /\ made \subseteq Spellings
  /\ \A p \in made : Len(p) < NameLen => Once(p)

LEMMA Typed ==
  ASSUME PathConstants, NEW s \in Inputs \cup {Owner}
  PROVE  s \in Spellings \ {<<>>}
<1>1. Seq(STRING) \subseteq Seq(Char)
  <2>1. STRING \subseteq Char
    BY DEF Char
  <2> QED
    BY <2>1, SeqMonotonic
<1> QED
  BY <1>1 DEF PathConstants, Spellings

LEMMA KeptIs ==
  ASSUME PathConstants, NEW p \in Spellings
  PROVE  /\ Kept(p) \in Spellings
         /\ Len(p) < NameLen => Kept(p) = p
         /\ ~(Len(p) < NameLen) => ~(Len(Kept(p)) < NameLen)
<1>1. PICK n \in Nat : n = Len(p)
  BY LenProperties DEF Spellings
<1>2. NameLen \in Nat \ {0}
  BY DEF PathConstants
<1>3. CASE n < NameLen
  BY <1>1, <1>3 DEF Kept
<1>4. CASE ~(n < NameLen)
  <2>1. PICK q : q = SubSeq(p, 1, NameLen)
    OBVIOUS
  <2>2. q \in Seq(Char) /\ Len(q) = NameLen
    <3>1. p \in Seq(Char) /\ 1 \in 1 .. Len(p) + 1 /\ NameLen \in 1 - 1 .. Len(p)
      BY <1>1, <1>2, <1>4 DEF Spellings
    <3>2. SubSeq(p, 1, NameLen) \in Seq(Char) /\ Len(SubSeq(p, 1, NameLen)) = NameLen - 1 + 1
      BY <3>1, PartIs
    <3> QED
      BY <1>2, <2>1, <3>2
  <2>3. Owner \in Seq(Char)
    BY Typed DEF Spellings
  <2>4. PICK m \in Nat : m = Len(Owner)
    BY <2>3, LenProperties
  <2>5. q \o Owner \in Seq(Char) /\ Len(q \o Owner) = NameLen + m
    BY <2>2, <2>3, <2>4, ConcatProperties
  <2>6. Kept(p) = q \o Owner
    BY <1>1, <1>4, <2>1 DEF Kept
  <2>7. ~(NameLen + m < NameLen)
    BY <1>2, <2>4
  <2> QED
    BY <1>1, <1>4, <2>5, <2>6, <2>7 DEF Spellings
<1> QED
  BY <1>3, <1>4

(* The new node is the only one with its path, and it has no other's.      *)
LEMMA MkdirKeepsPaths ==
  ASSUME PathConstants, PathsInv, NEW s \in Inputs, Mkdir(s)
  PROVE  PathsInv'
<1>1. PICK p : p = Resolved(cwd, s)
  OBVIOUS
<1>2. p \in Spellings
  BY <1>1, Typed, ResolvedIs DEF PathsInv
<1>3. PICK k : k = Kept(p)
  OBVIOUS
<1>4. /\ k \in Spellings /\ (Len(p) < NameLen => k = p)
      /\ (~(Len(p) < NameLen) => ~(Len(k) < NameLen))
  BY <1>2, <1>3, KeptIs
<1>5. \A i \in DOMAIN nodes : nodes[i] # p
  BY <1>1 DEF Mkdir, Found
<1>6. nodes' = Append(nodes, k) /\ made' = made \cup {p} /\ cwd' = cwd
  BY <1>1, <1>3 DEF Mkdir
<1>7. PICK n \in Nat : n = Len(nodes) /\ DOMAIN nodes = 1 .. n
  BY LenProperties DEF PathsInv
<1>8. /\ nodes' \in Seq(Spellings) /\ DOMAIN nodes' = 1 .. n + 1 /\ nodes'[n + 1] = k
      /\ \A i \in 1 .. n : nodes'[i] = nodes[i]
  <2>1. nodes \in Seq(Spellings)
    BY DEF PathsInv
  <2>2. /\ Append(nodes, k) \in Seq(Spellings) /\ Len(Append(nodes, k)) = n + 1
        /\ Append(nodes, k)[n + 1] = k /\ \A i \in 1 .. n : Append(nodes, k)[i] = nodes[i]
    BY <1>4, <1>7, <2>1, AppendProperties
  <2> QED
    BY <1>6, <2>2, LenProperties
<1>9. ASSUME NEW q \in made', Len(q) < NameLen PROVE Once(q)'
  <2>1. CASE q = p
    <3>1. k = p
      BY <1>4, <1>9, <2>1
    <3>2. n + 1 \in 1 .. n + 1 /\ \A m \in 1 .. n + 1 : nodes'[m] = p => m = n + 1
      BY <1>5, <1>7, <1>8
    <3> QED
      BY <1>8, <2>1, <3>1, <3>2 DEF Once
  <2>2. CASE q # p
    <3>1. q \in made /\ Once(q)
      BY <1>6, <1>9, <2>2 DEF PathsInv
    <3>2. PICK i \in 1 .. n : nodes[i] = q /\ \A m \in 1 .. n : nodes[m] = q => m = i
      BY <1>7, <3>1 DEF Once
    <3>3. k # q
      BY <1>4, <1>9, <2>2
    <3>4. i \in 1 .. n + 1 /\ nodes'[i] = q /\ \A m \in 1 .. n + 1 : nodes'[m] = q => m = i
      BY <1>8, <3>2, <3>3
    <3> QED
      BY <1>8, <3>4 DEF Once
  <2> QED
    BY <2>1, <2>2
<1> QED
  BY <1>2, <1>6, <1>8, <1>9 DEF PathsInv

LEMMA PathsInductive ==
  ASSUME PathConstants, PathsInv, [PathsNext]_pathsVars
  PROVE  PathsInv'
<1>1. CASE Es1Init
  <2>1. nodes' = <<Slash>> /\ made' = {Slash} /\ cwd' = cwd
    BY <1>1 DEF Es1Init
  <2>2. Slash \in Spellings
    BY SlashIs
  <2>3. <<Slash>> \in Seq(Spellings) /\ DOMAIN <<Slash>> = 1 .. 1 /\ <<Slash>>[1] = Slash
    BY <2>2
  <2>4. Once(Slash)'
    BY <2>1, <2>3 DEF Once
  <2> QED
    BY <2>1, <2>2, <2>3, <2>4 DEF PathsInv
<1>2. CASE \E s \in Inputs : Mkdir(s)
  BY <1>2, MkdirKeepsPaths
<1>3. ASSUME NEW s \in Inputs, Cd(s) PROVE PathsInv'
  <2>1. Resolved(cwd, s) \in Spellings \ {<<>>}
    BY Typed, ResolvedIs DEF PathsInv
  <2> QED
    BY <1>3, <2>1 DEF PathsInv, Cd, Once
<1>4. CASE CdHome
  BY <1>4, SlashIs DEF PathsInv, CdHome, Once
<1>5. CASE UNCHANGED pathsVars
  BY <1>5 DEF PathsInv, pathsVars, Once
<1> QED
  BY <1>1, <1>2, <1>3, <1>4, <1>5 DEF PathsNext

LEMMA PathsStart ==
  ASSUME PathsInit
  PROVE  PathsInv
BY SlashIs, EmptySeq DEF PathsInit, PathsInv

LEMMA PathsInvLeads ==
  ASSUME PathConstants, PathsInv
  PROVE  PathsLeadThere
<1>1. cwd \in Spellings
  BY DEF PathsInv
<1>2. ASSUME NEW x \in Inputs
      PROVE  /\ Resolved(cwd, Resolved(cwd, x)) = Resolved(cwd, x)
             /\ \A y \in Inputs : y[1] # "/" => Resolved(Resolved(cwd, x), y) = Resolved(cwd, x \o Slash \o y)
  <2>1. x \in Spellings /\ x # <<>> /\ \A y \in Inputs : y \in Spellings
    BY Typed
  <2> QED
    BY <1>1, <2>1, ResolvedIs, ResolvedBelow
<1>3. ASSUME NEW p \in made, Len(p) < NameLen
      PROVE  Cardinality({n \in DOMAIN nodes : nodes[n] = p}) = 1
  <2>1. PICK i \in DOMAIN nodes : nodes[i] = p /\ \A m \in DOMAIN nodes : nodes[m] = p => m = i
    BY <1>3 DEF PathsInv, Once
  <2>2. {n \in DOMAIN nodes : nodes[n] = p} = {i}
    BY <2>1
  <2> QED
    BY <2>2, FS_Singleton
<1> QED
  BY <1>2, <1>3 DEF PathsLeadThere

(* A path means the same however it is spelled and from wherever it is     *)
(* typed, and a directory whose path fits into its node is found under it, *)
(* once: resolve_path, normalize_path and the es1_find in front of         *)
(* es1_alloc.                                                              *)
THEOREM PathsAreUnderstood ==
  ASSUME PathConstants
  PROVE  PathsSpec => []PathsLeadThere
<1>1. PathsInit => PathsInv
  BY PathsStart
<1>2. PathsInv /\ [PathsNext]_pathsVars => PathsInv'
  BY PathsInductive
<1>3. PathsInv => PathsLeadThere
  BY PathsInvLeads
<1> QED
  BY <1>1, <1>2, <1>3, PTL DEF PathsSpec
=============================================================================
