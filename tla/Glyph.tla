------------------------------- MODULE Glyph -------------------------------
(***************************************************************************)
(* How src/fonts/ttf_render.c makes a bitmap of a glyph: the outline is    *)
(* read from the packed points of the font file, its edges are cut with    *)
(* the middle of each row of the bitmap, and the rows are filled between   *)
(* pairs of cuts.  A contour is a closed sequence of points; a point that  *)
(* is not "on" pulls the curve between its neighbours, and between two of  *)
(* them the contour runs through their middle.                             *)
(***************************************************************************)
EXTENDS Integers, Sequences, SequencesExt, FiniteSets, FiniteSetsExt

CONSTANTS
  Outlines,     \* glyphs of the font: sequences of contours, in font units
  Scale,        \* g_scale: pixels per font unit, times 65536
  MaxGlyph,     \* TTF_MAX_GLYPH_W and _H (64)
  MaxIsects     \* MAX_ISECTS: cuts kept of one row (64)

GlyphConstants ==
  /\ {Scale, MaxGlyph, MaxIsects} \subseteq Nat \ {0}
  /\ \A o \in Outlines, c \in 1 .. Cardinality(Outlines) :
       c \in DOMAIN o => o[c] \in Seq([x : Int, y : Int, on : BOOLEAN])

VARIABLES
  glyph,   \* the glyph drawn, as its designer knows it
  font,    \* its bytes in the file
  points,  \* g_pts
  bitmap,  \* g_bitmap: the pixels set, as <<column, row>>
  pc

vars == <<glyph, font, points, bitmap, pc>>

-----------------------------------------------------------------------------
(* The file: coordinates are differences in no, one or two bytes, and a    *)
(* flag can stand for several points.  Whether a tool uses the short forms *)
(* (`tight') and repeats flags (`folded') is its choice.                   *)
OnCurve == 1  XShort == 2  YShort == 4  Repeat == 8  XSame == 16  YSame == 32
HasBit(f, bit) == (f \div bit) % 2 = 1

Packed(d, tight, short, same) ==
  CASE tight /\ d = 0 -> [flag |-> same, bytes |-> << >>]
    [] tight /\ d \in 1 .. 255 -> [flag |-> short + same, bytes |-> <<d>>]
    [] tight /\ -d \in 1 .. 255 -> [flag |-> short, bytes |-> <<-d>>]
    [] OTHER -> [flag |-> 0, bytes |-> <<(d % 65536) \div 256, d % 256>>]

Stored(outline, tight, folded) ==
  LET pts == FlattenSeq(outline)
      before(i) == IF i = 1 THEN [x |-> 0, y |-> 0] ELSE pts[i - 1]
      xs == [i \in 1 .. Len(pts) |-> Packed(pts[i].x - before(i).x, tight, XShort, XSame)]
      ys == [i \in 1 .. Len(pts) |-> Packed(pts[i].y - before(i).y, tight, YShort, YSame)]
      flags == [i \in 1 .. Len(pts) |->
                  (IF pts[i].on THEN OnCurve ELSE 0) + xs[i].flag + ys[i].flag]
      fold(runs, f) == IF folded /\ runs # << >> /\ Last(runs)[1] = f
                       THEN [runs EXCEPT ![Len(runs)][2] = @ + 1]
                       ELSE Append(runs, <<f, 0>>)
      written(run) == IF run[2] = 0 THEN <<run[1]>> ELSE <<run[1] + Repeat, run[2]>>
  IN  [lengths |-> [c \in 1 .. Len(outline) |-> Len(outline[c])],
       bytes |-> FoldLeft(LAMBDA s, run : s \o written(run), << >>,
                          FoldLeft(fold, << >>, flags))
                 \o FlattenSeq([i \in 1 .. Len(pts) |-> xs[i].bytes])
                 \o FlattenSeq([i \in 1 .. Len(pts) |-> ys[i].bytes])]

-----------------------------------------------------------------------------
(* ttf_load_simple_glyph.                                                  *)

(* The flags of n points, and where the bytes behind them start.           *)
Flags(bytes, n) ==
  LET step(s, i) ==
        IF s.left > 0 THEN [s EXCEPT !.left = @ - 1, !.flags = Append(@, Last(@))]
        ELSE LET again == HasBit(bytes[s.at], Repeat)
             IN  [at |-> s.at + (IF again THEN 2 ELSE 1),
                  left |-> IF again THEN bytes[s.at + 1] ELSE 0,
                  flags |-> Append(s.flags, bytes[s.at])]
  IN  FoldLeft(step, [at |-> 1, left |-> 0, flags |-> << >>], [i \in 1 .. n |-> i])

(* A step of one byte has its sign in the flag.                            *)
Sign(f, same) == IF HasBit(f, same) THEN 1 ELSE -1

(* The x or the y coordinates.                                             *)
Coordinates(bytes, start, flags, short, same) ==
  LET step(s, f) ==
        CASE HasBit(f, short) ->
               [at |-> s.at + 1, v |-> Append(s.v, Last(s.v) + Sign(f, same) * bytes[s.at])]
          [] ~HasBit(f, short) /\ HasBit(f, same) -> [s EXCEPT !.v = Append(@, Last(@))]
          [] OTHER ->
               LET w == 256 * bytes[s.at] + bytes[s.at + 1]
               IN  [at |-> s.at + 2,
                    v |-> Append(s.v, Last(s.v) + (IF w < 32768 THEN w ELSE w - 65536))]
  IN  FoldLeft(step, [at |-> start, v |-> <<0>>], flags)

Load ==
  /\ pc = "load"
  /\ points' = LET f == Flags(font.bytes, FoldLeft(+, 0, font.lengths))
                   xs == Coordinates(font.bytes, f.at, f.flags, XShort, XSame)
                   ys == Coordinates(font.bytes, xs.at, f.flags, YShort, YSame)
               IN  [i \in 1 .. Len(f.flags) |->
                      [x |-> xs.v[i + 1], y |-> ys.v[i + 1], on |-> HasBit(f.flags[i], OnCurve)]]
  /\ pc' = "rasterize"
  /\ UNCHANGED <<glyph, font, bitmap>>

(* g_ends cuts the points into contours.                                   *)
Contours ==
  LET start(c) == FoldLeft(+, 0, SubSeq(font.lengths, 1, c - 1))
  IN  [c \in 1 .. Len(font.lengths) |-> SubSeq(points, start(c) + 1, start(c) + font.lengths[c])]

-----------------------------------------------------------------------------
(* Pixels.  The box of a glyph, which the file holds, is that of its points.*)
Box(outline) ==
  LET all == ToSet(FlattenSeq(outline))
      xs == {p.x : p \in all}  ys == {p.y : p \in all}
      extent(s) == Min({((Scale * (Max(s) - Min(s)) + 65535) \div 65536) + 1, MaxGlyph})
  IN  [left |-> Min(xs), bottom |-> Min(ys), width |-> extent(xs), height |-> extent(ys)]

Scl(fu) == (Scale * fu + 32768) \div 65536
Pixel(p, box) == [x |-> Scl(p.x - box.left), y |-> box.height - 1 - Scl(p.y - box.bottom),
                  on |-> p.on]

Trunc(a, b) == IF a >= 0 THEN a \div b ELSE -(-a \div b)
Abs(a) == IF a < 0 THEN -a ELSE a
Middle(p, q) == [x |-> Trunc(p.x + q.x, 2), y |-> Trunc(p.y + q.y, 2), on |-> TRUE]

(* rast_bezier: the lines that stand for a curve.                          *)
RECURSIVE Bezier(_, _, _, _)
Bezier(p, pull, q, depth) ==
  LET m == Middle(p, q)
      a == Middle(p, pull)  b == Middle(pull, q)  c == Middle(a, b)
  IN  IF Abs(pull.x - m.x) + Abs(pull.y - m.y) <= 1 \/ depth >= 8
      THEN <<<<p, q>>>>
      ELSE Bezier(p, a, c, depth + 1) \o Bezier(c, b, q, depth + 1)

(* The lines rasterize_glyph emits at point i of a contour.                *)
EdgesAt(pts, i) ==
  LET at(k) == pts[((k - 1) % Len(pts)) + 1]
      prev == at(i - 1)  cur == at(i)  next == at(i + 1)
  IN  CASE prev.on /\ cur.on -> <<<<prev, cur>>>>
        [] prev.on /\ ~cur.on ->
             Bezier(prev, cur, IF next.on THEN next ELSE Middle(cur, next), 0)
        [] ~prev.on /\ ~cur.on -> Bezier(at(i - 2), prev, Middle(prev, cur), 0)
        [] OTHER -> << >>

Edges(outline, box) ==
  FlattenSeq([c \in 1 .. Len(outline) |->
    LET pts == [i \in 1 .. Len(outline[c]) |-> Pixel(outline[c][i], box)]
    IN  IF Len(pts) < 2 THEN << >> ELSE FlattenSeq([i \in 1 .. Len(pts) |-> EdgesAt(pts, i)])])

Top(e) == IF e[1].y <= e[2].y THEN e[1] ELSE e[2]
End(e) == IF e[1].y <= e[2].y THEN e[2] ELSE e[1]
Meets(e, row) == Top(e).y <= row /\ row < End(e).y

(* As CutAt, but at the upper border of the row.                           *)
CutAtBorder(e, row) ==
  Top(e).x + Trunc((End(e).x - Top(e).x) * (row - Top(e).y), End(e).y - Top(e).y)

(* rast_line: where a line meets the middle of a row.                      *)
CutAt(e, row) ==
  Top(e).x + Trunc((End(e).x - Top(e).x) * (2 * (row - Top(e).y) + 1),
                   2 * (End(e).y - Top(e).y))

(* rast_add_isect and sort_isects.                                         *)
Cuts(edges, row) ==
  LET add(s, e) == IF Meets(e, row) /\ Len(s) < MaxIsects THEN Append(s, CutAt(e, row)) ELSE s
  IN  SortSeq(FoldLeft(add, << >>, edges), <)

(* The last part of rasterize_glyph.                                       *)
Filled(cuts, width) ==
  {x \in 0 .. width - 1 : \E k \in 1 .. Len(cuts) - 1 :
     k % 2 = 1 /\ cuts[k] <= x /\ x <= cuts[k + 1]}

Pixels(box) == (0 .. box.width - 1) \X (0 .. box.height - 1)

Rasterize ==
  /\ pc = "rasterize"
  /\ bitmap' = LET box == Box(glyph)
                   edges == Edges(Contours, box)
                   row == [r \in 0 .. box.height - 1 |-> Filled(Cuts(edges, r), box.width)]
               IN  {p \in bitmap \cup Pixels(box) : p \in Pixels(box) => p[1] \in row[p[2]]}
  /\ pc' = "drawn"
  /\ UNCHANGED <<glyph, font, points>>

-----------------------------------------------------------------------------
(* ttf_draw_char, for one glyph after the other.                           *)
Begin(outline, tight, folded) ==
  /\ pc = "drawn"
  /\ glyph' = outline
  /\ font' = Stored(outline, tight, folded)
  /\ pc' = "load"
  /\ UNCHANGED <<points, bitmap>>

Init ==
  /\ glyph = << >> /\ font = [lengths |-> << >>, bytes |-> << >>]
  /\ points = << >> /\ bitmap = {} /\ pc = "drawn"

Next ==
  \/ \E o \in Outlines, tight, folded \in BOOLEAN : Begin(o, tight, folded)
  \/ Load
  \/ Rasterize

Spec == Init /\ [][Next]_vars

-----------------------------------------------------------------------------
(* Properties.                                                             *)

(* The points are those the designer drew, in whatever form the file holds *)
(* them: the reader finds the same place in three lists of varying steps.  *)
LoadsTheOutline == pc \in {"rasterize", "drawn"} => Contours = glyph

(* The outline as it is meant, with a point in the middle of every two     *)
(* that are both off, and its lines.                                       *)
Meant(outline, box) ==
  LET pts(c) == [i \in 1 .. Len(outline[c]) |-> Pixel(outline[c][i], box)]
      full(p) == FlattenSeq([i \in 1 .. Len(p) |->
                   LET next == p[(i % Len(p)) + 1]
                   IN  IF p[i].on \/ next.on THEN <<p[i]>> ELSE <<p[i], Middle(p[i], next)>>])
      edges(p) == FlattenSeq([i \in 1 .. Len(p) |->
                    LET next == p[(i % Len(p)) + 1]  third == p[((i + 1) % Len(p)) + 1]
                    IN  CASE ~p[i].on -> << >>
                          [] next.on -> <<<<p[i], next>>>>
                          [] OTHER -> Bezier(p[i], next, third, 0)])
  IN  FlattenSeq([c \in 1 .. Len(outline) |-> edges(full(pts(c)))])

(* How far a pixel is to the right of a line, in units of twice its height.*)
RightOf(x, row, e) ==
  (x - Top(e).x) * 2 * (End(e).y - Top(e).y)
    - (End(e).x - Top(e).x) * (2 * (row - Top(e).y) + 1)

(* The bitmap is the inside of the outline: a pixel is set if lines pass   *)
(* an odd number of times on its left, and otherwise at most where a line  *)
(* passes through it.                                                      *)
InkIsTheInside(outline) ==
  LET box == Box(outline)
      edges == Meant(outline, box)
  IN  \A p \in Pixels(box) :
        LET met == {i \in 1 .. Len(edges) : Meets(edges[i], p[2])}
            inside == Cardinality({i \in met : RightOf(p[1], p[2], edges[i]) >= 0}) % 2 = 1
            touched == \E i \in met : Abs(RightOf(p[1], p[2], edges[i]))
                                        < 2 * (End(edges[i]).y - Top(edges[i]).y)
        IN  (inside => p \in bitmap) /\ (p \in bitmap => inside \/ touched)

OffTwice(contour) ==
  \E i \in 1 .. Len(contour) : ~contour[i].on /\ ~contour[(i % Len(contour)) + 1].on

(* Every glyph whose contours have no two neighbours off the curve is      *)
(* drawn as its outline says, over whatever the glyph before it left; and  *)
(* the points of every glyph are read back.                                *)
InkFollowsTheOutline ==
  /\ LoadsTheOutline
  /\ pc = "drawn" /\ glyph # << >> /\ ~(\E c \in 1 .. Len(glyph) : OffTwice(glyph[c]))
       => InkIsTheInside(glyph)

(* "Supports: On-curve and off-curve (quadratic Bezier) contours"          *)
(* (ttf_render.h:18): every glyph is.                                      *)
EveryOutlineIsDrawn == pc = "drawn" /\ glyph # << >> => InkIsTheInside(glyph)
=============================================================================
