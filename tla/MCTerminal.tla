----------------------------- MODULE MCTerminal -----------------------------
(* What appears on the screen: bytes printed with either driver, the       *)
(* command line, both on a grid of two rows that just fit the prompt and a *)
(* line, and glyphs of up to 8 by 8 pixels.  Each of the three runs by     *)
(* itself.                                                                 *)
EXTENDS Console, Shell

CONSTANTS Scale, MaxGlyph, MaxIsects

VARIABLES part,
  glyph, font, points, bitmap, drawing

ofConsole == <<driver, grid, dec, text>>
ofShell == <<tty, line, history, hindex, ran>>
ofGlyph == <<glyph, font, points, bitmap, drawing>>

-----------------------------------------------------------------------------
(* 195 135 is the letter C with a cedilla, 226 begins a longer sequence.   *)
MCPrinted == [linked |-> {65, 10, 8, 13}, utf8 |-> {65, 10, 8, 9, 195, 135, 226}]
MCMaxText == [linked |-> 7, utf8 |-> 6]
MCGlyphs == 1 .. 223

MCTyped == {1, 2, 3}
MCPrompt == <<3>>
MCOutputs == {<<>>, <<1, 2, 1, 2, 1, NL>>}

On(x, y) == [x |-> x, y |-> y, on |-> TRUE]
Off(x, y) == [x |-> x, y |-> y, on |-> FALSE]

(* A frame, a wedge, an arch, a disc that starts off the curve, a wave with*)
(* a stray point, and a letter too high for its bitmap.                    *)
Frame == <<<<On(0, 0), On(400, 0), On(400, 400), On(0, 400)>>,
           <<On(100, 100), On(100, 300), On(300, 300), On(300, 100)>>>>
Wedge == <<<<On(0, 0), On(300, 100), On(100, 500)>>>>
Arch == <<<<On(-100, 0), Off(200, 700), On(500, 0)>>>>
Disc == <<<<Off(0, 600), On(300, 600), Off(600, 600), On(600, 300),
            Off(600, 0), On(300, 0), Off(0, 0), On(0, 300)>>>>
Wave == <<<<On(-300, 0), Off(-100, 500), On(0, 200), On(0, 200), Off(300, -300), On(500, 300)>>,
          <<On(700, 700)>>>>
Tall == <<<<On(0, -200), On(200, -200), On(200, 1000), On(0, 900)>>>>

(* Two neighbours off the curve.                                           *)
Round == <<<<On(0, 0), Off(0, 400), Off(400, 400), On(400, 0)>>>>

G == INSTANCE Glyph WITH Outlines <- {Frame, Wedge, Arch, Disc, Wave, Tall, Round},
                         pc <- drawing

ASSUME ShellConstants /\ G!GlyphConstants

-----------------------------------------------------------------------------
TerminalInit ==
  /\ part \in {"console", "shell", "glyph"}
  /\ Init /\ ShellInit /\ G!Init
  /\ part # "console" => driver = "linked"

TerminalNext ==
  \/ part = "console" /\ Next /\ UNCHANGED <<part, ofShell, ofGlyph>>
  \/ part = "shell" /\ ShellNext /\ UNCHANGED <<part, ofConsole, ofGlyph>>
  \/ part = "glyph" /\ G!Next /\ UNCHANGED <<part, ofConsole, ofShell>>

TerminalSpec == TerminalInit /\ [][TerminalNext]_<<part, ofConsole, ofShell, ofGlyph>>

(* Stated and explained in Glyph.                                          *)
InkFollowsTheOutline == part = "glyph" => G!InkFollowsTheOutline

(* Stated and explained in Glyph; the code breaks it.                      *)
EveryOutlineIsDrawn == part = "glyph" => G!EveryOutlineIsDrawn
=============================================================================
