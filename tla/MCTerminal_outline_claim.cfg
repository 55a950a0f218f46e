SPECIFICATION TerminalSpec
CONSTANTS
  TtyCols = 3
  TtyRows = 2
  Glyphs <- MCGlyphs
  Space = 0
  NL = 10
  BS = 8
  CR = 13
  HT = 9
  TabWidth = 2
  Printed <- MCPrinted
  MaxText <- MCMaxText
  Typed <- MCTyped
  Prompt <- MCPrompt
  Outputs <- MCOutputs
  LineMax = 2
  HistMax = 2
  MaxRuns = 3
  Scale = 655
  MaxGlyph = 8
  MaxIsects = 4
INVARIANTS EveryOutlineIsDrawn
CHECK_DEADLOCK FALSE
