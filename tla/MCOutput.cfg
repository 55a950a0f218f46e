SPECIFICATION MCSpec
CONSTANTS
  TtyCols = 3
  TtyRows = 2
  Glyphs <- MCGlyphs
  Space = 0
  NL = 10
  BS = 8
  CR = 13
  HT = 9
  TabWidth = 2
  Printed <- MCPrinted
  MaxText <- MCMaxText
  Typed <- MCTyped
  Prompt <- MCPrompt
  Outputs <- MCOutputs
  LineMax = 2
  HistMax = 2
  MaxRuns = 3
  Scale = 655
  MaxGlyph = 8
  MaxIsects = 4
  NumDesc = 3
  NoFrame = NoFrame
  Hosts <- MCHosts
  MaxWait = 2
  MaxPings = 4
  MaxFrames = 3
  MaxDesc = 2
  QueueSize = 2
  IndexWrap = 4
INVARIANTS ShowsTheLastRows EchoShowsTheLine HistoryIsRecent InkFollowsTheOutline RecvSeesTheOldest WireKeepsTheOrder InOnePlace BuffersAreKept
PROPERTIES AnsweredByThisFrame PingReturns
CHECK_DEADLOCK FALSE
