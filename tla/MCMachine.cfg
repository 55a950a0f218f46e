SPECIFICATION MCSpec
CONSTANTS
  Rows = 3
  Cols = 4
  InlineSize = 8
  Chars <- MCChars
  NL = NL
  ShellLines <- MCShellLines
  SlotSize = 13
  MaxLine = 5
  Scripts <- MCScripts
  Rewrites <- MCRewrites
  NameLen = 5
  MaxNodes = 3
  Owner <- MCOwner
  Inputs <- MCInputs
  Loads <- MCLoads
  Fallback = "F"
  FallbackFb = 999
  PathRoom = 4
  NameRoom = 2
  Kinds <- MCKinds
  Size <- MCSize
  Content <- MCContent
  Buffers <- MCBuffers
  Junk <- MCJunk
  Word = 8
  LbaSpace = 4
  Full = 3
  MaxCount = 2
  MaxWait = 1
INVARIANTS CursorInText BackspaceUndoesEnter OpenShowsAll CleanMeansStored RunsEveryLine ModifiersAreHeld PathsLeadThere FindsTheTags ExtractsTheArchive FontIsTheFile PresentIsReal AsksInside
PROPERTIES ReadDelivers WriteStores EveryScriptEnds EveryBootEnds EveryCallReturns
CHECK_DEADLOCK FALSE
