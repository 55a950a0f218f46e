SPECIFICATION ProgramsSpec
CONSTANTS
  Rows = 3
  Cols = 4
  InlineSize = 8
  Chars <- MCChars
  NL = NL
  ShellLines <- MCShellLines
  SlotSize = 13
  MaxLine = 5
  Scripts <- MCScripts
  Rewrites <- MCRewrites
  NameLen = 5
  MaxNodes = 3
  Owner <- MCOwner
  Inputs <- MCInputs
PROPERTY EveryWaitEnds
CHECK_DEADLOCK FALSE
