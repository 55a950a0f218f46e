SPECIFICATION AtaSpec
CONSTANTS
  Kinds <- MCKinds
  Size <- MCSize
  Content <- MCContent
  Buffers <- MCBuffers
  Junk <- MCJunk
  Word = 8
  LbaSpace = 4
  Full = 3
  MaxCount = 2
  MaxWait = 1
INVARIANT SectorsExist
CHECK_DEADLOCK FALSE
