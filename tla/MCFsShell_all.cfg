SPECIFICATION Spec
CONSTANTS
  MaxNodes = 3
  InlineSize = 2
  Paths <- Neighbours
  Texts <- MCTexts
  TextLen <- MCTextLen
  Payloads <- MCPayloads
  NamePrefix <- MCNamePrefix
  Archives <- Unruly
CONSTRAINT CountersBounded
INVARIANTS TypeOK UniquePaths UsedCoversLive UsedIsLiveIfFitting TextHasItsSize
