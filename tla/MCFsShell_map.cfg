SPECIFICATION NoEditSpec
CONSTANTS
  MaxNodes = 3
  InlineSize = 3
  Paths <- Nested
  Texts <- MCTexts
  TextLen <- MCTextLen
  Payloads <- MCPayloads
  NamePrefix <- MCNamePrefix
  Archives <- Trees
INVARIANT TotalIsSum
PROPERTIES RmdirLeavesNoOrphans ImplementsFileMap
