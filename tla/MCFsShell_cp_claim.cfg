SPECIFICATION Spec
CONSTANTS
  MaxNodes = 3
  InlineSize = 3
  Paths <- Nested
  Texts <- MCTexts
  TextLen <- MCTextLen
  Payloads <- MCPayloads
  NamePrefix <- MCNamePrefix
  Archives <- Trees
PROPERTY CpCopiesTheFile
