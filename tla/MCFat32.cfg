SPECIFICATION MCSpec
CONSTANTS
  LastClus = 6
  Cells = 2
  Paths <- MCPaths
  Texts = {t, u}
  Lengths <- MCLengths
  Typed <- MCTyped
  NameMax = 3
  ExtMax = 1
  MaxEntries = 2
INVARIANTS ChainsAreDisjoint WriteReadsBack CreateFindsRoom ListingsLeadBack
PROPERTIES OthersKeepTheirContent
