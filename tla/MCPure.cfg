SPECIFICATION Spec
CONSTANTS
  SizeMod = 1024
  Cursors <- MCCursors
  Distances <- MCDistances
  ChangeLists <- MCChangeLists
  Rests <- MCRests
  Outputs <- MCOutputs
  TokenData <- MCTokenData
  Amounts <- MCAmounts
  SymbolLengths <- MCSymbolLengths
  Paths <- MCPaths
  Addresses <- MCAddresses
  Reviews <- MCReviews
  IndexLists <- MCIndexLists
INVARIANTS
  CursorStays
  ChangeInfoRead
  ElementsRead
  TextReadsBack
  TextFits
  SkipIsRun
