SPECIFICATION MCSpec
CONSTANTS
  Length = 17
  MaxDepth = 2
  MaxTokens = 4
  MaxValues = 2
INVARIANTS
  DecodedAsWritten
  OthersDecoded
PROPERTY
  DecodingEnds
CHECK_DEADLOCK FALSE
