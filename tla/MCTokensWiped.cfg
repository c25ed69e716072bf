SPECIFICATION Spec
CONSTANTS
  Nothing = Nothing
  TokenData <- MCTokenData
  TX_MAX_TOKENS = 2
  Declared = {0, 1, 2}
  Overwritten = {}
  MaxSecret = 2
INVARIANT TokensRegistered
CHECK_DEADLOCK FALSE
