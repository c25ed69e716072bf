SPECIFICATION Spec
CONSTANTS
  Nothing = Nothing
  TokenData <- MCTokenData
  TX_MAX_TOKENS = 2
  Declared = {0, 2, 4}
  Overwritten = {0, 5}
  MaxSecret = 2
INVARIANTS
  TypeOK
  AcceptedEndorsed
  SignaturesKept
  RegistryEndorsed
  TokensRegisteredUnlessSpoilt
  ShownEndorsed
