SPECIFICATION Spec
CONSTANTS
  k1 = k1
  k2 = k2
  Refused = Refused
  NoTx = NoTx
  Nothing = Nothing
  Keys <- MCKeys
  Txs <- MCTxs
  FirstSizes = {32, 64}
  ChunkSizes = {32, 35}
  ZeroByte = {FALSE}
  TokenData <- MCTokenData
  RegistrySize = 2
  Overwritten = {0}
  MaxSecret = 2
  UidsOf <- MCUidsOf
INVARIANTS
  Coupled
  ApprovedAsEndorsed
