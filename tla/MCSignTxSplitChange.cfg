SPECIFICATION Spec
CONSTANTS
  k1 = k1
  k2 = k2
  Refused = Refused
  NoTx = NoTx
  Keys <- MCKeys
  Txs <- SplitBeforeChange
  FirstSizes = {64, 96}
  ChunkSizes = {32}
  ZeroByte = {FALSE}
  TX_MAX_TOKENS = 10
  Overwritten = {}
INVARIANTS
  ApprovedComplete
