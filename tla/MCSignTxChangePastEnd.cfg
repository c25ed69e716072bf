SPECIFICATION FairSpec
CONSTANTS
  k1 = k1
  k2 = k2
  Refused = Refused
  NoTx = NoTx
  Keys <- MCKeys
  Txs <- ChangePastEnd
  FirstSizes = {64}
  ChunkSizes = {32}
  ZeroByte = {FALSE}
  TX_MAX_TOKENS = 10
  Overwritten = {}
INVARIANTS
  ReviewWithinChunk
