SPECIFICATION Spec
CONSTANTS
  k1 = k1
  k2 = k2
  Refused = Refused
  NoTx = NoTx
  Keys <- MCKeys
  Txs <- ElevenTokens
  FirstSizes = {96}
  ChunkSizes = {128}
  ZeroByte = {FALSE}
  TX_MAX_TOKENS = 10
  Overwritten = {0}
INVARIANTS
  TokensWithinArray
