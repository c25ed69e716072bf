SPECIFICATION Spec
CONSTANTS
  k1 = k1
  k2 = k2
  Refused = Refused
  NoTx = NoTx
  Keys <- MCKeys
  Txs <- OnePlain
  FirstSizes = {99}
  ChunkSizes = {32}
  ZeroByte = {TRUE, FALSE}
  TX_MAX_TOKENS = 10
  Overwritten = {}
INVARIANTS
  SignedOnce
