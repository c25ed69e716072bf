SPECIFICATION FairSpec
CONSTANTS
  k1 = k1
  k2 = k2
  Refused = Refused
  NoTx = NoTx
  Keys <- MCKeys
  Txs <- AllTxs
  FirstSizes = {0, 67, 99}
  ChunkSizes = {1, 32, 35, 36, 64, 255}
  ZeroByte = {FALSE}
  TX_MAX_TOKENS = 2
  Overwritten = {0, 7}
INVARIANTS
  TypeOK
  IInv
  ApprovedCovers
  ApprovedCompleteNoChange
  ReviewAligned
  HashedIsDecoded
  NextChunkFits
  LabelCountsProperChange
  SignedOnce
PROPERTIES
  ApprovedFrozen
  ImplementsApproval
  CommandAnswered
