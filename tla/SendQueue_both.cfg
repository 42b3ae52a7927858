SPECIFICATION FairSpec
CONSTANTS
  MaxSize = 2
  MaxLoop = 4
  Word = 16
  ResendSize = 2
  SeqMod = 4
  NumPackets = 5
  MaxBlocks = 5
INVARIANT TypeOK
INVARIANT PoolPartition
INVARIANT CleanInv
INVARIANT FaultOnlyByRace
INVARIANT Accounting
INVARIANT ResendOneLate
PROPERTY ResetKeepsLastSps
PROPERTY ImplementsFifo
PROPERTY EveryPacketLeaves
CHECK_DEADLOCK FALSE
