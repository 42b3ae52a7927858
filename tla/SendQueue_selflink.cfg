SPECIFICATION Spec
CONSTANTS
  MaxSize = 3
  MaxLoop = 15
  Word = 16
  ResendSize = 2
  SeqMod = 4
  NumPackets = 4
  MaxBlocks = 5
INVARIANT AddedIsInList
CHECK_DEADLOCK FALSE
