SPECIFICATION OptSpec
CONSTANTS
  uPacketNum = 6
  uMaxPktWin = 2
  Seqs = 14
  FirstSeq = 4
  Gop = 4
  NumPackets = 12
  MaxLate = 1
  NumSilences = 1
  NumScans = 1
INVARIANT DeliversInOrder
INVARIANT AsksForMissing
CHECK_DEADLOCK FALSE
