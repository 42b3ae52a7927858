SPECIFICATION FairSpec
CONSTANTS
  SeqMod = 6
  PacketNum = 3
  MaxGap = 4
  MaxLate = 3
  NumPackets = 9
INVARIANT BufferInv
INVARIANT NoTornPacket
PROPERTY DeliversInOrder
PROPERTY NackIsTheGap
PROPERTY EveryPacketPlayed
CONSTRAINT Explored
CHECK_DEADLOCK FALSE
