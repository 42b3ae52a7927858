SPECIFICATION Spec
CONSTANTS
  Codecs = {"H264", "H265"}
  SeqMod = 64
  Lap = 6
  Longest = 4
  NumPackets = 9
INVARIANT WholeP
INVARIANT PFollowsIdr
INVARIANT HealsAtGop
CHECK_DEADLOCK FALSE
