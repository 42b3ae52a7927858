SPECIFICATION FairSpec
CONSTANTS
  Codecs = {"AVC", "HEVC"}
  OldStyles = {"async"}
  NewStyles = {"encode"}
  Sizes = {1, 2}
  Rates = {1, 2}
  NumBuffers = 2
  NumFrames = 3
  NumStarts = 3
INVARIANT Decodable
INVARIANT AtMostOneHeldBack
INVARIANT RunsAsTold
PROPERTY FramesComeOut
CHECK_DEADLOCK FALSE
