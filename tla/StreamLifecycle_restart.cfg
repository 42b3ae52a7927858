SPECIFICATION FairSpec
CONSTANTS
  Waits = TRUE
  NumStreams = 3
  NumStarts = 4
INVARIANT LifeInv
INVARIANT NoStrayUse
INVARIANT OneOfEach
INVARIANT RunsWhenStarted
PROPERTY ThreadsEnd
CHECK_DEADLOCK FALSE
