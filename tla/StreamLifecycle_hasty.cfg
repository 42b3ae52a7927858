SPECIFICATION Spec
CONSTANTS
  Waits = FALSE
  NumStreams = 2
  NumStarts = 1
INVARIANT StopIsDone
CHECK_DEADLOCK FALSE
