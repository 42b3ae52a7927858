SPECIFICATION FairSpec
CONSTANTS
  Players = {2}
  Movers = {1}
  MaxInFlight = 3
INVARIANT ReachesPeer
PROPERTY FindsMovedPeer
