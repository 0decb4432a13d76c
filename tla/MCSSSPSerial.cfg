CONSTANTS
  MCNodes = 3
  MCEdges = 3
  MCWeights = {0, 2}
  INF = 1000
  Files <- MCFiles
  Leftovers <- MCLeftovers
SPECIFICATION FairSpec
INVARIANTS
  LoadedOrRejected
  RoundTrip
  WorkQueued
  FinalOutput
PROPERTIES
  Termination
