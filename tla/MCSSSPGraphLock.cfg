CONSTANTS
  num_nodes = 5
  threadNum = 3
  EdgeList <- Backward
  num_edges <- MCNumEdges
  row_start <- MCRowStart
  edge_dst <- MCEdgeDst
  edge_wt <- MCEdgeWt
  INF <- MCInf
  HopDist <- MCHopDist
  NoThread = NoThread
SPECIFICATION FairSpec
INVARIANTS
  SamePhase
  NoOverflow
  IInv
  FinalDistances
PROPERTIES
  OnlyDecreases
  ImplementsShortestPaths
  Termination
