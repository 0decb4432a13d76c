CONSTANTS
  num_nodes = 5
  threadNum = 2
  EdgeList <- DiamondAndIsland
  num_edges <- MCNumEdges
  row_start <- MCRowStart
  edge_dst <- MCEdgeDst
  edge_wt <- MCEdgeWt
  INF <- MCInf
  HopDist <- MCHopDist
  Capacity = 2
SPECIFICATION FairSpec
INVARIANTS
  OpenEdgeCovered
  QueueAttended
PROPERTIES
  ImplementsShortestPaths
  Termination
