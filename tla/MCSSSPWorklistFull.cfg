CONSTANTS
  num_nodes = 7
  threadNum = 1
  EdgeList <- Burst
  num_edges <- MCNumEdges
  row_start <- MCRowStart
  edge_dst <- MCEdgeDst
  edge_wt <- MCEdgeWt
  INF <- MCInf
  HopDist <- MCHopDist
  Capacity <- MCCapacity
SPECIFICATION Spec
INVARIANTS
  QueueNeverFull
