CONSTANTS
  num_nodes = 4
  threadNum = 3
  EdgeList <- Overtaking
  num_edges <- MCNumEdges
  row_start <- MCRowStart
  edge_dst <- MCEdgeDst
  edge_wt <- MCEdgeWt
  INF <- MCInf
  HopDist <- MCHopDist
  Programs = {"sssp_barrier"}
  NoThread = NoThread
SPECIFICATION Spec
INVARIANTS
  FinalDistances
