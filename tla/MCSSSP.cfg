CONSTANTS
  num_nodes = 5
  threadNum = 3
  EdgeList <- OvertakingAndIsland
  num_edges <- MCNumEdges
  row_start <- MCRowStart
  edge_dst <- MCEdgeDst
  edge_wt <- MCEdgeWt
  INF <- MCInf
  HopDist <- MCHopDist
  Programs = {"sssp", "sssp_no_atomic"}
SPECIFICATION FairSSSPSpec
INVARIANTS
  RoundsSeparated
  BreakIsFixpoint
PROPERTIES
  MainEnds
