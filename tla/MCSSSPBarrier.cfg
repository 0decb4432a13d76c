CONSTANTS
  num_nodes = 5
  threadNum = 3
  EdgeList <- RivalsAndIsland
  num_edges <- MCNumEdges
  row_start <- MCRowStart
  edge_dst <- MCEdgeDst
  edge_wt <- MCEdgeWt
  INF <- MCInf
  HopDist <- MCHopDist
  Programs = {"sssp_barrier", "sssp_ex3", "sssp_relaxed", "sssp_nodelock"}
  NoThread = NoThread
SPECIFICATION FairSpec
INVARIANTS
  StoreAnnounced
  GuardedEarlyExit
  
  SameRound
  LeaveTogether
  AboveDist
PROPERTIES
  Termination
