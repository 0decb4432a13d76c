------------------------------ MODULE CSRGraph ------------------------------
(***************************************************************************)
(* The weighted graph of the SSSP programs in compressed-sparse-row form,  *)
(* as load_file leaves it, and the distances a correct run must compute.   *)
(* The edges of node n are row_start[n] .. row_start[n+1]-1; edge e leads  *)
(* to edge_dst[e] with weight edge_wt[e].                                  *)
(***************************************************************************)
EXTENDS Integers

CONSTANTS
  num_nodes, num_edges,
  row_start, edge_dst, edge_wt,
  INF,        \* INT_MAX: "not reached"; bounded in the models
  HopDist     \* HopDist[k][v]: least weight of a walk from src to v of <= k edges

Node == 0 .. num_nodes - 1
Edge == 0 .. num_edges - 1

\* main fixes the source to node 0.
src == 0

\* The values an int weight may take (no distance is above INF).
Weight == { w \in Int : w <= INF }

\* The edges the loop "for e = row_start[node] .. row_start[node+1]" visits.
Row(n) == row_start[n] .. row_start[n + 1] - 1

\* The value sssp_init stores in node n.
InitDist(n) == IF n = src THEN 0 ELSE INF

\* load_file succeeded: rows are consecutive and cover all edges.
ASSUME CSRAssumption ==
  /\ num_nodes \in Nat \ {0}
  /\ num_edges \in Nat
  /\ INF \in Nat \ {0}
  /\ row_start \in [0 .. num_nodes -> 0 .. num_edges]
  /\ row_start[0] = 0
  /\ row_start[num_nodes] = num_edges
  /\ \A n \in Node : row_start[n] <= row_start[n + 1]
  /\ edge_dst \in [Edge -> Node]
  /\ edge_wt \in [Edge -> Int]

-----------------------------------------------------------------------------
(***************************************************************************)
(* The reference.  A table d is closed when no edge out of a reached node  *)
(* can still lower it.  HopDist is the Bellman-Ford table, defined by its  *)
(* recurrence; "no negative cycle is reachable" is the statement that the  *)
(* table for num_nodes-1 edges is closed.                                  *)
(***************************************************************************)
Closed(d) ==
  \A n \in Node : d[n] # INF =>
    \A e \in Row(n) : d[edge_dst[e]] <= d[n] + edge_wt[e]

\* The candidates for the best walk of at most k+1 edges to v.
Offers(k, v) ==
  {HopDist[k][v]} \cup
    UNION { { HopDist[k][n] + edge_wt[e] : e \in { f \in Row(n) : edge_dst[f] = v } }
            : n \in { m \in Node : HopDist[k][m] # INF } }

ASSUME HopAssumption ==
  /\ HopDist \in [0 .. num_nodes - 1 -> [Node -> Weight]]
  /\ \A n \in Node : HopDist[0][n] = InitDist(n)
  /\ \A k \in 0 .. num_nodes - 2 : \A v \in Node :
       /\ HopDist[k + 1][v] \in Offers(k, v)
       /\ \A x \in Offers(k, v) : HopDist[k + 1][v] <= x

Dist == HopDist[num_nodes - 1]

ASSUME NoNegativeCycle == Closed(Dist) /\ Dist[src] = 0
=============================================================================
