------------------------------ MODULE EdgeScan ------------------------------
(***************************************************************************)
(* The two loops every parallel SSSP program of a2 runs in each thread:    *)
(* the initialisation of the thread's slice of node_wt, and one round over *)
(* the out-edges of the slice's reached nodes.  What is done with one edge *)
(* (the body of the inner loop) differs from program to program; it starts *)
(* at pc = "relax" and ends with NextEdge.                                 *)
(***************************************************************************)
EXTENDS CSRGraph, Slices

CONSTANT threadNum
ASSUME ThreadAssumption == threadNum \in Nat \ {0}

VARIABLES
  node_wt,   \* node_wt[n]: the shared distance array
  changed,   \* the shared flag: some distance was lowered in this round
  pc,        \* pc[t]: where thread t is
  node,      \* node[t]: loop variable "node" (and "i" in sssp_init)
  edge       \* edge[t]: loop variable "e"

scanVars == <<node_wt, changed, pc, node, edge>>

Thread == 0 .. threadNum - 1
Start(t) == SliceStart(num_nodes, threadNum, t)
End(t) == SliceEnd(num_nodes, threadNum, t)

\* node_wt is calloc'ed; every thread is about to run sssp_init.
ScanInit ==
  /\ node_wt = [n \in Node |-> 0]
  /\ changed = FALSE
  /\ pc = [t \in Thread |-> "init"]
  /\ node = [t \in Thread |-> Start(t)]
  /\ edge = [t \in Thread |-> 0]

\* Faulty: only the source is set; the others keep the 0 of calloc.
InitSourceOnly(t) ==
  /\ pc[t] = "init"
  /\ node[t] < End(t)
  /\ node_wt' = [node_wt EXCEPT ![node[t]] = IF node[t] = src THEN 0 ELSE @]
  /\ node' = [node EXCEPT ![t] = @ + 1]
  /\ UNCHANGED <<changed, pc, edge>>

\* One iteration of the sssp_init loop.
InitNode(t) ==
  /\ pc[t] = "init"
  /\ node[t] < End(t)
  /\ node_wt' = [node_wt EXCEPT ![node[t]] = InitDist(node[t])]
  /\ node' = [node EXCEPT ![t] = @ + 1]
  /\ UNCHANGED <<changed, pc, edge>>

\* The sssp_init loop ends; the program goes on at label next.
EndInit(t, next) ==
  /\ pc[t] = "init"
  /\ node[t] >= End(t)
  /\ pc' = [pc EXCEPT ![t] = next]
  /\ UNCHANGED <<node_wt, changed, node, edge>>

\* Faulty: "continue" in a loop that counts at its end.
SkipWithoutCounting(t) ==
  /\ pc[t] = "node"
  /\ node[t] < End(t)
  /\ node_wt[node[t]] = INF \/ Row(node[t]) = {}
  /\ node' = [node EXCEPT ![t] = IF node_wt[@] = INF THEN @ ELSE @ + 1]
  /\ UNCHANGED <<node_wt, changed, pc, edge>>

\* The node is not reached yet ("continue"), or it has no out-edge.
SkipNode(t) ==
  /\ pc[t] = "node"
  /\ node[t] < End(t)
  /\ node_wt[node[t]] = INF \/ Row(node[t]) = {}
  /\ node' = [node EXCEPT ![t] = @ + 1]
  /\ UNCHANGED <<node_wt, changed, pc, edge>>

\* Faulty: the edges of an unreached node are relaxed too.
EnterUnreached(t) ==
  /\ pc[t] = "node"
  /\ node[t] < End(t)
  /\ Row(node[t]) # {}
  /\ edge' = [edge EXCEPT ![t] = row_start[node[t]]]
  /\ pc' = [pc EXCEPT ![t] = "relax"]
  /\ UNCHANGED <<node_wt, changed, node>>

\* The node is reached: start with its first out-edge.
EnterNode(t) ==
  /\ pc[t] = "node"
  /\ node[t] < End(t)
  /\ node_wt[node[t]] # INF
  /\ Row(node[t]) # {}
  /\ edge' = [edge EXCEPT ![t] = row_start[node[t]]]
  /\ pc' = [pc EXCEPT ![t] = "relax"]
  /\ UNCHANGED <<node_wt, changed, node>>

\* The slice is finished; the program goes on at label next.
EndSlice(t, next) ==
  /\ pc[t] = "node"
  /\ node[t] >= End(t)
  /\ pc' = [pc EXCEPT ![t] = next]
  /\ UNCHANGED <<node_wt, changed, node, edge>>

\* Faulty: the last edge of every row is missed.
NextEdgeMissesLast(t) ==
  \/ /\ edge[t] + 1 < row_start[node[t] + 1] - 1
     /\ edge' = [edge EXCEPT ![t] = @ + 1]
     /\ pc' = [pc EXCEPT ![t] = "relax"]
     /\ UNCHANGED node
  \/ /\ edge[t] + 1 >= row_start[node[t] + 1] - 1
     /\ node' = [node EXCEPT ![t] = @ + 1]
     /\ pc' = [pc EXCEPT ![t] = "node"]
     /\ UNCHANGED edge

\* The loop steps after the last statement of the inner loop's body.
NextEdge(t) ==
  \/ /\ edge[t] + 1 < row_start[node[t] + 1]
     /\ edge' = [edge EXCEPT ![t] = @ + 1]
     /\ pc' = [pc EXCEPT ![t] = "relax"]
     /\ UNCHANGED node
  \/ /\ edge[t] + 1 >= row_start[node[t] + 1]
     /\ node' = [node EXCEPT ![t] = @ + 1]
     /\ pc' = [pc EXCEPT ![t] = "node"]
     /\ UNCHANGED edge

\* One edge, as the inner loop's body sees it.
dest(t) == edge_dst[edge[t]]
Through(t) == node_wt[node[t]] + edge_wt[edge[t]]

-----------------------------------------------------------------------------
(***************************************************************************)
(* Types of the variables above, for a program with the given labels; the  *)
(* loop variable never leaves the thread's slice.                          *)
(***************************************************************************)
ScanTypeOK(labels) ==
  /\ node_wt \in [Node -> Weight]
  /\ changed \in BOOLEAN
  /\ pc \in [Thread -> labels]
  /\ node \in [Thread -> 0 .. num_nodes]
  /\ \A t \in Thread : node[t] \in Start(t) .. End(t)
  /\ edge \in [Thread -> 0 .. num_edges]
=============================================================================
