-------------------------- MODULE RelaxedExchange --------------------------
(***************************************************************************)
(* The loop body of sssp_relaxed.cpp: ExchangeRelax with memory orders     *)
(* that say nothing about other locations.  Each location still has one    *)
(* order of its stores, which no thread sees backwards; exchange takes its *)
(* place at the end of it, whatever the thread has seen; and a barrier     *)
(* makes the stores before it visible to all threads.  A load returns any  *)
(* value that this leaves.                                                 *)
(***************************************************************************)
EXTENDS ExchangeRelax, Sequences

VARIABLES
  older,   \* older[n]: the values node_wt[n] had since the last barrier
  seen     \* seen[t][n]: the place of the newest one thread t knows of

memoryVars == <<older, seen>>

\* The stores to node_wt[n] since the last barrier, and the value before.
Stores(n) == Append(older[n], node_wt[n])

Fresh ==
  [ older |-> [n \in Node |-> <<>>], seen |-> [t \in Thread |-> [n \in Node |-> 1]] ]

MemoryInit == older = Fresh.older /\ seen = Fresh.seen

\* Faulty: a barrier that orders nothing, as one of relaxed atomics would be.
SynchroniseNothing == UNCHANGED memoryVars

\* pthread_barrier_wait returns: what was stored before it is what is seen.
Synchronise == older' = Fresh.older /\ seen' = Fresh.seen

\* The places in the order of stores that a load of thread t can return.
Visible(t, n) == seen[t][n] .. Len(Stores(n))

\* Thread t has loaded the k-th value of node_wt[n].
Sees(t, n, k) == seen' = [seen EXCEPT ![t][n] = k] /\ UNCHANGED older

\* if (g.node_wt[node] == INF) continue; and the first test of the edge loop.
RelaxedNode(t) ==
  /\ pc[t] = "node" /\ node[t] < End(t)
  /\ \E k \in Visible(t, node[t]) :
       LET skip == Stores(node[t])[k] = INF \/ Row(node[t]) = {}
       IN  /\ Sees(t, node[t], k)
           /\ \/ skip /\ node' = [node EXCEPT ![t] = @ + 1] /\ UNCHANGED <<pc, edge>>
              \/ /\ ~skip
                 /\ edge' = [edge EXCEPT ![t] = row_start[node[t]]]
                 /\ pc' = [pc EXCEPT ![t] = "relax"]
                 /\ UNCHANGED node
  /\ UNCHANGED <<node_wt, changed, exchangeVars>>

\* distance = node_wt[node].load(relaxed) + weight
RelaxedDistance(t) ==
  /\ At(t, "relax", "loadPrev")
  /\ \E k \in Visible(t, node[t]) :
       /\ Sees(t, node[t], k)
       /\ distance' = [distance EXCEPT ![t] = Stores(node[t])[k] + edge_wt[edge[t]]]
  /\ UNCHANGED <<node_wt, changed, prev_distance, pred_1>>

\* prev_distance = node_wt[dest].load(relaxed)
RelaxedPrev(t) ==
  /\ At(t, "loadPrev", "pred1")
  /\ \E k \in Visible(t, dest(t)) :
       /\ Sees(t, dest(t), k)
       /\ prev_distance' = [prev_distance EXCEPT ![t] = Stores(dest(t))[k]]
  /\ UNCHANGED <<node_wt, changed, distance, pred_1>>

\* pred_1, with another relaxed load of node_wt[node]
RelaxedPred1(t) ==
  /\ At(t, "pred1", "pred2")
  /\ \E k \in Visible(t, node[t]) :
       /\ Sees(t, node[t], k)
       /\ pred_1' = [pred_1 EXCEPT ![t] = distance[t] = Stores(node[t])[k] + edge_wt[edge[t]]]
  /\ UNCHANGED <<node_wt, changed, distance, prev_distance>>

\* pred_2, with another relaxed load of node_wt[dest], and the branches
RelaxedPred2(t) ==
  /\ pc[t] = "pred2"
  /\ \E k \in Visible(t, dest(t)) :
       LET same  == pred_1[t] /\ prev_distance[t] = Stores(dest(t))[k]
           lower == prev_distance[t] > distance[t]
       IN  /\ Sees(t, dest(t), k)
           /\ \/ ~same /\ At(t, "pred2", "relax")
              \/ same /\ lower /\ At(t, "pred2", "exchange")
              \/ same /\ ~lower /\ NextEdge(t)
  /\ UNCHANGED <<node_wt, changed, exchangeVars>>

\* node_wt[dest].exchange(distance, relaxed)
RelaxedStore(t) ==
  /\ At(t, "exchange", "verify")
  /\ older' = [older EXCEPT ![dest(t)] = Stores(dest(t))]
  /\ seen' = [seen EXCEPT ![t][dest(t)] = Len(Stores(dest(t))) + 1]
  /\ node_wt' = [node_wt EXCEPT ![dest(t)] = distance[t]]
  /\ UNCHANGED <<changed, exchangeVars>>

\* node_wt[dest].load(relaxed) == distance: announce the change, or try again.
RelaxedVerify(t) ==
  /\ pc[t] = "verify"
  /\ \E k \in Visible(t, dest(t)) :
       LET mine == Stores(dest(t))[k] = distance[t]
       IN  /\ Sees(t, dest(t), k)
           /\ \/ mine /\ changed' = TRUE /\ NextEdge(t)
              \/ ~mine /\ At(t, "verify", "relax") /\ UNCHANGED changed
  /\ UNCHANGED <<node_wt, exchangeVars>>

RelaxedStep(t) ==
  \/ RelaxedNode(t)
  \/ RelaxedDistance(t)
  \/ RelaxedPrev(t)
  \/ RelaxedPred1(t)
  \/ RelaxedPred2(t)
  \/ RelaxedStore(t)
  \/ RelaxedVerify(t)
=============================================================================
