----------------------------- MODULE PlainRelax -----------------------------
(***************************************************************************)
(* The loop body of sssp_ex3.cpp and sssp_no_atomic.cpp: node_wt is an     *)
(* array of plain ints that the threads read and write without any lock.   *)
(* These are data races; on the machines the programs are built for an int *)
(* is read and written whole, and the compiler may keep the distance of    *)
(* the current node in a register from the test "== INF" on.               *)
(***************************************************************************)
EXTENDS ExchangeRelax   \* for the local distance, which both bodies have

VARIABLE register  \* register[t]: the distance of node[t] as last loaded by t

plainVars == <<register, distance>>

PlainInit == register = [t \in Thread |-> 0]

\* The test "node_wt[node] == INF" loads the distance of a node that is entered.
LoadRegister(t) ==
  register' = [register EXCEPT ![t] =
                 IF pc[t] = "node" /\ pc'[t] = "relax" THEN node_wt[node[t]] ELSE @]

\* distance = node_wt[node] + edge_wt[e], from the array or from the register
ReadTail(t) ==
  /\ pc[t] = "relax"
  /\ \E wt \in { register[t], node_wt[node[t]] } :
       /\ register' = [register EXCEPT ![t] = wt]
       /\ distance' = [distance EXCEPT ![t] = wt + edge_wt[edge[t]]]
  /\ pc' = [pc EXCEPT ![t] = "readHead"]
  /\ UNCHANGED <<node_wt, changed, node, edge>>

\* prev_distance = node_wt[dest] and the comparison
ReadHead(t) ==
  /\ pc[t] = "readHead"
  /\ \/ /\ node_wt[dest(t)] > distance[t]
        /\ pc' = [pc EXCEPT ![t] = "write"]
        /\ UNCHANGED <<node, edge>>
     \/ /\ node_wt[dest(t)] <= distance[t]
        /\ NextEdge(t)
  /\ UNCHANGED <<node_wt, changed, plainVars>>

\* node_wt[dest] = distance, whatever is there now; a thread sees its own store.
Write(t) ==
  /\ pc[t] = "write"
  /\ node_wt' = [node_wt EXCEPT ![dest(t)] = distance[t]]
  /\ register' = [register EXCEPT ![t] = IF dest(t) = node[t] THEN distance[t] ELSE @]
  /\ pc' = [pc EXCEPT ![t] = "flag"]
  /\ UNCHANGED <<changed, node, edge, distance>>

\* changed = true
SetChanged(t) ==
  /\ pc[t] = "flag"
  /\ changed' = TRUE
  /\ NextEdge(t)
  /\ UNCHANGED <<node_wt, plainVars>>

PlainStep(t) == ReadTail(t) \/ ReadHead(t) \/ Write(t) \/ SetChanged(t)
=============================================================================
