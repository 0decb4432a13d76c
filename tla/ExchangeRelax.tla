--------------------------- MODULE ExchangeRelax ---------------------------
(***************************************************************************)
(* The loop body of sssp.cpp and sssp_barrier.cpp: node_wt is an array of  *)
(* atomics.  Both distances are loaded, loaded again to see whether they   *)
(* are unchanged, compared, and then stored with exchange, which succeeds  *)
(* whatever the stored value has become; a last load looks whether the     *)
(* value is still there.  Every load and the exchange is a step.           *)
(***************************************************************************)
EXTENDS EdgeScan

VARIABLES distance, prev_distance, pred_1   \* locals of the body

exchangeVars == <<distance, prev_distance, pred_1>>

ExchangeInit ==
  /\ distance = [t \in Thread |-> 0]
  /\ prev_distance = [t \in Thread |-> 0]
  /\ pred_1 = [t \in Thread |-> FALSE]

At(t, label, next) ==
  /\ pc[t] = label
  /\ pc' = [pc EXCEPT ![t] = next]
  /\ UNCHANGED <<node, edge>>

\* distance = node_wt[node].load() + edge_wt[e].load(): no weight is written.
LoadDistance(t) ==
  /\ At(t, "relax", "loadPrev")
  /\ distance' = [distance EXCEPT ![t] = Through(t)]
  /\ UNCHANGED <<node_wt, changed, prev_distance, pred_1>>

\* prev_distance = node_wt[dest].load()
LoadPrev(t) ==
  /\ At(t, "loadPrev", "pred1")
  /\ prev_distance' = [prev_distance EXCEPT ![t] = node_wt[dest(t)]]
  /\ UNCHANGED <<node_wt, changed, distance, pred_1>>

\* pred_1: the distance of node is still the one that was loaded.
Pred1(t) ==
  /\ At(t, "pred1", "pred2")
  /\ pred_1' = [pred_1 EXCEPT ![t] = distance[t] = Through(t)]
  /\ UNCHANGED <<node_wt, changed, distance, prev_distance>>

\* pred_2: the distance of dest is still the one that was loaded; then the
\* branches of the body that need no shared variable.
Pred2(t) ==
  LET pred_2 == prev_distance[t] = node_wt[dest(t)]
      lower  == prev_distance[t] > distance[t]
  IN  /\ \/ ~(pred_1[t] /\ pred_2) /\ At(t, "pred2", "relax")
         \/ pred_1[t] /\ pred_2 /\ lower /\ At(t, "pred2", "exchange")
         \/ pc[t] = "pred2" /\ pred_1[t] /\ pred_2 /\ ~lower /\ NextEdge(t)
      /\ UNCHANGED <<node_wt, changed, exchangeVars>>

\* Faulty: the arguments are mixed up, the old distance is stored again.
ExchangeOld(t) ==
  /\ At(t, "exchange", "verify")
  /\ node_wt' = [node_wt EXCEPT ![dest(t)] = prev_distance[t]]
  /\ UNCHANGED <<changed, exchangeVars>>

\* node_wt[dest].exchange(distance)
Exchange(t) ==
  /\ At(t, "exchange", "verify")
  /\ node_wt' = [node_wt EXCEPT ![dest(t)] = distance[t]]
  /\ UNCHANGED <<changed, exchangeVars>>

\* Faulty: the change is not announced.
VerifySilent(t) ==
  /\ \/ pc[t] = "verify" /\ node_wt[dest(t)] = distance[t] /\ NextEdge(t)
     \/ node_wt[dest(t)] # distance[t] /\ At(t, "verify", "relax")
  /\ UNCHANGED <<node_wt, changed, exchangeVars>>

\* node_wt[dest].load() == distance: announce the change, or try again.
Verify(t) ==
  /\ \/ /\ pc[t] = "verify" /\ node_wt[dest(t)] = distance[t]
        /\ changed' = TRUE
        /\ NextEdge(t)
     \/ /\ node_wt[dest(t)] # distance[t]
        /\ At(t, "verify", "relax")
        /\ UNCHANGED changed
  /\ UNCHANGED <<node_wt, exchangeVars>>

RelaxStep(t) ==
  \/ LoadDistance(t)
  \/ LoadPrev(t)
  \/ Pred1(t)
  \/ Pred2(t)
  \/ Exchange(t)
  \/ Verify(t)
=============================================================================
