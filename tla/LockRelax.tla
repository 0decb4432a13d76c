----------------------------- MODULE LockRelax -----------------------------
(***************************************************************************)
(* The loop body of sssp_nodelock.cpp, with two mutexes.  In the body,     *)
(* every access to node_wt is a critical section of its own: reading the   *)
(* distance of the edge's tail, reading the distance of its head, and      *)
(* storing the new one.  What was compared may have changed when it is     *)
(* stored.  Outside of it there is no mutex: the test whether a node is    *)
(* reached and the initialisation are the unlocked steps of EdgeScan.      *)
(***************************************************************************)
EXTENDS ExchangeRelax   \* for the locals distance and prev_distance

CONSTANT NoThread
ASSUME NoThreadAssumption == NoThread \notin Thread

VARIABLES edge_head_mutex, edge_tail_mutex   \* the holders of the two mutexes

mutexVars == <<edge_head_mutex, edge_tail_mutex>>

LockInit == edge_head_mutex = NoThread /\ edge_tail_mutex = NoThread

\* Faulty: the lock is not exclusive.
LockHeadShared(t) ==
  /\ pc[t] = "relax"
  /\ edge_head_mutex' = t
  /\ pc' = [pc EXCEPT ![t] = "readTail"]
  /\ UNCHANGED <<node_wt, changed, node, edge, edge_tail_mutex, exchangeVars>>

\* lck_h.lock()
LockHead(t) ==
  /\ pc[t] = "relax"
  /\ edge_head_mutex = NoThread
  /\ edge_head_mutex' = t
  /\ pc' = [pc EXCEPT ![t] = "readTail"]
  /\ UNCHANGED <<node_wt, changed, node, edge, edge_tail_mutex, exchangeVars>>

\* distance = node_wt[node] + edge_wt[e]; lck_h.unlock()
ReadTailLocked(t) ==
  /\ pc[t] = "readTail"
  /\ distance' = [distance EXCEPT ![t] = Through(t)]
  /\ edge_head_mutex' = NoThread
  /\ pc' = [pc EXCEPT ![t] = "lockRead"]
  /\ UNCHANGED <<node_wt, changed, node, edge, edge_tail_mutex, prev_distance, pred_1>>

\* lock(lck_h, lck_t): std::lock takes both mutexes and never deadlocks.
LockBoth(t) ==
  /\ pc[t] \in {"lockRead", "lockWrite"}
  /\ edge_head_mutex = NoThread
  /\ edge_tail_mutex = NoThread
  /\ edge_head_mutex' = t
  /\ edge_tail_mutex' = t
  /\ pc' = [pc EXCEPT ![t] = IF pc[t] = "lockRead" THEN "readHead" ELSE "write"]
  /\ UNCHANGED <<node_wt, changed, node, edge, exchangeVars>>

UnlockBoth == edge_head_mutex' = NoThread /\ edge_tail_mutex' = NoThread

\* prev_distance = node_wt[dest], both mutexes released, and the comparison
\* of the two local copies.
ReadHeadLocked(t) ==
  /\ pc[t] = "readHead"
  /\ prev_distance' = [prev_distance EXCEPT ![t] = node_wt[dest(t)]]
  /\ UnlockBoth
  /\ \/ /\ prev_distance'[t] > distance[t]
        /\ pc' = [pc EXCEPT ![t] = "lockWrite"]
        /\ UNCHANGED <<node, edge>>
     \/ /\ prev_distance'[t] <= distance[t]
        /\ NextEdge(t)
  /\ UNCHANGED <<node_wt, changed, distance, pred_1>>

\* node_wt[dest] = distance, whatever is there now; both mutexes released.
WriteLocked(t) ==
  /\ pc[t] = "write"
  /\ node_wt' = [node_wt EXCEPT ![dest(t)] = distance[t]]
  /\ UnlockBoth
  /\ pc' = [pc EXCEPT ![t] = "flag"]
  /\ UNCHANGED <<changed, node, edge, exchangeVars>>

\* changed = true, after the critical section.
Announce(t) ==
  /\ pc[t] = "flag"
  /\ changed' = TRUE
  /\ NextEdge(t)
  /\ UNCHANGED <<node_wt, mutexVars, exchangeVars>>

LockStep(t) ==
  \/ LockHead(t)
  \/ ReadTailLocked(t)
  \/ LockBoth(t)
  \/ ReadHeadLocked(t)
  \/ WriteLocked(t)
  \/ Announce(t)
=============================================================================
