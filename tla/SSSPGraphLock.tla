--------------------------- MODULE SSSPGraphLock ---------------------------
(***************************************************************************)
(* a2/src/sssp_graphlock.cpp: Bellman-Ford rounds in barrier-synchronised  *)
(* threads; one mutex for the whole graph makes "read both distances,      *)
(* compare, store" one critical section.  The test "is this node reached"  *)
(* reads node_wt without the mutex.                                        *)
(***************************************************************************)
EXTENDS BarrierRounds

CONSTANT NoThread    \* the owner of a free mutex
ASSUME NoThreadAssumption == NoThread \notin Thread

VARIABLES
  g_mutex,         \* the thread that holds the graph mutex
  distance,        \* distance[t], prev_distance[t]: locals of the loop body
  prev_distance

relaxVars == <<g_mutex, distance, prev_distance>>
vars == <<scanVars, roundVars, relaxVars>>

\* Only thread 0 stores the number of rounds.
Writers == {0}

Init ==
  /\ ScanInit
  /\ RoundInit
  /\ g_mutex = NoThread
  /\ distance = [t \in Thread |-> 0]
  /\ prev_distance = [t \in Thread |-> 0]

\* Faulty: the lock is not exclusive.
LockShared(t) ==
  /\ pc[t] = "relax"
  /\ g_mutex' = t
  /\ pc' = [pc EXCEPT ![t] = "read"]
  /\ UNCHANGED <<node_wt, changed, node, edge, roundVars, distance, prev_distance>>

\* lck.lock()
Lock(t) ==
  /\ pc[t] = "relax"
  /\ g_mutex = NoThread
  /\ g_mutex' = t
  /\ pc' = [pc EXCEPT ![t] = "read"]
  /\ UNCHANGED <<node_wt, changed, node, edge, roundVars, distance, prev_distance>>

\* Both distances are read.
Read(t) ==
  /\ pc[t] = "read"
  /\ distance' = [distance EXCEPT ![t] = Through(t)]
  /\ prev_distance' = [prev_distance EXCEPT ![t] = node_wt[dest(t)]]
  /\ pc' = [pc EXCEPT ![t] = "write"]
  /\ UNCHANGED <<node_wt, changed, node, edge, roundVars, g_mutex>>

\* Faulty: the change is not announced.
WriteSilent(t) ==
  /\ pc[t] = "write"
  /\ node_wt' = [node_wt EXCEPT ![dest(t)] =
                    IF prev_distance[t] > distance[t] THEN distance[t] ELSE @]
  /\ pc' = [pc EXCEPT ![t] = "unlock"]
  /\ UNCHANGED <<changed, node, edge, roundVars, relaxVars>>

\* Faulty: stored without a comparison.
WriteUnchecked(t) ==
  /\ pc[t] = "write"
  /\ node_wt' = [node_wt EXCEPT ![dest(t)] = distance[t]]
  /\ changed' = TRUE
  /\ pc' = [pc EXCEPT ![t] = "unlock"]
  /\ UNCHANGED <<node, edge, roundVars, relaxVars>>

\* if (prev_distance > distance) { node_wt[dest] = distance; changed = true; }
Write(t) ==
  /\ pc[t] = "write"
  /\ \/ /\ prev_distance[t] > distance[t]
        /\ node_wt' = [node_wt EXCEPT ![dest(t)] = distance[t]]
        /\ changed' = TRUE
     \/ /\ prev_distance[t] <= distance[t]
        /\ UNCHANGED <<node_wt, changed>>
  /\ pc' = [pc EXCEPT ![t] = "unlock"]
  /\ UNCHANGED <<node, edge, roundVars, relaxVars>>

\* lck.unlock() and on to the next edge
Unlock(t) ==
  /\ pc[t] = "unlock"
  /\ g_mutex' = NoThread
  /\ NextEdge(t)
  /\ UNCHANGED <<node_wt, changed, roundVars, distance, prev_distance>>

ThreadStep(t) ==
  \/ Control(t, "initWait", Writers) /\ UNCHANGED relaxVars
  \/ Lock(t)
  \/ Read(t)
  \/ Write(t)
  \/ Unlock(t)

\* main has joined all threads and writes the output.
Terminating == AllDone /\ UNCHANGED vars

Next == (\E t \in Thread : ThreadStep(t)) \/ Terminating

\* The operating system runs every thread that can run.
Fairness == \A t \in Thread : WF_vars(ThreadStep(t))

Spec == Init /\ [][Next]_vars
FairSpec == Spec /\ Fairness

-----------------------------------------------------------------------------
Label == ControlLabel \cup { "relax", "read", "write", "unlock" }

\* Types of all variables; the loop variables stay in the thread's slice.
TypeOK ==
  /\ ScanTypeOK(Label)
  /\ RoundTypeOK
  /\ g_mutex \in Thread \cup {NoThread}
  /\ distance \in [Thread -> Int]
  /\ prev_distance \in [Thread -> Weight]

InCritical(t) == pc[t] \in {"read", "write", "unlock"}

\* Two threads never relax an edge at the same time.
MutualExclusion ==
  \A t, u \in Thread : InCritical(t) /\ InCritical(u) => t = u

\* After the initialisation a distance only goes down ("it could only be
\* decreased rather than increased").
OnlyDecreases ==
  [][Initialised => \A n \in Node : node_wt'[n] <= node_wt[n]]_vars

\* No int sum of a distance and a weight overflows.
NoOverflow == \A t \in Thread : distance[t] <= INF

\* After r rounds no distance is above the best walk of at most r edges.
RoundProgress ==
  \A t \in Thread : Initialised /\ Round(t) < num_nodes =>
    \A n \in Node : node_wt[n] <= HopDist[Round(t)][n]

-----------------------------------------------------------------------------
(***************************************************************************)
(* The inductive strengthening the proofs rest on.                         *)
(***************************************************************************)

\* The holder of the mutex is the thread in the critical section.
MutexOwner == \A t \in Thread : InCritical(t) <=> g_mutex = t

\* The part of its slice a thread has initialised.
Filling ==
  \A t \in Thread :
    /\ pc[t] \in {"init", "initWait"} =>
         \A n \in Node : n \in Start(t) .. node[t] - 1 => node_wt[n] = InitDist(n)
    /\ pc[t] \in {"initWait", "endWait"} => node[t] = End(t)

\* In the body the node is reached, and what was read is still true.
Held ==
  \A t \in Thread :
    /\ InBody(t) => node_wt[node[t]] # INF
    /\ pc[t] = "write" => /\ distance[t] = Through(t)
                          /\ prev_distance[t] = node_wt[dest(t)]

\* Thread t is in the edge loops of a round, and is done with edge e of n.
Scanning(t) == InBody(t) \/ pc[t] \in {"node", "endWait"}
Relaxed(t, n, e) ==
  \/ n < node[t]
  \/ /\ n = node[t]
     /\ InBody(t)
     /\ e < edge[t] \/ (e = edge[t] /\ pc[t] = "unlock")

\* What the relaxed edges of this round have achieved.
EdgesDone(t) ==
  Scanning(t) =>
    \A n \in Node : n \in Start(t) .. End(t) - 1 => \A e \in Row(n) :
      Relaxed(t, n, e) =>
        /\ HopDist[rounds[t]][n] # INF =>
             node_wt[edge_dst[e]] <= HopDist[rounds[t]][n] + edge_wt[e]
        /\ ~changed /\ node_wt[n] # INF =>
             node_wt[edge_dst[e]] <= node_wt[n] + edge_wt[e]

\* Between two rounds the next hop distance has been reached.
NextHop ==
  \A t \in Thread : pc[t] \in {"test", "resetWait", "reset", "againWait"} =>
    \A n \in Node : node_wt[n] <= HopDist[rounds[t] + 1][n]

\* The source keeps the distance 0.
SourceIsZero == Initialised => node_wt[src] = 0

\* Whoever leaves, leaves the true distances behind.
LeavesDist == (\E t \in Thread : pc[t] = "done") => node_wt = Dist

Control1 == TypeOK /\ Loops /\ Phases /\ MutexOwner
Bounds2 == Filling /\ AboveDist /\ Held
Progress3 ==
  /\ RoundProgress
  /\ \A t \in Thread : EdgesDone(t)
  /\ NextHop
  /\ SourceIsZero
  /\ EarlyExitIsFixpoint
  /\ LeavesDist
IInv == Control1 /\ Bounds2 /\ Progress3

-----------------------------------------------------------------------------
\* The published distances behave as ShortestPaths says.
Published == IF Initialised THEN node_wt ELSE [n \in Node |-> InitDist(n)]
Abstract == INSTANCE ShortestPaths WITH d <- Published, finished <- AllDone
ImplementsShortestPaths == Abstract!Spec
=============================================================================
