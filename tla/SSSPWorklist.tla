---------------------------- MODULE SSSPWorklist ----------------------------
(***************************************************************************)
(* a4/src/sssp_blocking.cpp and a4/src/sssp_lockfree.cpp: threads take     *)
(* nodes from one shared queue, relax their out-edges, and put every node  *)
(* whose distance they lower back.  The two programs differ in the queue   *)
(* only; its calls are single steps here, as Fifo promises.                *)
(* The threads find out by themselves that the work is done.               *)
(***************************************************************************)
EXTENDS CSRGraph, Sequences

CONSTANTS threadNum, Capacity   \* Capacity: the maxqsize of the queue
ASSUME WorklistAssumption ==
  threadNum \in Nat \ {0} /\ Capacity \in Nat /\ (Capacity = 0 => num_edges = 0)

VARIABLES
  node_wt, q,
  states,          \* states[t]: "INIT", "DO_WORK" or "NO_WORK"
  exited,          \* a push has failed and the program has called exit(1)
  pc, node, edge,  \* locals of each thread
  distance, prev_distance, pred_1,
  i                \* index of the loop over states

locals == <<node, edge, distance, prev_distance, pred_1, i>>
vars == <<node_wt, q, states, exited, pc, locals>>

Thread == 0 .. threadNum - 1

\* main has initialised node_wt, pushed the source and started the threads.  It
\* does not look at the result of push: without an edge there is no room.
Init ==
  /\ node_wt = [v \in Node |-> InitDist(v)]
  /\ q = IF Capacity > 0 THEN <<src>> ELSE <<>>
  /\ states = [t \in Thread |-> "INIT"]
  /\ exited = FALSE
  /\ pc = [t \in Thread |-> "pop"]
  /\ node = [t \in Thread |-> 0]
  /\ edge = [t \in Thread |-> 0]
  /\ distance = [t \in Thread |-> 0]
  /\ prev_distance = [t \in Thread |-> 0]
  /\ pred_1 = [t \in Thread |-> FALSE]
  /\ i = [t \in Thread |-> 0]

At(t, label, next) == pc[t] = label /\ pc' = [pc EXCEPT ![t] = next]

dest(t) == edge_dst[edge[t]]
Through(t) == node_wt[node[t]] + edge_wt[edge[t]]

\* q->pop(node) succeeds, or it fails and the thread looks at the states.
Pop(t) ==
  /\ \/ /\ q # <<>>
        /\ At(t, "pop", "work")
        /\ node' = [node EXCEPT ![t] = Head(q)]
        /\ q' = Tail(q)
        /\ UNCHANGED i
     \/ /\ q = <<>>
        /\ At(t, "pop", "check")
        /\ i' = [i EXCEPT ![t] = 0]
        /\ UNCHANGED <<node, q>>
  /\ UNCHANGED <<node_wt, states, exited, edge, distance, prev_distance, pred_1>>

\* states[tid].store(DO_WORK); the first edge, or no edge at all
Work(t) ==
  /\ states' = [states EXCEPT ![t] = "DO_WORK"]
  /\ edge' = [edge EXCEPT ![t] = row_start[node[t]]]
  /\ At(t, "work", IF Row(node[t]) = {} THEN "pop" ELSE "relax")
  /\ UNCHANGED <<node_wt, q, exited, node, distance, prev_distance, pred_1, i>>

\* distance = node_wt[node].load() + edge_wt[e]
LoadDistance(t) ==
  /\ At(t, "relax", "loadPrev")
  /\ distance' = [distance EXCEPT ![t] = Through(t)]
  /\ UNCHANGED <<node_wt, q, states, exited, node, edge, prev_distance, pred_1, i>>

\* prev_distance = node_wt[dest].load()
LoadPrev(t) ==
  /\ At(t, "loadPrev", "pred1")
  /\ prev_distance' = [prev_distance EXCEPT ![t] = node_wt[dest(t)]]
  /\ UNCHANGED <<node_wt, q, states, exited, node, edge, distance, pred_1, i>>

\* pred_1: the distance of node is still the one that was loaded.
Pred1(t) ==
  /\ At(t, "pred1", "pred2")
  /\ pred_1' = [pred_1 EXCEPT ![t] = distance[t] = Through(t)]
  /\ UNCHANGED <<node_wt, q, states, exited, node, edge, distance, prev_distance, i>>

\* Faulty: after the last edge the states are looked at, not the queue.
NextEdgeThenCheck(t, label) ==
  /\ edge' = [edge EXCEPT ![t] = @ + 1]
  /\ At(t, label, IF edge[t] + 1 < row_start[node[t] + 1] THEN "relax" ELSE "check")

\* e++ and the test of the edge loop
NextEdge(t, label) ==
  /\ edge' = [edge EXCEPT ![t] = @ + 1]
  /\ At(t, label, IF edge[t] + 1 < row_start[node[t] + 1] THEN "relax" ELSE "pop")

\* pred_2: the distance of dest is still the one that was loaded; retry,
\* lower it, or go on to the next edge.
Pred2(t) ==
  LET stable == pred_1[t] /\ prev_distance[t] = node_wt[dest(t)]
      lower  == prev_distance[t] > distance[t]
  IN  /\ \/ pc[t] = "pred2" /\ ~stable /\ At(t, "pred2", "relax") /\ UNCHANGED edge
         \/ pc[t] = "pred2" /\ stable /\ lower /\ At(t, "pred2", "cas") /\ UNCHANGED edge
         \/ pc[t] = "pred2" /\ stable /\ ~lower /\ NextEdge(t, "pred2")
      /\ UNCHANGED <<node_wt, q, states, exited, node, distance, prev_distance, pred_1, i>>

\* Faulty: exchange instead of compare_exchange.
LowerByExchange(t) ==
  /\ At(t, "cas", "push")
  /\ node_wt' = [node_wt EXCEPT ![dest(t)] = distance[t]]
  /\ UNCHANGED <<q, states, exited, locals>>

\* node_wt[dest].compare_exchange_weak(prev_distance, distance) succeeds.
Lower(t) ==
  /\ At(t, "cas", "push")
  /\ node_wt[dest(t)] = prev_distance[t]
  /\ node_wt' = [node_wt EXCEPT ![dest(t)] = distance[t]]
  /\ UNCHANGED <<q, states, exited, locals>>

\* Faulty: the edge is given up.
GiveUpEdge(t) ==
  /\ pc[t] = "cas"
  /\ NextEdge(t, "cas")
  /\ UNCHANGED <<node_wt, q, states, exited, node, distance, prev_distance, pred_1, i>>

\* It fails because the distance has changed, or for no reason: try again.
FailToLower(t) ==
  /\ At(t, "cas", "relax")
  /\ UNCHANGED <<node_wt, q, states, exited, locals>>

\* q->push(dest), or exit(1) if the queue is full
Push(t) ==
  /\ pc[t] = "push"
  /\ \/ /\ Len(q) < Capacity
        /\ q' = Append(q, dest(t))
        /\ NextEdge(t, "push")
        /\ UNCHANGED exited
     \/ /\ Len(q) = Capacity
        /\ exited' = TRUE
        /\ UNCHANGED <<q, pc, edge>>
  /\ UNCHANGED <<node_wt, states, node, distance, prev_distance, pred_1, i>>

\* The loop that looks for a thread that is not in state NO_WORK.
CheckState(t) ==
  /\ pc[t] = "check"
  /\ \/ /\ i[t] < threadNum /\ states[i[t]] = "NO_WORK"
        /\ i' = [i EXCEPT ![t] = @ + 1]
        /\ UNCHANGED pc
     \/ /\ i[t] < threadNum /\ states[i[t]] # "NO_WORK"
        /\ At(t, "check", "mark")
        /\ UNCHANGED i
     \/ /\ i[t] = threadNum
        /\ At(t, "check", "done")
        /\ UNCHANGED i
  /\ UNCHANGED <<node_wt, q, states, exited, node, edge, distance, prev_distance, pred_1>>

\* Faulty: the state is not stored.
MarkForgotten(t) ==
  /\ At(t, "mark", "pop")
  /\ UNCHANGED <<node_wt, q, states, exited, locals>>

\* states[i].store(NO_WORK): i is the thread the loop has stopped at, which
\* need not be the thread itself.
MarkIdle(t) ==
  /\ At(t, "mark", "pop")
  /\ states' = [states EXCEPT ![i[t]] = "NO_WORK"]
  /\ UNCHANGED <<node_wt, q, exited, locals>>

ThreadStep(t) ==
  /\ ~exited
  /\ \/ Pop(t) \/ Work(t) \/ LoadDistance(t) \/ LoadPrev(t) \/ Pred1(t) \/ Pred2(t)
     \/ Lower(t) \/ FailToLower(t) \/ Push(t) \/ CheckState(t) \/ MarkIdle(t)

AllDone == \A t \in Thread : pc[t] = "done"

\* main has joined the threads, or the process has ended.
Terminating == (AllDone \/ exited) /\ UNCHANGED vars

Next == (\E t \in Thread : ThreadStep(t)) \/ Terminating

\* The operating system runs every thread, and a compare_exchange_weak does
\* not fail for no reason for ever.
Fairness ==
  \A t \in Thread : WF_vars(ThreadStep(t)) /\ SF_vars(~exited /\ Lower(t))

Spec == Init /\ [][Next]_vars
FairSpec == Spec /\ Fairness

-----------------------------------------------------------------------------
\* Thread t is busy with edge e of node v and has not got past it: it will
\* still look at the present distance of v.  Once pred_1 is known to hold the
\* distance it works with must be the present one.
Trying == {"relax", "loadPrev", "pred1", "pred2", "cas", "push"}
WillRelax(t, v, e) ==
  /\ node[t] = v
  /\ \/ pc[t] = "work"
     \/ pc[t] \in Trying /\ edge[t] < e
     \/ pc[t] \in {"relax", "loadPrev", "pred1"} /\ edge[t] = e
     \/ pc[t] = "pred2" /\ edge[t] = e /\ ~pred_1[t]
     \/ pc[t] \in {"pred2", "cas"} /\ edge[t] = e /\ distance[t] = Through(t)

\* Thread t has lowered the distance of v and is about to push v.
WillPush(t, v) == pc[t] = "push" /\ dest(t) = v

\* No work is lost: an edge that can lower a distance leaves a node that is
\* queued, about to be queued, or being worked on.
OpenEdgeCovered ==
  \A v \in Node : node_wt[v] # INF => \A e \in Row(v) :
    node_wt[edge_dst[e]] > node_wt[v] + edge_wt[e] =>
      \/ \E k \in 1 .. Len(q) : q[k] = v
      \/ \E t \in Thread : WillPush(t, v) \/ WillRelax(t, v, e)

\* A queued node finds a thread: the threads that have left the work, or are
\* about to decide whether to leave, never leave the queue to nobody.
QueueAttended ==
  q # <<>> => \E t \in Thread : pc[t] \notin {"check", "mark", "done"}

\* "should be enough ..." (sssp_blocking.cpp:133): the queue never gets full.
QueueNeverFull == ~exited

\* The distances behave as ShortestPaths says; they are handed over when all
\* threads have found out that the work is done.
Abstract == INSTANCE ShortestPaths WITH d <- node_wt, finished <- AllDone
ImplementsShortestPaths == Abstract!Spec

\* Every thread finds out that there is no work left, unless the program ends
\* because the queue is full.
Termination == <>(AllDone \/ exited)
=============================================================================
