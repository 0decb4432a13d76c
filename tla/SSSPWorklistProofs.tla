------------------------- MODULE SSSPWorklistProofs -------------------------
(***************************************************************************)
(* The work-list programs compute the shortest distances, for every graph  *)
(* without a reachable negative cycle, every number of threads and every   *)
(* capacity of the queue.  No work is lost and no queue is left to nobody; *)
(* hence, when all threads have left, the queue is empty, no edge can      *)
(* lower a distance, and the distances are the true ones.                  *)
(***************************************************************************)
EXTENDS SSSPWorklist, WellFoundedInduction, TLAPS

-----------------------------------------------------------------------------
(***************************************************************************)
(* What the Bellman-Ford table HopDist says about any table of distances:  *)
(* one round that relaxes every edge takes a table from below HopDist[k]   *)
(* to below HopDist[k+1], and a table no edge can lower is below Dist.     *)
(* (The lemmas about CSRGraph of BarrierRoundsProofs, for this family.)    *)
(***************************************************************************)
\* The entries of the table are weights.
LEMMA HopType ==
  ASSUME NEW k \in 0 .. num_nodes - 1, NEW n \in Node
  PROVE  HopDist[k][n] \in Int /\ HopDist[k][n] <= INF
BY HopAssumption DEF Weight

\* The last row of the table is Dist.
LEMMA DistType ==
  /\ num_nodes - 1 \in 0 .. num_nodes - 1
  /\ Dist = HopDist[num_nodes - 1]
  /\ Dist \in [Node -> Weight]
<1>1. num_nodes - 1 \in 0 .. num_nodes - 1
  BY CSRAssumption
<1>. QED
  BY <1>1, HopAssumption DEF Dist

\* The out-edges of a node are edges of the graph.
LEMMA RowIsEdges ==
  ASSUME NEW n \in Node
  PROVE  /\ row_start[n] \in 0 .. num_edges
         /\ row_start[n + 1] \in 0 .. num_edges
         /\ Row(n) \subseteq Edge
<1>1. n \in 0 .. num_nodes /\ n + 1 \in 0 .. num_nodes
  BY CSRAssumption DEF Node
<1>2. row_start[n] \in 0 .. num_edges /\ row_start[n + 1] \in 0 .. num_edges
  BY <1>1, CSRAssumption
<1>. QED
  BY <1>2, CSRAssumption DEF Row, Edge

\* The distances sssp_init stores are weights.
LEMMA InitDistIsWeight ==
  ASSUME NEW n \in Node
  PROVE  InitDist(n) \in Weight
BY CSRAssumption DEF InitDist, Weight

\* A table below row k in which every edge has been relaxed once from the
\* values of row k is below row k+1.
LEMMA HopReached ==
  ASSUME NEW k \in 0 .. num_nodes - 2, NEW d \in [Node -> Int],
         \A n \in Node : d[n] <= HopDist[k][n],
         \A n \in Node : HopDist[k][n] # INF =>
           \A e \in Row(n) : d[edge_dst[e]] <= HopDist[k][n] + edge_wt[e],
         NEW v \in Node
  PROVE  d[v] <= HopDist[k + 1][v]
<1>1. HopDist[k + 1][v] \in Offers(k, v)
  BY HopAssumption
<1>2. CASE HopDist[k + 1][v] = HopDist[k][v]
  BY <1>2
<1>3. CASE \E n \in Node : /\ HopDist[k][n] # INF
                           /\ \E e \in Row(n) : /\ edge_dst[e] = v
                                                /\ HopDist[k + 1][v] = HopDist[k][n] + edge_wt[e]
  BY <1>3
<1>. QED
  BY <1>1, <1>2, <1>3 DEF Offers

\* A closed table with the source at 0 is below every row, so below Dist:
\* in the least row with an entry below the table, that entry would be an
\* offer of the row before.
LEMMA ClosedIsBelow ==
  ASSUME NEW d \in [Node -> Weight], Closed(d), d[src] <= 0
  PROVE  \A n \in Node : d[n] <= Dist[n]
<1>. DEFINE Bad == { k \in 0 .. num_nodes - 1 : \E n \in Node : ~(d[n] <= HopDist[k][n]) }
<1>n. num_nodes \in Nat /\ num_nodes > 0 /\ INF \in Nat
  BY CSRAssumption
<1>d. \A n \in Node : d[n] \in Int /\ d[n] <= INF
  BY DEF Weight
<1>1. SUFFICES ASSUME Bad # {} PROVE FALSE
  BY <1>1, DistType
<1>2. Bad \subseteq Nat
  BY <1>n
<1>3. PICK k \in Bad : \A j \in Bad : ~(<<j, k>> \in OpToRel(<, Nat))
  <2>. HIDE DEF Bad
  <2>. QED
    BY <1>1, <1>2, WFMin, NatLessThanWellFounded
<1>4. k \in 0 .. num_nodes - 1 /\ \A j \in Bad : ~(j < k)
  BY <1>2, <1>3 DEF OpToRel
<1>5. PICK v \in Node : ~(d[v] <= HopDist[k][v])
  BY <1>3
<1>6. CASE k = 0
  BY <1>5, <1>6, <1>d, HopAssumption DEF InitDist
<1>7. CASE k # 0
  <2>. DEFINE j == k - 1
  <2>1. j \in 0 .. num_nodes - 2 /\ j \in 0 .. num_nodes - 1 /\ k = j + 1 /\ j < k
    BY <1>4, <1>7, <1>n
  <2>2. \A n \in Node : d[n] <= HopDist[j][n]
    BY <1>4, <2>1
  <2>3. ASSUME NEW n \in Node, HopDist[j][n] # INF, NEW e \in Row(n)
        PROVE  d[edge_dst[e]] <= HopDist[j][n] + edge_wt[e]
    <3>1. HopDist[j][n] \in Int /\ HopDist[j][n] <= INF
      BY <2>1, HopType
    <3>2. d[n] <= HopDist[j][n] /\ d[n] # INF
      BY <2>2, <2>3, <3>1, <1>d, <1>n
    <3>3. d[edge_dst[e]] <= d[n] + edge_wt[e]
      BY <3>2 DEF Closed
    <3>4. e \in Edge /\ edge_dst[e] \in Node /\ edge_wt[e] \in Int
      <4>1. n \in 0 .. num_nodes /\ n + 1 \in 0 .. num_nodes
        BY <1>n DEF Node
      <4>2. row_start[n] \in 0 .. num_edges /\ row_start[n + 1] \in 0 .. num_edges
        BY <4>1, CSRAssumption
      <4>. QED
        BY <4>2, CSRAssumption DEF Row, Edge
    <3>. QED
      BY <3>1, <3>2, <3>3, <3>4, <1>d
  <2>4. d[v] <= HopDist[j + 1][v]
    <3>1. d \in [Node -> Int]
      BY <1>d
    <3>. HIDE DEF j
    <3>. QED
      BY <2>1, <2>2, <2>3, <3>1, HopReached
  <2>. QED
    BY <1>5, <2>1, <2>4
<1>. QED
  BY <1>6, <1>7

\* A closed table that is not below the distances is the distances.
LEMMA ClosedIsDist ==
  ASSUME NEW d \in [Node -> Weight], Closed(d), d[src] <= 0,
         \A n \in Node : Dist[n] <= d[n]
  PROVE  d = Dist
<1>1. \A n \in Node : d[n] <= Dist[n]
  BY ClosedIsBelow
<1>2. \A n \in Node : d[n] \in Int /\ Dist[n] \in Int
  BY DistType DEF Weight
<1>3. \A n \in Node : d[n] = Dist[n]
  BY <1>1, <1>2
<1>. QED
  BY <1>3, DistType

-----------------------------------------------------------------------------
(***************************************************************************)
(* The invariants.                                                         *)
(***************************************************************************)
Label == {"pop", "work", "check", "mark", "done"} \cup Trying
Comparing == {"loadPrev", "pred1", "pred2", "cas"}   \* after the first load
Working == Trying \cup {"work"}

TypeOK ==
  /\ node_wt \in [Node -> Weight]
  /\ q \in Seq(Node)
  /\ states \in [Thread -> {"INIT", "DO_WORK", "NO_WORK"}]
  /\ exited \in BOOLEAN
  /\ pc \in [Thread -> Label]
  /\ node \in [Thread -> Node]
  /\ edge \in [Thread -> Int]
  /\ distance \in [Thread -> Int]
  /\ prev_distance \in [Thread -> Weight]
  /\ pred_1 \in [Thread -> BOOLEAN]
  /\ i \in [Thread -> 0 .. threadNum]

\* A thread that is at an edge has an edge of its node.
EdgesOfNode == \A t \in Thread : pc[t] \in Trying => edge[t] \in Row(node[t])

\* Only nodes that are reached are queued and worked on.
Reached ==
  /\ \A k \in 1 .. Len(q) : node_wt[q[k]] # INF
  /\ \A t \in Thread :
       /\ pc[t] \in Working => node_wt[node[t]] # INF
       /\ pc[t] = "push" => node_wt[dest(t)] # INF

\* No distance is too low, and none is about to be stored; what a
\* compare_exchange stores is lower than what it replaces.
NotTooLow ==
  /\ \A v \in Node : Dist[v] <= node_wt[v]
  /\ \A t \in Thread : pc[t] \in Comparing => Dist[dest(t)] <= distance[t]
  /\ \A t \in Thread : pc[t] = "cas" => distance[t] < prev_distance[t]

\* The source keeps the distance 0.
SourceIsZero == node_wt[src] = 0

Bounds == TypeOK /\ EdgesOfNode /\ Reached /\ NotTooLow /\ SourceIsZero
IInv == Bounds /\ OpenEdgeCovered /\ QueueAttended

-----------------------------------------------------------------------------
(***************************************************************************)
(* Types and bounds.                                                       *)
(***************************************************************************)

\* The edge a thread is at leads from its node to a node.
LEMMA EdgeInHand ==
  ASSUME TypeOK, EdgesOfNode, NEW t \in Thread, pc[t] \in Trying
  PROVE  /\ node[t] \in Node /\ edge[t] \in Row(node[t]) /\ edge[t] \in Edge
         /\ dest(t) \in Node /\ edge_wt[edge[t]] \in Int
<1>1. node[t] \in Node /\ edge[t] \in Row(node[t])
  BY DEF TypeOK, EdgesOfNode
<1>2. edge[t] \in Edge
  BY <1>1, RowIsEdges
<1>. QED
  BY <1>1, <1>2, CSRAssumption DEF dest

\* On to the next edge, or to the queue.
LEMMA NextEdgeMoves ==
  ASSUME TypeOK, EdgesOfNode, NEW t \in Thread, NEW l \in Trying, NextEdge(t, l)
  PROVE  /\ edge' = [edge EXCEPT ![t] = edge[t] + 1]
         /\ pc[t] = l
         /\ edge' \in [Thread -> Int] /\ pc' \in [Thread -> Label]
         /\ \/ edge[t] + 1 \in Row(node[t]) /\ pc' = [pc EXCEPT ![t] = "relax"]
            \/ edge[t] + 1 \notin Row(node[t]) /\ pc' = [pc EXCEPT ![t] = "pop"]
<1>1. pc[t] \in Trying
  BY DEF NextEdge, At
<1>2. edge[t] \in Row(node[t]) /\ node[t] \in Node
  BY <1>1, EdgeInHand
<1>3. row_start[node[t]] \in Int /\ row_start[node[t] + 1] \in Int
  BY <1>2, RowIsEdges
<1>4. edge[t] + 1 < row_start[node[t] + 1] <=> edge[t] + 1 \in Row(node[t])
  BY <1>2, <1>3 DEF Row
<1>5. edge' = [edge EXCEPT ![t] = edge[t] + 1]
  BY DEF NextEdge
<1>6. pc[t] = l
  BY DEF NextEdge, At
<1>7. \/ edge[t] + 1 \in Row(node[t]) /\ pc' = [pc EXCEPT ![t] = "relax"]
      \/ edge[t] + 1 \notin Row(node[t]) /\ pc' = [pc EXCEPT ![t] = "pop"]
  BY <1>4 DEF NextEdge, At
<1>8. "relax" \in Label /\ "pop" \in Label
  BY DEF Label, Trying
<1>9. pc' \in [Thread -> Label]
  BY <1>7, <1>8 DEF TypeOK
<1>10. edge' \in [Thread -> Int]
  BY <1>2, <1>5 DEF TypeOK
<1>. QED
  BY <1>5, <1>6, <1>7, <1>9, <1>10

\* The three ways out of the comparison.
LEMMA Pred2Moves ==
  ASSUME NEW t \in Thread, Pred2(t)
  PROVE  /\ pc[t] = "pred2"
         /\ UNCHANGED <<node_wt, q, states, exited, node, distance, prev_distance, pred_1, i>>
         /\ \/ /\ ~(pred_1[t] /\ prev_distance[t] = node_wt[dest(t)])
               /\ pc' = [pc EXCEPT ![t] = "relax"] /\ UNCHANGED edge
            \/ /\ pred_1[t] /\ prev_distance[t] = node_wt[dest(t)]
               /\ prev_distance[t] > distance[t]
               /\ pc' = [pc EXCEPT ![t] = "cas"] /\ UNCHANGED edge
            \/ /\ pred_1[t] /\ prev_distance[t] = node_wt[dest(t)]
               /\ ~(prev_distance[t] > distance[t])
               /\ NextEdge(t, "pred2")
BY DEF Pred2, At

\* Every step keeps the types.
LEMMA TypeStep ==
  ASSUME TypeOK, EdgesOfNode, NotTooLow, NEW t \in Thread, ThreadStep(t)
  PROVE  TypeOK'
<1>. USE DEF TypeOK
<1>l. Label = {"pop", "work", "check", "mark", "done", "relax", "loadPrev", "pred1", "pred2", "cas", "push"}
  BY DEF Label, Trying
<1>1. CASE Pop(t)
  <2>1. 0 \in 0 .. threadNum
    BY WorklistAssumption
  <2>2. CASE q = <<>>
    BY <1>1, <1>l, <2>1, <2>2 DEF Pop, At
  <2>3. CASE q # <<>>
    <3>1. Head(q) \in Node /\ Tail(q) \in Seq(Node)
      BY <2>3
    <3>. QED
      BY <1>1, <1>l, <2>3, <3>1 DEF Pop, At
  <2>. QED
    BY <2>2, <2>3
<1>2. CASE Work(t)
  <2>1. row_start[node[t]] \in Int
    BY RowIsEdges
  <2>2. (IF Row(node[t]) = {} THEN "pop" ELSE "relax") \in Label
    BY <1>l
  <2>. QED
    BY <1>2, <2>1, <2>2 DEF Work, At
<1>3. CASE LoadDistance(t)
  <2>1. Through(t) \in Int
    BY <1>3, EdgeInHand DEF LoadDistance, At, Trying, Through, Weight
  <2>. QED
    BY <1>3, <1>l, <2>1 DEF LoadDistance, At
<1>4. CASE LoadPrev(t)
  <2>1. node_wt[dest(t)] \in Weight
    BY <1>4, EdgeInHand DEF LoadPrev, At, Trying
  <2>. QED
    BY <1>4, <1>l, <2>1 DEF LoadPrev, At
<1>5. CASE Pred1(t)
  BY <1>5, <1>l DEF Pred1, At
<1>6. CASE Pred2(t)
  <2>1. CASE NextEdge(t, "pred2")
    <3>1. edge' \in [Thread -> Int] /\ pc' \in [Thread -> Label]
      BY <2>1, NextEdgeMoves DEF Trying
    <3>. QED
      BY <1>6, <3>1, Pred2Moves
  <2>2. CASE /\ pc' = [pc EXCEPT ![t] = "relax"] \/ pc' = [pc EXCEPT ![t] = "cas"]
             /\ UNCHANGED edge
    BY <1>6, <1>l, <2>2, Pred2Moves
  <2>. QED
    BY <1>6, <2>1, <2>2, Pred2Moves
<1>7. CASE Lower(t)
  <2>1. distance[t] \in Weight
    BY <1>7, CSRAssumption DEF Lower, At, NotTooLow, Weight
  <2>. QED
    BY <1>7, <1>l, <2>1 DEF Lower, At, locals
<1>8. CASE FailToLower(t)
  BY <1>8, <1>l DEF FailToLower, At, locals
<1>9. CASE Push(t)
  <2>1. dest(t) \in Node
    BY <1>9, EdgeInHand DEF Push, Trying
  <2>2. CASE NextEdge(t, "push") /\ q' = Append(q, dest(t)) /\ UNCHANGED exited
    <3>1. q' \in Seq(Node)
      BY <2>1, <2>2
    <3>2. edge' \in [Thread -> Int] /\ pc' \in [Thread -> Label]
      BY <2>2, NextEdgeMoves DEF Trying
    <3>. QED
      BY <1>9, <2>2, <3>1, <3>2 DEF Push
  <2>. QED
    BY <1>9, <2>2 DEF Push
<1>10. CASE CheckState(t)
  <2>1. i[t] < threadNum => i[t] + 1 \in 0 .. threadNum
    BY WorklistAssumption
  <2>2. i' \in [Thread -> 0 .. threadNum]
    BY <1>10, <2>1 DEF CheckState
  <2>3. pc' \in [Thread -> Label]
    BY <1>10, <1>l DEF CheckState, At
  <2>. QED
    BY <1>10, <2>2, <2>3 DEF CheckState
<1>11. CASE MarkIdle(t)
  BY <1>11, <1>l DEF MarkIdle, At, locals
<1>. QED
  BY <1>1, <1>2, <1>3, <1>4, <1>5, <1>6, <1>7, <1>8, <1>9, <1>10, <1>11 DEF ThreadStep

\* Every step keeps the edges of the threads in the rows of their nodes.
LEMMA EdgesStep ==
  ASSUME TypeOK, EdgesOfNode, NEW t \in Thread, ThreadStep(t)
  PROVE  EdgesOfNode'
<1>. USE DEF TypeOK, EdgesOfNode, Trying
<1>1. CASE Work(t)
  <2>1. row_start[node[t]] \in Int /\ row_start[node[t] + 1] \in Int
    BY RowIsEdges
  <2>2. Row(node[t]) # {} => row_start[node[t]] \in Row(node[t])
    BY <2>1 DEF Row
  <2>. QED
    BY <1>1, <2>2 DEF Work, At
<1>2. CASE \E l \in {"pred2", "push"} : NextEdge(t, l) /\ UNCHANGED node
  BY <1>2, NextEdgeMoves
<1>3. CASE /\ UNCHANGED edge
           /\ \A u \in Thread : pc'[u] \in Trying => pc[u] \in Trying /\ node'[u] = node[u]
  BY <1>3
<1>. QED
  BY <1>1, <1>2, <1>3 DEF ThreadStep, Pop, LoadDistance, LoadPrev, Pred1, Pred2, Lower,
     FailToLower, Push, CheckState, MarkIdle, At, locals

\* A step changes the locals of its own thread only.
LEMMA OthersKept ==
  ASSUME TypeOK, NEW t \in Thread, ThreadStep(t), NEW u \in Thread, u # t
  PROVE  /\ pc'[u] = pc[u] /\ node'[u] = node[u] /\ edge'[u] = edge[u]
         /\ distance'[u] = distance[u] /\ prev_distance'[u] = prev_distance[u]
         /\ pred_1'[u] = pred_1[u]
BY DEF ThreadStep, Pop, Work, LoadDistance, LoadPrev, Pred1, Pred2, NextEdge, Lower,
   FailToLower, Push, CheckState, MarkIdle, At, locals, TypeOK

\* Only a compare_exchange that succeeds changes a distance, and it lowers it.
LEMMA WtStep ==
  ASSUME TypeOK, EdgesOfNode, NotTooLow, NEW t \in Thread, ThreadStep(t)
  PROVE  \/ node_wt' = node_wt
         \/ /\ Lower(t) /\ dest(t) \in Node
            /\ node_wt' = [node_wt EXCEPT ![dest(t)] = distance[t]]
            /\ Dist[dest(t)] <= distance[t] /\ distance[t] < node_wt[dest(t)]
<1>1. CASE Lower(t)
  <2>1. pc[t] = "cas" /\ prev_distance[t] = node_wt[dest(t)]
    BY <1>1 DEF Lower, At
  <2>2. dest(t) \in Node
    BY <2>1, EdgeInHand DEF Trying
  <2>. QED
    BY <1>1, <2>1, <2>2 DEF Lower, NotTooLow, Comparing
<1>2. CASE ~Lower(t)
  BY <1>2 DEF ThreadStep, Pop, Work, LoadDistance, LoadPrev, Pred1, Pred2,
     FailToLower, Push, CheckState, MarkIdle, locals
<1>. QED
  BY <1>1, <1>2

\* No distance goes up, and a node that is reached stays reached.
LEMMA WtFalls ==
  ASSUME TypeOK, EdgesOfNode, NotTooLow, NEW t \in Thread, ThreadStep(t), NEW v \in Node
  PROVE  /\ node_wt[v] \in Int /\ node_wt'[v] \in Int /\ node_wt'[v] <= node_wt[v]
         /\ node_wt[v] # INF => node_wt'[v] # INF
<1>1. node_wt[v] \in Int /\ node_wt[v] <= INF /\ INF \in Int /\ distance[t] \in Int
  BY CSRAssumption DEF TypeOK, Weight
<1>2. CASE node_wt' = node_wt
  BY <1>1, <1>2
<1>3. CASE /\ node_wt' = [node_wt EXCEPT ![dest(t)] = distance[t]]
           /\ distance[t] < node_wt[dest(t)]
  <2>1. node_wt'[v] = IF v = dest(t) THEN distance[t] ELSE node_wt[v]
    BY <1>3 DEF TypeOK
  <2>. QED
    BY <1>1, <1>3, <2>1
<1>. QED
  BY <1>2, <1>3, WtStep

\* A queued node, a node worked on and a node about to be queued are reached.
LEMMA ReachedStep ==
  ASSUME TypeOK, EdgesOfNode, Reached, NotTooLow, NEW t \in Thread, ThreadStep(t)
  PROVE  Reached'
<1>1. ASSUME NEW k \in 1 .. Len(q')
      PROVE  node_wt'[q'[k]] # INF
  <2>1. q'[k] \in Node /\ node_wt[q'[k]] # INF
    <3>1. CASE Pop(t)
      <4>1. CASE q = <<>>
        BY <3>1, <4>1, <1>1 DEF Pop
      <4>2. CASE q # <<>>
        <5>1. q' = Tail(q) /\ Len(q) \in Nat
          BY <3>1, <4>2 DEF Pop, TypeOK
        <5>2. q'[k] = q[k + 1] /\ k + 1 \in 1 .. Len(q)
          BY <1>1, <4>2, <5>1 DEF TypeOK
        <5>. QED
          BY <5>2 DEF TypeOK, Reached
      <4>. QED
        BY <4>1, <4>2
    <3>2. CASE Push(t)
      <4>1. dest(t) \in Node /\ node_wt[dest(t)] # INF
        BY <3>2, EdgeInHand DEF Push, Trying, Reached
      <4>2. q' = q \/ q' = Append(q, dest(t))
        BY <3>2 DEF Push
      <4>3. CASE q' = Append(q, dest(t)) /\ k = Len(q) + 1
        BY <4>1, <4>3 DEF TypeOK
      <4>4. CASE q' = Append(q, dest(t)) /\ k # Len(q) + 1
        <5>1. k \in 1 .. Len(q) /\ q'[k] = q[k]
          BY <1>1, <4>1, <4>4 DEF TypeOK
        <5>. QED
          BY <5>1 DEF TypeOK, Reached
      <4>5. CASE q' = q
        BY <1>1, <4>5 DEF TypeOK, Reached
      <4>. QED
        BY <4>2, <4>3, <4>4, <4>5
    <3>3. CASE q' = q
      BY <1>1, <3>3 DEF TypeOK, Reached
    <3>. QED
      BY <3>1, <3>2, <3>3 DEF ThreadStep, Work, LoadDistance, LoadPrev, Pred1, Pred2, Lower,
         FailToLower, CheckState, MarkIdle
  <2>. QED
    BY <2>1, WtFalls
<1>2. ASSUME NEW u \in Thread, pc'[u] \in Working
      PROVE  node_wt'[node'[u]] # INF
  <2>1. node'[u] \in Node /\ node_wt[node'[u]] # INF
    <3>1. CASE u # t
      BY <1>2, <3>1, OthersKept DEF TypeOK, Reached
    <3>2. CASE u = t /\ Pop(t)
      <4>1. q # <<>> /\ node'[t] = Head(q)
        BY <1>2, <3>2 DEF Pop, At, Working, Trying, TypeOK
      <4>2. Head(q) = q[1] /\ 1 \in 1 .. Len(q) /\ q[1] \in Node
        BY <4>1 DEF TypeOK
      <4>. QED
        BY <3>2, <4>1, <4>2 DEF Reached
    <3>3. CASE u = t /\ ~Pop(t)
      <4>1. node' = node /\ pc[t] \in Working
        BY <1>2, <3>3 DEF ThreadStep, Work, LoadDistance, LoadPrev, Pred1, Pred2, NextEdge, Lower,
           FailToLower, Push, CheckState, MarkIdle, At, locals, Working, Trying, TypeOK
      <4>. QED
        BY <3>3, <4>1 DEF Reached, TypeOK
    <3>. QED
      BY <3>1, <3>2, <3>3
  <2>. QED
    BY <2>1, WtFalls
<1>3. ASSUME NEW u \in Thread, pc'[u] = "push"
      PROVE  node_wt'[edge_dst[edge'[u]]] # INF
  <2>1. CASE u = t /\ Lower(t)
    <3>1. node_wt'[dest(t)] = distance[t] /\ distance[t] < prev_distance[t] /\ edge' = edge
      BY <2>1, EdgeInHand DEF Lower, At, Trying, TypeOK, NotTooLow, locals
    <3>2. distance[t] \in Int /\ prev_distance[t] \in Int /\ prev_distance[t] <= INF /\ INF \in Int
      BY CSRAssumption DEF TypeOK, Weight
    <3>. QED
      BY <2>1, <3>1, <3>2 DEF dest
  <2>2. CASE u = t /\ ~Lower(t)
    <3>1. pc[t] = "push" /\ edge' = edge
      BY <1>3, <2>2 DEF ThreadStep, Pop, Work, LoadDistance, LoadPrev, Pred1, Pred2, NextEdge,
         FailToLower, Push, CheckState, MarkIdle, At, locals, TypeOK
    <3>. QED
      BY <2>2, <3>1, EdgeInHand, WtFalls DEF Reached, Trying, dest
  <2>3. CASE u # t
    <3>1. pc[u] = "push" /\ edge'[u] = edge[u]
      BY <1>3, <2>3, OthersKept
    <3>. QED
      BY <3>1, EdgeInHand, WtFalls DEF Reached, Trying, dest
  <2>. QED
    BY <2>1, <2>2, <2>3
<1>. QED
  BY <1>1, <1>2, <1>3 DEF Reached, dest

\* No step takes a distance below the true one, nor is about to.
LEMMA NotTooLowStep ==
  ASSUME TypeOK, EdgesOfNode, Reached, NotTooLow, NEW t \in Thread, ThreadStep(t)
  PROVE  NotTooLow'
<1>d. \A v \in Node : Dist[v] \in Int /\ Dist[v] <= INF /\ node_wt[v] \in Int /\ node_wt[v] <= INF
  BY DistType DEF Weight, TypeOK
<1>i. INF \in Int
  BY CSRAssumption
<1>1. ASSUME NEW v \in Node
      PROVE  Dist[v] <= node_wt'[v]
  BY WtStep DEF NotTooLow, TypeOK
<1>2. ASSUME NEW u \in Thread, pc'[u] \in Comparing
      PROVE  Dist[edge_dst[edge'[u]]] <= distance'[u]
  <2>1. CASE u # t
    BY <1>2, <2>1, OthersKept DEF NotTooLow, dest
  <2>2. CASE u = t /\ LoadDistance(t)
    <3>1. /\ node[t] \in Node /\ edge[t] \in Row(node[t]) /\ dest(t) \in Node
          /\ edge_wt[edge[t]] \in Int /\ node_wt[node[t]] # INF
      BY <2>2, EdgeInHand DEF LoadDistance, At, Trying, Working, Reached
    <3>2. distance'[t] = node_wt[node[t]] + edge_wt[edge[t]] /\ edge' = edge
      BY <2>2 DEF LoadDistance, Through, TypeOK
    <3>3. Dist[node[t]] <= node_wt[node[t]]
      BY <3>1 DEF NotTooLow
    <3>4. Dist[node[t]] # INF
      BY <1>d, <1>i, <3>1, <3>3
    <3>5. Dist[dest(t)] <= Dist[node[t]] + edge_wt[edge[t]]
      BY <3>1, <3>4, NoNegativeCycle DEF Closed, dest
    <3>. QED
      BY <1>d, <2>2, <3>1, <3>2, <3>3, <3>5 DEF dest
  <2>3. CASE u = t /\ ~LoadDistance(t)
    <3>1. pc[t] \in Comparing /\ edge' = edge /\ distance' = distance
      BY <1>2, <2>3 DEF ThreadStep, Pop, Work, LoadPrev, Pred1, Pred2, NextEdge, Lower,
         FailToLower, Push, CheckState, MarkIdle, At, locals, Comparing, TypeOK
    <3>. QED
      BY <2>3, <3>1 DEF NotTooLow, dest
  <2>. QED
    BY <2>1, <2>2, <2>3
<1>3. ASSUME NEW u \in Thread, pc'[u] = "cas"
      PROVE  distance'[u] < prev_distance'[u]
  <2>1. CASE u # t
    BY <1>3, <2>1, OthersKept DEF NotTooLow
  <2>2. CASE u = t
    <3>1. pc[t] = "pred2" /\ Pred2(t)
      BY <1>3, <2>2 DEF ThreadStep, Pop, Work, LoadDistance, LoadPrev, Pred1, Pred2, NextEdge, Lower,
         FailToLower, Push, CheckState, MarkIdle, At, locals, TypeOK
    <3>2. NextEdge(t, "pred2") => pc'[t] # "cas"
      BY DEF NextEdge, At, TypeOK
    <3>3. distance[t] \in Int /\ prev_distance[t] \in Int
      BY DEF TypeOK, Weight
    <3>. QED
      BY <1>3, <2>2, <3>1, <3>2, <3>3, Pred2Moves DEF TypeOK
  <2>. QED
    BY <2>1, <2>2
<1>. QED
  BY <1>1, <1>2, <1>3 DEF NotTooLow, dest

\* The distance of the source cannot be lowered.
LEMMA SourceStep ==
  ASSUME TypeOK, EdgesOfNode, NotTooLow, SourceIsZero, NEW t \in Thread, ThreadStep(t)
  PROVE  SourceIsZero'
<1>1. src \in Node /\ Dist[src] = 0
  BY CSRAssumption, NoNegativeCycle DEF Node, src
<1>2. distance[t] \in Int
  BY DEF TypeOK
<1>3. CASE node_wt' = node_wt
  BY <1>3 DEF SourceIsZero
<1>4. CASE /\ node_wt' = [node_wt EXCEPT ![dest(t)] = distance[t]]
           /\ Dist[dest(t)] <= distance[t] /\ distance[t] < node_wt[dest(t)]
  <2>1. dest(t) # src
    BY <1>1, <1>2, <1>4 DEF SourceIsZero
  <2>. QED
    BY <1>1, <1>4, <2>1 DEF SourceIsZero, TypeOK
<1>. QED
  BY <1>3, <1>4, WtStep

LEMMA BoundsInit == Init => Bounds
<1>. SUFFICES ASSUME Init PROVE Bounds
  OBVIOUS
<1>1. TypeOK
  <2>1. src \in Node /\ 0 \in Weight /\ 0 \in 0 .. threadNum
    BY CSRAssumption, WorklistAssumption DEF Node, src, Weight
  <2>2. "pop" \in Label /\ 0 \in Node
    BY <2>1 DEF Label, src
  <2>3. [v \in Node |-> InitDist(v)] \in [Node -> Weight]
    BY InitDistIsWeight
  <2>4. q \in Seq(Node)
    BY <2>1 DEF Init
  <2>5. pc \in [Thread -> Label] /\ node \in [Thread -> Node]
    BY <2>2 DEF Init
  <2>6. prev_distance \in [Thread -> Weight] /\ i \in [Thread -> 0 .. threadNum]
    BY <2>1 DEF Init
  <2>7. states \in [Thread -> {"INIT", "DO_WORK", "NO_WORK"}]
    BY DEF Init
  <2>8. edge \in [Thread -> Int] /\ distance \in [Thread -> Int]
    BY DEF Init
  <2>10. pred_1 \in [Thread -> BOOLEAN]
    BY Zenon DEF Init
  <2>11. exited \in BOOLEAN
    BY Zenon DEF Init
  <2>9. node_wt \in [Node -> Weight]
    BY <2>3 DEF Init
  <2>. QED
    BY <2>4, <2>5, <2>6, <2>7, <2>8, <2>9, <2>10, <2>11 DEF TypeOK
<1>2. \A t \in Thread : pc[t] = "pop"
  BY DEF Init
<1>3. EdgesOfNode
  BY <1>2 DEF EdgesOfNode, Trying
<1>4. src \in Node /\ node_wt[src] = 0 /\ INF # 0
  BY CSRAssumption DEF Init, Node, src, InitDist
<1>5. Reached
  <2>1. \A k \in 1 .. Len(q) : q[k] = src
    BY DEF Init
  <2>. QED
    BY <1>2, <1>4, <2>1 DEF Reached, Working, Trying
<1>6. NotTooLow
  <2>1. \A v \in Node : Dist[v] <= InitDist(v)
    BY NoNegativeCycle, DistType DEF InitDist, Weight
  <2>. QED
    BY <1>2, <2>1 DEF Init, NotTooLow, Comparing
<1>. QED
  BY <1>1, <1>3, <1>4, <1>5, <1>6 DEF Bounds, SourceIsZero

LEMMA BoundsStep == Bounds /\ [Next]_vars => Bounds'
<1>. SUFFICES ASSUME Bounds, [Next]_vars PROVE Bounds'
  OBVIOUS
<1>1. CASE UNCHANGED vars
  BY <1>1 DEF Bounds, vars, locals, TypeOK, EdgesOfNode, Reached, NotTooLow, SourceIsZero, dest
<1>2. ASSUME NEW t \in Thread, ThreadStep(t)
      PROVE  Bounds'
  BY <1>2, TypeStep, EdgesStep, ReachedStep, NotTooLowStep, SourceStep DEF Bounds
<1>. QED
  BY <1>1, <1>2 DEF Next, Terminating

\* The types and bounds hold in every reachable state.
THEOREM BoundsCorrect == Spec => []Bounds
BY BoundsInit, BoundsStep, PTL DEF Spec

\* A distance never goes up.
THEOREM OnlyDecreases == Spec => [][\A v \in Node : node_wt'[v] <= node_wt[v]]_vars
<1>1. ASSUME Bounds, [Next]_vars
      PROVE  [\A v \in Node : node_wt'[v] <= node_wt[v]]_vars
  <2>1. ASSUME NEW t \in Thread, ThreadStep(t)
        PROVE  \A v \in Node : node_wt'[v] <= node_wt[v]
    BY <1>1, <2>1, WtFalls DEF Bounds
  <2>. QED
    BY <1>1, <2>1 DEF Next, Terminating
<1>. QED
  BY <1>1, BoundsCorrect, PTL DEF Spec

-----------------------------------------------------------------------------
(***************************************************************************)
(* No work is lost.                                                        *)
(***************************************************************************)

\* The ways in which an open edge e of node v is covered.
Queued(v) == \E k \in 1 .. Len(q) : q[k] = v
Covered(v, e) == Queued(v) \/ \E t \in Thread : WillPush(t, v) \/ WillRelax(t, v, e)

\* A node stays queued until a thread takes it to work on it.
LEMMA QueuedKept ==
  ASSUME TypeOK, NEW t \in Thread, ThreadStep(t), NEW v \in Node, Queued(v)
  PROVE  Queued(v)' \/ (pc'[t] = "work" /\ node'[t] = v)
<1>1. PICK k \in 1 .. Len(q) : q[k] = v
  BY DEF Queued
<1>2. CASE Pop(t) /\ q # <<>>
  <2>1. /\ pc' = [pc EXCEPT ![t] = "work"] /\ q' = Tail(q)
        /\ node' = [node EXCEPT ![t] = Head(q)] /\ Head(q) = q[1]
    BY <1>2 DEF Pop, At, TypeOK
  <2>2. CASE k = 1
    BY <1>1, <2>1, <2>2 DEF TypeOK
  <2>3. CASE k # 1
    <3>1. k - 1 \in 1 .. Len(q') /\ q'[k - 1] = q[k]
      BY <1>1, <1>2, <2>1, <2>3 DEF TypeOK
    <3>. QED
      BY <1>1, <3>1 DEF Queued
  <2>. QED
    BY <2>2, <2>3
<1>3. CASE q' = Append(q, dest(t))
  <2>1. k \in 1 .. Len(q') /\ q'[k] = q[k]
    BY <1>1, <1>3 DEF TypeOK
  <2>. QED
    BY <1>1, <2>1 DEF Queued
<1>4. CASE q' = q
  BY <1>4 DEF Queued
<1>. QED
  BY <1>1, <1>2, <1>3, <1>4 DEF ThreadStep, Pop, Work, LoadDistance, LoadPrev, Pred1, Pred2, Lower,
     FailToLower, Push, CheckState, MarkIdle, TypeOK

\* A thread that is to push a node pushes it.
LEMMA PushKept ==
  ASSUME TypeOK, EdgesOfNode, NEW t \in Thread, ThreadStep(t),
         NEW u \in Thread, NEW v \in Node, WillPush(u, v)
  PROVE  Queued(v)' \/ WillPush(u, v)'
<1>1. CASE u # t
  BY <1>1, OthersKept DEF WillPush, dest
<1>2. CASE u = t
  <2>1. Push(t)
    BY <1>2 DEF WillPush, ThreadStep, Pop, Work, LoadDistance, LoadPrev, Pred1, Pred2, Lower,
       FailToLower, CheckState, MarkIdle, At
  <2>2. CASE q' = Append(q, dest(t))
    <3>1. Len(q) + 1 \in 1 .. Len(q') /\ q'[Len(q) + 1] = v
      BY <1>2, <2>2 DEF WillPush, TypeOK
    <3>. QED
      BY <3>1 DEF Queued
  <2>3. CASE UNCHANGED <<pc, edge>>
    BY <1>2, <2>3 DEF WillPush, dest
  <2>. QED
    BY <2>1, <2>2, <2>3 DEF Push
<1>. QED
  BY <1>1, <1>2

\* A thread that will relax an edge does so, or finds that it is not open: if
\* the distance of v stays, the edge is closed when the thread leaves it.
LEMMA RelaxKept ==
  ASSUME Bounds, NEW t \in Thread, ThreadStep(t), NEW u \in Thread,
         NEW v \in Node, NEW e \in Row(v), WillRelax(u, v, e), node_wt'[v] = node_wt[v]
  PROVE  \/ WillRelax(u, v, e)'
         \/ node_wt'[edge_dst[e]] <= node_wt'[v] + edge_wt[e]
<1>. USE DEF Bounds, TypeOK
<1>e. e \in Int /\ row_start[v] \in Int /\ row_start[v] <= e /\ e < row_start[v + 1] /\ row_start[v + 1] \in Int
  BY RowIsEdges DEF Row
<1>1. CASE u # t
  <2>1. Through(u)' = Through(u) \/ node[u] # v
    BY <1>1, OthersKept DEF Through
  <2>. QED
    BY <1>1, <2>1, OthersKept DEF WillRelax
<1>2. CASE u = t /\ Work(t)
  <2>1. pc[t] = "work" /\ node[t] = v /\ node' = node
    BY <1>2 DEF Work, At, WillRelax, Trying
  <2>2. pc'[t] = "relax" /\ edge'[t] = row_start[v]
    BY <1>2, <1>e, <2>1 DEF Work, At, Row
  <2>. QED
    BY <1>2, <1>e, <2>1, <2>2 DEF WillRelax, Trying
<1>3. CASE u = t /\ (LoadDistance(t) \/ LoadPrev(t) \/ FailToLower(t))
  <2>1. /\ node' = node /\ edge' = edge /\ pc[t] \in {"relax", "loadPrev", "cas"}
        /\ pc'[t] \in {"loadPrev", "pred1", "relax"}
    BY <1>3 DEF LoadDistance, LoadPrev, FailToLower, At, locals
  <2>. QED
    BY <1>3, <2>1 DEF WillRelax, Trying
<1>4. CASE u = t /\ Pred1(t)
  <2>1. /\ node' = node /\ edge' = edge /\ distance' = distance /\ node_wt' = node_wt
        /\ pc[t] = "pred1" /\ pc'[t] = "pred2"
        /\ pred_1'[t] = (distance[t] = Through(t))
    BY <1>4 DEF Pred1, At
  <2>2. Through(t)' = Through(t)
    BY <2>1 DEF Through
  <2>. QED
    BY <1>4, <2>1, <2>2 DEF WillRelax, Trying
<1>m. ASSUME NEW l \in {"pred2", "push"}, NextEdge(t, l), u = t, edge[t] < e, node[t] = v, node' = node
      PROVE  WillRelax(u, v, e)'
  <2>1. edge[t] \in Row(v) /\ edge[t] \in Int
    BY <1>m, EdgeInHand DEF NextEdge, At, Trying
  <2>2. edge[t] + 1 \in Row(v) /\ edge[t] + 1 <= e
    BY <1>e, <1>m, <2>1 DEF Row
  <2>3. pc'[t] = "relax" /\ edge'[t] = edge[t] + 1
    BY <1>m, <2>2, NextEdgeMoves DEF Trying
  <2>. QED
    BY <1>e, <1>m, <2>1, <2>2, <2>3 DEF WillRelax, Trying
<1>5. CASE u = t /\ Pred2(t)
  <2>0. pc[t] = "pred2" /\ node[t] = v /\ node' = node /\ node_wt' = node_wt /\ distance' = distance
    BY <1>5, Pred2Moves DEF WillRelax
  <2>1. Through(t)' = Through(t) \/ edge' # edge
    BY <2>0 DEF Through
  <2>2. CASE pc' = [pc EXCEPT ![t] = "relax"] /\ UNCHANGED edge
    BY <1>5, <2>0, <2>2 DEF WillRelax, Trying
  <2>3. CASE pred_1[t] /\ pc' = [pc EXCEPT ![t] = "cas"] /\ UNCHANGED edge
    BY <1>5, <2>0, <2>1, <2>3 DEF WillRelax, Trying
  <2>4. CASE /\ pred_1[t] /\ prev_distance[t] = node_wt[dest(t)]
             /\ ~(prev_distance[t] > distance[t])
             /\ NextEdge(t, "pred2")
    <3>1. CASE edge[t] < e
      BY <1>5, <1>m, <2>0, <2>4, <3>1
    <3>2. CASE ~(edge[t] < e)
      <4>1. edge[t] = e /\ distance[t] = node_wt[v] + edge_wt[e]
        BY <1>5, <2>0, <2>4, <3>2 DEF WillRelax, Through
      <4>2. prev_distance[t] \in Int /\ distance[t] \in Int
        BY DEF Weight
      <4>. QED
        BY <2>0, <2>4, <4>1, <4>2 DEF dest
    <3>. QED
      BY <3>1, <3>2
  <2>. QED
    BY <1>5, <2>2, <2>3, <2>4, Pred2Moves
<1>6. CASE u = t /\ Lower(t)
  <2>0. pc[t] = "cas" /\ pc'[t] = "push" /\ node[t] = v /\ node' = node /\ edge' = edge /\ edge[t] \in Int
    BY <1>6 DEF WillRelax, Lower, At, locals
  <2>1. CASE edge[t] < e
    BY <1>6, <2>0, <2>1 DEF WillRelax, Trying
  <2>2. CASE ~(edge[t] < e)
    <3>1. edge[t] = e /\ distance[t] = node_wt[v] + edge_wt[e]
      BY <1>6, <2>0, <2>2 DEF WillRelax, Through
    <3>2. node_wt'[dest(t)] = distance[t]
      BY <1>6, <2>0, EdgeInHand DEF Lower, Trying
    <3>. QED
      BY <3>1, <3>2 DEF dest
  <2>. QED
    BY <2>1, <2>2
<1>7. CASE u = t /\ Push(t)
  <2>1. pc[t] = "push" /\ node[t] = v /\ edge[t] < e /\ node' = node
    BY <1>7 DEF Push, WillRelax
  <2>2. CASE NextEdge(t, "push")
    BY <1>7, <1>m, <2>1, <2>2
  <2>3. CASE UNCHANGED <<pc, edge>>
    BY <1>7, <2>1, <2>3 DEF WillRelax, Trying
  <2>. QED
    BY <1>7, <2>2, <2>3 DEF Push
<1>8. CASE u = t /\ (Pop(t) \/ CheckState(t) \/ MarkIdle(t))
  BY <1>8 DEF Pop, CheckState, MarkIdle, At, WillRelax, Trying
<1>. QED
  BY <1>1, <1>2, <1>3, <1>4, <1>5, <1>6, <1>7, <1>8 DEF ThreadStep

\* An edge that can lower a distance stays covered, and whoever lowers the
\* distance of its node is to push the node.
LEMMA CoveredStep ==
  ASSUME Bounds, OpenEdgeCovered, NEW t \in Thread, ThreadStep(t)
  PROVE  OpenEdgeCovered'
<1>. SUFFICES ASSUME NEW v \in Node, node_wt'[v] # INF, NEW e \in Row(v),
                     node_wt'[edge_dst[e]] > node_wt'[v] + edge_wt[e]
              PROVE  Covered(v, e)'
  BY DEF OpenEdgeCovered, Covered, Queued
<1>e. edge_dst[e] \in Node /\ edge_wt[e] \in Int /\ e \in Edge
  BY RowIsEdges, CSRAssumption
<1>w. \A n \in Node : node_wt[n] \in Int /\ node_wt'[n] \in Int /\ node_wt'[n] <= node_wt[n]
  BY WtFalls DEF Bounds
<1>1. CASE Lower(t) /\ dest(t) = v
  <2>1. pc'[t] = "push" /\ edge' = edge
    BY <1>1 DEF Lower, At, locals, Bounds, TypeOK
  <2>. QED
    BY <1>1, <2>1 DEF Covered, WillPush, dest
<1>2. CASE ~(Lower(t) /\ dest(t) = v)
  <2>1. node_wt'[v] = node_wt[v]
    BY <1>2, WtStep DEF Bounds, TypeOK
  <2>2. node_wt[edge_dst[e]] > node_wt[v] + edge_wt[e]
    BY <1>e, <1>w, <2>1
  <2>3. Covered(v, e)
    BY <2>1, <2>2 DEF OpenEdgeCovered, Covered, Queued
  <2>4. CASE Queued(v)
    <3>1. CASE Queued(v)'
      BY <3>1 DEF Covered
    <3>2. CASE pc'[t] = "work" /\ node'[t] = v
      BY <3>2 DEF Covered, WillRelax
    <3>. QED
      BY <2>4, <3>1, <3>2, QueuedKept DEF Bounds
  <2>5. ASSUME NEW u \in Thread, WillPush(u, v)
        PROVE  Covered(v, e)'
    BY <2>5, PushKept DEF Bounds, Covered
  <2>6. ASSUME NEW u \in Thread, WillRelax(u, v, e)
        PROVE  Covered(v, e)'
    <3>1. node_wt'[edge_dst[e]] \in Int /\ node_wt'[v] + edge_wt[e] \in Int
      BY <1>e, <1>w
    <3>2. ~(node_wt'[edge_dst[e]] <= node_wt'[v] + edge_wt[e])
      BY <3>1
    <3>. QED
      BY <2>1, <2>6, <3>2, RelaxKept DEF Covered
  <2>. QED
    BY <2>3, <2>4, <2>5, <2>6 DEF Covered
<1>. QED
  BY <1>1, <1>2

\* The thread that has put a node into the queue, or the one that attends it,
\* does not leave before the queue is empty.
LEMMA AttendedStep ==
  ASSUME Bounds, QueueAttended, NEW t \in Thread, ThreadStep(t)
  PROVE  QueueAttended'
<1>. DEFINE Leaving == {"check", "mark", "done"}
<1>1. CASE pc'[t] \notin Leaving
  BY <1>1 DEF QueueAttended
<1>2. CASE pc'[t] \in Leaving
  <2>1. CASE Pop(t)
    <3>1. q = <<>> /\ q' = q
      BY <1>2, <2>1 DEF Pop, At, Bounds, TypeOK
    <3>. QED
      BY <3>1 DEF QueueAttended
  <2>2. CASE ~Pop(t)
    <3>1. pc[t] \in Leaving /\ q' = q
      BY <1>2, <2>2 DEF ThreadStep, Work, LoadDistance, LoadPrev, Pred1, Pred2, NextEdge, Lower,
         FailToLower, Push, CheckState, MarkIdle, At, Bounds, TypeOK
    <3>2. ASSUME NEW u \in Thread, pc[u] \notin Leaving
          PROVE  pc'[u] \notin Leaving
      BY <3>1, <3>2, OthersKept DEF Bounds
    <3>. QED
      BY <3>1, <3>2 DEF QueueAttended
  <2>. QED
    BY <2>1, <2>2
<1>. QED
  BY <1>1, <1>2

-----------------------------------------------------------------------------
(***************************************************************************)
(* The inductive invariant, and what follows from it.                      *)
(***************************************************************************)
LEMMA InvInit == Init => IInv
<1>. SUFFICES ASSUME Init PROVE IInv
  OBVIOUS
<1>1. 0 \in Thread
  BY WorklistAssumption DEF Thread
<1>2. QueueAttended
  BY <1>1 DEF Init, QueueAttended
<1>3. OpenEdgeCovered
  <2>1. Capacity > 0 => Len(q) = 1 /\ q[1] = src
    BY DEF Init
  <2>2. \A v \in Node : node_wt[v] # INF => v = src
    BY DEF Init, InitDist
  <2>3. ~(Capacity > 0) => \A v \in Node : Row(v) = {}
    <3>1. ~(Capacity > 0) => num_edges = 0
      BY WorklistAssumption
    <3>. QED
      BY <3>1, RowIsEdges DEF Edge
  <2>. QED
    BY <2>1, <2>2, <2>3 DEF OpenEdgeCovered
<1>. QED
  BY <1>2, <1>3, BoundsInit DEF IInv

LEMMA InvStep == IInv /\ [Next]_vars => IInv'
<1>. SUFFICES ASSUME IInv, [Next]_vars PROVE IInv'
  OBVIOUS
<1>1. CASE UNCHANGED vars
  <2>1. Bounds'
    BY <1>1, BoundsStep DEF IInv
  <2>2. OpenEdgeCovered' /\ QueueAttended'
    BY <1>1 DEF IInv, OpenEdgeCovered, QueueAttended, WillPush, WillRelax, Through, dest, vars, locals
  <2>. QED
    BY <2>1, <2>2 DEF IInv
<1>2. ASSUME NEW t \in Thread, ThreadStep(t)
      PROVE  IInv'
  BY <1>2, BoundsStep, CoveredStep, AttendedStep DEF IInv
<1>. QED
  BY <1>1, <1>2 DEF Next, Terminating

THEOREM Invariant == Spec => []IInv
BY InvInit, InvStep, PTL DEF Spec

\* No work is lost (sssp_blocking.cpp:48-70): whatever can still be improved
\* is queued, about to be queued, or in the hands of a thread.
THEOREM WorkCovered == Spec => []OpenEdgeCovered
<1>1. IInv => OpenEdgeCovered
  BY DEF IInv
<1>. QED
  BY <1>1, Invariant, PTL

\* The queue is never left to nobody (sssp_blocking.cpp:74-92), although a
\* thread may mark another one as idle.
THEOREM QueueCorrect == Spec => []QueueAttended
<1>1. IInv => QueueAttended
  BY DEF IInv
<1>. QED
  BY <1>1, Invariant, PTL

\* When all threads have left, no work is left either.
LEMMA DoneIsDist == IInv /\ AllDone => node_wt = Dist
<1>. SUFFICES ASSUME IInv, AllDone PROVE node_wt = Dist
  OBVIOUS
<1>1. Len(q) = 0
  BY DEF IInv, Bounds, TypeOK, QueueAttended, AllDone
<1>2. Closed(node_wt)
  <2>. SUFFICES ASSUME NEW v \in Node, node_wt[v] # INF, NEW e \in Row(v)
                PROVE  node_wt[edge_dst[e]] <= node_wt[v] + edge_wt[e]
    BY DEF Closed
  <2>1. ~Covered(v, e)
    BY <1>1 DEF AllDone, Covered, Queued, WillPush, WillRelax, Trying
  <2>2. edge_dst[e] \in Node /\ edge_wt[e] \in Int
    BY RowIsEdges, CSRAssumption
  <2>3. node_wt[edge_dst[e]] \in Int /\ node_wt[v] \in Int
    BY <2>2 DEF IInv, Bounds, TypeOK, Weight
  <2>4. ~(node_wt[edge_dst[e]] > node_wt[v] + edge_wt[e])
    BY <2>1 DEF IInv, OpenEdgeCovered, Covered, Queued
  <2>. QED
    BY <2>2, <2>3, <2>4
<1>3. node_wt \in [Node -> Weight]
  BY DEF IInv, Bounds, TypeOK
<1>4. node_wt[src] <= 0
  BY DEF IInv, Bounds, SourceIsZero
<1>5. \A v \in Node : Dist[v] <= node_wt[v]
  BY DEF IInv, Bounds, NotTooLow
<1>. QED
  BY ONLY <1>2, <1>3, <1>4, <1>5, ClosedIsDist

\* Partial correctness of both programs.
THEOREM FinalCorrect == Spec => [](AllDone => node_wt = Dist)
BY DoneIsDist, Invariant, PTL

-----------------------------------------------------------------------------
(***************************************************************************)
(* The programs implement ShortestPaths.                                   *)
(***************************************************************************)
LEMMA AbstractInit == Init => Abstract!Init
<1>1. 0 \in Thread
  BY WorklistAssumption DEF Thread
<1>. QED
  BY <1>1 DEF Init, AllDone, Abstract!Init, Abstract!Node, Abstract!InitDist, Abstract!src,
     Node, InitDist, src

\* A step lowers one distance towards the true one, or hands the result over,
\* or changes nothing that is published.
LEMMA AbstractStep == IInv /\ IInv' /\ [Next]_vars => [Abstract!Next]_(Abstract!vars)
<1>. SUFFICES ASSUME IInv, IInv', [Next]_vars PROVE [Abstract!Next]_(Abstract!vars)
  OBVIOUS
<1>a. Abstract!Dist = Dist /\ Abstract!Node = Node
  BY DEF Abstract!Dist, Dist, Abstract!Node, Node
<1>1. CASE UNCHANGED vars
  BY <1>1 DEF vars, AllDone, Abstract!vars
<1>2. ASSUME NEW t \in Thread, ThreadStep(t)
      PROVE  [Abstract!Next]_(Abstract!vars)
  <2>1. ~AllDone
    BY <1>2 DEF AllDone, ThreadStep, Pop, Work, LoadDistance, LoadPrev, Pred1, Pred2, Lower,
       FailToLower, Push, CheckState, MarkIdle, At
  <2>2. CASE AllDone'
    <3>1. ~Lower(t)
      BY <2>2 DEF AllDone, Lower, At, IInv, Bounds, TypeOK
    <3>2. node_wt' = node_wt
      BY <1>2, <3>1, WtStep DEF IInv, Bounds
    <3>3. node_wt = Dist
      <4>1. (IInv /\ AllDone => node_wt = Dist)'
        BY DoneIsDist, PTL
      <4>2. Dist' = Dist
        BY DEF Dist
      <4>. QED
        BY <2>2, <3>2, <4>1, <4>2
    <3>4. Abstract!Finish
      BY <1>a, <2>1, <2>2, <3>2, <3>3 DEF Abstract!Finish
    <3>. QED
      BY <3>4 DEF Abstract!Next
  <2>3. CASE ~AllDone'
    <3>0. AllDone' = AllDone
      BY <2>1, <2>3 DEF AllDone
    <3>1. CASE node_wt' = node_wt
      BY <3>0, <3>1 DEF Abstract!vars
    <3>2. CASE /\ dest(t) \in Node
               /\ node_wt' = [node_wt EXCEPT ![dest(t)] = distance[t]]
               /\ Dist[dest(t)] <= distance[t] /\ distance[t] < node_wt[dest(t)]
      <4>1. /\ distance[t] \in Int /\ node_wt[dest(t)] \in Int /\ Dist[dest(t)] \in Int
        BY <3>2, DistType DEF IInv, Bounds, TypeOK, Weight
      <4>2. distance[t] \in Dist[dest(t)] .. node_wt[dest(t)] - 1
        BY ONLY <3>2, <4>1
      <4>3. Abstract!Lower(dest(t))
        BY <1>a, <2>1, <3>0, <3>2, <4>2 DEF Abstract!Lower
      <4>. QED
        BY <1>a, <3>2, <4>3 DEF Abstract!Next
    <3>. QED
      BY <1>2, <3>1, <3>2, WtStep DEF IInv, Bounds
  <2>. QED
    BY <2>2, <2>3
<1>. QED
  BY <1>1, <1>2 DEF Next, Terminating

\* Both work-list programs implement the abstract shortest-path specification.
THEOREM Refinement == Spec => ImplementsShortestPaths
BY AbstractInit, AbstractStep, Invariant, PTL
   DEF Spec, ImplementsShortestPaths, Abstract!Spec
=============================================================================
