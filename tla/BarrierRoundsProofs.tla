------------------------ MODULE BarrierRoundsProofs ------------------------
(***************************************************************************)
(* The round control of the barrier programs preserves its types, the loop *)
(* invariants of each thread and the phases of the barrier, whatever the   *)
(* body of the inner loop does with an edge.  Every barrier program that   *)
(* runs Control and whose body steps are BodyMoves inherits these facts.   *)
(***************************************************************************)
EXTENDS BarrierRounds, WellFoundedInduction, TLAPS

\* What a step of the inner loop's body may do to the variables of the
\* round control: stay in the body, or go on to the next edge or node.
BodyMove(t, labels) ==
  /\ InBody(t)
  /\ \/ /\ \E l \in labels \ ControlLabel : pc' = [pc EXCEPT ![t] = l]
        /\ UNCHANGED <<node, edge>>
     \/ NextEdge(t)
  /\ changed' = changed \/ changed' = TRUE
  /\ UNCHANGED roundVars

-----------------------------------------------------------------------------
(***************************************************************************)
(* What the Bellman-Ford table HopDist says about any table of distances:  *)
(* one round that relaxes every edge takes a table from below HopDist[k]   *)
(* to below HopDist[k+1], and a table no edge can lower is below Dist.     *)
(***************************************************************************)
\* The entries of the table are weights.
LEMMA HopType ==
  ASSUME NEW k \in 0 .. num_nodes - 1, NEW n \in Node
  PROVE  HopDist[k][n] \in Int /\ HopDist[k][n] <= INF
BY HopAssumption DEF Weight

\* The last row of the table is Dist.
LEMMA DistType ==
  /\ num_nodes - 1 \in 0 .. num_nodes - 1
  /\ Dist = HopDist[num_nodes - 1]
  /\ Dist \in [Node -> Weight]
<1>1. num_nodes - 1 \in 0 .. num_nodes - 1
  BY CSRAssumption
<1>. QED
  BY <1>1, HopAssumption DEF Dist

\* The out-edges of a node are edges of the graph.
LEMMA RowIsEdges ==
  ASSUME NEW n \in Node
  PROVE  /\ row_start[n] \in 0 .. num_edges
         /\ row_start[n + 1] \in 0 .. num_edges
         /\ Row(n) \subseteq Edge
<1>1. n \in 0 .. num_nodes /\ n + 1 \in 0 .. num_nodes
  BY CSRAssumption DEF Node
<1>2. row_start[n] \in 0 .. num_edges /\ row_start[n + 1] \in 0 .. num_edges
  BY <1>1, CSRAssumption
<1>. QED
  BY <1>2, CSRAssumption DEF Row, Edge

\* The distances sssp_init stores are weights.
LEMMA InitDistIsWeight ==
  ASSUME NEW n \in Node
  PROVE  InitDist(n) \in Weight
BY CSRAssumption DEF InitDist, Weight

\* A table below row k in which every edge has been relaxed once from the
\* values of row k is below row k+1.
LEMMA HopReached ==
  ASSUME NEW k \in 0 .. num_nodes - 2, NEW d \in [Node -> Int],
         \A n \in Node : d[n] <= HopDist[k][n],
         \A n \in Node : HopDist[k][n] # INF =>
           \A e \in Row(n) : d[edge_dst[e]] <= HopDist[k][n] + edge_wt[e],
         NEW v \in Node
  PROVE  d[v] <= HopDist[k + 1][v]
<1>1. HopDist[k + 1][v] \in Offers(k, v)
  BY HopAssumption
<1>2. CASE HopDist[k + 1][v] = HopDist[k][v]
  BY <1>2
<1>3. CASE \E n \in Node : /\ HopDist[k][n] # INF
                           /\ \E e \in Row(n) : /\ edge_dst[e] = v
                                                /\ HopDist[k + 1][v] = HopDist[k][n] + edge_wt[e]
  BY <1>3
<1>. QED
  BY <1>1, <1>2, <1>3 DEF Offers

\* A closed table with the source at 0 is below every row, so below Dist:
\* in the least row with an entry below the table, that entry would be an
\* offer of the row before.
LEMMA ClosedIsBelow ==
  ASSUME NEW d \in [Node -> Weight], Closed(d), d[src] <= 0
  PROVE  \A n \in Node : d[n] <= Dist[n]
<1>. DEFINE Bad == { k \in 0 .. num_nodes - 1 : \E n \in Node : ~(d[n] <= HopDist[k][n]) }
<1>n. num_nodes \in Nat /\ num_nodes > 0 /\ INF \in Nat
  BY CSRAssumption
<1>d. \A n \in Node : d[n] \in Int /\ d[n] <= INF
  BY DEF Weight
<1>1. SUFFICES ASSUME Bad # {} PROVE FALSE
  BY <1>1, DistType
<1>2. Bad \subseteq Nat
  BY <1>n
<1>3. PICK k \in Bad : \A j \in Bad : ~(<<j, k>> \in OpToRel(<, Nat))
  <2>. HIDE DEF Bad
  <2>. QED
    BY <1>1, <1>2, WFMin, NatLessThanWellFounded
<1>4. k \in 0 .. num_nodes - 1 /\ \A j \in Bad : ~(j < k)
  BY <1>2, <1>3 DEF OpToRel
<1>5. PICK v \in Node : ~(d[v] <= HopDist[k][v])
  BY <1>3
<1>6. CASE k = 0
  BY <1>5, <1>6, <1>d, HopAssumption DEF InitDist
<1>7. CASE k # 0
  <2>. DEFINE j == k - 1
  <2>1. j \in 0 .. num_nodes - 2 /\ j \in 0 .. num_nodes - 1 /\ k = j + 1 /\ j < k
    BY <1>4, <1>7, <1>n
  <2>2. \A n \in Node : d[n] <= HopDist[j][n]
    BY <1>4, <2>1
  <2>3. ASSUME NEW n \in Node, HopDist[j][n] # INF, NEW e \in Row(n)
        PROVE  d[edge_dst[e]] <= HopDist[j][n] + edge_wt[e]
    <3>1. HopDist[j][n] \in Int /\ HopDist[j][n] <= INF
      BY <2>1, HopType
    <3>2. d[n] <= HopDist[j][n] /\ d[n] # INF
      BY <2>2, <2>3, <3>1, <1>d, <1>n
    <3>3. d[edge_dst[e]] <= d[n] + edge_wt[e]
      BY <3>2 DEF Closed
    <3>4. e \in Edge /\ edge_dst[e] \in Node /\ edge_wt[e] \in Int
      <4>1. n \in 0 .. num_nodes /\ n + 1 \in 0 .. num_nodes
        BY <1>n DEF Node
      <4>2. row_start[n] \in 0 .. num_edges /\ row_start[n + 1] \in 0 .. num_edges
        BY <4>1, CSRAssumption
      <4>. QED
        BY <4>2, CSRAssumption DEF Row, Edge
    <3>. QED
      BY <3>1, <3>2, <3>3, <3>4, <1>d
  <2>4. d[v] <= HopDist[j + 1][v]
    <3>1. d \in [Node -> Int]
      BY <1>d
    <3>. HIDE DEF j
    <3>. QED
      BY <2>1, <2>2, <2>3, <3>1, HopReached
  <2>. QED
    BY <1>5, <2>1, <2>4
<1>. QED
  BY <1>6, <1>7

\* A closed table that is not below the distances is the distances.
THEOREM ClosedIsDist ==
  ASSUME NEW d \in [Node -> Weight], Closed(d), d[src] <= 0,
         \A n \in Node : Dist[n] <= d[n]
  PROVE  d = Dist
<1>1. \A n \in Node : d[n] <= Dist[n]
  BY ClosedIsBelow
<1>2. \A n \in Node : d[n] \in Int /\ Dist[n] \in Int
  BY DistType DEF Weight
<1>3. \A n \in Node : d[n] = Dist[n]
  BY <1>1, <1>2
<1>. QED
  BY <1>3, DistType

-----------------------------------------------------------------------------
(***************************************************************************)
(* The slices lie inside the range and together cover it, for every number *)
(* of threads (also when there are more threads than elements).            *)
(***************************************************************************)

\* The facts of integer division the slices rest on.
LEMMA DivFacts ==
  ASSUME NEW a \in Nat, NEW b \in Nat, b > 0
  PROVE  /\ a \div b \in Nat
         /\ b * (a \div b) <= a
         /\ a < b * (a \div b) + b
  OBVIOUS

\* Multiplication by a natural number is monotonic.
LEMMA MulMono ==
  ASSUME NEW a \in Nat, NEW b \in Nat, NEW q \in Nat, a <= b
  PROVE  a * q <= b * q
<1>1. b * q = a * q + (b - a) * q
  OBVIOUS
<1>2. (b - a) * q >= 0
  OBVIOUS
<1>. QED  BY <1>1, <1>2

\* A slice is a piece of the range 0 .. total.
LEMMA SliceBounds ==
  ASSUME NEW total \in Nat, NEW n \in Nat, n > 0, NEW tid \in 0 .. n - 1
  PROVE  /\ SliceStart(total, n, tid) \in 0 .. total
         /\ SliceEnd(total, n, tid) \in 0 .. total
         /\ SliceStart(total, n, tid) <= SliceEnd(total, n, tid)
<1>. DEFINE q == total \div n
<1>1. q \in Nat /\ n * q <= total
  BY DivFacts
<1>. HIDE DEF q
<1>2. tid * q \in Nat /\ (tid + 1) * q <= n * q
  BY <1>1, MulMono, tid + 1 <= n
<1>3. (tid + 1) * q = tid * q + q
  BY <1>1
<1>4. /\ SliceStart(total, n, tid) = tid * q
      /\ SliceEnd(total, n, tid) = IF tid + 1 = n THEN total ELSE tid * q + q
  BY DEF SliceStart, SliceEnd, SliceLen, q
<1>. QED
  BY <1>1, <1>2, <1>3, <1>4

\* Every element of the range is in the slice of some thread.
THEOREM SliceCover ==
  ASSUME NEW total \in Nat, NEW n \in Nat, n > 0, NEW v \in 0 .. total - 1
  PROVE  \E tid \in 0 .. n - 1 :
            /\ SliceStart(total, n, tid) <= v
            /\ v < SliceEnd(total, n, tid)
<1>. DEFINE q == total \div n
<1>1. q \in Nat
  BY DivFacts
<1>2. \A tid \in 0 .. n - 1 :
        /\ SliceStart(total, n, tid) = tid * q
        /\ SliceEnd(total, n, tid) = IF tid + 1 = n THEN total ELSE tid * q + q
  BY DEF SliceStart, SliceEnd, SliceLen
<1>. HIDE DEF q
<1>3. CASE (n - 1) * q <= v
  BY <1>1, <1>2, <1>3, n - 1 \in 0 .. n - 1
<1>4. CASE v < (n - 1) * q
  <2>1. q > 0
    BY <1>1, <1>4
  <2>. DEFINE t == v \div q
  <2>2. t \in Nat /\ q * t <= v /\ v < q * t + q
    BY <1>1, <2>1, DivFacts
  <2>. HIDE DEF t
  <2>3. q * t = t * q
    BY <1>1, <2>2
  <2>4. t < n - 1
    <3>1. SUFFICES ASSUME n - 1 <= t PROVE FALSE
      BY <2>2
    <3>2. (n - 1) * q <= t * q
      BY <1>1, <2>2, <3>1, MulMono
    <3>. QED  BY <1>4, <1>1, <2>2, <2>3, <3>2
  <2>5. t \in 0 .. n - 1 /\ t + 1 # n
    BY <2>2, <2>4
  <2>6. SliceStart(total, n, t) = t * q /\ SliceEnd(total, n, t) = t * q + q
    BY <1>2, <2>5
  <2>7. SliceStart(total, n, t) <= v /\ v < SliceEnd(total, n, t)
    BY <2>2, <2>3, <2>6
  <2>. QED
    BY <2>5, <2>7
<1>5. (n - 1) * q \in Nat
  BY <1>1
<1>. QED
  BY <1>3, <1>4, <1>5

\* No element is in the slices of two threads.
LEMMA SliceDisjoint ==
  ASSUME NEW total \in Nat, NEW n \in Nat, n > 0,
         NEW t \in 0 .. n - 1, NEW u \in 0 .. n - 1, t < u
  PROVE  SliceEnd(total, n, t) <= SliceStart(total, n, u)
<1>. DEFINE q == total \div n
<1>1. q \in Nat
  BY DivFacts
<1>2. t + 1 # n
  OBVIOUS
<1>3. SliceEnd(total, n, t) = t * q + q /\ SliceStart(total, n, u) = u * q
  BY <1>2 DEF SliceStart, SliceEnd, SliceLen
<1>. HIDE DEF q
<1>4. (t + 1) * q <= u * q
  <2>1. t + 1 \in Nat /\ u \in Nat /\ t + 1 <= u
    OBVIOUS
  <2>. QED
    BY ONLY <1>1, <2>1, MulMono
<1>5. (t + 1) * q = t * q + q
  BY <1>1
<1>. QED
  BY <1>3, <1>4, <1>5

-----------------------------------------------------------------------------
(***************************************************************************)
(* Facts about the constants.                                              *)
(***************************************************************************)

\* The slice of a thread lies in the range of nodes.
LEMMA ThreadSlice ==
  ASSUME NEW t \in Thread
  PROVE  /\ Start(t) \in 0 .. num_nodes
         /\ End(t) \in 0 .. num_nodes
         /\ Start(t) <= End(t)
BY SliceBounds, CSRAssumption, ThreadAssumption DEF Thread, Start, End

\* Every node is in the slice of some thread.
LEMMA NodeCovered ==
  ASSUME NEW n \in Node
  PROVE  \E t \in Thread : n \in Start(t) .. End(t) - 1
<1>1. PICK t \in 0 .. threadNum - 1 :
        /\ SliceStart(num_nodes, threadNum, t) <= n
        /\ n < SliceEnd(num_nodes, threadNum, t)
  <2>1. num_nodes \in Nat /\ threadNum \in Nat /\ threadNum > 0
    BY CSRAssumption, ThreadAssumption
  <2>2. n \in 0 .. num_nodes - 1
    BY DEF Node
  <2>. QED  BY ONLY <2>1, <2>2, SliceCover
<1>2. t \in Thread /\ Start(t) <= n /\ n < End(t)
  BY <1>1 DEF Thread, Start, End
<1>. QED
  BY <1>2, ThreadSlice, CSRAssumption DEF Node

\* Which labels are barriers.
LEMMA WaitLabels ==
  /\ DOMAIN AfterWait = { "initWait", "endWait", "resetWait", "againWait" }
  /\ AfterWait["initWait"] = "loop"
  /\ AfterWait["endWait"] = "test"
  /\ AfterWait["resetWait"] = "reset"
  /\ AfterWait["againWait"] = "again"
BY DEF AfterWait

-----------------------------------------------------------------------------
(***************************************************************************)
(* Types and loop invariants.                                              *)
(***************************************************************************)

\* The round test starts the slice over or leaves.
LEMMA RoundTestTypes ==
  ASSUME NEW labels, ControlLabel \subseteq labels, ScanTypeOK(labels), RoundTypeOK,
         NEW t \in Thread, NEW writers, rounds' \in [Thread -> 0 .. num_nodes],
         RoundTest(t, writers)
  PROVE  /\ pc' \in [Thread -> labels]
         /\ node' \in [Thread -> 0 .. num_nodes]
         /\ \A u \in Thread : node'[u] \in Start(u) .. End(u)
         /\ rounds_ptr' \in 0 .. num_nodes
<1>1. Start(t) \in 0 .. num_nodes /\ Start(t) \in Start(t) .. End(t)
  BY ThreadSlice, CSRAssumption
<1>. QED
  BY <1>1 DEF RoundTest, Leave, ScanTypeOK, RoundTypeOK, ControlLabel

\* Everything outside the loop body keeps the types.
LEMMA ControlTypes ==
  ASSUME NEW labels, ControlLabel \cup {"relax"} \subseteq labels,
         ScanTypeOK(labels), RoundTypeOK, Loops,
         NEW t \in Thread, NEW afterInit \in {"initWait", "loop"}, NEW writers,
         Control(t, afterInit, writers)
  PROVE  ScanTypeOK(labels)' /\ RoundTypeOK'
<1>. USE DEF ScanTypeOK, RoundTypeOK
<1>n. num_nodes \in Nat /\ num_nodes > 0
  BY CSRAssumption
<1>s. End(t) \in 0 .. num_nodes /\ Start(t) \in 0 .. num_nodes
  BY ThreadSlice
<1>l. ControlLabel \subseteq labels /\ "relax" \in labels
  OBVIOUS
<1>1. CASE InitNode(t) /\ UNCHANGED roundVars
  <2>1. node[t] \in Node
    BY <1>1, <1>n, <1>s DEF InitNode, Node
  <2>2. InitDist(node[t]) \in Weight
    BY <2>1, InitDistIsWeight
  <2>3. node[t] + 1 \in 0 .. num_nodes /\ node[t] + 1 \in Start(t) .. End(t)
    BY <1>1, <1>n, <1>s DEF InitNode
  <2>. QED
    BY <1>1, <2>1, <2>2, <2>3 DEF InitNode, roundVars
<1>2. CASE EndInit(t, afterInit) /\ UNCHANGED roundVars
  BY <1>2, <1>l DEF EndInit, roundVars, ControlLabel
<1>3. CASE SkipNode(t) /\ UNCHANGED roundVars
  <2>1. node[t] + 1 \in 0 .. num_nodes /\ node[t] + 1 \in Start(t) .. End(t)
    BY <1>3, <1>n, <1>s DEF SkipNode
  <2>. QED
    BY <1>3, <2>1 DEF SkipNode, roundVars
<1>4. CASE EnterNode(t) /\ UNCHANGED roundVars
  <2>1. node[t] \in Node
    BY <1>4, <1>n, <1>s DEF EnterNode, Node
  <2>2. row_start[node[t]] \in 0 .. num_edges
    BY <2>1, RowIsEdges
  <2>. QED
    BY <1>4, <2>2, <1>l DEF EnterNode, roundVars
<1>5. CASE EndSlice(t, "endWait") /\ UNCHANGED roundVars
  BY <1>5, <1>l DEF EndSlice, roundVars, ControlLabel
<1>6. CASE BarrierWait(t)
  <2>1. CASE waiting \cup {t} # Thread
    BY <1>6, <2>1 DEF BarrierWait
  <2>2. CASE waiting \cup {t} = Thread
    <3>1. \A u \in Thread : pc[u] \in DOMAIN AfterWait
      BY <1>6, <2>2 DEF BarrierWait, Loops
    <3>2. \A u \in Thread : AfterWait[pc[u]] \in labels
      BY <3>1, <1>l, WaitLabels DEF ControlLabel
    <3>. QED
      BY <1>6, <2>2, <3>2 DEF BarrierWait
  <2>. QED
    BY <2>1, <2>2
<1>7. CASE FirstRound(t, writers)
  BY <1>7, <1>l, RoundTestTypes DEF FirstRound
<1>8. CASE NextRound(t, writers)
  <2>1. rounds[t] < num_nodes - 1
    BY <1>8 DEF NextRound, Loops
  <2>2. rounds' \in [Thread -> 0 .. num_nodes]
    BY <1>8, <2>1, <1>n DEF NextRound
  <2>. QED
    BY <1>8, <2>2, <1>l, RoundTestTypes DEF NextRound
<1>9. CASE TestChanged(t, writers)
  BY <1>9, <1>l DEF TestChanged, Leave, ControlLabel
<1>10. CASE ResetChanged(t)
  BY <1>10, <1>l DEF ResetChanged, ControlLabel
<1>. QED
  BY <1>1, <1>2, <1>3, <1>4, <1>5, <1>6, <1>7, <1>8, <1>9, <1>10 DEF Control

\* Everything outside the loop body keeps the loop invariants.
LEMMA ControlLoops ==
  ASSUME NEW labels, ControlLabel \cup {"relax"} \subseteq labels,
         ScanTypeOK(labels), RoundTypeOK, Loops,
         NEW t \in Thread, NEW afterInit \in {"initWait", "loop"}, NEW writers,
         Control(t, afterInit, writers)
  PROVE  Loops'
<1>. USE DEF ScanTypeOK, RoundTypeOK, Loops, InBody, ControlLabel
<1>n. num_nodes \in Nat /\ num_nodes > 0
  BY CSRAssumption
<1>w. DOMAIN AfterWait = { "initWait", "endWait", "resetWait", "againWait" }
  BY WaitLabels
<1>1. CASE InitNode(t) /\ UNCHANGED roundVars
  BY <1>1, <1>w DEF InitNode, roundVars
<1>2. CASE EndInit(t, afterInit) /\ UNCHANGED roundVars
  BY <1>2, <1>w DEF EndInit, roundVars
<1>3. CASE SkipNode(t) /\ UNCHANGED roundVars
  BY <1>3, <1>w DEF SkipNode, roundVars
<1>4. CASE EnterNode(t) /\ UNCHANGED roundVars
  <2>1. node[t] \in Node
    BY <1>4, <1>n, ThreadSlice DEF EnterNode, Node
  <2>2. row_start[node[t]] \in Row(node[t])
    BY <1>4, <2>1, RowIsEdges DEF EnterNode, Row
  <2>. QED
    BY <1>4, <1>w, <2>2 DEF EnterNode, roundVars
<1>5. CASE EndSlice(t, "endWait") /\ UNCHANGED roundVars
  BY <1>5, <1>w DEF EndSlice, roundVars
<1>6. CASE BarrierWait(t)
  <2>1. CASE waiting \cup {t} # Thread
    BY <1>6, <1>w, <2>1 DEF BarrierWait
  <2>2. CASE waiting \cup {t} = Thread
    <3>1. \A u \in Thread : pc[u] \in DOMAIN AfterWait
      BY <1>6, <2>2 DEF BarrierWait
    <3>2. \A u \in Thread :
            /\ pc'[u] \in {"loop", "test", "reset", "again"}
            /\ pc'[u] = "loop" => pc[u] = "initWait"
            /\ pc'[u] # "loop" => pc[u] \in {"endWait", "resetWait", "againWait"}
      BY <1>6, <2>2, <3>1, WaitLabels DEF BarrierWait
    <3>3. waiting' = {} /\ UNCHANGED <<node, edge, rounds>>
      BY <1>6, <2>2 DEF BarrierWait
    <3>. QED
      BY <3>2, <3>3
  <2>. QED
    BY <2>1, <2>2
<1>7. CASE FirstRound(t, writers)
  BY <1>7, <1>w, <1>n DEF FirstRound, RoundTest, Leave
<1>8. CASE NextRound(t, writers)
  BY <1>8, <1>w, <1>n DEF NextRound, RoundTest, Leave
<1>9. CASE TestChanged(t, writers)
  BY <1>9, <1>w DEF TestChanged, Leave
<1>10. CASE ResetChanged(t)
  BY <1>10, <1>w DEF ResetChanged
<1>. QED
  BY <1>1, <1>2, <1>3, <1>4, <1>5, <1>6, <1>7, <1>8, <1>9, <1>10 DEF Control

\* The loop body leaves the loop variables and the round control in order.
LEMMA BodyMoveTypes ==
  ASSUME NEW labels, ControlLabel \cup {"relax"} \subseteq labels,
         ScanTypeOK(labels), RoundTypeOK, Loops,
         NEW t \in Thread, BodyMove(t, labels), node_wt' \in [Node -> Weight]
  PROVE  ScanTypeOK(labels)' /\ RoundTypeOK'
<1>. USE DEF ScanTypeOK, RoundTypeOK, roundVars
<1>1. node[t] < End(t) /\ edge[t] \in Row(node[t])
  BY DEF Loops, BodyMove
<1>2. node[t] \in Node
  BY <1>1, ThreadSlice, CSRAssumption DEF Node
<1>3. row_start[node[t] + 1] \in 0 .. num_edges
  BY <1>2, RowIsEdges
<1>4. edge[t] + 1 < row_start[node[t] + 1] => edge[t] + 1 \in 0 .. num_edges
  BY <1>3, CSRAssumption
<1>5. node[t] + 1 \in 0 .. num_nodes /\ node[t] + 1 \in Start(t) .. End(t)
  BY <1>1, <1>2, ThreadSlice, CSRAssumption DEF Node
<1>6. CASE NextEdge(t)
  BY <1>4, <1>5, <1>6 DEF BodyMove, NextEdge, ControlLabel
<1>7. CASE UNCHANGED <<node, edge>> /\ \E l \in labels : pc' = [pc EXCEPT ![t] = l]
  BY <1>7 DEF BodyMove
<1>. QED
  BY <1>6, <1>7 DEF BodyMove

LEMMA BodyMoveLoops ==
  ASSUME NEW labels, ControlLabel \cup {"relax"} \subseteq labels,
         ScanTypeOK(labels), RoundTypeOK, Loops,
         NEW t \in Thread, BodyMove(t, labels)
  PROVE  Loops'
<1>. USE DEF ScanTypeOK, RoundTypeOK, roundVars, Loops, InBody, ControlLabel
<1>w. DOMAIN AfterWait = { "initWait", "endWait", "resetWait", "againWait" }
  BY WaitLabels
<1>1. node[t] < End(t) /\ edge[t] \in Row(node[t])
  BY DEF BodyMove
<1>2. node[t] \in Node
  BY <1>1, ThreadSlice, CSRAssumption DEF Node
<1>3. edge[t] + 1 < row_start[node[t] + 1] => edge[t] + 1 \in Row(node[t])
  BY <1>1, <1>2, RowIsEdges DEF Row
<1>6. CASE NextEdge(t)
  BY <1>3, <1>6, <1>w DEF BodyMove, NextEdge
<1>7. CASE /\ UNCHANGED <<node, edge>>
           /\ \E l \in labels \ ControlLabel : pc' = [pc EXCEPT ![t] = l]
  BY <1>7, <1>w DEF BodyMove
<1>. QED
  BY <1>6, <1>7 DEF BodyMove

-----------------------------------------------------------------------------
(***************************************************************************)
(* The phases.  In most programs the barrier after the initialisation      *)
(* makes that a phase of its own; in sssp_ex3 a thread goes right on, and  *)
(* the initialisation is part of the first scan: early says which.         *)
(***************************************************************************)
PhaseIn(early, l) == IF early /\ l = "init" THEN "scan" ELSE PhaseOf(l)

SamePhaseIn(early) ==
  \A t, u \in Thread :
    /\ Round(t) = Round(u)
    /\ pc[t] # "done" /\ pc[u] # "done" => PhaseIn(early, pc[t]) = PhaseIn(early, pc[u])

\* With a single node there is no round, and a thread that goes right on may
\* leave before another one has initialised its slice.
LeaveIn(early) ==
  (\E t \in Thread : pc[t] = "done") =>
    \A u \in Thread :
      \/ pc[u] = "done"
      \/ pc[u] = "test" /\ ~changed
      \/ pc[u] \in {"loop", "again"} /\ Round(u) >= num_nodes - 1
      \/ early /\ pc[u] = "init" /\ num_nodes = 1

PhasesIn(early) ==
  /\ SamePhaseIn(early)
  /\ LeaveIn(early)
  /\ ChangedUntilReset
  /\ NotFull
  /\ early => \A t \in Thread : pc[t] # "initWait"

LEMMA PhasesAre == Phases <=> PhasesIn(FALSE)
  BY DEF Phases, SamePhase, LeaveTogether, PhasesIn, SamePhaseIn, LeaveIn, PhaseIn

\* A step of one thread that stays in its phase and its round, keeps the
\* flag and does not touch the barrier keeps the phases.
LEMMA QuietStepPhases ==
  ASSUME NEW early \in BOOLEAN, PhasesIn(early),
         NEW labels, ScanTypeOK(labels), RoundTypeOK,
         NEW t \in Thread, NEW l, pc' = [pc EXCEPT ![t] = l],
         pc[t] # "done", l # "done", PhaseIn(early, l) = PhaseIn(early, pc[t]),
         early => pc[t] # "init" /\ l # "initWait",
         Round(t)' = Round(t), pc[t] \notin {"loop", "test", "again"},
         l # "resetWait",
         changed' = changed \/ changed' = TRUE,
         UNCHANGED <<waiting, rounds>>
  PROVE  PhasesIn(early)'
<1>. USE DEF ScanTypeOK, RoundTypeOK
<1>1. \A u \in Thread : u # t => pc'[u] = pc[u] /\ Round(u)' = Round(u)
  BY DEF Round
<1>2. pc'[t] = l
  OBVIOUS
<1>3. SamePhaseIn(early)'
  BY <1>1, <1>2 DEF PhasesIn, SamePhaseIn
<1>4. \A u \in Thread : pc[u] # "done"
  BY DEF PhasesIn, LeaveIn
<1>5. LeaveIn(early)'
  BY <1>1, <1>2, <1>4 DEF LeaveIn
<1>6. ChangedUntilReset' /\ NotFull'
  BY <1>1, <1>2 DEF PhasesIn, ChangedUntilReset, NotFull
<1>7. early => \A u \in Thread : pc'[u] # "initWait"
  BY <1>1, <1>2 DEF PhasesIn
<1>. QED
  BY <1>3, <1>5, <1>6, <1>7 DEF PhasesIn

\* A thread leaves from the round test, or starts the next round.
LEMMA RoundTestPhases ==
  ASSUME NEW early \in BOOLEAN, PhasesIn(early), Loops,
         NEW labels, ScanTypeOK(labels), RoundTypeOK,
         NEW t \in Thread, NEW writers,
         pc[t] \in {"loop", "again"}, rounds'[t] = Round(t), Round(t) \in Int,
         \A u \in Thread \ {t} : rounds'[u] = rounds[u],
         RoundTest(t, writers), UNCHANGED <<changed, waiting>>
  PROVE  PhasesIn(early)'
<1>. USE DEF ScanTypeOK, RoundTypeOK
<1>1. \A u \in Thread : u # t => pc'[u] = pc[u] /\ Round(u)' = Round(u)
  BY DEF Round, RoundTest, Leave
<1>2. Round(t)' = Round(t) /\ rounds'[t] = Round(t)
  BY DEF Round, RoundTest, Leave
<1>3. PhaseIn(early, pc[t]) = "scan" /\ pc[t] # "done"
  BY DEF PhaseIn, PhaseOf
<1>4. \A u \in Thread : pc[u] = "done" \/ PhaseIn(early, pc[u]) = "scan"
  BY <1>3 DEF PhasesIn, SamePhaseIn
<1>5. \A u \in Thread : pc'[u] = "done" \/ PhaseIn(early, pc'[u]) = "scan"
  <2>1. pc'[t] \in {"node", "done"}
    BY DEF RoundTest, Leave
  <2>. QED
    BY <1>1, <1>4, <2>1 DEF PhaseIn, PhaseOf
<1>6. SamePhaseIn(early)'
  BY <1>1, <1>2, <1>5 DEF PhasesIn, SamePhaseIn
<1>7. LeaveIn(early)'
  <2>1. CASE rounds'[t] >= num_nodes - 1
    <3>1. \A u \in Thread : Round(u) >= num_nodes - 1
      BY <2>1, <1>2 DEF PhasesIn, SamePhaseIn
    <3>2. \A u \in Thread :
            \/ pc[u] \in {"done", "loop", "again"}
            \/ early /\ pc[u] = "init" /\ num_nodes = 1
      <4>. SUFFICES ASSUME NEW u \in Thread, pc[u] \notin {"done", "loop", "again"}
                    PROVE  early /\ pc[u] = "init" /\ num_nodes = 1
        OBVIOUS
      <4>0. Round(u) = rounds[u] /\ rounds[u] \in Int /\ num_nodes \in Nat \ {0}
        BY CSRAssumption DEF Round
      <4>1. pc[u] # "initWait" /\ (pc[u] = "init" => early)
        BY <1>4 DEF PhaseIn, PhaseOf
      <4>2. CASE pc[u] = "init"
        <5>1. rounds[u] = 0
          BY <4>2 DEF Loops
        <5>2. num_nodes = 1
          BY <3>1, <4>0, <5>1
        <5>. QED
          BY <4>1, <4>2, <5>2
      <4>3. CASE pc[u] # "init"
        <5>1. rounds[u] < num_nodes - 1
          BY <4>1, <4>3 DEF Loops
        <5>. QED
          BY <3>1, <4>0, <5>1
      <4>. QED
        BY <4>2, <4>3
    <3>3. pc'[t] = "done"
      BY <2>1, CSRAssumption DEF RoundTest, Leave
    <3>. QED
      BY <1>1, <3>1, <3>2, <3>3 DEF LeaveIn
  <2>2. CASE rounds'[t] < num_nodes - 1
    <3>1. pc'[t] = "node"
      BY <2>2, CSRAssumption DEF RoundTest
    <3>2. \A u \in Thread : pc[u] # "done"
      <4>1. Round(t) \in Int /\ ~(Round(t) >= num_nodes - 1)
        BY <2>2, <1>2, CSRAssumption DEF Round
      <4>2. pc[t] \notin {"done", "test"}
        OBVIOUS
      <4>. QED
        BY <4>1, <4>2 DEF PhasesIn, LeaveIn
    <3>. QED
      BY <1>1, <3>1, <3>2 DEF LeaveIn
  <2>. QED
    BY <2>1, <2>2, CSRAssumption
<1>8. ChangedUntilReset'
  BY <1>1 DEF PhasesIn, ChangedUntilReset, RoundTest, Leave
<1>9. early => \A u \in Thread : pc'[u] # "initWait"
  <2>1. pc'[t] \in {"node", "done"}
    BY DEF RoundTest, Leave
  <2>. QED
    BY <1>1, <2>1 DEF PhasesIn
<1>. QED
  BY <1>6, <1>7, <1>8, <1>9 DEF PhasesIn, NotFull

\* The barrier releases all threads from the same place.
LEMMA BarrierPhases ==
  ASSUME NEW early \in BOOLEAN, PhasesIn(early), Loops,
         NEW labels, ScanTypeOK(labels), RoundTypeOK,
         NEW t \in Thread, BarrierWait(t)
  PROVE  PhasesIn(early)'
<1>. USE DEF ScanTypeOK, RoundTypeOK
<1>1. CASE waiting \cup {t} # Thread
  <2>1. UNCHANGED <<pc, rounds, changed>> /\ waiting' # Thread
    BY <1>1 DEF BarrierWait
  <2>. QED
    BY <2>1 DEF PhasesIn, SamePhaseIn, LeaveIn, ChangedUntilReset, NotFull, Round
<1>2. CASE waiting \cup {t} = Thread
  <2>. DEFINE p == pc[t]
  <2>1. p \in {"initWait", "endWait", "resetWait", "againWait"}
    BY WaitLabels DEF BarrierWait
  <2>2. \A u \in Thread : pc[u] = p
    <3>1. \A u \in Thread :
            pc[u] \in {"initWait", "endWait", "resetWait", "againWait"}
      BY <1>2, <2>1, WaitLabels DEF Loops
    <3>2. \A u \in Thread : PhaseIn(early, pc[u]) = PhaseIn(early, p)
      BY <2>1, <3>1 DEF PhasesIn, SamePhaseIn
    <3>. QED
      BY <2>1, <3>1, <3>2 DEF PhaseIn, PhaseOf
  <2>3. \A u \in Thread : pc'[u] = AfterWait[p]
    BY <1>2, <2>2 DEF BarrierWait
  <2>4. AfterWait[p] \in {"loop", "test", "reset", "again"}
    BY <2>1, WaitLabels
  <2>5. \A u, v \in Thread : rounds[u] = rounds[v]
    BY <2>1, <2>2 DEF PhasesIn, SamePhaseIn, Round
  <2>6. waiting' = {} /\ UNCHANGED <<rounds, changed>>
    BY <1>2 DEF BarrierWait
  <2>7. SamePhaseIn(early)'
    BY <2>3, <2>5, <2>6 DEF SamePhaseIn, Round
  <2>8. LeaveIn(early)' /\ ChangedUntilReset'
    BY <2>3, <2>4 DEF LeaveIn, ChangedUntilReset
  <2>9. NotFull'
    BY <2>6 DEF NotFull
  <2>10. \A u \in Thread : pc'[u] # "initWait"
    BY <2>3, <2>4
  <2>. QED
    BY <2>7, <2>8, <2>9, <2>10 DEF PhasesIn
<1>. QED
  BY <1>1, <1>2

\* The decision to stop is the same in all threads.
LEMMA TestChangedPhases ==
  ASSUME NEW early \in BOOLEAN, PhasesIn(early),
         NEW labels, ScanTypeOK(labels), RoundTypeOK,
         NEW t \in Thread, NEW writers, TestChanged(t, writers)
  PROVE  PhasesIn(early)'
<1>. USE DEF ScanTypeOK, RoundTypeOK
<1>1. UNCHANGED <<changed, rounds, waiting>> /\ pc[t] = "test"
  BY DEF TestChanged
<1>2. \A u \in Thread : u # t => pc'[u] = pc[u] /\ Round(u)' = Round(u)
  BY <1>1 DEF TestChanged, Leave, Round
<1>3. \A u \in Thread : pc[u] = "done" \/ pc[u] \in {"test", "resetWait"}
  BY <1>1 DEF PhasesIn, SamePhaseIn, PhaseIn, PhaseOf
<1>4. CASE changed
  <2>1. pc'[t] = "resetWait" /\ Round(t)' = Round(t)
    BY <1>1, <1>4 DEF TestChanged, Round
  <2>2. \A u \in Thread : pc[u] # "done"
    BY <1>1, <1>4 DEF PhasesIn, LeaveIn
  <2>3. SamePhaseIn(early)'
    BY <1>1, <1>2, <2>1 DEF PhasesIn, SamePhaseIn, PhaseIn, PhaseOf
  <2>4. LeaveIn(early)' /\ ChangedUntilReset'
    BY <1>1, <1>2, <1>4, <2>1, <2>2 DEF LeaveIn, ChangedUntilReset
  <2>5. early => \A u \in Thread : pc'[u] # "initWait"
    BY <1>2, <2>1 DEF PhasesIn
  <2>. QED
    BY <1>1, <2>3, <2>4, <2>5 DEF PhasesIn, NotFull
<1>5. CASE ~changed
  <2>1. pc'[t] = "done" /\ Round(t)' = Round(t)
    BY <1>1, <1>5 DEF TestChanged, Leave, Round
  <2>2. \A u \in Thread : pc[u] \in {"done", "test"}
    BY <1>3, <1>5 DEF PhasesIn, ChangedUntilReset
  <2>3. SamePhaseIn(early)'
    BY <1>1, <1>2, <2>1 DEF PhasesIn, SamePhaseIn
  <2>4. LeaveIn(early)' /\ ChangedUntilReset'
    BY <1>1, <1>2, <1>5, <2>1, <2>2 DEF LeaveIn, ChangedUntilReset
  <2>5. early => \A u \in Thread : pc'[u] # "initWait"
    BY <1>2, <2>1 DEF PhasesIn
  <2>. QED
    BY <1>1, <2>3, <2>4, <2>5 DEF PhasesIn, NotFull
<1>. QED
  BY <1>4, <1>5

\* Resetting the flag happens while all threads are in the reset phase.
LEMMA ResetPhases ==
  ASSUME NEW early \in BOOLEAN, PhasesIn(early),
         NEW labels, ScanTypeOK(labels), RoundTypeOK,
         NEW t \in Thread, ResetChanged(t)
  PROVE  PhasesIn(early)'
<1>. USE DEF ScanTypeOK, RoundTypeOK
<1>1. pc[t] = "reset" /\ pc' = [pc EXCEPT ![t] = "againWait"]
      /\ UNCHANGED <<rounds, waiting>>
  BY DEF ResetChanged
<1>2. \A u \in Thread : pc[u] # "done"
  BY <1>1 DEF PhasesIn, LeaveIn
<1>3. \A u \in Thread : PhaseIn(early, pc[u]) = "reset"
  BY <1>1, <1>2 DEF PhasesIn, SamePhaseIn, PhaseIn, PhaseOf
<1>4. \A u \in Thread : pc[u] # "resetWait" /\ pc'[u] # "resetWait"
  BY <1>1, <1>3 DEF PhaseIn, PhaseOf
<1>5. \A u \in Thread : pc'[u] # "done" /\ PhaseIn(early, pc'[u]) = "reset"
  BY <1>1, <1>2, <1>3 DEF PhaseIn, PhaseOf
<1>6. \A u \in Thread : Round(u)' = Round(u)
  BY <1>1 DEF Round
<1>. QED
  BY <1>1, <1>4, <1>5, <1>6
     DEF PhasesIn, SamePhaseIn, LeaveIn, ChangedUntilReset, NotFull

\* The round control keeps the phases.
LEMMA ControlKeepsPhases ==
  ASSUME NEW early \in BOOLEAN, PhasesIn(early), Loops,
         NEW labels, ScanTypeOK(labels), RoundTypeOK,
         NEW t \in Thread, NEW afterInit, NEW writers,
         afterInit = (IF early THEN "loop" ELSE "initWait"),
         Control(t, afterInit, writers)
  PROVE  PhasesIn(early)'
<1>. USE DEF PhaseIn, PhaseOf, Round, roundVars
<1>1. CASE InitNode(t) /\ UNCHANGED roundVars
  BY <1>1 DEF InitNode, PhasesIn, SamePhaseIn, LeaveIn, ChangedUntilReset, NotFull
<1>2. CASE EndInit(t, afterInit) /\ UNCHANGED roundVars
  <2>1. CASE ~early
    BY <1>2, <2>1, QuietStepPhases DEF EndInit, ScanTypeOK
  <2>2. CASE early
    <3>1. pc[t] = "init" /\ UNCHANGED <<changed, waiting, rounds>>
      BY <1>2 DEF EndInit
    <3>2. \A u \in Thread : pc'[u] = IF u = t THEN "loop" ELSE pc[u]
      BY <1>2, <2>2 DEF EndInit, ScanTypeOK
    <3>3. \A u \in Thread : Round(u)' = Round(u) /\ PhaseIn(early, pc'[u]) = PhaseIn(early, pc[u])
      BY <2>2, <3>1, <3>2
    <3>4. \A u \in Thread : pc'[u] = "done" <=> pc[u] = "done"
      BY <3>1, <3>2
    <3>5. SamePhaseIn(early)'
      BY <3>3, <3>4 DEF PhasesIn, SamePhaseIn
    <3>6. rounds[t] = 0 /\ num_nodes \in Nat \ {0}
      BY <3>1, CSRAssumption DEF Loops
    <3>7. LeaveIn(early)'
      BY <2>2, <3>1, <3>2, <3>3, <3>4, <3>6 DEF PhasesIn, LeaveIn
    <3>8. ChangedUntilReset' /\ NotFull' /\ \A u \in Thread : pc'[u] # "initWait"
      BY <2>2, <3>1, <3>2 DEF PhasesIn, ChangedUntilReset, NotFull
    <3>. QED
      BY <3>5, <3>7, <3>8 DEF PhasesIn
  <2>. QED
    BY <2>1, <2>2
<1>3. CASE SkipNode(t) /\ UNCHANGED roundVars
  BY <1>3 DEF SkipNode, PhasesIn, SamePhaseIn, LeaveIn, ChangedUntilReset, NotFull
<1>4. CASE EnterNode(t) /\ UNCHANGED roundVars
  BY <1>4, QuietStepPhases DEF EnterNode, ScanTypeOK
<1>5. CASE EndSlice(t, "endWait") /\ UNCHANGED roundVars
  BY <1>5, QuietStepPhases DEF EndSlice, ScanTypeOK
<1>6. CASE BarrierWait(t)
  BY <1>6, BarrierPhases
<1>7. CASE FirstRound(t, writers)
  <2>1. /\ pc[t] = "loop" /\ RoundTest(t, writers) /\ UNCHANGED <<changed, waiting>>
        /\ rounds'[t] = Round(t) /\ Round(t) \in Int
        /\ \A u \in Thread \ {t} : rounds'[u] = rounds[u]
    BY <1>7 DEF FirstRound, RoundTypeOK
  <2>. QED
    BY <2>1, RoundTestPhases
<1>8. CASE NextRound(t, writers)
  <2>1. /\ pc[t] = "again" /\ RoundTest(t, writers) /\ UNCHANGED <<changed, waiting>>
        /\ rounds'[t] = Round(t) /\ Round(t) \in Int
        /\ \A u \in Thread \ {t} : rounds'[u] = rounds[u]
    BY <1>8 DEF NextRound, RoundTypeOK
  <2>. QED
    BY <2>1, RoundTestPhases
<1>9. CASE TestChanged(t, writers)
  BY <1>9, TestChangedPhases
<1>10. CASE ResetChanged(t)
  BY <1>10, ResetPhases
<1>. QED
  BY <1>1, <1>2, <1>3, <1>4, <1>5, <1>6, <1>7, <1>8, <1>9, <1>10 DEF Control

\* The loop body keeps the phases.
LEMMA BodyKeepsPhases ==
  ASSUME NEW early \in BOOLEAN, PhasesIn(early),
         NEW labels, ScanTypeOK(labels), RoundTypeOK,
         NEW t \in Thread, BodyMove(t, labels)
  PROVE  PhasesIn(early)'
<1>1. PICK l \in {"relax", "node"} \cup (labels \ ControlLabel) :
        pc' = [pc EXCEPT ![t] = l]
  BY DEF BodyMove, NextEdge
<1>2. pc[t] \notin ControlLabel /\ l \notin ControlLabel \ {"node"}
  BY <1>1 DEF BodyMove, InBody, ControlLabel
<1>3. PhaseIn(early, pc[t]) = "scan" /\ PhaseIn(early, l) = "scan"
  BY <1>2 DEF PhaseIn, PhaseOf, ControlLabel
<1>4. Round(t)' = Round(t)
  BY <1>1, <1>2 DEF Round, ControlLabel, BodyMove, roundVars, ScanTypeOK
<1>5. /\ pc[t] \notin {"done", "loop", "test", "again", "init"}
      /\ l \notin {"done", "resetWait", "initWait"}
  BY <1>2 DEF ControlLabel
<1>6. (changed' = changed \/ changed' = TRUE) /\ UNCHANGED <<waiting, rounds>>
  BY DEF BodyMove, roundVars
<1>. QED
  BY <1>1, <1>3, <1>4, <1>5, <1>6, QuietStepPhases
=============================================================================
