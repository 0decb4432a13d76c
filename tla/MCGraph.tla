------------------------------ MODULE MCGraph ------------------------------
(***************************************************************************)
(* Small graphs for model checking.  A graph is the list of its edges      *)
(* <<source, destination, weight>> in the order of a graph file; a cfg     *)
(* chooses one for the constant EdgeList, and the constants of CSRGraph    *)
(* are computed from it.                                                   *)
(***************************************************************************)
EXTENDS CSRGraph, SequencesExt

CONSTANT EdgeList

\* Four nodes: node 2 is improved after it was used, node 3 is reached from
\* two nodes, and an edge leads back to the source.
Diamond == << <<0, 1, 1>>, <<0, 2, 4>>, <<1, 2, 1>>, <<1, 3, 6>>,
              <<2, 3, 1>>, <<3, 0, 1>> >>

\* Four nodes: node 2 is at distance 2 through node 1, and node 3 is offered
\* the distances 10, 2 and 11 (or 29) by nodes 0, 1 and 2.
Overtaking == << <<0, 1, 1>>, <<0, 2, 20>>, <<0, 3, 10>>, <<1, 2, 1>>,
                 <<1, 3, 1>>, <<2, 3, 9>> >>

\* Four nodes: nodes 0, 1 and 2 compete for node 3 with the distances 10, 6 and 3;
\* an edge leads back to the source.
Rivals == << <<0, 1, 1>>, <<0, 2, 1>>, <<0, 3, 10>>, <<1, 3, 5>>, <<2, 3, 2>>, <<3, 0, 1>> >>

\* Five nodes: every edge of the shortest path 0->4->3->2->1 leads back, so that
\* a program that visits the nodes in ascending order needs all n-1 rounds;
\* nodes 1 and 4 offer different distances to node 3 in the same round.
Backward == << <<0, 1, 9>>, <<0, 4, 1>>, <<1, 0, 1>>, <<1, 3, 1>>,
               <<2, 1, 1>>, <<3, 2, 1>>, <<4, 3, 1>> >>

\* Five nodes: Diamond or Overtaking, and a last node that no edge leads to, so that a
\* distance remains INF and an unreached node has an out-edge.
DiamondAndIsland == Append(Diamond, <<4, 0, 1>>)
OvertakingAndIsland == Append(Overtaking, <<4, 0, 1>>)
RivalsAndIsland == Append(Rivals, <<4, 0, 1>>)

-----------------------------------------------------------------------------
MCNumEdges == Len(EdgeList)
MCRowStart ==
  [ i \in 0 .. num_nodes |->
      Cardinality({ j \in 1 .. Len(EdgeList) : EdgeList[j][1] < i }) ]
MCEdgeDst == [ e \in 0 .. Len(EdgeList) - 1 |-> EdgeList[e + 1][2] ]
MCEdgeWt == [ e \in 0 .. Len(EdgeList) - 1 |-> EdgeList[e + 1][3] ]

\* One more than the weight of all edges: no simple path reaches it.
MCInf == 1 + MapThenFoldSet(+, 0, LAMBDA j : EdgeList[j][3],
                            LAMBDA S : CHOOSE j \in S : TRUE, 1 .. Len(EdgeList))

\* The Bellman-Ford table, one row after the other.
MCNextRow(row) ==
  [ v \in Node |->
      Min({row[v]} \cup
          { row[EdgeList[j][1]] + EdgeList[j][3] : j \in
              { i \in 1 .. Len(EdgeList) : EdgeList[i][2] = v /\ row[EdgeList[i][1]] # MCInf } }) ]

\* (The set with one element makes TLC compute the previous row once.)
MCHopDist ==
  LET hop[k \in 0 .. num_nodes - 1] ==
        IF k = 0 THEN [ v \in Node |-> IF v = 0 THEN 0 ELSE MCInf ]
        ELSE CHOOSE row \in { MCNextRow(prev) : prev \in {hop[k - 1]} } : TRUE
  IN  hop
=============================================================================
