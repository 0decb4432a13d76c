----------------------------- MODULE SSSPSerial -----------------------------
(***************************************************************************)
(* The sequential programs, from the file to the output: a2/sssp_serial    *)
(* runs rounds over all nodes, a4/sssp_serial has a queue of the nodes to  *)
(* look at.  "copy" stands for a caller of save_file, which no program of  *)
(* the repository uses.  One action is one edge.                           *)
(***************************************************************************)
EXTENDS GraphFile, SerialQueue, FiniteSetsExt

CONSTANT INF   \* INT_MAX, above every distance
ASSUME INFAssumption == INF \in Nat \ {0}

src == 0
InitDist(n) == IF n = src THEN 0 ELSE INF

\* Shortest distances, computed from the file alone: row k of the table of
\* Bellman and Ford is about the walks of at most k edges.
OneMoreEdge(f, row) ==
  [ v \in 0 .. f.nodes - 1 |->
      Min({row[v]} \cup { row[f.edges[k].src] + f.edges[k].wt :
                            k \in { j \in 1 .. f.count : /\ f.edges[j].dst = v
                                                         /\ row[f.edges[j].src] # INF } }) ]
HopDist(f) ==
  LET hop[k \in 0 .. f.nodes] ==
        IF k = 0 THEN [v \in 0 .. f.nodes - 1 |-> InitDist(v)]
        ELSE OneMoreEdge(f, hop[k - 1])
  IN  hop

\* No cycle of negative weight can be reached: the distances can get no lower.
ASSUME NoNegativeCycle ==
  \A f \in Files :
    f.status = "header" /\ f.count <= Len(f.edges) =>
      LET dist == HopDist(f)[f.nodes - 1]
      IN  \A k \in 1 .. f.count :
            dist[f.edges[k].src] # INF =>
              dist[f.edges[k].dst] <= dist[f.edges[k].src] + f.edges[k].wt

VARIABLES
  program,   \* "rounds" (a2), "queue" (a4) or "copy"
  node_wt,
  node,      \* the node whose edges are relaxed
  edge,      \* the loop variable "e" of sssp
  changed, rounds,
  sq         \* the queue of a4

serialVars == <<node_wt, node, edge, changed, rounds, sq>>
vars == <<fileVars, program, serialVars>>

Node == 0 .. num_nodes - 1

Init ==
  /\ LoadInit
  /\ program \in {"rounds", "queue", "copy"}
  /\ node_wt = <<>>
  /\ node = 0 /\ edge = 0
  /\ changed = FALSE /\ rounds = 0
  /\ sq = NewQueue(0)

\* For num_edges < 0 the rows end at a large unsigned number, in arrays that
\* calloc has not given, for a program that looks at a row.
MissingArrays ==
  /\ num_edges < 0
  /\ program = "rounds" => num_nodes > 1
  /\ program = "copy" => num_nodes > 0

\* Nothing is claimed of what the program does with them.
UseMissingArrays ==
  /\ pc = "loaded" /\ MissingArrays
  /\ pc' = "undefined"
  /\ UNCHANGED <<file, graphVars, i, last_src, e, out, lost, program, serialVars>>

\* sssp_init; a4 also makes the queue and pushes the source, not looking at
\* the result: without an edge there is no room for it.
SSSPInit ==
  /\ pc = "loaded"
  /\ program \in {"rounds", "queue"} /\ ~MissingArrays
  /\ node_wt' = [n \in Node |-> InitDist(n)]
  /\ LET empty == NewQueue(num_edges * 2)
     IN  IF program = "queue" /\ ~IsFull(empty) THEN sq' = Pushed(empty, src) ELSE UNCHANGED sq
  /\ pc' = IF program = "queue" THEN "pop" ELSE "round"
  /\ UNCHANGED <<file, graphVars, i, last_src, e, out, lost, program, node, edge, changed, rounds>>

\* What the steps of sssp leave alone.
Graph == <<file, graphVars, i, last_src, e, out, lost, program>>

\* The edge improves its destination.
Improves ==
  node_wt[node] + edge_wt[edge] < node_wt[edge_dst[edge]]
Lowered ==
  [node_wt EXCEPT ![edge_dst[edge]] = node_wt[node] + edge_wt[edge]]

-----------------------------------------------------------------------------
\* a2: the test of main's loop and the entry of sssp_round.
Round ==
  /\ pc = "round"
  /\ \/ rounds < num_nodes - 1 /\ pc' = "node"
     \/ rounds >= num_nodes - 1 /\ pc' = "write"
  /\ node' = 0 /\ changed' = FALSE
  /\ UNCHANGED <<Graph, node_wt, edge, rounds, sq>>

\* The loop over the nodes; its end is the return to main: rounds++ or break.
VisitNode ==
  /\ pc = "node"
  /\ \/ /\ node < num_nodes /\ node_wt[node] = INF
        /\ node' = node + 1
        /\ UNCHANGED <<pc, edge, rounds>>
     \/ /\ node < num_nodes /\ node_wt[node] # INF
        /\ edge' = row_start[node]
        /\ pc' = "edge"
        /\ UNCHANGED <<node, rounds>>
     \/ /\ node >= num_nodes
        /\ IF changed THEN rounds' = rounds + 1 /\ pc' = "round"
                      ELSE pc' = "write" /\ UNCHANGED rounds
        /\ UNCHANGED <<node, edge>>
  /\ UNCHANGED <<Graph, node_wt, changed, sq>>

\* Faulty: "changed" is what the last edge did.
RelaxEdgeForgets ==
  /\ pc = "edge"
  /\ \/ /\ edge < row_start[node + 1]
        /\ changed' = Improves
        /\ node_wt' = IF Improves THEN Lowered ELSE node_wt
        /\ edge' = edge + 1
        /\ UNCHANGED <<pc, node>>
     \/ /\ edge >= row_start[node + 1]
        /\ node' = node + 1
        /\ pc' = "node"
        /\ UNCHANGED <<node_wt, edge, changed>>
  /\ UNCHANGED <<Graph, rounds, sq>>

\* The loop over the edges of the node.
RelaxEdge ==
  /\ pc = "edge"
  /\ \/ /\ edge < row_start[node + 1]
        /\ IF Improves THEN node_wt' = Lowered /\ changed' = TRUE
                       ELSE UNCHANGED <<node_wt, changed>>
        /\ edge' = edge + 1
        /\ UNCHANGED <<pc, node>>
     \/ /\ edge >= row_start[node + 1]
        /\ node' = node + 1
        /\ pc' = "node"
        /\ UNCHANGED <<node_wt, edge, changed>>
  /\ UNCHANGED <<Graph, rounds, sq>>

-----------------------------------------------------------------------------
\* Faulty: the queue is tested for one item too early, the last stays in it.
PopButLast ==
  /\ pc = "pop"
  /\ \/ /\ IsEmpty(Popped(sq)) \/ IsEmpty(sq)
        /\ pc' = "write"
        /\ UNCHANGED <<node, edge, sq>>
     \/ /\ ~IsEmpty(Popped(sq)) /\ ~IsEmpty(sq)
        /\ node' = FirstItem(sq)
        /\ edge' = row_start[FirstItem(sq)]
        /\ sq' = Popped(sq)
        /\ pc' = "relax"
  /\ UNCHANGED <<Graph, node_wt, changed, rounds>>

\* a4: while (q->pop(node))
Pop ==
  /\ pc = "pop"
  /\ \/ /\ IsEmpty(sq)
        /\ pc' = "write"
        /\ UNCHANGED <<node, edge, sq>>
     \/ /\ ~IsEmpty(sq)
        /\ node' = FirstItem(sq)
        /\ edge' = row_start[FirstItem(sq)]
        /\ sq' = Popped(sq)
        /\ pc' = "relax"
  /\ UNCHANGED <<Graph, node_wt, changed, rounds>>

\* An edge of the node: lower and push, or give up when the queue is full.
RelaxAndPush ==
  /\ pc = "relax"
  /\ \/ /\ edge < row_start[node + 1] /\ ~Improves
        /\ edge' = edge + 1
        /\ UNCHANGED <<pc, node_wt, sq>>
     \/ /\ edge < row_start[node + 1] /\ Improves
        /\ node_wt' = Lowered
        /\ IF IsFull(sq) THEN pc' = "exitFull" /\ UNCHANGED <<edge, sq>>
           ELSE /\ sq' = Pushed(sq, edge_dst[edge])
                /\ edge' = edge + 1
                /\ UNCHANGED pc
     \/ /\ edge >= row_start[node + 1]
        /\ pc' = "pop"
        /\ UNCHANGED <<node_wt, edge, sq>>
  /\ UNCHANGED <<Graph, node, changed, rounds>>

-----------------------------------------------------------------------------
\* The line of write_output for node n.
OutputLine(n, d) == <<n, IF d = INF THEN "INF" ELSE d>>

\* write_output: one line per node.  Opening the file and writing can fail; the
\* file is never closed, so that the last lines may also be lost in silence.
WriteOutput ==
  /\ pc = "write"
  /\ pc' \in {"done", "exit write"}
  /\ Written([k \in 1 .. num_nodes |-> OutputLine(k - 1, node_wt[k - 1])])
  /\ UNCHANGED <<file, graphVars, i, last_src, e, program, serialVars>>

Ended == {"done", "saved", "failed", "exit", "exitFull", "exit write", "undefined"}
Terminating ==
  /\ pc \in Ended
  /\ UNCHANGED vars

MainStep ==
  \/ LoadStep /\ UNCHANGED <<program, serialVars>>
  \/ SaveStep /\ program = "copy" /\ ~MissingArrays /\ UNCHANGED <<program, serialVars>>
  \/ UseMissingArrays
  \/ SSSPInit
  \/ Round
  \/ VisitNode
  \/ RelaxEdge
  \/ Pop
  \/ RelaxAndPush
  \/ WriteOutput

Next == MainStep \/ Terminating

Spec == Init /\ [][Next]_vars
FairSpec == Spec /\ WF_vars(MainStep)

-----------------------------------------------------------------------------
TrueDist == HopDist(file)[file.nodes - 1]

\* Both programs write the table of shortest distances of the file's graph,
\* but for the lines that were lost, which come last.
FinalOutput ==
  pc = "done" /\ file.status \notin OddHeader =>
    LET lines == [k \in 1 .. file.nodes |-> OutputLine(k - 1, TrueDist[k - 1])]
    IN  /\ out = SubSeq(lines, 1, Len(out))
        /\ lost = 0 => out = lines

\* a4: while an edge can lower a distance, its node is in the queue or being
\* looked at; when the loop ends there is nothing left to do.
WorkQueued ==
  pc \in {"pop", "relax", "write"} /\ program = "queue" /\ file.status \notin OddHeader =>
    \A k \in 0 .. num_edges - 1 :
      LET n == file.edges[k + 1].src
      IN  \/ node_wt[n] = INF \/ node_wt[edge_dst[k]] <= node_wt[n] + edge_wt[k]
          \/ pc # "write" /\ n \in Queued(sq)
          \/ pc = "relax" /\ n = node /\ edge <= k

\* The program ends: with its output, with an error it has told, or after an
\* odd header in a step whose outcome C++ does not define.
Termination == <>(pc \in Ended)
=============================================================================
