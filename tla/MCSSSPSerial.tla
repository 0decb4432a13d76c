---- MODULE MCSSSPSerial ----
(* SSSPSerial on all small files, with sources in any order and with fewer *)
(* edges than the header says, and on some larger ones.                    *)
EXTENDS SSSPSerial

CONSTANTS MCNodes, MCEdges, MCWeights

File(n, count, edges) == [status |-> "header", nodes |-> n, count |-> count, edges |-> edges]
Edges(list) == [k \in DOMAIN list |-> [src |-> list[k][1], dst |-> list[k][2], wt |-> list[k][3]]]

\* All lists of at most MCEdges edges; the header may ask for one more.
SmallFiles ==
  LET E == { ed \in [src : 0 .. MCNodes - 1, dst : 0 .. MCNodes - 1, wt : MCWeights] : ed.src # ed.dst }
  IN  { File(MCNodes, len + more, edges) :
          <<len, more, edges>> \in
             { x \in (0 .. MCEdges) \X (0 .. 1) \X UNION { [1 .. len -> E] : len \in 0 .. MCEdges } :
                 Len(x[3]) = x[1] /\ (x[2] = 1 => x[1] < MCEdges) } }

\* inputs/graphs/simplegr.txt, with edges of weight 0.
SimpleGr ==
  File(6, 8, Edges(<< <<0, 1, 17>>, <<0, 2, 10>>, <<1, 3, 2>>, <<2, 4, 0>>,
                      <<3, 2, 0>>, <<3, 5, 3>>, <<4, 1, 0>>, <<4, 5, 20>> >>))

\* The edges of the longest shortest path lead back, so that several rounds are
\* needed; and a loop.
BackwardFile ==
  File(5, 8, Edges(<< <<0, 1, 9>>, <<0, 4, 1>>, <<1, 0, 1>>, <<1, 1, 1>>, <<1, 3, 1>>,
                      <<2, 1, 1>>, <<3, 2, 1>>, <<4, 3, 1>> >>))

\* A walk of two edges is shorter than the edge to the same node, by a weight
\* below 0; the node behind it is reached twice.
NegativeFile ==
  File(4, 4, Edges(<< <<0, 1, 5>>, <<0, 2, 1>>, <<1, 2, -5>>, <<2, 3, 0>> >>))

\* The queue of a4 gets full: node 0 queues spoke, hub, spoke, hub, ...; every
\* spoke lowers the distance of the hub, and every time the hub is taken from
\* the queue it queues the leaf once for each of its edges.
FullQueue ==
  File(7, 23, Edges([x \in 1 .. 23 |->
    IF x > 12 THEN <<5, 6, 24 - x>>
    ELSE IF x > 8 THEN <<x - 8, 5, 11 * (12 - x)>>
    ELSE IF x % 2 = 1 THEN <<0, (x + 1) \div 2, 1>>
    ELSE <<0, 5, 52 - x>>]))

\* Headers that are no graph's, with two numbers, one or none.
OddFiles ==
  { [File(n, m, <<>>) EXCEPT !.status = s] : <<n, m, s>> \in
      { x \in (-1 .. 2) \X (-1 .. 1) \X OddHeader : x[3] = "negative" => x[1] < 0 \/ x[2] < 0 } }

MCLeftovers == -1 .. 2

MCFiles ==
  SmallFiles \cup {SimpleGr, BackwardFile, NegativeFile, FullQueue} \cup OddFiles \cup
  { [File(0, 0, <<>>) EXCEPT !.status = s] : s \in FileStatus \ OddHeader }
====
