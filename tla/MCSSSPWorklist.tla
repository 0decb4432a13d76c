--------------------------- MODULE MCSSSPWorklist ---------------------------
\* Instances of SSSPWorklist for TLC.
EXTENDS SSSPWorklist, MCGraph

\* main: bq.initialize(input.num_edges * 2)
MCCapacity == num_edges * 2

(***************************************************************************)
(* A graph (with parallel edges) that fills the queue with one thread.     *)
(* Node 0 queues spoke, hub, spoke, hub, ...; every spoke lowers the       *)
(* distance of the hub, and every time the hub is taken from the queue its *)
(* edges lower the distance of the leaf one after the other, and queue it  *)
(* every time.                                                             *)
(***************************************************************************)
spokes == 4
rays == 11
hub == spokes + 1
leaf == spokes + 2
Burst ==
  [ x \in 1 .. 3 * spokes + rays |->
      IF x > 3 * spokes THEN <<hub, leaf, 3 * spokes + rays + 1 - x>>
      ELSE IF x > 2 * spokes THEN <<x - 2 * spokes, hub, rays * (3 * spokes - x)>>
      ELSE IF x % 2 = 1 THEN <<0, (x + 1) \div 2, 1>>
      ELSE <<0, hub, rays * spokes + 2 * spokes - x>> ]
=======================================================
