----------------------------- MODULE TaskGraph -----------------------------
(***************************************************************************)
(* The task graphs of a1 as taskgraph.py accepts them, and the schedules   *)
(* des.py accepts for one.                                                 *)
(***************************************************************************)
EXTENDS Integers, FiniteSets

CONSTANTS
  nodes,    \* the number of tasks
  Graphs    \* the task graphs to look at

Task == 0 .. nodes - 1

\* g.cost[x] is the time of task x, g.src[x] the tasks it depends on.
\* taskgraph.py asserts the types and the positive times; that the edges
\* form no cycle is not checked anywhere, but no other graph has a schedule.
ASSUME GraphsAssumption ==
  /\ nodes \in Nat \ {0}
  /\ \A g \in Graphs :
       /\ DOMAIN g = {"cost", "src"}
       /\ g.cost \in [Task -> Nat \ {0}]
       /\ g.src \in [Task -> SUBSET Task]
       /\ \E level \in [Task -> Task] :
            \A x \in Task : \A y \in g.src[x] : level[y] < level[x]

\* Schedule.read and Schedule.simulate: proc[x] and start[x] are the
\* processor and the start time of task x; nproc is 0 for any number.
Accepts(g, nproc, proc, start) ==
  /\ \A x \in Task : proc[x] >= 0 /\ start[x] >= 0
  /\ nproc # 0 => \A x \in Task : proc[x] < nproc
  /\ \A x \in Task : \A p \in g.src[x] : start[p] + g.cost[p] <= start[x]
  /\ \A x, y \in Task :
       x # y /\ proc[x] = proc[y] =>
         start[x] + g.cost[x] <= start[y] \/ start[y] + g.cost[y] <= start[x]
=============================================================================
