------------------------------ MODULE DepGraph ------------------------------
(***************************************************************************)
(* The class DepGraph of offsched: the tasks in three pools, those that    *)
(* wait, those that run and those that are done.                           *)
(***************************************************************************)
EXTENDS TaskGraph

VARIABLES
  graph,         \* the graph in the file
  deps_pool,     \* the tasks that wait, for other tasks or for a core
  no_deps_pool,  \* the tasks that run, or are about to get a core
  done_set,
  time,          \* time[x]: what is left of the time of task x
  starttime,
  endtime

poolVars == <<graph, deps_pool, no_deps_pool, done_set, time, starttime, endtime>>

\* DepGraph.__init__: reading the file.
DepGraphInit ==
  /\ graph \in Graphs
  /\ deps_pool = { x \in Task : graph.src[x] # {} }
  /\ no_deps_pool = Task \ deps_pool
  /\ done_set = {}
  /\ time = graph.cost
  /\ starttime = [x \in Task |-> -1]
  /\ endtime = [x \in Task |-> -1]

\* Set the start and the end of the tasks in S.
SetTimes(S, at) ==
  /\ starttime' = [x \in Task |-> IF x \in S THEN at ELSE starttime[x]]
  /\ endtime' = [x \in Task |-> IF x \in S THEN at + time[x] ELSE endtime[x]]

\* Faulty: one dependence that is done is enough.
ReadyByOne ==
  { x \in deps_pool : graph.src[x] = {} \/ graph.src[x] \cap done_set # {} }

\* new_no_deps: the waiting tasks whose dependences are done.
Ready == { x \in deps_pool : graph.src[x] \subseteq done_set }

\* commit
Commit(S) ==
  /\ no_deps_pool' = no_deps_pool \cup S
  /\ deps_pool' = deps_pool \ S

\* rollback: the tasks in S have got no core.
Rollback(S) ==
  /\ no_deps_pool' = no_deps_pool \ S
  /\ deps_pool' = deps_pool \cup S

\* Faulty: the minimum of all tasks, also of those that are done.
ShortestOfAll == CHOOSE d \in { time[x] : x \in Task } : \A x \in Task : d <= time[x]

\* find_shortest_time; min() of an empty pool raises an exception.
ShortestTime == CHOOSE d \in { time[x] : x \in no_deps_pool } :
                  \A x \in no_deps_pool : d <= time[x]

\* update_no_dep_nodes_time: the tasks in the pool run for d time units.
UpdateTimes(d) ==
  LET finished == { x \in no_deps_pool : time[x] = d }
  IN  /\ time' = [x \in Task |-> IF x \in no_deps_pool THEN time[x] - d ELSE time[x]]
      /\ done_set' = done_set \cup finished
      /\ no_deps_pool' = no_deps_pool \ finished

DepPoolsEmpty == deps_pool = {} /\ no_deps_pool = {}
=============================================================================
