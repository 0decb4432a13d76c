------------------------------ MODULE OffSched ------------------------------
(***************************************************************************)
(* Scheduler.schedule of offsched, one action for each call of the loop:   *)
(* let the running tasks run until one is done, give the cores back, look  *)
(* which tasks can start, give them cores.                                 *)
(***************************************************************************)
EXTENDS Machine

VARIABLES
  pc,              \* the call that comes next
  current_time,
  fresh            \* the result of the last call: the tasks done or ready

loopVars == <<current_time, fresh>>
vars == <<poolVars, machineVars, pc, loopVars>>

Init ==
  /\ DepGraphInit
  /\ MachineInit
  /\ pc = "first"
  /\ current_time = 0
  /\ fresh = {}

\* while not self.done()
LoopTest == pc' = IF DepPoolsEmpty' THEN "done" ELSE "process"

\* assign_cores; S is the set of tasks, and after it those without a core
\* are back among the waiting ones.
AssignCores(S) ==
  \/ PopFromStack(S) /\ UNCHANGED <<deps_pool, no_deps_pool>>
  \/ AssignAll(S) /\ UNCHANGED <<deps_pool, no_deps_pool>>
  \/ AssignSome(S)

\* The cores for the tasks that depend on nothing.
FirstTasks ==
  /\ pc = "first"
  /\ AssignCores(no_deps_pool)
  /\ SetTimes(no_deps_pool', 0)
  /\ LoopTest
  /\ UNCHANGED <<graph, done_set, time, loopVars>>

\* processing_until_done
Process ==
  /\ pc = "process"
  /\ no_deps_pool # {}
  /\ UpdateTimes(ShortestTime)
  /\ current_time' = current_time + ShortestTime
  /\ fresh' = done_set' \ done_set
  /\ pc' = "yield"
  /\ UNCHANGED <<graph, deps_pool, starttime, endtime, machineVars>>

\* Faulty: the cores are not given back.
KeepCores ==
  /\ pc = "yield"
  /\ pc' = "ready"
  /\ UNCHANGED <<poolVars, machineVars, loopVars>>

\* yield_cores
Yield ==
  /\ pc = "yield"
  /\ YieldCores(fresh)
  /\ pc' = "ready"
  /\ UNCHANGED <<poolVars, loopVars>>

\* new_no_deps and commit
NewTasks ==
  /\ pc = "ready"
  /\ SetTimes(Ready, current_time)
  /\ fresh' = Ready
  /\ \/ Ready = {} /\ UNCHANGED <<deps_pool, no_deps_pool>> /\ LoopTest
     \/ Ready # {} /\ Commit(Ready) /\ pc' = "assign"
  /\ UNCHANGED <<graph, done_set, time, machineVars, current_time>>

AssignTasks ==
  /\ pc = "assign"
  /\ AssignCores(fresh)
  /\ LoopTest
  /\ UNCHANGED <<graph, done_set, time, starttime, endtime, loopVars>>

\* The schedule is written.
Terminating == pc = "done" /\ UNCHANGED vars

Next ==
  FirstTasks \/ Process \/ Yield \/ NewTasks \/ AssignTasks \/ Terminating

Spec == Init /\ [][Next]_vars

\* A sequential program: it goes on while it can.
FairSpec == Spec /\ WF_vars(Next)

-----------------------------------------------------------------------------
(***************************************************************************)
(* What schedule prints when nproc is 0.                                   *)
(***************************************************************************)

\* core_usage: the number of cores the stack has given out.
CoreUsage == max + 1

LastEnd == MaxOf({ endtime[x] : x \in Task })

\* aux returns the index of a task that ends last, and filter drops an index
\* that is false, that is, 0.
CriticalEnds == { x \in Task : endtime[x] = LastEnd /\ x # 0 }

\* The dependences of task x that end last.
CriticalDeps(x) ==
  { y \in graph.src[x] : \A z \in graph.src[x] : endtime[z] <= endtime[y] }

\* The tasks found in up to n steps back, and all of them.
Solved[n \in Nat] ==
  IF n = 0 THEN CriticalEnds
  ELSE Solved[n - 1] \cup UNION { CriticalDeps(x) : x \in Solved[n - 1] }

TasksOnCriticalPath == Cardinality(Solved[nodes])

-----------------------------------------------------------------------------
(***************************************************************************)
(* What the scheduler must give.                                           *)
(***************************************************************************)

\* The schedule that is written is one des.py accepts: every dependence and
\* every processor is respected, although tasks without a core are put back.
FinalSchedule ==
  pc = "done" => Accepts(graph, nproc, processor, starttime)

\* The tasks that have a core now.
Holders == CASE pc = "first"  -> {}
             [] pc = "yield"  -> no_deps_pool \cup fresh
             [] pc = "assign" -> no_deps_pool \ fresh
             [] OTHER         -> no_deps_pool

FreeCores == IF nproc = 0 THEN Range(stack) ELSE queue

\* No core is lost or given to two tasks: the free ones and those of the
\* running tasks are all the cores, each once.
CoresAccounted ==
  /\ { processor[x] : x \in Holders } = Core \ FreeCores
  /\ \A x, y \in Holders : x # y => processor[x] # processor[y]
  /\ nproc = 0 => Cardinality(Range(stack)) = Len(stack)

\* No core is idle while a task could run on it.
Greedy == pc = "process" => Ready = {} \/ FreeCores = {}

\* The time of the longest chain of dependences that ends with task x.
Chain[x \in Task] ==
  graph.cost[x] + MaxOf({0} \cup { Chain[y] : y \in graph.src[x] })

LongestChain == MaxOf({ Chain[x] : x \in Task })

\* How many tasks run at time u.
RunningAt(u) == Cardinality({ x \in Task : starttime[x] <= u /\ u < endtime[x] })

\* The chains through task x to one of the tasks in ends: the time behind x,
\* or -1 if there is none.
Behind(ends) ==
  LET rest[x \in Task] ==
        MaxOf((IF x \in ends THEN {0} ELSE {-1}) \cup
              { graph.cost[y] + rest[y] : y \in { z \in Task : x \in graph.src[z] /\ rest[z] >= 0 } })
  IN  rest

\* The tasks on a longest chain that ends with one of the tasks in ends.
OnLongestChain(ends) ==
  { x \in Task : Behind(ends)[x] >= 0 /\ Chain[x] + Behind(ends)[x] = LongestChain }

\* Without a limit every task starts as soon as it can, the number of cores
\* that is printed is the largest number of tasks running at a time, and the
\* number of tasks that is printed counts those on the longest chains that
\* end with another task than 0; with nproc cores the schedule keeps
\* Graham's bound for list scheduling.
GoodSchedule ==
  pc = "done" =>
    IF nproc = 0
    THEN /\ \A x \in Task : endtime[x] = Chain[x]
         /\ CoreUsage = MaxOf({ RunningAt(u) : u \in 0 .. LastEnd })
         /\ TasksOnCriticalPath = Cardinality(OnLongestChain(Task \ {0}))
    ELSE nproc * LastEnd <= SumFunction(graph.cost) + (nproc - 1) * LongestChain

\* Every task is scheduled: the pool is never empty while tasks are left.
Termination == <>(pc = "done")
=============================================================================
