------------------------------ MODULE Machine ------------------------------
(***************************************************************************)
(* The two machines of offsched.  InfiniteResourceMachine (nproc = 0) has  *)
(* as many cores as there are tasks, in a list used as a stack.            *)
(* ResourceRestrainedMachine has nproc cores in a priority queue, the one  *)
(* that has been given the least work first.  The order in which Python    *)
(* goes through a set, and the order of equal cores, are left open.        *)
(***************************************************************************)
EXTENDS DepGraph, Sequences, Functions

CONSTANT Procs          \* the values of nproc to look at
ASSUME ProcsAssumption == Procs \subseteq Nat

VARIABLES
  nproc,
  stack,                \* the free cores of the first machine
  queue,                \* the free cores of the second
  execution_time,       \* execution_time[c]: the work given to core c
  max,                  \* the largest core ever taken from the stack
  processor             \* processor[x]: the core of task x, -1 for None

machineVars == <<nproc, stack, queue, execution_time, max, processor>>

Core == IF nproc = 0 THEN Task ELSE 0 .. nproc - 1

MachineInit ==
  /\ nproc \in Procs
  /\ stack = IF nproc = 0 THEN [k \in 1 .. nodes |-> k - 1] ELSE <<>>
  /\ queue = IF nproc = 0 THEN {} ELSE 0 .. nproc - 1
  /\ execution_time = [c \in Core |-> 0]
  /\ max = 0
  /\ processor = [x \in Task |-> -1]

MaxOf(S) == CHOOSE m \in S : \A n \in S : n <= m

\* The tasks get the cores core gives them, on top of what they have been.
TakeCores(core) ==
  processor' = [x \in Task |-> IF x \in DOMAIN core THEN core[x] ELSE processor[x]]

\* InfiniteResourceMachine.assign_cores: there are always enough cores.
PopFromStack(S) ==
  LET k == Cardinality(S)
  IN  /\ nproc = 0
      /\ k <= Len(stack)
      /\ \E core \in Bijection(S, { stack[j] : j \in 1 .. k }) :
           /\ TakeCores(core)
           /\ max' = MaxOf({max} \cup Range(core))
      /\ stack' = SubSeq(stack, k + 1, Len(stack))
      /\ UNCHANGED <<nproc, queue, execution_time>>

\* The tasks in the domain of core get the free cores with the least work.
PopFromQueue(core) ==
  /\ \A c \in Range(core), d \in queue \ Range(core) :
       execution_time[c] <= execution_time[d]
  /\ TakeCores(core)
  /\ queue' = queue \ Range(core)
  /\ execution_time' =
       [c \in Core |-> IF c \in Range(core)
                       THEN execution_time[c] + time[CHOOSE x \in DOMAIN core : core[x] = c]
                       ELSE execution_time[c]]
  /\ UNCHANGED <<nproc, stack, max>>

\* ResourceRestrainedMachine.assign_cores when there is a core for each task.
AssignAll(S) ==
  /\ nproc # 0
  /\ Cardinality(S) <= Cardinality(queue)
  /\ \E core \in Injection(S, queue) : PopFromQueue(core)

\* The strategy shortest_remaining_time_first sorts by -time: the tasks that
\* get a core are not shorter than those that get none, and a longer one is
\* served before a shorter one.
LongestFirst(S, core) ==
  /\ \A x \in DOMAIN core, y \in S \ DOMAIN core : time[x] >= time[y]
  /\ \A x, y \in DOMAIN core :
       time[x] > time[y] => execution_time[core[x]] <= execution_time[core[y]]

\* Faulty: one core too few is used.
AssignTooFew(S) ==
  /\ nproc # 0
  /\ Cardinality(S) > Cardinality(queue)
  /\ \E A \in SUBSET S : \E core \in Injection(A, queue) :
       /\ Cardinality(A) = MaxOf({0, Cardinality(queue) - 1})
       /\ LongestFirst(S, core)
       /\ PopFromQueue(core)
       /\ Rollback(S \ A)

\* The same when there are more tasks than cores, the others are rolled back.
AssignSome(S) ==
  /\ nproc # 0
  /\ Cardinality(S) > Cardinality(queue)
  /\ \E A \in SUBSET S : \E core \in Bijection(A, queue) :
       /\ LongestFirst(S, core)
       /\ PopFromQueue(core)
       /\ Rollback(S \ A)

\* Faulty: the cores are put at the end of the list.
YieldAtEnd(S) ==
  /\ \/ /\ nproc = 0
        /\ \E back \in Bijection(1 .. Cardinality(S), S) :
             stack' = stack \o [k \in DOMAIN back |-> processor[back[k]]]
        /\ UNCHANGED queue
     \/ /\ nproc # 0
        /\ queue' = queue \cup { processor[x] : x \in S }
        /\ UNCHANGED stack
  /\ UNCHANGED <<nproc, execution_time, max, processor>>

\* yield_cores: the cores of the tasks in S are free again.
YieldCores(S) ==
  /\ \/ /\ nproc = 0
        /\ \E back \in Bijection(1 .. Cardinality(S), S) :
             stack' = [k \in DOMAIN back |-> processor[back[k]]] \o stack
        /\ UNCHANGED queue
     \/ /\ nproc # 0
        /\ queue' = queue \cup { processor[x] : x \in S }
        /\ UNCHANGED stack
  /\ UNCHANGED <<nproc, execution_time, max, processor>>
=============================================================================
