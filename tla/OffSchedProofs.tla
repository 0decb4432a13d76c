--------------------------- MODULE OffSchedProofs ---------------------------
(***************************************************************************)
(* offsched writes a schedule that des.py accepts, for every task graph    *)
(* and every number of processors: no core is lost or given to two tasks,  *)
(* none is idle while a task is ready, and a task starts when its          *)
(* dependences have ended on a core that is free.                          *)
(***************************************************************************)
EXTENDS OffSched, FiniteSetTheorems, WellFoundedInduction, TLAPS

\* The tasks that have had a core.
Started == done_set \cup Holders

\* The three pools divide the tasks; what Ready would find is in fresh.
PoolsOK ==
  /\ graph \in Graphs
  /\ deps_pool \cup no_deps_pool \cup done_set = Task
  /\ deps_pool \cap no_deps_pool = {} /\ deps_pool \cap done_set = {} /\ no_deps_pool \cap done_set = {}
  /\ pc \in {"first", "process", "yield", "ready", "assign", "done"}
  /\ pc = "first" => done_set = {}
  /\ pc = "yield" => fresh \subseteq done_set
  /\ pc = "assign" => fresh \subseteq no_deps_pool
  /\ pc \in {"first", "assign"} => Ready = {}
  /\ pc = "done" => done_set = Task

\* The cores: those of the stack are all different.
CoresOK ==
  /\ nproc \in Nat
  /\ stack \in Seq(Core)
  /\ \A j, k \in DOMAIN stack : stack[j] = stack[k] => j = k
  /\ queue \subseteq Core
  /\ processor \in [Task -> Core \cup {-1}]
  /\ \A x \in Task : processor[x] \in Core <=> x \in Started
  /\ { processor[x] : x \in Holders } = Core \ FreeCores
  /\ \A x, y \in Holders : x # y => processor[x] # processor[y]

\* The times of the tasks: what is left of a task is what is left until its end.
TimesOK ==
  /\ current_time \in Nat
  /\ time \in [Task -> Nat] /\ starttime \in [Task -> Int] /\ endtime \in [Task -> Int]
  /\ \A x \in deps_pool : time[x] = graph.cost[x]
  /\ \A x \in no_deps_pool : time[x] > 0
  /\ pc = "first" => current_time = 0 /\ \A x \in no_deps_pool : time[x] = graph.cost[x]
  /\ pc = "assign" =>
       \A x \in fresh : time[x] = graph.cost[x] /\ starttime[x] = current_time
  /\ pc # "first" => \A x \in no_deps_pool :
       /\ starttime[x] >= 0
       /\ endtime[x] = starttime[x] + graph.cost[x]
       /\ endtime[x] = current_time + time[x]
  /\ \A x \in done_set :
       /\ starttime[x] >= 0
       /\ endtime[x] = starttime[x] + graph.cost[x]
       /\ endtime[x] <= current_time

\* A task runs after the tasks it depends on.
DepsOK ==
  \A x \in no_deps_pool \cup done_set :
    /\ graph.src[x] \subseteq done_set
    /\ pc # "first" => \A p \in graph.src[x] : endtime[p] <= starttime[x]

\* Tasks that have had the same core have had it one after the other.
ExclusiveOK ==
  \A x, y \in Started :
    x # y /\ processor[x] = processor[y] =>
      endtime[x] <= starttime[y] \/ endtime[y] <= starttime[x]

IInv == PoolsOK /\ CoresOK /\ TimesOK /\ DepsOK /\ ExclusiveOK /\ Greedy
-----------------------------------------------------------------------------
(***************************************************************************)
(* The numbers of tasks and cores.                                         *)
(***************************************************************************)
LEMMA TasksFinite ==
  ASSUME NEW S \in SUBSET Task
  PROVE  IsFiniteSet(S) /\ Cardinality(S) \in Nat
<1>1. IsFiniteSet(Task)
  <2>1. 0 \in Int /\ nodes - 1 \in Int
    BY GraphsAssumption
  <2>2. IsFiniteSet(0 .. nodes - 1)
    BY <2>1, FS_Interval, Zenon
  <2>. QED
    BY <2>2 DEF Task
<1>. QED
  BY <1>1, FS_Subset, FS_CardinalityType

\* A sequence whose elements are all different has as many as it is long.
LEMMA DistinctSeq ==
  ASSUME NEW C, NEW s \in Seq(C), \A j, k \in DOMAIN s : s[j] = s[k] => j = k
  PROVE  Cardinality(Range(s)) = Len(s)
<1>1. Len(s) \in Nat /\ DOMAIN s = 1 .. Len(s)
  OBVIOUS
<1>2. s \in Bijection(1 .. Len(s), Range(s))
  <2>1. s \in [1 .. Len(s) -> Range(s)]
    BY <1>1 DEF Range
  <2>2. s \in Injection(1 .. Len(s), Range(s))
    BY <1>1, <2>1 DEF Injection, IsInjective
  <2>3. s \in Surjection(1 .. Len(s), Range(s))
    BY <1>1, <2>1 DEF Surjection, Range
  <2>. QED
    BY <2>2, <2>3 DEF Bijection
<1>3. IsFiniteSet(1 .. Len(s)) /\ Cardinality(1 .. Len(s)) = Len(s)
  <2>1. 1 \in Int /\ Len(s) \in Int
    BY <1>1
  <2>2. /\ IsFiniteSet(1 .. Len(s))
        /\ Cardinality(1 .. Len(s)) = IF 1 > Len(s) THEN 0 ELSE Len(s) - 1 + 1
    BY <2>1, FS_Interval
  <2>. QED
    BY <1>1, <2>2
<1>. QED
  BY <1>2, <1>3, FS_Bijection DEF ExistsBijection

\* The tasks A of S get cores, and the others are back among the waiting ones.
Served(S, A, core) ==
  /\ \A x, y \in A : core[x] = core[y] => x = y
  /\ processor' = [x \in Task |-> IF x \in A THEN core[x] ELSE processor[x]]
  /\ FreeCores' = FreeCores \ { core[x] : x \in A }
  /\ nproc' = nproc /\ stack' \in Seq(Core) /\ queue' \subseteq Core
  /\ \A j, k \in DOMAIN stack' : stack'[j] = stack'[k] => j = k
  /\ no_deps_pool' = no_deps_pool \ (S \ A)
  /\ deps_pool' = deps_pool \cup (S \ A)
  /\ A = S \/ FreeCores' = {}

\* What assign_cores does, whichever machine it is: some of the tasks get free
\* cores, each one of its own; if not all of them do, no core is left.
LEMMA Assigned ==
  ASSUME CoresOK, NEW S \in SUBSET Task, AssignCores(S)
  PROVE  \E A \in SUBSET S : \E core \in [A -> FreeCores] : Served(S, A, core)
<1>0. /\ nproc \in Nat /\ stack \in Seq(Core) /\ queue \subseteq Core
      /\ \A j, k \in DOMAIN stack : stack[j] = stack[k] => j = k
  BY DEF CoresOK
<1>1. CASE PopFromStack(S) /\ UNCHANGED <<deps_pool, no_deps_pool>>
  <2>. DEFINE m == Cardinality(S)
              T == { stack[j] : j \in 1 .. m }
  <2>1. m \in Nat /\ Len(stack) \in Nat /\ DOMAIN stack = 1 .. Len(stack)
    BY <1>0, TasksFinite
  <2>. HIDE DEF m
  <2>2. /\ nproc = 0 /\ nproc' = nproc /\ queue' = queue /\ m <= Len(stack)
        /\ stack' = SubSeq(stack, m + 1, Len(stack))
    BY <1>1 DEF PopFromStack, m
  <2>3. PICK core \in Bijection(S, T) : TakeCores(core)
    BY <1>1 DEF PopFromStack, m
  <2>4. /\ core \in [S -> T] /\ DOMAIN core = S /\ T = { core[x] : x \in S }
        /\ \A x, y \in S : core[x] = core[y] => x = y
    BY <2>3 DEF Bijection, Injection, Surjection, IsInjective
  <2>5. FreeCores = Range(stack) /\ FreeCores' = Range(stack')
    BY <2>2 DEF FreeCores
  <2>6. /\ Len(stack') = Len(stack) - m
        /\ \A j \in 1 .. Len(stack) - m : stack'[j] = stack[m + j]
    <3>1. ASSUME NEW w \in Seq(Core), NEW a \in 1 .. Len(w) + 1
          PROVE  /\ Len(SubSeq(w, a, Len(w))) = Len(w) - a + 1
                 /\ \A j \in 1 .. Len(w) - a + 1 : SubSeq(w, a, Len(w))[j] = w[a + j - 1]
      OBVIOUS
    <3>2. m + 1 \in 1 .. Len(stack) + 1 /\ Len(stack) - (m + 1) + 1 = Len(stack) - m
      BY <2>1, <2>2
    <3>3. /\ Len(stack') = Len(stack) - m
          /\ \A j \in 1 .. Len(stack) - m : stack'[j] = stack[(m + 1) + j - 1]
      BY <1>0, <2>2, <3>1, <3>2
    <3>4. \A j \in 1 .. Len(stack) - m : (m + 1) + j - 1 = m + j
      BY <2>1
    <3>. QED
      BY <3>3, <3>4
  <2>7. stack' \in Seq(Core) /\ DOMAIN stack' = 1 .. Len(stack) - m
    <3>1. SubSeq(stack, m + 1, Len(stack)) \in Seq(Core)
      BY <1>0, <2>1, <2>2
    <3>. QED
      BY <2>2, <2>6, <3>1
  <2>8. \A j \in 1 .. Len(stack) - m : m + j \in DOMAIN stack /\ m + j \notin 1 .. m
    BY <2>1, <2>2
  <2>9. \A j, k \in DOMAIN stack' : stack'[j] = stack'[k] => j = k
    <3>1. ASSUME NEW j \in DOMAIN stack', NEW k \in DOMAIN stack', stack'[j] = stack'[k]
          PROVE  j = k
      <4>1. stack[m + j] = stack[m + k] /\ m + j \in DOMAIN stack /\ m + k \in DOMAIN stack
        BY <2>6, <2>7, <2>8, <3>1
      <4>2. m + j = m + k
        BY <1>0, <4>1
      <4>3. j \in Int /\ k \in Int
        BY <2>7
      <4>. QED
        BY <2>1, <4>2, <4>3
    <3>. QED
      BY <3>1
  <2>10. Range(stack') = Range(stack) \ T
    <3>1. ASSUME NEW c \in Range(stack')
          PROVE  c \in Range(stack) /\ c \notin T
      <4>1. PICK j \in 1 .. Len(stack) - m : c = stack'[j]
        BY <2>7 DEF Range
      <4>2. c = stack[m + j] /\ m + j \in DOMAIN stack /\ m + j \notin 1 .. m
        BY <2>6, <2>8, <4>1
      <4>3. \A l \in 1 .. m : l \in DOMAIN stack
        BY <2>1, <2>2
      <4>4. \A l \in 1 .. m : stack[l] # c
        BY <1>0, <4>2, <4>3
      <4>. QED
        BY <4>2, <4>4 DEF Range
    <3>2. ASSUME NEW c \in Range(stack), c \notin T
          PROVE  c \in Range(stack')
      <4>1. PICK l \in 1 .. Len(stack) : c = stack[l]
        BY <2>1 DEF Range
      <4>2. l \notin 1 .. m
        BY <3>2, <4>1
      <4>3. l - m \in 1 .. Len(stack) - m /\ m + (l - m) = l
        BY <2>1, <4>1, <4>2
      <4>4. stack'[l - m] = c
        BY <2>6, <4>1, <4>3
      <4>. QED
        BY <2>7, <4>3, <4>4 DEF Range
    <3>. QED
      BY <3>1, <3>2
  <2>11. T \subseteq Range(stack)
    <3>1. \A l \in 1 .. m : l \in DOMAIN stack
      BY <2>1, <2>2
    <3>. QED
      BY <3>1 DEF Range
  <2>12. processor' = [x \in Task |-> IF x \in S THEN core[x] ELSE processor[x]]
    BY <2>3, <2>4 DEF TakeCores
  <2>13. core \in [S -> FreeCores]
    BY <2>4, <2>5, <2>11
  <2>14. FreeCores' = FreeCores \ { core[x] : x \in S }
    BY <2>4, <2>5, <2>10
  <2>15. no_deps_pool' = no_deps_pool \ (S \ S) /\ deps_pool' = deps_pool \cup (S \ S)
    BY <1>1
  <2>16. nproc' = nproc /\ queue' \subseteq Core
    BY <1>0, <2>2
  <2>17. Served(S, S, core)
    BY <2>4, <2>7, <2>9, <2>12, <2>14, <2>15, <2>16 DEF Served
  <2>. QED
    BY <2>13, <2>17
<1>2. ASSUME nproc # 0, NEW A \in SUBSET S, NEW core \in Injection(A, queue), PopFromQueue(core)
      PROVE  /\ core \in [A -> FreeCores] /\ \A x, y \in A : core[x] = core[y] => x = y
             /\ processor' = [x \in Task |-> IF x \in A THEN core[x] ELSE processor[x]]
             /\ FreeCores' = FreeCores \ { core[x] : x \in A }
             /\ nproc' = nproc /\ stack' = stack /\ queue' \subseteq Core
  <2>1. core \in [A -> queue] /\ DOMAIN core = A /\ \A x, y \in A : core[x] = core[y] => x = y
    BY DEF Injection, IsInjective
  <2>2. Range(core) = { core[x] : x \in A }
    BY <2>1 DEF Range
  <2>3. nproc' = nproc /\ stack' = stack /\ queue' = queue \ Range(core) /\ TakeCores(core)
    BY <1>2 DEF PopFromQueue
  <2>4. FreeCores = queue /\ FreeCores' = queue'
    BY <1>2, <2>3 DEF FreeCores
  <2>5. processor' = [x \in Task |-> IF x \in A THEN core[x] ELSE processor[x]]
    BY <2>1, <2>3 DEF TakeCores
  <2>. QED
    BY <1>0, <2>1, <2>2, <2>3, <2>4, <2>5
<1>3. CASE AssignAll(S) /\ UNCHANGED <<deps_pool, no_deps_pool>>
  <2>1. nproc # 0
    BY <1>3 DEF AssignAll
  <2>2. PICK core \in Injection(S, queue) : PopFromQueue(core)
    BY <1>3 DEF AssignAll
  <2>3. no_deps_pool' = no_deps_pool \ (S \ S) /\ deps_pool' = deps_pool \cup (S \ S)
    BY <1>3
  <2>4. /\ core \in [S -> FreeCores] /\ \A x, y \in S : core[x] = core[y] => x = y
        /\ processor' = [x \in Task |-> IF x \in S THEN core[x] ELSE processor[x]]
        /\ FreeCores' = FreeCores \ { core[x] : x \in S }
        /\ nproc' = nproc /\ stack' = stack /\ queue' \subseteq Core
    BY <1>2, <2>1, <2>2
  <2>5. Served(S, S, core)
    BY <1>0, <2>3, <2>4 DEF Served
  <2>. QED
    BY <2>4, <2>5
<1>4. CASE AssignSome(S)
  <2>1. nproc # 0
    BY <1>4 DEF AssignSome
  <2>2. PICK A \in SUBSET S : \E core \in Bijection(A, queue) : PopFromQueue(core) /\ Rollback(S \ A)
    BY <1>4 DEF AssignSome
  <2>3. PICK core \in Bijection(A, queue) : PopFromQueue(core) /\ Rollback(S \ A)
    BY <2>2
  <2>4. core \in Injection(A, queue) /\ queue = { core[x] : x \in A }
    BY <2>3 DEF Bijection, Injection, Surjection
  <2>5. /\ core \in [A -> FreeCores] /\ \A x, y \in A : core[x] = core[y] => x = y
        /\ processor' = [x \in Task |-> IF x \in A THEN core[x] ELSE processor[x]]
        /\ FreeCores' = FreeCores \ { core[x] : x \in A }
        /\ nproc' = nproc /\ stack' = stack /\ queue' \subseteq Core
    BY <1>2, <2>1, <2>3, <2>4
  <2>6. FreeCores = queue
    BY <2>1 DEF FreeCores
  <2>7. FreeCores' = {}
    BY <2>4, <2>5, <2>6
  <2>8. no_deps_pool' = no_deps_pool \ (S \ A) /\ deps_pool' = deps_pool \cup (S \ A)
    BY <2>3 DEF Rollback
  <2>9. Served(S, A, core)
    BY <1>0, <2>5, <2>7, <2>8 DEF Served
  <2>. QED
    BY <2>5, <2>9
<1>. QED
  BY <1>1, <1>3, <1>4 DEF AssignCores
-----------------------------------------------------------------------------
(***************************************************************************)
(* The steps of the loop.                                                  *)
(***************************************************************************)

\* A task has a positive time, its dependences are tasks.
LEMMA GraphType ==
  ASSUME graph \in Graphs
  PROVE  /\ \A x \in Task : graph.cost[x] \in Nat /\ graph.cost[x] > 0
         /\ \A x \in Task : graph.src[x] \subseteq Task
<1>1. graph.cost \in [Task -> Nat \ {0}] /\ graph.src \in [Task -> SUBSET Task]
  BY GraphsAssumption
<1>2. \A x \in Task : graph.cost[x] \in Nat \ {0}
  BY <1>1
<1>. QED
  BY <1>1, <1>2

\* At the start no task has a time.
LEMMA InitTimes ==
  ASSUME Init
  PROVE  TimesOK /\ DepsOK /\ ExclusiveOK /\ Greedy
<1>0. /\ graph \in Graphs /\ pc = "first" /\ done_set = {} /\ current_time = 0
      /\ deps_pool = { x \in Task : graph.src[x] # {} } /\ no_deps_pool = Task \ deps_pool
      /\ time = graph.cost
      /\ starttime = [x \in Task |-> -1] /\ endtime = [x \in Task |-> -1]
  BY DEF Init, DepGraphInit, MachineInit
<1>1. graph.cost \in [Task -> Nat \ {0}] /\ graph.src \in [Task -> SUBSET Task]
  BY <1>0, GraphsAssumption
<1>2. TimesOK
  <2>1. time \in [Task -> Nat] /\ \A x \in Task : time[x] > 0
    BY <1>0, <1>1
  <2>2. starttime \in [Task -> Int] /\ endtime \in [Task -> Int]
    BY <1>0
  <2>. QED
    BY <1>0, <2>1, <2>2 DEF TimesOK
<1>3. DepsOK
  BY <1>0 DEF DepsOK
<1>4. ExclusiveOK /\ Greedy
  BY <1>0 DEF ExclusiveOK, Started, Holders, Greedy
<1>. QED
  BY <1>2, <1>3, <1>4

LEMMA InvInit ==
  ASSUME Init
  PROVE  IInv
<1>0. /\ graph \in Graphs /\ pc = "first" /\ done_set = {} /\ current_time = 0
      /\ deps_pool = { x \in Task : graph.src[x] # {} } /\ no_deps_pool = Task \ deps_pool
      /\ time = graph.cost /\ processor = [x \in Task |-> -1]
      /\ starttime = [x \in Task |-> -1] /\ endtime = [x \in Task |-> -1]
  BY DEF Init, DepGraphInit, MachineInit
<1>1. PoolsOK
  <2>1. Ready = {}
    BY <1>0 DEF Ready
  <2>. QED
    BY <1>0, <2>1 DEF PoolsOK
<1>2. Holders = {} /\ Started = {}
  BY <1>0 DEF Holders, Started
<1>3. nproc \in Nat
  BY ProcsAssumption DEF Init, MachineInit
<1>4. CASE nproc = 0
  <2>1. stack = [k \in 1 .. nodes |-> k - 1] /\ queue = {} /\ nodes \in Nat /\ nodes > 0
    BY <1>4, GraphsAssumption DEF Init, MachineInit
  <2>2. Core = 0 .. nodes - 1
    BY <1>4 DEF Core, Task
  <2>3. stack \in Seq(Core)
    BY <2>1, <2>2
  <2>4. \A j, k \in DOMAIN stack : stack[j] = stack[k] => j = k
    BY <2>1
  <2>5. Range(stack) = Core
    <3>1. \A c \in 0 .. nodes - 1 : c + 1 \in 1 .. nodes /\ stack[c + 1] = c
      BY <2>1
    <3>2. \A k \in 1 .. nodes : stack[k] \in 0 .. nodes - 1
      BY <2>1
    <3>. QED
      BY <2>1, <2>2, <3>1, <3>2 DEF Range
  <2>6. FreeCores = Core
    BY <1>4, <2>5 DEF FreeCores
  <2>7. -1 \notin Core
    BY <2>1, <2>2
  <2>. QED
    BY <1>0, <1>1, <1>2, <1>3, <2>1, <2>3, <2>4, <2>6, <2>7, InitTimes DEF IInv, CoresOK
<1>5. CASE nproc # 0
  <2>1. stack = <<>> /\ queue = 0 .. nproc - 1
    BY <1>5 DEF Init, MachineInit
  <2>2. Core = 0 .. nproc - 1 /\ -1 \notin Core
    BY <1>3, <1>5 DEF Core
  <2>3. FreeCores = Core
    BY <1>5, <2>1, <2>2 DEF FreeCores
  <2>4. stack \in Seq(Core) /\ DOMAIN stack = {}
    BY <2>1
  <2>. QED
    BY <1>0, <1>1, <1>2, <1>3, <2>1, <2>2, <2>3, <2>4, InitTimes DEF IInv, CoresOK
<1>. QED
  BY <1>4, <1>5

\* The pool has a task with the shortest time.
LEMMA ShortestIs ==
  ASSUME time \in [Task -> Nat], no_deps_pool \in SUBSET Task, no_deps_pool # {}
  PROVE  /\ ShortestTime \in { time[x] : x \in no_deps_pool }
         /\ \A x \in no_deps_pool : ShortestTime <= time[x]
<1>. DEFINE T == { time[x] : x \in no_deps_pool }
<1>1. T \in SUBSET Nat /\ T # {}
  OBVIOUS
<1>. HIDE DEF T
<1>2. PICK d \in T : \A n \in T : ~(<<n, d>> \in OpToRel(<, Nat))
  BY <1>1, WFMin, NatLessThanWellFounded
<1>3. \A n \in T : ~(n < d)
  BY <1>1, <1>2 DEF OpToRel
<1>4. d \in Nat /\ \A n \in T : n \in Nat
  BY <1>1
<1>5. \A n \in T : d <= n
  BY <1>3, <1>4
<1>6. \A x \in no_deps_pool : time[x] \in T
  BY DEF T
<1>7. d \in T /\ \A x \in no_deps_pool : d <= time[x]
  BY <1>5, <1>6
<1>. QED
  BY <1>7 DEF ShortestTime, T

\* The running tasks run until the first of them is done.
LEMMA InvProcess ==
  ASSUME IInv, Process
  PROVE  IInv'
<1>. DEFINE d == ShortestTime
            finished == { x \in no_deps_pool : time[x] = d }
<1>0. PoolsOK /\ CoresOK /\ TimesOK /\ DepsOK /\ ExclusiveOK
  BY DEF IInv
<1>1. /\ pc = "process" /\ pc' = "yield" /\ no_deps_pool # {} /\ no_deps_pool \in SUBSET Task
      /\ graph \in Graphs /\ done_set \in SUBSET Task /\ deps_pool \in SUBSET Task
  BY <1>0 DEF Process, PoolsOK
<1>2. /\ time' = [x \in Task |-> IF x \in no_deps_pool THEN time[x] - d ELSE time[x]]
      /\ done_set' = done_set \cup finished /\ no_deps_pool' = no_deps_pool \ finished
      /\ current_time' = current_time + d
      /\ fresh' = done_set' \ done_set
      /\ UNCHANGED <<graph, deps_pool, starttime, endtime>>
      /\ UNCHANGED <<nproc, stack, queue, execution_time, max, processor>>
  BY DEF Process, UpdateTimes, machineVars
<1>3. d \in Nat /\ d > 0 /\ \A x \in no_deps_pool : time[x] \in Nat /\ time[x] >= d
  <2>1. time \in [Task -> Nat] /\ \A x \in no_deps_pool : time[x] > 0
    BY <1>0 DEF TimesOK
  <2>2. d \in { time[x] : x \in no_deps_pool } /\ \A x \in no_deps_pool : d <= time[x]
    BY <1>1, <2>1, ShortestIs
  <2>. HIDE DEF d
  <2>3. PICK x \in no_deps_pool : d = time[x]
    BY <2>2
  <2>4. \A y \in no_deps_pool : time[y] \in Nat
    BY <1>1, <2>1
  <2>5. d \in Nat /\ d > 0
    BY <2>1, <2>3, <2>4
  <2>. QED
    BY <2>2, <2>4, <2>5
<1>. HIDE DEF d
<1>4. finished \in SUBSET no_deps_pool /\ finished \cap done_set = {} /\ fresh' = finished
  BY <1>0, <1>2 DEF PoolsOK
<1>5. PoolsOK'
  BY <1>0, <1>1, <1>2, <1>4 DEF PoolsOK
<1>6. Holders' = Holders /\ FreeCores' = FreeCores
  <2>1. Holders = no_deps_pool /\ Holders' = no_deps_pool' \cup fresh'
    BY <1>1 DEF Holders
  <2>2. FreeCores' = FreeCores
    BY <1>2 DEF FreeCores
  <2>. QED
    BY <1>2, <1>4, <2>1, <2>2
<1>7. Started' = Started
  <2>1. Holders = no_deps_pool
    BY <1>1 DEF Holders
  <2>. QED
    BY <1>2, <1>4, <1>6, <2>1 DEF Started
<1>8. CoresOK'
  BY <1>0, <1>2, <1>6, <1>7 DEF CoresOK, Core
<1>9. TimesOK'
  <2>0. /\ current_time \in Nat
        /\ time \in [Task -> Nat] /\ starttime \in [Task -> Int] /\ endtime \in [Task -> Int]
    BY <1>0 DEF TimesOK
  <2>1. time' \in [Task -> Nat]
    <3>1. \A x \in Task : time'[x] \in Nat
      <4>1. \A x \in no_deps_pool : time[x] - d \in Nat
        BY <1>3
      <4>. QED
        BY <1>2, <2>0, <4>1
    <3>. QED
      BY <1>2, <3>1
  <2>2. current_time' \in Nat
    BY <1>2, <1>3, <2>0
  <2>3. \A x \in deps_pool : time'[x] = graph.cost[x]
    BY <1>0, <1>1, <1>2 DEF TimesOK, PoolsOK
  <2>4. ASSUME NEW x \in no_deps_pool'
        PROVE  /\ time'[x] > 0 /\ starttime[x] >= 0
               /\ endtime[x] = starttime[x] + graph.cost[x]
               /\ endtime[x] = current_time' + time'[x]
    <3>1. x \in no_deps_pool /\ x \in Task /\ time[x] # d
      BY <1>1, <1>2
    <3>2. time'[x] = time[x] - d /\ time[x] \in Nat /\ time[x] >= d
      BY <1>2, <1>3, <3>1
    <3>3. /\ starttime[x] >= 0
          /\ endtime[x] = starttime[x] + graph.cost[x]
          /\ endtime[x] = current_time + time[x]
      BY <1>0, <1>1, <3>1 DEF TimesOK
    <3>4. time'[x] > 0
      BY <1>3, <3>1, <3>2
    <3>5. current_time' + time'[x] = current_time + time[x]
      BY <1>2, <1>3, <2>0, <3>2
    <3>. QED
      BY <3>3, <3>4, <3>5
  <2>5. ASSUME NEW x \in done_set'
        PROVE  /\ starttime[x] >= 0
               /\ endtime[x] = starttime[x] + graph.cost[x]
               /\ endtime[x] <= current_time'
    <3>1. CASE x \in done_set
      <4>1. /\ starttime[x] >= 0 /\ endtime[x] = starttime[x] + graph.cost[x]
            /\ endtime[x] <= current_time
        BY <1>0, <3>1 DEF TimesOK
      <4>2. endtime[x] \in Int
        BY <1>1, <2>0, <3>1
      <4>. QED
        BY <1>2, <1>3, <2>0, <4>1, <4>2
    <3>2. CASE x \in finished
      <4>1. /\ starttime[x] >= 0 /\ endtime[x] = starttime[x] + graph.cost[x]
            /\ endtime[x] = current_time + time[x]
        BY <1>0, <1>1, <3>2 DEF TimesOK
      <4>2. time[x] = d
        BY <3>2
      <4>. QED
        BY <1>2, <1>3, <2>0, <4>1, <4>2
    <3>. QED
      BY <1>2, <3>1, <3>2
  <2>. QED
    BY <1>1, <1>2, <2>0, <2>1, <2>2, <2>3, <2>4, <2>5 DEF TimesOK
<1>10. DepsOK'
  BY <1>0, <1>1, <1>2, <1>4 DEF DepsOK
<1>11. ExclusiveOK' /\ Greedy'
  BY <1>0, <1>1, <1>2, <1>7 DEF ExclusiveOK, Greedy
<1>. QED
  BY <1>5, <1>8, <1>9, <1>10, <1>11 DEF IInv

\* The cores of the tasks that are done are free again.
LEMMA InvYield ==
  ASSUME IInv, Yield
  PROVE  IInv'
<1>0. PoolsOK /\ CoresOK /\ TimesOK /\ DepsOK /\ ExclusiveOK
  BY DEF IInv
<1>1. /\ pc = "yield" /\ pc' = "ready" /\ YieldCores(fresh)
      /\ UNCHANGED <<graph, deps_pool, no_deps_pool, done_set, time, starttime, endtime>>
      /\ UNCHANGED <<current_time, fresh, nproc, processor>>
  BY DEF Yield, YieldCores, poolVars, loopVars
<1>2. /\ fresh \subseteq done_set /\ fresh \in SUBSET Task /\ fresh \cap no_deps_pool = {}
      /\ no_deps_pool \in SUBSET Task
  BY <1>0, <1>1 DEF PoolsOK
<1>3. Holders = no_deps_pool \cup fresh /\ Holders' = no_deps_pool
  BY <1>1 DEF Holders
<1>4. Started' = Started
  BY <1>1, <1>2, <1>3 DEF Started
<1>5. PoolsOK'
  BY <1>0, <1>1 DEF PoolsOK
<1>6. TimesOK' /\ DepsOK'
  BY <1>0, <1>1 DEF TimesOK, DepsOK
<1>7. ExclusiveOK' /\ Greedy'
  BY <1>0, <1>1, <1>4 DEF ExclusiveOK, Greedy
<1>8. /\ nproc \in Nat /\ stack \in Seq(Core) /\ queue \subseteq Core
      /\ \A j, k \in DOMAIN stack : stack[j] = stack[k] => j = k
      /\ processor \in [Task -> Core \cup {-1}]
      /\ \A x \in Task : processor[x] \in Core <=> x \in Started
      /\ { processor[x] : x \in Holders } = Core \ FreeCores
      /\ \A x, y \in Holders : x # y => processor[x] # processor[y]
  BY <1>0 DEF CoresOK
<1>. DEFINE Given == { processor[x] : x \in fresh }
<1>9. Given \subseteq Core \ FreeCores
  BY <1>3, <1>8
<1>10. ASSUME FreeCores' = FreeCores \cup Given,
              stack' \in Seq(Core), queue' \subseteq Core,
              \A j, k \in DOMAIN stack' : stack'[j] = stack'[k] => j = k
       PROVE  CoresOK'
  <2>1. \A x \in no_deps_pool : processor[x] \notin Given
    BY <1>2, <1>3, <1>8
  <2>2. { processor[x] : x \in no_deps_pool } = Core \ (FreeCores \cup Given)
    BY <1>3, <1>8, <1>9, <2>1
  <2>3. Core' = Core
    BY <1>1 DEF Core
  <2>4. \A x, y \in no_deps_pool : x # y => processor[x] # processor[y]
    BY <1>3, <1>8
  <2>. QED
    BY <1>1, <1>3, <1>4, <1>8, <1>10, <2>2, <2>3, <2>4 DEF CoresOK
<1>11. CASE nproc # 0
  <2>1. queue' = queue \cup Given /\ stack' = stack
    BY <1>1, <1>11 DEF YieldCores
  <2>2. FreeCores' = FreeCores \cup Given
    BY <1>1, <1>11, <2>1 DEF FreeCores
  <2>3. stack' \in Seq(Core) /\ queue' \subseteq Core
    BY <1>8, <1>9, <2>1
  <2>4. \A j, k \in DOMAIN stack' : stack'[j] = stack'[k] => j = k
    BY <1>8, <2>1
  <2>5. CoresOK'
    BY <1>10, <2>2, <2>3, <2>4
  <2>. QED
    BY <1>5, <1>6, <1>7, <2>5 DEF IInv
<1>12. CASE nproc = 0
  <2>. DEFINE m == Cardinality(fresh)
  <2>1. m \in Nat
    BY <1>2, TasksFinite
  <2>. HIDE DEF m
  <2>2. PICK back \in Bijection(1 .. m, fresh) :
          stack' = [k \in DOMAIN back |-> processor[back[k]]] \o stack /\ queue' = queue
    BY <1>1, <1>12 DEF YieldCores, m
  <2>. DEFINE g == [k \in 1 .. m |-> processor[back[k]]]
  <2>3. /\ back \in [1 .. m -> fresh] /\ DOMAIN back = 1 .. m
        /\ \A x \in fresh : \E k \in 1 .. m : back[k] = x
        /\ \A j, k \in 1 .. m : back[j] = back[k] => j = k
    BY <2>2 DEF Bijection, Injection, Surjection, IsInjective
  <2>4. \A k \in 1 .. m : g[k] = processor[back[k]] /\ g[k] \in Core
    BY <1>9, <2>3
  <2>5. g \in Seq(Core) /\ Len(g) = m
    <3>1. g \in [1 .. m -> Core]
      BY <2>4
    <3>. HIDE DEF g
    <3>. QED
      BY <2>1, <3>1
  <2>6. stack' = g \o stack
    BY <2>2, <2>3
  <2>7. \A j, k \in 1 .. m : g[j] = g[k] => j = k
    <3>1. \A x, y \in fresh : x # y => processor[x] # processor[y]
      BY <1>3, <1>8
    <3>. QED
      BY <2>3, <2>4, <3>1
  <2>8. Range(g) = Given
    <3>1. \A k \in 1 .. m : g[k] \in Given
      BY <2>3, <2>4
    <3>2. \A x \in fresh : \E k \in 1 .. m : g[k] = processor[x]
      BY <2>3, <2>4
    <3>. QED
      BY <3>1, <3>2 DEF Range
  <2>9. FreeCores = Range(stack) /\ FreeCores' = Range(stack')
    BY <1>1, <1>12 DEF FreeCores
  <2>. HIDE DEF g
  <2>10. /\ stack' \in Seq(Core) /\ Len(stack') = m + Len(stack) /\ Len(stack) \in Nat
         /\ DOMAIN stack' = 1 .. m + Len(stack) /\ DOMAIN stack = 1 .. Len(stack) /\ DOMAIN g = 1 .. m
         /\ \A j \in 1 .. m + Len(stack) : stack'[j] = IF j <= m THEN g[j] ELSE stack[j - m]
    <3>1. ASSUME NEW v \in Seq(Core), NEW w \in Seq(Core)
          PROVE  /\ v \o w \in Seq(Core) /\ Len(v \o w) = Len(v) + Len(w)
                 /\ \A j \in 1 .. Len(v) + Len(w) :
                      (v \o w)[j] = IF j <= Len(v) THEN v[j] ELSE w[j - Len(v)]
      OBVIOUS
    <3>2. stack' \in Seq(Core) /\ Len(stack') = m + Len(stack)
      BY <1>8, <2>5, <2>6, <3>1
    <3>3. \A j \in 1 .. m + Len(stack) : stack'[j] = IF j <= m THEN g[j] ELSE stack[j - m]
      BY <1>8, <2>5, <2>6, <3>1
    <3>4. Len(stack) \in Nat /\ DOMAIN stack = 1 .. Len(stack) /\ DOMAIN g = 1 .. m
      BY <1>8, <2>5
    <3>5. DOMAIN stack' = 1 .. m + Len(stack)
      BY <3>2
    <3>. QED
      BY <3>2, <3>3, <3>4, <3>5
  <2>11. ASSUME NEW j \in 1 .. m + Len(stack)
         PROVE  \/ j \in 1 .. m /\ stack'[j] = g[j] /\ stack'[j] \in Given
                \/ /\ j - m \in DOMAIN stack /\ stack'[j] = stack[j - m]
                   /\ stack'[j] \in FreeCores /\ j \notin 1 .. m
    <3>1. CASE j <= m
      <4>1. j \in 1 .. m
        BY <2>1, <3>1
      <4>. QED
        BY <2>8, <2>10, <3>1, <4>1 DEF Range
    <3>2. CASE ~(j <= m)
      <4>1. j - m \in 1 .. Len(stack) /\ j \notin 1 .. m
        BY <2>1, <2>10, <3>2
      <4>. QED
        BY <2>9, <2>10, <3>2, <4>1 DEF Range
    <3>. QED
      BY <3>1, <3>2
  <2>12. \A j, k \in DOMAIN stack' : stack'[j] = stack'[k] => j = k
    <3>1. ASSUME NEW j \in 1 .. m + Len(stack), NEW k \in 1 .. m + Len(stack), stack'[j] = stack'[k]
          PROVE  j = k
      <4>1. CASE stack'[j] \in Given
        <5>1. j \in 1 .. m /\ k \in 1 .. m /\ g[j] = g[k]
          BY <1>9, <2>11, <3>1, <4>1
        <5>. QED
          BY <2>7, <5>1
      <4>2. CASE stack'[j] \notin Given
        <5>1. j - m \in DOMAIN stack /\ k - m \in DOMAIN stack /\ stack[j - m] = stack[k - m]
          BY <2>11, <3>1, <4>2
        <5>2. j - m = k - m
          BY <1>8, <5>1
        <5>. QED
          BY <2>1, <5>2
      <4>. QED
        BY <4>1, <4>2
    <3>. QED
      BY <2>10, <3>1
  <2>13. FreeCores' = FreeCores \cup Given
    <3>1. \A c \in Range(stack') : c \in FreeCores \cup Given
      BY <2>10, <2>11 DEF Range
    <3>2. \A c \in Given : c \in Range(stack')
      <4>1. \A k \in 1 .. m : k \in DOMAIN stack' /\ stack'[k] = g[k]
        BY <2>1, <2>10
      <4>. QED
        BY <2>8, <2>10, <4>1 DEF Range
    <3>3. \A c \in Range(stack) : c \in Range(stack')
      <4>1. \A k \in 1 .. Len(stack) :
              k + m \in DOMAIN stack' /\ ~(k + m <= m) /\ (k + m) - m = k
        BY <2>1, <2>10
      <4>2. \A k \in 1 .. Len(stack) : stack'[k + m] = stack[k]
        BY <2>10, <4>1
      <4>. QED
        BY <2>10, <4>1, <4>2 DEF Range
    <3>. QED
      BY <2>9, <3>1, <3>2, <3>3
  <2>14. queue' \subseteq Core
    BY <1>8, <2>2
  <2>15. CoresOK'
    BY <1>10, <2>10, <2>12, <2>13, <2>14
  <2>. QED
    BY <1>5, <1>6, <1>7, <2>15 DEF IInv
<1>. QED
  BY <1>11, <1>12

\* The tasks whose dependences are done get their times.
LEMMA InvNewTasks ==
  ASSUME IInv, NewTasks
  PROVE  IInv'
<1>0. PoolsOK /\ CoresOK /\ TimesOK /\ DepsOK /\ ExclusiveOK
  BY DEF IInv
<1>1. /\ pc = "ready" /\ fresh' = Ready
      /\ UNCHANGED <<graph, done_set, time, current_time>>
      /\ UNCHANGED <<nproc, stack, queue, execution_time, max, processor>>
      /\ starttime' = [x \in Task |-> IF x \in Ready THEN current_time ELSE starttime[x]]
      /\ endtime' = [x \in Task |-> IF x \in Ready THEN current_time + time[x] ELSE endtime[x]]
  BY DEF NewTasks, SetTimes, machineVars
<1>2. /\ graph \in Graphs /\ Ready \subseteq deps_pool
      /\ deps_pool \in SUBSET Task /\ no_deps_pool \in SUBSET Task /\ done_set \in SUBSET Task
      /\ deps_pool \cup no_deps_pool \cup done_set = Task
      /\ deps_pool \cap no_deps_pool = {} /\ deps_pool \cap done_set = {} /\ no_deps_pool \cap done_set = {}
  BY <1>0 DEF PoolsOK, Ready
<1>3. no_deps_pool' = no_deps_pool \cup Ready /\ deps_pool' = deps_pool \ Ready
  BY DEF NewTasks, Commit
<1>4. /\ pc' \in {"process", "done", "assign"}
      /\ pc' = "assign" \/ Ready = {}
      /\ pc' = "done" => deps_pool' = {} /\ no_deps_pool' = {}
  BY DEF NewTasks, LoopTest, DepPoolsEmpty
<1>5. Ready' = {}
  BY <1>1, <1>3 DEF Ready
<1>6. PoolsOK'
  <2>1. /\ deps_pool' \cup no_deps_pool' \cup done_set' = Task
        /\ deps_pool' \cap no_deps_pool' = {} /\ deps_pool' \cap done_set' = {}
        /\ no_deps_pool' \cap done_set' = {}
    BY <1>1, <1>2, <1>3
  <2>2. pc' = "done" => done_set' = Task
    BY <1>4, <2>1
  <2>3. pc' = "assign" => fresh' \subseteq no_deps_pool'
    BY <1>1, <1>3
  <2>. QED
    BY <1>1, <1>2, <1>4, <1>5, <2>1, <2>2, <2>3 DEF PoolsOK
<1>7. Holders = no_deps_pool /\ Holders' = no_deps_pool /\ FreeCores' = FreeCores
  <2>1. Holders = no_deps_pool
    BY <1>1 DEF Holders
  <2>2. Holders' = no_deps_pool
    BY <1>1, <1>2, <1>3, <1>4 DEF Holders
  <2>3. FreeCores' = FreeCores
    BY <1>1 DEF FreeCores
  <2>. QED
    BY <2>1, <2>2, <2>3
<1>8. Started' = Started /\ Started = done_set \cup no_deps_pool
  BY <1>1, <1>7 DEF Started
<1>9. CoresOK'
  BY <1>0, <1>1, <1>7, <1>8 DEF CoresOK, Core
<1>10. /\ current_time \in Nat /\ time \in [Task -> Nat]
       /\ starttime \in [Task -> Int] /\ endtime \in [Task -> Int]
  BY <1>0 DEF TimesOK
<1>11. ASSUME NEW x \in done_set \cup no_deps_pool
       PROVE  x \notin Ready /\ starttime'[x] = starttime[x] /\ endtime'[x] = endtime[x]
  BY <1>1, <1>2
<1>12. ASSUME NEW x \in Ready
       PROVE  /\ starttime'[x] = current_time /\ endtime'[x] = current_time + time[x]
              /\ time[x] = graph.cost[x] /\ time[x] \in Nat /\ time[x] > 0
  <2>1. time[x] = graph.cost[x]
    BY <1>0, <1>2 DEF TimesOK
  <2>2. x \in Task
    BY <1>2
  <2>3. graph.cost[x] \in Nat /\ graph.cost[x] > 0
    BY <1>2, <2>2, GraphType
  <2>. QED
    BY <1>1, <2>1, <2>2, <2>3
<1>13. TimesOK'
  <2>1. starttime' \in [Task -> Int] /\ endtime' \in [Task -> Int]
    <3>1. \A x \in Task : current_time + time[x] \in Int
      BY <1>10
    <3>2. current_time \in Int
      BY <1>10
    <3>. QED
      BY <1>1, <1>10, <3>1, <3>2
  <2>2. ASSUME NEW x \in no_deps_pool'
        PROVE  /\ time[x] > 0 /\ starttime'[x] >= 0
               /\ endtime'[x] = starttime'[x] + graph.cost[x]
               /\ endtime'[x] = current_time + time[x]
    <3>1. CASE x \in Ready
      BY <1>10, <1>12, <3>1
    <3>2. CASE x \in no_deps_pool
      BY <1>0, <1>1, <1>11, <3>2 DEF TimesOK
    <3>. QED
      BY <1>3, <3>1, <3>2
  <2>3. ASSUME NEW x \in done_set
        PROVE  /\ starttime'[x] >= 0
               /\ endtime'[x] = starttime'[x] + graph.cost[x]
               /\ endtime'[x] <= current_time
    BY <1>0, <1>11 DEF TimesOK
  <2>4. \A x \in deps_pool' : time[x] = graph.cost[x]
    BY <1>0, <1>3 DEF TimesOK
  <2>. QED
    BY <1>1, <1>4, <1>10, <1>12, <2>1, <2>2, <2>3, <2>4 DEF TimesOK
<1>14. DepsOK'
  <2>1. ASSUME NEW x \in no_deps_pool' \cup done_set'
        PROVE  graph.src[x] \subseteq done_set /\ \A q \in graph.src[x] : endtime'[q] <= starttime'[x]
    <3>1. CASE x \in Ready
      <4>1. graph.src[x] \subseteq done_set
        BY <3>1 DEF Ready
      <4>2. \A q \in done_set : endtime'[q] <= current_time
        BY <1>0, <1>11 DEF TimesOK
      <4>. QED
        BY <1>12, <3>1, <4>1, <4>2
    <3>2. CASE x \in no_deps_pool \cup done_set
      <4>1. graph.src[x] \subseteq done_set /\ \A q \in graph.src[x] : endtime[q] <= starttime[x]
        BY <1>0, <1>1, <3>2 DEF DepsOK
      <4>2. starttime'[x] = starttime[x]
        BY <1>11, <3>2
      <4>3. \A q \in graph.src[x] : endtime'[q] = endtime[q]
        BY <1>11, <4>1
      <4>. QED
        BY <4>1, <4>2, <4>3
    <3>. QED
      BY <1>1, <1>3, <3>1, <3>2
  <2>. QED
    BY <1>1, <2>1 DEF DepsOK
<1>15. ExclusiveOK'
  <2>1. ASSUME NEW x \in Started, NEW y \in Started, x # y, processor[x] = processor[y]
        PROVE  endtime'[x] <= starttime'[y] \/ endtime'[y] <= starttime'[x]
    <3>1. endtime[x] <= starttime[y] \/ endtime[y] <= starttime[x]
      BY <1>0, <2>1 DEF ExclusiveOK
    <3>2. /\ endtime'[x] = endtime[x] /\ starttime'[x] = starttime[x]
          /\ endtime'[y] = endtime[y] /\ starttime'[y] = starttime[y]
      BY <1>8, <1>11
    <3>. QED
      BY <3>1, <3>2
  <2>. QED
    BY <1>1, <1>8, <2>1 DEF ExclusiveOK
<1>16. Greedy'
  BY <1>5 DEF Greedy
<1>. QED
  BY <1>6, <1>9, <1>13, <1>14, <1>15, <1>16 DEF IInv

\* The tasks in S get cores; those that get none wait again.
LEMMA InvAssign ==
  ASSUME IInv, pc \in {"first", "assign"},
         NEW S, S = IF pc = "first" THEN no_deps_pool ELSE fresh,
         AssignCores(S), LoopTest, UNCHANGED <<graph, done_set, time, current_time>>,
         starttime' \in [Task -> Int], endtime' \in [Task -> Int],
         \A x \in Started : starttime'[x] = starttime[x] /\ endtime'[x] = endtime[x],
         \A x \in S \cap no_deps_pool' :
            starttime'[x] = current_time /\ endtime'[x] = current_time + time[x]
  PROVE  IInv'
<1>0. PoolsOK /\ CoresOK /\ TimesOK /\ DepsOK /\ ExclusiveOK
  BY DEF IInv
<1>1. /\ graph \in Graphs /\ S \subseteq no_deps_pool
      /\ deps_pool \in SUBSET Task /\ no_deps_pool \in SUBSET Task /\ done_set \in SUBSET Task
      /\ deps_pool \cup no_deps_pool \cup done_set = Task
      /\ deps_pool \cap no_deps_pool = {} /\ deps_pool \cap done_set = {} /\ no_deps_pool \cap done_set = {}
      /\ Ready = {}
  BY <1>0 DEF PoolsOK
<1>2. Holders = no_deps_pool \ S
  BY <1>0 DEF Holders, PoolsOK
<1>3. Started = done_set \cup (no_deps_pool \ S)
  BY <1>2 DEF Started
<1>4. PICK A \in SUBSET S : \E core \in [A -> FreeCores] : Served(S, A, core)
  <2>1. S \in SUBSET Task
    BY <1>1
  <2>. QED
    BY <1>0, <2>1, Assigned
<1>5. PICK core \in [A -> FreeCores] : Served(S, A, core)
  BY <1>4
<1>. USE DEF Served
<1>6. /\ no_deps_pool' = (no_deps_pool \ S) \cup A /\ deps_pool' = deps_pool \cup (S \ A)
      /\ UNCHANGED <<graph, done_set, time, current_time>>
      /\ S \cap no_deps_pool' = A
  BY <1>1, <1>5
<1>7. /\ pc' \in {"process", "done"}
      /\ pc' = "done" => deps_pool' = {} /\ no_deps_pool' = {}
  BY DEF LoopTest, DepPoolsEmpty
<1>8. PoolsOK'
  <2>1. /\ deps_pool' \cup no_deps_pool' \cup done_set' = Task
        /\ deps_pool' \cap no_deps_pool' = {} /\ deps_pool' \cap done_set' = {}
        /\ no_deps_pool' \cap done_set' = {}
    BY <1>1, <1>6
  <2>2. pc' = "done" => done_set' = Task
    BY <1>7, <2>1
  <2>. QED
    BY <1>1, <1>6, <1>7, <2>1, <2>2 DEF PoolsOK
<1>9. Holders' = Holders \cup A /\ Started' = Started \cup A
  <2>1. Holders' = no_deps_pool'
    BY <1>7 DEF Holders
  <2>. QED
    BY <1>2, <1>6, <2>1 DEF Started
<1>10. /\ nproc \in Nat
       /\ processor \in [Task -> Core \cup {-1}]
       /\ \A x \in Task : processor[x] \in Core <=> x \in Started
       /\ { processor[x] : x \in Holders } = Core \ FreeCores
       /\ \A x, y \in Holders : x # y => processor[x] # processor[y]
  BY <1>0 DEF CoresOK
<1>11. FreeCores \subseteq Core
  <2>1. CASE nproc = 0
    <3>1. stack \in Seq(Core)
      BY <1>0 DEF CoresOK
    <3>2. \A j \in DOMAIN stack : stack[j] \in Core
      BY <3>1
    <3>. QED
      BY <2>1, <3>2 DEF FreeCores, Range
  <2>2. CASE nproc # 0
    BY <1>0, <2>2 DEF FreeCores, CoresOK
  <2>. QED
    BY <2>1, <2>2
<1>12. A \cap Started = {} /\ A \subseteq Task /\ Started \subseteq Task /\ Holders \subseteq Started
  BY <1>1, <1>3 DEF Started
<1>13. /\ \A x \in A : processor'[x] = core[x] /\ core[x] \in FreeCores
       /\ \A x \in Task \ A : processor'[x] = processor[x]
  BY <1>5, <1>12
<1>14. CoresOK'
  <2>1. Core' = Core
    BY <1>5 DEF Core
  <2>2. processor' \in [Task -> Core \cup {-1}]
    BY <1>5, <1>10, <1>11
  <2>3. \A x \in Task : processor'[x] \in Core <=> x \in Started'
    BY <1>9, <1>10, <1>11, <1>13
  <2>4. { processor'[x] : x \in Holders' } = Core \ FreeCores'
    <3>1. { processor'[x] : x \in Holders } = { processor[x] : x \in Holders }
      BY <1>12, <1>13
    <3>2. { processor'[x] : x \in A } = { core[x] : x \in A } /\ { core[x] : x \in A } \subseteq FreeCores
      BY <1>13
    <3>3. { processor'[x] : x \in Holders' } = { processor'[x] : x \in Holders } \cup { processor'[x] : x \in A }
      BY <1>9
    <3>. QED
      BY <1>5, <1>10, <1>11, <3>1, <3>2, <3>3
  <2>5. ASSUME NEW x \in Holders', NEW y \in Holders', processor'[x] = processor'[y]
        PROVE  x = y
    <3>1. \A z \in Holders : processor'[z] = processor[z] /\ processor[z] \notin FreeCores
      BY <1>10, <1>12, <1>13
    <3>2. CASE x \in A /\ y \in A
      BY <1>5, <1>13, <2>5, <3>2
    <3>3. CASE x \in Holders /\ y \in Holders
      BY <1>10, <2>5, <3>1, <3>3
    <3>. QED
      BY <1>9, <1>13, <2>5, <3>1, <3>2, <3>3
  <2>. QED
    BY <1>5, <1>10, <2>1, <2>2, <2>3, <2>4, <2>5 DEF CoresOK
<1>15. /\ current_time \in Nat /\ time \in [Task -> Nat]
  BY <1>0 DEF TimesOK
<1>16. ASSUME NEW x \in S
       PROVE  time[x] = graph.cost[x] /\ time[x] > 0 /\ time[x] \in Nat
  <2>1. time[x] > 0 /\ time[x] \in Nat
    BY <1>0, <1>1 DEF TimesOK
  <2>2. time[x] = graph.cost[x]
    BY <1>0 DEF TimesOK
  <2>. QED
    BY <2>1, <2>2
<1>17. \A x \in A : starttime'[x] = current_time /\ endtime'[x] = current_time + time[x]
  BY <1>6
<1>18. pc = "first" => S = no_deps_pool /\ done_set = {}
  BY <1>0 DEF PoolsOK
<1>19. TimesOK'
  <2>1. ASSUME NEW x \in no_deps_pool'
        PROVE  /\ time[x] > 0 /\ starttime'[x] >= 0
               /\ endtime'[x] = starttime'[x] + graph.cost[x]
               /\ endtime'[x] = current_time + time[x]
    <3>1. CASE x \in A
      BY <1>15, <1>16, <1>17, <3>1
    <3>2. CASE x \in no_deps_pool \ S
      <4>1. pc # "first" /\ x \in Started
        BY <1>3, <1>18, <3>2
      <4>. QED
        BY <1>0, <3>2, <4>1 DEF TimesOK
    <3>. QED
      BY <1>6, <3>1, <3>2
  <2>2. ASSUME NEW x \in done_set
        PROVE  /\ starttime'[x] >= 0
               /\ endtime'[x] = starttime'[x] + graph.cost[x]
               /\ endtime'[x] <= current_time
    <3>1. x \in Started
      BY <1>3
    <3>. QED
      BY <1>0, <3>1 DEF TimesOK
  <2>3. \A x \in deps_pool' : time[x] = graph.cost[x]
    <3>1. \A x \in deps_pool : time[x] = graph.cost[x]
      BY <1>0 DEF TimesOK
    <3>. QED
      BY <1>6, <1>16, <3>1
  <2>. QED
    BY <1>6, <1>7, <1>15, <2>1, <2>2, <2>3 DEF TimesOK
<1>20. DepsOK'
  <2>1. ASSUME NEW x \in no_deps_pool' \cup done_set
        PROVE  graph.src[x] \subseteq done_set /\ \A q \in graph.src[x] : endtime'[q] <= starttime'[x]
    <3>1. graph.src[x] \subseteq done_set
      BY <1>0, <1>6, <1>1 DEF DepsOK
    <3>2. \A q \in graph.src[x] : endtime'[q] = endtime[q]
      BY <1>3, <3>1
    <3>3. CASE x \in A
      <4>1. \A q \in done_set : endtime[q] <= current_time
        BY <1>0 DEF TimesOK
      <4>. QED
        BY <1>17, <3>1, <3>2, <3>3, <4>1
    <3>4. CASE x \in Started
      <4>1. pc # "first"
        BY <1>3, <1>18, <3>4
      <4>2. \A q \in graph.src[x] : endtime[q] <= starttime[x]
        BY <1>0, <1>3, <3>4, <4>1 DEF DepsOK
      <4>. QED
        BY <3>1, <3>2, <3>4, <4>2
    <3>. QED
      BY <1>3, <1>6, <3>3, <3>4
  <2>. QED
    BY <1>6, <2>1 DEF DepsOK
<1>21. ExclusiveOK'
  <2>1. ASSUME NEW x \in A, NEW y \in Started, processor'[x] = processor'[y]
        PROVE  endtime'[y] <= starttime'[x]
    <3>1. processor[y] \in FreeCores
      BY <1>12, <1>13, <2>1
    <3>2. y \notin Holders
      BY <1>10, <3>1
    <3>3. y \in done_set
      BY <3>2 DEF Started
    <3>. QED
      BY <1>0, <1>17, <3>3 DEF TimesOK
  <2>2. ASSUME NEW x \in Started, NEW y \in Started, x # y, processor'[x] = processor'[y]
        PROVE  endtime'[x] <= starttime'[y] \/ endtime'[y] <= starttime'[x]
    <3>1. processor[x] = processor[y]
      BY <1>12, <1>13, <2>2
    <3>2. endtime[x] <= starttime[y] \/ endtime[y] <= starttime[x]
      BY <1>0, <2>2, <3>1 DEF ExclusiveOK
    <3>. QED
      BY <3>2
  <2>3. ASSUME NEW x \in A, NEW y \in A, processor'[x] = processor'[y]
        PROVE  x = y
    BY <1>5, <1>13, <2>3
  <2>. QED
    BY <1>9, <2>1, <2>2, <2>3 DEF ExclusiveOK
<1>22. Greedy'
  <2>1. CASE A = S
    <3>1. deps_pool' = deps_pool
      BY <1>6, <2>1
    <3>2. Ready' = {}
      BY <1>1, <1>6, <3>1 DEF Ready
    <3>. QED
      BY <3>2 DEF Greedy
  <2>2. CASE FreeCores' = {}
    BY <2>2 DEF Greedy
  <2>. QED
    BY <1>5, <2>1, <2>2
<1>. QED
  BY <1>8, <1>14, <1>19, <1>20, <1>21, <1>22 DEF IInv

LEMMA InvFirst ==
  ASSUME IInv, FirstTasks
  PROVE  IInv'
<1>0. PoolsOK /\ CoresOK /\ TimesOK
  BY DEF IInv
<1>1. /\ pc = "first" /\ AssignCores(no_deps_pool) /\ LoopTest
      /\ UNCHANGED <<graph, done_set, time, current_time>>
      /\ starttime' = [x \in Task |-> IF x \in no_deps_pool' THEN 0 ELSE starttime[x]]
      /\ endtime' = [x \in Task |-> IF x \in no_deps_pool' THEN 0 + time[x] ELSE endtime[x]]
  BY DEF FirstTasks, SetTimes, loopVars
<1>2. Started = {}
  BY <1>0, <1>1 DEF Started, Holders, PoolsOK
<1>3. no_deps_pool \in SUBSET Task
  BY <1>0 DEF PoolsOK
<1>4. /\ time \in [Task -> Nat] /\ starttime \in [Task -> Int] /\ endtime \in [Task -> Int]
      /\ current_time = 0
  BY <1>0, <1>1 DEF TimesOK
<1>5. starttime' \in [Task -> Int] /\ endtime' \in [Task -> Int]
  <2>1. \A x \in Task : 0 + time[x] \in Int
    BY <1>4
  <2>. QED
    BY <1>1, <1>4, <2>1
<1>6. ASSUME NEW x \in no_deps_pool \cap no_deps_pool'
      PROVE  starttime'[x] = current_time /\ endtime'[x] = current_time + time[x]
  BY <1>1, <1>3, <1>4
<1>. QED
  BY <1>1, <1>2, <1>5, <1>6, InvAssign

LEMMA InvAssignTasks ==
  ASSUME IInv, AssignTasks
  PROVE  IInv'
<1>0. PoolsOK /\ TimesOK
  BY DEF IInv
<1>1. /\ pc = "assign" /\ AssignCores(fresh) /\ LoopTest
      /\ UNCHANGED <<graph, done_set, time, current_time>>
      /\ starttime' = starttime /\ endtime' = endtime
  BY DEF AssignTasks, loopVars
<1>2. starttime' \in [Task -> Int] /\ endtime' \in [Task -> Int]
  BY <1>0, <1>1 DEF TimesOK
<1>3. ASSUME NEW x \in fresh \cap no_deps_pool'
      PROVE  starttime'[x] = current_time /\ endtime'[x] = current_time + time[x]
  <2>1. x \in no_deps_pool
    BY <1>0, <1>1 DEF PoolsOK
  <2>. QED
    BY <1>0, <1>1, <2>1 DEF TimesOK
<1>. QED
  BY <1>1, <1>2, <1>3, InvAssign

LEMMA InvStep ==
  ASSUME IInv, [Next]_vars
  PROVE  IInv'
<1>1. CASE FirstTasks
  BY <1>1, InvFirst
<1>2. CASE Process
  BY <1>2, InvProcess
<1>3. CASE Yield
  BY <1>3, InvYield
<1>4. CASE NewTasks
  BY <1>4, InvNewTasks
<1>5. CASE AssignTasks
  BY <1>5, InvAssignTasks
<1>6. CASE UNCHANGED vars
  <2>1. UNCHANGED <<graph, deps_pool, no_deps_pool, done_set, time, starttime, endtime,
                    nproc, stack, queue, processor, pc, current_time, fresh>>
    BY <1>6 DEF vars, poolVars, machineVars, loopVars
  <2>2. Holders' = Holders /\ Ready' = Ready /\ FreeCores' = FreeCores /\ Core' = Core
    BY <2>1 DEF Holders, Ready, FreeCores, Core
  <2>3. Started' = Started
    BY <2>1, <2>2 DEF Started
  <2>4. PoolsOK' /\ Greedy'
    BY <2>1, <2>2 DEF IInv, PoolsOK, Greedy
  <2>5. CoresOK'
    BY <2>1, <2>2, <2>3 DEF IInv, CoresOK
  <2>6. TimesOK' /\ DepsOK'
    BY <2>1 DEF IInv, TimesOK, DepsOK
  <2>7. ExclusiveOK'
    BY <2>1, <2>3 DEF IInv, ExclusiveOK
  <2>. QED
    BY <2>4, <2>5, <2>6, <2>7 DEF IInv
<1>. QED
  BY <1>1, <1>2, <1>3, <1>4, <1>5, <1>6 DEF Next, Terminating

-----------------------------------------------------------------------------
(***************************************************************************)
(* The theorems.                                                           *)
(***************************************************************************)

\* The invariant of Scheduler.schedule.
THEOREM Invariant == Spec => []IInv
<1>1. Init => IInv
  BY InvInit
<1>2. IInv /\ [Next]_vars => IInv'
  BY InvStep
<1>. QED
  BY <1>1, <1>2, PTL DEF Spec

\* assign_cores and yield_cores lose no core and give none to two tasks.
THEOREM CoresCorrect == Spec => []CoresAccounted
<1>1. ASSUME CoresOK
      PROVE  CoresAccounted
  <2>1. stack \in Seq(Core) /\ \A j, k \in DOMAIN stack : stack[j] = stack[k] => j = k
    BY <1>1 DEF CoresOK
  <2>2. Cardinality(Range(stack)) = Len(stack)
    BY <2>1, DistinctSeq
  <2>. QED
    BY <1>1, <2>2 DEF CoresOK, CoresAccounted
<1>2. IInv => CoresAccounted
  BY <1>1 DEF IInv
<1>. QED
  BY <1>2, Invariant, PTL

\* processing_until_done is never called with a free core and a ready task.
THEOREM GreedyCorrect == Spec => []Greedy
<1>1. IInv => Greedy
  BY DEF IInv
<1>. QED
  BY <1>1, Invariant, PTL

\* The schedule offsched writes is accepted by des.py.
THEOREM FinalCorrect == Spec => []FinalSchedule
<1>1. ASSUME IInv, pc = "done"
      PROVE  Accepts(graph, nproc, processor, starttime)
  <2>0. PoolsOK /\ CoresOK /\ TimesOK /\ DepsOK /\ ExclusiveOK
    BY <1>1 DEF IInv
  <2>1. graph \in Graphs /\ done_set = Task
    BY <1>1, <2>0 DEF PoolsOK
  <2>2. Started = Task
    <3>1. Holders = no_deps_pool /\ no_deps_pool \subseteq Task
      BY <1>1, <2>0 DEF Holders, PoolsOK
    <3>. QED
      BY <2>1, <3>1 DEF Started
  <2>3. \A x \in Task : processor[x] \in Core
    BY <2>0, <2>2 DEF CoresOK
  <2>4. \A x \in Task : processor[x] >= 0
    <3>1. nproc \in Nat /\ nodes \in Nat
      BY <2>0, GraphsAssumption DEF CoresOK
    <3>2. \A c \in Core : c \in Int /\ c >= 0
      BY <3>1 DEF Core, Task
    <3>. QED
      BY <2>3, <3>2
  <2>5. nproc # 0 => \A x \in Task : processor[x] < nproc
    <3>1. nproc \in Nat
      BY <2>0 DEF CoresOK
    <3>2. nproc # 0 => \A c \in Core : c < nproc
      BY <3>1 DEF Core
    <3>. QED
      BY <2>3, <3>2
  <2>6. \A x \in Task : starttime[x] >= 0 /\ endtime[x] = starttime[x] + graph.cost[x]
    BY <2>0, <2>1 DEF TimesOK
  <2>7. ASSUME NEW x \in Task, NEW y \in graph.src[x]
        PROVE  starttime[y] + graph.cost[y] <= starttime[x]
    <3>1. y \in Task /\ endtime[y] <= starttime[x]
      BY <1>1, <2>0, <2>1 DEF DepsOK
    <3>. QED
      BY <2>6, <3>1
  <2>8. ASSUME NEW x \in Task, NEW y \in Task, x # y, processor[x] = processor[y]
        PROVE  \/ starttime[x] + graph.cost[x] <= starttime[y]
               \/ starttime[y] + graph.cost[y] <= starttime[x]
    <3>1. endtime[x] <= starttime[y] \/ endtime[y] <= starttime[x]
      BY <2>0, <2>2, <2>8 DEF ExclusiveOK
    <3>. QED
      BY <2>6, <3>1
  <2>. QED
    BY <2>4, <2>5, <2>6, <2>7, <2>8 DEF Accepts
<1>2. IInv => FinalSchedule
  BY <1>1 DEF FinalSchedule
<1>. QED
  BY <1>2, Invariant, PTL
=============================================================================
