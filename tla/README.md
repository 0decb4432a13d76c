# Parallel SSSP, queues, histograms and schedulers in TLA+

This directory is a verification development of the programs of
*Parallel-and-Distributed-Systems*: four assignments, `src/a1` to `src/a4`, each
a set of small programs that solve one problem in several ways. The modules are
translated from the code under `src/`; `PROJECT.json` names, for every
definition, the lines it stands for.

## 1. Inventory

| part | state | operations | hard behaviour | what makes it correct |
|---|---|---|---|---|
| a2 graph (`simplegraph.h`) | the CSR arrays `row_start`, `edge_dst`, `edge_wt`, `node_wt` | `load_file`, `save_file` | empty rows before, between and after the edges; files that are cut short, not sorted or without a proper header; write errors that only `fclose` reports | the arrays are the graph of the file; what is saved is what was loaded |
| a2 `sssp_graphlock` | `node_wt`, `changed`, one mutex, one barrier; per thread the loop variables and `rounds` | slice initialisation, rounds of relaxing, barrier, test and reset of `changed` | one barrier object used at four places; reading `node_wt` outside the mutex; early exit | output is the table of shortest distances, all threads leave in the same round |
| a2 `sssp_nodelock` | the same with two mutexes (`head_lock`, `tail_lock`) | the same; distances are copied under the locks, compared outside, stored under a lock | check and store are different critical sections; the test whether a node is reached is in none | no deadlock, no data race but that of the unlocked test, an early exit is a fixpoint |
| a2 `sssp_barrier` | the same with an array of atomics | load, load, re-load, compare, `exchange`, re-load | `exchange` stores unconditionally | every store is announced by `changed` |
| a2 `sssp_relaxed` | `sssp_barrier` with `memory_order_relaxed` | the same | a load may return an old value until the next barrier | as `sssp_barrier` |
| a2 `sssp_ex3` | plain ints, no barrier after the initialisation | the same | data races; relaxing while others initialise | agreement on rounds, no distance too low, from the second round on an early exit is a fixpoint (in the first it need not be) |
| a2 `sssp`, `sssp_no_atomic` | threads started and joined by `main` in every round; atomics and plain ints | `sssp_init`, `sssp_round`, `main`'s round loop | `changed` is read by `main`, written by threads | rounds never overlap |
| a2 `sssp_serial` | one thread | Bellman-Ford, `write_output` | the early exit | writes the table of shortest distances; the reference of the tests |
| a4 `blocking_queue.h` | ring of `maxqsize + 1` cells, `head`, `tail`, one mutex | `push`, `pop` | index moved before the cell is used; wrap-around; early returns | a FIFO queue; the mutex is always given back |
| a4 `lockfree_queue.h` | linked list with dummy node, counted `head` and `tail` | `enqueue`, `dequeue` | Michael-Scott: lagging tail, stale pointers, freed and reused nodes | a FIFO queue |
| a4 `sssp_blocking`, `sssp_lockfree` | `node_wt` (atomics), the queue, `states` | pop, relax with compare-and-exchange, push, termination detection | work in flight that is in no queue; a thread marks *another* thread idle | no work lost, true distances, everybody leaves |
| a4 `sssp_serial`, `serialqueue.h` | a ring of nodes, one thread | pop, relax, push | a full ring; a ring without room for the source | no node with open edges leaves the ring; the table of shortest distances |
| a3 `histo_lock1`, `histo_lock2` | shared histograms behind a test-and-test-and-set lock or a ticket lock | `acquire`, `release`, the pixel loop | spinning, fairness, wrap-around of tickets | mutual exclusion, every pixel counted once |
| a3 `histo_lockfree`, `histo_private` | atomic counters; private histograms merged by `main` | increment; merge | lost increments; the last slice | every pixel counted once |
| a3 `ppmb_io` | a file of a header and bytes; a state machine for the header | `ppmb_write`, `ppmb_read`, `ppmb_check_data`, the two tests | bytes of pixels that look like white space; a file cut short by a full disk or a crash; `malloc` and `fopen` failing | what is read is what was written, or an error |
| a1 `offsched` | task graph, pools of waiting, running and done tasks, free cores | `assign_cores`, `rollback`, `commit`, `yield_cores` | tasks that are ready but get no core | dependences and cores respected: what `des.py` accepts |
| a1 `des.py`, `taskgraph.py` | schedule, task graph | read, check | | the definition of a valid schedule |

The programs of one assignment do not call each other; within a program the
threads interact through shared variables, mutexes, barriers, the queue, and
through `main`, which starts and joins them. Two kinds of file come from outside:
the graphs `load_file` reads for all SSSP programs, and the pictures `ppmb_read` reads for
all histogram programs. `SSSPSerial` and `Histogram` are these compositions: they start with the
file, and what the reader leaves is the input of the program.

## 2. Modules

Written and checked, in the order they build on each other:

| module | models | contents |
|---|---|---|
| `Slices` | the division of a range among threads, as all programs of a2 (and a3) do it | `SliceLen`, `SliceStart`, `SliceEnd` |
| `GraphFile` | `load_file` and `save_file`, from the file to the arrays and back | one action per iteration of an outer loop |
| `CSRGraph` | the state a successful `load_file` leaves, as assumptions on constants; `HopDist` is the Bellman-Ford table, given by its recurrence, `Dist` its last row, the true distances | `Row`, `Closed`, assumptions |
| `ShortestPaths` | *abstract*: what an SSSP program promises. Distances only fall, never below the true ones, and when the result is handed over it is the table of true distances | `Spec` |
| `EdgeScan` | the two loops of every thread of a2: initialise the slice, visit the edges of the slice's reached nodes | one action per loop step |
| `BarrierRounds` | the round control of the barrier programs: barrier, test of `changed`, reset, round counter | `Control`, the properties of the rounds |
| `SSSPGraphLock` | `sssp_graphlock.cpp` = `BarrierRounds` + the body under one mutex | `Spec`, `IInv` |
| `ExchangeRelax`, `PlainRelax`, `RaceRelax` | the loop bodies of the programs without locks: atomics with `exchange`, plain ints, and the choice between them (variable `program`) | one action per load and store |
| `RelaxedExchange` | the loop body of `sssp_relaxed.cpp`: `ExchangeRelax` over a memory in which a load may return an older store | one action per load and store |
| `LockRelax` | the loop body of `sssp_nodelock.cpp`: three critical sections under two mutexes | |
| `SSSPBarrier` | `sssp_barrier.cpp`, `sssp_ex3.cpp`, `sssp_relaxed.cpp` and `sssp_nodelock.cpp` = `BarrierRounds` + `RaceRelax`, `RelaxedExchange` or `LockRelax` | |
| `SpawnRounds`, `SSSP` | `sssp.cpp` and `sssp_no_atomic.cpp`: `main` and its threads, with `RaceRelax` | |
| `SerialQueue`, `SSSPSerial` | `serialqueue.h`; the sequential programs of a2 and a4 from the file to `write_output`, and a caller of `save_file` = `GraphFile` + the programs | one action per edge |
| `Fifo` | *abstract*: a bounded FIFO queue called by several threads; every call takes effect at one moment between call and return | `Spec` |
| `BlockingQueue`, `MSQueue` | `blocking_queue.h`, `lockfree_queue.h`, every statement or memory access a step | refinement of `Fifo` |
| `SSSPWorklist` | `sssp_blocking.cpp`, `sssp_lockfree.cpp`, with the queue as `Fifo` promises | refinement of `ShortestPaths` |
| `PPMFile` | `ppmb_io.c`: writing a picture, reading one, checking it, `ppmb_write_test` and `ppmb_read_test` | one action per element of a header or byte |
| `PixelScan` | main, which reads the picture with `PPMFile`, and the pixel loop of the histogram programs of a3; the sequential `histogram.cpp` as the function `SerialHist` | one action per step of `main` and of the loop |
| `TTASLock`, `TicketLock` | the locks of `histo_lock1` and `histo_lock2`, one per channel, every load, store and read-modify-write a step | |
| `Histogram` | `histo_lock1`, `histo_lock2`, `histo_lockfree`, `histo_private` and `ppmb_read_test` (variable `program`), each on a file | a count of pixels as the reference |
| `TaskGraph` | *abstract*: the graphs `taskgraph.py` accepts and, as the operator `Accepts`, the schedules `des.py` accepts | |
| `DepGraph`, `Machine` | the classes of `offsched`: the pools of tasks; the two machines and the strategy they use | one operator per method |
| `OffSched` | `Scheduler.schedule`, one action per call; the numbers it prints | |
| `BarrierRoundsProofs`, `SSSPGraphLockProofs`, `SSSPRaceProofs`, `SSSPWorklistProofs`, `QueueProofs`, `SSSPSerialProofs`, `HistogramProofs`, `OffSchedProofs` | theorems, see section 5 | |

`MCGraph` computes the constants of `CSRGraph` from a list of edges and holds
the small graphs; `MCSSSPSerial`, `MCHistogram` and `MCOffSched` define the graph files, the pictures and the task graphs, and the other `MC` modules
only put a specification and `MCGraph` together. The queues need no constants but sets of model values, and are run as they are.

**State and steps.** Shared variables and locals keep the names they have in
the code; `pc[t]` names the statement thread `t` is at. A step is one access
to shared memory together with the local statements around it. `EdgeScan!NextEdge` is
the end of a loop body: `e++`, the test, and `node++` when the row is
finished. `BarrierWait` is `pthread_barrier_wait`: the last of `threadNum`
threads releases the others, wherever they wait, because there is only one
barrier object. A definition whose comment begins with *Faulty* is a mutated
form of the definition that follows; no specification uses it.

**Abstractions.**
- Memory is sequentially consistent, except in `RelaxedExchange`. There every location keeps the order of its
  stores (`older`, then `node_wt`); `seen[t][n]` is the newest store to `n` that thread `t` knows of, a load returns that one
  or any later one, an exchange goes to the end of the order, and `pthread_barrier_wait`, which orders all
  memory, makes everything before it seen. This is what coherence and the barriers leave. That a store
  becomes visible before an earlier load of its thread has been done is left out: every exchange comes behind branches on all earlier
  loads, and processors do not store ahead of a branch. `changed` (`sssp_relaxed.cpp:17`) is a plain `bool`. Between two barriers the threads only set it, all to the same value, or only read it, or only reset it:
  the barriers make every read see what was written before them, so that it stays sequentially consistent. Locking both mutexes of `sssp_nodelock`
  with `std::lock` is one step.
- The data races on the plain ints of `sssp_ex3` and `sssp_no_atomic` are a
  choice between what is in the array and a copy in a register (`PlainRelax`).
  An `int` is read and written whole.
- `INT_MAX` is a constant `INF` above every distance. That `INF + weight` is
  never computed is a property (`NoOverflow`).
- The allocator under `MSQueue` may overwrite the value of a freed node. With `Reuse = FALSE` it hands every address
  out once; with `Reuse = TRUE` also those of freed nodes, as `new` does.
- A graph file is a status, the two numbers of its header and the edges that can be scanned; a file that
  ends early, or has a word that is not a number, has fewer edges than its header says. `load_file` rejects a header only if the file ends before its first
  number. With one number, or a word in its place, it goes on with what the memory holds: the model takes any of `Leftovers` (`LoadOddHeader`). It does the same with
  numbers below 0. Where a loop then runs over arrays that are not there (`LoadTailOutside`, `UseMissingArrays`), `pc` is `"undefined"` and nothing more is claimed.
- stdio writes to the file when its buffer is full or the file is closed. An error can therefore surface at any later write, or at `fclose`, to whose
  result nobody listens, and take the last lines that had been reported as written: `Written(lines)` leaves any beginning of them in the file, and `lost` says how many did not get there.
- A picture file is a sequence of elements: the words of the header, and bytes. `Spaces` holds the values
  of a byte for which `isspace` is true, so that a byte of a pixel can look like a separator. A write behind
  `Room` elements leaves nothing on the disk, and the code does not notice; `room` is chosen freely, which covers
  a disk that gets full and a crash after any element (also one that only the buffer of stdio has seen). `malloc` and `fopen` may fail.
  A file of another program may hold any word in any place and any byte, and all five programs read it. A word that begins with a number counts as that number, as for
  `sscanf`; for another one `sscanf` returns 0 and the code looks for `EOF` only, so the `int` keeps what it held: one of `Leftovers`, or a value below 0, after
  which nothing is claimed (`at = "undefined"`). In the same way a byte above `maxrgb` is counted outside the array in the threaded programs
  (`CountOutside`, `main = "undefined"`): the code does not compare the two, only `ppmb_check_data` does, which they do not call.
- In `SSSPSerial` a call of the queue is part of the step of its edge: there is one thread.
- In `SSSPWorklist` a queue call is one step. That this is allowed is what
  `BlockingQueue` and `MSQueue` show by implementing `Fifo`. With weak fairness of a thread this also says that every queue call returns: that the mutex of
  `blocking_queue` does not starve a thread, and that no thread retries its `compare_exchange` in `lockfree_queue` for ever. The second is not a
  promise of a lock-free queue (only some thread gets on); `Termination` of `worklist` rests on it. A graph without edges gives a queue of no
  places; the push of the source, whose result `main` ignores, then fails, and the threads find nothing to do (`Init`).
- The order of loads and stores is that of the program also in `TicketLock`, where they are relaxed: the
  fence at the end of `acquire` is `memory_order_release` where the C++ memory model asks for `acquire`. The build
  (g++ on x86) keeps the order, because the processor does not reorder loads and the compiler moves
  nothing across a fence.
- In `Machine` the order in which Python visits a set, and which of several equally loaded cores the priority queue returns,
  are left open. The strategies no machine selects are left out.
- Timing, printing and reading arguments are left out, and in the threaded programs writing the output, after the last join.

## 3. Runs

| run | instance | question | result |
|---|---|---|---|
| `graphlock` | 5 nodes, 3 threads | does the program with one mutex implement `ShortestPaths`, keep its inductive invariant and return? | holds |
| `barrier` | 5 nodes, 3 threads, four programs | do the retry loops end, is every store announced, with relaxed loads too, is there no data race in `sssp_nodelock` but the known one, is an early exit a fixpoint, do the threads agree on rounds with and without the first barrier? | holds |
| `spawned` | 5 nodes, 3 threads, both programs | do rounds stay apart, is an early exit a fixpoint, does `main` end? | holds |
| `serial` | all files of 3 nodes and up to 3 edges, four larger ones, and odd headers with every left-over number from -1 to 2; three programs | is the graph in memory that of the file, is a file cut short behind its header rejected, is the output the table of shortest distances, does `save_file` write what was read? | holds |
| `blocking_queue` | 3 threads, 2 items, 2 places | FIFO? Is the mutex always given back? | holds |
| `ms_queue` | 2 threads, 2 items, 4 nodes | FIFO? Is the list sound? | holds |
| `worklist` | 5 nodes, 2 threads, 2 places | is no work lost, are the distances right, does everybody leave? | holds |
| `histogram` | 3 threads, pictures of 4, 2 and 1 pixels, 8 files of other programs, disks of 0 to 20 elements; five programs | is the picture read the one written, is every pixel counted once, is the ticket line served in order, does everybody return? | holds |
| `offsched` | all graphs of 4 tasks with times 1 and 2, no limit and 1 to 3 cores | is the schedule one `des.py` accepts, as short as greedy scheduling promises, and complete; which critical tasks are counted? | holds |
| `exchange_lost` | 4 nodes, 3 threads | is the output of `sssp_barrier` always the reference? | no |
| `ms_queue_reused` | 2 threads, 3 nodes, reused addresses | does an enqueue link its node to a node of the list? | no |
| `worklist_full` | 7 nodes, 23 edges, 1 thread | is a queue of `num_edges * 2` places enough? | no |

**Properties.** `FinalDistances`, `GuardedEarlyExit`, `BreakIsFixpoint`, `AboveDist` and `ImplementsShortestPaths`
compare the distance array with the table defined in `CSRGraph` independently of the programs.
`SamePhase`, `SameRound`, `LeaveTogether` and `RoundsSeparated` say what barrier and joins must achieve (`SpawnRounds` and `SSSP` name what they share in kind
with `BarrierRounds` and `SSSPBarrier` differently, so that one module can prove both);
`RacesOnlyAtTest` compares what the next steps of any two threads of `sssp_nodelock` read and store, in all of the program and not only where the mutexes are: the one
race there is, is named. `GuardedEarlyExit` covers `sssp_ex3` once all its threads are behind the first round;
`StoreAnnounced` and `OpenEdgeCovered` relate an unfinished improvement to
whoever will complete it; `QueueAttended` says that the threads which are about to leave
never leave the queue to nobody; `NothingLost` compares every count, also in the middle of a run, with the number of pixels the threads have passed,
and `TicketsInLine` the numbers of the ticket lock with the threads that wait. `LoadedOrRejected` and `RoundTrip` compare the arrays, and what is
written from them, with the file; `FinalOutput` what the sequential programs write with a table computed from the file alone; `WorkQueued` says where in
the ring the work is that remains to be done; `PictureIntact` compares a picture that was written, under every place where the file can end, with the one read. `GoodSchedule` compares the schedule
with the longest chains of the graph: without a limit every task starts as early as it can and the
number of cores printed is the largest number of tasks running at a time, the number of critical tasks printed is that of the tasks on longest chains which end with another task than 0, with `m` cores Graham's bound for greedy scheduling
holds. `Termination`, `MainEnds` and `Progress` are liveness.

**Bounds.** The graphs are chosen so that the interesting orders happen:
`Backward` (run `graphlock`: a shortest path against the order in
which the nodes are visited, so that all `n - 1` rounds are needed; one round less breaks `FinalDistances`), `Rivals` (run `barrier`: three
nodes offer different distances to one, and a cycle leads through the source), `Overtaking` (`spawned`, `exchange_lost`: three different distances offered to one node, one of them
late, so that a store of a large one can follow a store of a small one), `Diamond` (`worklist`: a node that is improved after it was used). `...AndIsland` adds an
unreachable node that has an out-edge. Three threads on five nodes give
slices of one, one and three nodes, so the last slice takes the remainder. With
four nodes (`n - 1 = 3` rounds) a lost improvement still has a last round to be
lost in. The files of `serial` include every order of up to three edges, so that rows are empty at the beginning, in
the middle and at the end, and sources descend; files one edge short; `simplegr.txt` of the repository; a graph that needs several rounds; one with a weight below 0;
one that fills the ring of a4; and headers with one number, none, or numbers below 0. A ring of three cells with two places wraps around, gets full and gets empty;
four list nodes allow three enqueues, so that head, tail and a freed node
are all different; to link behind a freed node takes two enqueues besides, so `ms_queue_reused` has three. The pictures have a slice that is longer than the others, pixels of equal value in different slices, fewer pixels than
threads, and pixels that look like white space right behind the header; a whole file has 11, 14 or 20 elements, so a disk of 0 to 20 cuts every file at every place. Four tasks are enough for a fork, a join, a chain, more ready tasks than cores, tasks put back once or
several times, and tasks of different length that end together. `offsched` treats no number but 0 differently from others, so the graphs of the run are all graphs without a cycle up to
renaming the tasks from 1 on: these depend on smaller ones only, and task 0 has any place in their order, the last too. `worklist` has two places, so that `exit(1)` is taken
too; `worklist_full` uses the capacity of `main`, `num_edges * 2`.

**Fairness.** Weak fairness of every thread (and of `main` and the reader of its file; in `OffSched` and `SSSPSerial`, which are sequential, of the program): threads are run by
the operating system, every blocking step (mutex, barrier, join) is disabled while it has to wait.
Nobody has to call a queue. In `SSSPWorklist` the successful
`compare_exchange_weak` is strongly fair in addition: the instruction may fail
without cause, but not for ever. `Termination` there includes the exit with a
full queue. No fairness is assumed for `MSQueue`, whose properties are all safety.

## 4. What the violations show

- `exchange_lost`: `exchange` in `sssp_barrier.cpp:53` (the same in `sssp.cpp:57`) stores the larger
  distance over a smaller one that another thread has stored after the comparison; the check behind it reads
  its own value back. Normally a later round repairs this (`StoreAnnounced`, `GuardedEarlyExit`); in
  the last of the `n - 1` rounds nothing does.
- `ms_queue_reused`: a count beside a pointer tells a node from an earlier one at the same address, but a new node starts its `next` with the count 0
  (`lockfree_queue.h:13` and 32), every time. A thread that has read the only node `t` and its empty `next` stops before line 48; another
  enqueues, dequeues, which frees `t`, and enqueues again, at the address of `t`. The `compare_exchange` of the first then succeeds at a node
  that is not in the list yet. Without reuse (`ms_queue`) the queue is a FIFO queue.
- `worklist_full`: a node is queued once per improvement, so that the queue can
  hold more nodes than twice the number of edges, and the program gives up.

Three more disagreements between code and intention limit what the properties say, and are part of the model:

- In `sssp_ex3.cpp` no barrier follows the initialisation (line 36; compare `sssp_barrier.cpp:34`). The thread of the source may relax its edges
  while the other slices hold the zeros of `calloc`, to which nothing is an improvement. The others then store `INF`, find no node of theirs reached, and all
  see `changed` unset: the program ends in round 0 and prints `INF` for everything but the source. TLC finds this when `FinalDistances` is asked of `sssp_ex3` on
  `Overtaking` with three threads; `auto.sh` runs `test.sh` to compare the output with the reference for every number of threads. The initialisation can also reset a distance stored by
  another thread, which a later round repairs if one is left. From the second round on an early exit is right (`GuardedEarlyExit`).
- `simplegraph.h:25` compares the result of `fscanf` with `EOF` only, so that a header of one number is accepted with `num_edges` never stored to, against the message of the next line,
  "Couldn't read nodes and edges". If that happens to be 0,
  `load_file` reports a graph without edges; if it is above 0, the first edge is missing and the file is rejected. The second disjunct of `LoadedOrRejected` says that no worse happens.
- The function `aux` of `offsched` (line 332) returns the index of a task, and `filter` takes the index 0 for
  false, so that task 0 is not counted when it ends last, nor are the tasks that are found through it only; if no other ends last the program prints 0 as "the amount of tasks on the critical path" (line 328).
  The last conjunct of `GoodSchedule` for `nproc = 0` says that this is all that is wrong: the
  number is that of the tasks on the longest chains that end with another task than 0.

Also seen while modelling: `sssp_nodelock.cpp:58` compares copies made in an earlier
critical section, and loses improvements as `exchange` does; `sssp_nodelock.cpp:44` reads without a mutex what line 59 stores under two; in `offsched` the comments at lines 138 and 145 are exchanged, `shortest_remaining_time_first`, which both machines use, serves the
*longest* task first; and the "minimum finite number of processors" of line 316 is the largest number of
tasks running at a time in the schedule that starts everything as early as possible, which can be more than needed. In the worklist programs,
`sssp_blocking.cpp:85` stores `NO_WORK` for the first
thread that is not idle, not for the thread itself; the run `worklist` shows that result and termination do not depend on it.

`dequeue` reads `n.p->val` (`lockfree_queue.h:74`) after it has checked `head`; between the two
another thread can dequeue twice and free the node. The value is thrown away, because
the `compare_exchange` fails (`ImplementsFifo` holds although the model overwrites it), but the memory read is not allocated.
`ppmb_write` does not look at the results of its writes and reports success for a file that is cut short; `ppmb_read` finds out. On
its error paths `ppmb_read` leaves the file open.

## 5. Proofs

The theorems hold for every value of the constants that satisfies the assumptions in the modules: `ThreadAssumption` and the first half of
`WorklistAssumption` (at least one thread), `CSRAssumption` (a
well-formed graph), `HopAssumption` (the recurrence that defines `HopDist`), `INFAssumption` and `NoNegativeCycle` (of the graph; in `SSSPSerial`, of every file), `NoThreadAssumption` (an owner of a
mutex that is no thread), `NodeAssumption` (at least the dummy node), `ProgramsAssumption` (programs that exist), `QueueAssumption` and the second part of `WorklistAssumption` (a queue has room for an item unless the graph has no edge),
`FilesAssumption`, for the pictures `PicturesAssumption` (a picture has at least one pixel, as those of the two tests have; `ppmb_check_data` refuses others), `FileAssumption`, `ForeignAssumption` (the files of other programs consist of words,
bytes and numbers without a sign) and `ThreadsAssumption`, and for the task graphs `GraphsAssumption` (costs are positive, as `taskgraph.py` asserts, and the graph has no cycle) and `ProcsAssumption`. TLC evaluates them for every instance.

### `sssp_graphlock`

`SSSPGraphLockProofs` proves

- `TypeCorrect`, `MutexCorrect`, `SamePhaseCorrect`, `LeaveTogetherCorrect`,
  `OnlyDecreasesCorrect`, `RoundProgressCorrect`, `EarlyExitCorrect`;
- `FinalCorrect`: when all threads have returned, `node_wt = Dist`;
- `Refinement`: `Spec => ImplementsShortestPaths`.

The argument for `SSSPGraphLock` has three layers, each an inductive invariant relative to the ones before
(`IInv == Control1 /\ Bounds2 /\ Progress3`):

1. *Control* (`Control1`): types, loop variables in their slices, phases, mutual
   exclusion. `SamePhase` is not inductive: that all threads come out of the barrier in the same phase depends on
   all of them having tested the same value of `changed`
   (`ChangedUntilReset`), and that nobody waits for a thread that has left on `LeaveTogether`.
   `BarrierRoundsProofs` proves this part for any loop body, so that the other barrier programs use it too.
2. *Bounds* (`Bounds2`): while the initialisation runs, the finished part of every slice holds
   the initial distances; from its end on no distance is below the true one and
   none above the initial one; what a thread has read under the mutex is still
   in the array.
3. *Progress* (`Progress3`): at the start of round `r` no distance is above the least weight of a
   walk of at most `r` edges (`RoundProgress`). Within a round, every edge already passed is relaxed or
   `changed` is set; hence an unset flag at the test means a closed table.

`ClosedIsDist` (in `BarrierRoundsProofs` and, for the work-list programs, in `SSSPWorklistProofs`), which all proofs about distances end with, closes the gap: a closed table between the true and the initial distances
*is* the table of true distances. `BarrierRoundsProofs` shows that every node is in some thread's slice, and in one only (`SliceCover`, `SliceDisjoint`).

### The sequential programs, from the file to the output

For *every* set of files that satisfies `FilesAssumption` (numbers are integers, the nodes of an edge exist, and behind a header that `fscanf` stops in there are no edges), every left-over number, and `NoNegativeCycle`,
`SSSPSerialProofs` proves of `SSSPSerial`

- `LoadCorrect`: what `load_file` rejects it should reject, and what it takes is either complete and sorted, and
  the arrays are the graph of the file, or has an odd header, and then no edge was read (`LoadedOrRejected`); the second case is real, see section 4. For files with a good header, with the types in `FileInv` and `RowsAscend` these are the conjuncts of `CSRAssumption` about rows, on which the other proofs rest;
- `SaveCorrect`: `save_file` writes the file that was read, but for last lines that `fclose` could not write (`RoundTrip`);
- `WorkCorrect`: no work of a4 is lost between the queue and the loop over the edges (`WorkQueued`);
- `OutputCorrect`: both programs write the shortest distances of the file, or a beginning of that table when lines are lost (`FinalOutput`). A full queue of a4 ends the program with an error and without
  output (`exitFull`); the run `worklist_full` shows for the threaded program that this can happen.

Weights are integers and do not overflow, as everywhere in this project. `NoNegativeCycle` is used for the last two only: the first two rest on `FileInvariant`, which no weight matters for.

The invariant is `FileInv /\ SerialInv`, or `OddInv` for a file with an odd header: no edge has been read, and the array of rows is there as long as it is used (`FileInvariant`, `SerialInvariant`). The loop invariant of `load_file` (`Reading`) says that the sources of the edges read ascend and that every row `r` up to
`last_src` starts where it should: `row_start[r] <= k` exactly if `r` is at most the source of edge `k` (`Rows`). Stated
this way the invariant needs no case for empty rows, and the loop behind the last edge extends it to all rows (`TailLoaded`).
From it `LoadedIsGraph` follows: `k` is in row `n` exactly if `n` is the source of edge `k`. The invariant of `save_file` (`Saving`) is that the
lines written are the first `e` edges, and that `e` is between the start of row `i` and that of the next.

For the programs the table is at every moment between the true distances and the initial ones (`TableOK`). In a2 (`RoundOK`) it is also not above the row of
the round in the table of Bellman and Ford, and an edge that this round has passed has nothing left to lower: not from the distances of that row, and, if nothing has changed in this round, not
from its own either. So a round without a change leaves a closed table, a round with one reaches the next row, and the last row is the table of
distances. In a4 (`QueueOK`) an edge that can lower a distance is one of a queued node or one still to be passed, so that an empty queue means a closed table. A closed table between the true
distances and the initial ones is the table of true distances (`ClosedIsLast`). `PushedIs` and `PoppedIs` say what the ring holds after a call, also when its ends wrap around.

The reference `HopDist` is a recursive function of the file. The provers cannot use induction here; that the function is well defined (`TableExists`), that a smallest offer
exists (`OfferLeast`), and what holds of all its rows, are proved from the smallest counterexample, which exists because the order of the natural numbers is well-founded (`WFMin`).

### `sssp_barrier`, `sssp_relaxed`, `sssp_nodelock`, `sssp_ex3`

`SSSPRaceProofs` covers the four programs with one argument: their steps are first put into eleven *kinds* (`StepKind`: a node is
filled, the barrier releases, a step of the loops, a load, a store, a look at what was stored, ...), and the invariants are proved
kind by kind. For every graph and number of threads, and for each of the four programs,

- `SameRoundCorrect`: no thread ever counts a round the others do not. This includes `sssp_ex3`, where the missing barrier lets a
  thread relax edges in round 0 while others initialise: the phases of `BarrierRoundsProofs` have a parameter for it (`PhasesIn(early)`);
- `LeaveTogetherCorrect`: no thread is left behind in the barrier. The one exception, which the proof
  attempt found: with one node the rounds are none, and in `sssp_ex3` a thread may then return while others still initialise. Nobody waits for it;
- `AboveDistCorrect`: after the initialisation no distance is below the true one, in spite of the races. It follows from `Walks`: every value that is
  in the array, in a register, in the older stores of a relaxed location or about to be stored is the length of a walk;
- `RacesCorrect`: in `sssp_nodelock` two threads that are about to access the same distance, one of them to store it, are at the store of the rounds and at the unlocked
  test whether the node is reached (`RacesOnlyAtTest`). Besides the mutexes (`MutexHeld`, part of the invariant) the proof needs that slices are disjoint and that the first barrier keeps the initialisation and the rounds apart;
- `StoreAnnouncedCorrect`, `GuardedEarlyExitCorrect`, `EarlyExitCorrect`: in the programs with the first barrier, and in `sssp_ex3` from its second round on (`Settled`), when the threads see the flag unset
  no edge can lower a distance, so that `node_wt = Dist`. Together with the run `exchange_lost` this says exactly when the
  output can be wrong: only after `num_nodes - 1` full rounds, and in `sssp_ex3` after an exit in the first one (section 4).

The invariant (`IInv`, with the parts `Walks`, `Stores2` and `MutexHeld`) rests on one observation. As long as nobody has stored since the flag was reset (`~Stirred`:
the flag is unset and no thread is between its store and its announcement) every value read in this round is still true, so an edge that has been passed is relaxed (`Calm`).
What is left is a thread that has stored and not looked yet: the *last* store to a node will be found by the thread that made it (`Announced`), which therefore sets the flag. With relaxed loads
this needs that a thread sees at least its own store, and that the barrier leaves nothing older to be read (`AfterScan`).

### `sssp`, `sssp_no_atomic`

The same module proves of the two programs whose threads `main` starts and joins for every round, again for every graph and number of threads,

- `RoundsSeparatedCorrect`: when `main` tests or resets the flag, or has left the loop, no thread runs. That is all that orders the accesses of `main` to `changed`;
- `SpawnAboveDistCorrect`: after the initialisation no distance is below the true one;
- `BreakIsFixpointCorrect`, `BreakIsDistCorrect`: when `main` finds the flag unset no edge can lower a distance, so that `node_wt = Dist`. As for `sssp_barrier`, only an
  output after `num_nodes - 1` full rounds can be wrong.

The bodies are those of `sssp_barrier` and `sssp_ex3`, so a step of a thread is of one of the same kinds (`SpawnStepKind`), and the invariant (`SpawnInv`) says
of them what `Walks`, `Announced` and `Calm` say above. The joins take the place of the barrier: `SpawnControl` says of every thread that exists what `main` is doing, and for which thread. While `main`
starts threads those before `next` run, and while it joins them those from `next` on; so all of them are in the same phase, and in contrast to `sssp_ex3` the threads of `sssp_no_atomic` never meet an initialisation. A
thread that has not been started in this round still has the loop variable of the last one; hence an edge counts as passed (`Visited`) only for a thread that was
started (`Started`), and one that has returned is at the end of its slice (`Returned`). When `main` tests the flag all were started and have returned, so all edges were passed.

### The work-list programs

For every graph, number of threads and capacity of the queue, `SSSPWorklistProofs` proves

- `WorkCovered`: an edge that can still lower a distance is covered, by a node in the queue or by a thread that will look at it;
- `QueueCorrect`: while the queue holds a node, some thread will come back to it;
- `FinalCorrect`: when all threads have returned, `node_wt = Dist`, although states are set for the wrong thread;
- `OnlyDecreases` and `Refinement`: `Spec => ImplementsShortestPaths`.

The invariant is `Bounds /\ OpenEdgeCovered /\ QueueAttended`. `OpenEdgeCovered` became inductive only when `WillRelax` was made to say that, once
`pred_1` has been found true, the distance a thread works with is the one its node has: a thread that works with an old one would fail its
`compare_exchange` but not cover the edge any more. When all have left, the queue is empty and nobody is at an edge, so the table is
closed, and `ClosedIsDist` applies.

### The two queues

`QueueProofs!RingRefinement` proves of `BlockingQueue` that `Spec => ImplementsFifo`, for every number of threads, set of items and size of the ring from 1 on
(the module is about both queues, and knows `BlockingQueue` as the instance `Ring`, with `maxNode` for the size and an owner of the mutex that is no thread).
The refinement mapping takes the cells from `head` to `tail`, less the one a thread has made room in and not filled, and with the one a thread
has moved `head` over and not read; a call takes effect when the index moves, or for a push when the item is stored. The invariant is that
exactly the thread between lock and unlock holds the mutex, and that a ring with an open store is not empty, with an open read not full (`RingRoomMade`).

`QueueProofs` proves of `MSQueue`, for every number of threads, set of items and number of nodes, and every interleaving of the loads and the
`compare_exchange`s, that `tail` is at the last node or the one before it and no node that can be reached is free (`ListCorrect`), and that
`Spec => ImplementsFifo` (`Refinement`). Both theorems assume `~Reuse`: `free` may overwrite a node but `new` does not hand out its address again.
Without that they are false: the run `ms_queue_reused` shows a link behind a node that has left the list. The code relies on
the allocator there, and the proof says that this is all it relies on.

The invariant (`IInv`) says that there is a list `L[0], ..., L[K]` of all nodes that were ever linked, in the order of their links, and says of every pointer
where in it it points. The model has no such list; it need not be a variable, for a step either keeps `K` and `L` or appends the node it links.
What makes the invariant short is that the count of a counted pointer *is* a position in `L`: `head` and `tail` point to `L[head.count]` and
`L[tail.count]` (`EndsInv`), and so does everything a thread has loaded from them (`EnqInv`, `DeqInv`). Hence a `compare_exchange` that succeeds
has found the node it expected at the position it expected. `ListInv` says that `next` follows `L` and that all other nodes end the list they begin, so a null `next` that a
thread has loaded can be stale, but a successful `compare_exchange` on it is one on the last node; `Apart` says that no two threads link the same node. A `dequeue` that has read a value before it swings `head` has read the
right one if `head` is still what it was (the last-but-one conjunct of `DeqInv`), because nothing behind `head` is ever overwritten (`Onward`). A `dequeue` that reports
an empty queue has `h.count = t.count`, and saw `K = h.count` when it loaded `next`.

`Content`, what the queue holds, follows `next` by recursion; `FollowIs` shows that it is `L` from `head` on, and that the recursive function is well defined
although `next` changes: the list ends. `RoomLeft` shows that a link finds room in the abstract queue because all nodes of `L` have different addresses.

`SSSPWorklist`, whose queue is that of `Fifo`, thus stands on proofs for `sssp_blocking` and for `sssp_lockfree`.

### The histograms

For every set of pictures and files and every number of threads, `HistogramProofs` proves of the five programs of `Histogram`

- `MutexCorrect`: no two threads are between `acquire` and the end of `release` of the same lock;
- `TicketsCorrect`: the tickets that are out are the numbers from `now_serving` on, each once, and no more of them than pixels are given out;
  a pause is positive and bounded (`TicketsInLine`);
- `CountCorrect`: at every moment every count is the number of pixels of its value that have been counted (`NothingLost`);
- `FinalCorrect`: what `main` writes is what the sequential program writes (`FinalHistogram`).

The invariant `IInv` has one part for each question. `FileOK` follows the header through `ppmb_read`, so that the picture `main` takes has a
size. `ScanOK` and `Workers` say where threads and `main` are; a step of a thread is of one of three kinds, inside the statements for a pixel, on to the next
channel, or the beginning of a slice, which is all that matters for them. The test-and-test-and-set lock needs only that the flag is set exactly while
a thread has the lock (`FlagHeld`). For the ticket lock mutual exclusion is a consequence of the line: the thread that has the lock has the ticket that is served
(`Served`), and all tickets differ (`Line`). That a pausing thread is at most `threads - 1` behind follows from counting: the line has as many numbers as
threads, and `now_serving` only grows towards the ticket. `TicketPerPixel` bounds the tickets: there are as many as pixels that were passed or are being
counted. With mutual exclusion, what a thread has loaded stays in the histogram until it stores (`Held`), and with the division of the pixels into slices
(`OneSlice`, `AllSlices`) no pixel is left out or counted twice. The last step is `SerialCounts`: the counts of the first `n` pixels satisfy the equation that
defines `SerialHist`.

### The picture files

`HistogramProofs!PictureCorrect` proves `PictureIntact` for every set of pictures and foreign files, every place at which a disk can get full and every
point of a crash: the reader takes a file of `ppmb_write` if and only if it is whole, and what it then returns is the picture. The invariant (`PictureInv`)
says that the file is at every moment a beginning of what `ppmb_write` has to say (`OnDisk`) and that the
reader is where its own state says: the words of the header that it has collected are those of the picture (`HeadRead`), the bytes
are those of the file (`DataRead`). That the header ends after exactly one byte of white space, so that a pixel that looks like one is not lost, is `tell = state`.

### The scheduler

For every task graph without a cycle, every number of processors and every order in which Python goes through a set, `OffSchedProofs` proves

- `CoresCorrect`: the free cores and those of the running tasks are all the cores, each once, and none is twice on the stack (`CoresAccounted`);
- `GreedyCorrect`: the tasks are let run only when no waiting task is ready or no core is free (`Greedy`);
- `FinalCorrect`: the schedule that is written is one `des.py` accepts (`FinalSchedule`).

The invariant `IInv` has the parts `PoolsOK` (the three pools divide the tasks; a task that could start is in `fresh` when cores are assigned), `CoresOK`,
`TimesOK` (what is left of a running task is what is left until its end), `DepsOK` and `ExclusiveOK` (two tasks that have had the same core have had it one after the
other). The last two are about tasks that have *had* a core only (`Started`): `schedule` sets the times of a task before it knows whether there is a core for it, and the times of
a task that is put back are wrong until they are set again. `Assigned` says what the two machines have in common: some tasks get free
cores, each its own, and if not all do no core is left. That the times fit follows from one fact: a core that is given out now was held only by tasks that are done,
and these have ended by now.

### What is only model-checked

- All liveness, `Termination`, `MainEnds` and `Progress`: TLAPS has no rules for fairness and ENABLED here.
- `NoOverflow` depends on how large the weights are, and does not follow from the assumptions of `CSRGraph`.
- What `MSQueue` does when freed addresses are handed out again: the run `ms_queue_reused`.
- `GoodSchedule`, how short a schedule is: the longest chain is defined by recursion over the graph.

## 6. Not modelled

- The four unused strategies of `offsched`, the statistics of `des.py`, the writing and drawing of graphs in `taskgraph.py`: no
  decision of another part depends on them.
- The `dump` methods, timing and messages: output without state. The copies of `write_output` in the threaded programs
  run after the last join; the one of `sssp_serial` is an action.
- `Timer.h`: reads the clock. `test_blocking`, `test_lockfree_queue`: drivers that fill and drain a queue; the queue models allow every such sequence of calls.
- Graph files whose nodes are out of range, and pictures whose header has numbers with a sign or words too long for the buffer: the code checks
  neither, and what it does then is undefined. What the programs do after a step of that kind which *is* modelled (`"undefined"`) is left open too.
- Negative weights with a negative cycle: the programs promise nothing.
- a3/`cchen120_A3` and the graph headers of a4 are copies of files that are treated once.
- Shell scripts, recorded results, course material (`hw`, `lecture`, PDFs).

## 7. Plan

What could follow is a *composition*: the constants of `CSRGraph` from the arrays of `GraphFile`, so that `LoadCorrect` discharges `CSRAssumption` in a proof.
