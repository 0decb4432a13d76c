---------------------------- MODULE SSSPBarrier ----------------------------
(***************************************************************************)
(* The barrier rounds with four loop bodies.  a2/src/sssp_barrier.cpp has  *)
(* atomics, a2/src/sssp_relaxed.cpp the same with relaxed memory orders,   *)
(* a2/src/sssp_nodelock.cpp two mutexes, and a2/src/sssp_ex3.cpp plain     *)
(* ints; the last has no barrier between the initialisation and the first  *)
(* round, so that a thread may relax edges while others have not           *)
(* initialised their slices.                                               *)
(***************************************************************************)
EXTENDS BarrierRounds, RaceRelax, LockRelax, RelaxedExchange

vars == <<scanVars, roundVars, bodyVars, mutexVars, memoryVars>>

\* Where a thread goes on after the initialisation of its slice.
AfterInit == IF program = "sssp_ex3" THEN "loop" ELSE "initWait"

\* The threads that store the number of rounds in main's variable.
Writers == IF program \in {"sssp_barrier", "sssp_relaxed"} THEN {0} ELSE Thread

Init == ScanInit /\ RoundInit /\ BodyInit /\ LockInit /\ MemoryInit

\* With relaxed loads, looking at a node is a step of RelaxedExchange.
ControlStep(t) ==
  /\ program = "sssp_relaxed" /\ pc[t] = "node" => node[t] >= End(t)
  /\ Control(t, AfterInit, Writers)
  /\ OutsideBody(t)
  /\ UNCHANGED mutexVars
  /\ IF pc[t] \in DOMAIN AfterWait /\ waiting \cup {t} = Thread THEN Synchronise
                                                              ELSE UNCHANGED memoryVars

ThreadStep(t) ==
  \/ ControlStep(t)
  \/ BodyStep(t) /\ UNCHANGED <<roundVars, mutexVars, memoryVars>>
  \/ /\ program = "sssp_nodelock"
     /\ LockStep(t)
     /\ UNCHANGED <<roundVars, register, program, memoryVars>>
  \/ /\ program = "sssp_relaxed"
     /\ RelaxedStep(t)
     /\ UNCHANGED <<roundVars, register, program, mutexVars>>

Terminating == AllDone /\ UNCHANGED vars

Next == (\E t \in Thread : ThreadStep(t)) \/ Terminating

\* The operating system runs every thread that can run.
Fairness == \A t \in Thread : WF_vars(ThreadStep(t))

Spec == Init /\ [][Next]_vars
FairSpec == Spec /\ Fairness

-----------------------------------------------------------------------------
\* Two threads that store into the same node may overwrite each other, but
\* the last of them sees its value and announces it, and so every edge that
\* is still open at the end of a round belongs to an announced change: while
\* the flag is unset, a thread that has stored has not looked yet.
StoreAnnounced ==
  \A t \in Thread :
    /\ pc[t] = "verify" /\ ~changed
    => \E u \in Thread : /\ pc[u] = "verify" /\ dest(u) = dest(t)
                         /\ distance[u] = node_wt[dest(t)]

\* Although the threads of sssp_ex3 enter the first round at different times,
\* the first barrier collects them: no thread ever counts a round the others
\* do not.
SameRound == \A t, u \in Thread : Round(t) = Round(u)

\* The nodes that a round looks at were all initialised before it began; in the
\* first round of sssp_ex3 they need not be.
Settled == program = "sssp_ex3" => \A t \in Thread : Round(t) > 0

\* With a barrier after the initialisation, an early exit is a fixpoint, also
\* when every load of the round may have returned an old distance: a distance
\* can only be old if somebody has stored, and so announced, a newer one.
GuardedEarlyExit == Settled => EarlyExitIsFixpoint

\* The node whose distance the next step of thread t of sssp_nodelock reads, or
\* the one whose distance it stores.
Reads(t) ==
  CASE pc[t] = "node" /\ node[t] < End(t) -> {node[t]}
    [] pc[t] = "readTail"                 -> {node[t]}
    [] pc[t] = "readHead"                 -> {dest(t)}
    [] OTHER                              -> {}
StoresTo(t) ==
  CASE pc[t] = "init" /\ node[t] < End(t) -> {node[t]}
    [] pc[t] = "write"                    -> {dest(t)}
    [] OTHER                              -> {}

\* sssp_nodelock is not free of data races, but has only one: a thread tests,
\* without a mutex, whether its node is reached while another one stores the
\* distance of that node under both.  The two mutexes keep all other accesses
\* of the rounds apart, the slices the unlocked stores of the initialisation
\* from each other, and the first barrier these from the rounds.
RacesOnlyAtTest ==
  program = "sssp_nodelock" =>
    \A t, u \in Thread :
      t # u /\ StoresTo(t) \cap (Reads(u) \cup StoresTo(u)) # {} =>
        pc[t] = "write" /\ pc[u] = "node"
=============================================================================
