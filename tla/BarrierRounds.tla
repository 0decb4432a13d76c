--------------------------- MODULE BarrierRounds ---------------------------
(***************************************************************************)
(* The round control of the barrier programs of a2 (sssp_barrier,          *)
(* sssp_graphlock, sssp_nodelock, sssp_relaxed, sssp_ex3): one long-lived  *)
(* thread per slice, all synchronised by one pthread barrier that is       *)
(* reached from up to four places.                                         *)
(*                                                                         *)
(*   init -> initWait -> loop -> node ... -> endWait -> test -> resetWait  *)
(*        -> reset -> againWait -> again -> node ...          and "done"   *)
(***************************************************************************)
EXTENDS EdgeScan

VARIABLES
  waiting,     \* the threads blocked in pthread_barrier_wait(&mybarrier)
  rounds,      \* rounds[t]: the local round counter of thread t
  rounds_ptr   \* main's variable that receives the number of rounds

roundVars == <<waiting, rounds, rounds_ptr>>

RoundInit ==
  /\ waiting = {}
  /\ rounds = [t \in Thread |-> 0]
  /\ rounds_ptr = 0

\* Where a thread goes on after each call of pthread_barrier_wait.
AfterWait == [ initWait |-> "loop", endWait |-> "test",
               resetWait |-> "reset", againWait |-> "again" ]

\* pthread_barrier_wait: the call blocks until threadNum threads are in it.
\* The barrier does not know from which place it is called.
BarrierWait(t) ==
  /\ pc[t] \in DOMAIN AfterWait
  /\ t \notin waiting
  /\ \/ /\ waiting \cup {t} # Thread
        /\ waiting' = waiting \cup {t}
        /\ UNCHANGED pc
     \/ /\ waiting \cup {t} = Thread
        /\ waiting' = {}
        /\ pc' = [u \in Thread |-> AfterWait[pc[u]]]
  /\ UNCHANGED <<node_wt, changed, node, edge, rounds, rounds_ptr>>

\* The thread function returns; the threads in writers store their round count.
Leave(t, writers) ==
  /\ pc' = [pc EXCEPT ![t] = "done"]
  /\ rounds_ptr' = IF t \in writers THEN rounds'[t] ELSE rounds_ptr

\* Faulty: one round too few.
RoundTestShort(t, writers) ==
  \/ /\ rounds'[t] < num_nodes - 2
     /\ pc' = [pc EXCEPT ![t] = "node"]
     /\ node' = [node EXCEPT ![t] = Start(t)]
     /\ UNCHANGED rounds_ptr
  \/ /\ rounds'[t] >= num_nodes - 2
     /\ Leave(t, writers)
     /\ UNCHANGED node

\* The test of the round loop: start round rounds'[t] or leave.
RoundTest(t, writers) ==
  \/ /\ rounds'[t] < num_nodes - 1
     /\ pc' = [pc EXCEPT ![t] = "node"]
     /\ node' = [node EXCEPT ![t] = Start(t)]
     /\ UNCHANGED rounds_ptr
  \/ /\ rounds'[t] >= num_nodes - 1
     /\ Leave(t, writers)
     /\ UNCHANGED node

\* The loop is entered for the first time.
FirstRound(t, writers) ==
  /\ pc[t] = "loop"
  /\ UNCHANGED rounds
  /\ RoundTest(t, writers)
  /\ UNCHANGED <<node_wt, changed, edge, waiting>>

\* rounds++ and the loop test.
NextRound(t, writers) ==
  /\ pc[t] = "again"
  /\ rounds' = [rounds EXCEPT ![t] = @ + 1]
  /\ RoundTest(t, writers)
  /\ UNCHANGED <<node_wt, changed, edge, waiting>>

\* Faulty: no barrier between the test of the flag and its reset.
TestWithoutWait(t, writers) ==
  /\ pc[t] = "test"
  /\ UNCHANGED rounds
  /\ \/ changed /\ pc' = [pc EXCEPT ![t] = "reset"] /\ UNCHANGED rounds_ptr
     \/ ~changed /\ Leave(t, writers)
  /\ UNCHANGED <<node_wt, changed, node, edge, waiting>>

\* if (changed == false) break;
TestChanged(t, writers) ==
  /\ pc[t] = "test"
  /\ UNCHANGED rounds
  /\ \/ changed /\ pc' = [pc EXCEPT ![t] = "resetWait"] /\ UNCHANGED rounds_ptr
     \/ ~changed /\ Leave(t, writers)
  /\ UNCHANGED <<node_wt, changed, node, edge, waiting>>

\* Faulty: no barrier between the reset of the flag and the next round.
ResetWithoutWait(t) ==
  /\ pc[t] = "reset"
  /\ changed' = FALSE
  /\ pc' = [pc EXCEPT ![t] = "again"]
  /\ UNCHANGED <<node_wt, node, edge, waiting, rounds, rounds_ptr>>

\* changed = false;
ResetChanged(t) ==
  /\ pc[t] = "reset"
  /\ changed' = FALSE
  /\ pc' = [pc EXCEPT ![t] = "againWait"]
  /\ UNCHANGED <<node_wt, node, edge, waiting, rounds, rounds_ptr>>

\* Everything a thread does outside the inner loop's body.
Control(t, afterInit, writers) ==
  \/ InitNode(t) /\ UNCHANGED roundVars
  \/ EndInit(t, afterInit) /\ UNCHANGED roundVars
  \/ SkipNode(t) /\ UNCHANGED roundVars
  \/ EnterNode(t) /\ UNCHANGED roundVars
  \/ EndSlice(t, "endWait") /\ UNCHANGED roundVars
  \/ BarrierWait(t)
  \/ FirstRound(t, writers)
  \/ NextRound(t, writers)
  \/ TestChanged(t, writers)
  \/ ResetChanged(t)

AllDone == \A t \in Thread : pc[t] = "done"
Initialised == \A t \in Thread : pc[t] \notin {"init", "initWait"}

-----------------------------------------------------------------------------
(***************************************************************************)
(* What the barrier must give the rounds.                                  *)
(***************************************************************************)

\* The round a thread is in; between the last barrier and "rounds++" the
\* thread already belongs to the next one.
Round(t) == IF pc[t] = "again" THEN rounds[t] + 1 ELSE rounds[t]

\* The phases the barriers separate.
PhaseOf(l) ==
  CASE l \in {"init", "initWait"}    -> "initialise"
    [] l \in {"test", "resetWait"}   -> "decide"
    [] l \in {"reset", "againWait"}  -> "reset"
    [] OTHER                         -> "scan"

\* Threads that have not left are in the same phase of the same round: the
\* one barrier object never releases threads that wait at different places.
SamePhase ==
  \A t, u \in Thread :
    /\ Round(t) = Round(u)
    /\ pc[t] # "done" /\ pc[u] # "done" => PhaseOf(pc[t]) = PhaseOf(pc[u])

\* Whoever goes on to the next round has seen changed = TRUE, and the flag
\* stays so until every thread has seen it.
ChangedUntilReset == \A t \in Thread : pc[t] = "resetWait" => changed

\* A thread leaves only when every other thread will: nobody is left behind
\* in a barrier that can never fill.
LeaveTogether ==
  (\E t \in Thread : pc[t] = "done") =>
    \A u \in Thread :
      \/ pc[u] = "done"
      \/ pc[u] = "test" /\ ~changed
      \/ pc[u] \in {"loop", "again"} /\ Round(u) >= num_nodes - 1

-----------------------------------------------------------------------------
(***************************************************************************)
(* Types, and the loop invariants of one thread that the proofs need.      *)
(***************************************************************************)
ControlLabel == { "init", "initWait", "loop", "node", "endWait", "test",
                  "resetWait", "reset", "againWait", "again", "done" }

\* Thread t is in the body of the inner loop.
InBody(t) == pc[t] \notin ControlLabel

RoundTypeOK ==
  /\ waiting \subseteq Thread
  /\ rounds \in [Thread -> 0 .. num_nodes]
  /\ rounds_ptr \in 0 .. num_nodes

Loops ==
  \A t \in Thread :
    /\ t \in waiting => pc[t] \in DOMAIN AfterWait
    /\ InBody(t) => node[t] < End(t) /\ edge[t] \in Row(node[t])
    /\ pc[t] \in {"init", "initWait", "loop"} => rounds[t] = 0
    /\ pc[t] \notin {"init", "initWait", "loop", "done"} => rounds[t] < num_nodes - 1
    /\ rounds[t] <= num_nodes - 1

\* The barrier is never left full.
NotFull == waiting # Thread

Phases == SamePhase /\ LeaveTogether /\ ChangedUntilReset /\ NotFull

-----------------------------------------------------------------------------
(***************************************************************************)
(* What the rounds must compute.                                           *)
(***************************************************************************)

\* From the end of the initialisation on, no distance is below the true one.
AboveDist == Initialised => \A n \in Node : Dist[n] <= node_wt[n]

\* When the threads agree to stop early, no edge can lower a distance.
EarlyExitIsFixpoint ==
  (\E t \in Thread : pc[t] = "test") /\ ~changed => Closed(node_wt)

\* When every thread has returned, node_wt holds the shortest distances.
FinalDistances == AllDone => node_wt = Dist

\* Every thread returns.
Termination == <>AllDone
=============================================================================
