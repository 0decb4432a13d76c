---------------------------- MODULE SpawnRounds ----------------------------
(***************************************************************************)
(* The round control of sssp.cpp and sssp_no_atomic.cpp: main starts one   *)
(* thread per slice for the initialisation and again for every round, and  *)
(* joins them all in between.                                              *)
(*                                                                         *)
(*   spawnInit -> joinInit -> loop -> spawn -> join -> test -> loop ...    *)
(*                                                          and "done"     *)
(***************************************************************************)
EXTENDS EdgeScan

VARIABLES
  main,     \* where main is
  main_rounds,   \* main's round counter, "rounds"
  next      \* the slice main starts or joins a thread for next

mainVars == <<main, main_rounds, next>>

\* No thread exists yet (pc "none"; its loop variables mean nothing);
\* node_wt is calloc'ed.
SpawnInit ==
  /\ node_wt = [n \in Node |-> 0]
  /\ changed = FALSE
  /\ pc = [t \in Thread |-> "none"]
  /\ node = [t \in Thread |-> Start(t)]
  /\ edge = [t \in Thread |-> 0]
  /\ main = "spawnInit"
  /\ main_rounds = 0
  /\ next = 0

\* thread_arr[i] = thread(f, ..., i): f begins with the first node of its slice.
Start1(from, to, label) ==
  /\ main = from
  /\ pc' = [pc EXCEPT ![next] = label]
  /\ node' = [node EXCEPT ![next] = Start(next)]
  /\ IF next + 1 < threadNum THEN next' = next + 1 /\ UNCHANGED main
                             ELSE next' = 0 /\ main' = to
  /\ UNCHANGED <<node_wt, changed, edge, main_rounds>>

\* Faulty: main does not wait for the thread.
JoinNothing(from, to) ==
  /\ main = from
  /\ IF next + 1 < threadNum THEN next' = next + 1 /\ UNCHANGED main
                             ELSE next' = 0 /\ main' = to
  /\ UNCHANGED <<scanVars, main_rounds>>

\* thread_arr[i].join() returns when the function of thread i has returned.
Join1(from, to) ==
  /\ main = from
  /\ pc[next] = "none"
  /\ IF next + 1 < threadNum THEN next' = next + 1 /\ UNCHANGED main
                             ELSE next' = 0 /\ main' = to
  /\ UNCHANGED <<scanVars, main_rounds>>

\* The loop test; a round begins with changed = false.
RoundLoop ==
  /\ main = "loop"
  /\ \/ main_rounds < num_nodes - 1 /\ main' = "spawn" /\ changed' = FALSE
     \/ main_rounds >= num_nodes - 1 /\ main' = "done" /\ UNCHANGED changed
  /\ UNCHANGED <<node_wt, pc, node, edge, main_rounds, next>>

\* if (changed == false) break; else rounds++
RoundDecision ==
  /\ main = "test"
  /\ \/ changed /\ main' = "loop" /\ main_rounds' = main_rounds + 1
     \/ ~changed /\ main' = "done" /\ UNCHANGED main_rounds
  /\ UNCHANGED <<scanVars, next>>

MainStep ==
  \/ Start1("spawnInit", "joinInit", "init")
  \/ Join1("joinInit", "loop")
  \/ RoundLoop
  \/ Start1("spawn", "join", "node")
  \/ Join1("join", "test")
  \/ RoundDecision

\* What a thread does outside the body of the inner loop; it returns at the
\* end of its slice.
SpawnedControl(t) ==
  \/ InitNode(t)
  \/ EndInit(t, "none")
  \/ SkipNode(t)
  \/ EnterNode(t)
  \/ EndSlice(t, "none")

-----------------------------------------------------------------------------
\* main looks at the flag, and hands over the result, only when no thread of
\* the round runs any more; a thread of one round never meets one of another.
RoundsSeparated ==
  main \in { "loop", "test", "done" } => \A t \in Thread : pc[t] = "none"

\* When main leaves the loop early, no edge can lower a distance.
BreakIsFixpoint == main = "test" /\ ~changed => Closed(node_wt)

\* main comes to the end.
MainEnds == <>(main = "done")
=============================================================================
