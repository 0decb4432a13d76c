------------------------ MODULE SSSPGraphLockProofs ------------------------
(***************************************************************************)
(* The one-mutex program computes the shortest distances, for every graph  *)
(* without a reachable negative cycle and every number of threads.  The    *)
(* invariant IInv of SSSPGraphLock is proved in three layers: the control  *)
(* (types, loops, phases, mutex), the bounds from below, and the progress  *)
(* of the rounds; each layer is used in the proof of the next.             *)
(***************************************************************************)
EXTENDS SSSPGraphLock, BarrierRoundsProofs

\* Which labels the body of the inner loop has.
LEMMA Labels ==
  /\ ControlLabel \cup {"relax"} \subseteq Label
  /\ Label \ ControlLabel = {"relax", "read", "write", "unlock"}
BY DEF Label, ControlLabel

\* The four steps of the body.
Body(t) == Lock(t) \/ Read(t) \/ Write(t) \/ Unlock(t)

\* They are body steps in the sense of the round control.
LEMMA BodyIsBodyMove ==
  ASSUME TypeOK, NEW t \in Thread, Body(t)
  PROVE  BodyMove(t, Label)
<1>. USE DEF BodyMove, InBody, roundVars
<1>0. {"relax", "read", "write", "unlock"} \cap ControlLabel = {}
  BY DEF ControlLabel
<1>1. CASE Lock(t)
  BY <1>0, <1>1, Labels DEF Lock
<1>2. CASE Read(t)
  BY <1>0, <1>2, Labels DEF Read
<1>3. CASE Write(t)
  BY <1>0, <1>3, Labels DEF Write
<1>4. CASE Unlock(t)
  BY <1>0, <1>4, Labels DEF Unlock
<1>. QED
  BY <1>1, <1>2, <1>3, <1>4 DEF Body

-----------------------------------------------------------------------------
(***************************************************************************)
(* Layer 1: types, loops, phases, mutex.                                   *)
(***************************************************************************)

\* The edge in hand leads from a node of the slice to a node.
LEMMA EdgeInHand ==
  ASSUME TypeOK, Loops, NEW t \in Thread, InBody(t)
  PROVE  /\ node[t] \in Node
         /\ node[t] \in Start(t) .. End(t) - 1
         /\ edge[t] \in Row(node[t])
         /\ edge[t] \in Edge
         /\ dest(t) \in Node
         /\ edge_wt[edge[t]] \in Int
<1>1. /\ node[t] \in 0 .. num_nodes /\ node[t] \in Start(t) .. End(t)
      /\ node[t] < End(t) /\ edge[t] \in Row(node[t])
  BY DEF TypeOK, ScanTypeOK, Loops
<1>2. node[t] \in Node /\ node[t] \in Start(t) .. End(t) - 1
  BY <1>1, ThreadSlice, CSRAssumption DEF Node
<1>3. edge[t] \in Edge
  BY <1>1, <1>2, RowIsEdges
<1>. QED
  BY <1>1, <1>2, <1>3, CSRAssumption DEF dest

\* Every step keeps the types.
LEMMA TypeStep ==
  ASSUME TypeOK, Loops, NEW t \in Thread, ThreadStep(t)
  PROVE  TypeOK'
<1>1. CASE Control(t, "initWait", Writers) /\ UNCHANGED relaxVars
  BY <1>1, Labels, ControlTypes DEF TypeOK, relaxVars
<1>2. CASE Body(t)
  <2>1. InBody(t) /\ BodyMove(t, Label)
    BY <1>2, BodyIsBodyMove DEF BodyMove
  <2>2. /\ dest(t) \in Node /\ node[t] \in Node /\ edge_wt[edge[t]] \in Int
    BY <2>1, EdgeInHand
  <2>3. node_wt' \in [Node -> Weight]
    <3>1. CASE Write(t) /\ prev_distance[t] > distance[t]
      <4>1. distance[t] \in Weight
        BY <3>1, CSRAssumption DEF TypeOK, Weight
      <4>. QED
        BY <3>1, <4>1, <2>2 DEF Write, TypeOK, ScanTypeOK
    <3>2. CASE UNCHANGED node_wt
      BY <3>2 DEF TypeOK, ScanTypeOK
    <3>. QED
      BY <1>2, <3>1, <3>2 DEF Body, Lock, Read, Write, Unlock
  <2>4. ScanTypeOK(Label)' /\ RoundTypeOK'
    BY <2>1, <2>3, Labels, BodyMoveTypes DEF TypeOK
  <2>5. g_mutex' \in Thread \cup {NoThread}
    BY <1>2 DEF Body, Lock, Read, Write, Unlock, TypeOK, relaxVars
  <2>6. distance' \in [Thread -> Int] /\ prev_distance' \in [Thread -> Weight]
    <3>1. Through(t) \in Int /\ node_wt[dest(t)] \in Weight
      BY <2>2 DEF Through, TypeOK, ScanTypeOK, Weight
    <3>. QED
      BY <1>2, <3>1 DEF Body, Lock, Read, Write, Unlock, TypeOK, relaxVars
  <2>. QED
    BY <2>4, <2>5, <2>6 DEF TypeOK
<1>. QED
  BY <1>1, <1>2 DEF ThreadStep, Body

\* Every step keeps the loop invariants.
LEMMA LoopsStep ==
  ASSUME TypeOK, Loops, NEW t \in Thread, ThreadStep(t)
  PROVE  Loops'
<1>1. CASE Control(t, "initWait", Writers) /\ UNCHANGED relaxVars
  BY <1>1, Labels, ControlLoops DEF TypeOK
<1>2. CASE Body(t)
  BY <1>2, Labels, BodyIsBodyMove, BodyMoveLoops DEF TypeOK
<1>. QED
  BY <1>1, <1>2 DEF ThreadStep, Body

\* Every step keeps the phases.
LEMMA PhasesStep ==
  ASSUME TypeOK, Loops, Phases, NEW t \in Thread, ThreadStep(t)
  PROVE  Phases'
<1>0. PhasesIn(FALSE) /\ (PhasesIn(FALSE)' => Phases')
  BY PhasesAre, PTL
<1>1. CASE Control(t, "initWait", Writers) /\ UNCHANGED relaxVars
  BY <1>0, <1>1, ControlKeepsPhases DEF TypeOK
<1>2. CASE Body(t)
  BY <1>0, <1>2, BodyIsBodyMove, BodyKeepsPhases DEF TypeOK
<1>. QED
  BY <1>1, <1>2 DEF ThreadStep, Body

\* Outside the body nobody holds the mutex, before or after a step.
LEMMA ControlNotCritical ==
  ASSUME TypeOK, Loops, NEW t \in Thread, Control(t, "initWait", Writers)
  PROVE  \A u \in Thread : InCritical(u)' <=> InCritical(u)
<1>. USE DEF TypeOK, ScanTypeOK, InCritical
<1>1. CASE BarrierWait(t)
  <2>1. CASE waiting \cup {t} # Thread
    BY <1>1, <2>1 DEF BarrierWait
  <2>2. CASE waiting \cup {t} = Thread
    <3>1. \A u \in Thread : pc[u] \in {"initWait", "endWait", "resetWait", "againWait"}
      BY <1>1, <2>2, WaitLabels DEF BarrierWait, Loops
    <3>2. \A u \in Thread : pc'[u] \in {"loop", "test", "reset", "again"}
      BY <1>1, <2>2, <3>1, WaitLabels DEF BarrierWait
    <3>. QED
      BY <3>1, <3>2
  <2>. QED
    BY <2>1, <2>2
<1>2. CASE ~BarrierWait(t)
  <2>1. \A u \in Thread : u # t => pc'[u] = pc[u]
    BY <1>2 DEF Control, InitNode, EndInit, SkipNode, EnterNode, EndSlice,
       FirstRound, NextRound, RoundTest, TestChanged, Leave, ResetChanged
  <2>2. pc[t] \notin {"read", "write", "unlock"} /\ pc'[t] \notin {"read", "write", "unlock"}
    BY <1>2 DEF Control, InitNode, EndInit, SkipNode, EnterNode, EndSlice,
       FirstRound, NextRound, RoundTest, TestChanged, Leave, ResetChanged
  <2>. QED
    BY <2>1, <2>2
<1>. QED
  BY <1>1, <1>2

\* The mutex is held exactly by the thread in the critical section.
LEMMA MutexStep ==
  ASSUME TypeOK, Loops, MutexOwner, NEW t \in Thread, ThreadStep(t)
  PROVE  MutexOwner'
<1>. USE DEF MutexOwner
<1>1. CASE Control(t, "initWait", Writers) /\ UNCHANGED relaxVars
  BY <1>1, ControlNotCritical DEF relaxVars
<1>2. CASE Lock(t)
  BY <1>2, NoThreadAssumption DEF Lock, InCritical, TypeOK, ScanTypeOK
<1>3. CASE Read(t)
  BY <1>3 DEF Read, InCritical, TypeOK, ScanTypeOK
<1>4. CASE Write(t)
  BY <1>4 DEF Write, InCritical, TypeOK, ScanTypeOK, relaxVars
<1>5. CASE Unlock(t)
  <2>1. g_mutex = t
    BY <1>5 DEF Unlock, InCritical
  <2>. QED
    BY <1>5, <2>1, NoThreadAssumption
       DEF Unlock, NextEdge, InCritical, TypeOK, ScanTypeOK
<1>. QED
  BY <1>1, <1>2, <1>3, <1>4, <1>5 DEF ThreadStep

\* The control invariant holds initially ...
LEMMA ControlInit == Init => Control1
<1>. SUFFICES ASSUME Init PROVE Control1
  OBVIOUS
<1>. USE DEF Init, ScanInit, RoundInit
<1>n. num_nodes \in Nat /\ num_nodes > 0 /\ num_edges \in Nat /\ INF \in Nat \ {0}
  BY CSRAssumption
<1>0. 0 \in Thread /\ 0 \in Weight /\ 0 \in 0 .. num_nodes
  BY <1>n, ThreadAssumption DEF Thread, Weight
<1>1. TypeOK
  <2>1. \A t \in Thread : Start(t) \in 0 .. num_nodes /\ Start(t) \in Start(t) .. End(t)
    BY <1>n, ThreadSlice
  <2>2. ScanTypeOK(Label)
    <3>1. node_wt \in [Node -> Weight] /\ changed \in BOOLEAN
      BY <1>0
    <3>2. pc \in [Thread -> Label]
      BY Labels DEF ControlLabel
    <3>3. /\ node \in [Thread -> 0 .. num_nodes]
          /\ \A t \in Thread : node[t] \in Start(t) .. End(t)
      BY <2>1
    <3>4. edge \in [Thread -> 0 .. num_edges]
      BY <1>n
    <3>. QED
      BY <3>1, <3>2, <3>3, <3>4 DEF ScanTypeOK
  <2>. QED
    BY <1>0, <2>2 DEF TypeOK, RoundTypeOK
<1>2. Loops
  BY <1>n DEF Loops, InBody, ControlLabel
<1>3. Phases
  BY <1>0 DEF Phases, SamePhase, LeaveTogether, ChangedUntilReset, NotFull, Round
<1>4. MutexOwner
  BY NoThreadAssumption DEF MutexOwner, InCritical
<1>. QED
  BY <1>1, <1>2, <1>3, <1>4 DEF Control1

\* ... and every step keeps it.
LEMMA ControlStep == Control1 /\ [Next]_vars => Control1'
<1>. SUFFICES ASSUME Control1, [Next]_vars PROVE Control1'
  OBVIOUS
<1>1. CASE \E t \in Thread : ThreadStep(t)
  BY <1>1, TypeStep, LoopsStep, PhasesStep, MutexStep DEF Control1
<1>2. CASE UNCHANGED vars
  BY <1>2 DEF vars, scanVars, roundVars, relaxVars, Control1, TypeOK, ScanTypeOK,
     RoundTypeOK, Loops, InBody, Phases, SamePhase, Round, LeaveTogether,
     ChangedUntilReset, NotFull, MutexOwner, InCritical
<1>. QED
  BY <1>1, <1>2 DEF Next, Terminating

THEOREM ControlCorrect == Spec => []Control1
BY ControlInit, ControlStep, PTL DEF Spec

\* The variables keep their types in every run of the program.
THEOREM TypeCorrect == Spec => []TypeOK
<1>1. Control1 => TypeOK
  BY DEF Control1
<1>. QED
  BY <1>1, ControlCorrect, PTL

\* Two threads are never in the mutex's critical section together.
THEOREM MutexCorrect == Spec => []MutualExclusion
<1>1. Control1 => MutualExclusion
  BY DEF Control1, MutexOwner, MutualExclusion
<1>. QED
  BY <1>1, ControlCorrect, PTL

\* The barrier keeps the threads in the same phase of the same round.
THEOREM SamePhaseCorrect == Spec => []SamePhase
<1>1. Control1 => SamePhase
  BY DEF Control1, Phases
<1>. QED
  BY <1>1, ControlCorrect, PTL

\* No thread leaves while another must still pass a barrier.
THEOREM LeaveTogetherCorrect == Spec => []LeaveTogether
<1>1. Control1 => LeaveTogether
  BY DEF Control1, Phases
<1>. QED
  BY <1>1, ControlCorrect, PTL

-----------------------------------------------------------------------------
(***************************************************************************)
(* Layer 2: initialisation, lower bound, and what the mutex protects.      *)
(***************************************************************************)

\* While one thread initialises, all do.
LEMMA InitTogether ==
  ASSUME Control1, NEW t \in Thread, pc[t] \in {"init", "initWait"}
  PROVE  \A u \in Thread : pc[u] \in {"init", "initWait"}
<1>1. \A u \in Thread : pc[u] # "done"
  BY DEF Control1, Phases, LeaveTogether
<1>. QED
  BY <1>1 DEF Control1, Phases, SamePhase, PhaseOf

\* In the body the initialisation is over.
LEMMA BodyInitialised ==
  ASSUME Control1, NEW t \in Thread, pc[t] \notin {"init", "initWait"}
  PROVE  Initialised
BY InitTogether DEF Initialised

\* A store in the body: it lowers the distance of dest to Through, or
\* leaves the table and the flag alone.
LEMMA WriteEffect ==
  ASSUME Control1, Held, NEW t \in Thread, Write(t)
  PROVE  /\ \A n \in Node : node_wt'[n] <= node_wt[n]
         /\ node_wt'[dest(t)] <= Through(t)
         /\ \A n \in Node : node_wt'[n] = node_wt[n] \/
              /\ n = dest(t) /\ node_wt'[n] = Through(t) /\ node_wt'[n] < node_wt[n]
         /\ changed' = TRUE \/ (node_wt' = node_wt /\ changed' = changed)
<1>. USE DEF Control1, TypeOK, ScanTypeOK
<1>1. /\ distance[t] = Through(t) /\ prev_distance[t] = node_wt[dest(t)]
      /\ distance[t] \in Int
  BY DEF Held, Write
<1>2. dest(t) \in Node
  BY EdgeInHand DEF Write, InBody, ControlLabel
<1>3. \A n \in Node : node_wt[n] \in Int
  BY DEF Weight
<1>4. CASE prev_distance[t] > distance[t]
  <2>1. node_wt' = [node_wt EXCEPT ![dest(t)] = Through(t)] /\ changed' = TRUE
    BY <1>1, <1>3, <1>4, <1>2 DEF Write
  <2>2. Through(t) < node_wt[dest(t)] /\ Through(t) \in Int
    BY <1>1, <1>2, <1>3, <1>4
  <2>3. \A n \in Node : node_wt'[n] = IF n = dest(t) THEN Through(t) ELSE node_wt[n]
    BY <2>1
  <2>4. \A n \in Node : n # dest(t) => node_wt'[n] = node_wt[n]
    BY <2>3
  <2>5. node_wt'[dest(t)] = Through(t)
    BY <2>3, <1>2
  <2>6. \A n \in Node : node_wt'[n] = node_wt[n] \/
          (n = dest(t) /\ node_wt'[n] = Through(t) /\ node_wt'[n] < node_wt[n])
    BY ONLY <2>2, <2>4, <2>5
  <2>7. \A n \in Node : node_wt'[n] <= node_wt[n]
    BY ONLY <2>2, <2>4, <2>5, <1>3
  <2>8. node_wt'[dest(t)] <= Through(t)
    BY ONLY <2>2, <2>5
  <2>9. changed' = TRUE \/ (node_wt' = node_wt /\ changed' = changed)
    BY <2>1
  <2>. QED
    BY ONLY <2>6, <2>7, <2>8, <2>9
<1>5. CASE prev_distance[t] <= distance[t]
  <2>1. UNCHANGED <<node_wt, changed>> /\ node_wt[dest(t)] <= Through(t)
    BY <1>1, <1>2, <1>3, <1>5 DEF Write
  <2>. QED
    BY <2>1, <1>2, <1>3
<1>6. prev_distance[t] > distance[t] \/ prev_distance[t] <= distance[t]
  BY <1>1, <1>2, <1>3
<1>. QED
  BY <1>4, <1>5, <1>6

\* Only InitNode and Write change the distances.
LEMMA WtUnchanged ==
  ASSUME NEW t \in Thread, ThreadStep(t), ~InitNode(t), ~Write(t)
  PROVE  UNCHANGED node_wt
BY DEF ThreadStep, Control, EndInit, SkipNode, EnterNode, EndSlice, BarrierWait,
   FirstRound, NextRound, TestChanged, ResetChanged, Lock, Read, Unlock

\* The initialisation ends with the release of the barrier and leaves the
\* initial distances.
LEMMA InitEnds ==
  ASSUME Control1, Filling, NEW t \in Thread, ThreadStep(t),
         ~Initialised, Initialised'
  PROVE  node_wt' = [n \in Node |-> InitDist(n)] /\ UNCHANGED node_wt
<1>. USE DEF Control1, TypeOK, ScanTypeOK
<1>1. \A u \in Thread : pc[u] \in {"init", "initWait"}
  BY InitTogether DEF Initialised
<1>2. Control(t, "initWait", Writers)
  BY <1>1 DEF ThreadStep, Lock, Read, Write, Unlock
<1>3. BarrierWait(t) /\ waiting \cup {t} = Thread
  <2>1. pc'[t] \notin {"init", "initWait"}
    BY DEF Initialised
  <2>2. BarrierWait(t)
    BY <1>1, <1>2, <2>1 DEF Control, InitNode, EndInit, SkipNode, EnterNode, EndSlice,
       FirstRound, NextRound, TestChanged, ResetChanged
  <2>. QED
    BY <1>1, <2>1, <2>2 DEF BarrierWait
<1>4. \A u \in Thread : pc[u] = "initWait"
  BY <1>1, <1>3, WaitLabels DEF BarrierWait, Loops
<1>5. \A n \in Node : node_wt[n] = InitDist(n)
  <2>. TAKE n \in Node
  <2>1. PICK u \in Thread : n \in Start(u) .. End(u) - 1
    BY NodeCovered
  <2>. QED
    BY <1>4, <2>1 DEF Filling
<1>6. UNCHANGED node_wt
  BY <1>3 DEF BarrierWait
<1>. QED
  BY <1>5, <1>6

\* What a thread has filled stays filled.
LEMMA FillingStep ==
  ASSUME Control1, Filling, NEW t \in Thread, ThreadStep(t)
  PROVE  Filling'
<1>. USE DEF Control1, TypeOK, ScanTypeOK
<1>e. End(t) \in 0 .. num_nodes /\ node[t] \in Start(t) .. End(t) /\ num_nodes \in Nat
  BY ThreadSlice, CSRAssumption
<1>1. CASE InitNode(t)
  <2>1. node[t] \in Node /\ pc[t] = "init" /\ UNCHANGED pc
    BY <1>1, <1>e DEF InitNode, Node
  <2>2. \A n \in Node : node_wt'[n] = node_wt[n] \/ node_wt'[n] = InitDist(n)
    BY <1>1 DEF InitNode
  <2>3. node_wt'[node[t]] = InitDist(node[t])
    BY <1>1, <2>1 DEF InitNode
  <2>4. \A u \in Thread : pc[u] \in {"init", "initWait"} /\ (u # t => node'[u] = node[u])
    BY <1>1, <2>1, InitTogether DEF InitNode
  <2>5. node'[t] = node[t] + 1
    BY <1>1 DEF InitNode
  <2>6. ASSUME NEW u \in Thread, NEW n \in Node, n \in Start(u) .. node'[u] - 1
        PROVE  node_wt'[n] = InitDist(n)
    <3>1. n \in Start(u) .. node[u] - 1 \/ n = node[t]
      <4>1. CASE u # t
        BY <2>4, <2>6, <4>1
      <4>2. CASE u = t
        <5>1. Start(t) \in Int /\ node[t] \in Int /\ n \in Int
          BY <1>e, <2>1, ThreadSlice DEF Node
        <5>2. n \in Start(t) .. (node[t] + 1) - 1
          BY <2>5, <2>6, <4>2
        <5>. QED
          BY ONLY <4>2, <5>1, <5>2
      <4>. QED
        BY <4>1, <4>2
    <3>2. n \in Start(u) .. node[u] - 1 => node_wt[n] = InitDist(n)
      BY <2>4 DEF Filling
    <3>. QED
      BY <3>1, <3>2, <2>2, <2>3
  <2>7. \A u \in Thread : pc'[u] \in {"initWait", "endWait"} => node'[u] = End(u)
    BY <2>1, <2>4 DEF Filling
  <2>. QED
    BY <2>6, <2>7 DEF Filling
<1>2. CASE EndInit(t, "initWait")
  BY <1>2, <1>e, ThreadSlice DEF EndInit, Filling
<1>3. CASE EndSlice(t, "endWait")
  BY <1>3, <1>e, ThreadSlice DEF EndSlice, Filling
<1>4. CASE BarrierWait(t)
  <2>1. \A u \in Thread : \/ pc'[u] = pc[u]
                          \/ pc'[u] \in {"loop", "test", "reset", "again"}
    <3>1. CASE waiting \cup {t} # Thread
      BY <1>4, <3>1 DEF BarrierWait
    <3>2. CASE waiting \cup {t} = Thread
      BY <1>4, <3>2, WaitLabels DEF BarrierWait, Loops
    <3>. QED
      BY <3>1, <3>2
  <2>. QED
    BY <1>4, <2>1 DEF BarrierWait, Filling
<1>5. CASE ~(InitNode(t) \/ EndInit(t, "initWait") \/ EndSlice(t, "endWait") \/ BarrierWait(t))
  <2>1. /\ pc[t] \notin {"init", "initWait"}
        /\ pc'[t] \notin {"init", "initWait", "endWait"}
        /\ \A u \in Thread : u # t => pc'[u] = pc[u] /\ node'[u] = node[u]
    BY <1>5 DEF ThreadStep, Control, SkipNode, EnterNode, FirstRound, NextRound, RoundTest,
       TestChanged, Leave, ResetChanged, Lock, Read, Write, Unlock, NextEdge
  <2>2. \A u \in Thread : pc[u] \notin {"init", "initWait"}
    BY <2>1, BodyInitialised DEF Initialised
  <2>. QED
    BY <2>1, <2>2 DEF Filling
<1>. QED
  BY <1>1, <1>2, <1>3, <1>4, <1>5

\* No step takes a distance below the true one.
LEMMA AboveStep ==
  ASSUME Control1, Filling, AboveDist, Held, NEW t \in Thread, ThreadStep(t)
  PROVE  AboveDist'
<1>. USE DEF Control1, TypeOK, ScanTypeOK
<1>d. /\ \A n \in Node : Dist[n] \in Int /\ Dist[n] <= InitDist(n)
      /\ INF \in Nat
  <2>1. num_nodes - 1 \in 0 .. num_nodes - 1 /\ INF \in Nat
    BY CSRAssumption
  <2>2. Dist \in [Node -> Weight]
    BY <2>1, HopAssumption DEF Dist
  <2>. QED
    BY <2>1, <2>2, NoNegativeCycle DEF InitDist, Weight
<1>1. SUFFICES ASSUME Initialised' PROVE \A n \in Node : Dist[n] <= node_wt'[n]
  BY DEF AboveDist
<1>2. CASE ~Initialised
  BY <1>1, <1>2, <1>d, InitEnds
<1>3. CASE Initialised /\ Write(t)
  <2>0. /\ dest(t) \in Node /\ node[t] \in Node /\ edge[t] \in Row(node[t])
        /\ edge_wt[edge[t]] \in Int
    BY <1>3, EdgeInHand DEF Write, InBody, ControlLabel
  <2>1. node_wt[node[t]] # INF /\ node_wt[node[t]] \in Int /\ node_wt[node[t]] <= INF
    BY <1>3, <2>0 DEF Held, Write, InBody, ControlLabel, Weight
  <2>2. Dist[node[t]] <= node_wt[node[t]] /\ Dist[node[t]] \in Int
    BY <1>3, <2>0, <1>d DEF AboveDist
  <2>3. Dist[node[t]] # INF
    BY <2>1, <2>2, <1>d
  <2>4. Dist[dest(t)] <= Dist[node[t]] + edge_wt[edge[t]]
    BY <2>0, <2>3, NoNegativeCycle DEF Closed, dest
  <2>5. Dist[dest(t)] <= Through(t)
    BY <2>0, <2>1, <2>2, <2>4, <1>d DEF Through
  <2>. QED
    BY <1>3, <2>5, WriteEffect DEF AboveDist
<1>4. CASE Initialised /\ ~Write(t)
  <2>1. UNCHANGED node_wt
    BY <1>4, WtUnchanged DEF Initialised, InitNode
  <2>. QED
    BY <1>4, <2>1 DEF AboveDist
<1>. QED
  BY <1>2, <1>3, <1>4

\* What a thread has read in the critical section stays true until it writes.
LEMMA HeldStep ==
  ASSUME Control1, Held, NEW t \in Thread, ThreadStep(t)
  PROVE  Held'
<1>. USE DEF Control1, TypeOK, ScanTypeOK
<1>b. \A u \in Thread : pc[u] = "write" => InBody(u)
  BY DEF InBody, ControlLabel
<1>f. \A u \in Thread : InBody(u) => pc[u] \notin {"init", "initWait"}
  BY DEF InBody, ControlLabel
<1>0. CASE Control(t, "initWait", Writers) /\ UNCHANGED relaxVars
  <2>1. CASE InitNode(t)
    <3>1. \A u \in Thread : ~InBody(u) /\ pc'[u] = pc[u]
      BY <2>1, <1>f, InitTogether DEF InitNode
    <3>. QED
      BY <3>1, <1>b DEF Held, InBody
  <2>2. CASE EnterNode(t)
    <3>1. /\ pc'[t] = "relax" /\ node_wt[node[t]] # INF
          /\ UNCHANGED <<node_wt, node>>
          /\ \A u \in Thread : u # t => pc'[u] = pc[u] /\ edge'[u] = edge[u]
      BY <2>2 DEF EnterNode
    <3>. QED
      BY <3>1, <1>0 DEF Held, InBody, Through, dest, relaxVars
  <2>3. CASE ~InitNode(t) /\ ~EnterNode(t)
    <3>1. UNCHANGED <<node_wt, edge>>
      BY <1>0, <2>3 DEF Control, InitNode, EndInit, SkipNode, EnterNode, EndSlice,
         BarrierWait, FirstRound, NextRound, TestChanged, ResetChanged
    <3>2. \A u \in Thread : InBody(u)' => InBody(u) /\ pc'[u] = pc[u] /\ node'[u] = node[u]
      <4>1. CASE BarrierWait(t) /\ waiting \cup {t} = Thread
        <5>1. \A u \in Thread : pc'[u] \in {"loop", "test", "reset", "again"}
          BY <4>1, WaitLabels DEF BarrierWait, Loops
        <5>. QED
          BY <5>1 DEF InBody, ControlLabel
      <4>2. CASE BarrierWait(t) /\ waiting \cup {t} # Thread
        BY <4>2 DEF BarrierWait, InBody
      <4>3. CASE ~BarrierWait(t)
        <5>1. /\ pc'[t] \in ControlLabel
              /\ \A u \in Thread : u # t => pc'[u] = pc[u] /\ node'[u] = node[u]
          BY <1>0, <2>3, <4>3 DEF Control, EndInit, SkipNode, EndSlice,
             FirstRound, NextRound, RoundTest, TestChanged, Leave, ResetChanged, ControlLabel
        <5>. QED
          BY <5>1 DEF InBody
      <4>. QED
        BY <4>1, <4>2, <4>3
    <3>. QED
      BY <1>0, <3>1, <3>2 DEF Held, InBody, ControlLabel, Through, dest, relaxVars
  <2>. QED
    BY <2>1, <2>2, <2>3
<1>1. CASE Lock(t)
  BY <1>1 DEF Lock, Held, InBody, Through, dest, ControlLabel
<1>2. CASE Read(t)
  <2>1. /\ pc'[t] = "write" /\ distance'[t] = Through(t)
        /\ prev_distance'[t] = node_wt[dest(t)]
        /\ UNCHANGED <<node_wt, node, edge>> /\ InBody(t)
        /\ \A u \in Thread : u # t => /\ pc'[u] = pc[u] /\ distance'[u] = distance[u]
                                   /\ prev_distance'[u] = prev_distance[u]
    BY <1>2 DEF Read, InBody, ControlLabel
  <2>. QED
    BY <2>1 DEF Held, InBody, Through, dest
<1>3. CASE Write(t)
  <2>1. \A u \in Thread : u # t => pc'[u] = pc[u] /\ pc[u] # "write"
    BY <1>3 DEF Write, MutexOwner, InCritical
  <2>2. UNCHANGED <<node, edge>> /\ pc'[t] = "unlock" /\ InBody(t)
    BY <1>3 DEF Write, InBody, ControlLabel
  <2>3. ASSUME NEW u \in Thread, InBody(u)'
        PROVE  node_wt'[node'[u]] # INF
    <3>1. InBody(u)
      BY <2>1, <2>2, <2>3 DEF InBody
    <3>2. node[u] \in Node /\ node_wt[node[u]] # INF
      BY <3>1, EdgeInHand DEF Held
    <3>3. node_wt[node[u]] \in Int /\ node_wt[node[u]] <= INF /\ INF \in Int
      BY <3>2, CSRAssumption DEF Weight
    <3>4. \/ node_wt'[node[u]] = node_wt[node[u]]
          \/ node_wt'[node[u]] < node_wt[node[u]] /\ node_wt'[node[u]] = Through(t)
      BY <1>3, <3>2, WriteEffect
    <3>5. Through(t) \in Int
      BY <2>2, EdgeInHand DEF Through, Weight
    <3>. QED
      BY <3>2, <3>3, <3>4, <3>5, <2>2
  <2>. QED
    BY <2>1, <2>2, <2>3 DEF Held
<1>4. CASE Unlock(t)
  <2>1. /\ pc'[t] \in {"relax", "node"} /\ InBody(t)
        /\ UNCHANGED <<node_wt, distance, prev_distance>>
        /\ InBody(t)' => node'[t] = node[t]
        /\ \A u \in Thread : u # t => /\ pc'[u] = pc[u] /\ node'[u] = node[u]
                                   /\ edge'[u] = edge[u]
    BY <1>4 DEF Unlock, NextEdge, InBody, ControlLabel
  <2>. QED
    BY <2>1 DEF Held, InBody, Through, dest
<1>. QED
  BY <1>0, <1>1, <1>2, <1>3, <1>4 DEF ThreadStep

LEMMA BoundsInit == Init => Bounds2
<1>. SUFFICES ASSUME Init PROVE Bounds2
  OBVIOUS
<1>. USE DEF Init, ScanInit
<1>1. Filling
  BY ThreadSlice DEF Filling
<1>2. 0 \in Thread
  BY ThreadAssumption DEF Thread
<1>3. ~Initialised
  BY <1>2 DEF Initialised
<1>4. Held
  BY DEF Held, InBody, ControlLabel
<1>. QED
  BY <1>1, <1>3, <1>4 DEF Bounds2, AboveDist

LEMMA BoundsStep == Control1 /\ Bounds2 /\ [Next]_vars => Bounds2'
<1>. SUFFICES ASSUME Control1, Bounds2, [Next]_vars PROVE Bounds2'
  OBVIOUS
<1>1. CASE \E t \in Thread : ThreadStep(t)
  BY <1>1, FillingStep, AboveStep, HeldStep DEF Bounds2
<1>2. CASE UNCHANGED vars
  BY <1>2 DEF vars, scanVars, roundVars, relaxVars, Bounds2, Filling, AboveDist, Held,
     Initialised, InBody, Through, dest
<1>. QED
  BY <1>1, <1>2 DEF Next, Terminating

THEOREM BoundsCorrect == Spec => []Bounds2
BY BoundsInit, BoundsStep, ControlCorrect, PTL DEF Spec

\* After the initialisation no step raises a distance.
THEOREM OnlyDecreasesCorrect == Spec => OnlyDecreases
<1>1. ASSUME Control1, Bounds2, [Next]_vars
      PROVE  [Initialised => \A n \in Node : node_wt'[n] <= node_wt[n]]_vars
  <2>1. \A n \in Node : node_wt[n] \in Int
    BY <1>1 DEF Control1, TypeOK, ScanTypeOK, Weight
  <2>2. CASE UNCHANGED vars
    BY <2>2
  <2>3. ASSUME NEW t \in Thread, ThreadStep(t), Initialised
        PROVE  \A n \in Node : node_wt'[n] <= node_wt[n]
    <3>1. CASE Write(t)
      BY <1>1, <3>1, WriteEffect DEF Bounds2
    <3>2. CASE ~Write(t)
      <4>1. UNCHANGED node_wt
        BY <2>3, <3>2, WtUnchanged DEF InitNode, Initialised
      <4>. QED
        BY <4>1, <2>1
    <3>. QED
      BY <3>1, <3>2
  <2>. QED
    BY <1>1, <2>2, <2>3 DEF Next, Terminating
<1>. QED
  BY <1>1, ControlCorrect, BoundsCorrect, PTL DEF Spec, OnlyDecreases

-----------------------------------------------------------------------------
(***************************************************************************)
(* Layer 3: progress of the rounds.                                        *)
(***************************************************************************)

\* Once initialised, no step raises a distance; the initialisation cannot
\* be undone.
LEMMA WtFalls ==
  ASSUME Control1, Bounds2, Initialised, NEW t \in Thread, ThreadStep(t)
  PROVE  /\ \A n \in Node : node_wt'[n] <= node_wt[n]
         /\ Initialised'
         /\ ~InitNode(t)
<1>. USE DEF Control1, TypeOK, ScanTypeOK
<1>1. ~InitNode(t)
  BY DEF InitNode, Initialised
<1>2. \A n \in Node : node_wt'[n] <= node_wt[n]
  <2>1. CASE Write(t)
    BY <2>1, WriteEffect DEF Bounds2
  <2>2. CASE ~Write(t)
    BY <1>1, <2>2, WtUnchanged DEF Weight
  <2>. QED
    BY <2>1, <2>2
<1>3. Initialised'
  <2>1. CASE BarrierWait(t)
    <3>1. \A u \in Thread : \/ pc'[u] = pc[u]
                            \/ pc'[u] \in {"loop", "test", "reset", "again"}
      BY <2>1, WaitLabels DEF BarrierWait, Loops
    <3>. QED
      BY <3>1 DEF Initialised
  <2>2. CASE ~BarrierWait(t)
    <3>1. /\ \A u \in Thread : u # t => pc'[u] = pc[u]
          /\ pc'[t] \notin {"init", "initWait"}
      BY <1>1, <2>2 DEF Initialised, ThreadStep, Control, EndInit, SkipNode, EnterNode, EndSlice,
         FirstRound, NextRound, RoundTest, TestChanged, Leave, ResetChanged,
         Lock, Read, Write, Unlock, NextEdge
    <3>. QED
      BY <3>1 DEF Initialised
  <2>. QED
    BY <2>1, <2>2
<1>. QED
  BY <1>1, <1>2, <1>3

\* The rounds are in the range of HopDist.
LEMMA RoundRange ==
  ASSUME Control1, NEW t \in Thread
  PROVE  /\ Round(t) \in 0 .. num_nodes - 1
         /\ rounds[t] \in 0 .. num_nodes - 1
         /\ pc[t] \notin {"init", "initWait", "loop", "done"} => rounds[t] \in 0 .. num_nodes - 2
<1>1. rounds[t] \in 0 .. num_nodes /\ num_nodes \in Nat
  BY CSRAssumption DEF Control1, TypeOK, RoundTypeOK
<1>2. rounds[t] <= num_nodes - 1
  BY DEF Control1, Loops
<1>3. pc[t] \notin {"init", "initWait", "loop", "done"} => rounds[t] < num_nodes - 1
  BY DEF Control1, Loops
<1>. QED
  BY <1>1, <1>2, <1>3 DEF Round

\* A step that is not a release of the barrier keeps the rounds of all threads.
LEMMA RoundKept ==
  ASSUME Control1, NEW t \in Thread, ThreadStep(t), NEW u \in Thread
  PROVE  \/ Round(u)' = Round(u)
         \/ pc[u] = "againWait" /\ Round(u)' = rounds[u] + 1
<1>. USE DEF Control1, TypeOK, ScanTypeOK, RoundTypeOK, Round
<1>1. CASE BarrierWait(t)
  BY <1>1, WaitLabels DEF BarrierWait, Loops
<1>2. CASE NextRound(t, Writers)
  BY <1>2 DEF NextRound, RoundTest, Leave
<1>3. CASE ~BarrierWait(t) /\ ~NextRound(t, Writers)
  <2>1. rounds' = rounds
    BY <1>3 DEF ThreadStep, Control, roundVars, FirstRound,
       TestChanged, ResetChanged, Lock, Read, Write, Unlock
  <2>2. u # t => pc'[u] = pc[u]
    BY <1>3 DEF ThreadStep, Control, InitNode, EndInit, SkipNode, EnterNode, EndSlice,
       FirstRound, RoundTest, TestChanged, Leave, ResetChanged,
       Lock, Read, Write, Unlock, NextEdge
  <2>3. pc[t] # "again" /\ pc'[t] # "again"
    BY <1>3 DEF ThreadStep, Control, InitNode, EndInit, SkipNode, EnterNode, EndSlice,
       FirstRound, RoundTest, TestChanged, Leave, ResetChanged,
       Lock, Read, Write, Unlock, NextEdge
  <2>. QED
    BY <2>1, <2>2, <2>3
<1>. QED
  BY <1>1, <1>2, <1>3

\* Round by round the table falls below the next row of HopDist.
LEMMA RoundProgressStep ==
  ASSUME Control1, Bounds2, RoundProgress, NextHop, NEW t \in Thread, ThreadStep(t),
         Control1'
  PROVE  RoundProgress'
<1>1. SUFFICES ASSUME Initialised', NEW u \in Thread, NEW n \in Node
               PROVE  node_wt'[n] <= HopDist[Round(u)'][n]
  BY DEF RoundProgress
<1>t. /\ node_wt[n] \in Int /\ node_wt'[n] \in Int
      /\ \A k \in 0 .. num_nodes - 1 : HopDist[k][n] \in Int
  BY HopType DEF Control1, TypeOK, ScanTypeOK, Weight
<1>2. CASE ~Initialised
  <2>1. node_wt'[n] = InitDist(n)
    BY <1>1, <1>2, InitEnds DEF Bounds2
  <2>2. pc[u] \in {"init", "initWait"}
    BY <1>2, InitTogether DEF Initialised
  <2>3. Round(u) = 0
    BY <2>2 DEF Control1, Loops, Round
  <2>4. Round(u)' = 0
    BY <2>2, <2>3, RoundKept
  <2>5. node_wt'[n] = HopDist[0][n]
    BY <2>1, HopAssumption
  <2>. QED
    BY <2>4, <2>5, <1>t
<1>3. CASE Initialised
  <2>1. node_wt'[n] <= node_wt[n]
    BY <1>3, WtFalls
  <2>2. CASE Round(u)' = Round(u)
    <3>1. Round(u) \in 0 .. num_nodes - 1
      BY RoundRange
    <3>2. node_wt[n] <= HopDist[Round(u)][n]
      BY <1>3, <3>1, CSRAssumption DEF RoundProgress
    <3>. QED
      BY <2>1, <2>2, <3>1, <3>2, <1>t
  <2>3. CASE pc[u] = "againWait" /\ Round(u)' = rounds[u] + 1
    <3>1. rounds[u] + 1 \in 0 .. num_nodes - 1
      <4>1. rounds[u] \in 0 .. num_nodes - 2
        BY <2>3, RoundRange
      <4>. QED
        BY <4>1, CSRAssumption
    <3>2. node_wt[n] <= HopDist[rounds[u] + 1][n]
      BY <2>3 DEF NextHop
    <3>. QED
      BY <2>1, <2>3, <3>1, <3>2, <1>t
  <2>. QED
    BY <2>2, <2>3, RoundKept
<1>. QED
  BY <1>2, <1>3

\* The source stays at 0: it is never raised, and nothing is below Dist.
LEMMA SourceStep ==
  ASSUME Control1, Bounds2, SourceIsZero, NEW t \in Thread, ThreadStep(t),
         Control1', Bounds2'
  PROVE  SourceIsZero'
<1>0. src \in Node
  BY CSRAssumption DEF src, Node
<1>1. SUFFICES ASSUME Initialised' PROVE node_wt'[src] = 0
  BY DEF SourceIsZero
<1>2. CASE ~Initialised
  BY <1>0, <1>1, <1>2, InitEnds DEF Bounds2, InitDist
<1>3. CASE Initialised
  <2>1. node_wt'[src] <= node_wt[src] /\ node_wt[src] = 0
    BY <1>0, <1>3, WtFalls DEF SourceIsZero
  <2>2. 0 <= node_wt'[src]
    BY <1>0, <1>1, NoNegativeCycle DEF Bounds2, AboveDist
  <2>3. node_wt'[src] \in Int
    BY <1>0 DEF Control1, TypeOK, ScanTypeOK, Weight
  <2>. QED
    BY <2>1, <2>2, <2>3
<1>. QED
  BY <1>2, <1>3

\* The relaxed edges of a thread after a step of another thread, or after
\* one that leaves its place in the loops alone.
LEMMA EdgesDoneKept ==
  ASSUME Control1, Bounds2, Initialised, NEW t \in Thread, ThreadStep(t),
         NEW u \in Thread, EdgesDone(u),
         Scanning(u)' => Scanning(u) /\ rounds'[u] = rounds[u],
         \A n \in Node : \A e \in Row(n) : n \in Start(u) .. End(u) - 1 =>
           (Relaxed(u, n, e)' => Relaxed(u, n, e)),
         changed' = TRUE \/ (node_wt' = node_wt /\ changed' = changed),
         Control1'
  PROVE  EdgesDone(u)'
<1>1. SUFFICES ASSUME Scanning(u)', NEW n \in Node, n \in Start(u) .. End(u) - 1,
                      NEW e \in Row(n), Relaxed(u, n, e)'
               PROVE  /\ HopDist[rounds'[u]][n] # INF =>
                           node_wt'[edge_dst[e]] <= HopDist[rounds'[u]][n] + edge_wt[e]
                      /\ ~changed' /\ node_wt'[n] # INF =>
                           node_wt'[edge_dst[e]] <= node_wt'[n] + edge_wt[e]
  BY DEF EdgesDone
<1>2. Scanning(u) /\ rounds'[u] = rounds[u] /\ Relaxed(u, n, e)
  BY <1>1
<1>3. /\ HopDist[rounds[u]][n] # INF =>
           node_wt[edge_dst[e]] <= HopDist[rounds[u]][n] + edge_wt[e]
      /\ ~changed /\ node_wt[n] # INF =>
           node_wt[edge_dst[e]] <= node_wt[n] + edge_wt[e]
  BY <1>1, <1>2 DEF EdgesDone
<1>4. e \in Edge /\ edge_dst[e] \in Node /\ edge_wt[e] \in Int
  BY RowIsEdges, CSRAssumption
<1>5. HopDist[rounds[u]][n] \in Int
  BY RoundRange, HopType
<1>6. node_wt[edge_dst[e]] \in Int /\ node_wt'[edge_dst[e]] \in Int
  BY <1>4 DEF Control1, TypeOK, ScanTypeOK, Weight
<1>7. node_wt'[edge_dst[e]] <= node_wt[edge_dst[e]]
  BY <1>4, WtFalls
<1>8. HopDist[rounds'[u]][n] # INF =>
         node_wt'[edge_dst[e]] <= HopDist[rounds'[u]][n] + edge_wt[e]
  BY <1>2, <1>3, <1>4, <1>5, <1>6, <1>7
<1>9. ASSUME ~changed', node_wt'[n] # INF
      PROVE  node_wt'[edge_dst[e]] <= node_wt'[n] + edge_wt[e]
  BY <1>3, <1>9
<1>. QED
  BY <1>8, <1>9

\* The next edge: it has been relaxed when the mutex is given back.
LEMMA EdgesDoneWrite ==
  ASSUME Control1, Bounds2, RoundProgress, NEW t \in Thread, Write(t), ThreadStep(t),
         EdgesDone(t), Control1'
  PROVE  EdgesDone(t)'
<1>b. InBody(t) /\ Initialised
  <2>1. InBody(t)
    BY DEF Write, InBody, ControlLabel
  <2>. QED
    BY <2>1, BodyInitialised DEF InBody, ControlLabel
<1>w. /\ pc[t] = "write" /\ pc'[t] = "unlock" /\ UNCHANGED <<node, edge, rounds>>
  BY DEF Write, roundVars, Control1, TypeOK, ScanTypeOK
<1>s. Scanning(t)
  BY <1>b DEF Scanning
<1>1. SUFFICES ASSUME NEW n \in Node, n \in Start(t) .. End(t) - 1,
                      NEW e \in Row(n), Relaxed(t, n, e)'
               PROVE  /\ HopDist[rounds'[t]][n] # INF =>
                           node_wt'[edge_dst[e]] <= HopDist[rounds'[t]][n] + edge_wt[e]
                      /\ ~changed' /\ node_wt'[n] # INF =>
                           node_wt'[edge_dst[e]] <= node_wt'[n] + edge_wt[e]
  BY DEF EdgesDone
<1>4. e \in Edge /\ edge_dst[e] \in Node /\ edge_wt[e] \in Int
  BY RowIsEdges, CSRAssumption
<1>5. HopDist[rounds[t]][n] \in Int /\ rounds[t] \in 0 .. num_nodes - 1
  BY RoundRange, HopType
<1>6. /\ node_wt[edge_dst[e]] \in Int /\ node_wt'[edge_dst[e]] \in Int
      /\ node_wt[n] \in Int /\ node_wt[n] <= INF /\ INF \in Nat
  BY <1>4, CSRAssumption DEF Control1, TypeOK, ScanTypeOK, Weight
<1>7. node_wt'[edge_dst[e]] <= node_wt[edge_dst[e]]
  BY <1>4, <1>b, WtFalls
<1>8. changed' = TRUE \/ (node_wt' = node_wt /\ changed' = changed)
  BY WriteEffect DEF Bounds2
<1>9. CASE Relaxed(t, n, e)
  <2>1. /\ HopDist[rounds[t]][n] # INF =>
             node_wt[edge_dst[e]] <= HopDist[rounds[t]][n] + edge_wt[e]
        /\ ~changed /\ node_wt[n] # INF =>
             node_wt[edge_dst[e]] <= node_wt[n] + edge_wt[e]
    BY <1>1, <1>9, <1>s DEF EdgesDone
  <2>2. HopDist[rounds'[t]][n] # INF =>
           node_wt'[edge_dst[e]] <= HopDist[rounds'[t]][n] + edge_wt[e]
    BY <2>1, <1>w, <1>4, <1>5, <1>6, <1>7
  <2>3. ~changed' /\ node_wt'[n] # INF =>
           node_wt'[edge_dst[e]] <= node_wt'[n] + edge_wt[e]
    BY <2>1, <1>8
  <2>. QED
    BY <2>2, <2>3
<1>10. CASE n = node[t] /\ e = edge[t]
  <2>1. node_wt'[edge_dst[e]] <= node_wt[n] + edge_wt[e]
    BY <1>10, WriteEffect DEF Bounds2, dest, Through
  <2>2. node_wt[n] <= HopDist[rounds[t]][n]
    <3>1. Round(t) = rounds[t]
      BY <1>w DEF Round
    <3>. QED
      BY <1>b, <3>1, <1>5, CSRAssumption DEF RoundProgress
  <2>3. HopDist[rounds'[t]][n] # INF =>
           node_wt'[edge_dst[e]] <= HopDist[rounds'[t]][n] + edge_wt[e]
    BY <2>1, <2>2, <1>w, <1>4, <1>5, <1>6
  <2>4. ~changed' /\ node_wt'[n] # INF =>
           node_wt'[edge_dst[e]] <= node_wt'[n] + edge_wt[e]
    BY <2>1, <1>8
  <2>. QED
    BY <2>3, <2>4
<1>11. Relaxed(t, n, e) \/ (n = node[t] /\ e = edge[t])
  BY <1>1, <1>w, <1>b DEF Relaxed
<1>. QED
  BY <1>9, <1>10, <1>11

\* The loop step after the mutex is given back: nothing new is relaxed.
LEMMA RelaxedUnlock ==
  ASSUME Control1, NEW t \in Thread, Unlock(t), NEW n \in Node, NEW e \in Row(n),
         Relaxed(t, n, e)'
  PROVE  Relaxed(t, n, e)
<1>. USE DEF Relaxed
<1>1. /\ InBody(t) /\ pc[t] = "unlock"
      /\ node[t] \in Int /\ edge[t] \in Int
  BY CSRAssumption DEF Unlock, InBody, ControlLabel, Control1, TypeOK, ScanTypeOK
<1>2. e \in Int /\ n \in Int /\ e < row_start[n + 1] /\ row_start[n + 1] \in Int
  BY RowIsEdges, CSRAssumption DEF Row, Node
<1>3. CASE /\ edge'[t] = edge[t] + 1 /\ pc'[t] = "relax" /\ node'[t] = node[t]
  BY <1>1, <1>2, <1>3
<1>4. CASE /\ edge[t] + 1 >= row_start[node[t] + 1]
           /\ node'[t] = node[t] + 1 /\ pc'[t] = "node"
  <2>1. ~InBody(t)'
    BY <1>4 DEF InBody, ControlLabel
  <2>2. n < node[t] + 1
    BY <1>4, <2>1
  <2>. QED
    BY <1>1, <1>2, <1>4, <2>2
<1>. QED
  BY <1>3, <1>4 DEF Unlock, NextEdge, Control1, TypeOK, ScanTypeOK

\* A step of t outside the loops of a round leaves no thread scanning that
\* was not, and relaxes nothing.
LEMMA OthersKept ==
  ASSUME Control1, NEW t \in Thread, ThreadStep(t), ~BarrierWait(t),
         NEW u \in Thread, u # t
  PROVE  /\ pc'[u] = pc[u] /\ node'[u] = node[u] /\ edge'[u] = edge[u]
         /\ rounds'[u] = rounds[u]
         /\ Scanning(u)' <=> Scanning(u)
         /\ \A n \in Node : \A e \in Row(n) : Relaxed(u, n, e)' <=> Relaxed(u, n, e)
<1>. USE DEF Control1, TypeOK, ScanTypeOK, RoundTypeOK
<1>1. pc'[u] = pc[u] /\ node'[u] = node[u] /\ edge'[u] = edge[u] /\ rounds'[u] = rounds[u]
  BY DEF ThreadStep, Control, roundVars, InitNode, EndInit, SkipNode, EnterNode, EndSlice,
     FirstRound, NextRound, RoundTest, TestChanged, Leave, ResetChanged,
     Lock, Read, Write, Unlock, NextEdge
<1>. QED
  BY <1>1 DEF Scanning, InBody, Relaxed

\* Relaxed edges stay relaxed, and what is relaxed has had its effect.
LEMMA EdgesDoneStep ==
  ASSUME Control1, Bounds2, RoundProgress, NEW t \in Thread, ThreadStep(t),
         NEW u \in Thread, EdgesDone(u), Control1'
  PROVE  EdgesDone(u)'
<1>. USE DEF Control1, TypeOK, ScanTypeOK
<1>n. num_nodes \in Nat /\ INF \in Nat /\ rounds[t] \in 0 .. num_nodes - 1
  BY RoundRange, CSRAssumption
<1>s. Start(t) \in Int /\ End(t) \in Int /\ Node \subseteq Int
  BY ThreadSlice DEF Node
<1>1. CASE ~Scanning(u)'
  BY <1>1 DEF EdgesDone
<1>2. CASE BarrierWait(t)
  <2>1. CASE waiting \cup {t} = Thread
    <3>1. pc'[u] \in {"loop", "test", "reset", "again"}
      BY <1>2, <2>1, WaitLabels DEF BarrierWait, Loops
    <3>. QED
      BY <1>1, <3>1 DEF Scanning, InBody, ControlLabel
  <2>2. CASE waiting \cup {t} # Thread
    <3>1. UNCHANGED <<node_wt, changed, pc, node, edge, rounds>>
      BY <1>2, <2>2 DEF BarrierWait
    <3>. QED
      BY <3>1 DEF EdgesDone, Scanning, InBody, Relaxed
  <2>. QED
    BY <2>1, <2>2
<1>3. CASE ~Initialised
  <2>1. pc[t] \in {"init", "initWait"} /\ pc[u] \in {"init", "initWait"}
    BY <1>3, InitTogether DEF Initialised
  <2>2. CASE ~BarrierWait(t)
    <3>1. pc'[t] \in {"init", "initWait"} /\ (u # t => pc'[u] = pc[u])
      BY <2>1, <2>2 DEF ThreadStep, Control, InitNode, EndInit, SkipNode, EnterNode, EndSlice,
         FirstRound, NextRound, TestChanged, ResetChanged, Lock, Read, Write, Unlock
    <3>. QED
      BY <1>1, <2>1, <3>1 DEF Scanning, InBody, ControlLabel
  <2>. QED
    BY <1>2, <2>2
<1>4. CASE ResetChanged(t)
  <2>1. pc[u] # "done"
    BY <1>4 DEF ResetChanged, Phases, LeaveTogether
  <2>2. PhaseOf(pc[u]) = "reset"
    BY <1>4, <2>1 DEF ResetChanged, Phases, SamePhase, PhaseOf
  <2>3. pc[u] \in {"reset", "againWait"}
    BY <2>2 DEF PhaseOf
  <2>4. pc'[u] \in {"reset", "againWait"}
    BY <1>4, <2>3 DEF ResetChanged
  <2>. QED
    BY <1>1, <2>4 DEF Scanning, InBody, ControlLabel
<1>5. CASE /\ Initialised /\ Scanning(u)'
           /\ ~BarrierWait(t) /\ ~ResetChanged(t)
  <2>1. changed' = TRUE \/ (node_wt' = node_wt /\ changed' = changed)
    <3>1. CASE Write(t)
      BY <3>1, WriteEffect DEF Bounds2
    <3>2. CASE ~Write(t)
      BY <1>5, <3>2 DEF ThreadStep, Control, InitNode, Initialised, EndInit, SkipNode,
         EnterNode, EndSlice, FirstRound, NextRound, TestChanged, Lock, Read, Unlock
    <3>. QED
      BY <3>1, <3>2
  <2>2. CASE u # t
    BY <1>5, <2>1, <2>2, OthersKept, EdgesDoneKept
  <2>3. CASE u = t /\ Write(t)
    BY <2>3, EdgesDoneWrite
  <2>4. CASE u = t /\ Unlock(t)
    <3>1. Scanning(t) /\ rounds'[t] = rounds[t]
      BY <2>4 DEF Unlock, Scanning, InBody, ControlLabel, roundVars
    <3>. QED
      BY <1>5, <2>1, <2>4, <3>1, RelaxedUnlock, EdgesDoneKept
  <2>5. CASE u = t /\ (Lock(t) \/ Read(t) \/ EndSlice(t, "endWait"))
    <3>1. /\ Scanning(t) /\ pc'[t] # "unlock" /\ UNCHANGED <<node, edge>>
          /\ InBody(t)' => InBody(t)
          /\ rounds'[t] = rounds[t]
      <4>1. pc[t] \in {"relax", "read", "node"} /\ UNCHANGED <<node, edge>>
        BY <2>5 DEF Lock, Read, EndSlice
      <4>2. pc'[t] \in {"read", "write", "endWait"} /\ (pc[t] = "node" => pc'[t] = "endWait")
        BY <2>5 DEF Lock, Read, EndSlice
      <4>3. rounds'[t] = rounds[t]
        BY <4>1, <4>2 DEF ThreadStep, Control, roundVars, FirstRound, NextRound, TestChanged,
           ResetChanged, Lock, Read, Write, Unlock, BarrierWait
      <4>. QED
        BY <4>1, <4>2, <4>3 DEF Scanning, InBody, ControlLabel
    <3>2. \A n \in Node : \A e \in Row(n) : Relaxed(t, n, e)' => Relaxed(t, n, e)
      BY <3>1 DEF Relaxed
    <3>. QED
      BY <1>5, <2>1, <2>5, <3>1, <3>2, EdgesDoneKept
  <2>6. CASE u = t /\ EnterNode(t)
    <3>1. /\ Scanning(t) /\ pc'[t] = "relax" /\ node' = node /\ edge'[t] = row_start[node[t]]
          /\ rounds'[t] = rounds[t]
      BY <2>6 DEF ThreadStep, EnterNode, Scanning, Control, roundVars, InitNode, EndInit,
         SkipNode, EndSlice, FirstRound, NextRound, TestChanged, ResetChanged,
         Lock, Read, Write, Unlock, BarrierWait, AfterWait
    <3>2. ASSUME NEW n \in Node, NEW e \in Row(n), Relaxed(t, n, e)'
          PROVE  Relaxed(t, n, e)
      <4>1. ~(n = node[t] /\ e < row_start[node[t]])
        BY RowIsEdges, CSRAssumption DEF Row
      <4>. QED
        BY <3>1, <3>2, <4>1 DEF Relaxed
    <3>. QED
      BY <1>5, <2>1, <2>6, <3>1, <3>2, EdgesDoneKept
  <2>7. CASE u = t /\ SkipNode(t)
    <3>1. /\ pc[t] = "node" /\ UNCHANGED <<node_wt, changed, pc>>
          /\ node[t] \in Int /\ node'[t] = node[t] + 1
          /\ node_wt[node[t]] = INF \/ Row(node[t]) = {}
          /\ ~InBody(t)' /\ Scanning(t)
      BY <2>7, CSRAssumption DEF SkipNode, InBody, ControlLabel, Scanning
    <3>2. rounds'[t] = rounds[t]
      BY <3>1, <2>7 DEF ThreadStep, Control, roundVars, FirstRound, NextRound, TestChanged,
         ResetChanged, Lock, Read, Write, Unlock, BarrierWait, SkipNode, RoundTest, Leave
    <3>3. SUFFICES ASSUME NEW n \in Node, n \in Start(t) .. End(t) - 1,
                          NEW e \in Row(n), Relaxed(t, n, e)'
                   PROVE  /\ HopDist[rounds[t]][n] # INF =>
                               node_wt[edge_dst[e]] <= HopDist[rounds[t]][n] + edge_wt[e]
                          /\ ~changed /\ node_wt[n] # INF =>
                               node_wt[edge_dst[e]] <= node_wt[n] + edge_wt[e]
      BY <2>7, <3>1, <3>2 DEF EdgesDone
    <3>4. CASE n < node[t]
      BY <3>3, <3>4, <3>1, <2>7 DEF EdgesDone, Relaxed
    <3>5. CASE n = node[t]
      <4>1. node_wt[n] = INF
        BY <3>1, <3>5
      <4>2. node_wt[n] <= HopDist[rounds[t]][n]
        <5>1. Round(t) = rounds[t] /\ Round(t) < num_nodes
          <6>1. Round(t) = rounds[t]
            BY <3>1 DEF Round
          <6>. QED
            BY ONLY <6>1, <1>n
        <5>. QED
          BY <1>5, <5>1 DEF RoundProgress
      <4>3. HopDist[rounds[t]][n] = INF
        <5>1. HopDist[rounds[t]][n] \in Int /\ HopDist[rounds[t]][n] <= INF
          BY <1>n, HopType
        <5>. QED
          BY ONLY <4>1, <4>2, <5>1, <1>n
      <4>. QED
        BY <4>1, <4>3
    <3>6. n < node[t] + 1
      BY <3>1, <3>3 DEF Relaxed
    <3>7. n < node[t] \/ n = node[t]
      <4>1. n \in Int
        BY <1>s
      <4>2. node[t] \in Int
        BY <3>1
      <4>. QED
        BY ONLY <3>6, <4>1, <4>2
    <3>. QED
      BY <3>4, <3>5, <3>7
  <2>8. CASE u = t /\ (FirstRound(t, Writers) \/ NextRound(t, Writers))
    <3>1. pc'[t] = "node" /\ node'[t] = Start(t)
      BY <1>5, <2>8 DEF FirstRound, NextRound, RoundTest, Leave, Scanning, InBody, ControlLabel
    <3>2. ~InBody(t)'
      BY <3>1 DEF InBody, ControlLabel
    <3>3. \A n \in Node : n \in Start(t) .. End(t) - 1 => ~(n < Start(t))
      BY ONLY <1>s
    <3>4. \A n \in Node : \A e \in Row(n) :
            n \in Start(t) .. End(t) - 1 => ~Relaxed(t, n, e)'
      BY <3>1, <3>2, <3>3 DEF Relaxed
    <3>. QED
      BY <2>8, <3>4 DEF EdgesDone
  <2>9. CASE u = t /\ (InitNode(t) \/ EndInit(t, "initWait") \/ TestChanged(t, Writers))
    BY <1>5, <2>9 DEF Initialised, InitNode, EndInit, TestChanged, Leave, Scanning, InBody,
       ControlLabel
  <2>. QED
    BY <1>5, <2>2, <2>3, <2>4, <2>5, <2>6, <2>7, <2>8, <2>9 DEF ThreadStep, Control
<1>. QED
  BY <1>1, <1>2, <1>3, <1>4, <1>5

\* The barrier after the edge loops: every edge of the graph has been
\* relaxed in this round.
LEMMA RoundEnds ==
  ASSUME Control1, Bounds2, Progress3, NEW t \in Thread, BarrierWait(t),
         NEW u \in Thread, pc'[u] = "test", pc[u] # "test"
  PROVE  /\ UNCHANGED <<node_wt, changed, rounds>>
         /\ rounds[u] \in 0 .. num_nodes - 2
         /\ \A n \in Node : node_wt[n] <= HopDist[rounds[u]][n]
         /\ \A n \in Node : HopDist[rounds[u]][n] # INF => \A e \in Row(n) :
              node_wt[edge_dst[e]] <= HopDist[rounds[u]][n] + edge_wt[e]
         /\ ~changed => Closed(node_wt)
<1>. USE DEF Control1, TypeOK, ScanTypeOK
<1>1. waiting \cup {t} = Thread /\ UNCHANGED <<node_wt, changed, rounds>>
  BY DEF BarrierWait
<1>2. pc[u] = "endWait"
  BY <1>1, WaitLabels DEF BarrierWait, Loops
<1>3. \A v \in Thread : pc[v] = "endWait"
  <2>1. \A v \in Thread : pc[v] \in {"initWait", "endWait", "resetWait", "againWait"}
    BY <1>1, WaitLabels DEF BarrierWait, Loops
  <2>. QED
    BY <1>2, <2>1 DEF Phases, SamePhase, PhaseOf
<1>4. \A v \in Thread : rounds[v] = rounds[u]
  BY <1>3 DEF Phases, SamePhase, Round
<1>5. rounds[u] \in 0 .. num_nodes - 2 /\ rounds[u] \in 0 .. num_nodes - 1
  BY <1>2, RoundRange
<1>6. \A n \in Node : node_wt[n] <= HopDist[rounds[u]][n]
  <2>1. Round(u) = rounds[u]
    BY <1>2 DEF Round
  <2>2. Round(u) < num_nodes
    BY <2>1, <1>5, CSRAssumption
  <2>3. Initialised
    BY <1>2, BodyInitialised
  <2>. QED
    BY <2>1, <2>2, <2>3 DEF Progress3, RoundProgress
<1>7. ASSUME NEW n \in Node, NEW e \in Row(n)
      PROVE  /\ HopDist[rounds[u]][n] # INF =>
                  node_wt[edge_dst[e]] <= HopDist[rounds[u]][n] + edge_wt[e]
             /\ ~changed /\ node_wt[n] # INF =>
                  node_wt[edge_dst[e]] <= node_wt[n] + edge_wt[e]
  <2>1. PICK v \in Thread : n \in Start(v) .. End(v) - 1
    BY NodeCovered
  <2>2. node[v] = End(v) /\ Scanning(v)
    BY <1>3 DEF Bounds2, Filling, Scanning
  <2>3. n < node[v]
    BY <2>1, <2>2, ThreadSlice
  <2>4. Relaxed(v, n, e)
    BY <2>3 DEF Relaxed
  <2>5. EdgesDone(v) /\ rounds[v] = rounds[u]
    BY <1>4 DEF Progress3
  <2>. QED
    BY <2>1, <2>2, <2>4, <2>5 DEF EdgesDone
<1>. QED
  BY <1>1, <1>5, <1>6, <1>7 DEF Closed

\* Where a thread comes from when it stands after the first barrier of the
\* end of a round.
LEMMA FromTest ==
  ASSUME Control1, NEW t \in Thread, ThreadStep(t), NEW u \in Thread,
         pc'[u] \in {"test", "resetWait", "reset", "againWait"}
  PROVE  \/ BarrierWait(t) /\ pc'[u] = "test" /\ pc[u] # "test"
         \/ /\ pc[u] \in {"test", "resetWait", "reset", "againWait"}
            /\ pc'[u] = "test" => pc[u] = "test"
            /\ rounds'[u] = rounds[u]
<1>. USE DEF Control1, TypeOK, ScanTypeOK, RoundTypeOK
<1>1. CASE BarrierWait(t)
  BY <1>1, WaitLabels DEF BarrierWait, Loops
<1>2. CASE ~BarrierWait(t) /\ u # t
  BY <1>2, OthersKept
<1>3. CASE ~BarrierWait(t) /\ u = t
  <2>1. (TestChanged(t, Writers) \/ ResetChanged(t)) /\ rounds' = rounds
    BY <1>3 DEF ThreadStep, Control, InitNode, EndInit, SkipNode, EnterNode, EndSlice,
       FirstRound, NextRound, RoundTest, TestChanged, Leave, ResetChanged,
       Lock, Read, Write, Unlock, NextEdge
  <2>. QED
    BY <1>3, <2>1 DEF TestChanged, ResetChanged, Leave
<1>. QED
  BY <1>1, <1>2, <1>3

\* At the end of a round the table is below the next row of HopDist.
LEMMA NextHopStep ==
  ASSUME Control1, Bounds2, Progress3, NEW t \in Thread, ThreadStep(t), Control1'
  PROVE  NextHop'
<1>1. SUFFICES ASSUME NEW u \in Thread,
                      pc'[u] \in {"test", "resetWait", "reset", "againWait"},
                      NEW n \in Node
               PROVE  node_wt'[n] <= HopDist[rounds'[u] + 1][n]
  BY DEF NextHop
<1>2. CASE BarrierWait(t) /\ pc'[u] = "test" /\ pc[u] # "test"
  <2>1. node_wt \in [Node -> Int]
    BY DEF Control1, TypeOK, ScanTypeOK, Weight
  <2>2. /\ UNCHANGED <<node_wt, changed, rounds>>
        /\ rounds[u] \in 0 .. num_nodes - 2
        /\ \A m \in Node : node_wt[m] <= HopDist[rounds[u]][m]
        /\ \A m \in Node : HopDist[rounds[u]][m] # INF => \A e \in Row(m) :
              node_wt[edge_dst[e]] <= HopDist[rounds[u]][m] + edge_wt[e]
    BY <1>2, RoundEnds
  <2>3. node_wt[n] <= HopDist[rounds[u] + 1][n]
    BY <2>1, <2>2, HopReached
  <2>. QED
    BY <2>2, <2>3
<1>3. CASE /\ pc[u] \in {"test", "resetWait", "reset", "againWait"}
           /\ rounds'[u] = rounds[u]
  <2>1. Initialised
    BY <1>3, BodyInitialised
  <2>2. node_wt'[n] <= node_wt[n]
    BY <2>1, WtFalls
  <2>3. node_wt[n] <= HopDist[rounds[u] + 1][n]
    BY <1>3 DEF Progress3, NextHop
  <2>4. HopDist[rounds[u] + 1][n] \in Int
    <3>1. rounds[u] \in 0 .. num_nodes - 2
      BY <1>3, RoundRange
    <3>2. rounds[u] + 1 \in 0 .. num_nodes - 1
      BY <3>1, CSRAssumption
    <3>. QED
      BY <3>2, HopType
  <2>5. node_wt[n] \in Int /\ node_wt'[n] \in Int
    BY DEF Control1, TypeOK, ScanTypeOK, Weight
  <2>. QED
    BY <1>3, <2>2, <2>3, <2>4, <2>5
<1>. QED
  BY <1>1, <1>2, <1>3, FromTest

\* Nobody lowers a distance while another thread decides or has left.
LEMMA NoWriteAtTest ==
  ASSUME Control1, Bounds2, NEW t \in Thread, ThreadStep(t),
         NEW u \in Thread, pc[u] \in {"test", "done"}
  PROVE  UNCHANGED node_wt /\ ~ResetChanged(t)
<1>1. ~Write(t)
  BY DEF Write, Control1, Phases, SamePhase, LeaveTogether, PhaseOf
<1>2. ~InitNode(t)
  BY DEF InitNode, Control1, Phases, SamePhase, LeaveTogether, PhaseOf
<1>3. ~ResetChanged(t)
  BY DEF ResetChanged, Control1, Phases, SamePhase, LeaveTogether, PhaseOf
<1>. QED
  BY <1>1, <1>2, <1>3, WtUnchanged

\* The test of an unset flag finds a closed table.
LEMMA EarlyExitStep ==
  ASSUME Control1, Bounds2, Progress3, NEW t \in Thread, ThreadStep(t), Control1'
  PROVE  EarlyExitIsFixpoint'
<1>1. SUFFICES ASSUME NEW u \in Thread, pc'[u] = "test", ~changed'
               PROVE  Closed(node_wt)'
  BY DEF EarlyExitIsFixpoint
<1>2. CASE BarrierWait(t) /\ pc[u] # "test"
  <2>1. UNCHANGED <<node_wt, changed>> /\ (~changed => Closed(node_wt))
    BY <1>1, <1>2, RoundEnds
  <2>. QED
    BY <1>1, <2>1 DEF Closed
<1>3. CASE pc[u] = "test"
  <2>1. UNCHANGED node_wt /\ ~ResetChanged(t)
    BY <1>3, NoWriteAtTest
  <2>2. ~Write(t)
    BY <1>3 DEF Write, Control1, Phases, SamePhase, LeaveTogether, PhaseOf
  <2>3. UNCHANGED changed
    BY <2>1, <2>2 DEF ThreadStep, Control, InitNode, EndInit, SkipNode, EnterNode, EndSlice,
       BarrierWait, FirstRound, NextRound, TestChanged, Lock, Read, Unlock
  <2>4. Closed(node_wt)
    BY <1>1, <1>3, <2>3 DEF Progress3, EarlyExitIsFixpoint
  <2>. QED
    BY <2>1, <2>4 DEF Closed
<1>. QED
  BY <1>1, <1>2, <1>3, FromTest

\* A thread leaves with the true distances: the flag is unset and the table
\* is closed, or num_nodes-1 rounds are over.
LEMMA LeavesStep ==
  ASSUME Control1, Bounds2, Progress3, NEW t \in Thread, ThreadStep(t)
  PROVE  LeavesDist'
<1>. USE DEF Control1, TypeOK, ScanTypeOK
<1>1. SUFFICES ASSUME NEW u \in Thread, pc'[u] = "done"
               PROVE  node_wt' = Dist
  BY DEF LeavesDist
<1>2. CASE pc[u] = "done"
  <2>1. UNCHANGED node_wt
    BY <1>2, NoWriteAtTest
  <2>. QED
    BY <1>2, <2>1 DEF Progress3, LeavesDist
<1>3. CASE pc[u] # "done"
  <2>1. u = t /\ ~BarrierWait(t)
    <3>1. ~BarrierWait(t)
      BY <1>1, <1>3, WaitLabels DEF BarrierWait, Loops
    <3>. QED
      BY <1>1, <1>3, <3>1, OthersKept
  <2>2. \/ TestChanged(t, Writers) /\ ~changed
        \/ /\ FirstRound(t, Writers) \/ NextRound(t, Writers)
           /\ rounds'[t] >= num_nodes - 1
    BY <1>1, <1>3, <2>1 DEF ThreadStep, Control, InitNode, EndInit, SkipNode, EnterNode,
       EndSlice, FirstRound, NextRound, RoundTest, TestChanged, Leave, ResetChanged,
       Lock, Read, Write, Unlock, NextEdge
  <2>3. pc[t] \in {"test", "loop", "again"} /\ UNCHANGED node_wt
    BY <2>2 DEF TestChanged, FirstRound, NextRound
  <2>4. Initialised
    BY <2>3, BodyInitialised
  <2>5. \A n \in Node : Dist[n] <= node_wt[n]
    BY <2>4 DEF Bounds2, AboveDist
  <2>6. CASE TestChanged(t, Writers) /\ ~changed
    <3>1. Closed(node_wt)
      BY <2>6 DEF TestChanged, Progress3, EarlyExitIsFixpoint
    <3>2. node_wt[src] <= 0
      BY <2>4 DEF Progress3, SourceIsZero
    <3>3. node_wt \in [Node -> Weight]
      OBVIOUS
    <3>4. node_wt = Dist
      BY ONLY <2>5, <3>1, <3>2, <3>3, ClosedIsDist
    <3>. QED
      BY <2>3, <3>4
  <2>7. CASE /\ FirstRound(t, Writers) \/ NextRound(t, Writers)
             /\ rounds'[t] >= num_nodes - 1
    <3>1. Round(t) = rounds'[t]
      BY <2>7 DEF FirstRound, NextRound, Round, RoundTypeOK
    <3>2. Round(t) \in 0 .. num_nodes - 1 /\ num_nodes \in Nat
      BY RoundRange, CSRAssumption
    <3>3. Round(t) = num_nodes - 1
      BY ONLY <3>1, <3>2, <2>7
    <3>4. \A n \in Node : node_wt[n] <= Dist[n]
      BY <2>4, <3>2, <3>3, DistType DEF Progress3, RoundProgress
    <3>5. \A n \in Node : node_wt[n] \in Int /\ Dist[n] \in Int
      BY DistType DEF Weight
    <3>6. \A n \in Node : node_wt[n] = Dist[n]
      BY ONLY <2>5, <3>4, <3>5
    <3>7. node_wt = Dist
      BY <3>6, DistType
    <3>. QED
      BY <2>3, <3>7
  <2>. QED
    BY <2>2, <2>6, <2>7
<1>. QED
  BY <1>2, <1>3

LEMMA ProgressInit == Init => Progress3
<1>. SUFFICES ASSUME Init PROVE Progress3
  OBVIOUS
<1>0. 0 \in Thread
  BY ThreadAssumption DEF Thread
<1>1. \A t \in Thread : pc[t] = "init"
  BY DEF Init, ScanInit
<1>2. ~Initialised
  BY <1>0, <1>1 DEF Initialised
<1>3. \A t \in Thread : ~Scanning(t)
  BY <1>1 DEF Scanning, InBody, ControlLabel
<1>. QED
  BY <1>1, <1>2, <1>3 DEF Progress3, RoundProgress, EdgesDone, NextHop, SourceIsZero,
     EarlyExitIsFixpoint, LeavesDist

LEMMA ProgressStep ==
  Control1 /\ Bounds2 /\ Progress3 /\ [Next]_vars /\ Control1' /\ Bounds2' => Progress3'
<1>. SUFFICES ASSUME Control1, Bounds2, Progress3, [Next]_vars, Control1', Bounds2'
              PROVE  Progress3'
  OBVIOUS
<1>1. ASSUME NEW t \in Thread, ThreadStep(t)
      PROVE  Progress3'
  <2>1. RoundProgress' /\ SourceIsZero'
    BY <1>1, RoundProgressStep, SourceStep DEF Progress3
  <2>2. \A u \in Thread : EdgesDone(u)'
    BY <1>1, EdgesDoneStep DEF Progress3
  <2>3. NextHop' /\ EarlyExitIsFixpoint' /\ LeavesDist'
    BY <1>1, NextHopStep, EarlyExitStep, LeavesStep
  <2>. QED
    BY <2>1, <2>2, <2>3 DEF Progress3
<1>2. CASE UNCHANGED vars
  <2>1. RoundProgress' /\ SourceIsZero'
    BY <1>2 DEF vars, scanVars, roundVars, Progress3, RoundProgress, SourceIsZero,
       Initialised, Round
  <2>2. \A u \in Thread : EdgesDone(u)'
    BY <1>2 DEF vars, scanVars, roundVars, Progress3, EdgesDone, Scanning, InBody, Relaxed
  <2>3. NextHop' /\ EarlyExitIsFixpoint' /\ LeavesDist'
    BY <1>2 DEF vars, scanVars, roundVars, Progress3, NextHop, EarlyExitIsFixpoint,
       LeavesDist, Closed
  <2>. QED
    BY <2>1, <2>2, <2>3 DEF Progress3
<1>. QED
  BY <1>1, <1>2 DEF Next, Terminating

\* The whole inductive invariant holds in every run.
THEOREM Invariant == Spec => []IInv
<1>1. Control1 /\ Bounds2 /\ Progress3 => IInv
  BY DEF IInv
<1>. QED
  BY <1>1, ProgressInit, ProgressStep, ControlCorrect, BoundsCorrect, PTL DEF Spec

\* When all threads have returned, node_wt holds the shortest distances.
THEOREM FinalCorrect == Spec => []FinalDistances
<1>1. IInv => FinalDistances
  <2>1. 0 \in Thread
    BY ThreadAssumption DEF Thread
  <2>. QED
    BY <2>1 DEF IInv, Progress3, LeavesDist, FinalDistances, AllDone
<1>. QED
  BY <1>1, Invariant, PTL

\* A thread that finds the flag unset at the end of a round can stop: no
\* edge of the graph lowers any distance.
THEOREM EarlyExitCorrect == Spec => []EarlyExitIsFixpoint
<1>1. IInv => EarlyExitIsFixpoint
  BY DEF IInv, Progress3
<1>. QED
  BY <1>1, Invariant, PTL

\* After r rounds no distance is above the best walk of r edges.
THEOREM RoundProgressCorrect == Spec => []RoundProgress
<1>1. IInv => RoundProgress
  BY DEF IInv, Progress3
<1>. QED
  BY <1>1, Invariant, PTL

-----------------------------------------------------------------------------
(***************************************************************************)
(* The program implements ShortestPaths.                                   *)
(***************************************************************************)

\* Initially the initial distances count as published.
LEMMA AbstractInit == Init => Abstract!Init
<1>. SUFFICES ASSUME Init PROVE Abstract!Init
  OBVIOUS
<1>1. 0 \in Thread /\ pc[0] = "init"
  BY ThreadAssumption DEF Thread, Init, ScanInit
<1>2. ~Initialised /\ ~AllDone
  BY <1>1 DEF Initialised, AllDone
<1>. QED
  BY <1>2 DEF Abstract!Init, Abstract!Node, Abstract!InitDist, Abstract!src,
     Published, Node, InitDist, src

\* Every step lowers one distance towards the true one, hands the result
\* over, or changes nothing that is published.
LEMMA AbstractStep == IInv /\ IInv' /\ [Next]_vars => [Abstract!Next]_(Abstract!vars)
<1>. SUFFICES ASSUME IInv, IInv', [Next]_vars PROVE [Abstract!Next]_(Abstract!vars)
  OBVIOUS
<1>. USE DEF IInv
<1>a. Abstract!Dist = Dist /\ Abstract!Node = Node
  BY DEF Abstract!Dist, Dist, Abstract!Node, Node
<1>t. 0 \in Thread
  BY ThreadAssumption DEF Thread
<1>d. AllDone => Initialised
  BY <1>t DEF AllDone, Initialised
<1>1. CASE UNCHANGED vars
  BY <1>1 DEF vars, scanVars, Abstract!vars, Published, Initialised, AllDone
<1>2. ASSUME NEW t \in Thread, ThreadStep(t)
      PROVE  [Abstract!Next]_(Abstract!vars)
  <2>0. ~AllDone
    <3>1. pc[t] # "done"
      BY <1>2, WaitLabels DEF ThreadStep, Control, InitNode, EndInit, SkipNode, EnterNode,
         EndSlice, BarrierWait, FirstRound, NextRound, TestChanged, ResetChanged,
         Lock, Read, Write, Unlock
    <3>. QED
      BY <3>1 DEF AllDone
  <2>1. CASE Write(t)
    <3>b. InBody(t) /\ pc[t] = "write" /\ pc'[t] = "unlock"
      BY <2>1 DEF Write, InBody, ControlLabel, Control1, TypeOK, ScanTypeOK
    <3>1. Initialised
      BY <3>b, BodyInitialised
    <3>2. Initialised'
      BY <1>2, <3>1, WtFalls
    <3>3. Published = node_wt /\ Published' = node_wt'
      BY <3>1, <3>2 DEF Published
    <3>4. ~AllDone'
      BY <3>b DEF AllDone
    <3>5. dest(t) \in Node
      BY <3>b, EdgeInHand DEF Control1
    <3>6. CASE node_wt' = node_wt
      <4>1. AllDone' = AllDone
        BY <3>4, <2>0 DEF AllDone
      <4>. QED
        BY <4>1, <3>3, <3>6 DEF Abstract!vars
    <3>7. CASE prev_distance[t] > distance[t]
      <4>1. node_wt' = [node_wt EXCEPT ![dest(t)] = distance[t]]
        BY <2>1, <3>7 DEF Write, Control1, TypeOK, Weight
      <4>2. distance[t] \in Dist[dest(t)] .. node_wt[dest(t)] - 1
        <5>1. distance[t] \in Int /\ node_wt[dest(t)] \in Int
          BY <3>5 DEF Control1, TypeOK, ScanTypeOK, Weight
        <5>2. distance[t] < node_wt[dest(t)]
          BY <3>7, <3>b, <5>1 DEF Bounds2, Held
        <5>3. node_wt'[dest(t)] = distance[t]
          BY <4>1, <3>5 DEF Control1, TypeOK, ScanTypeOK
        <5>4. Dist[dest(t)] <= distance[t]
          BY <3>2, <3>5, <5>3 DEF Bounds2, AboveDist
        <5>5. Dist[dest(t)] \in Int
          BY <3>5, DistType DEF Weight
        <5>. QED
          BY ONLY <5>1, <5>2, <5>4, <5>5
      <4>3. Abstract!Lower(dest(t))
        <5>1. \E x \in Dist[dest(t)] .. Published[dest(t)] - 1 :
                Published' = [Published EXCEPT ![dest(t)] = x]
          BY <3>3, <4>1, <4>2
        <5>2. AllDone' = AllDone
          BY <3>4, <2>0 DEF AllDone
        <5>. QED
          BY <5>1, <5>2, <2>0, <1>a DEF Abstract!Lower
      <4>. QED
        BY <4>3, <3>5, <1>a DEF Abstract!Next
    <3>. QED
      BY <3>6, <3>7, <2>1 DEF Write
  <2>2. CASE ~Write(t)
    <3>1. Published' = Published
      <4>1. CASE Initialised
        BY <1>2, <2>2, <4>1, WtFalls, WtUnchanged DEF Published
      <4>2. CASE ~Initialised /\ Initialised'
        BY <1>2, <4>2, InitEnds DEF Published, Bounds2
      <4>3. CASE ~Initialised /\ ~Initialised'
        BY <4>3 DEF Published
      <4>. QED
        BY <4>1, <4>2, <4>3
    <3>2. CASE ~AllDone'
      <4>1. AllDone' = AllDone
        BY <3>2, <2>0 DEF AllDone
      <4>. QED
        BY <4>1, <3>1 DEF Abstract!vars
    <3>3. CASE AllDone'
      <4>1. node_wt' = Dist /\ Initialised'
        BY <1>t, <3>3 DEF AllDone, Initialised, Progress3, LeavesDist
      <4>2. Published = Dist
        BY <3>1, <4>1 DEF Published
      <4>3. Abstract!Finish
        BY <2>0, <3>1, <3>3, <4>2, <1>a DEF Abstract!Finish
      <4>. QED
        BY <4>3 DEF Abstract!Next
    <3>. QED
      BY <3>2, <3>3
  <2>. QED
    BY <2>1, <2>2
<1>. QED
  BY <1>1, <1>2 DEF Next, Terminating

\* The program implements the abstract shortest-path specification.
THEOREM Refinement == Spec => ImplementsShortestPaths
BY AbstractInit, AbstractStep, Invariant, PTL
   DEF Spec, ImplementsShortestPaths, Abstract!Spec
=============================================================================
