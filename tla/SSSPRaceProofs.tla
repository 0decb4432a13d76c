---------------------------- MODULE SSSPRaceProofs ---------------------------
(***************************************************************************)
(* What the programs without one mutex for the graph keep: the rounds do   *)
(* not mix, every distance is the length of a walk, a store is announced,  *)
(* and an early exit has the right distances.  That the distances are      *)
(* right when the rounds run out is not so: an exchange may put back an    *)
(* older distance.                                                         *)
(*                                                                         *)
(* First the four programs with barriers.  Their steps are put into eleven *)
(* kinds; the invariants are proved kind by kind.  Then sssp and           *)
(* sssp_no_atomic, whose threads are started and joined for every round.   *)
(***************************************************************************)
EXTENDS SSSPBarrier, SSSP, BarrierRoundsProofs, SequenceTheorems

\* The labels of the bodies.
BodyLabel ==
  { "relax", "loadPrev", "pred1", "pred2", "exchange", "verify", "readTail",
    "lockRead", "readHead", "lockWrite", "write", "flag" }
Label == ControlLabel \cup BodyLabel

ExchangePrograms == AtomicPrograms \cup {"sssp_relaxed"}

\* A thread has loaded the distance over its edge, and has found it lower;
\* it has stored.
HasDistance == BodyLabel \ {"relax", "readTail"}
IsLower == {"exchange", "lockWrite", "write"}
HasStored == {"verify", "flag"}

LocalTypeOK ==
  /\ distance \in [Thread -> Int]
  /\ prev_distance \in [Thread -> Weight]
  /\ pred_1 \in [Thread -> BOOLEAN]
  /\ register \in [Thread -> Weight]

MemoryTypeOK ==
  /\ older \in [Node -> Seq(Weight)]
  /\ seen \in [Thread -> [Node -> Nat \ {0}]]

TypeOK ==
  /\ ScanTypeOK(Label)
  /\ RoundTypeOK
  /\ LocalTypeOK
  /\ MemoryTypeOK
  /\ \A t \in Thread : pc[t] = "verify" => program \in ExchangePrograms

\* The barrier separates the initialisation from the rounds, but in sssp_ex3.
ProgramPhases ==
  /\ program = "sssp_ex3" => PhasesIn(TRUE)
  /\ program # "sssp_ex3" => PhasesIn(FALSE)

Storable ==
  \A t \in Thread : pc[t] \in IsLower => distance[t] <= INF /\ dest(t) # src

\* The source is never stored to, not even before it is initialised.
SourceIsZero == node_wt[src] = 0 /\ older[src] = <<>>

\* Node n has been initialised.
Ready(n) ==
  \A t \in Thread :
    pc[t] = "init" /\ n \in Start(t) .. End(t) - 1 => n < node[t]

\* No value that a thread can still read or store is below the true distance.
NotTooLow ==
  /\ \A n \in Node : Ready(n) => Dist[n] <= node_wt[n]
  /\ \A n \in Node : \A k \in 1 .. Len(older[n]) : Dist[n] <= older[n][k]
  /\ \A n \in Node : older[n] # <<>> => Ready(n)
  /\ \A t \in Thread : InBody(t) => Dist[node[t]] # INF
  /\ \A t \in Thread : pc[t] \in HasDistance => Dist[dest(t)] <= distance[t]
  /\ \A t \in Thread :
       program \in PlainPrograms /\ InBody(t) => Dist[node[t]] <= register[t]

Walks == TypeOK /\ Loops /\ ProgramPhases /\ Storable /\ SourceIsZero /\ NotTooLow

\* While the flag is unset, a thread that has stored has not looked yet, and
\* its store is the last one to that node, and visible to it.
LastStore(t, n) ==
  /\ pc[t] = "verify" /\ dest(t) = n /\ distance[t] = node_wt[n]
  /\ program = "sssp_relaxed" => seen[t][n] = Len(older[n]) + 1
Announced ==
  \A t \in Thread : pc[t] = "verify" /\ ~changed =>
    \E u \in Thread : LastStore(u, dest(t))

\* Somebody has stored since the flag was reset.
Stirred == changed \/ \E t \in Thread : pc[t] \in HasStored

\* Thread t is in the edge loops of a round, and is done with edge e of n.
Scanning(t) == InBody(t) \/ pc[t] \in {"node", "endWait"}
Relaxed(t, n, e) ==
  n < node[t] \/ (n = node[t] /\ InBody(t) /\ e < edge[t])

\* As long as nobody has stored, what was read is still true, and no edge that
\* has been looked at can lower a distance.
NothingMissed(t) ==
  /\ pc[t] \in HasDistance => distance[t] = Through(t)
  /\ program \in PlainPrograms /\ InBody(t) => register[t] = node_wt[node[t]]
  /\ Scanning(t) =>
       \A n \in Node : n \in Start(t) .. End(t) - 1 /\ node_wt[n] # INF =>
         \A e \in Row(n) : Relaxed(t, n, e) =>
           node_wt[edge_dst[e]] <= node_wt[n] + edge_wt[e]
Calm ==
  Settled /\ ~Stirred =>
    (\A n \in Node : older[n] = <<>>) /\ \A t \in Thread : NothingMissed(t)

\* A barrier has made all stores visible, and nobody stores between the scan
\* and the next round; a thread waits there when its slice is done.
AfterScan ==
  \A t \in Thread :
    /\ PhaseOf(pc[t]) \in {"decide", "reset"} => \A n \in Node : older[n] = <<>>
    /\ pc[t] = "endWait" => node[t] = End(t)

Stores2 == Announced /\ Calm /\ AfterScan /\ GuardedEarlyExit

\* The threads of sssp_nodelock between lock and unlock hold the mutexes.
MutexHeld ==
  program = "sssp_nodelock" =>
    \A t \in Thread :
      /\ pc[t] \in {"readTail", "readHead", "write"} <=> edge_head_mutex = t
      /\ pc[t] \in {"readHead", "write"} <=> edge_tail_mutex = t

IInv == Walks /\ Stores2 /\ MutexHeld

-----------------------------------------------------------------------------
(***************************************************************************)
(* The kinds of steps.                                                     *)
(***************************************************************************)

\* What a load of node n by thread t can return.
Loads(t, n) ==
  IF program = "sssp_relaxed" THEN { Stores(n)[k] : k \in Visible(t, n) } ELSE {node_wt[n]}

\* What the compiler may have kept in a register.
Kept(t) == IF program \in PlainPrograms THEN {register[t]} ELSE {}

Goto(t, l) == pc' = [pc EXCEPT ![t] = l] /\ UNCHANGED <<node, edge>>
NoStore == UNCHANGED <<node_wt, changed>>
SameLocals(t) == distance'[t] = distance[t] /\ register'[t] = register[t]

\* What a step of thread t leaves alone.
OthersSame(t) ==
  \A u \in Thread \ {t} :
    /\ pc'[u] = pc[u] /\ node'[u] = node[u] /\ edge'[u] = edge[u]
    /\ distance'[u] = distance[u] /\ register'[u] = register[u]

\* A node is initialised.
Fill(t) == InitNode(t) /\ UNCHANGED <<distance, register>>

\* The barrier releases all threads.
Release ==
  /\ \A u \in Thread :
       /\ pc[u] \in {"initWait", "endWait", "resetWait", "againWait"}
       /\ pc'[u] \in {"loop", "test", "reset", "again"}
       /\ pc'[u] = "test" => pc[u] = "endWait"
       /\ pc'[u] = "again" => pc[u] = "againWait"
  /\ UNCHANGED <<node_wt, changed, node, edge, distance, register>>
  /\ \A n \in Node : older'[n] = <<>>

\* The loops around the body, but for the look at a node.
Turn(t) ==
  /\ pc[t] \in ControlLabel /\ pc'[t] \in ControlLabel \ {"init", "test"}
  /\ pc[t] = "init" => node[t] >= End(t)
  /\ pc'[t] \in {"node", "endWait"} =>
       \/ node'[t] = Start(t) /\ pc'[t] = "node"
       \/ pc[t] \in {"node", "endWait"} /\ node'[t] = node[t]
  /\ pc'[t] = "endWait" => node'[t] = End(t) \/ pc[t] = "endWait"
  /\ PhaseOf(pc'[t]) \in {"decide", "reset"} => PhaseOf(pc[t]) \in {"decide", "reset"}
  /\ UNCHANGED node_wt /\ SameLocals(t)
  /\ changed' = changed \/ pc[t] = "reset"

\* The next node is passed over or entered.
Look(t) ==
  /\ pc[t] = "node" /\ node[t] < End(t)
  /\ \E v \in Loads(t, node[t]) :
       \/ /\ v = INF \/ Row(node[t]) = {}
          /\ node' = [node EXCEPT ![t] = @ + 1]
          /\ UNCHANGED <<pc, edge>>
       \/ /\ v # INF /\ Row(node[t]) # {}
          /\ edge' = [edge EXCEPT ![t] = row_start[node[t]]]
          /\ pc' = [pc EXCEPT ![t] = "relax"]
          /\ UNCHANGED node
          /\ program \in PlainPrograms => register'[t] = v
  /\ NoStore

\* The distance over the edge is loaded.
Extend(t) ==
  /\ pc[t] \in {"relax", "readTail"}
  /\ \E l \in {"loadPrev", "readHead", "lockRead"} : Goto(t, l)
  /\ \E v \in Loads(t, node[t]) \cup Kept(t) :
       /\ distance'[t] = v + edge_wt[edge[t]]
       /\ program \in PlainPrograms => register'[t] = v
  /\ NoStore

\* It is lower than the distance of the edge's head, or not.
Higher(t) ==
  /\ pc[t] \in HasDistance \ HasStored
  /\ \E l \in IsLower : Goto(t, l)
  /\ \E v \in Loads(t, dest(t)) : v > distance[t]
  /\ NoStore /\ SameLocals(t)
Pass(t) ==
  /\ pc[t] \in HasDistance \ HasStored
  /\ NextEdge(t)
  /\ \E v \in Loads(t, dest(t)) : v <= distance[t]
  /\ NoStore /\ SameLocals(t)

\* A step of the body that neither loads a distance nor ends.
Shift(t) ==
  \E l \in BodyLabel \ HasStored :
    /\ pc[t] \in BodyLabel \ HasStored
    /\ Goto(t, l)
    /\ l \in HasDistance => pc[t] \in HasDistance
    /\ l \in IsLower => pc[t] \in IsLower
    /\ NoStore /\ SameLocals(t)

\* The lower distance is stored.
Store(t) ==
  /\ \/ pc[t] = "exchange" /\ Goto(t, "verify") /\ program \in ExchangePrograms
     \/ pc[t] = "write" /\ Goto(t, "flag") /\ program \notin ExchangePrograms
  /\ node_wt' = [node_wt EXCEPT ![dest(t)] = distance[t]]
  /\ distance'[t] = distance[t]
  /\ program \in PlainPrograms =>
       register'[t] = IF dest(t) = node[t] THEN distance[t] ELSE register[t]
  /\ UNCHANGED changed

\* The store is announced, or has been overwritten.
Confirm(t) ==
  /\ pc[t] \in HasStored
  /\ NextEdge(t)
  /\ changed' = TRUE
  /\ UNCHANGED node_wt /\ SameLocals(t)
Retry(t) ==
  /\ pc[t] = "verify" /\ program \in ExchangePrograms
  /\ Goto(t, "relax")
  /\ \E v \in Loads(t, dest(t)) : v # distance[t]
  /\ NoStore /\ SameLocals(t)

BodyKind(t) ==
  Extend(t) \/ Higher(t) \/ Pass(t) \/ Shift(t) \/ Store(t) \/ Confirm(t) \/ Retry(t)

\* What the step leaves in the memory of sssp_relaxed.
Memory(t) ==
  /\ \A u \in Thread \ {t} : seen'[u] = seen[u]
  /\ ~(program = "sssp_relaxed" /\ Store(t)) => UNCHANGED older
  /\ program = "sssp_relaxed" /\ Store(t) =>
       /\ older' = [older EXCEPT ![dest(t)] = Stores(dest(t))]
       /\ seen'[t][dest(t)] = Len(Stores(dest(t))) + 1

Kind(t) ==
  \/ Release
  \/ OthersSame(t) /\ Memory(t) /\ (Fill(t) \/ Turn(t) \/ Look(t) \/ BodyKind(t))

-----------------------------------------------------------------------------
(***************************************************************************)
(* Facts about the state.                                                  *)
(***************************************************************************)
LEMMA Labels ==
  /\ ControlLabel \cup {"relax"} \subseteq Label
  /\ Label \ ControlLabel = BodyLabel
  /\ BodyLabel \cap ControlLabel = {}
BY DEF Label, ControlLabel, BodyLabel

\* The node in hand is in the thread's slice, and the edge in hand leads from
\* it to a node.
LEMMA NodeInHand ==
  ASSUME TypeOK, NEW t \in Thread, node[t] < End(t)
  PROVE  node[t] \in Node /\ node[t] \in Start(t) .. End(t) - 1
BY ThreadSlice, CSRAssumption DEF TypeOK, ScanTypeOK, Node

LEMMA EdgeInHand ==
  ASSUME TypeOK, Loops, NEW t \in Thread, InBody(t)
  PROVE  /\ node[t] \in Node
         /\ node[t] \in Start(t) .. End(t) - 1
         /\ edge[t] \in Row(node[t])
         /\ edge[t] \in Edge
         /\ dest(t) \in Node
         /\ edge_wt[edge[t]] \in Int
<1>1. node[t] < End(t) /\ edge[t] \in Row(node[t])
  BY DEF Loops
<1>2. node[t] \in Node /\ node[t] \in Start(t) .. End(t) - 1
  BY <1>1, NodeInHand
<1>3. edge[t] \in Edge
  BY <1>1, <1>2, RowIsEdges
<1>. QED
  BY <1>1, <1>2, <1>3, CSRAssumption DEF dest

\* The stores to a node that are remembered, with the value it has.
LEMMA StoresAre ==
  ASSUME TypeOK, NEW n \in Node
  PROVE  /\ Stores(n) \in Seq(Weight)
         /\ Len(older[n]) \in Nat
         /\ Len(Stores(n)) = Len(older[n]) + 1
         /\ Stores(n)[Len(older[n]) + 1] = node_wt[n]
         /\ \A k \in 1 .. Len(older[n]) : Stores(n)[k] = older[n][k]
<1>1. older[n] \in Seq(Weight) /\ node_wt[n] \in Weight
  BY DEF TypeOK, ScanTypeOK, MemoryTypeOK
<1>. QED
  BY <1>1, AppendProperties, LenProperties DEF Stores

\* A load returns the value of the node, or one it had since the last barrier.
LEMMA LoadsAre ==
  ASSUME TypeOK, NEW t \in Thread, NEW n \in Node, NEW v \in Loads(t, n)
  PROVE  /\ v \in Weight
         /\ v = node_wt[n] \/ \E k \in 1 .. Len(older[n]) : v = older[n][k]
<1>1. CASE program # "sssp_relaxed"
  BY <1>1 DEF Loads, TypeOK, ScanTypeOK
<1>2. CASE program = "sssp_relaxed"
  <2>1. PICK k \in Visible(t, n) : v = Stores(n)[k]
    BY <1>2 DEF Loads
  <2>2. k \in 1 .. Len(older[n]) + 1
    <3>1. seen[t][n] \in Nat \ {0}
      BY DEF TypeOK, MemoryTypeOK
    <3>. QED
      BY <2>1, <3>1, StoresAre DEF Visible
  <2>3. v \in Weight
    BY <2>1, <2>2, StoresAre, ElementOfSeq
  <2>4. CASE k = Len(older[n]) + 1
    BY <2>1, <2>3, <2>4, StoresAre
  <2>5. CASE k # Len(older[n]) + 1
    <3>1. k \in 1 .. Len(older[n])
      BY <2>2, <2>5, StoresAre
    <3>. QED
      BY <2>1, <2>3, <3>1, StoresAre
  <2>. QED
    BY <2>4, <2>5
<1>. QED
  BY <1>1, <1>2

\* Without older values a load returns the value of the node.
LEMMA LoadsFresh ==
  ASSUME TypeOK, NEW t \in Thread, NEW n \in Node, older[n] = <<>>, NEW v \in Loads(t, n)
  PROVE  v = node_wt[n]
<1>1. Len(older[n]) = 0
  OBVIOUS
<1>. QED
  BY <1>1, LoadsAre

\* No node is in the slices of two threads.
LEMMA OwnSlice ==
  ASSUME NEW t \in Thread, NEW u \in Thread, NEW n \in Node,
         n \in Start(t) .. End(t) - 1, n \in Start(u) .. End(u) - 1
  PROVE  t = u
<1>. SUFFICES ASSUME t # u PROVE FALSE
  OBVIOUS
<1>1. /\ num_nodes \in Nat /\ threadNum \in Nat /\ threadNum > 0
      /\ t \in 0 .. threadNum - 1 /\ u \in 0 .. threadNum - 1
  BY CSRAssumption, ThreadAssumption DEF Thread
<1>2. /\ n \in Int /\ Start(t) \in Int /\ End(t) \in Int /\ Start(u) \in Int /\ End(u) \in Int
  BY ThreadSlice DEF Node
<1>3. CASE t < u
  BY <1>1, <1>2, <1>3, SliceDisjoint DEF Start, End
<1>4. CASE u < t
  BY <1>1, <1>2, <1>4, SliceDisjoint DEF Start, End
<1>5. t < u \/ u < t
  BY <1>1
<1>. QED
  BY <1>3, <1>4, <1>5

\* Whoever is past the initialisation has the nodes of its slice initialised.
LEMMA ReadyOwn ==
  ASSUME NEW t \in Thread, NEW n \in Node, n \in Start(t) .. End(t) - 1, pc[t] # "init"
  PROVE  Ready(n)
BY OwnSlice DEF Ready

\* The distances and the initial distances.
LEMMA DistFacts ==
  /\ INF \in Nat \ {0} /\ src \in Node /\ Dist[src] = 0
  /\ \A n \in Node : Dist[n] \in Int /\ Dist[n] <= INF /\ Dist[n] <= InitDist(n)
<1>1. INF \in Nat \ {0} /\ src \in Node
  BY CSRAssumption DEF src, Node
<1>2. Dist[src] = 0
  BY NoNegativeCycle
<1>3. \A n \in Node : Dist[n] \in Int /\ Dist[n] <= INF
  BY DistType DEF Weight
<1>. QED
  BY <1>1, <1>2, <1>3 DEF InitDist

-----------------------------------------------------------------------------
(***************************************************************************)
(* Every step is of one of the kinds.                                      *)
(***************************************************************************)

\* What the steps outside the body leave alone.
LEMMA OutsideIsSame ==
  ASSUME TypeOK, NEW t \in Thread, ControlStep(t),
         pc[t] # "node" \/ pc'[t] # "relax"
  PROVE  UNCHANGED <<distance, register, program>>
<1>1. UNCHANGED <<distance, program>>
  BY DEF ControlStep, OutsideBody, exchangeVars
<1>2. register \in [Thread -> Weight]
  BY DEF TypeOK, LocalTypeOK
<1>3. register' = register
  BY <1>2 DEF ControlStep, OutsideBody, LoadRegister
<1>. QED
  BY <1>1, <1>3

\* Only the release of the barrier touches the memory.
LEMMA ControlMemory ==
  ASSUME NEW t \in Thread, ControlStep(t), ~(BarrierWait(t) /\ waiting \cup {t} = Thread)
  PROVE  UNCHANGED memoryVars
<1>1. CASE pc[t] \in DOMAIN AfterWait
  <2>1. BarrierWait(t)
    BY <1>1, WaitLabels DEF ControlStep, Control, InitNode, EndInit, SkipNode, EnterNode,
       EndSlice, FirstRound, NextRound, TestChanged, ResetChanged
  <2>. QED
    BY <2>1 DEF ControlStep
<1>2. CASE pc[t] \notin DOMAIN AfterWait
  BY <1>2 DEF ControlStep
<1>. QED
  BY <1>1, <1>2

\* So they store nothing.
LEMMA ControlIsQuiet ==
  ASSUME NEW t \in Thread, ControlStep(t)
  PROVE  /\ pc[t] \in ControlLabel
         /\ UNCHANGED memoryVars => Memory(t)
<1>1. pc[t] \in ControlLabel
  BY WaitLabels DEF ControlStep, Control, InitNode, EndInit, SkipNode, EnterNode, EndSlice,
     FirstRound, NextRound, TestChanged, ResetChanged, BarrierWait, ControlLabel
<1>2. ~Store(t)
  BY <1>1 DEF Store, ControlLabel
<1>. QED
  BY <1>1, <1>2 DEF Memory, memoryVars

LEMMA WaitKind ==
  ASSUME TypeOK, Loops, NEW t \in Thread, ControlStep(t), BarrierWait(t)
  PROVE  Kind(t) /\ (Release \/ UNCHANGED pc)
<1>. USE DEF TypeOK, ScanTypeOK
<1>0. pc[t] # "node"
  BY WaitLabels DEF BarrierWait
<1>1. UNCHANGED <<distance, register, program, node_wt, changed, node, edge>>
  BY <1>0, OutsideIsSame DEF BarrierWait
<1>2. CASE waiting \cup {t} = Thread
  <2>1. \A u \in Thread : pc[u] \in {"initWait", "endWait", "resetWait", "againWait"}
    BY <1>2, WaitLabels DEF BarrierWait, Loops
  <2>2. \A u \in Thread : /\ pc'[u] \in {"loop", "test", "reset", "again"}
                          /\ pc'[u] = "test" => pc[u] = "endWait"
                          /\ pc'[u] = "again" => pc[u] = "againWait"
    BY <1>2, <2>1, WaitLabels DEF BarrierWait
  <2>3. \A n \in Node : older'[n] = <<>>
    <3>1. Synchronise
      BY <1>2 DEF ControlStep, BarrierWait
    <3>. QED
      BY <3>1 DEF Synchronise, Fresh
  <2>. QED
    BY <1>1, <2>1, <2>2, <2>3 DEF Kind, Release
<1>3. CASE waiting \cup {t} # Thread
  <2>1. UNCHANGED pc /\ Memory(t)
    BY <1>3, ControlMemory, ControlIsQuiet DEF BarrierWait
  <2>2. pc[t] \in {"initWait", "endWait", "resetWait", "againWait"}
    BY WaitLabels DEF BarrierWait
  <2>. QED
    BY <1>1, <2>1, <2>2 DEF Kind, Turn, OthersSame, SameLocals, ControlLabel
<1>. QED
  BY <1>2, <1>3

LEMMA ControlKind ==
  ASSUME TypeOK, Loops, NEW t \in Thread, ControlStep(t)
  PROVE  Kind(t)
<1>. USE DEF TypeOK, ScanTypeOK
<1>0. CASE BarrierWait(t)
  BY <1>0, WaitKind
<1>1. CASE ~BarrierWait(t)
  <2>0. Memory(t) /\ UNCHANGED distance
    BY <1>1, ControlMemory, ControlIsQuiet DEF ControlStep, OutsideBody, exchangeVars
  <2>t. /\ node[t] \in Start(t) .. End(t) /\ End(t) \in Int /\ Start(t) \in Int
    BY ThreadSlice
  <2>1. CASE InitNode(t)
    <3>1. UNCHANGED register
      BY <2>1, OutsideIsSame DEF InitNode
    <3>. QED
      BY <2>0, <2>1, <3>1 DEF Kind, Fill, OthersSame, InitNode
  <2>2. CASE EndInit(t, AfterInit)
    <3>1. UNCHANGED register /\ pc'[t] \in {"loop", "initWait"}
      BY <2>2, OutsideIsSame DEF EndInit, AfterInit
    <3>. QED
      BY <2>0, <2>2, <3>1
         DEF Kind, Turn, OthersSame, SameLocals, EndInit, ControlLabel, PhaseOf
  <2>3. CASE SkipNode(t) \/ EnterNode(t)
    <3>1. program # "sssp_relaxed"
      BY <2>t, <2>3 DEF ControlStep, SkipNode, EnterNode
    <3>2. node_wt[node[t]] \in Loads(t, node[t])
      BY <3>1 DEF Loads
    <3>3. NoStore /\ OthersSame(t)
      <4>1. \A u \in Thread \ {t} : register'[u] = register[u]
        BY DEF ControlStep, OutsideBody, LoadRegister, LocalTypeOK
      <4>. QED
        BY <2>0, <2>3, <4>1 DEF NoStore, OthersSame, SkipNode, EnterNode
    <3>4. CASE SkipNode(t)
      BY <2>0, <3>2, <3>3, <3>4 DEF Kind, Look, SkipNode
    <3>5. CASE EnterNode(t)
      <4>1. program \in PlainPrograms => register'[t] = node_wt[node[t]]
        BY <3>5 DEF EnterNode, ControlStep, OutsideBody, LoadRegister, LocalTypeOK
      <4>. QED
        BY <2>0, <3>2, <3>3, <3>5, <4>1 DEF Kind, Look, EnterNode
    <3>. QED
      BY <2>3, <3>4, <3>5
  <2>4. CASE EndSlice(t, "endWait")
    <3>1. UNCHANGED register
      BY <2>4, OutsideIsSame DEF EndSlice
    <3>. QED
      BY <2>0, <2>t, <2>4, <3>1
         DEF Kind, Turn, OthersSame, SameLocals, EndSlice, ControlLabel, PhaseOf
  <2>5. CASE FirstRound(t, Writers) \/ NextRound(t, Writers)
    <3>1. UNCHANGED register /\ pc[t] \in {"loop", "again"}
      BY <2>5, OutsideIsSame DEF FirstRound, NextRound
    <3>2. /\ UNCHANGED <<node_wt, changed, edge>>
          /\ \/ pc' = [pc EXCEPT ![t] = "node"] /\ node' = [node EXCEPT ![t] = Start(t)]
             \/ pc' = [pc EXCEPT ![t] = "done"] /\ UNCHANGED node
      BY <2>5 DEF FirstRound, NextRound, RoundTest, Leave
    <3>. QED
      BY <2>0, <3>1, <3>2 DEF Kind, Turn, OthersSame, SameLocals, ControlLabel, PhaseOf
  <2>6. CASE TestChanged(t, Writers) \/ ResetChanged(t)
    <3>1. UNCHANGED register
      BY <2>6, OutsideIsSame DEF TestChanged, ResetChanged
    <3>2. /\ UNCHANGED <<node_wt, node, edge>>
          /\ pc[t] \in {"test", "reset"} /\ (changed' = changed \/ pc[t] = "reset")
          /\ \E l \in {"resetWait", "done", "againWait"} : pc' = [pc EXCEPT ![t] = l]
      BY <2>6 DEF TestChanged, ResetChanged, Leave
    <3>. QED
      BY <2>0, <3>1, <3>2 DEF Kind, Turn, OthersSame, SameLocals, ControlLabel, PhaseOf
  <2>. QED
    BY <1>1, <2>1, <2>2, <2>3, <2>4, <2>5, <2>6 DEF ControlStep, Control
<1>. QED
  BY <1>0, <1>1

LEMMA BodyStepKind ==
  ASSUME NEW labels, ScanTypeOK(labels), LocalTypeOK, NEW t \in Thread,
         pc[t] \in BodyLabel => dest(t) \in Node /\ node[t] \in Node, BodyStep(t)
  PROVE  /\ BodyKind(t) /\ OthersSame(t)
         /\ program' = program /\ program \in AtomicPrograms \cup PlainPrograms
<1>. USE DEF ScanTypeOK, LocalTypeOK, BodyKind, NoStore, SameLocals, Goto, At
<1>n. pc[t] \in BodyLabel => dest(t) \in Node /\ node[t] \in Node
  OBVIOUS
<1>m. program' = program /\ program \in AtomicPrograms \cup PlainPrograms
  BY DEF BodyStep
<1>. SUFFICES BodyKind(t) /\ OthersSame(t)
  BY <1>m
<1>1. CASE program \in AtomicPrograms /\ RelaxStep(t) /\ UNCHANGED register
  <2>. USE DEF exchangeVars
  <2>p. program # "sssp_relaxed" /\ program \notin PlainPrograms /\ program \in ExchangePrograms
    BY <1>1 DEF AtomicPrograms, PlainPrograms, ExchangePrograms
  <2>l. \A n \in Node : Loads(t, n) = {node_wt[n]}
    BY <2>p DEF Loads
  <2>1. CASE LoadDistance(t)
    <3>1. node[t] \in Node
      BY <2>1, <1>n DEF LoadDistance, BodyLabel
    <3>2. node_wt[node[t]] \in Loads(t, node[t])
      BY <3>1, <2>l
    <3>. QED
      BY <1>1, <1>m, <2>1, <2>p, <3>2 DEF LoadDistance, Extend, OthersSame, Through
  <2>2. CASE LoadPrev(t) \/ Pred1(t)
    BY <1>1, <1>m, <2>2 DEF LoadPrev, Pred1, Shift, OthersSame, BodyLabel, HasDistance,
       HasStored, IsLower
  <2>3. CASE Pred2(t)
    <3>1. dest(t) \in Node /\ pc[t] = "pred2"
      BY <2>3, <1>n DEF Pred2, BodyLabel
    <3>2. node_wt[dest(t)] \in Loads(t, dest(t)) /\ node_wt[dest(t)] \in Int
      BY <3>1, <2>l DEF Weight
    <3>3. distance[t] \in Int
      OBVIOUS
    <3>4. CASE At(t, "pred2", "relax")
      BY <1>1, <1>m, <2>3, <3>4 DEF Pred2, Shift, OthersSame, BodyLabel, HasDistance,
         HasStored, IsLower
    <3>5. CASE prev_distance[t] = node_wt[dest(t)] /\ prev_distance[t] > distance[t]
               /\ At(t, "pred2", "exchange")
      BY <1>1, <1>m, <2>3, <3>2, <3>5 DEF Pred2, Higher, OthersSame, BodyLabel,
         HasDistance, HasStored, IsLower
    <3>6. CASE prev_distance[t] = node_wt[dest(t)] /\ ~(prev_distance[t] > distance[t])
               /\ NextEdge(t)
      <4>1. node_wt[dest(t)] <= distance[t]
        BY <3>2, <3>3, <3>6
      <4>2. OthersSame(t)
        BY <1>1, <1>m, <2>3, <3>6 DEF Pred2, NextEdge, OthersSame
      <4>. QED
        BY <1>1, <1>m, <2>3, <3>1, <3>2, <3>6, <4>1, <4>2 DEF Pred2, Pass, BodyLabel,
           HasDistance, HasStored
    <3>. QED
      BY <2>3, <3>4, <3>5, <3>6 DEF Pred2
  <2>4. CASE Exchange(t)
    BY <1>1, <1>m, <2>4, <2>p DEF Exchange, Store, OthersSame
  <2>5. CASE Verify(t)
    <3>1. dest(t) \in Node /\ pc[t] = "verify"
      BY <2>5, <1>n DEF Verify, BodyLabel
    <3>2. node_wt[dest(t)] \in Loads(t, dest(t))
      BY <3>1, <2>l
    <3>. QED
      BY <1>1, <1>m, <2>5, <2>p, <3>1, <3>2
         DEF Verify, Confirm, Retry, NextEdge, OthersSame, HasStored
  <2>. QED
    BY <1>1, <2>1, <2>2, <2>3, <2>4, <2>5 DEF RelaxStep
<1>2. CASE program \in PlainPrograms /\ PlainStep(t) /\ UNCHANGED <<prev_distance, pred_1>>
  <2>. USE DEF plainVars
  <2>p. program # "sssp_relaxed" /\ program \notin ExchangePrograms
    BY <1>2 DEF AtomicPrograms, PlainPrograms, ExchangePrograms
  <2>l. \A n \in Node : Loads(t, n) = {node_wt[n]}
    BY <2>p DEF Loads
  <2>1. CASE ReadTail(t)
    <3>1. node[t] \in Node
      BY <2>1, <1>n DEF ReadTail, BodyLabel
    <3>2. {register[t], node_wt[node[t]]} = Loads(t, node[t]) \cup Kept(t)
      BY <1>2, <3>1, <2>l DEF Kept
    <3>3. OthersSame(t)
      BY <1>m, <2>1 DEF ReadTail, OthersSame
    <3>4. \E v \in Loads(t, node[t]) \cup Kept(t) :
            distance'[t] = v + edge_wt[edge[t]] /\ register'[t] = v
      BY <2>1, <3>2 DEF ReadTail
    <3>. QED
      BY <1>m, <2>1, <3>3, <3>4 DEF ReadTail, Extend
  <2>2. CASE ReadHead(t)
    <3>1. dest(t) \in Node
      BY <2>2, <1>n DEF ReadHead, BodyLabel
    <3>2. node_wt[dest(t)] \in Loads(t, dest(t))
      BY <3>1, <2>l
    <3>. QED
      BY <1>m, <2>2, <3>2 DEF ReadHead, Higher, Pass, NextEdge, OthersSame, BodyLabel,
         HasDistance, HasStored, IsLower
  <2>3. CASE Write(t)
    BY <1>m, <2>3, <2>p DEF Write, Store, OthersSame
  <2>4. CASE SetChanged(t)
    BY <1>m, <2>4 DEF SetChanged, Confirm, NextEdge, OthersSame, HasStored
  <2>. QED
    BY <1>2, <2>1, <2>2, <2>3, <2>4 DEF PlainStep
<1>. QED
  BY <1>1, <1>2 DEF BodyStep

LEMMA LockStepKind ==
  ASSUME TypeOK, Loops, NEW t \in Thread, program = "sssp_nodelock", LockStep(t),
         UNCHANGED register
  PROVE  BodyKind(t) /\ OthersSame(t)
<1>. USE DEF TypeOK, ScanTypeOK, LocalTypeOK, BodyKind, NoStore, SameLocals, Goto, exchangeVars
<1>n. pc[t] \in BodyLabel => dest(t) \in Node /\ node[t] \in Node
  BY Labels, EdgeInHand DEF InBody
<1>p. program # "sssp_relaxed" /\ program \notin PlainPrograms /\ program \notin ExchangePrograms
  BY DEF AtomicPrograms, PlainPrograms, ExchangePrograms
<1>l. \A n \in Node : Loads(t, n) = {node_wt[n]}
  BY <1>p DEF Loads
<1>1. CASE LockHead(t) \/ LockBoth(t)
  BY <1>1 DEF LockHead, LockBoth, Shift, OthersSame, BodyLabel, HasDistance,
     HasStored, IsLower
<1>2. CASE ReadTailLocked(t)
  <2>1. node[t] \in Node
    BY <1>2, <1>n DEF ReadTailLocked, BodyLabel
  <2>2. node_wt[node[t]] \in Loads(t, node[t])
    BY <2>1, <1>l
  <2>. QED
    BY <1>2, <1>p, <2>2 DEF ReadTailLocked, Extend, OthersSame, Through
<1>3. CASE ReadHeadLocked(t)
  <2>1. dest(t) \in Node
    BY <1>3, <1>n DEF ReadHeadLocked, BodyLabel
  <2>2. node_wt[dest(t)] \in Loads(t, dest(t)) /\ prev_distance'[t] = node_wt[dest(t)]
    BY <1>3, <2>1, <1>l DEF ReadHeadLocked
  <2>. QED
    BY <1>3, <2>2 DEF ReadHeadLocked, Higher, Pass, NextEdge, OthersSame, BodyLabel,
       HasDistance, HasStored, IsLower
<1>4. CASE WriteLocked(t)
  BY <1>4, <1>p DEF WriteLocked, Store, OthersSame
<1>5. CASE Announce(t)
  BY <1>5 DEF Announce, Confirm, NextEdge, OthersSame, HasStored
<1>. QED
  BY <1>1, <1>2, <1>3, <1>4, <1>5 DEF LockStep

LEMMA RelaxedStepKind ==
  ASSUME TypeOK, Loops, NEW t \in Thread, program = "sssp_relaxed", RelaxedStep(t),
         UNCHANGED register
  PROVE  (Look(t) \/ BodyKind(t)) /\ OthersSame(t)
<1>. USE DEF TypeOK, ScanTypeOK, LocalTypeOK, MemoryTypeOK, BodyKind, NoStore, SameLocals,
     Goto, At, Sees, exchangeVars
<1>n. pc[t] \in BodyLabel => dest(t) \in Node /\ node[t] \in Node
  BY Labels, EdgeInHand DEF InBody
<1>p. program \notin PlainPrograms /\ program \in ExchangePrograms
  BY DEF AtomicPrograms, PlainPrograms, ExchangePrograms
<1>l. \A n : Loads(t, n) = { Stores(n)[k] : k \in Visible(t, n) }
  BY DEF Loads
<1>1. CASE RelaxedNode(t)
  <2>1. PICK k \in Visible(t, node[t]) :
          LET skip == Stores(node[t])[k] = INF \/ Row(node[t]) = {}
          IN  /\ Sees(t, node[t], k)
              /\ \/ skip /\ node' = [node EXCEPT ![t] = @ + 1] /\ UNCHANGED <<pc, edge>>
                 \/ /\ ~skip
                    /\ edge' = [edge EXCEPT ![t] = row_start[node[t]]]
                    /\ pc' = [pc EXCEPT ![t] = "relax"]
                    /\ UNCHANGED node
    BY <1>1 DEF RelaxedNode
  <2>2. Stores(node[t])[k] \in Loads(t, node[t])
    BY <2>1, <1>l
  <2>3. OthersSame(t) /\ NoStore
    BY <1>1, <2>1 DEF RelaxedNode, OthersSame
  <2>4. Look(t)
    BY <1>1, <1>p, <2>1, <2>2, <2>3 DEF RelaxedNode, Look
  <2>. QED
    BY <2>3, <2>4
<1>2. CASE RelaxedDistance(t)
  <2>1. PICK k \in Visible(t, node[t]) :
          /\ Sees(t, node[t], k)
          /\ distance' = [distance EXCEPT ![t] = Stores(node[t])[k] + edge_wt[edge[t]]]
    BY <1>2 DEF RelaxedDistance
  <2>2. Stores(node[t])[k] \in Loads(t, node[t])
    BY <2>1, <1>l
  <2>. QED
    BY <1>2, <1>p, <2>1, <2>2 DEF RelaxedDistance, Extend, OthersSame
<1>3. CASE RelaxedPrev(t) \/ RelaxedPred1(t)
  BY <1>3 DEF RelaxedPrev, RelaxedPred1, Shift, OthersSame, BodyLabel, HasDistance,
     HasStored, IsLower
<1>4. CASE RelaxedPred2(t)
  <2>1. PICK k \in Visible(t, dest(t)) :
          LET same  == pred_1[t] /\ prev_distance[t] = Stores(dest(t))[k]
              lower == prev_distance[t] > distance[t]
          IN  /\ Sees(t, dest(t), k)
              /\ \/ ~same /\ At(t, "pred2", "relax")
                 \/ same /\ lower /\ At(t, "pred2", "exchange")
                 \/ same /\ ~lower /\ NextEdge(t)
    BY <1>4 DEF RelaxedPred2
  <2>2. Stores(dest(t))[k] \in Loads(t, dest(t)) /\ dest(t) \in Node /\ pc[t] = "pred2"
    BY <1>4, <2>1, <1>l, <1>n DEF RelaxedPred2, BodyLabel
  <2>3. Stores(dest(t))[k] \in Int /\ distance[t] \in Int
    BY <2>2, LoadsAre DEF Weight
  <2>4. NoStore /\ SameLocals(t)
    BY <1>4 DEF RelaxedPred2
  <2>5. CASE At(t, "pred2", "relax")
    BY <1>4, <2>4, <2>5 DEF RelaxedPred2, Shift, OthersSame, BodyLabel, HasDistance,
       HasStored, IsLower
  <2>6. CASE prev_distance[t] = Stores(dest(t))[k] /\ prev_distance[t] > distance[t]
             /\ At(t, "pred2", "exchange")
    BY <1>4, <2>2, <2>4, <2>6 DEF RelaxedPred2, Higher, OthersSame, BodyLabel,
       HasDistance, HasStored, IsLower
  <2>7. CASE prev_distance[t] = Stores(dest(t))[k] /\ ~(prev_distance[t] > distance[t])
             /\ NextEdge(t)
    <3>1. Stores(dest(t))[k] <= distance[t]
      BY <2>3, <2>7
    <3>2. OthersSame(t)
      BY <1>4, <2>4, <2>7 DEF RelaxedPred2, NextEdge, OthersSame
    <3>. QED
      BY <2>2, <2>4, <2>7, <3>1, <3>2 DEF Pass, BodyLabel, HasDistance, HasStored
  <2>. QED
    BY <2>1, <2>5, <2>6, <2>7
<1>5. CASE RelaxedStore(t)
  <2>1. dest(t) \in Node
    BY <1>5, <1>n DEF RelaxedStore, BodyLabel
  <2>. QED
    BY <1>5, <1>p, <2>1 DEF RelaxedStore, Store, OthersSame
<1>6. CASE RelaxedVerify(t)
  <2>1. PICK k \in Visible(t, dest(t)) :
          LET mine == Stores(dest(t))[k] = distance[t]
          IN  /\ Sees(t, dest(t), k)
              /\ \/ mine /\ changed' = TRUE /\ NextEdge(t)
                 \/ ~mine /\ At(t, "verify", "relax") /\ UNCHANGED changed
    BY <1>6 DEF RelaxedVerify
  <2>2. Stores(dest(t))[k] \in Loads(t, dest(t))
    BY <2>1, <1>l
  <2>3. OthersSame(t)
    BY <1>6, <2>1 DEF RelaxedVerify, NextEdge, OthersSame
  <2>. QED
    BY <1>6, <1>p, <2>1, <2>2, <2>3 DEF RelaxedVerify, Confirm, Retry, HasStored
<1>. QED
  BY <1>1, <1>2, <1>3, <1>4, <1>5, <1>6 DEF RelaxedStep

LEMMA RelaxedMemory ==
  ASSUME TypeOK, Loops, NEW t \in Thread, program = "sssp_relaxed", RelaxedStep(t)
  PROVE  Memory(t)
<1>. USE DEF TypeOK, MemoryTypeOK, Sees
<1>1. CASE RelaxedStore(t)
  <2>1. pc[t] = "exchange" /\ dest(t) \in Node
    BY <1>1, Labels, EdgeInHand DEF RelaxedStore, At, InBody, BodyLabel
  <2>2. /\ seen'[t][dest(t)] = Len(Stores(dest(t))) + 1
        /\ \A u \in Thread \ {t} : seen'[u] = seen[u]
    BY <1>1, <2>1 DEF RelaxedStore
  <2>3. older' = [older EXCEPT ![dest(t)] = Stores(dest(t))]
    BY <1>1 DEF RelaxedStore
  <2>4. Store(t)
    BY <1>1, <2>1 DEF RelaxedStore, Store, At, Goto, ExchangePrograms, exchangeVars, PlainPrograms
  <2>. QED
    BY <2>2, <2>3, <2>4 DEF Memory
<1>2. CASE ~RelaxedStore(t)
  <2>1. pc[t] \notin {"exchange", "write"}
    BY <1>2 DEF RelaxedStep, RelaxedNode, RelaxedDistance, RelaxedPrev, RelaxedPred1,
       RelaxedPred2, RelaxedVerify, At
  <2>2. UNCHANGED older /\ \A u \in Thread \ {t} : seen'[u] = seen[u]
    BY <1>2 DEF RelaxedStep, RelaxedNode, RelaxedDistance, RelaxedPrev, RelaxedPred1,
       RelaxedPred2, RelaxedVerify
  <2>. QED
    BY <2>1, <2>2 DEF Memory, Store
<1>. QED
  BY <1>1, <1>2

\* The kind of a step, and what the steps of the bodies leave alone.
LEMMA StepKind ==
  ASSUME TypeOK, Loops, NEW t \in Thread, ThreadStep(t)
  PROVE  /\ program' = program
         /\ Kind(t)
         /\ \/ ControlStep(t)
            \/ (Look(t) \/ BodyKind(t)) /\ UNCHANGED roundVars
<1>1. CASE ControlStep(t)
  <2>1. program' = program
    BY <1>1 DEF ControlStep, OutsideBody
  <2>. QED
    BY <1>1, <2>1, ControlKind
<1>2. CASE BodyStep(t) /\ UNCHANGED <<roundVars, mutexVars, memoryVars>>
  <2>1. pc[t] \in BodyLabel => dest(t) \in Node /\ node[t] \in Node
    BY Labels, EdgeInHand DEF InBody
  <2>2. BodyKind(t) /\ OthersSame(t) /\ program' = program /\ program # "sssp_relaxed"
    BY <1>2, <2>1, BodyStepKind DEF TypeOK, AtomicPrograms, PlainPrograms
  <2>3. Memory(t)
    BY <1>2, <2>2 DEF Memory, memoryVars
  <2>. QED
    BY <1>2, <2>2, <2>3 DEF Kind, roundVars
<1>3. CASE program = "sssp_nodelock" /\ LockStep(t)
           /\ UNCHANGED <<roundVars, register, program, memoryVars>>
  <2>1. Memory(t)
    BY <1>3 DEF Memory, memoryVars
  <2>. QED
    BY <1>3, <2>1, LockStepKind DEF Kind, roundVars
<1>4. CASE program = "sssp_relaxed" /\ RelaxedStep(t)
           /\ UNCHANGED <<roundVars, register, program, mutexVars>>
  BY <1>4, RelaxedStepKind, RelaxedMemory DEF Kind, roundVars
<1>. QED
  BY <1>1, <1>2, <1>3, <1>4 DEF ThreadStep

-----------------------------------------------------------------------------
(***************************************************************************)
(* Types, loops, phases.                                                   *)
(***************************************************************************)

\* The steps of the bodies move in the loops as the round control allows.
LEMMA KindMove ==
  ASSUME TypeOK, NEW t \in Thread, BodyKind(t), UNCHANGED roundVars
  PROVE  BodyMove(t, Label)
<1>. USE DEF BodyMove, InBody, Goto, NoStore
<1>l. \A l \in BodyLabel : l \in Label \ ControlLabel /\ l \notin ControlLabel
  BY Labels
<1>1. CASE Extend(t)
  BY <1>1, <1>l DEF Extend, BodyLabel
<1>2. CASE Higher(t)
  BY <1>2, <1>l DEF Higher, HasDistance, IsLower, BodyLabel
<1>3. CASE Pass(t)
  BY <1>3, <1>l DEF Pass, HasDistance
<1>4. CASE Shift(t)
  BY <1>4, <1>l DEF Shift
<1>5. CASE Store(t)
  BY <1>5, <1>l DEF Store, BodyLabel
<1>6. CASE Confirm(t)
  BY <1>6, <1>l DEF Confirm, HasStored, BodyLabel
<1>7. CASE Retry(t)
  BY <1>7, <1>l DEF Retry, BodyLabel
<1>. QED
  BY <1>1, <1>2, <1>3, <1>4, <1>5, <1>6, <1>7 DEF BodyKind

\* A thread that stores is in the body of the loop.
LEMMA StoreInBody ==
  ASSUME TypeOK, Loops, Storable, NEW t \in Thread, Store(t)
  PROVE  /\ InBody(t) /\ pc[t] \in HasDistance /\ pc[t] \in IsLower
         /\ dest(t) \in Node \ {src} /\ node[t] \in Node
         /\ distance[t] \in Weight
<1>1. pc[t] \in {"exchange", "write"}
  BY DEF Store
<1>2. InBody(t) /\ pc[t] \in HasDistance /\ pc[t] \in IsLower
  BY <1>1, Labels DEF InBody, HasDistance, IsLower, BodyLabel
<1>3. distance[t] <= INF /\ dest(t) # src /\ distance[t] \in Int
  BY <1>2 DEF Storable, TypeOK, LocalTypeOK
<1>. QED
  BY <1>2, <1>3, EdgeInHand DEF Weight

\* What the kinds of steps do to the distances.
LEMMA KindWt ==
  ASSUME TypeOK, Loops, Storable, NEW t \in Thread, Kind(t)
  PROVE  node_wt' \in [Node -> Weight]
<1>. USE DEF TypeOK, ScanTypeOK
<1>1. CASE Store(t)
  <2>1. dest(t) \in Node /\ distance[t] \in Weight
    BY <1>1, StoreInBody
  <2>. QED
    BY <1>1, <2>1 DEF Store
<1>2. CASE Fill(t)
  <2>1. node[t] < End(t) /\ node_wt' = [node_wt EXCEPT ![node[t]] = InitDist(node[t])]
    BY <1>2 DEF Fill, InitNode
  <2>2. node[t] \in Node
    BY <2>1, NodeInHand
  <2>3. InitDist(node[t]) \in Weight
    BY <2>2, InitDistIsWeight
  <2>. QED
    BY <2>1, <2>2, <2>3
<1>3. CASE ~Store(t) /\ ~Fill(t)
  <2>1. UNCHANGED node_wt
    BY <1>3 DEF Kind, Release, Turn, Look, BodyKind, Extend, Higher, Pass, Shift, Confirm,
       Retry, NoStore
  <2>. QED
    BY <2>1
<1>. QED
  BY <1>1, <1>2, <1>3

\* A look at a node keeps the loop variables in order.
LEMMA LookTypes ==
  ASSUME TypeOK, Loops, NEW t \in Thread, Look(t), UNCHANGED roundVars
  PROVE  ScanTypeOK(Label)' /\ RoundTypeOK' /\ Loops'
<1>. USE DEF TypeOK, ScanTypeOK, RoundTypeOK, roundVars
<1>n. /\ node[t] \in Node /\ row_start[node[t]] \in 0 .. num_edges
      /\ node[t] + 1 \in 0 .. num_nodes /\ node[t] + 1 \in Start(t) .. End(t)
      /\ pc[t] = "node" /\ node[t] < End(t)
  <2>1. pc[t] = "node" /\ node[t] < End(t) /\ node[t] \in Node
    BY NodeInHand DEF Look
  <2>2. row_start[node[t]] \in 0 .. num_edges
    BY <2>1, RowIsEdges
  <2>3. node[t] + 1 \in 0 .. num_nodes /\ node[t] + 1 \in Start(t) .. End(t)
    BY <2>1, ThreadSlice, CSRAssumption
  <2>. QED
    BY <2>1, <2>2, <2>3
<1>r. UNCHANGED <<node_wt, changed, waiting, rounds, rounds_ptr>>
  BY DEF Look, NoStore
<1>1. CASE node' = [node EXCEPT ![t] = @ + 1] /\ UNCHANGED <<pc, edge>>
  <2>1. ScanTypeOK(Label)' /\ RoundTypeOK'
    BY <1>n, <1>r, <1>1
  <2>2. Loops'
    BY <1>n, <1>r, <1>1 DEF Loops, InBody, ControlLabel
  <2>. QED
    BY <2>1, <2>2
<1>2. CASE /\ Row(node[t]) # {} /\ UNCHANGED node
           /\ edge' = [edge EXCEPT ![t] = row_start[node[t]]]
           /\ pc' = [pc EXCEPT ![t] = "relax"]
  <2>1. row_start[node[t]] \in Row(node[t])
    BY <1>n, <1>2, RowIsEdges DEF Row
  <2>2. ScanTypeOK(Label)' /\ RoundTypeOK'
    BY <1>n, <1>r, <1>2, Labels
  <2>3. Loops'
    <3>1. \A u \in Thread : u # t => pc'[u] = pc[u] /\ edge'[u] = edge[u]
      BY <1>2
    <3>2. pc'[t] = "relax" /\ edge'[t] \in Row(node[t]) /\ rounds[t] < num_nodes - 1
      BY <1>n, <1>2, <2>1 DEF Loops
    <3>3. t \notin waiting
      BY <1>n, WaitLabels DEF Loops
    <3>. QED
      BY <1>n, <1>r, <1>2, <3>1, <3>2, <3>3 DEF Loops, InBody, ControlLabel
  <2>. QED
    BY <2>2, <2>3
<1>. QED
  BY <1>1, <1>2 DEF Look

\* The locals of the bodies and the memory keep their types.
LEMMA ControlLocalTypes ==
  ASSUME TypeOK, Loops, NEW t \in Thread, ControlStep(t)
  PROVE  LocalTypeOK' /\ MemoryTypeOK'
<1>. USE DEF TypeOK, LocalTypeOK, MemoryTypeOK
<1>1. UNCHANGED <<distance, prev_distance, pred_1>>
  BY DEF ControlStep, OutsideBody, exchangeVars
<1>2. register' \in [Thread -> Weight]
  <2>1. CASE pc[t] # "node" \/ pc'[t] # "relax"
    BY <2>1, OutsideIsSame
  <2>2. CASE pc[t] = "node" /\ pc'[t] = "relax"
    <3>1. EnterNode(t)
      BY <2>2, WaitLabels DEF ControlStep, Control, InitNode, EndInit, SkipNode, EndSlice,
         FirstRound, NextRound, TestChanged, ResetChanged, BarrierWait, ScanTypeOK
    <3>2. node[t] \in Node
      BY <3>1, NodeInHand DEF EnterNode
    <3>. QED
      BY <3>2 DEF ControlStep, OutsideBody, LoadRegister, ScanTypeOK
  <2>. QED
    BY <2>1, <2>2
<1>3. older' \in [Node -> Seq(Weight)] /\ seen' \in [Thread -> [Node -> Nat \ {0}]]
  <2>1. CASE UNCHANGED memoryVars
    BY <2>1 DEF memoryVars
  <2>2. CASE Synchronise
    <3>1. <<>> \in Seq(Weight) /\ 1 \in Nat \ {0}
      OBVIOUS
    <3>. QED
      BY <2>2, <3>1 DEF Synchronise, Fresh
  <2>. QED
    BY <2>1, <2>2 DEF ControlStep
<1>. QED
  BY <1>1, <1>2, <1>3

LEMMA BodyStepTypes ==
  ASSUME NEW labels, ScanTypeOK(labels), LocalTypeOK, Storable, NEW t \in Thread,
         pc[t] \in BodyLabel => dest(t) \in Node /\ node[t] \in Node,
         pc[t] \in BodyLabel => edge_wt[edge[t]] \in Int, BodyStep(t)
  PROVE  LocalTypeOK'
<1>. USE DEF ScanTypeOK, LocalTypeOK, exchangeVars, plainVars
<1>n. pc[t] \in BodyLabel => /\ dest(t) \in Node /\ node_wt[dest(t)] \in Weight
                             /\ node[t] \in Node /\ node_wt[node[t]] \in Weight
                             /\ edge_wt[edge[t]] \in Int
  OBVIOUS
<1>a. \A w \in Weight : w \in Int
  BY DEF Weight
<1>1. CASE RelaxStep(t) /\ UNCHANGED register
  <2>1. CASE LoadDistance(t)
    <3>1. Through(t) \in Int
      BY <2>1, <1>n, <1>a DEF LoadDistance, At, BodyLabel, Through
    <3>. QED
      BY <1>1, <2>1, <3>1 DEF LoadDistance
  <2>2. CASE LoadPrev(t)
    BY <1>1, <1>n, <2>2 DEF LoadPrev, At, BodyLabel
  <2>3. CASE Pred1(t)
    BY <1>1, <2>3 DEF Pred1
  <2>4. CASE Pred2(t) \/ Exchange(t) \/ Verify(t)
    BY <1>1, <2>4 DEF Pred2, Exchange, Verify
  <2>. QED
    BY <1>1, <2>1, <2>2, <2>3, <2>4 DEF RelaxStep
<1>2. CASE PlainStep(t) /\ UNCHANGED <<prev_distance, pred_1>>
  <2>1. CASE ReadTail(t)
    <3>1. PICK wt \in { register[t], node_wt[node[t]] } :
            /\ register' = [register EXCEPT ![t] = wt]
            /\ distance' = [distance EXCEPT ![t] = wt + edge_wt[edge[t]]]
      BY <2>1 DEF ReadTail
    <3>2. wt \in Weight /\ wt + edge_wt[edge[t]] \in Int
      BY <2>1, <1>n, <1>a DEF ReadTail, BodyLabel
    <3>. QED
      BY <1>2, <3>1, <3>2
  <2>2. CASE Write(t)
    <3>1. distance[t] \in Weight
      BY <2>2 DEF Write, Storable, IsLower, Weight
    <3>. QED
      BY <1>2, <2>2, <3>1 DEF Write
  <2>3. CASE ReadHead(t) \/ SetChanged(t)
    BY <1>2, <2>3 DEF ReadHead, SetChanged
  <2>. QED
    BY <1>2, <2>1, <2>2, <2>3 DEF PlainStep
<1>. QED
  BY <1>1, <1>2 DEF BodyStep

LEMMA LockLocalTypes ==
  ASSUME TypeOK, Loops, NEW t \in Thread, LockStep(t), UNCHANGED register
  PROVE  LocalTypeOK'
<1>. USE DEF TypeOK, ScanTypeOK, LocalTypeOK, exchangeVars
<1>n. pc[t] \in BodyLabel => /\ dest(t) \in Node /\ node_wt[dest(t)] \in Weight
                             /\ node[t] \in Node /\ node_wt[node[t]] \in Weight
                             /\ edge_wt[edge[t]] \in Int
  BY Labels, EdgeInHand DEF InBody
<1>a. \A w \in Weight : w \in Int
  BY DEF Weight
<1>1. CASE ReadTailLocked(t)
  <2>1. Through(t) \in Int
    BY <1>1, <1>n, <1>a DEF ReadTailLocked, BodyLabel, Through
  <2>. QED
    BY <1>1, <2>1 DEF ReadTailLocked
<1>2. CASE ReadHeadLocked(t)
  BY <1>n, <1>2 DEF ReadHeadLocked, BodyLabel
<1>3. CASE ~ReadTailLocked(t) /\ ~ReadHeadLocked(t)
  BY <1>3 DEF LockStep, LockHead, LockBoth, WriteLocked, Announce
<1>. QED
  BY <1>1, <1>2, <1>3

LEMMA BodyLocalTypes ==
  ASSUME TypeOK, Loops, Storable, NEW t \in Thread,
         \/ BodyStep(t) /\ UNCHANGED memoryVars
         \/ LockStep(t) /\ UNCHANGED <<register, memoryVars>>
  PROVE  LocalTypeOK' /\ MemoryTypeOK'
<1>1. MemoryTypeOK'
  BY DEF TypeOK, MemoryTypeOK, memoryVars
<1>2. pc[t] \in BodyLabel =>
        dest(t) \in Node /\ node[t] \in Node /\ edge_wt[edge[t]] \in Int
  BY Labels, EdgeInHand DEF InBody
<1>3. CASE BodyStep(t)
  BY <1>1, <1>2, <1>3, BodyStepTypes DEF TypeOK
<1>4. CASE LockStep(t) /\ UNCHANGED register
  BY <1>1, <1>4, LockLocalTypes
<1>. QED
  BY <1>3, <1>4

LEMMA RelaxedLocalTypes ==
  ASSUME TypeOK, Loops, Storable, NEW t \in Thread, program = "sssp_relaxed",
         RelaxedStep(t), UNCHANGED register
  PROVE  LocalTypeOK' /\ MemoryTypeOK'
<1>. USE DEF TypeOK, ScanTypeOK, LocalTypeOK, MemoryTypeOK, exchangeVars
<1>n. pc[t] \in BodyLabel => dest(t) \in Node /\ node[t] \in Node /\ edge_wt[edge[t]] \in Int
  BY Labels, EdgeInHand DEF InBody
<1>s. ASSUME NEW n \in Node, NEW k \in Visible(t, n), Sees(t, n, k)
      PROVE  /\ Stores(n)[k] \in Weight /\ Stores(n)[k] \in Int
             /\ MemoryTypeOK'
  <2>1. Stores(n)[k] \in Loads(t, n)
    BY DEF Loads
  <2>2. Stores(n)[k] \in Weight /\ Stores(n)[k] \in Int
    BY <2>1, LoadsAre DEF Weight
  <2>3. k \in Nat \ {0}
    BY StoresAre DEF Visible
  <2>. QED
    BY <1>s, <2>2, <2>3 DEF Sees
<1>1. CASE RelaxedNode(t)
  <2>1. node[t] \in Node
    BY <1>1, NodeInHand DEF RelaxedNode
  <2>2. PICK k \in Visible(t, node[t]) : Sees(t, node[t], k)
    BY <1>1 DEF RelaxedNode
  <2>3. MemoryTypeOK'
    BY <2>1, <2>2, <1>s
  <2>. QED
    BY <1>1, <2>3 DEF RelaxedNode
<1>2. CASE RelaxedDistance(t)
  <2>1. node[t] \in Node /\ edge_wt[edge[t]] \in Int
    BY <1>2, <1>n DEF RelaxedDistance, At, BodyLabel
  <2>2. PICK k \in Visible(t, node[t]) :
          /\ Sees(t, node[t], k)
          /\ distance' = [distance EXCEPT ![t] = Stores(node[t])[k] + edge_wt[edge[t]]]
    BY <1>2 DEF RelaxedDistance
  <2>3. MemoryTypeOK' /\ Stores(node[t])[k] \in Int
    BY <2>1, <2>2, <1>s
  <2>4. Stores(node[t])[k] + edge_wt[edge[t]] \in Int
    BY <2>1, <2>3
  <2>. QED
    BY <1>2, <2>2, <2>3, <2>4 DEF RelaxedDistance
<1>3. CASE RelaxedPrev(t)
  <2>1. dest(t) \in Node
    BY <1>3, <1>n DEF RelaxedPrev, At, BodyLabel
  <2>2. PICK k \in Visible(t, dest(t)) :
          /\ Sees(t, dest(t), k)
          /\ prev_distance' = [prev_distance EXCEPT ![t] = Stores(dest(t))[k]]
    BY <1>3 DEF RelaxedPrev
  <2>3. MemoryTypeOK' /\ Stores(dest(t))[k] \in Weight
    BY <2>1, <2>2, <1>s
  <2>. QED
    BY <1>3, <2>2, <2>3 DEF RelaxedPrev
<1>4. CASE RelaxedPred1(t)
  <2>1. node[t] \in Node
    BY <1>4, <1>n DEF RelaxedPred1, At, BodyLabel
  <2>2. PICK k \in Visible(t, node[t]) :
          /\ Sees(t, node[t], k)
          /\ pred_1' = [pred_1 EXCEPT ![t] = distance[t] = Stores(node[t])[k] + edge_wt[edge[t]]]
    BY <1>4 DEF RelaxedPred1
  <2>3. MemoryTypeOK'
    BY <2>1, <2>2, <1>s
  <2>. QED
    BY <1>4, <2>2, <2>3 DEF RelaxedPred1
<1>5. CASE RelaxedPred2(t) \/ RelaxedVerify(t)
  <2>1. dest(t) \in Node
    BY <1>5, <1>n DEF RelaxedPred2, RelaxedVerify, At, BodyLabel
  <2>2. PICK k \in Visible(t, dest(t)) : Sees(t, dest(t), k)
    BY <1>5 DEF RelaxedPred2, RelaxedVerify
  <2>3. MemoryTypeOK'
    BY <2>1, <2>2, <1>s
  <2>. QED
    BY <1>5, <2>3 DEF RelaxedPred2, RelaxedVerify
<1>6. CASE RelaxedStore(t)
  <2>1. dest(t) \in Node
    BY <1>6, <1>n DEF RelaxedStore, At, BodyLabel
  <2>2. Stores(dest(t)) \in Seq(Weight) /\ Len(Stores(dest(t))) + 1 \in Nat \ {0}
    BY <2>1, StoresAre
  <2>. QED
    BY <1>6, <2>1, <2>2 DEF RelaxedStore
<1>. QED
  BY <1>1, <1>2, <1>3, <1>4, <1>5, <1>6 DEF RelaxedStep

\* Where the initialisation goes on, as a value.
LEMMA ControlOf ==
  ASSUME NEW t \in Thread, ControlStep(t)
  PROVE  \E a \in {"loop", "initWait"}, w \in {{0}, Thread} :
           /\ Control(t, a, w)
           /\ a = IF program = "sssp_ex3" THEN "loop" ELSE "initWait"
BY DEF ControlStep, AfterInit, Writers

\* Only the exchange programs verify their stores.
LEMMA VerifyStep ==
  ASSUME TypeOK, NEW t \in Thread, Kind(t), program' = program, NEW u \in Thread,
         pc'[u] = "verify"
  PROVE  program \in ExchangePrograms
<1>1. CASE u # t /\ OthersSame(t)
  BY <1>1 DEF OthersSame, TypeOK
<1>2. CASE u = t \/ Release
  <2>1. Store(t)
    BY <1>2, Labels DEF Kind, Release, Fill, InitNode, Turn, Look, BodyKind, Extend, Higher,
       Pass, Shift, Confirm, Retry, NextEdge, Goto, TypeOK, ScanTypeOK, IsLower, HasStored,
       ControlLabel
  <2>. QED
    BY <2>1, <1>2 DEF Store, Goto, TypeOK, ScanTypeOK
<1>. QED
  BY <1>1, <1>2 DEF Kind

LEMMA TypeStep ==
  ASSUME TypeOK, Loops, Storable, NEW t \in Thread, ThreadStep(t)
  PROVE  TypeOK' /\ Loops'
<1>k. Kind(t) /\ program' = program
  BY StepKind
<1>1. LocalTypeOK' /\ MemoryTypeOK'
  <2>1. CASE ControlStep(t)
    BY <2>1, ControlLocalTypes
  <2>2. CASE ~ControlStep(t) /\ program = "sssp_relaxed" /\ RelaxedStep(t) /\ UNCHANGED register
    BY <2>2, RelaxedLocalTypes
  <2>3. CASE \/ BodyStep(t) /\ UNCHANGED memoryVars
             \/ LockStep(t) /\ UNCHANGED <<register, memoryVars>>
    BY <2>3, BodyLocalTypes
  <2>. QED
    BY <2>1, <2>2, <2>3 DEF ThreadStep, memoryVars
<1>2. ScanTypeOK(Label)' /\ RoundTypeOK' /\ Loops'
  <2>1. CASE ControlStep(t)
    <3>1. PICK a \in {"loop", "initWait"}, w \in {{0}, Thread} : Control(t, a, w)
      BY <2>1, ControlOf
    <3>. QED
      BY <3>1, Labels, ControlTypes, ControlLoops DEF TypeOK
  <2>2. CASE Look(t) /\ UNCHANGED roundVars
    BY <2>2, LookTypes
  <2>3. CASE BodyKind(t) /\ UNCHANGED roundVars
    <3>1. BodyMove(t, Label)
      BY <2>3, KindMove
    <3>2. node_wt' \in [Node -> Weight]
      BY <1>k, KindWt
    <3>. QED
      BY <3>1, <3>2, Labels, BodyMoveTypes, BodyMoveLoops DEF TypeOK
  <2>. QED
    BY <2>1, <2>2, <2>3, StepKind
<1>3. \A u \in Thread : pc'[u] = "verify" => program' \in ExchangePrograms
  BY <1>k, VerifyStep
<1>. QED
  BY <1>1, <1>2, <1>3 DEF TypeOK

\* Only the release of the barrier takes threads to the next round.
LEMMA RoundKept ==
  ASSUME TypeOK, Loops, NEW t \in Thread, ThreadStep(t)
  PROVE  \/ \A u \in Thread : Round(u)' = Round(u)
         \/ Release /\ UNCHANGED rounds
<1>. USE DEF TypeOK, ScanTypeOK, RoundTypeOK
<1>1. CASE ControlStep(t)
  <2>0. PICK a \in {"loop", "initWait"}, w \in {{0}, Thread} : Control(t, a, w)
    BY <1>1, ControlOf
  <2>1. CASE BarrierWait(t)
    BY <1>1, <2>1, WaitKind DEF BarrierWait, Round
  <2>2. CASE FirstRound(t, w)
    BY <2>2 DEF FirstRound, RoundTest, Leave, Round
  <2>3. CASE NextRound(t, w)
    BY <2>3 DEF NextRound, RoundTest, Leave, Round
  <2>4. CASE TestChanged(t, w) \/ ResetChanged(t)
    BY <2>4 DEF TestChanged, ResetChanged, Leave, Round
  <2>5. CASE /\ InitNode(t) \/ EndInit(t, a) \/ SkipNode(t) \/ EnterNode(t) \/ EndSlice(t, "endWait")
             /\ UNCHANGED roundVars
    BY <2>5 DEF InitNode, EndInit, SkipNode, EnterNode, EndSlice, roundVars, Round
  <2>. QED
    BY <2>0, <2>1, <2>2, <2>3, <2>4, <2>5 DEF Control
<1>2. CASE Look(t) /\ UNCHANGED roundVars
  BY <1>2 DEF Look, roundVars, Round
<1>3. CASE BodyKind(t) /\ UNCHANGED roundVars
  <2>1. BodyMove(t, Label)
    BY <1>3, KindMove
  <2>2. pc[t] # "again" /\ \E l \in Label : l # "again" /\ pc' = [pc EXCEPT ![t] = l]
    BY <2>1, Labels DEF BodyMove, InBody, NextEdge, ControlLabel
  <2>. QED
    BY <1>3, <2>2 DEF roundVars, Round
<1>. QED
  BY <1>1, <1>2, <1>3, StepKind

\* A look at a node keeps the phases.
LEMMA LookPhases ==
  ASSUME NEW early \in BOOLEAN, PhasesIn(early), TypeOK, NEW t \in Thread,
         Look(t), UNCHANGED roundVars
  PROVE  PhasesIn(early)'
<1>1. CASE UNCHANGED pc
  BY <1>1 DEF Look, NoStore, roundVars, PhasesIn, SamePhaseIn, LeaveIn, ChangedUntilReset,
     NotFull, Round, PhaseIn
<1>2. CASE pc' = [pc EXCEPT ![t] = "relax"]
  <2>1. pc[t] = "node" /\ UNCHANGED <<changed, waiting, rounds>>
    BY DEF Look, NoStore, roundVars
  <2>2. PhaseIn(early, "relax") = PhaseIn(early, pc[t])
    BY <2>1 DEF PhaseIn, PhaseOf
  <2>3. Round(t)' = Round(t)
    BY <1>2, <2>1 DEF Round, TypeOK, ScanTypeOK
  <2>. QED
    BY <1>2, <2>1, <2>2, <2>3, QuietStepPhases DEF TypeOK
<1>. QED
  BY <1>1, <1>2 DEF Look

LEMMA PhasesInStep ==
  ASSUME NEW early \in BOOLEAN, PhasesIn(early), early = (program = "sssp_ex3"),
         TypeOK, Loops, NEW t \in Thread, ThreadStep(t)
  PROVE  PhasesIn(early)'
<1>1. CASE ControlStep(t)
  <2>1. PICK a \in {"loop", "initWait"}, w \in {{0}, Thread} :
          Control(t, a, w) /\ a = IF program = "sssp_ex3" THEN "loop" ELSE "initWait"
    BY <1>1, ControlOf
  <2>2. a = IF early THEN "loop" ELSE "initWait"
    BY <2>1
  <2>. QED
    BY <2>1, <2>2, ControlKeepsPhases DEF TypeOK
<1>2. CASE Look(t) /\ UNCHANGED roundVars
  BY <1>2, LookPhases
<1>3. CASE BodyKind(t) /\ UNCHANGED roundVars
  BY <1>3, KindMove, BodyKeepsPhases DEF TypeOK
<1>. QED
  BY <1>1, <1>2, <1>3, StepKind

LEMMA PhasesStep ==
  ASSUME ProgramPhases, TypeOK, Loops, NEW t \in Thread, ThreadStep(t)
  PROVE  ProgramPhases'
<1>0. program' = program
  BY StepKind
<1>1. CASE program = "sssp_ex3"
  BY <1>0, <1>1, PhasesInStep DEF ProgramPhases
<1>2. CASE program # "sssp_ex3"
  BY <1>0, <1>2, PhasesInStep DEF ProgramPhases
<1>. QED
  BY <1>1, <1>2

-----------------------------------------------------------------------------
(***************************************************************************)
(* Every distance is that of a walk.                                       *)
(***************************************************************************)

\* With the first barrier, nobody initialises once a thread has gone on.
LEMMA NobodyInits ==
  ASSUME ProgramPhases, program # "sssp_ex3", NEW t \in Thread, pc[t] \notin {"init", "initWait"}
  PROVE  \A u \in Thread : pc[u] \notin {"init", "initWait"}
<1>. SUFFICES ASSUME NEW u \in Thread, pc[u] \in {"init", "initWait"} PROVE FALSE
  OBVIOUS
<1>1. PhasesIn(FALSE)
  BY DEF ProgramPhases
<1>2. pc[t] # "done"
  BY <1>1 DEF PhasesIn, LeaveIn
<1>3. PhaseOf(pc[t]) = PhaseOf(pc[u])
  BY <1>1, <1>2 DEF PhasesIn, SamePhaseIn, PhaseIn
<1>. QED
  BY <1>2, <1>3 DEF PhaseOf

\* Nobody initialises in a settled round.
LEMMA SettledInits ==
  ASSUME Loops, ProgramPhases, Settled, NEW t \in Thread, pc[t] \notin {"init", "initWait"}
  PROVE  \A u \in Thread : pc[u] \notin {"init", "initWait"}
<1>1. CASE program # "sssp_ex3"
  BY <1>1, NobodyInits
<1>2. CASE program = "sssp_ex3"
  BY <1>2 DEF Settled, Loops, Round
<1>. QED
  BY <1>1, <1>2

\* A node becomes ready when it is initialised, and stays so.
LEMMA ReadyStep ==
  ASSUME TypeOK, NEW t \in Thread, Kind(t), NEW n \in Node
  PROVE  /\ Ready(n) => Ready(n)'
         /\ Ready(n)' => Ready(n) \/ (Fill(t) /\ n = node[t])
<1>. USE DEF TypeOK, ScanTypeOK, Ready
<1>0. /\ \A u \in Thread : Start(u) \in Int /\ End(u) \in Int /\ node[u] \in Int
      /\ n \in Int
  BY ThreadSlice DEF Node
<1>1. CASE Release
  BY <1>1 DEF Release
<1>2. CASE OthersSame(t) /\ Fill(t)
  <2>1. pc[t] = "init" /\ pc'[t] = "init" /\ node'[t] = node[t] + 1
    BY <1>2 DEF Fill, InitNode
  <2>2. \A u \in Thread \ {t} : pc'[u] = pc[u] /\ node'[u] = node[u]
    BY <1>2 DEF OthersSame
  <2>3. n < node[t] => n < node[t] + 1
    BY <1>0
  <2>4. n < node[t] + 1 => n < node[t] \/ n = node[t]
    BY <1>0
  <2>. QED
    BY <1>2, <2>1, <2>2, <2>3, <2>4
<1>3. CASE OthersSame(t) /\ Turn(t)
  <2>1. /\ pc'[t] # "init" /\ (pc[t] = "init" => node[t] >= End(t))
        /\ \A u \in Thread \ {t} : pc'[u] = pc[u] /\ node'[u] = node[u]
    BY <1>3 DEF Turn, OthersSame
  <2>2. pc[t] = "init" /\ n \in Start(t) .. End(t) - 1 => n < node[t]
    BY <1>0, <2>1
  <2>. QED
    BY <2>1, <2>2
<1>4. CASE OthersSame(t) /\ (Look(t) \/ BodyKind(t))
  <2>1. pc[t] # "init" /\ pc'[t] # "init"
    BY <1>4 DEF Look, BodyKind, Extend, Higher, Pass, Shift, Store, Confirm, Retry, NextEdge,
       Goto, BodyLabel, HasDistance, HasStored, IsLower
  <2>. QED
    BY <1>4, <2>1 DEF OthersSame
<1>. QED
  BY <1>1, <1>2, <1>3, <1>4 DEF Kind

\* What a load returns is not too low, and 0 for the source.
LEMMA LoadsAbove ==
  ASSUME TypeOK, NotTooLow, NEW t \in Thread, NEW n \in Node, Ready(n), NEW v \in Loads(t, n)
  PROVE  Dist[n] <= v
BY LoadsAre DEF NotTooLow

LEMMA LoadsSource ==
  ASSUME TypeOK, SourceIsZero, NEW t \in Thread, NEW v \in Loads(t, src)
  PROVE  v = 0
BY LoadsFresh, DistFacts DEF SourceIsZero

\* The labels a step goes to.
LEMMA GoesTo ==
  ASSUME TypeOK, NEW t \in Thread, Kind(t), ~Release
  PROVE  /\ pc'[t] \in IsLower => Higher(t) \/ (Shift(t) /\ pc[t] \in IsLower)
         /\ pc'[t] \in HasStored => Store(t)
         /\ pc'[t] \in HasDistance =>
              \/ Extend(t)
              \/ /\ Higher(t) \/ Shift(t) \/ Store(t)
                 /\ pc[t] \in HasDistance /\ UNCHANGED <<node, edge>> /\ distance'[t] = distance[t]
         /\ InBody(t)' =>
              \/ Look(t) /\ pc'[t] = "relax"
              \/ BodyKind(t) /\ InBody(t) /\ node'[t] = node[t]
<1>. USE DEF TypeOK, ScanTypeOK, HasDistance, IsLower, HasStored, BodyLabel, Goto, SameLocals,
     InBody
<1>1. CASE Fill(t)
  BY <1>1 DEF Fill, InitNode, ControlLabel
<1>2. CASE Turn(t)
  BY <1>2 DEF Turn, ControlLabel
<1>3. CASE Look(t)
  BY <1>3 DEF Look, ControlLabel
<1>4. CASE Extend(t)
  BY <1>4 DEF Extend, ControlLabel, BodyKind
<1>5. CASE Higher(t)
  BY <1>5 DEF Higher, ControlLabel, BodyKind
<1>6. CASE Pass(t)
  BY <1>6 DEF Pass, NextEdge, ControlLabel, BodyKind
<1>7. CASE Shift(t)
  BY <1>7 DEF Shift, ControlLabel, BodyKind
<1>8. CASE Store(t)
  BY <1>8 DEF Store, ControlLabel, BodyKind
<1>9. CASE Confirm(t)
  BY <1>9 DEF Confirm, NextEdge, ControlLabel, BodyKind
<1>10. CASE Retry(t)
  BY <1>10 DEF Retry, ControlLabel, BodyKind
<1>. QED
  BY <1>1, <1>2, <1>3, <1>4, <1>5, <1>6, <1>7, <1>8, <1>9, <1>10 DEF Kind, BodyKind

\* A thread that has only seen a higher distance stores a weight, and not
\* into the source.
LEMMA StorableStep ==
  ASSUME Walks, NEW t \in Thread, Kind(t)
  PROVE  Storable'
<1>. USE DEF Walks
<1>. SUFFICES ASSUME NEW u \in Thread, pc'[u] \in IsLower
              PROVE  distance'[u] <= INF /\ dest(u)' # src
  BY DEF Storable
<1>1. ~Release
  BY DEF Release, IsLower
<1>2. CASE u # t
  <2>1. pc'[u] = pc[u] /\ edge'[u] = edge[u] /\ distance'[u] = distance[u]
    BY <1>1, <1>2 DEF Kind, OthersSame
  <2>. QED
    BY <2>1 DEF Storable, dest
<1>3. CASE u = t /\ Higher(t)
  <2>1. distance'[t] = distance[t] /\ dest(t)' = dest(t)
    BY <1>3 DEF Higher, Goto, SameLocals, dest
  <2>2. PICK v \in Loads(t, dest(t)) : v > distance[t]
    BY <1>3 DEF Higher
  <2>3. dest(t) \in Node /\ pc[t] \in HasDistance /\ distance[t] \in Int
    BY <1>3, Labels, EdgeInHand DEF Higher, HasDistance, InBody, TypeOK, LocalTypeOK
  <2>4. v \in Int /\ v <= INF /\ INF \in Int
    BY <2>2, <2>3, LoadsAre, DistFacts DEF Weight
  <2>5. dest(t) # src
    <3>1. SUFFICES ASSUME dest(t) = src PROVE FALSE
      OBVIOUS
    <3>2. v = 0
      BY <2>2, <3>1, LoadsSource
    <3>3. 0 <= distance[t]
      BY <2>3, <3>1, DistFacts DEF NotTooLow
    <3>. QED
      BY <2>2, <2>3, <3>2, <3>3
  <2>6. distance[t] <= INF
    BY <2>2, <2>3, <2>4
  <2>. QED
    BY <1>3, <2>1, <2>5, <2>6
<1>4. CASE u = t /\ Shift(t) /\ pc[t] \in IsLower
  BY <1>4 DEF Shift, Goto, SameLocals, Storable, dest
<1>. QED
  BY <1>1, <1>2, <1>3, <1>4, GoesTo

\* Only initialisations and stores change the distances; only stores of the
\* relaxed program and barriers change the older values.
LEMMA KindEffect ==
  ASSUME NEW t \in Thread, Kind(t)
  PROVE  /\ UNCHANGED node_wt \/ Fill(t) \/ Store(t)
         /\ \/ UNCHANGED older
            \/ Release /\ \A n \in Node : older'[n] = <<>>
            \/ /\ program = "sssp_relaxed" /\ Store(t)
               /\ older' = [older EXCEPT ![dest(t)] = Stores(dest(t))]
<1>1. UNCHANGED node_wt \/ Fill(t) \/ Store(t)
  BY DEF Kind, Release, Fill, Turn, Look, BodyKind, Extend, Higher, Pass, Shift, Store, Confirm,
     Retry, NoStore
<1>2. CASE Release
  BY <1>1, <1>2 DEF Release
<1>3. CASE Memory(t)
  BY <1>1, <1>3 DEF Memory
<1>. QED
  BY <1>2, <1>3 DEF Kind

LEMMA SourceStep ==
  ASSUME Walks, NEW t \in Thread, Kind(t)
  PROVE  SourceIsZero'
<1>. USE DEF Walks, SourceIsZero, TypeOK, ScanTypeOK
<1>0. src \in Node
  BY DistFacts
<1>1. CASE Store(t)
  <2>1. dest(t) # src
    BY <1>1, StoreInBody
  <2>2. node_wt'[src] = node_wt[src]
    BY <1>0, <1>1, <2>1 DEF Store
  <2>3. older'[src] = <<>>
    BY <1>0, <2>1, KindEffect DEF MemoryTypeOK
  <2>. QED
    BY <2>2, <2>3
<1>2. CASE ~Store(t)
  <2>1. older'[src] = <<>>
    BY <1>0, <1>2, KindEffect
  <2>2. CASE Fill(t)
    BY <1>0, <2>1, <2>2 DEF Fill, InitNode, InitDist
  <2>3. CASE ~Fill(t)
    BY <1>0, <1>2, <2>1, <2>3, KindEffect
  <2>. QED
    BY <2>2, <2>3
<1>. QED
  BY <1>1, <1>2

LEMMA WtAbove ==
  ASSUME Walks, NEW t \in Thread, Kind(t), NEW n \in Node, Ready(n)'
  PROVE  Dist[n] <= node_wt'[n]
<1>. USE DEF Walks, TypeOK, ScanTypeOK
<1>1. CASE UNCHANGED node_wt /\ ~Fill(t)
  BY <1>1, ReadyStep DEF NotTooLow
<1>2. CASE Fill(t)
  <2>1. node_wt'[n] = IF n = node[t] THEN InitDist(n) ELSE node_wt[n]
    BY <1>2 DEF Fill, InitNode
  <2>2. n # node[t] => Ready(n)
    BY ReadyStep
  <2>. QED
    BY <2>1, <2>2, DistFacts DEF NotTooLow
<1>3. CASE Store(t)
  <2>1. node_wt'[n] = IF n = dest(t) THEN distance[t] ELSE node_wt[n]
    BY <1>3 DEF Store
  <2>2. Dist[dest(t)] <= distance[t]
    BY <1>3, StoreInBody DEF NotTooLow
  <2>3. ~Fill(t)
    BY <1>3 DEF Store, Fill, InitNode
  <2>. QED
    BY <2>1, <2>2, <2>3, ReadyStep DEF NotTooLow
<1>. QED
  BY <1>1, <1>2, <1>3, KindEffect

LEMMA OlderAbove ==
  ASSUME Walks, NEW t \in Thread, Kind(t), NEW n \in Node
  PROVE  /\ \A k \in 1 .. Len(older'[n]) : Dist[n] <= older'[n][k]
         /\ older'[n] # <<>> => Ready(n)'
<1>. USE DEF Walks, TypeOK, ScanTypeOK
<1>1. CASE UNCHANGED older
  <2>1. older'[n] = older[n]
    BY <1>1
  <2>. QED
    BY <2>1, ReadyStep DEF NotTooLow
<1>2. CASE \A m \in Node : older'[m] = <<>>
  BY <1>2
<1>3. CASE /\ program = "sssp_relaxed" /\ Store(t)
           /\ older' = [older EXCEPT ![dest(t)] = Stores(dest(t))]
  <2>1. CASE n # dest(t)
    <3>1. older'[n] = older[n]
      BY <1>3, <2>1 DEF MemoryTypeOK
    <3>. QED
      BY <3>1, ReadyStep DEF NotTooLow
  <2>2. CASE n = dest(t)
    <3>1. Ready(n)
      <4>1. pc[t] \notin {"init", "initWait"} /\ program # "sssp_ex3"
        BY <1>3 DEF Store
      <4>. QED
        BY <4>1, NobodyInits DEF Ready
    <3>2. older'[n] = Stores(n)
      BY <1>3, <2>2 DEF MemoryTypeOK
    <3>3. Dist[n] <= node_wt[n] /\ \A k \in 1 .. Len(older[n]) : Dist[n] <= older[n][k]
      BY <3>1 DEF NotTooLow
    <3>4. ASSUME NEW k \in 1 .. Len(Stores(n)) PROVE Dist[n] <= Stores(n)[k]
      <4>1. k = Len(older[n]) + 1 \/ k \in 1 .. Len(older[n])
        BY <3>4, StoresAre
      <4>. QED
        BY <3>3, <4>1, StoresAre
    <3>5. Ready(n)'
      BY <3>1, ReadyStep
    <3>. QED
      BY <3>2, <3>4, <3>5
  <2>. QED
    BY <2>1, <2>2
<1>. QED
  BY <1>1, <1>2, <1>3, KindEffect

\* Whoever enters a node or walks over an edge has a distance to go on from.
LEMMA TailAbove ==
  ASSUME Walks, NEW t \in Thread, Extend(t)
  PROVE  \A v \in Loads(t, node[t]) \cup Kept(t) : v \in Int /\ Dist[node[t]] <= v
<1>. USE DEF Walks, TypeOK
<1>1. InBody(t) /\ pc[t] # "init"
  BY Labels DEF Extend, InBody, BodyLabel
<1>2. node[t] \in Node /\ Ready(node[t])
  BY <1>1, EdgeInHand, ReadyOwn
<1>3. ASSUME NEW v \in Loads(t, node[t]) PROVE v \in Int /\ Dist[node[t]] <= v
  BY <1>2, LoadsAre, LoadsAbove DEF Weight
<1>4. ASSUME NEW v \in Kept(t) PROVE v \in Int /\ Dist[node[t]] <= v
  BY <1>1 DEF Kept, NotTooLow, LocalTypeOK, Weight
<1>. QED
  BY <1>3, <1>4

LEMMA OverEdge ==
  ASSUME Walks, NEW t \in Thread, InBody(t), NEW v \in Int, Dist[node[t]] <= v
  PROVE  Dist[dest(t)] <= v + edge_wt[edge[t]]
<1>. USE DEF Walks
<1>1. /\ node[t] \in Node /\ edge[t] \in Row(node[t]) /\ dest(t) \in Node
      /\ edge_wt[edge[t]] \in Int /\ Dist[node[t]] # INF
  BY EdgeInHand DEF NotTooLow
<1>2. Dist[dest(t)] <= Dist[node[t]] + edge_wt[edge[t]]
  BY <1>1, NoNegativeCycle DEF Closed, dest
<1>3. Dist[node[t]] \in Int /\ Dist[dest(t)] \in Int
  BY <1>1, DistFacts
<1>. QED
  BY ONLY <1>1, <1>2, <1>3, v \in Int, Dist[node[t]] <= v

LEMMA LocalsAbove ==
  ASSUME Walks, NEW t \in Thread, Kind(t), program' = program, ~Release
  PROVE  /\ InBody(t)' => Dist[node'[t]] # INF
         /\ pc'[t] \in HasDistance => Dist[dest(t)'] <= distance'[t]
         /\ program \in PlainPrograms /\ InBody(t)' => Dist[node'[t]] <= register'[t]
<1>. USE DEF Walks
<1>1. ASSUME Look(t), pc'[t] = "relax"
      PROVE  /\ Dist[node'[t]] # INF
             /\ program \in PlainPrograms => Dist[node'[t]] <= register'[t]
  <2>1. PICK v \in Loads(t, node[t]) :
          /\ v # INF /\ UNCHANGED node
          /\ program \in PlainPrograms => register'[t] = v
    BY <1>1 DEF Look, TypeOK, ScanTypeOK
  <2>2. node[t] \in Node /\ Ready(node[t])
    BY <1>1, NodeInHand, ReadyOwn DEF Look
  <2>3. Dist[node[t]] <= v /\ v \in Int /\ v <= INF
    BY <2>2, LoadsAre, LoadsAbove DEF Weight
  <2>4. Dist[node[t]] # INF
    BY <2>1, <2>2, <2>3, DistFacts
  <2>. QED
    BY <2>1, <2>3, <2>4
<1>2. ASSUME Extend(t)
      PROVE  /\ Dist[dest(t)'] <= distance'[t]
             /\ program \in PlainPrograms => Dist[node[t]] <= register'[t]
  <2>1. PICK v \in Loads(t, node[t]) \cup Kept(t) :
          /\ distance'[t] = v + edge_wt[edge[t]]
          /\ program \in PlainPrograms => register'[t] = v
    BY <1>2 DEF Extend
  <2>2. v \in Int /\ Dist[node[t]] <= v
    BY <1>2, <2>1, TailAbove
  <2>3. InBody(t) /\ dest(t)' = dest(t)
    BY <1>2, Labels DEF Extend, InBody, BodyLabel, Goto, dest
  <2>. QED
    BY <2>1, <2>2, <2>3, OverEdge
<1>3. ASSUME pc'[t] \in HasDistance, ~Extend(t)
      PROVE  Dist[dest(t)'] <= distance'[t]
  <2>1. pc[t] \in HasDistance /\ dest(t)' = dest(t) /\ distance'[t] = distance[t]
    BY <1>3, GoesTo DEF dest
  <2>. QED
    BY <2>1 DEF NotTooLow
<1>4. ASSUME BodyKind(t), ~Extend(t), InBody(t), program \in PlainPrograms
      PROVE  Dist[node[t]] <= register'[t]
  <2>1. \/ register'[t] = register[t]
        \/ Store(t) /\ dest(t) = node[t] /\ register'[t] = distance[t]
    BY <1>4 DEF BodyKind, Higher, Pass, Shift, Store, Confirm, Retry, SameLocals
  <2>2. Store(t) => Dist[dest(t)] <= distance[t]
    BY StoreInBody DEF NotTooLow
  <2>. QED
    BY <1>4, <2>1, <2>2 DEF NotTooLow
<1>5. InBody(t)' => Dist[node'[t]] # INF
  BY <1>1, GoesTo DEF NotTooLow
<1>. QED
  BY <1>1, <1>2, <1>3, <1>4, <1>5, GoesTo

LEMMA NotTooLowStep ==
  ASSUME Walks, NEW t \in Thread, Kind(t), program' = program
  PROVE  NotTooLow'
<1>. USE DEF Walks
<1>1. ASSUME NEW u \in Thread
      PROVE  /\ InBody(u)' => Dist[node'[u]] # INF
             /\ pc'[u] \in HasDistance => Dist[dest(u)'] <= distance'[u]
             /\ program' \in PlainPrograms /\ InBody(u)' => Dist[node'[u]] <= register'[u]
  <2>1. CASE Release
    <3>1. pc'[u] \in ControlLabel
      BY <2>1 DEF Release, ControlLabel
    <3>. QED
      BY <3>1, Labels DEF InBody, HasDistance
  <2>2. CASE ~Release /\ u = t
    BY <2>2, LocalsAbove
  <2>3. CASE ~Release /\ u # t
    <3>1. OthersSame(t)
      BY <2>3 DEF Kind
    <3>2. dest(u)' = dest(u) /\ (InBody(u)' <=> InBody(u))
      BY <2>3, <3>1 DEF OthersSame, dest, InBody
    <3>. QED
      BY <2>3, <3>1, <3>2 DEF OthersSame, NotTooLow
  <2>. QED
    BY <2>1, <2>2, <2>3
<1>. QED
  BY <1>1, WtAbove, OlderAbove DEF NotTooLow

\* The first layer of the invariant holds initially ...
LEMMA WalksInit == Init => Walks
<1>. SUFFICES ASSUME Init PROVE Walks
  OBVIOUS
<1>. USE DEF Init, ScanInit, RoundInit, BodyInit, ExchangeInit, PlainInit, MemoryInit, Fresh
<1>n. num_nodes \in Nat /\ num_nodes > 0 /\ num_edges \in Nat /\ INF \in Nat \ {0}
  BY CSRAssumption
<1>0. 0 \in Thread /\ 0 \in Weight /\ 0 \in 0 .. num_nodes
  BY <1>n, ThreadAssumption DEF Thread, Weight
<1>p. \A t \in Thread : pc[t] = "init"
  OBVIOUS
<1>1. TypeOK
  <2>1. \A t \in Thread : Start(t) \in 0 .. num_nodes /\ Start(t) \in Start(t) .. End(t)
    BY <1>n, ThreadSlice
  <2>2. ScanTypeOK(Label)
    <3>1. node_wt \in [Node -> Weight] /\ changed \in BOOLEAN
      BY <1>0
    <3>2. pc \in [Thread -> Label]
      BY Labels DEF ControlLabel
    <3>3. /\ node \in [Thread -> 0 .. num_nodes]
          /\ \A t \in Thread : node[t] \in Start(t) .. End(t)
      BY <2>1
    <3>4. edge \in [Thread -> 0 .. num_edges]
      BY <1>n
    <3>. QED
      BY <3>1, <3>2, <3>3, <3>4 DEF ScanTypeOK
  <2>3. RoundTypeOK
    BY <1>0 DEF RoundTypeOK
  <2>4. LocalTypeOK
    BY <1>0 DEF LocalTypeOK
  <2>5. MemoryTypeOK
    <3>1. <<>> \in Seq(Weight) /\ 1 \in Nat \ {0}
      OBVIOUS
    <3>. QED
      BY <3>1 DEF MemoryTypeOK
  <2>. QED
    BY <1>p, <2>2, <2>3, <2>4, <2>5 DEF TypeOK
<1>2. Loops
  BY <1>n DEF Loops, InBody, ControlLabel
<1>3. ProgramPhases
  BY <1>0 DEF ProgramPhases, PhasesIn, SamePhaseIn, LeaveIn, ChangedUntilReset, NotFull, Round
<1>4. Storable
  BY <1>p DEF Storable, IsLower
<1>5. SourceIsZero
  BY DistFacts DEF SourceIsZero
<1>6. NotTooLow
  <2>1. \A n \in Node : ~Ready(n)
    <3>. TAKE n \in Node
    <3>1. PICK t \in Thread : n \in Start(t) .. End(t) - 1
      BY NodeCovered
    <3>2. node[t] = Start(t) /\ n \in Int /\ Start(t) \in Int /\ End(t) \in Int
      BY ThreadSlice DEF Node
    <3>. QED
      BY <1>p, <3>1, <3>2 DEF Ready
  <2>2. \A n \in Node : older[n] = <<>> /\ Len(older[n]) = 0
    OBVIOUS
  <2>3. \A t \in Thread : ~InBody(t) /\ pc[t] \notin HasDistance
    BY <1>p DEF InBody, ControlLabel, HasDistance, BodyLabel
  <2>. QED
    BY <2>1, <2>2, <2>3 DEF NotTooLow
<1>. QED
  BY <1>1, <1>2, <1>3, <1>4, <1>5, <1>6 DEF Walks

\* ... and every step keeps it.
LEMMA WalksStep == Walks /\ [Next]_vars => Walks'
<1>. SUFFICES ASSUME Walks, [Next]_vars PROVE Walks'
  OBVIOUS
<1>1. ASSUME NEW t \in Thread, ThreadStep(t) PROVE Walks'
  <2>1. TypeOK' /\ Loops'
    BY <1>1, TypeStep DEF Walks
  <2>2. ProgramPhases'
    BY <1>1, PhasesStep DEF Walks
  <2>3. Kind(t) /\ program' = program
    BY <1>1, StepKind DEF Walks
  <2>4. Storable' /\ SourceIsZero' /\ NotTooLow'
    BY <2>3, StorableStep, SourceStep, NotTooLowStep
  <2>. QED
    BY <2>1, <2>2, <2>4 DEF Walks
<1>2. CASE UNCHANGED vars
  <2>. USE <1>2 DEF vars, scanVars, roundVars, bodyVars, exchangeVars, memoryVars
  <2>1. TypeOK' /\ Loops'
    BY DEF Walks, TypeOK, ScanTypeOK, RoundTypeOK, LocalTypeOK, MemoryTypeOK, Loops, InBody
  <2>2. ProgramPhases'
    BY DEF Walks, ProgramPhases, PhasesIn, SamePhaseIn, Round, LeaveIn, ChangedUntilReset,
       NotFull
  <2>3. Storable' /\ SourceIsZero'
    BY DEF Walks, Storable, SourceIsZero, dest
  <2>4. NotTooLow'
    BY DEF Walks, NotTooLow, Ready, InBody, dest
  <2>. QED
    BY <2>1, <2>2, <2>3, <2>4 DEF Walks
<1>. QED
  BY <1>1, <1>2 DEF Next, Terminating

THEOREM WalksCorrect == Spec => []Walks
BY WalksInit, WalksStep, PTL DEF Spec

\* No thread ever counts a round the others do not, also where the threads
\* enter the first round at different times.
THEOREM SameRoundCorrect == Spec => []SameRound
<1>1. Walks => SameRound
  BY DEF Walks, ProgramPhases, PhasesIn, SamePhaseIn, SameRound
<1>. QED
  BY <1>1, WalksCorrect, PTL

\* No thread leaves while another must still pass a barrier.  With a single
\* node sssp_ex3 has no round at all, and a thread may leave while another one
\* initialises: there is no barrier it could wait in.
THEOREM LeaveTogetherCorrect ==
  Spec => [](program # "sssp_ex3" \/ num_nodes > 1 => LeaveTogether)
<1>0. num_nodes > 1 => num_nodes # 1
  BY CSRAssumption
<1>1. ASSUME NEW early \in BOOLEAN, LeaveIn(early), ~early \/ num_nodes > 1
      PROVE  LeaveTogether
  BY <1>0, <1>1 DEF LeaveIn, LeaveTogether
<1>2. Walks => (program # "sssp_ex3" \/ num_nodes > 1 => LeaveTogether)
  BY <1>1 DEF Walks, ProgramPhases, PhasesIn
<1>. QED
  BY <1>2, WalksCorrect, PTL

\* No distance is below the true one, whatever the threads overwrite.
THEOREM AboveDistCorrect == Spec => []AboveDist
<1>1. Walks => AboveDist
  BY DEF Walks, NotTooLow, Ready, Initialised, AboveDist
<1>. QED
  BY <1>1, WalksCorrect, PTL

-----------------------------------------------------------------------------
(***************************************************************************)
(* The mutexes of sssp_nodelock.                                           *)
(***************************************************************************)
LEMMA MutexStep ==
  ASSUME Walks, MutexHeld, NEW t \in Thread, ThreadStep(t)
  PROVE  MutexHeld'
<1>. USE DEF Walks, TypeOK, ScanTypeOK
<1>0. program' = program
  BY StepKind
<1>. SUFFICES ASSUME program = "sssp_nodelock" PROVE MutexHeld'
  BY <1>0 DEF MutexHeld
<1>g. \A u \in Thread : /\ pc[u] \in {"readTail", "readHead", "write"} <=> edge_head_mutex = u
                        /\ pc[u] \in {"readHead", "write"} <=> edge_tail_mutex = u
  BY DEF MutexHeld
<1>1. CASE ControlStep(t)
  <2>1. UNCHANGED mutexVars
    BY <1>1 DEF ControlStep
  <2>2. pc[t] \in ControlLabel
    BY <1>1, WaitLabels DEF ControlStep, Control, InitNode, EndInit, SkipNode, EnterNode,
       EndSlice, FirstRound, NextRound, TestChanged, ResetChanged, BarrierWait, ControlLabel
  <2>3. \A u \in Thread : pc'[u] = pc[u] \/ {pc[u], pc'[u]} \subseteq ControlLabel \cup {"relax"}
    <3>1. ~BodyKind(t)
      BY <2>2, Labels DEF BodyKind, Extend, Higher, Pass, Shift, Store, Confirm, Retry, BodyLabel,
         HasDistance, HasStored
    <3>2. CASE Release
      BY <3>2 DEF Release, ControlLabel
    <3>3. CASE OthersSame(t) /\ (Fill(t) \/ Turn(t) \/ Look(t))
      <4>1. pc'[t] = pc[t] \/ pc'[t] \in ControlLabel \cup {"relax"}
        BY <3>3 DEF Fill, InitNode, Turn, Look
      <4>. QED
        BY <2>2, <3>3, <4>1 DEF OthersSame
    <3>. QED
      BY <1>1, <3>1, <3>2, <3>3, ControlKind DEF Kind
  <2>4. {"readTail", "readHead", "write"} \cap (ControlLabel \cup {"relax"}) = {}
    BY DEF ControlLabel
  <2>. QED
    BY <1>g, <2>1, <2>3, <2>4 DEF MutexHeld, mutexVars
<1>2. CASE LockStep(t)
  <2>n. t # NoThread /\ \A u \in Thread : u # NoThread
    BY NoThreadAssumption
  <2>1. CASE LockHead(t)
    BY <1>g, <2>n, <2>1 DEF LockHead, MutexHeld
  <2>2. CASE ReadTailLocked(t)
    BY <1>g, <2>n, <2>2 DEF ReadTailLocked, MutexHeld
  <2>3. CASE LockBoth(t)
    BY <1>g, <2>n, <2>3 DEF LockBoth, MutexHeld
  <2>4. CASE ReadHeadLocked(t)
    <3>1. \E l \in {"lockWrite", "relax", "node"} : pc' = [pc EXCEPT ![t] = l]
      BY <2>4 DEF ReadHeadLocked, NextEdge
    <3>2. UnlockBoth /\ pc[t] = "readHead"
      BY <2>4 DEF ReadHeadLocked
    <3>. QED
      BY <1>g, <2>n, <3>1, <3>2 DEF UnlockBoth, MutexHeld
  <2>5. CASE WriteLocked(t)
    BY <1>g, <2>n, <2>5 DEF WriteLocked, UnlockBoth, MutexHeld
  <2>6. CASE Announce(t)
    <3>1. \E l \in {"relax", "node"} : pc' = [pc EXCEPT ![t] = l]
      BY <2>6 DEF Announce, NextEdge
    <3>2. UNCHANGED mutexVars /\ pc[t] = "flag"
      BY <2>6 DEF Announce
    <3>. QED
      BY <1>g, <3>1, <3>2 DEF mutexVars, MutexHeld
  <2>. QED
    BY <1>2, <2>1, <2>2, <2>3, <2>4, <2>5, <2>6 DEF LockStep
<1>3. ~BodyStep(t)
  BY DEF BodyStep, AtomicPrograms, PlainPrograms
<1>. QED
  BY <1>1, <1>2, <1>3 DEF ThreadStep

-----------------------------------------------------------------------------
(***************************************************************************)
(* No store goes unannounced.                                              *)
(***************************************************************************)

\* A thread that does not find its value is not the last that stored.
LEMMA RetryNotLast ==
  ASSUME Walks, NEW t \in Thread, Retry(t)
  PROVE  ~LastStore(t, dest(t))
<1>. USE DEF Walks
<1>. SUFFICES ASSUME LastStore(t, dest(t)) PROVE FALSE
  OBVIOUS
<1>1. InBody(t) /\ dest(t) \in Node
  BY Labels, EdgeInHand DEF Retry, InBody, BodyLabel
<1>2. PICK v \in Loads(t, dest(t)) : v # distance[t]
  BY DEF Retry
<1>3. distance[t] = node_wt[dest(t)]
  BY DEF LastStore
<1>4. CASE program # "sssp_relaxed"
  BY <1>2, <1>3, <1>4 DEF Loads
<1>5. CASE program = "sssp_relaxed"
  <2>1. PICK k \in Visible(t, dest(t)) : v = Stores(dest(t))[k]
    BY <1>2, <1>5 DEF Loads
  <2>2. k = Len(older[dest(t)]) + 1
    <3>1. seen[t][dest(t)] = Len(older[dest(t)]) + 1
      BY <1>5 DEF LastStore
    <3>. QED
      BY <1>1, <2>1, <3>1, StoresAre DEF Visible
  <2>. QED
    BY <1>1, <1>2, <1>3, <2>1, <2>2, StoresAre
<1>. QED
  BY <1>4, <1>5

\* What a thread that has stored does next.
LEMMA AfterStore ==
  ASSUME NEW t \in Thread, Kind(t), ~Release, pc[t] \in HasStored
  PROVE  Confirm(t) \/ Retry(t)
<1>1. pc[t] \notin ControlLabel
  BY DEF HasStored, ControlLabel
<1>. QED
  BY <1>1 DEF Kind, Fill, InitNode, Turn, Look, BodyKind, Extend, Higher, Pass, Shift, Store,
     HasStored, ControlLabel

\* The flag is only reset after the round.
LEMMA FlagStep ==
  ASSUME NEW t \in Thread, Kind(t), changed, ~changed'
  PROVE  Turn(t) /\ pc[t] = "reset"
BY DEF Kind, Release, Fill, InitNode, Turn, Look, BodyKind, Extend, Higher, Pass, Shift, Store,
   Confirm, Retry, NoStore

\* With the first barrier, threads in the loops are in the same phase.
LEMMA SamePhaseOf ==
  ASSUME ProgramPhases, program # "sssp_ex3", NEW t \in Thread, NEW u \in Thread,
         pc[t] # "done", pc[u] # "done"
  PROVE  PhaseOf(pc[t]) = PhaseOf(pc[u])
BY DEF ProgramPhases, PhasesIn, SamePhaseIn, PhaseIn

\* In a settled round they are so in sssp_ex3 too.
LEMMA SettledPhase ==
  ASSUME Loops, ProgramPhases, Settled, NEW t \in Thread, NEW u \in Thread,
         pc[t] # "done", pc[u] # "done"
  PROVE  PhaseOf(pc[t]) = PhaseOf(pc[u])
<1>1. CASE program # "sssp_ex3"
  BY <1>1, SamePhaseOf
<1>2. CASE program = "sssp_ex3"
  <2>1. pc[t] # "init" /\ pc[u] # "init"
    BY <1>2 DEF Settled, Loops, Round
  <2>. QED
    BY <1>2, <2>1 DEF ProgramPhases, PhasesIn, SamePhaseIn, PhaseIn
<1>. QED
  BY <1>1, <1>2

LEMMA AnnouncedStep ==
  ASSUME Walks, Announced, NEW t \in Thread, Kind(t), program' = program
  PROVE  Announced'
<1>. USE DEF Walks, TypeOK, ScanTypeOK
<1>. SUFFICES ASSUME NEW u \in Thread, pc'[u] = "verify", ~changed'
              PROVE  \E w \in Thread : LastStore(w, dest(u))'
  BY DEF Announced, LastStore
<1>0. program \in ExchangePrograms /\ program # "sssp_ex3" /\ program \notin PlainPrograms
  BY VerifyStep DEF ExchangePrograms, AtomicPrograms, PlainPrograms
<1>1. ~Release
  BY DEF Release
<1>2. OthersSame(t)
  BY <1>1 DEF Kind
<1>m. Memory(t)
  BY <1>1 DEF Kind
<1>3. u # t => pc[u] = "verify" /\ dest(u)' = dest(u) /\ dest(u) \in Node
  <2>. SUFFICES ASSUME u # t PROVE pc[u] = "verify" /\ dest(u)' = dest(u) /\ dest(u) \in Node
    OBVIOUS
  <2>1. pc[u] = "verify" /\ edge'[u] = edge[u]
    BY <1>2 DEF OthersSame
  <2>2. InBody(u)
    BY <2>1, Labels DEF InBody, BodyLabel
  <2>. QED
    BY <2>1, <2>2, EdgeInHand DEF dest
<1>4. ~changed
  <2>. SUFFICES ASSUME changed PROVE FALSE
    OBVIOUS
  <2>1. Turn(t) /\ pc[t] = "reset"
    BY FlagStep
  <2>2. pc[u] = "verify"
    BY <1>3, <2>1 DEF Turn, ControlLabel
  <2>. QED
    BY <1>0, <2>1, <2>2, SamePhaseOf DEF PhaseOf
<1>5. CASE u = t \/ (Store(t) /\ dest(u) = dest(t))
  <2>1. Store(t)
    BY <1>1, <1>5, GoesTo DEF HasStored
  <2>2. dest(t) \in Node /\ pc'[t] = "verify" /\ dest(t)' = dest(t)
    BY <1>0, <2>1, StoreInBody DEF Store, Goto, dest
  <2>3. distance'[t] = node_wt'[dest(t)]
    BY <2>1, <2>2 DEF Store
  <2>4. program = "sssp_relaxed" => seen'[t][dest(t)] = Len(older'[dest(t)]) + 1
    BY <1>m, <2>1, <2>2 DEF Memory, MemoryTypeOK
  <2>5. dest(u)' = dest(t)
    BY <1>3, <1>5, <2>2
  <2>. QED
    BY <2>2, <2>3, <2>4, <2>5 DEF LastStore, dest
<1>6. CASE u # t /\ ~(Store(t) /\ dest(u) = dest(t))
  <2>1. PICK w \in Thread : LastStore(w, dest(u))
    BY <1>3, <1>4, <1>6 DEF Announced
  <2>2. w # t
    <3>. SUFFICES ASSUME w = t PROVE FALSE
      OBVIOUS
    <3>1. pc[t] = "verify" /\ dest(t) = dest(u)
      BY <2>1 DEF LastStore
    <3>2. Retry(t)
      BY <1>1, <3>1, AfterStore DEF HasStored, Confirm
    <3>. QED
      BY <2>1, <3>1, <3>2, RetryNotLast
  <2>3. /\ pc'[w] = pc[w] /\ dest(w)' = dest(w) /\ distance'[w] = distance[w]
        /\ seen'[w] = seen[w]
    BY <1>2, <1>m, <2>2 DEF OthersSame, Memory, dest
  <2>4. node_wt'[dest(u)] = node_wt[dest(u)] /\ older'[dest(u)] = older[dest(u)]
    <3>1. ~Fill(t)
      BY <1>0, <1>3, <1>6, NobodyInits DEF Fill, InitNode
    <3>2. CASE Store(t)
      BY <1>m, <1>3, <1>6, <3>2 DEF Store, Memory, MemoryTypeOK
    <3>3. CASE ~Store(t)
      BY <1>1, <3>1, <3>3, KindEffect
    <3>. QED
      BY <3>2, <3>3
  <2>5. LastStore(w, dest(u))'
    BY <1>3, <1>6, <2>1, <2>3, <2>4 DEF LastStore
  <2>. QED
    BY <2>5
<1>. QED
  BY <1>3, <1>5, <1>6

-----------------------------------------------------------------------------
(***************************************************************************)
(* Without a store nothing is missed.                                      *)
(***************************************************************************)
LEMMA TurnMemory ==
  ASSUME NEW t \in Thread, Kind(t), Fill(t) \/ Turn(t)
  PROVE  UNCHANGED older \/ \A n \in Node : older'[n] = <<>>
<1>1. ~Store(t)
  BY DEF Fill, InitNode, Turn, Store, ControlLabel
<1>. QED
  BY <1>1, KindEffect

LEMMA AfterScanStep ==
  ASSUME Walks, AfterScan, NEW t \in Thread, Kind(t), program' = program
  PROVE  AfterScan'
<1>. USE DEF Walks, TypeOK, ScanTypeOK
<1>1. CASE Release
  BY <1>1 DEF Release, AfterScan
<1>2. CASE ~Release
  <2>0. OthersSame(t)
    BY <1>2 DEF Kind
  <2>1. ASSUME NEW u \in Thread, PhaseOf(pc'[u]) \in {"decide", "reset"}, NEW n \in Node
        PROVE  older'[n] = <<>>
    <3>1. CASE u = t
      <4>1. Turn(t)
        BY <1>2, <2>1, <3>1 DEF Kind, Fill, InitNode, Look, BodyKind, Extend, Higher, Pass, Shift,
           Store, Confirm, Retry, NextEdge, Goto, IsLower, BodyLabel, HasStored, PhaseOf
      <4>. QED
        BY <1>2, <2>1, <3>1, <4>1, TurnMemory DEF Turn, AfterScan
    <3>2. CASE u # t
      <4>1. PhaseOf(pc[u]) \in {"decide", "reset"} /\ older[n] = <<>>
        BY <2>0, <2>1, <3>2 DEF OthersSame, AfterScan
      <4>2. ~(program = "sssp_relaxed" /\ Store(t))
        <5>. SUFFICES ASSUME program = "sssp_relaxed", Store(t) PROVE FALSE
          OBVIOUS
        <5>1. pc[t] \in {"exchange", "write"} /\ pc[u] # "done"
          BY <4>1 DEF Store, PhaseOf
        <5>2. PhaseOf(pc[t]) = PhaseOf(pc[u])
          BY <5>1, SamePhaseOf
        <5>. QED
          BY <4>1, <5>1, <5>2 DEF PhaseOf
      <4>. QED
        BY <1>2, <4>1, <4>2, KindEffect
    <3>. QED
      BY <3>1, <3>2
  <2>2. ASSUME NEW u \in Thread, pc'[u] = "endWait" PROVE node'[u] = End(u)
    <3>1. CASE u # t
      BY <2>0, <2>2, <3>1 DEF OthersSame, AfterScan
    <3>2. CASE u = t
      <4>1. Turn(t)
        BY <1>2, <2>2, <3>2 DEF Kind, Fill, InitNode, Look, BodyKind, Extend, Higher, Pass, Shift,
           Store, Confirm, Retry, NextEdge, Goto, IsLower, BodyLabel, HasStored
      <4>. QED
        BY <2>2, <3>2, <4>1 DEF Turn, AfterScan
    <3>. QED
      BY <3>1, <3>2
  <2>. QED
    BY <2>1, <2>2 DEF AfterScan
<1>. QED
  BY <1>1, <1>2

\* As long as nobody is known to have stored, nobody has, apart from the
\* initialisation and the reset of the flag.
LEMMA StirredStep ==
  ASSUME Walks, Announced, NEW t \in Thread, Kind(t), ~Stirred',
         ~Fill(t), ~(Turn(t) /\ pc[t] = "reset")
  PROVE  ~Stirred /\ UNCHANGED node_wt /\ ~Store(t)
<1>. USE DEF Walks, TypeOK, ScanTypeOK, Stirred
<1>1. ~changed
  BY FlagStep
<1>2. ~Store(t)
  BY DEF Store, Goto, HasStored
<1>3. UNCHANGED node_wt
  BY <1>2, KindEffect
<1>4. ASSUME NEW u \in Thread, pc[u] \in HasStored PROVE FALSE
  <2>1. ~Release
    BY <1>4 DEF Release, HasStored
  <2>2. u = t
    BY <1>4, <2>1 DEF Kind, OthersSame
  <2>3. Retry(t)
    BY <1>4, <2>1, <2>2, AfterStore DEF Confirm
  <2>4. PICK w \in Thread : LastStore(w, dest(t))
    BY <1>1, <2>3 DEF Announced, Retry
  <2>5. w # t /\ pc[w] = "verify"
    BY <2>3, <2>4, RetryNotLast DEF LastStore
  <2>. QED
    BY <2>1, <2>5 DEF Kind, OthersSame, HasStored
<1>. QED
  BY <1>1, <1>2, <1>3, <1>4

\* A thread that does not move misses nothing.
LEMMA OtherMissesNothing ==
  ASSUME Walks, NEW t \in Thread, OthersSame(t), UNCHANGED node_wt, program' = program,
         NEW u \in Thread \ {t}, NothingMissed(u)
  PROVE  NothingMissed(u)'
<1>1. /\ pc'[u] = pc[u] /\ node'[u] = node[u] /\ edge'[u] = edge[u]
      /\ distance'[u] = distance[u] /\ register'[u] = register[u]
  BY DEF OthersSame
<1>2. /\ Through(u)' = Through(u) /\ (InBody(u)' <=> InBody(u))
      /\ (Scanning(u)' <=> Scanning(u))
  BY <1>1 DEF Through, InBody, Scanning
<1>3. \A n \in Node : \A e \in Row(n) : Relaxed(u, n, e)' <=> Relaxed(u, n, e)
  BY <1>1, <1>2 DEF Relaxed
<1>. QED
  BY <1>1, <1>2, <1>3 DEF NothingMissed

\* Outside the rounds there is nothing to miss.
LEMMA NoScan ==
  ASSUME NEW t \in Thread, ~Scanning(t), pc[t] \in ControlLabel
  PROVE  NothingMissed(t)
BY Labels DEF NothingMissed, InBody, HasDistance

\* The edge in hand is done when it cannot lower the distance of its head.
LEMMA PassMissesNothing ==
  ASSUME Walks, NEW t \in Thread, Pass(t), NothingMissed(t),
         \A n \in Node : older[n] = <<>>, program' = program
  PROVE  NothingMissed(t)'
<1>. USE DEF Walks, TypeOK, ScanTypeOK
<1>1. /\ InBody(t) /\ dest(t) \in Node /\ node[t] \in Node /\ edge[t] \in Row(node[t])
      /\ pc[t] \in HasDistance
  BY Labels, EdgeInHand DEF Pass, InBody, HasDistance
<1>2. node_wt[dest(t)] <= node_wt[node[t]] + edge_wt[edge[t]]
  <2>1. PICK v \in Loads(t, dest(t)) : v <= distance[t]
    BY DEF Pass
  <2>2. v = node_wt[dest(t)]
    BY <1>1, <2>1, LoadsFresh
  <2>3. distance[t] = Through(t)
    BY <1>1 DEF NothingMissed
  <2>. QED
    BY <2>1, <2>2, <2>3 DEF Through
<1>3. UNCHANGED node_wt /\ distance'[t] = distance[t] /\ register'[t] = register[t]
  BY DEF Pass, NoStore, SameLocals
<1>4. pc'[t] \notin HasDistance /\ (InBody(t)' => node'[t] = node[t])
  BY DEF Pass, NextEdge, HasDistance, BodyLabel, InBody, ControlLabel
<1>5. ASSUME NEW n \in Node, NEW e \in Row(n), Relaxed(t, n, e)'
      PROVE  Relaxed(t, n, e) \/ (n = node[t] /\ e = edge[t])
  <2>n. /\ n \in Int /\ e \in Int /\ node[t] \in Int /\ edge[t] \in Int
        /\ \A m \in Node : row_start[m] \in Int /\ row_start[m + 1] \in Int
    BY <1>1, RowIsEdges DEF Node, Edge
  <2>1. CASE /\ edge[t] + 1 < row_start[node[t] + 1]
             /\ edge' = [edge EXCEPT ![t] = @ + 1] /\ UNCHANGED node
    <3>1. n < node[t] \/ (n = node[t] /\ e < edge[t] + 1)
      BY <1>5, <2>1 DEF Relaxed
    <3>2. e < edge[t] + 1 => e < edge[t] \/ e = edge[t]
      BY <2>n
    <3>. QED
      BY <1>1, <3>1, <3>2 DEF Relaxed
  <2>2. CASE /\ edge[t] + 1 >= row_start[node[t] + 1]
             /\ node' = [node EXCEPT ![t] = @ + 1] /\ pc' = [pc EXCEPT ![t] = "node"]
    <3>1. n < node[t] + 1
      BY <1>5, <2>2 DEF Relaxed, InBody, ControlLabel
    <3>2. n < node[t] \/ n = node[t]
      BY <2>n, <3>1
    <3>3. n = node[t] => e < edge[t] \/ e = edge[t]
      <4>1. n = node[t] => e <= row_start[node[t] + 1] - 1
        BY <1>1, <2>n DEF Row
      <4>. QED
        BY <1>1, <2>n, <2>2, <4>1
    <3>. QED
      BY <1>1, <3>2, <3>3 DEF Relaxed
  <2>. QED
    BY <2>1, <2>2 DEF Pass, NextEdge
<1>6. Scanning(t)
  BY <1>1 DEF Scanning
<1>7. ASSUME NEW n \in Node, n \in Start(t) .. End(t) - 1, node_wt[n] # INF,
             NEW e \in Row(n), Relaxed(t, n, e)'
      PROVE  node_wt[edge_dst[e]] <= node_wt[n] + edge_wt[e]
  BY <1>2, <1>5, <1>6, <1>7 DEF NothingMissed, dest
<1>. QED
  BY <1>1, <1>3, <1>4, <1>7 DEF NothingMissed

\* The loops around the body, and the look at a node.
LEMMA TurnMissesNothing ==
  ASSUME Walks, NEW t \in Thread, Turn(t), NothingMissed(t)
  PROVE  NothingMissed(t)'
<1>. USE DEF Walks, TypeOK, ScanTypeOK
<1>1. ~InBody(t)' /\ pc'[t] \notin HasDistance /\ UNCHANGED node_wt
  BY Labels DEF Turn, InBody, HasDistance
<1>2. ASSUME Scanning(t)', NEW n \in Node, n \in Start(t) .. End(t) - 1, node_wt[n] # INF,
             NEW e \in Row(n), Relaxed(t, n, e)'
      PROVE  node_wt[edge_dst[e]] <= node_wt[n] + edge_wt[e]
  <2>1. n < node'[t] /\ pc'[t] \in {"node", "endWait"}
    BY <1>1, <1>2 DEF Relaxed, Scanning
  <2>2. CASE node'[t] = Start(t)
    BY <1>2, <2>1, <2>2, ThreadSlice DEF Node
  <2>3. CASE pc[t] \in {"node", "endWait"} /\ node'[t] = node[t]
    BY <1>2, <2>1, <2>3 DEF NothingMissed, Relaxed, Scanning
  <2>. QED
    BY <2>1, <2>2, <2>3 DEF Turn
<1>. QED
  BY <1>1, <1>2 DEF NothingMissed

LEMMA LookMissesNothing ==
  ASSUME Walks, NEW t \in Thread, Look(t), NothingMissed(t),
         \A n \in Node : older[n] = <<>>, program' = program
  PROVE  NothingMissed(t)'
<1>. USE DEF Walks, TypeOK, ScanTypeOK
<1>1. node[t] \in Node /\ pc[t] = "node" /\ ~InBody(t) /\ Scanning(t) /\ UNCHANGED node_wt
  BY NodeInHand DEF Look, NoStore, InBody, ControlLabel, Scanning
<1>2. PICK v \in Loads(t, node[t]) :
        \/ /\ v = INF \/ Row(node[t]) = {}
           /\ node' = [node EXCEPT ![t] = @ + 1]
           /\ UNCHANGED <<pc, edge>>
        \/ /\ v # INF /\ Row(node[t]) # {}
           /\ edge' = [edge EXCEPT ![t] = row_start[node[t]]]
           /\ pc' = [pc EXCEPT ![t] = "relax"]
           /\ UNCHANGED node
           /\ program \in PlainPrograms => register'[t] = v
  BY DEF Look
<1>3. v = node_wt[node[t]]
  BY <1>1, <1>2, LoadsFresh
<1>4. pc'[t] \in {"node", "relax"} /\ pc'[t] \notin HasDistance
  BY <1>1, <1>2 DEF HasDistance, BodyLabel
<1>5. ASSUME NEW n \in Node, node_wt[n] # INF, NEW e \in Row(n), Relaxed(t, n, e)'
      PROVE  Relaxed(t, n, e)
  <2>1. n \in Int /\ node[t] \in Int
    BY <1>1 DEF Node
  <2>2. CASE /\ v = INF \/ Row(node[t]) = {}
             /\ node' = [node EXCEPT ![t] = @ + 1] /\ UNCHANGED <<pc, edge>>
    <3>1. n < node[t] + 1
      BY <1>1, <1>5, <2>2 DEF Relaxed, InBody
    <3>2. n # node[t]
      BY <1>3, <1>5, <2>2
    <3>. QED
      BY <2>1, <3>1, <3>2 DEF Relaxed
  <2>3. CASE edge' = [edge EXCEPT ![t] = row_start[node[t]]] /\ UNCHANGED node
    <3>1. n < node[t] \/ (n = node[t] /\ e < row_start[node[t]])
      BY <1>5, <2>3 DEF Relaxed
    <3>2. n = node[t] => ~(e < row_start[node[t]])
      <4>1. n = node[t] => e \in row_start[node[t]] .. row_start[node[t] + 1] - 1
        BY <1>5 DEF Row
      <4>2. row_start[node[t]] \in Int /\ row_start[node[t] + 1] \in Int
        BY <1>1, RowIsEdges
      <4>. QED
        BY <4>1, <4>2
    <3>. QED
      BY <3>1, <3>2 DEF Relaxed
  <2>. QED
    BY <1>2, <2>2, <2>3
<1>6. program \in PlainPrograms /\ InBody(t)' => register'[t] = node_wt'[node'[t]]
  BY <1>1, <1>2, <1>3 DEF InBody
<1>. QED
  BY <1>1, <1>4, <1>5, <1>6 DEF NothingMissed

\* The steps of the body that stay at their edge.
LEMMA StayMissesNothing ==
  ASSUME Walks, NEW t \in Thread, Extend(t) \/ Higher(t) \/ Shift(t), NothingMissed(t),
         \A n \in Node : older[n] = <<>>, program' = program
  PROVE  NothingMissed(t)'
<1>. USE DEF Walks, TypeOK, ScanTypeOK
<1>1. InBody(t) /\ UNCHANGED <<node, edge, node_wt>> /\ InBody(t)' /\ pc'[t] \notin ControlLabel
  <2>1. pc[t] \in BodyLabel /\ pc'[t] \in BodyLabel
    BY DEF Extend, Higher, Shift, Goto, BodyLabel, HasDistance, IsLower
  <2>2. UNCHANGED <<node, edge, node_wt>>
    BY DEF Extend, Higher, Shift, Goto, NoStore
  <2>. QED
    BY <2>1, <2>2, Labels DEF InBody
<1>2. node[t] \in Node
  BY <1>1, EdgeInHand
<1>3. Through(t)' = Through(t)
  BY <1>1 DEF Through
<1>4. /\ pc'[t] \in HasDistance => distance'[t] = Through(t)
      /\ program \in PlainPrograms => register'[t] = node_wt[node[t]]
  <2>1. CASE Extend(t)
    <3>1. PICK v \in Loads(t, node[t]) \cup Kept(t) :
            /\ distance'[t] = v + edge_wt[edge[t]]
            /\ program \in PlainPrograms => register'[t] = v
      BY <2>1 DEF Extend
    <3>2. v = node_wt[node[t]]
      BY <1>1, <1>2, <3>1, LoadsFresh DEF Kept, NothingMissed
    <3>. QED
      BY <3>1, <3>2 DEF Through
  <2>2. CASE Higher(t) \/ Shift(t)
    <3>1. SameLocals(t) /\ (pc'[t] \in HasDistance => pc[t] \in HasDistance)
      BY <2>2 DEF Higher, Shift, Goto
    <3>. QED
      BY <1>1, <3>1 DEF SameLocals, NothingMissed
  <2>. QED
    BY <2>1, <2>2
<1>5. \A n \in Node : \A e \in Row(n) : Relaxed(t, n, e)' <=> Relaxed(t, n, e)
  BY <1>1 DEF Relaxed
<1>6. Scanning(t)
  BY <1>1 DEF Scanning
<1>. QED
  BY <1>1, <1>3, <1>4, <1>5, <1>6 DEF NothingMissed

LEMMA CalmStep ==
  ASSUME Walks, Announced, AfterScan, Calm, NEW t \in Thread, Kind(t), program' = program,
         (\A u \in Thread : Round(u)' = Round(u)) \/ Release
  PROVE  Calm'
<1>. USE DEF Walks, TypeOK, ScanTypeOK
<1>. SUFFICES ASSUME Settled', ~Stirred'
              PROVE  (\A n \in Node : older'[n] = <<>>) /\ \A u \in Thread : NothingMissed(u)'
  BY DEF Calm
<1>0. ~Release => Settled
  BY DEF Settled
<1>1. CASE Fill(t)
  <2>0. Settled
    BY <1>0, <1>1 DEF Fill, InitNode, Release
  <2>1. \A u \in Thread : pc[u] \in {"init", "initWait"} /\ pc'[u] = pc[u]
    BY <1>1, <2>0, SettledInits DEF Fill, InitNode
  <2>2. ~Stirred
    BY <1>1, <2>1 DEF Fill, InitNode, Stirred, HasStored
  <2>3. \A u \in Thread : ~Scanning(u)' /\ pc'[u] \in ControlLabel
    BY <2>1 DEF Scanning, InBody, ControlLabel
  <2>4. \A u \in Thread : NothingMissed(u)'
    BY <2>3, Labels DEF NothingMissed, InBody, HasDistance
  <2>. QED
    BY <1>1, <2>0, <2>2, <2>4, TurnMemory DEF Calm
<1>2. CASE Turn(t) /\ pc[t] = "reset"
  <2>1. \A n \in Node : older'[n] = <<>>
    BY <1>2, TurnMemory DEF AfterScan, PhaseOf
  <2>2. \A u \in Thread : PhaseOf(pc[u]) = "reset"
    <3>1. PhasesIn(FALSE) \/ PhasesIn(TRUE)
      BY DEF ProgramPhases
    <3>2. \A u \in Thread : pc[u] # "done"
      BY <1>2, <3>1 DEF PhasesIn, LeaveIn
    <3>3. Settled
      BY <1>0, <1>2 DEF Release
    <3>. QED
      BY <1>2, <3>2, <3>3, SettledPhase DEF PhaseOf
  <2>3. \A u \in Thread : pc[u] \in {"reset", "againWait"}
    BY <2>2 DEF PhaseOf
  <2>4. OthersSame(t) /\ UNCHANGED node_wt
    BY <1>2, <2>3 DEF Kind, Release, Turn
  <2>5. \A u \in Thread : NothingMissed(u)
    BY <2>3, Labels DEF NothingMissed, InBody, Scanning, HasDistance, ControlLabel
  <2>6. ASSUME NEW u \in Thread PROVE NothingMissed(u)'
    <3>1. CASE u = t
      BY <1>2, <2>5, <3>1, TurnMissesNothing
    <3>2. CASE u # t
      BY <2>4, <2>5, <3>2, OtherMissesNothing
    <3>. QED
      BY <3>1, <3>2
  <2>. QED
    BY <2>1, <2>6
<1>3. CASE Release
  <2>1. \A n \in Node : older'[n] = <<>>
    BY <1>3 DEF Release
  <2>2. \A u \in Thread : ~Scanning(u)' /\ pc'[u] \in ControlLabel
    BY <1>3 DEF Release, Scanning, InBody, ControlLabel
  <2>3. \A u \in Thread : NothingMissed(u)'
    BY <2>2, Labels DEF NothingMissed, InBody, HasDistance
  <2>. QED
    BY <2>1, <2>3
<1>4. CASE ~Release /\ ~Fill(t) /\ ~(Turn(t) /\ pc[t] = "reset")
  <2>1. ~Stirred /\ UNCHANGED node_wt /\ ~Store(t)
    BY <1>4, StirredStep
  <2>2. (\A n \in Node : older[n] = <<>>) /\ \A u \in Thread : NothingMissed(u)
    BY <1>0, <1>4, <2>1 DEF Calm
  <2>3. \A n \in Node : older'[n] = <<>>
    BY <2>1, <2>2, KindEffect
  <2>4. OthersSame(t)
    BY <1>4 DEF Kind
  <2>5. NothingMissed(t)'
    <3>1. ~Confirm(t) /\ ~Retry(t)
      BY <2>1 DEF Confirm, Retry, Stirred, HasStored
    <3>2. Turn(t) \/ Look(t) \/ Extend(t) \/ Higher(t) \/ Shift(t) \/ Pass(t)
      BY <1>4, <2>1, <3>1 DEF Kind, BodyKind
    <3>. QED
      BY <2>2, <3>2, TurnMissesNothing, LookMissesNothing, StayMissesNothing, PassMissesNothing
  <2>6. \A u \in Thread \ {t} : NothingMissed(u)'
    BY <2>1, <2>2, <2>4, OtherMissesNothing
  <2>. QED
    BY <2>3, <2>5, <2>6
<1>. QED
  BY <1>1, <1>2, <1>3, <1>4

\* The round ends with the release of the barrier behind the scan.
LEMMA EarlyExitStep ==
  ASSUME Walks, Stores2, NEW t \in Thread, Kind(t), program' = program,
         (\A u \in Thread : Round(u)' = Round(u)) \/ (Release /\ UNCHANGED rounds)
  PROVE  GuardedEarlyExit'
<1>. USE DEF Walks, TypeOK, ScanTypeOK, Stores2
<1>. SUFFICES ASSUME Settled', NEW u \in Thread, pc'[u] = "test", ~changed'
              PROVE  Closed(node_wt')
  BY DEF GuardedEarlyExit, EarlyExitIsFixpoint, Closed
<1>1. CASE Release
  <2>1. \A w \in Thread : pc[w] = "endWait"
    <3>1. pc[u] = "endWait"
      BY <1>1 DEF Release
    <3>2. \A w \in Thread : pc[w] \in {"initWait", "endWait", "resetWait", "againWait"}
      BY <1>1 DEF Release
    <3>3. ProgramPhases
      OBVIOUS
    <3>4. \A w \in Thread : PhaseOf(pc[w]) = PhaseOf(pc[u])
      BY <3>1, <3>2, <3>3 DEF ProgramPhases, PhasesIn, SamePhaseIn, PhaseIn
    <3>. QED
      BY <3>1, <3>2, <3>4 DEF PhaseOf
  <2>0. Settled
    <3>1. \A w \in Thread : pc[w] # "again" /\ pc'[w] # "again"
      BY <1>1, <2>1 DEF Release
    <3>2. \A w \in Thread : Round(w)' = Round(w)
      BY <3>1 DEF Round
    <3>. QED
      BY <3>2 DEF Settled
  <2>2. ~Stirred /\ node_wt' = node_wt
    BY <1>1, <2>1 DEF Release, Stirred, HasStored
  <2>3. ASSUME NEW n \in Node, node_wt[n] # INF, NEW e \in Row(n)
        PROVE  node_wt[edge_dst[e]] <= node_wt[n] + edge_wt[e]
    <3>1. PICK w \in Thread : n \in Start(w) .. End(w) - 1
      BY NodeCovered
    <3>2. node[w] = End(w) /\ Scanning(w) /\ NothingMissed(w)
      BY <2>0, <2>1, <2>2 DEF AfterScan, Scanning, Calm
    <3>3. Relaxed(w, n, e)
      BY <3>1, <3>2, ThreadSlice DEF Relaxed, Node
    <3>. QED
      BY <2>3, <3>1, <3>2, <3>3 DEF NothingMissed
  <2>. QED
    BY <2>2, <2>3 DEF Closed
<1>2. CASE ~Release
  <2>1. u # t
    BY <1>2 DEF Kind, Fill, InitNode, Turn, Look, BodyKind, Extend, Higher, Pass, Shift, Store,
       Confirm, Retry, NextEdge, Goto, IsLower, BodyLabel, HasStored
  <2>0. Settled
    BY <1>2 DEF Settled
  <2>2. pc[u] = "test"
    BY <1>2, <2>1 DEF Kind, OthersSame
  <2>3. pc[t] # "done" => PhaseOf(pc[t]) = "decide"
    BY <2>0, <2>2, SettledPhase DEF PhaseOf
  <2>4. ~changed
    BY <2>3, FlagStep DEF PhaseOf
  <2>5. UNCHANGED node_wt
    BY <2>3, KindEffect DEF Fill, InitNode, Store, PhaseOf
  <2>. QED
    BY <2>0, <2>2, <2>4, <2>5 DEF GuardedEarlyExit, EarlyExitIsFixpoint, Closed
<1>. QED
  BY <1>1, <1>2

-----------------------------------------------------------------------------
(***************************************************************************)
(* The invariant, and what follows from it.                                *)
(***************************************************************************)
LEMMA IInvInit == Init => IInv
<1>. SUFFICES ASSUME Init PROVE IInv
  OBVIOUS
<1>. USE DEF Init, ScanInit, BodyInit, MemoryInit, Fresh, LockInit
<1>1. Walks
  BY WalksInit
<1>2. \A t \in Thread : pc[t] = "init" /\ pc[t] \in ControlLabel
  BY DEF ControlLabel
<1>3. Announced /\ AfterScan
  BY <1>2 DEF Announced, AfterScan, PhaseOf
<1>4. Calm
  BY <1>2, Labels DEF Calm, NothingMissed, InBody, Scanning, HasDistance
<1>5. GuardedEarlyExit
  BY <1>2 DEF GuardedEarlyExit, EarlyExitIsFixpoint
<1>6. MutexHeld
  BY <1>2, NoThreadAssumption DEF MutexHeld
<1>. QED
  BY <1>1, <1>3, <1>4, <1>5, <1>6 DEF IInv, Stores2

LEMMA IInvStep == IInv /\ [Next]_vars => IInv'
<1>. SUFFICES ASSUME IInv, [Next]_vars PROVE IInv'
  OBVIOUS
<1>. USE DEF IInv, Stores2
<1>1. Walks'
  BY WalksStep
<1>2. ASSUME NEW t \in Thread, ThreadStep(t) PROVE Stores2' /\ MutexHeld'
  <2>1. Kind(t) /\ program' = program
    BY <1>2, StepKind DEF Walks
  <2>2. Announced' /\ AfterScan'
    BY <2>1, AnnouncedStep, AfterScanStep
  <2>0. (\A u \in Thread : Round(u)' = Round(u)) \/ (Release /\ UNCHANGED rounds)
    BY <1>2, RoundKept DEF Walks
  <2>3. Calm' /\ GuardedEarlyExit'
    BY <2>0, <2>1, CalmStep, EarlyExitStep
  <2>4. MutexHeld'
    BY <1>2, MutexStep
  <2>. QED
    BY <2>2, <2>3, <2>4
<1>3. CASE UNCHANGED vars
  <2>. USE <1>3 DEF vars, scanVars, roundVars, bodyVars, exchangeVars, memoryVars, mutexVars
  <2>1. Announced' /\ AfterScan'
    BY DEF Announced, LastStore, AfterScan, dest
  <2>2. Calm'
    BY DEF Calm, Settled, Round, Stirred, NothingMissed, Scanning, InBody, Relaxed, Through
  <2>3. GuardedEarlyExit' /\ MutexHeld'
    BY DEF GuardedEarlyExit, Settled, Round, EarlyExitIsFixpoint, Closed, MutexHeld
  <2>. QED
    BY <1>1, <2>1, <2>2, <2>3
<1>. QED
  BY <1>1, <1>2, <1>3 DEF Next, Terminating

THEOREM Invariant == Spec => []IInv
BY IInvInit, IInvStep, PTL DEF Spec

\* Two threads of sssp_nodelock are at conflicting accesses of a distance only
\* if one of them stores it under the mutexes and the other one is at the
\* unlocked test whether its node is reached (sssp_nodelock.cpp:44).
THEOREM RacesCorrect == Spec => []RacesOnlyAtTest
<1>1. ASSUME IInv, program = "sssp_nodelock", NEW t \in Thread, NEW u \in Thread, t # u,
             NEW n \in StoresTo(t), n \in Reads(u) \cup StoresTo(u)
      PROVE  pc[t] = "write" /\ pc[u] = "node"
  <2>. USE <1>1 DEF IInv, Walks, TypeOK, ScanTypeOK
  <2>n. t # NoThread /\ u # NoThread
    BY NoThreadAssumption
  <2>1. \/ pc[t] = "init" /\ node[t] < End(t) /\ n = node[t]
        \/ pc[t] = "write"
    BY DEF StoresTo
  <2>2. \/ pc[u] \in {"node", "readTail", "readHead", "write"}
        \/ pc[u] = "init" /\ node[u] < End(u) /\ n = node[u]
    BY DEF Reads, StoresTo
  <2>3. CASE pc[t] = "init"
    <3>1. pc[u] \in {"init", "initWait"}
      BY <2>3, NobodyInits
    <3>2. n \in Node /\ n \in Start(t) .. End(t) - 1 /\ n \in Start(u) .. End(u) - 1
      BY <2>1, <2>2, <2>3, <3>1, NodeInHand
    <3>. QED
      BY <3>2, OwnSlice
  <2>4. CASE pc[t] = "write"
    <3>1. pc[u] # "init"
      BY <2>4, NobodyInits
    <3>2. pc[u] \notin {"readTail", "readHead", "write"}
      BY <2>4 DEF MutexHeld
    <3>. QED
      BY <2>2, <2>4, <3>1, <3>2
  <2>. QED
    BY <2>1, <2>3, <2>4
<1>2. IInv => RacesOnlyAtTest
  BY <1>1 DEF RacesOnlyAtTest
<1>. QED
  BY <1>2, Invariant, PTL

\* As long as the flag is unset, the last of the threads that stored into a
\* node has not looked at its store yet, and will find it.
THEOREM StoreAnnouncedCorrect == Spec => []StoreAnnounced
<1>1. IInv => StoreAnnounced
  BY DEF IInv, Stores2, Announced, LastStore, StoreAnnounced
<1>. QED
  BY <1>1, Invariant, PTL

\* No edge can lower a distance when the threads stop early, except in the first
\* round of sssp_ex3.
THEOREM GuardedEarlyExitCorrect == Spec => []GuardedEarlyExit
<1>1. IInv => GuardedEarlyExit
  BY DEF IInv, Stores2
<1>. QED
  BY <1>1, Invariant, PTL

\* So the distances are then the right ones, although the same programs may
\* end with wrong ones when they run out of rounds.
EarlyExitIsDist ==
  Settled /\ (\E t \in Thread : pc[t] = "test") /\ ~changed => node_wt = Dist

THEOREM EarlyExitCorrect == Spec => []EarlyExitIsDist
<1>1. ASSUME IInv, Settled, NEW t \in Thread, pc[t] = "test", ~changed
      PROVE  node_wt = Dist
  <2>1. Closed(node_wt)
    BY <1>1 DEF IInv, Stores2, GuardedEarlyExit, EarlyExitIsFixpoint
  <2>2. node_wt \in [Node -> Weight] /\ node_wt[src] <= 0
    BY <1>1 DEF IInv, Walks, TypeOK, ScanTypeOK, SourceIsZero
  <2>3. \A n \in Node : Dist[n] <= node_wt[n]
    <3>1. \A u \in Thread : pc[u] # "init"
      BY <1>1, SettledInits DEF IInv, Walks
    <3>. QED
      BY <1>1, <3>1 DEF IInv, Walks, NotTooLow, Ready
  <2>. QED
    BY <2>1, <2>2, <2>3, ClosedIsDist
<1>2. IInv => EarlyExitIsDist
  BY <1>1 DEF EarlyExitIsDist
<1>. QED
  BY <1>2, Invariant, PTL
-----------------------------------------------------------------------------
(***************************************************************************)
(* sssp and sssp_no_atomic: a thread for every slice and round.            *)
(*                                                                         *)
(* The bodies are those of sssp_barrier and sssp_ex3, so that the invariant*)
(* says the same of them; that main joins the threads takes the place of   *)
(* the barriers.                                                           *)
(***************************************************************************)
SpawnLabel == {"none", "init", "node"} \cup BodyLabel
MainLabel == {"spawnInit", "joinInit", "loop", "spawn", "join", "test", "done"}

SpawnTypeOK ==
  /\ ScanTypeOK(SpawnLabel)
  /\ LocalTypeOK
  /\ main \in MainLabel
  /\ next \in Thread
  /\ \A t \in Thread : pc[t] = "verify" => program \in AtomicPrograms

\* A thread runs from its start until main has joined it, and it runs what
\* main has started it for.
SpawnControl ==
  /\ \A t \in Thread : pc[t] = "init" =>
       \/ main = "spawnInit" /\ t < next
       \/ main = "joinInit" /\ t >= next
  /\ \A t \in Thread : pc[t] \notin {"none", "init"} =>
       \/ main = "spawn" /\ t < next
       \/ main = "join" /\ t >= next
  /\ main \in {"loop", "test", "done"} => next = 0

\* The edge in hand leads from the node in hand.
EdgeLoops ==
  \A t \in Thread : pc[t] \in BodyLabel => node[t] < End(t) /\ edge[t] \in Row(node[t])

\* Thread t of this round has been started; a thread that has returned has
\* been at every node of its slice.
Started(t) == (main = "spawn" /\ t < next) \/ main \in {"join", "test"}
Returned == \A t \in Thread : Started(t) /\ pc[t] = "none" => node[t] = End(t)

\* Node n of the slice of thread t has been initialised.
Filled(t, n) ==
  /\ main = "spawnInit" => t < next
  /\ pc[t] = "init" => n < node[t]

\* As NotTooLow, without older values.
SpawnNotTooLow ==
  /\ \A t \in Thread : \A n \in Node :
       n \in Start(t) .. End(t) - 1 /\ Filled(t, n) => Dist[n] <= node_wt[n]
  /\ \A t \in Thread : pc[t] \in BodyLabel => Dist[node[t]] # INF
  /\ \A t \in Thread : pc[t] \in HasDistance => Dist[dest(t)] <= distance[t]
  /\ \A t \in Thread :
       program \in PlainPrograms /\ pc[t] \in BodyLabel => Dist[node[t]] <= register[t]

SpawnWalks ==
  /\ SpawnTypeOK /\ SpawnControl /\ EdgeLoops /\ Storable /\ node_wt[src] = 0
  /\ SpawnNotTooLow

\* As Announced.
SpawnAnnounced ==
  \A t \in Thread : pc[t] = "verify" /\ ~changed =>
    \E u \in Thread : /\ pc[u] = "verify" /\ dest(u) = dest(t)
                      /\ distance[u] = node_wt[dest(t)]

\* Thread t is done with edge e of node n in this round.
Visited(t, n, e) ==
  /\ Started(t)
  /\ n < node[t] \/ (n = node[t] /\ pc[t] \in BodyLabel /\ e < edge[t])

\* As NothingMissed and Calm.
SpawnMissesNothing(t) ==
  /\ pc[t] \in HasDistance => distance[t] = Through(t)
  /\ program \in PlainPrograms /\ pc[t] \in BodyLabel => register[t] = node_wt[node[t]]
  /\ \A n \in Node : n \in Start(t) .. End(t) - 1 /\ node_wt[n] # INF =>
       \A e \in Row(n) : Visited(t, n, e) => node_wt[edge_dst[e]] <= node_wt[n] + edge_wt[e]
SpawnCalm == ~Stirred => \A t \in Thread : SpawnMissesNothing(t)

SpawnInv == SpawnWalks /\ Returned /\ SpawnAnnounced /\ SpawnCalm

\* The steps of a started thread outside the body.
Enter(t) ==
  /\ EnterNode(t)
  /\ program \in PlainPrograms => register'[t] = node_wt[node[t]]
Return(t) ==
  /\ pc[t] \in {"init", "node"} /\ node[t] >= End(t)
  /\ Goto(t, "none")
  /\ NoStore
SpawnKind(t) ==
  /\ OthersSame(t)
  /\ \/ Fill(t) \/ SkipNode(t) \/ Enter(t) \/ Return(t)
     \/ BodyKind(t) /\ program \in AtomicPrograms \cup PlainPrograms

LEMMA SpawnLabels ==
  /\ HasDistance \subseteq BodyLabel /\ IsLower \subseteq HasDistance
  /\ HasStored \subseteq HasDistance
  /\ {"none", "init", "node"} \cap BodyLabel = {}
BY DEF HasDistance, IsLower, HasStored, BodyLabel

\* As EdgeInHand.
LEMMA SpawnInHand ==
  ASSUME SpawnTypeOK, EdgeLoops, NEW t \in Thread, pc[t] \in BodyLabel
  PROVE  /\ node[t] \in Node /\ node[t] \in Start(t) .. End(t) - 1
         /\ edge[t] \in Row(node[t]) /\ edge[t] \in Edge
         /\ dest(t) \in Node /\ edge_wt[edge[t]] \in Int
         /\ node_wt[node[t]] \in Int /\ node_wt[dest(t)] \in Int /\ node_wt[dest(t)] <= INF
<1>1. node[t] < End(t) /\ edge[t] \in Row(node[t])
  BY DEF EdgeLoops
<1>2. node[t] \in Node /\ node[t] \in Start(t) .. End(t) - 1
  BY <1>1, ThreadSlice, CSRAssumption DEF SpawnTypeOK, ScanTypeOK, Node
<1>3. edge[t] \in Edge
  BY <1>1, <1>2, RowIsEdges
<1>4. dest(t) \in Node /\ edge_wt[edge[t]] \in Int
  BY <1>3, CSRAssumption DEF dest
<1>. QED
  BY <1>1, <1>2, <1>3, <1>4 DEF SpawnTypeOK, ScanTypeOK, Weight

LEMMA SpawnStepKind ==
  ASSUME SpawnTypeOK, EdgeLoops, NEW t \in Thread, SpawnedStep(t)
  PROVE  SpawnKind(t) /\ program' = program /\ UNCHANGED mainVars
<1>. USE DEF SpawnTypeOK, ScanTypeOK, LocalTypeOK
<1>m. UNCHANGED mainVars
  BY DEF SpawnedStep
<1>1. CASE SpawnedControl(t) /\ OutsideBody(t)
  <2>1. UNCHANGED <<distance, program>>
    BY <1>1 DEF OutsideBody, exchangeVars
  <2>2. \A u \in Thread \ {t} : register'[u] = register[u]
    BY <1>1 DEF OutsideBody, LoadRegister
  <2>3. ~(pc[t] = "node" /\ pc'[t] = "relax") => UNCHANGED register
    BY <1>1 DEF OutsideBody, LoadRegister
  <2>4. CASE InitNode(t)
    BY <2>1, <2>3, <2>4, <1>m DEF SpawnKind, OthersSame, Fill, InitNode
  <2>5. CASE EndInit(t, "none") \/ EndSlice(t, "none")
    BY <2>1, <2>2, <2>5, <1>m DEF SpawnKind, OthersSame, Return, EndInit, EndSlice, Goto, NoStore
  <2>6. CASE SkipNode(t)
    BY <2>1, <2>2, <2>6, <1>m DEF SpawnKind, OthersSame, SkipNode
  <2>7. CASE EnterNode(t)
    <3>1. program \in PlainPrograms => register'[t] = node_wt[node[t]]
      BY <1>1, <2>7 DEF OutsideBody, LoadRegister, EnterNode
    <3>2. OthersSame(t)
      BY <2>1, <2>2, <2>7 DEF OthersSame, EnterNode
    <3>. QED
      BY <1>m, <2>1, <2>7, <3>1, <3>2 DEF SpawnKind, Enter
  <2>. QED
    BY <1>1, <2>4, <2>5, <2>6, <2>7 DEF SpawnedControl
<1>2. CASE BodyStep(t)
  <2>1. pc[t] \in BodyLabel => dest(t) \in Node /\ node[t] \in Node
    BY SpawnInHand
  <2>2. ScanTypeOK(SpawnLabel) /\ LocalTypeOK
    BY DEF SpawnTypeOK
  <2>. QED
    BY ONLY <1>2, <1>m, <2>1, <2>2, t \in Thread, BodyStepKind DEF SpawnKind
<1>. QED
  BY <1>1, <1>2 DEF SpawnedStep

\* A load returns the value of the node.
LEMMA SpawnLoads ==
  ASSUME NEW t \in Thread, program \in AtomicPrograms \cup PlainPrograms, NEW n
  PROVE  Loads(t, n) = {node_wt[n]}
BY DEF Loads, AtomicPrograms, PlainPrograms

\* Where the steps of the body lead.
LEMMA BodyKindGoes ==
  ASSUME NEW t \in Thread, BodyKind(t)
  PROVE  /\ pc[t] \in BodyLabel
         /\ (\E l \in BodyLabel : Goto(t, l)) \/ (NextEdge(t) /\ (Pass(t) \/ Confirm(t)))
         /\ UNCHANGED node_wt \/ Store(t)
         /\ UNCHANGED changed \/ (Confirm(t) /\ changed' = TRUE)
<1>. USE DEF BodyLabel, HasDistance, HasStored, IsLower, NoStore
<1>1. CASE Extend(t) \/ Higher(t) \/ Shift(t) \/ Retry(t)
  BY <1>1 DEF Extend, Higher, Shift, Retry, Goto
<1>2. CASE Pass(t) \/ Confirm(t)
  BY <1>2 DEF Pass, Confirm
<1>3. CASE Store(t)
  BY <1>3 DEF Store, Goto
<1>. QED
  BY <1>1, <1>2, <1>3 DEF BodyKind

\* As GoesTo.
LEMMA SpawnGoesTo ==
  ASSUME SpawnTypeOK, NEW t \in Thread, SpawnKind(t)
  PROVE  /\ pc'[t] \in IsLower => Higher(t) \/ (Shift(t) /\ pc[t] \in IsLower)
         /\ pc'[t] \in HasStored => Store(t)
         /\ pc'[t] \in HasDistance =>
              \/ Extend(t)
              \/ /\ Higher(t) \/ Shift(t) \/ Store(t)
                 /\ pc[t] \in HasDistance /\ UNCHANGED <<node, edge>> /\ distance'[t] = distance[t]
         /\ pc'[t] \in BodyLabel =>
              \/ Enter(t) /\ pc'[t] = "relax"
              \/ BodyKind(t) /\ pc[t] \in BodyLabel /\ node'[t] = node[t]
<1>. USE DEF SpawnTypeOK, ScanTypeOK, HasDistance, IsLower, HasStored, BodyLabel, Goto, SameLocals
<1>1. CASE Fill(t) \/ SkipNode(t) \/ Return(t)
  BY <1>1 DEF Fill, InitNode, SkipNode, Return
<1>2. CASE Enter(t)
  BY <1>2 DEF Enter, EnterNode
<1>4. CASE Extend(t)
  BY <1>4 DEF Extend, BodyKind
<1>5. CASE Higher(t)
  BY <1>5 DEF Higher, BodyKind
<1>6. CASE Pass(t)
  BY <1>6 DEF Pass, NextEdge, BodyKind
<1>7. CASE Shift(t)
  BY <1>7 DEF Shift, BodyKind
<1>8. CASE Store(t)
  BY <1>8 DEF Store, BodyKind
<1>9. CASE Confirm(t)
  BY <1>9 DEF Confirm, NextEdge, BodyKind
<1>10. CASE Retry(t)
  BY <1>10 DEF Retry, BodyKind
<1>. QED
  BY <1>1, <1>2, <1>4, <1>5, <1>6, <1>7, <1>8, <1>9, <1>10 DEF SpawnKind, BodyKind

\* A thread in its edge loops runs between two joins, and nobody initialises.
LEMMA InRound ==
  ASSUME SpawnControl, NEW t \in Thread, pc[t] \notin {"none", "init"}
  PROVE  /\ main \in {"spawn", "join"} /\ Started(t)
         /\ \A u \in Thread : pc[u] # "init"
         /\ \A u \in Thread : \A n : Filled(u, n)
<1>1. main \in {"spawn", "join"} /\ Started(t)
  BY DEF SpawnControl, Started
<1>2. \A u \in Thread : pc[u] # "init"
  BY <1>1 DEF SpawnControl
<1>. QED
  BY <1>1, <1>2 DEF Filled

\* Only initialisations and stores change the distances; no thread resets
\* the flag.
LEMMA SpawnEffect ==
  ASSUME NEW t \in Thread, SpawnKind(t)
  PROVE  /\ UNCHANGED node_wt \/ Fill(t) \/ Store(t)
         /\ UNCHANGED changed \/ (Confirm(t) /\ changed' = TRUE)
<1>1. CASE BodyKind(t)
  BY <1>1, BodyKindGoes
<1>2. CASE Fill(t) \/ SkipNode(t) \/ Enter(t) \/ Return(t)
  BY <1>2 DEF Fill, InitNode, SkipNode, Enter, EnterNode, Return, NoStore
<1>. QED
  BY <1>1, <1>2 DEF SpawnKind

\* As StoreInBody.
LEMMA SpawnStores ==
  ASSUME SpawnTypeOK, EdgeLoops, Storable, NEW t \in Thread, Store(t)
  PROVE  /\ pc[t] \in BodyLabel /\ pc[t] \in HasDistance /\ pc[t] \in IsLower
         /\ dest(t) \in Node \ {src} /\ node[t] \in Node
         /\ distance[t] \in Weight
<1>1. pc[t] \in {"exchange", "write"}
  BY DEF Store
<1>2. pc[t] \in BodyLabel /\ pc[t] \in HasDistance /\ pc[t] \in IsLower
  BY <1>1 DEF HasDistance, HasStored, IsLower, BodyLabel
<1>3. distance[t] <= INF /\ dest(t) # src /\ distance[t] \in Int
  BY <1>2 DEF Storable, SpawnTypeOK, LocalTypeOK
<1>. QED
  BY <1>2, <1>3, SpawnInHand DEF Weight

\* The loop variables stay in order.
LEMMA SpawnTypes ==
  ASSUME SpawnTypeOK, EdgeLoops, Storable, NEW t \in Thread, SpawnKind(t)
  PROVE  ScanTypeOK(SpawnLabel)' /\ EdgeLoops'
<1>. USE DEF SpawnTypeOK, ScanTypeOK
<1>1. \A u \in Thread \ {t} : pc'[u] = pc[u] /\ node'[u] = node[u] /\ edge'[u] = edge[u]
  BY DEF SpawnKind, OthersSame
<1>2. changed' \in BOOLEAN
  BY SpawnEffect
<1>n. /\ node[t] \in Int /\ Start(t) \in Int /\ End(t) \in 0 .. num_nodes /\ num_nodes \in Int
      /\ node[t] >= Start(t) /\ node[t] >= 0
  BY ThreadSlice, CSRAssumption
<1>m. node[t] < End(t) =>
        /\ node[t] \in Node /\ row_start[node[t]] \in 0 .. num_edges
        /\ row_start[node[t] + 1] \in 0 .. num_edges
        /\ node[t] + 1 \in 0 .. num_nodes /\ node[t] + 1 \in Start(t) .. End(t)
  <2>. SUFFICES ASSUME node[t] < End(t)
                PROVE  /\ node[t] \in Node /\ row_start[node[t]] \in 0 .. num_edges
                       /\ row_start[node[t] + 1] \in 0 .. num_edges
                       /\ node[t] + 1 \in 0 .. num_nodes /\ node[t] + 1 \in Start(t) .. End(t)
    OBVIOUS
  <2>1. node[t] \in Node /\ node[t] + 1 \in 0 .. num_nodes /\ node[t] + 1 \in Start(t) .. End(t)
    BY <1>n DEF Node
  <2>. QED
    BY <2>1, RowIsEdges
<1>r. ASSUME NEW lab \in SpawnLabel, pc' = [pc EXCEPT ![t] = lab]
      PROVE  pc' \in [Thread -> SpawnLabel] /\ pc'[t] = lab
  BY <1>r
<1>o. ASSUME pc'[t] \in BodyLabel => node'[t] < End(t) /\ edge'[t] \in Row(node'[t])
      PROVE  EdgeLoops'
  BY <1>1, <1>o DEF EdgeLoops
<1>3. CASE Fill(t)
  <2>1. node_wt' \in [Node -> Weight]
    BY <1>3, <1>m, InitDistIsWeight DEF Fill, InitNode
  <2>. QED
    BY <1>2, <1>3, <1>m, <1>o, <2>1, SpawnLabels DEF Fill, InitNode
<1>4. CASE SkipNode(t)
  BY <1>2, <1>4, <1>m, <1>o, SpawnLabels DEF SkipNode
<1>5. CASE Enter(t)
  <2>1. row_start[node[t]] \in Row(node[t])
    BY <1>5, <1>m, RowIsEdges DEF Enter, EnterNode, Row
  <2>. QED
    BY <1>2, <1>5, <1>m, <1>o, <1>r, <2>1 DEF Enter, EnterNode, SpawnLabel, BodyLabel
<1>6. CASE Return(t)
  BY <1>2, <1>6, <1>o, <1>r, SpawnLabels DEF Return, Goto, NoStore, SpawnLabel
<1>7. CASE BodyKind(t)
  <2>1. pc[t] \in BodyLabel /\ node[t] < End(t) /\ edge[t] \in Row(node[t])
    BY <1>7, BodyKindGoes DEF EdgeLoops
  <2>2. node_wt' \in [Node -> Weight]
    BY <1>7, BodyKindGoes, SpawnStores DEF Store
  <2>3. ASSUME NEW l \in BodyLabel, Goto(t, l) PROVE ScanTypeOK(SpawnLabel)' /\ EdgeLoops'
    <3>1. pc' \in [Thread -> SpawnLabel]
      BY <1>r, <2>3 DEF Goto, SpawnLabel
    <3>. QED
      BY <1>2, <1>o, <2>1, <2>2, <2>3, <3>1 DEF Goto
  <2>4. CASE NextEdge(t)
    <3>e. edge[t] \in 0 .. num_edges /\ edge[t] \in Int /\ num_edges \in Int
      BY CSRAssumption
    <3>1. CASE /\ edge[t] + 1 < row_start[node[t] + 1]
               /\ edge' = [edge EXCEPT ![t] = @ + 1]
               /\ pc' = [pc EXCEPT ![t] = "relax"] /\ UNCHANGED node
      <4>1. edge[t] + 1 \in Row(node[t]) /\ edge[t] + 1 \in 0 .. num_edges
        BY <1>m, <2>1, <3>1, <3>e DEF Row
      <4>2. pc' \in [Thread -> SpawnLabel] /\ pc'[t] = "relax"
        BY <1>r, <3>1 DEF SpawnLabel, BodyLabel
      <4>. QED
        BY <1>2, <1>o, <2>1, <2>2, <3>1, <4>1, <4>2
    <3>2. CASE /\ node' = [node EXCEPT ![t] = @ + 1]
               /\ pc' = [pc EXCEPT ![t] = "node"] /\ UNCHANGED edge
      <4>2. pc' \in [Thread -> SpawnLabel] /\ pc'[t] = "node"
        BY <1>r, <3>2 DEF SpawnLabel
      <4>. QED
        BY <1>2, <1>m, <1>o, <2>1, <2>2, <3>2, <4>2, SpawnLabels
    <3>. QED
      BY <2>4, <3>1, <3>2 DEF NextEdge
  <2>. QED
    BY <1>7, <2>3, <2>4, BodyKindGoes
<1>. QED
  BY <1>3, <1>4, <1>5, <1>6, <1>7 DEF SpawnKind

LEMMA SpawnTypeStep ==
  ASSUME SpawnTypeOK, EdgeLoops, Storable, NEW t \in Thread, SpawnedStep(t)
  PROVE  SpawnTypeOK' /\ EdgeLoops'
<1>. USE DEF SpawnTypeOK
<1>0. SpawnKind(t) /\ program' = program /\ UNCHANGED mainVars
  BY SpawnStepKind
<1>1. ScanTypeOK(SpawnLabel)' /\ EdgeLoops'
  BY <1>0, SpawnTypes
<1>2. LocalTypeOK'
  <2>1. CASE SpawnedControl(t) /\ OutsideBody(t)
    <3>1. UNCHANGED exchangeVars
      BY <2>1 DEF OutsideBody
    <3>2. pc[t] = "node" /\ pc'[t] = "relax" => node_wt[node[t]] \in Weight
      <4>. SUFFICES ASSUME pc[t] = "node", pc'[t] = "relax" PROVE node_wt[node[t]] \in Weight
        OBVIOUS
      <4>1. node[t] < End(t)
        BY <2>1 DEF SpawnedControl, InitNode, EndInit, SkipNode, EnterNode, EndSlice, ScanTypeOK
      <4>2. node[t] \in Node
        BY <4>1, ThreadSlice, CSRAssumption DEF ScanTypeOK, Node
      <4>. QED
        BY <4>2 DEF ScanTypeOK
    <3>3. register' \in [Thread -> Weight]
      BY <2>1, <3>2 DEF OutsideBody, LoadRegister, LocalTypeOK
    <3>. QED
      BY <3>1, <3>3 DEF exchangeVars, LocalTypeOK
  <2>2. CASE BodyStep(t)
    <3>1. ScanTypeOK(SpawnLabel) /\ LocalTypeOK
      OBVIOUS
    <3>2. pc[t] \in BodyLabel => dest(t) \in Node /\ node[t] \in Node
      BY SpawnInHand
    <3>3. pc[t] \in BodyLabel => edge_wt[edge[t]] \in Int
      BY SpawnInHand
    <3>. QED
      BY ONLY <2>2, <3>1, <3>2, <3>3, Storable, t \in Thread, BodyStepTypes
  <2>. QED
    BY <2>1, <2>2 DEF SpawnedStep
<1>3. \A u \in Thread : pc'[u] = "verify" => program' \in AtomicPrograms
  <2>. SUFFICES ASSUME NEW u \in Thread, pc'[u] = "verify" PROVE program \in AtomicPrograms
    BY <1>0
  <2>1. CASE u # t
    BY <1>0, <2>1 DEF SpawnKind, OthersSame
  <2>2. CASE u = t
    <3>1. Store(t)
      BY <1>0, <2>2, SpawnGoesTo DEF HasStored
    <3>2. pc'[t] = "verify" => program \in ExchangePrograms
      BY <3>1 DEF Store, Goto, ScanTypeOK
    <3>3. BodyKind(t) /\ program \in AtomicPrograms \cup PlainPrograms
      BY <1>0, <3>1 DEF SpawnKind, Fill, InitNode, SkipNode, Enter, EnterNode, Return, Store
    <3>. QED
      BY <2>2, <3>2, <3>3 DEF ExchangePrograms, AtomicPrograms, PlainPrograms
  <2>. QED
    BY <2>1, <2>2
<1>. QED
  BY <1>0, <1>1, <1>2, <1>3 DEF mainVars

\* A thread only takes up what main has started it for.
LEMMA SpawnControlStep ==
  ASSUME SpawnTypeOK, SpawnControl, NEW t \in Thread, SpawnKind(t), UNCHANGED mainVars
  PROVE  SpawnControl'
<1>. USE DEF SpawnTypeOK, ScanTypeOK
<1>1. \A u \in Thread \ {t} : pc'[u] = pc[u]
  BY DEF SpawnKind, OthersSame
<1>2. /\ pc'[t] = "init" => pc[t] = "init"
      /\ pc'[t] \notin {"none", "init"} => pc[t] \notin {"none", "init"}
  <2>1. CASE BodyKind(t)
    <3>1. pc[t] \in BodyLabel
      BY <2>1, BodyKindGoes
    <3>2. pc'[t] # "init"
      BY <2>1, BodyKindGoes DEF Goto, NextEdge, BodyLabel
    <3>. QED
      BY <3>1, <3>2, SpawnLabels
  <2>2. CASE Fill(t) \/ SkipNode(t) \/ Enter(t) \/ Return(t)
    BY <2>2 DEF Fill, InitNode, SkipNode, Enter, EnterNode, Return, Goto
  <2>. QED
    BY <2>1, <2>2 DEF SpawnKind
<1>3. UNCHANGED <<main, next>>
  BY DEF mainVars
<1>4. ASSUME NEW u \in Thread
      PROVE  /\ pc'[u] = "init" => pc[u] = "init"
             /\ pc'[u] \notin {"none", "init"} => pc[u] \notin {"none", "init"}
  BY <1>1, <1>2
<1>. QED
  BY <1>3, <1>4 DEF SpawnControl

\* As StorableStep and SourceStep.
LEMMA SpawnStorableStep ==
  ASSUME SpawnWalks, NEW t \in Thread, SpawnKind(t)
  PROVE  Storable' /\ node_wt'[src] = 0
<1>. USE DEF SpawnWalks
<1>1. ASSUME NEW u \in Thread, pc'[u] \in IsLower
      PROVE  distance'[u] <= INF /\ dest(u)' # src
  <2>1. CASE u # t
    <3>1. pc'[u] = pc[u] /\ edge'[u] = edge[u] /\ distance'[u] = distance[u]
      BY <2>1 DEF SpawnKind, OthersSame
    <3>. QED
      BY <1>1, <3>1 DEF Storable, dest
  <2>2. CASE u = t /\ Higher(t)
    <3>1. distance'[t] = distance[t] /\ dest(t)' = dest(t)
      BY <2>2 DEF Higher, Goto, SameLocals, dest
    <3>2. pc[t] \in BodyLabel /\ pc[t] \in HasDistance /\ distance[t] \in Int
      BY <2>2 DEF Higher, HasDistance, SpawnTypeOK, LocalTypeOK
    <3>3. /\ dest(t) \in Node /\ node_wt[dest(t)] \in Int /\ node_wt[dest(t)] <= INF
          /\ INF \in Int
      BY <3>2, SpawnInHand, DistFacts
    <3>4. program \in AtomicPrograms \cup PlainPrograms
      BY <2>2 DEF SpawnKind, Higher, HasDistance, BodyLabel, Fill, InitNode, SkipNode, Enter,
         EnterNode, Return
    <3>5. node_wt[dest(t)] > distance[t]
      BY <2>2, <3>3, <3>4, SpawnLoads DEF Higher
    <3>6. dest(t) # src
      <4>. SUFFICES ASSUME dest(t) = src PROVE FALSE
        OBVIOUS
      <4>1. 0 <= distance[t]
        BY <3>2, DistFacts DEF SpawnNotTooLow
      <4>. QED
        BY <3>2, <3>5, <4>1
    <3>7. distance[t] <= INF
      BY <3>2, <3>3, <3>5
    <3>. QED
      BY <2>2, <3>1, <3>6, <3>7
  <2>3. CASE u = t /\ Shift(t) /\ pc[t] \in IsLower
    BY <2>3 DEF Shift, Goto, SameLocals, Storable, dest
  <2>. QED
    BY <1>1, <2>1, <2>2, <2>3, SpawnGoesTo
<1>2. node_wt'[src] = 0
  <2>1. CASE Fill(t)
    BY <2>1, DistFacts DEF Fill, InitNode, InitDist, SpawnTypeOK, ScanTypeOK
  <2>2. CASE Store(t)
    BY <2>2, SpawnStores, DistFacts DEF Store, SpawnTypeOK, ScanTypeOK
  <2>. QED
    BY <2>1, <2>2, SpawnEffect
<1>. QED
  BY <1>1, <1>2 DEF Storable

\* A node is only taken for initialised when it has been.
LEMMA FilledStep ==
  ASSUME SpawnTypeOK, SpawnControl, NEW t \in Thread, SpawnKind(t), UNCHANGED mainVars,
         NEW u \in Thread, NEW n \in Node, n \in Start(u) .. End(u) - 1, Filled(u, n)'
  PROVE  Filled(u, n) \/ (Fill(t) /\ n = node[t])
<1>. USE DEF SpawnTypeOK, ScanTypeOK, Filled
<1>0. n \in Int /\ node[u] \in Int /\ End(u) \in Int /\ Start(u) \in Int
  BY ThreadSlice DEF Node
<1>1. UNCHANGED <<main, next>>
  BY DEF mainVars
<1>2. CASE pc[u] # "init"
  BY <1>1, <1>2
<1>3. CASE u # t
  BY <1>1, <1>3 DEF SpawnKind, OthersSame
<1>4. CASE u = t /\ pc[t] = "init"
  <2>1. Fill(t) \/ Return(t)
    BY <1>4, BodyKindGoes, SpawnLabels DEF SpawnKind, SkipNode, Enter, EnterNode
  <2>2. CASE Return(t)
    BY <1>0, <1>1, <1>4, <2>2 DEF Return
  <2>3. CASE Fill(t)
    <3>1. pc'[t] = "init" /\ node'[t] = node[t] + 1
      BY <2>3 DEF Fill, InitNode
    <3>2. n < node[t] + 1
      BY <1>4, <3>1
    <3>3. n < node[t] \/ n = node[t]
      BY <1>0, <1>4, <3>2
    <3>. QED
      BY <1>1, <1>4, <2>3, <3>3
  <2>. QED
    BY <2>1, <2>2, <2>3
<1>. QED
  BY <1>2, <1>3, <1>4

LEMMA SpawnWtAbove ==
  ASSUME SpawnWalks, NEW t \in Thread, SpawnKind(t), UNCHANGED mainVars,
         NEW u \in Thread, NEW n \in Node, n \in Start(u) .. End(u) - 1, Filled(u, n)'
  PROVE  Dist[n] <= node_wt'[n]
<1>. USE DEF SpawnWalks, SpawnTypeOK, ScanTypeOK
<1>1. CASE UNCHANGED node_wt /\ ~Fill(t)
  BY <1>1, FilledStep DEF SpawnNotTooLow
<1>2. CASE Fill(t)
  <2>1. node_wt'[n] = IF n = node[t] THEN InitDist(n) ELSE node_wt[n]
    BY <1>2 DEF Fill, InitNode
  <2>. QED
    BY <2>1, FilledStep, DistFacts DEF SpawnNotTooLow
<1>3. CASE Store(t)
  <2>1. node_wt'[n] = IF n = dest(t) THEN distance[t] ELSE node_wt[n]
    BY <1>3 DEF Store
  <2>2. Dist[dest(t)] <= distance[t]
    BY <1>3, SpawnStores DEF SpawnNotTooLow
  <2>3. ~Fill(t)
    BY <1>3 DEF Store, Fill, InitNode
  <2>. QED
    BY <2>1, <2>2, <2>3, FilledStep DEF SpawnNotTooLow
<1>. QED
  BY <1>1, <1>2, <1>3, SpawnEffect

\* As TailAbove and OverEdge.
LEMMA SpawnTailAbove ==
  ASSUME SpawnWalks, NEW t \in Thread, node[t] < End(t), pc[t] \notin {"none", "init"}
  PROVE  node[t] \in Node /\ node_wt[node[t]] \in Weight /\ Dist[node[t]] <= node_wt[node[t]]
<1>. USE DEF SpawnWalks, SpawnTypeOK, ScanTypeOK
<1>1. node[t] \in Node /\ node[t] \in Start(t) .. End(t) - 1
  BY ThreadSlice, CSRAssumption DEF Node
<1>2. Filled(t, node[t])
  BY InRound
<1>. QED
  BY <1>1, <1>2 DEF SpawnNotTooLow

LEMMA SpawnOverEdge ==
  ASSUME SpawnWalks, NEW t \in Thread, pc[t] \in BodyLabel, NEW v \in Int, Dist[node[t]] <= v
  PROVE  Dist[dest(t)] <= v + edge_wt[edge[t]]
<1>. USE DEF SpawnWalks
<1>1. /\ node[t] \in Node /\ edge[t] \in Row(node[t]) /\ dest(t) \in Node
      /\ edge_wt[edge[t]] \in Int /\ Dist[node[t]] # INF
  BY SpawnInHand DEF SpawnNotTooLow
<1>2. Dist[dest(t)] <= Dist[node[t]] + edge_wt[edge[t]]
  BY <1>1, NoNegativeCycle DEF Closed, dest
<1>3. Dist[node[t]] \in Int /\ Dist[dest(t)] \in Int
  BY <1>1, DistFacts
<1>. QED
  BY ONLY <1>1, <1>2, <1>3, v \in Int, Dist[node[t]] <= v

\* As LocalsAbove.
LEMMA SpawnLocalsAbove ==
  ASSUME SpawnWalks, NEW t \in Thread, SpawnKind(t)
  PROVE  /\ pc'[t] \in BodyLabel => Dist[node'[t]] # INF
         /\ pc'[t] \in HasDistance => Dist[dest(t)'] <= distance'[t]
         /\ program \in PlainPrograms /\ pc'[t] \in BodyLabel => Dist[node'[t]] <= register'[t]
<1>. USE DEF SpawnWalks
<1>1. ASSUME Enter(t)
      PROVE  /\ Dist[node'[t]] # INF
             /\ program \in PlainPrograms => Dist[node'[t]] <= register'[t]
  <2>1. node[t] < End(t) /\ pc[t] = "node" /\ node_wt[node[t]] # INF /\ UNCHANGED node
    BY <1>1 DEF Enter, EnterNode
  <2>2. node[t] \in Node /\ node_wt[node[t]] \in Weight /\ Dist[node[t]] <= node_wt[node[t]]
    BY <2>1, SpawnTailAbove
  <2>3. Dist[node[t]] # INF
    BY <2>1, <2>2, DistFacts DEF Weight
  <2>. QED
    BY <1>1, <2>1, <2>2, <2>3 DEF Enter
<1>2. ASSUME Extend(t)
      PROVE  /\ Dist[dest(t)'] <= distance'[t]
             /\ program \in PlainPrograms => Dist[node[t]] <= register'[t]
  <2>0. pc[t] \in BodyLabel /\ dest(t)' = dest(t)
    BY <1>2 DEF Extend, BodyLabel, Goto, dest
  <2>1. PICK v \in Loads(t, node[t]) \cup Kept(t) :
          /\ distance'[t] = v + edge_wt[edge[t]]
          /\ program \in PlainPrograms => register'[t] = v
    BY <1>2 DEF Extend
  <2>2. program \in AtomicPrograms \cup PlainPrograms
    BY <2>0, SpawnLabels DEF SpawnKind, Fill, InitNode, SkipNode, Enter, EnterNode, Return
  <2>3. v \in {node_wt[node[t]]} \cup Kept(t)
    BY <2>1, <2>2, SpawnLoads
  <2>4. v \in Int /\ Dist[node[t]] <= v
    <3>1. node[t] < End(t) /\ pc[t] \notin {"none", "init"}
      BY <2>0, SpawnLabels DEF EdgeLoops
    <3>2. node_wt[node[t]] \in Int /\ Dist[node[t]] <= node_wt[node[t]]
      BY <3>1, SpawnTailAbove DEF Weight
    <3>3. ASSUME NEW w \in Kept(t) PROVE w \in Int /\ Dist[node[t]] <= w
      BY <2>0 DEF Kept, SpawnNotTooLow, SpawnTypeOK, LocalTypeOK, Weight
    <3>. QED
      BY <2>3, <3>2, <3>3
  <2>. QED
    BY <2>0, <2>1, <2>4, SpawnOverEdge
<1>3. ASSUME pc'[t] \in HasDistance, ~Extend(t)
      PROVE  Dist[dest(t)'] <= distance'[t]
  <2>1. pc[t] \in HasDistance /\ dest(t)' = dest(t) /\ distance'[t] = distance[t]
    BY <1>3, SpawnGoesTo DEF dest
  <2>. QED
    BY <2>1 DEF SpawnNotTooLow
<1>4. ASSUME BodyKind(t), ~Extend(t), pc[t] \in BodyLabel, program \in PlainPrograms
      PROVE  Dist[node[t]] <= register'[t]
  <2>1. \/ register'[t] = register[t]
        \/ Store(t) /\ dest(t) = node[t] /\ register'[t] = distance[t]
    BY <1>4 DEF BodyKind, Higher, Pass, Shift, Store, Confirm, Retry, SameLocals
  <2>2. Store(t) => Dist[dest(t)] <= distance[t]
    BY SpawnStores DEF SpawnNotTooLow
  <2>. QED
    BY <1>4, <2>1, <2>2 DEF SpawnNotTooLow
<1>5. pc'[t] \in BodyLabel => Dist[node'[t]] # INF
  BY <1>1, SpawnGoesTo DEF SpawnNotTooLow
<1>. QED
  BY <1>1, <1>2, <1>3, <1>4, <1>5, SpawnGoesTo

\* The first layer.
LEMMA SpawnWalksStep ==
  ASSUME SpawnWalks, NEW t \in Thread, SpawnedStep(t)
  PROVE  SpawnWalks'
<1>. USE DEF SpawnWalks
<1>0. SpawnKind(t) /\ program' = program /\ UNCHANGED mainVars
  BY SpawnStepKind
<1>1. SpawnTypeOK' /\ EdgeLoops'
  BY SpawnTypeStep
<1>2. SpawnControl' /\ Storable' /\ node_wt'[src] = 0
  BY <1>0, SpawnControlStep, SpawnStorableStep
<1>3. ASSUME NEW u \in Thread
      PROVE  /\ pc'[u] \in BodyLabel => Dist[node'[u]] # INF
             /\ pc'[u] \in HasDistance => Dist[dest(u)'] <= distance'[u]
             /\ program' \in PlainPrograms /\ pc'[u] \in BodyLabel => Dist[node'[u]] <= register'[u]
  <2>1. CASE u = t
    BY <1>0, <2>1, SpawnLocalsAbove
  <2>2. CASE u # t
    <3>1. /\ pc'[u] = pc[u] /\ node'[u] = node[u] /\ distance'[u] = distance[u]
          /\ register'[u] = register[u] /\ dest(u)' = dest(u)
      BY <1>0, <2>2 DEF SpawnKind, OthersSame, dest
    <3>. QED
      BY <1>0, <3>1 DEF SpawnNotTooLow
  <2>. QED
    BY <2>1, <2>2
<1>4. SpawnNotTooLow'
  BY <1>0, <1>3, SpawnWtAbove DEF SpawnNotTooLow
<1>. QED
  BY <1>1, <1>2, <1>4, DistFacts

\* A thread returns at the end of its slice.
LEMMA ReturnedStep ==
  ASSUME SpawnWalks, Returned, NEW t \in Thread, SpawnKind(t), UNCHANGED mainVars
  PROVE  Returned'
<1>. USE DEF SpawnWalks, SpawnTypeOK, ScanTypeOK
<1>. SUFFICES ASSUME NEW u \in Thread, Started(u), pc'[u] = "none" PROVE node'[u] = End(u)
  BY DEF Returned, Started, mainVars
<1>1. CASE u # t
  BY <1>1 DEF SpawnKind, OthersSame, Returned
<1>2. CASE u = t
  <2>1. Return(t)
    <3>1. ~BodyKind(t)
      BY <1>2, BodyKindGoes, SpawnLabels DEF Goto, NextEdge
    <3>. QED
      BY <1>2, <3>1 DEF SpawnKind, Fill, InitNode, SkipNode, Enter, EnterNode
  <2>2. node[t] >= End(t) /\ UNCHANGED node /\ End(t) \in Int /\ node[t] \in Start(t) .. End(t)
    BY <2>1, ThreadSlice DEF Return, Goto
  <2>. QED
    BY <1>2, <2>2, ThreadSlice
<1>. QED
  BY <1>1, <1>2

\* As RetryNotLast and AfterStore.
LEMMA SpawnAfterStore ==
  ASSUME SpawnWalks, NEW t \in Thread, SpawnKind(t), pc[t] \in HasStored
  PROVE  \/ Confirm(t)
         \/ Retry(t) /\ pc[t] = "verify" /\ distance[t] # node_wt[dest(t)]
<1>1. BodyKind(t) /\ program \in AtomicPrograms \cup PlainPrograms
  BY DEF SpawnKind, Fill, InitNode, SkipNode, Enter, EnterNode, Return, HasStored
<1>2. Confirm(t) \/ Retry(t)
  BY <1>1 DEF BodyKind, Extend, Higher, Pass, Shift, Store, HasStored
<1>3. Retry(t) => pc[t] = "verify" /\ distance[t] # node_wt[dest(t)]
  BY <1>1, SpawnLoads DEF Retry
<1>. QED
  BY <1>2, <1>3

\* As AnnouncedStep.
LEMMA SpawnAnnouncedStep ==
  ASSUME SpawnWalks, SpawnAnnounced, NEW t \in Thread, SpawnKind(t), program' = program
  PROVE  SpawnAnnounced'
<1>. USE DEF SpawnWalks, SpawnTypeOK, ScanTypeOK
<1>. DEFINE Last(w, n) == pc[w] = "verify" /\ dest(w) = n /\ distance[w] = node_wt[n]
<1>. SUFFICES ASSUME NEW u \in Thread, pc'[u] = "verify", ~changed'
              PROVE  \E w \in Thread : Last(w, dest(u))'
  BY DEF SpawnAnnounced
<1>1. ~changed
  BY SpawnEffect
<1>2. OthersSame(t)
  BY DEF SpawnKind
<1>3. u # t => pc[u] = "verify" /\ dest(u)' = dest(u) /\ dest(u) \in Node
  <2>. SUFFICES ASSUME u # t PROVE pc[u] = "verify" /\ dest(u)' = dest(u) /\ dest(u) \in Node
    OBVIOUS
  <2>1. pc[u] = "verify" /\ edge'[u] = edge[u] /\ pc[u] \in BodyLabel
    BY <1>2 DEF OthersSame, BodyLabel
  <2>. QED
    BY <2>1, SpawnInHand DEF dest
<1>5. CASE u = t \/ (Store(t) /\ dest(u) = dest(t))
  <2>1. Store(t)
    BY <1>5, SpawnGoesTo DEF HasStored
  <2>2. dest(t) \in Node /\ pc'[t] \in HasStored /\ dest(t)' = dest(t)
    BY <2>1, SpawnStores DEF Store, Goto, dest, HasStored
  <2>3. distance'[t] = node_wt'[dest(t)]
    BY <2>1, <2>2 DEF Store
  <2>4. pc'[t] = "verify"
    <3>1. program \in AtomicPrograms
      <4>1. CASE u # t
        BY <1>3, <4>1
      <4>2. CASE u = t
        <5>1. program \in ExchangePrograms
          BY <2>1, <4>2 DEF Store, Goto
        <5>2. program \in AtomicPrograms \cup PlainPrograms
          BY <2>1 DEF SpawnKind, Fill, InitNode, SkipNode, Enter, EnterNode, Return, Store
        <5>. QED
          BY <5>1, <5>2 DEF ExchangePrograms, AtomicPrograms, PlainPrograms
      <4>. QED
        BY <4>1, <4>2
    <3>. QED
      BY <2>1, <3>1 DEF Store, Goto, ExchangePrograms
  <2>5. dest(u)' = dest(t)
    BY <1>3, <1>5, <2>2
  <2>. QED
    BY <2>2, <2>3, <2>4, <2>5
<1>6. CASE u # t /\ ~(Store(t) /\ dest(u) = dest(t))
  <2>1. PICK w \in Thread : Last(w, dest(u))
    BY <1>1, <1>3, <1>6 DEF SpawnAnnounced
  <2>2. w # t
    <3>. SUFFICES ASSUME w = t PROVE FALSE
      OBVIOUS
    <3>. QED
      BY <2>1, SpawnAfterStore DEF HasStored, Confirm
  <2>3. pc'[w] = pc[w] /\ dest(w)' = dest(w) /\ distance'[w] = distance[w]
    BY <1>2, <2>2 DEF OthersSame, dest
  <2>4. node_wt'[dest(u)] = node_wt[dest(u)]
    <3>1. ~Fill(t)
      BY <1>3, <1>6, InRound DEF Fill, InitNode
    <3>2. CASE Store(t)
      BY <1>3, <1>6, <3>2 DEF Store
    <3>3. CASE ~Store(t)
      BY <3>1, <3>3, SpawnEffect
    <3>. QED
      BY <3>2, <3>3
  <2>. QED
    BY <1>3, <1>6, <2>1, <2>3, <2>4
<1>. QED
  BY <1>3, <1>5, <1>6

\* As StirredStep.
LEMMA SpawnStirred ==
  ASSUME SpawnWalks, SpawnAnnounced, NEW t \in Thread, SpawnKind(t), ~Stirred', ~Fill(t)
  PROVE  ~Stirred /\ UNCHANGED node_wt /\ ~Store(t) /\ ~Confirm(t) /\ ~Retry(t)
<1>. USE DEF SpawnWalks, SpawnTypeOK, ScanTypeOK, Stirred
<1>1. ~changed /\ ~Confirm(t)
  BY SpawnEffect DEF Confirm
<1>2. ~Store(t)
  BY DEF Store, Goto, HasStored
<1>3. UNCHANGED node_wt
  BY <1>2, SpawnEffect
<1>4. ASSUME NEW u \in Thread, pc[u] \in HasStored PROVE FALSE
  <2>1. u = t
    BY <1>4 DEF SpawnKind, OthersSame
  <2>2. pc[t] = "verify" /\ distance[t] # node_wt[dest(t)]
    BY <1>1, <1>4, <2>1, SpawnAfterStore
  <2>3. PICK w \in Thread : /\ pc[w] = "verify" /\ dest(w) = dest(t)
                            /\ distance[w] = node_wt[dest(t)]
    BY <1>1, <2>2 DEF SpawnAnnounced
  <2>4. w # t
    BY <2>2, <2>3
  <2>. QED
    BY <2>3, <2>4 DEF SpawnKind, OthersSame, HasStored
<1>. QED
  BY <1>1, <1>2, <1>3, <1>4 DEF Retry, HasStored

\* The edges that are done after a step were done before it, or the edge in
\* hand is done now.
LEMMA VisitedStep ==
  ASSUME SpawnWalks, NEW t \in Thread, SpawnKind(t), UNCHANGED mainVars, ~Fill(t),
         NEW n \in Node, node_wt[n] # INF, NEW e \in Row(n), Visited(t, n, e)'
  PROVE  \/ Visited(t, n, e)
         \/ (Pass(t) \/ Confirm(t)) /\ pc[t] \in BodyLabel /\ n = node[t] /\ e = edge[t]
<1>. USE DEF SpawnWalks, SpawnTypeOK, ScanTypeOK
<1>1. Started(t) /\ (n < node'[t] \/ (n = node'[t] /\ pc'[t] \in BodyLabel /\ e < edge'[t]))
  BY DEF Visited, Started, mainVars
<1>n. /\ n \in Int /\ e \in Int /\ node[t] \in Int /\ edge[t] \in Int
      /\ e \in Edge /\ row_start[n] \in Int /\ row_start[n + 1] \in Int
      /\ e >= row_start[n] /\ e <= row_start[n + 1] - 1
  BY RowIsEdges DEF Node, Edge, Row
<1>2. CASE SkipNode(t)
  <2>1. n < node[t] + 1 /\ pc'[t] = "node"
    BY <1>1, <1>2, SpawnLabels DEF SkipNode
  <2>2. n # node[t]
    BY <1>2 DEF SkipNode
  <2>. QED
    BY <1>1, <1>n, <2>1, <2>2 DEF Visited
<1>3. CASE Enter(t)
  <2>1. node' = node /\ edge'[t] = row_start[node[t]]
    BY <1>3 DEF Enter, EnterNode
  <2>. QED
    BY <1>1, <1>n, <2>1 DEF Visited
<1>4. CASE Return(t)
  BY <1>1, <1>4, SpawnLabels DEF Return, Goto, Visited
<1>5. CASE BodyKind(t)
  <2>0. pc[t] \in BodyLabel
    BY <1>5, BodyKindGoes
  <2>1. CASE \E l \in BodyLabel : Goto(t, l)
    BY <1>1, <2>0, <2>1 DEF Goto, Visited
  <2>2. CASE NextEdge(t) /\ (Pass(t) \/ Confirm(t))
    <3>1. CASE /\ edge' = [edge EXCEPT ![t] = @ + 1] /\ UNCHANGED node
      <4>1. n < node[t] \/ (n = node[t] /\ e < edge[t] + 1)
        BY <1>1, <3>1
      <4>2. e < edge[t] + 1 => e < edge[t] \/ e = edge[t]
        BY <1>n
      <4>. QED
        BY <1>1, <2>0, <2>2, <4>1, <4>2 DEF Visited
    <3>2. CASE /\ edge[t] + 1 >= row_start[node[t] + 1]
               /\ node' = [node EXCEPT ![t] = @ + 1] /\ pc' = [pc EXCEPT ![t] = "node"]
      <4>1. n < node[t] + 1
        BY <1>1, <3>2, SpawnLabels
      <4>2. n < node[t] \/ n = node[t]
        BY <1>n, <4>1
      <4>3. n = node[t] => e < edge[t] \/ e = edge[t]
        BY <1>n, <3>2
      <4>. QED
        BY <1>1, <2>0, <2>2, <4>2, <4>3 DEF Visited
    <3>. QED
      BY <2>2, <3>1, <3>2 DEF NextEdge
  <2>. QED
    BY <1>5, <2>1, <2>2, BodyKindGoes
<1>. QED
  BY <1>2, <1>3, <1>4, <1>5 DEF SpawnKind

\* As the lemmas on NothingMissed above.
LEMMA SpawnMissesStep ==
  ASSUME SpawnWalks, NEW t \in Thread, SpawnKind(t), program' = program, UNCHANGED mainVars,
         ~Fill(t), ~Store(t), ~Confirm(t), ~Retry(t), UNCHANGED node_wt, SpawnMissesNothing(t)
  PROVE  SpawnMissesNothing(t)'
<1>. USE DEF SpawnWalks, SpawnTypeOK, ScanTypeOK
<1>k. pc[t] \in BodyLabel => BodyKind(t) /\ program \in AtomicPrograms \cup PlainPrograms
  BY SpawnLabels DEF SpawnKind, SkipNode, Enter, EnterNode, Return
<1>1. ASSUME Extend(t)
      PROVE  /\ distance'[t] = Through(t)
             /\ program \in PlainPrograms => register'[t] = node_wt[node[t]]
  <2>1. pc[t] \in BodyLabel
    BY <1>1 DEF Extend, BodyLabel
  <2>2. PICK v \in Loads(t, node[t]) \cup Kept(t) :
          /\ distance'[t] = v + edge_wt[edge[t]]
          /\ program \in PlainPrograms => register'[t] = v
    BY <1>1 DEF Extend
  <2>3. v = node_wt[node[t]]
    BY <1>k, <2>1, <2>2, SpawnLoads DEF Kept, SpawnMissesNothing
  <2>. QED
    BY <2>2, <2>3 DEF Through
<1>2. pc'[t] \in HasDistance => distance'[t] = Through(t)'
  <2>. SUFFICES ASSUME pc'[t] \in HasDistance PROVE distance'[t] = Through(t)'
    OBVIOUS
  <2>1. CASE Extend(t)
    <3>1. Through(t)' = Through(t)
      BY <2>1 DEF Through, Extend, Goto
    <3>. QED
      BY <1>1, <2>1, <3>1
  <2>2. CASE ~Extend(t)
    <3>1. pc[t] \in HasDistance /\ UNCHANGED <<node, edge>> /\ distance'[t] = distance[t]
      BY <2>2, SpawnGoesTo
    <3>. QED
      BY <3>1 DEF Through, SpawnMissesNothing
  <2>. QED
    BY <2>1, <2>2
<1>3. program \in PlainPrograms /\ pc'[t] \in BodyLabel => register'[t] = node_wt[node'[t]]
  <2>. SUFFICES ASSUME program \in PlainPrograms, pc'[t] \in BodyLabel
                PROVE  register'[t] = node_wt[node'[t]]
    OBVIOUS
  <2>1. CASE Enter(t)
    BY <2>1 DEF Enter, EnterNode
  <2>2. CASE BodyKind(t) /\ pc[t] \in BodyLabel /\ node'[t] = node[t]
    <3>1. CASE Extend(t)
      BY <1>1, <2>2, <3>1
    <3>2. CASE ~Extend(t)
      <4>1. register'[t] = register[t]
        BY <2>2, <3>2 DEF BodyKind, Higher, Pass, Shift, SameLocals
      <4>. QED
        BY <2>2, <4>1 DEF SpawnMissesNothing
    <3>. QED
      BY <3>1, <3>2
  <2>. QED
    BY <2>1, <2>2, SpawnGoesTo
<1>4. ASSUME Pass(t), pc[t] \in BodyLabel
      PROVE  node_wt[dest(t)] <= node_wt[node[t]] + edge_wt[edge[t]]
  <2>1. PICK v \in Loads(t, dest(t)) : v <= distance[t]
    BY <1>4 DEF Pass
  <2>2. v = node_wt[dest(t)]
    BY <1>k, <1>4, <2>1, SpawnLoads
  <2>3. distance[t] = Through(t)
    BY <1>4 DEF Pass, SpawnMissesNothing
  <2>. QED
    BY <2>1, <2>2, <2>3 DEF Through
<1>5. ASSUME NEW n \in Node, n \in Start(t) .. End(t) - 1, node_wt[n] # INF,
             NEW e \in Row(n), Visited(t, n, e)'
      PROVE  node_wt[edge_dst[e]] <= node_wt[n] + edge_wt[e]
  BY <1>4, <1>5, VisitedStep DEF SpawnMissesNothing, dest
<1>. QED
  BY <1>2, <1>3, <1>5 DEF SpawnMissesNothing

LEMMA SpawnCalmStep ==
  ASSUME SpawnWalks, SpawnAnnounced, SpawnCalm, NEW t \in Thread, SpawnKind(t),
         program' = program, UNCHANGED mainVars
  PROVE  SpawnCalm'
<1>. USE DEF SpawnWalks, SpawnTypeOK, ScanTypeOK
<1>. SUFFICES ASSUME ~Stirred', NEW u \in Thread PROVE SpawnMissesNothing(u)'
  BY DEF SpawnCalm
<1>1. CASE Fill(t)
  <2>1. main \in {"spawnInit", "joinInit"} /\ pc'[t] = "init"
    BY <1>1 DEF Fill, InitNode, SpawnControl
  <2>2. pc'[u] \in {"none", "init"}
    <3>1. pc[u] \in {"none", "init"}
      BY <2>1 DEF SpawnControl
    <3>. QED
      BY <2>1, <3>1 DEF SpawnKind, OthersSame
  <2>3. ~Started(u)'
    BY <2>1 DEF Started, mainVars
  <2>. QED
    BY <2>2, <2>3, SpawnLabels DEF SpawnMissesNothing, Visited
<1>2. CASE ~Fill(t)
  <2>1. ~Stirred /\ UNCHANGED node_wt /\ ~Store(t) /\ ~Confirm(t) /\ ~Retry(t)
    BY <1>2, SpawnStirred
  <2>2. SpawnMissesNothing(u)
    BY <2>1 DEF SpawnCalm
  <2>3. CASE u = t
    BY <1>2, <2>1, <2>2, <2>3, SpawnMissesStep
  <2>4. CASE u # t
    <3>1. /\ pc'[u] = pc[u] /\ node'[u] = node[u] /\ edge'[u] = edge[u]
          /\ distance'[u] = distance[u] /\ register'[u] = register[u]
      BY <2>4 DEF SpawnKind, OthersSame
    <3>2. Through(u)' = Through(u)
      BY <2>1, <3>1 DEF Through
    <3>3. \A n \in Node : \A e \in Row(n) : Visited(u, n, e)' <=> Visited(u, n, e)
      BY <3>1 DEF Visited, Started, mainVars
    <3>. QED
      BY <2>1, <2>2, <3>1, <3>2, <3>3 DEF SpawnMissesNothing
  <2>. QED
    BY <2>3, <2>4
<1>. QED
  BY <1>1, <1>2

\* What main's steps have in common: they start threads, at the first node of
\* their slices, or look on; the flag is reset when no thread exists.
MainKind ==
  /\ UNCHANGED node_wt /\ UNCHANGED bodyVars
  /\ \A u \in Thread :
       \/ pc'[u] = pc[u] /\ node'[u] = node[u] /\ edge'[u] = edge[u]
       \/ pc[u] = "none" /\ pc'[u] \in {"init", "node"} /\ node'[u] = Start(u)
  /\ \A u \in Thread :
       Started(u)' =>
         \/ Started(u) /\ pc'[u] = pc[u] /\ node'[u] = node[u]
         \/ pc'[u] = "node" /\ node'[u] = Start(u)
  /\ \A u \in Thread : \A n \in Node :
       n \in Start(u) .. End(u) - 1 /\ Filled(u, n)' => Filled(u, n)
  /\ UNCHANGED changed \/ \A u \in Thread : pc'[u] = "none" /\ ~Started(u)'

\* In each of its steps main goes on to the next thread, or to what follows.
LEMMA NextThread ==
  ASSUME SpawnTypeOK, NEW u \in Thread
  PROVE  /\ next + 1 < threadNum => next + 1 \in Thread /\ (u < next + 1 <=> u <= next)
         /\ next + 1 >= threadNum => u <= next
         /\ 0 \in Thread /\ u >= 0 /\ u \in Int /\ next \in Int
BY ThreadAssumption DEF SpawnTypeOK, Thread

LEMMA StartKind ==
  ASSUME SpawnTypeOK, SpawnControl, UNCHANGED bodyVars, NEW from, NEW to, NEW label,
         \/ from = "spawnInit" /\ to = "joinInit" /\ label = "init"
         \/ from = "spawn" /\ to = "join" /\ label = "node",
         Start1(from, to, label)
  PROVE  /\ MainKind
         /\ ScanTypeOK(SpawnLabel)' /\ SpawnControl' /\ main' \in MainLabel /\ next' \in Thread
<1>. USE DEF SpawnTypeOK, ScanTypeOK
<1>0. main = from /\ main' \in {from, to} /\ UNCHANGED <<node_wt, changed, edge>>
  BY DEF Start1
<1>1. pc'[next] = label /\ node'[next] = Start(next)
  BY DEF Start1
<1>2. \A u \in Thread \ {next} : pc'[u] = pc[u] /\ node'[u] = node[u]
  BY DEF Start1
<1>3. pc[next] = "none"
  <2>. SUFFICES ASSUME pc[next] # "none" PROVE FALSE
    OBVIOUS
  <2>1. next < next
    BY <1>0 DEF SpawnControl
  <2>. QED
    BY <2>1, NextThread
<1>4. next' \in Thread /\ main' \in MainLabel
  BY NextThread DEF Start1, MainLabel
<1>5. ASSUME NEW u \in Thread, u <= next
      PROVE  (main' = from /\ u < next') \/ (main' = to /\ u >= next')
  <2>1. CASE next + 1 < threadNum
    BY <1>5, <2>1, NextThread DEF Start1
  <2>2. CASE ~(next + 1 < threadNum)
    BY <2>2, NextThread DEF Start1
  <2>. QED
    BY <2>1, <2>2
<1>6. ASSUME NEW u \in Thread, (main' = from /\ u < next') \/ main' = to
      PROVE  u <= next
  <2>1. CASE next + 1 < threadNum
    BY <1>6, <2>1, NextThread DEF Start1
  <2>2. CASE ~(next + 1 < threadNum)
    <3>1. next + 1 >= threadNum
      BY <2>2, NextThread, ThreadAssumption
    <3>. QED
      BY <3>1, NextThread
  <2>. QED
    BY <2>1, <2>2
<1>7. ScanTypeOK(SpawnLabel)'
  <2>1. label \in SpawnLabel
    BY DEF SpawnLabel
  <2>2. pc' \in [Thread -> SpawnLabel]
    BY <2>1 DEF Start1
  <2>3. Start(next) \in 0 .. num_nodes /\ Start(next) \in Start(next) .. End(next)
    BY ThreadSlice, CSRAssumption
  <2>4. node' \in [Thread -> 0 .. num_nodes]
    BY <2>3 DEF Start1
  <2>5. \A u \in Thread : node'[u] \in Start(u) .. End(u)
    BY <1>1, <1>2, <2>3
  <2>. QED
    BY <1>0, <2>2, <2>4, <2>5
<1>8. SpawnControl'
  <2>1. main' \notin {"loop", "test", "done"}
    BY <1>0
  <2>2. ASSUME NEW u \in Thread, pc'[u] # "none" PROVE u <= next
    <3>1. CASE u = next
      BY <3>1, NextThread
    <3>2. CASE u # next
      <4>1. pc[u] # "none"
        BY <1>2, <2>2, <3>2
      <4>2. u < next
        BY <1>0, <4>1 DEF SpawnControl
      <4>. QED
        BY <4>2, NextThread
    <3>. QED
      BY <3>1, <3>2
  <2>3. ASSUME NEW u \in Thread, pc'[u] = "init" PROVE from = "spawnInit"
    BY <1>0, <1>1, <1>2, <2>3 DEF SpawnControl
  <2>4. ASSUME NEW u \in Thread, pc'[u] \notin {"none", "init"} PROVE from = "spawn"
    BY <1>0, <1>1, <1>2, <2>4 DEF SpawnControl
  <2>5. ASSUME NEW u \in Thread, pc'[u] = "init"
        PROVE  (main' = "spawnInit" /\ u < next') \/ (main' = "joinInit" /\ u >= next')
    BY <1>5, <2>2, <2>3, <2>5
  <2>6. ASSUME NEW u \in Thread, pc'[u] \notin {"none", "init"}
        PROVE  (main' = "spawn" /\ u < next') \/ (main' = "join" /\ u >= next')
    BY <1>5, <2>2, <2>4, <2>6
  <2>. QED
    BY <2>1, <2>5, <2>6 DEF SpawnControl
<1>9. ASSUME NEW u \in Thread, Started(u)'
      PROVE  \/ Started(u) /\ pc'[u] = pc[u] /\ node'[u] = node[u]
             \/ pc'[u] = "node" /\ node'[u] = Start(u)
  <2>1. from = "spawn" /\ label = "node" /\ to = "join"
    BY <1>0, <1>9 DEF Started
  <2>2. u <= next
    <3>1. (main' = from /\ u < next') \/ main' = to
      BY <1>0, <1>9, <2>1 DEF Started
    <3>. QED
      BY <1>6, <3>1
  <2>3. u = next \/ u < next
    BY <2>2, NextThread
  <2>4. u < next => Started(u) /\ u # next
    BY <1>0, <2>1, NextThread DEF Started
  <2>. QED
    BY <1>1, <1>2, <2>1, <2>3, <2>4
<1>10. ASSUME NEW u \in Thread, NEW n \in Node, n \in Start(u) .. End(u) - 1, Filled(u, n)'
       PROVE  Filled(u, n)
  <2>1. CASE from = "spawn"
    BY <1>0, <2>1 DEF Filled, SpawnControl
  <2>2. CASE from = "spawnInit"
    <3>1. u <= next
      BY <1>0, <1>6, <1>10, <2>2 DEF Filled
    <3>2. u # next
      <4>. SUFFICES ASSUME u = next PROVE FALSE
        OBVIOUS
      <4>1. n < Start(u)
        BY <1>1, <1>10, <2>2 DEF Filled
      <4>. QED
        BY <1>10, <4>1, ThreadSlice DEF Node
    <3>3. u < next
      BY <3>1, <3>2, NextThread
    <3>. QED
      BY <1>2, <1>10, <3>2, <3>3 DEF Filled
  <2>. QED
    BY <2>1, <2>2
<1>. QED
  BY <1>0, <1>1, <1>2, <1>3, <1>4, <1>7, <1>8, <1>9, <1>10 DEF MainKind

LEMMA JoinKind ==
  ASSUME SpawnTypeOK, SpawnControl, UNCHANGED bodyVars, NEW from, NEW to,
         (from = "joinInit" /\ to = "loop") \/ (from = "join" /\ to = "test"),
         Join1(from, to)
  PROVE  /\ MainKind
         /\ ScanTypeOK(SpawnLabel)' /\ SpawnControl' /\ main' \in MainLabel /\ next' \in Thread
<1>. USE DEF SpawnTypeOK
<1>0. /\ main = from /\ main' \in {from, to} /\ pc[next] = "none"
      /\ UNCHANGED <<node_wt, changed, pc, node, edge>>
  BY DEF Join1, scanVars
<1>1. next' \in Thread /\ main' \in MainLabel
  BY NextThread DEF Join1, MainLabel
<1>2. ScanTypeOK(SpawnLabel)'
  BY <1>0 DEF ScanTypeOK
<1>3. ASSUME NEW u \in Thread, u >= next, u # next
      PROVE  main' = from /\ u >= next'
  <2>1. next + 1 < threadNum
    BY <1>3, NextThread, ThreadAssumption
  <2>2. u >= next + 1
    BY <1>3, NextThread
  <2>. QED
    BY <2>1, <2>2 DEF Join1
<1>4. SpawnControl'
  <2>1. ASSUME NEW u \in Thread, pc[u] = "init" PROVE main' = "joinInit" /\ u >= next'
    BY <1>0, <1>3, <2>1 DEF SpawnControl
  <2>2. ASSUME NEW u \in Thread, pc[u] \notin {"none", "init"} PROVE main' = "join" /\ u >= next'
    BY <1>0, <1>3, <2>2 DEF SpawnControl
  <2>3. main' \in {"loop", "test", "done"} => next' = 0
    BY <1>0 DEF Join1
  <2>. QED
    BY <1>0, <2>1, <2>2, <2>3 DEF SpawnControl
<1>5. \A u \in Thread : Started(u)' => Started(u)
  BY <1>0 DEF Started
<1>6. \A u \in Thread : \A n : Filled(u, n)' => Filled(u, n)
  BY <1>0 DEF Filled
<1>. QED
  BY <1>0, <1>1, <1>2, <1>4, <1>5, <1>6 DEF MainKind

\* The steps between two rounds.
LEMMA BetweenKind ==
  ASSUME SpawnTypeOK, SpawnControl, UNCHANGED bodyVars, RoundLoop \/ RoundDecision
  PROVE  /\ MainKind
         /\ ScanTypeOK(SpawnLabel)' /\ SpawnControl' /\ main' \in MainLabel /\ next' \in Thread
<1>. USE DEF SpawnTypeOK
<1>0. /\ main \in {"loop", "test"} /\ main' \in {"spawn", "done", "loop"} /\ next' = next
      /\ UNCHANGED <<node_wt, pc, node, edge>> /\ changed' \in {changed, FALSE}
  BY DEF RoundLoop, RoundDecision, scanVars
<1>1. next = 0 /\ \A u \in Thread : pc[u] = "none"
  BY <1>0 DEF SpawnControl
<1>2. \A u \in Thread : ~Started(u)'
  BY <1>0, <1>1, NextThread DEF Started
<1>3. ScanTypeOK(SpawnLabel)'
  BY <1>0 DEF ScanTypeOK
<1>4. SpawnControl'
  BY <1>0, <1>1 DEF SpawnControl
<1>5. main' \in MainLabel
  BY <1>0 DEF MainLabel
<1>6. \A u \in Thread : \A n : Filled(u, n)' => Filled(u, n)
  BY <1>0 DEF Filled
<1>. QED
  BY <1>0, <1>1, <1>2, <1>3, <1>4, <1>5, <1>6 DEF MainKind

LEMMA MainStepKind ==
  ASSUME SpawnTypeOK, SpawnControl, MainStep, UNCHANGED bodyVars
  PROVE  /\ MainKind
         /\ ScanTypeOK(SpawnLabel)' /\ SpawnControl' /\ main' \in MainLabel /\ next' \in Thread
BY StartKind, JoinKind, BetweenKind DEF MainStep

\* So main's steps keep the invariant.
LEMMA SpawnMainStep ==
  ASSUME SpawnInv, MainStep, UNCHANGED bodyVars
  PROVE  SpawnInv'
<1>. USE DEF SpawnInv, SpawnWalks
<1>0. /\ MainKind
      /\ ScanTypeOK(SpawnLabel)' /\ SpawnControl' /\ main' \in MainLabel /\ next' \in Thread
  BY MainStepKind
<1>1. UNCHANGED <<node_wt, distance, prev_distance, pred_1, register, program>>
  BY <1>0 DEF MainKind, bodyVars, exchangeVars
<1>2. ASSUME NEW u \in Thread, pc[u] \in BodyLabel \/ pc'[u] \in BodyLabel
      PROVE  /\ pc'[u] = pc[u] /\ node'[u] = node[u] /\ edge'[u] = edge[u]
             /\ dest(u)' = dest(u) /\ Through(u)' = Through(u)
  BY <1>0, <1>1, <1>2, SpawnLabels DEF MainKind, dest, Through
<1>3. SpawnTypeOK'
  <2>1. LocalTypeOK'
    BY <1>1 DEF LocalTypeOK, SpawnTypeOK
  <2>2. \A u \in Thread : pc'[u] = "verify" => program' \in AtomicPrograms
    BY <1>1, <1>2 DEF SpawnTypeOK, BodyLabel
  <2>. QED
    BY <1>0, <2>1, <2>2 DEF SpawnTypeOK
<1>4. EdgeLoops' /\ Storable'
  BY <1>1, <1>2, SpawnLabels DEF EdgeLoops, Storable
<1>5. SpawnNotTooLow'
  <2>1. \A u \in Thread : \A n \in Node :
          n \in Start(u) .. End(u) - 1 /\ Filled(u, n)' => Dist[n] <= node_wt'[n]
    BY <1>0, <1>1 DEF MainKind, SpawnNotTooLow
  <2>. QED
    BY <1>1, <1>2, <2>1, SpawnLabels DEF SpawnNotTooLow
<1>6. Returned'
  BY <1>0 DEF MainKind, Returned
<1>7. CASE UNCHANGED changed
  <2>1. SpawnAnnounced'
    <3>1. \A u \in Thread : pc[u] = "verify" => pc[u] \in BodyLabel
      BY DEF BodyLabel
    <3>2. \A u \in Thread : pc'[u] = "verify" => pc'[u] \in BodyLabel
      BY DEF BodyLabel
    <3>3. ASSUME NEW u \in Thread, pc'[u] = "verify", ~changed'
          PROVE  \E w \in Thread : /\ pc'[w] = "verify" /\ dest(w)' = dest(u)'
                                   /\ distance'[w] = node_wt'[dest(u)']
      <4>1. pc[u] = "verify" /\ dest(u)' = dest(u) /\ ~changed
        BY <1>2, <1>7, <3>2, <3>3
      <4>2. PICK w \in Thread : /\ pc[w] = "verify" /\ dest(w) = dest(u)
                                /\ distance[w] = node_wt[dest(u)]
        BY <4>1 DEF SpawnAnnounced
      <4>3. pc'[w] = "verify" /\ dest(w)' = dest(w)
        BY <1>2, <3>1, <4>2
      <4>. QED
        BY <1>1, <4>1, <4>2, <4>3
    <3>. QED
      BY <3>3 DEF SpawnAnnounced
  <2>2. ASSUME ~Stirred', NEW u \in Thread PROVE SpawnMissesNothing(u)'
    <3>1. ~Stirred
      BY <1>2, <1>7, <2>2, SpawnLabels DEF Stirred
    <3>2. SpawnMissesNothing(u)
      BY <3>1 DEF SpawnCalm
    <3>3. ASSUME NEW n \in Node, n \in Start(u) .. End(u) - 1, NEW e, Visited(u, n, e)'
          PROVE  Visited(u, n, e)
      <4>1. CASE Started(u) /\ pc'[u] = pc[u] /\ node'[u] = node[u]
        BY <1>2, <3>3, <4>1 DEF Visited
      <4>2. CASE pc'[u] = "node" /\ node'[u] = Start(u)
        <5>1. n < Start(u)
          BY <3>3, <4>2, SpawnLabels DEF Visited
        <5>. QED
          BY <3>3, <5>1, ThreadSlice DEF Node
      <4>. QED
        BY <1>0, <3>3, <4>1, <4>2 DEF MainKind, Visited
    <3>. QED
      BY <1>1, <1>2, <3>2, <3>3, SpawnLabels DEF SpawnMissesNothing
  <2>. QED
    BY <1>0, <1>1, <1>3, <1>4, <1>5, <1>6, <2>1, <2>2 DEF SpawnCalm
<1>8. CASE \A u \in Thread : pc'[u] = "none" /\ ~Started(u)'
  <2>1. SpawnAnnounced'
    BY <1>8 DEF SpawnAnnounced
  <2>2. SpawnCalm'
    BY <1>8, SpawnLabels DEF SpawnCalm, SpawnMissesNothing, Visited
  <2>. QED
    BY <1>0, <1>1, <1>3, <1>4, <1>5, <1>6, <2>1, <2>2
<1>. QED
  BY <1>0, <1>7, <1>8 DEF MainKind

\* Initially no thread exists and nothing is taken for initialised.
LEMMA SpawnInvInit == SSSPInit => SpawnInv
<1>. SUFFICES ASSUME SSSPInit PROVE SpawnInv
  OBVIOUS
<1>. USE DEF SSSPInit, SpawnInit, BodyInit, ExchangeInit, PlainInit
<1>n. num_nodes \in Nat /\ num_nodes > 0 /\ num_edges \in Nat /\ INF \in Nat \ {0}
  BY CSRAssumption
<1>0. 0 \in Thread /\ 0 \in Weight /\ \A t \in Thread : ~(t < 0)
  BY <1>n, ThreadAssumption DEF Thread, Weight
<1>p. \A t \in Thread : pc[t] = "none" /\ pc[t] \notin BodyLabel
  BY SpawnLabels
<1>1. ScanTypeOK(SpawnLabel)
  <2>1. \A t \in Thread : Start(t) \in 0 .. num_nodes /\ Start(t) \in Start(t) .. End(t)
    BY <1>n, ThreadSlice
  <2>2. node_wt \in [Node -> Weight] /\ changed \in BOOLEAN
    BY <1>0
  <2>3. pc \in [Thread -> SpawnLabel]
    BY DEF SpawnLabel
  <2>4. /\ node \in [Thread -> 0 .. num_nodes]
        /\ \A t \in Thread : node[t] \in Start(t) .. End(t)
    BY <2>1
  <2>5. edge \in [Thread -> 0 .. num_edges]
    BY <1>n
  <2>. QED
    BY <2>2, <2>3, <2>4, <2>5 DEF ScanTypeOK
<1>2. SpawnTypeOK
  BY <1>0, <1>1, <1>p DEF SpawnTypeOK, LocalTypeOK, MainLabel
<1>3. SpawnControl /\ EdgeLoops /\ Storable
  BY <1>p, SpawnLabels DEF SpawnControl, EdgeLoops, Storable
<1>4. node_wt[src] = 0
  BY DistFacts
<1>5. SpawnNotTooLow
  BY <1>0, <1>p, SpawnLabels DEF SpawnNotTooLow, Filled
<1>6. Returned /\ SpawnAnnounced
  BY <1>0, <1>p DEF Returned, Started, SpawnAnnounced
<1>7. SpawnCalm
  BY <1>0, <1>p, SpawnLabels DEF SpawnCalm, SpawnMissesNothing, Visited, Started
<1>. QED
  BY <1>2, <1>3, <1>4, <1>5, <1>6, <1>7 DEF SpawnInv, SpawnWalks

LEMMA SpawnInvStep == SpawnInv /\ [SSSPNext]_spawnVars => SpawnInv'
<1>. SUFFICES ASSUME SpawnInv, [SSSPNext]_spawnVars PROVE SpawnInv'
  OBVIOUS
<1>. USE DEF SpawnInv
<1>1. CASE MainStep /\ UNCHANGED bodyVars
  BY <1>1, SpawnMainStep
<1>2. ASSUME NEW t \in Thread, SpawnedStep(t) PROVE SpawnInv'
  <2>1. SpawnKind(t) /\ program' = program /\ UNCHANGED mainVars
    BY <1>2, SpawnStepKind DEF SpawnWalks
  <2>2. SpawnWalks'
    BY <1>2, SpawnWalksStep
  <2>3. Returned' /\ SpawnAnnounced' /\ SpawnCalm'
    BY <2>1, ReturnedStep, SpawnAnnouncedStep, SpawnCalmStep
  <2>. QED
    BY <2>2, <2>3
<1>3. CASE UNCHANGED spawnVars
  <2>. USE <1>3 DEF spawnVars, scanVars, mainVars, bodyVars, exchangeVars
  <2>1. SpawnTypeOK' /\ SpawnControl' /\ EdgeLoops'
    BY DEF SpawnWalks, SpawnTypeOK, ScanTypeOK, LocalTypeOK, SpawnControl, EdgeLoops
  <2>2. Storable' /\ node_wt'[src] = 0
    BY DEF SpawnWalks, Storable, dest
  <2>3. SpawnNotTooLow'
    BY DEF SpawnWalks, SpawnNotTooLow, Filled, dest
  <2>4. Returned' /\ SpawnAnnounced'
    BY DEF Returned, Started, SpawnAnnounced, dest
  <2>5. SpawnCalm'
    BY DEF SpawnCalm, Stirred, SpawnMissesNothing, Visited, Started, Through
  <2>. QED
    BY <2>1, <2>2, <2>3, <2>4, <2>5, DistFacts DEF SpawnWalks
<1>. QED
  BY <1>1, <1>2, <1>3 DEF SSSPNext, MainDone

\* The invariant of sssp and sssp_no_atomic, for any graph without a negative
\* cycle and any number of threads.
THEOREM SpawnInvariant == SSSPSpec => []SpawnInv
BY SpawnInvInit, SpawnInvStep, PTL DEF SSSPSpec

\* When main tests the flag, resets it or has left the loop, it has joined
\* every thread it started, and a thread of one round meets none of another.
THEOREM RoundsSeparatedCorrect == SSSPSpec => []RoundsSeparated
<1>1. SpawnInv => RoundsSeparated
  BY DEF SpawnInv, SpawnWalks, SpawnControl, RoundsSeparated
<1>. QED
  BY <1>1, SpawnInvariant, PTL

\* No edge can lower a distance when main leaves the loop early, although a
\* distance may have been overwritten by a higher one in earlier rounds.
THEOREM BreakIsFixpointCorrect == SSSPSpec => []BreakIsFixpoint
<1>1. ASSUME SpawnInv, main = "test", ~changed PROVE Closed(node_wt)
  <2>. USE <1>1 DEF SpawnInv, SpawnWalks
  <2>1. \A t \in Thread : pc[t] = "none" /\ Started(t)
    BY DEF SpawnControl, Started
  <2>2. ~Stirred
    BY <2>1 DEF Stirred, HasStored
  <2>3. ASSUME NEW n \in Node, node_wt[n] # INF, NEW e \in Row(n)
        PROVE  node_wt[edge_dst[e]] <= node_wt[n] + edge_wt[e]
    <3>1. PICK t \in Thread : n \in Start(t) .. End(t) - 1
      BY NodeCovered
    <3>2. node[t] = End(t) /\ SpawnMissesNothing(t)
      BY <2>1, <2>2 DEF Returned, SpawnCalm
    <3>3. Visited(t, n, e)
      BY <2>1, <3>1, <3>2, ThreadSlice DEF Visited, Node
    <3>. QED
      BY <2>3, <3>1, <3>2, <3>3 DEF SpawnMissesNothing
  <2>. QED
    BY <2>3 DEF Closed
<1>2. SpawnInv => BreakIsFixpoint
  BY <1>1 DEF BreakIsFixpoint
<1>. QED
  BY <1>2, SpawnInvariant, PTL

\* From the end of the initialisation on no distance is below the true one,
\* whatever the threads overwrite.
SpawnAboveDist ==
  main \notin {"spawnInit", "joinInit"} => \A n \in Node : Dist[n] <= node_wt[n]

THEOREM SpawnAboveDistCorrect == SSSPSpec => []SpawnAboveDist
<1>1. ASSUME SpawnInv, main \notin {"spawnInit", "joinInit"}, NEW n \in Node
      PROVE  Dist[n] <= node_wt[n]
  <2>. USE <1>1 DEF SpawnInv, SpawnWalks
  <2>1. PICK t \in Thread : n \in Start(t) .. End(t) - 1
    BY NodeCovered
  <2>2. Filled(t, n)
    BY DEF Filled, SpawnControl
  <2>. QED
    BY <2>1, <2>2 DEF SpawnNotTooLow
<1>2. SpawnInv => SpawnAboveDist
  BY <1>1 DEF SpawnAboveDist
<1>. QED
  BY <1>2, SpawnInvariant, PTL

\* So main leaves the loop early with the true distances only.
BreakIsDist == main = "test" /\ ~changed => node_wt = Dist

THEOREM BreakIsDistCorrect == SSSPSpec => []BreakIsDist
<1>1. SpawnInv /\ BreakIsFixpoint /\ SpawnAboveDist => BreakIsDist
  <2>. SUFFICES ASSUME SpawnInv, BreakIsFixpoint, SpawnAboveDist, main = "test", ~changed
                PROVE  node_wt = Dist
    BY DEF BreakIsDist
  <2>1. node_wt \in [Node -> Weight] /\ node_wt[src] <= 0
    BY DEF SpawnInv, SpawnWalks, SpawnTypeOK, ScanTypeOK
  <2>. QED
    BY <2>1, ClosedIsDist DEF BreakIsFixpoint, SpawnAboveDist
<1>. QED
  BY <1>1, SpawnInvariant, BreakIsFixpointCorrect, SpawnAboveDistCorrect, PTL
=============================================================================
