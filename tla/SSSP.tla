-------------------------------- MODULE SSSP --------------------------------
(***************************************************************************)
(* a2/src/sssp.cpp and a2/src/sssp_no_atomic.cpp: threads started for      *)
(* every round, with the exchange body and over plain ints.                *)
(***************************************************************************)
EXTENDS SpawnRounds, RaceRelax

spawnVars == <<scanVars, mainVars, bodyVars>>

SSSPInit == SpawnInit /\ BodyInit

SpawnedStep(t) ==
  /\ (SpawnedControl(t) /\ OutsideBody(t)) \/ BodyStep(t)
  /\ UNCHANGED mainVars

MainDone == main = "done" /\ UNCHANGED spawnVars

SSSPNext ==
  \/ MainStep /\ UNCHANGED bodyVars
  \/ \E t \in Thread : SpawnedStep(t)
  \/ MainDone

\* The operating system runs main and every thread that can run.
SSSPFairness ==
  /\ WF_spawnVars(MainStep /\ UNCHANGED bodyVars)
  /\ \A t \in Thread : WF_spawnVars(SpawnedStep(t))

SSSPSpec == SSSPInit /\ [][SSSPNext]_spawnVars
FairSSSPSpec == SSSPSpec /\ SSSPFairness
=============================================================================
