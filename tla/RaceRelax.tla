----------------------------- MODULE RaceRelax -----------------------------
(***************************************************************************)
(* The loop body of a program without locks: ExchangeRelax or PlainRelax.  *)
(* The programs that differ in the body only share a module; the variable  *)
(* program says which of them runs.                                        *)
(***************************************************************************)
EXTENDS PlainRelax

CONSTANT Programs   \* the programs to be looked at
VARIABLE program

bodyVars == <<exchangeVars, register, program>>

AtomicPrograms == { "sssp", "sssp_barrier" }
PlainPrograms == { "sssp_no_atomic", "sssp_ex3" }
ASSUME ProgramsAssumption ==
  Programs \subseteq AtomicPrograms \cup PlainPrograms \cup { "sssp_nodelock", "sssp_relaxed" }

BodyInit ==
  /\ ExchangeInit
  /\ PlainInit
  /\ program \in Programs

BodyStep(t) ==
  /\ \/ /\ program \in AtomicPrograms
        /\ RelaxStep(t)
        /\ UNCHANGED register
     \/ /\ program \in PlainPrograms
        /\ PlainStep(t)
        /\ UNCHANGED <<prev_distance, pred_1>>
  /\ UNCHANGED program

\* What the steps outside the body do to its variables.
OutsideBody(t) ==
  /\ IF program \in PlainPrograms THEN LoadRegister(t) ELSE UNCHANGED register
  /\ UNCHANGED <<exchangeVars, program>>
=============================================================================
