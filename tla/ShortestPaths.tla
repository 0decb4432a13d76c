--------------------------- MODULE ShortestPaths ---------------------------
(***************************************************************************)
(* What a single-source shortest-path program promises, whatever its       *)
(* threads do: from "source 0, everything else INF" the published          *)
(* distances only ever go down, never below the true distance, and the     *)
(* program finishes with exactly the true distances.                       *)
(***************************************************************************)
EXTENDS CSRGraph

VARIABLES
  d,         \* the distance published for each node
  finished   \* every thread has returned: main may write the output

vars == <<d, finished>>

Init ==
  /\ d = [n \in Node |-> InitDist(n)]
  /\ finished = FALSE

\* A shorter walk to v is found; no walk is shorter than Dist[v].
Lower(v) ==
  /\ ~finished
  /\ \E x \in Dist[v] .. d[v] - 1 : d' = [d EXCEPT ![v] = x]
  /\ UNCHANGED finished

\* Only the right answer may be handed over.
Finish ==
  /\ ~finished
  /\ d = Dist
  /\ finished' = TRUE
  /\ UNCHANGED d

Next == (\E v \in Node : Lower(v)) \/ Finish

Spec == Init /\ [][Next]_vars
=============================================================================
