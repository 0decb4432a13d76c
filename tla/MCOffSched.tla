---- MODULE MCOffSched ----
(* OffSched on all task graphs without a cycle, up to the names of the     *)
(* tasks: OffSched knows the number 0 only, so the others are numbered in  *)
(* an order in which they could run, and 0 takes any place in it.          *)
EXTENDS OffSched

CONSTANT Costs

\* The tasks that come before x when task 0 comes behind task place.
Before(x, place) ==
  LET rank(y) == IF y = 0 THEN 2 * place + 1 ELSE 2 * y
  IN  { y \in Task : rank(y) < rank(x) }

Dependences ==
  UNION { { e \in [Task -> SUBSET Task] : \A x \in Task : e[x] \subseteq Before(x, place) } :
            place \in Task }

MCGraphs ==
  { [cost |-> c, src |-> e] : c \in [Task -> Costs], e \in Dependences }
====
