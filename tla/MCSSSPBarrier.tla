---- MODULE MCSSSPBarrier ----
(* SSSPBarrier on the small graphs of MCGraph. *)
EXTENDS SSSPBarrier, MCGraph
====
