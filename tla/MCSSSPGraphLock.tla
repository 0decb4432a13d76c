---- MODULE MCSSSPGraphLock ----
(* SSSPGraphLock on the small graphs of MCGraph. *)
EXTENDS SSSPGraphLock, MCGraph
====
