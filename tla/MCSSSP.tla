---- MODULE MCSSSP ----
(* SSSP on the small graphs of MCGraph. *)
EXTENDS SSSP, MCGraph
====
