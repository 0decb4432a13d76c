------------------------------- MODULE Slices -------------------------------
(***************************************************************************)
(* How the threaded programs of a2 and a3 split the range [0, total) among *)
(* n threads: every thread but the last takes total / n elements, the last *)
(* takes what is left.  The code repeats these four lines in each program  *)
(* (total_nodes in a2, bound in a3).                                       *)
(***************************************************************************)
EXTENDS Integers

\* The length of every slice but the last.
SliceLen(total, n) == total \div n

\* The first element of thread tid.
SliceStart(total, n, tid) == tid * SliceLen(total, n)

\* One past the last element of thread tid.
SliceEnd(total, n, tid) ==
  IF tid + 1 = n THEN total ELSE SliceStart(total, n, tid) + SliceLen(total, n)
=============================================================================
