---------------------------- MODULE SerialQueue ----------------------------
(***************************************************************************)
(* serialqueue.h of a4: a ring of maxqsize + 1 cells; one cell stays free. *)
(* A queue is a record; its methods are operators on it.                   *)
(***************************************************************************)
EXTENDS Integers

\* initialize(maxqsize)
NewQueue(maxqsize) ==
  [ qsize |-> maxqsize + 1, head |-> 0, tail |-> 0, items |-> [c \in 0 .. maxqsize |-> 0] ]

\* push and pop return 0.
IsFull(q) == (q.tail + 1) % q.qsize = q.head
IsEmpty(q) == q.head = q.tail

\* push into a queue that is not full.
Pushed(q, item) ==
  LET cell == (q.tail + 1) % q.qsize
  IN  [q EXCEPT !.tail = cell, !.items[cell] = item]

\* Faulty: the first item is read but not taken away.
PoppedNothing(q) == q

\* pop from a queue that is not empty, and the item it gives.
Popped(q) == [q EXCEPT !.head = (@ + 1) % q.qsize]
FirstItem(q) == q.items[(q.head + 1) % q.qsize]

\* The items in the queue.
Queued(q) == { q.items[(q.head + k) % q.qsize] : k \in 1 .. (q.tail - q.head) % q.qsize }
=============================================================================
