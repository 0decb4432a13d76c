-------------------------------- MODULE Fifo --------------------------------
(***************************************************************************)
(* What a queue of a4 promises to threads that call it at the same time:   *)
(* every push and pop takes effect at one moment between its call and its  *)
(* return; a push fails only if the queue is full at that moment, a pop    *)
(* only if it was empty at some moment during the call.                    *)
(***************************************************************************)
EXTENDS Sequences, Integers

CONSTANTS Proc, Item, Capacity

VARIABLES
  queue,   \* the items, oldest first
  call     \* call[p]: what thread p is doing

vars == <<queue, call>>

Idle == [op |-> "idle"]
Pushing(x) == [op |-> "pushing", item |-> x]
Pushed(ok) == [op |-> "pushed", ok |-> ok]
Popping(sawEmpty) == [op |-> "popping", sawEmpty |-> sawEmpty]
Popped(x) == [op |-> "popped", item |-> x]
PopFailed == [op |-> "popFailed"]

Init == queue = <<>> /\ call = [p \in Proc |-> Idle]

Becomes(p, c) == call' = [call EXCEPT ![p] = c]

Call(p) ==
  /\ call[p] = Idle
  /\ Becomes(p, Popping(FALSE)) \/ \E x \in Item : Becomes(p, Pushing(x))
  /\ UNCHANGED queue

Push(p) ==
  /\ call[p].op = "pushing"
  /\ \/ /\ Len(queue) < Capacity
        /\ queue' = Append(queue, call[p].item)
        /\ Becomes(p, Pushed(TRUE))
     \/ /\ Len(queue) = Capacity
        /\ Becomes(p, Pushed(FALSE))
        /\ UNCHANGED queue

Pop(p) ==
  /\ call[p].op = "popping"
  /\ queue # <<>>
  /\ Becomes(p, Popped(Head(queue)))
  /\ queue' = Tail(queue)

\* A pop may see the queue empty, and may give up what it saw and look again.
Look(p) ==
  /\ call[p].op = "popping"
  /\ Becomes(p, Popping(FALSE)) \/ (queue = <<>> /\ Becomes(p, Popping(TRUE)))
  /\ UNCHANGED queue

PopEmpty(p) ==
  /\ call[p].op = "popping"
  /\ queue = <<>> \/ call[p].sawEmpty
  /\ Becomes(p, PopFailed)
  /\ UNCHANGED queue

Return(p) ==
  /\ call[p].op \in {"pushed", "popped", "popFailed"}
  /\ Becomes(p, Idle)
  /\ UNCHANGED queue

Next == \E p \in Proc :
          Call(p) \/ Push(p) \/ Pop(p) \/ Look(p) \/ PopEmpty(p) \/ Return(p)

Spec == Init /\ [][Next]_vars
=============================================================================
