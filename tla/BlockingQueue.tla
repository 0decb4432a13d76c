--------------------------- MODULE BlockingQueue ---------------------------
(***************************************************************************)
(* a4/src/blocking_queue.h: a ring buffer of maxqsize+1 cells behind one   *)
(* mutex.  head is the cell before the oldest item, tail the cell of the   *)
(* newest.  Any thread may call push or pop at any time.                   *)
(***************************************************************************)
EXTENDS Integers, Sequences

CONSTANTS Proc, Item, maxqsize, NoProc
ASSUME QueueAssumption ==
  /\ maxqsize \in Nat
  /\ NoProc \notin Proc

VARIABLES
  head, tail, items,
  q_mutex,   \* the thread that holds the mutex
  pc,        \* pc[p]: the next statement of p
  item       \* item[p]: the argument of push, or what pop has stored in it

ringVars == <<head, tail, items>>
vars == <<ringVars, q_mutex, pc, item>>

qsize == maxqsize + 1
Cell == 0 .. qsize - 1
After(i) == (i + 1) % qsize

\* initialize: the cells are calloc'ed, so all hold the same value.
Init ==
  /\ head = 0
  /\ tail = 0
  /\ items \in { [c \in Cell |-> x] : x \in Item }
  /\ q_mutex = NoProc
  /\ pc = [p \in Proc |-> "idle"]
  /\ item = [p \in Proc |-> items[0]]

Goto(p, from, to) == pc[p] = from /\ pc' = [pc EXCEPT ![p] = to]

\* Faulty: the mutex does not exclude.
AcquireShared(p) == q_mutex' = p

Acquire(p) == q_mutex = NoProc /\ q_mutex' = p

CallPush(p, x) ==
  /\ Goto(p, "idle", "push")
  /\ item' = [item EXCEPT ![p] = x]
  /\ UNCHANGED <<ringVars, q_mutex>>

CallPop(p) ==
  /\ Goto(p, "idle", "pop")
  /\ UNCHANGED <<ringVars, q_mutex, item>>

\* q_mutex.lock()
Lock(p) ==
  /\ Goto(p, "push", "pushTest") \/ Goto(p, "pop", "popTest")
  /\ Acquire(p)
  /\ UNCHANGED <<ringVars, item>>

\* Faulty: a full queue is tested again without giving the mutex back.
PushTestSpins(p) ==
  /\ \/ /\ After(tail) = head
        /\ Goto(p, "pushTest", "pushTest")
        /\ UNCHANGED tail
     \/ /\ After(tail) # head
        /\ Goto(p, "pushTest", "pushStore")
        /\ tail' = After(tail)
  /\ UNCHANGED <<head, items, q_mutex, item>>

\* The queue is full, or there is room: tail goes to the next cell.
PushTest(p) ==
  /\ \/ /\ After(tail) = head
        /\ Goto(p, "pushTest", "pushFull")
        /\ UNCHANGED tail
     \/ /\ After(tail) # head
        /\ Goto(p, "pushTest", "pushStore")
        /\ tail' = After(tail)
  /\ UNCHANGED <<head, items, q_mutex, item>>

\* items[tail] = item
PushStore(p) ==
  /\ Goto(p, "pushStore", "pushed")
  /\ items' = [items EXCEPT ![tail] = item[p]]
  /\ UNCHANGED <<head, tail, q_mutex, item>>

\* The queue is empty, or head goes to the cell of the oldest item.
PopTest(p) ==
  /\ \/ /\ head = tail
        /\ Goto(p, "popTest", "popEmpty")
        /\ UNCHANGED head
     \/ /\ head # tail
        /\ Goto(p, "popTest", "popRead")
        /\ head' = After(head)
  /\ UNCHANGED <<tail, items, q_mutex, item>>

\* item = items[head]
PopRead(p) ==
  /\ Goto(p, "popRead", "popped")
  /\ item' = [item EXCEPT ![p] = items[head]]
  /\ UNCHANGED <<ringVars, q_mutex>>

\* q_mutex.unlock() and return: 0 if full or empty, 1 otherwise.
Unlock(p) ==
  /\ \E l \in {"pushFull", "pushed", "popEmpty", "popped"} : Goto(p, l, "idle")
  /\ q_mutex' = NoProc
  /\ UNCHANGED <<ringVars, item>>

\* The steps of a call that has begun.
Step(p) ==
  Lock(p) \/ PushTest(p) \/ PushStore(p) \/ PopTest(p) \/ PopRead(p) \/ Unlock(p)

Next == \E p \in Proc : CallPop(p) \/ Step(p) \/ \E x \in Item : CallPush(p, x)

\* The operating system runs every thread that is not blocked; nobody has to
\* call.
Fairness == \A p \in Proc : WF_vars(Step(p))

Spec == Init /\ [][Next]_vars
FairSpec == Spec /\ Fairness

-----------------------------------------------------------------------------
\* The ring and the labels as a FIFO queue: an item is in it from the moment
\* it is stored until it is read.
Writing == \E p \in Proc : pc[p] = "pushStore"
Reading == \E p \in Proc : pc[p] = "popRead"
First == IF Reading THEN head ELSE After(head)
Length ==
  ((tail - head) % qsize) + (IF Reading THEN 1 ELSE 0) - (IF Writing THEN 1 ELSE 0)
Content == [ i \in 1 .. Length |-> items[(First + i - 1) % qsize] ]

\* What the call of p has come to, as the abstract queue sees it.
Phase(p) ==
  CASE pc[p] = "idle" -> [op |-> "idle"]
    [] pc[p] \in {"push", "pushTest", "pushStore"} ->
         [op |-> "pushing", item |-> item[p]]
    [] pc[p] \in {"pushed", "pushFull"} ->
         [op |-> "pushed", ok |-> pc[p] = "pushed"]
    [] pc[p] \in {"pop", "popTest", "popRead"} ->
         [op |-> "popping", sawEmpty |-> FALSE]
    [] pc[p] = "popped" -> [op |-> "popped", item |-> item[p]]
    [] pc[p] = "popEmpty" -> [op |-> "popFailed"]
Calls == [p \in Proc |-> Phase(p)]

Queue == INSTANCE Fifo WITH Capacity <- maxqsize, queue <- Content, call <- Calls

\* The blocking queue is a FIFO queue for any number of items up to maxqsize.
ImplementsFifo == Queue!Spec

\* While some call is under way, some call returns: the mutex is released on
\* every path, also when the queue is full or empty.
Progress ==
  (\E p \in Proc : pc[p] # "idle") ~>
    (\E p \in Proc : pc[p] \in {"pushFull", "pushed", "popEmpty", "popped"})
=============================================================================
