------------------------------ MODULE MSQueue ------------------------------
(***************************************************************************)
(* a4/src/lockfree_queue.h: the queue of Michael and Scott.  head and tail *)
(* are counted pointers into a linked list that begins with a dummy node;  *)
(* enqueue links a node behind the last one and then swings tail, dequeue  *)
(* swings head and frees the old dummy.  Every load and every              *)
(* compare_exchange is a step; compare_exchange_weak may also fail for no  *)
(* reason.                                                                 *)
(*                                                                         *)
(* The allocator hands out the addresses of Addr one after the other and,  *)
(* if Reuse says so, those of freed nodes again.  It may overwrite the     *)
(* front of a freed node (val) and leaves the rest (next).                 *)
(***************************************************************************)
EXTENDS Integers, Sequences

CONSTANTS
  Proc, Item,
  maxNode,   \* bounds the addresses, and the enqueues
  Reuse      \* are freed addresses handed out again?

ASSUME ReuseAssumption == Reuse \in BOOLEAN
ASSUME NodeAssumption == maxNode \in Nat \ {0}

VARIABLES
  head, tail,   \* atomic counted pointers [p, count]
  val, next,    \* the fields of the nodes
  used,         \* the number of addresses handed out
  freed,        \* the addresses given back, and not handed out again
  pc,
  t, h, n,      \* the local counted pointers of each thread
  w,            \* the node enqueue has allocated
  rtn           \* the value dequeue has stored

shared == <<head, tail, val, next, used, freed>>
local == <<t, h, n, w, rtn>>
vars == <<shared, pc, local>>

Addr == 0 .. maxNode - 1
Null == -1
Ptr(a, count) == [p |-> a, count |-> count]
ptr0 == Ptr(Null, 0)   \* ptr()

\* msqueue(): one dummy node; its value is never read.
Init ==
  /\ head = Ptr(0, 0)
  /\ tail = Ptr(0, 0)
  /\ val \in { [a \in Addr |-> x] : x \in Item }
  /\ next = [a \in Addr |-> ptr0]
  /\ used = 1
  /\ freed = {}
  /\ pc = [p \in Proc |-> "idle"]
  /\ t = [p \in Proc |-> ptr0]
  /\ h = [p \in Proc |-> ptr0]
  /\ n = [p \in Proc |-> ptr0]
  /\ w = [p \in Proc |-> Null]
  /\ rtn = [p \in Proc |-> val[0]]

Goto(p, from, to) == pc[p] = from /\ pc' = [pc EXCEPT ![p] = to]

\* w = new node(value); the count of its next begins at 0 every time.
CallEnqueue(p, x) ==
  /\ tail.count < maxNode
  /\ Goto(p, "idle", "eTail")
  /\ \E a \in Addr :
       /\ \/ a = used /\ used' = used + 1 /\ UNCHANGED freed
          \/ a \in freed /\ Reuse /\ freed' = freed \ {a} /\ UNCHANGED used
       /\ w' = [w EXCEPT ![p] = a]
       /\ val' = [val EXCEPT ![a] = x]
       /\ next' = [next EXCEPT ![a] = ptr0]
  /\ UNCHANGED <<head, tail, t, h, n, rtn>>

CallDequeue(p) ==
  /\ Goto(p, "idle", "dHead")
  /\ UNCHANGED <<shared, local>>

\* t = tail.load()
LoadTail(p) ==
  /\ Goto(p, "eTail", "eNext") \/ Goto(p, "dTail", "dNext")
  /\ t' = [t EXCEPT ![p] = tail]
  /\ UNCHANGED <<shared, h, n, w, rtn>>

\* h = head.load()
LoadHead(p) ==
  /\ Goto(p, "dHead", "dTail")
  /\ h' = [h EXCEPT ![p] = head]
  /\ UNCHANGED <<shared, t, n, w, rtn>>

\* n = t.p->next.load() in enqueue, n = h.p->next.load() in dequeue
LoadNext(p) ==
  /\ \/ Goto(p, "eNext", "eCheck") /\ n' = [n EXCEPT ![p] = next[t[p].p]]
     \/ Goto(p, "dNext", "dCheck") /\ n' = [n EXCEPT ![p] = next[h[p].p]]
  /\ UNCHANGED <<shared, t, h, w, rtn>>

\* Is tail still t, and is t the last node?
CheckTail(p) ==
  /\ \/ t[p] # tail /\ Goto(p, "eCheck", "eTail")
     \/ t[p] = tail /\ n[p].p = Null /\ Goto(p, "eCheck", "eLink")
     \/ t[p] = tail /\ n[p].p # Null /\ Goto(p, "eCheck", "eHelp")
  /\ UNCHANGED <<shared, local>>

\* Faulty: next is stored, not compared and exchanged.
LinkStores(p) ==
  /\ Goto(p, "eLink", "eSwing")
  /\ next' = [next EXCEPT ![t[p].p] = Ptr(w[p], n[p].count + 1)]
  /\ UNCHANGED <<head, tail, val, used, freed, local>>

\* t.p->next.compare_exchange_weak(n, ptr(w, n.count + 1))
Link(p) ==
  /\ pc[p] = "eLink"
  /\ \/ /\ next[t[p].p] = n[p]
        /\ next' = [next EXCEPT ![t[p].p] = Ptr(w[p], n[p].count + 1)]
        /\ Goto(p, "eLink", "eSwing")
     \/ UNCHANGED next /\ Goto(p, "eLink", "eTail")
  /\ UNCHANGED <<head, tail, val, used, freed, local>>

\* tail.compare_exchange_weak(t, ptr(n.p, t.count + 1)): tail lags behind.
HelpTail(p) ==
  /\ Goto(p, "eHelp", "eTail") \/ Goto(p, "dHelp", "dHead")
  /\ \/ tail = t[p] /\ tail' = Ptr(n[p].p, t[p].count + 1)
     \/ UNCHANGED tail
  /\ UNCHANGED <<head, val, next, used, freed, local>>

\* tail.compare_exchange_weak(t, ptr(w, t.count + 1)), whatever comes of it
SwingTail(p) ==
  /\ Goto(p, "eSwing", "enqueued")
  /\ \/ tail = t[p] /\ tail' = Ptr(w[p], t[p].count + 1)
     \/ UNCHANGED tail
  /\ UNCHANGED <<head, val, next, used, freed, local>>

\* Faulty: head may pass tail.
CheckHeadOnly(p) ==
  /\ \/ h[p] # head /\ Goto(p, "dCheck", "dHead")
     \/ h[p] = head /\ n[p].p = Null /\ Goto(p, "dCheck", "empty")
     \/ h[p] = head /\ n[p].p # Null /\ Goto(p, "dCheck", "dVal")
  /\ UNCHANGED <<shared, local>>

\* Is head still h, and is there a node behind it?
CheckHead(p) ==
  /\ \/ h[p] # head /\ Goto(p, "dCheck", "dHead")
     \/ /\ h[p] = head
        /\ \/ h[p].p = t[p].p /\ n[p].p = Null /\ Goto(p, "dCheck", "empty")
           \/ h[p].p = t[p].p /\ n[p].p # Null /\ Goto(p, "dCheck", "dHelp")
           \/ h[p].p # t[p].p /\ Goto(p, "dCheck", "dVal")
  /\ UNCHANGED <<shared, local>>

\* rtn = n.p->val
ReadVal(p) ==
  /\ Goto(p, "dVal", "dSwing")
  /\ rtn' = [rtn EXCEPT ![p] = val[n[p].p]]
  /\ UNCHANGED <<shared, t, h, n, w>>

\* head.compare_exchange_weak(h, ptr(n.p, h.count + 1))
SwingHead(p) ==
  /\ \/ /\ head = h[p]
        /\ head' = Ptr(n[p].p, h[p].count + 1)
        /\ Goto(p, "dSwing", "dFree")
     \/ UNCHANGED head /\ Goto(p, "dSwing", "dHead")
  /\ UNCHANGED <<tail, val, next, used, freed, local>>

\* free(h.p)
Free(p) ==
  /\ Goto(p, "dFree", "dequeued")
  /\ freed' = freed \cup {h[p].p}
  /\ \E x \in Item : val' = [val EXCEPT ![h[p].p] = x]
  /\ UNCHANGED <<head, tail, next, used, local>>

\* The call returns, and its locals are gone.
Return(p) ==
  /\ \E l \in {"enqueued", "dequeued", "empty"} : Goto(p, l, "idle")
  /\ t' = [t EXCEPT ![p] = ptr0]
  /\ h' = [h EXCEPT ![p] = ptr0]
  /\ n' = [n EXCEPT ![p] = ptr0]
  /\ w' = [w EXCEPT ![p] = Null]
  /\ UNCHANGED <<shared, rtn>>

Step(p) ==
  \/ LoadTail(p) \/ LoadHead(p) \/ LoadNext(p)
  \/ CheckTail(p) \/ Link(p) \/ HelpTail(p) \/ SwingTail(p)
  \/ CheckHead(p) \/ ReadVal(p) \/ SwingHead(p) \/ Free(p) \/ Return(p)

Next ==
  \E p \in Proc : CallDequeue(p) \/ Step(p) \/ \E x \in Item : CallEnqueue(p, x)

Spec == Init /\ [][Next]_vars

-----------------------------------------------------------------------------
\* The nodes from a on, and the values behind a.
Follow[a \in Addr] ==
  IF next[a].p = Null THEN <<a>> ELSE <<a>> \o Follow[next[a].p]
Listed == { Follow[head.p][i] : i \in 1 .. Len(Follow[head.p]) }
Content == [ i \in 1 .. Len(Follow[head.p]) - 1 |-> val[Follow[head.p][i + 1]] ]

\* tail points to the last node or the one before it, and no node that can be
\* reached from head or tail has been freed.
ListOK ==
  /\ tail.p \in Listed
  /\ Len(Follow[tail.p]) <= 2
  /\ Listed \cap freed = {}

\* "free_for_reuse" (lockfree_queue.h:84): a freed node can be used again, the
\* counts tell old pointers from new ones, and so the compare_exchange on next
\* can succeed only at a node that is in the list.
LinksInList ==
  \A p \in Proc : pc[p] = "eLink" /\ next[t[p].p] = n[p] => t[p].p \in Listed

\* What the call of p has come to, as the abstract queue sees it.
Phase(p) ==
  CASE pc[p] = "idle" -> [op |-> "idle"]
    [] pc[p] \in {"eTail", "eNext", "eCheck", "eLink", "eHelp"} ->
         [op |-> "pushing", item |-> val[w[p]]]
    [] pc[p] \in {"eSwing", "enqueued"} -> [op |-> "pushed", ok |-> TRUE]
    [] pc[p] \in {"dFree", "dequeued"} -> [op |-> "popped", item |-> rtn[p]]
    [] pc[p] = "empty" -> [op |-> "popFailed"]
    [] OTHER -> [op |-> "popping", sawEmpty |-> pc[p] = "dCheck" /\ n[p].p = Null]
Calls == [p \in Proc |-> Phase(p)]

Queue == INSTANCE Fifo WITH Capacity <- maxNode, queue <- Content, call <- Calls

\* The lock-free queue is a FIFO queue: an item enters with the successful
\* compare_exchange on next and leaves with the one on head; a dequeue that
\* reports an empty queue saw it empty when it loaded next.
ImplementsFifo == Queue!Spec
=============================================================================
