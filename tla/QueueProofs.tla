----------------------------- MODULE QueueProofs -----------------------------
(***************************************************************************)
(* The two queues of a4 are FIFO queues: every call takes effect at one    *)
(* step between its first and its last, for any number of threads, any     *)
(* items and any size.  The first part is about the linked queue of        *)
(* lockfree_queue.h, for an allocator that never hands out an address      *)
(* twice; the second about the ring of blocking_queue.h.                   *)
(***************************************************************************)
EXTENDS MSQueue, SequenceTheorems, FiniteSetTheorems, WellFoundedInduction, TLAPS

USE NodeAssumption

\* The labels of enqueue before and of dequeue, and all labels.
Unlinked == {"eTail", "eNext", "eCheck", "eLink", "eHelp"}
Label == Unlinked \cup
  {"idle", "eSwing", "enqueued", "dHead", "dTail", "dNext", "dCheck", "dHelp",
   "dVal", "dSwing", "dFree", "dequeued", "empty"}

Pointer == [p : Addr \cup {Null}, count : Nat]

TypeOK ==
  /\ head \in Pointer /\ tail \in Pointer
  /\ val \in [Addr -> Item]
  /\ next \in [Addr -> Pointer]
  /\ used \in 1 .. maxNode
  /\ freed \subseteq Addr
  /\ pc \in [Proc -> Label]
  /\ t \in [Proc -> Pointer] /\ h \in [Proc -> Pointer] /\ n \in [Proc -> Pointer]
  /\ w \in [Proc -> Addr \cup {Null}]
  /\ rtn \in [Proc -> Item]

\* L lists every node that was ever linked, in the order of the links; the
\* count of a pointer into the list is a position in L.
On(L, K, q) == q.count <= K /\ q.p = L[q.count]
Behind(L, K, q, r) == q.count < K /\ r.p = L[q.count + 1] /\ r.count = 1

ListInv(L, K) ==
  /\ \A i, j \in 0 .. K : L[i] = L[j] => i = j
  /\ \A i \in 0 .. K : L[i] < used
  /\ \A i \in 0 .. K - 1 : next[L[i]] = Ptr(L[i + 1], 1)
  /\ \A a \in Addr : (\A i \in 0 .. K - 1 : a # L[i]) => next[a] = ptr0

EndsInv(L, K) ==
  /\ On(L, K, head) /\ On(L, K, tail)
  /\ head.count <= tail.count /\ K <= tail.count + 1
  /\ \A a \in freed : \E i \in 0 .. head.count - 1 : a = L[i]

Apart ==
  \A p, q \in Proc : pc[p] \in Unlinked /\ pc[q] \in Unlinked /\ w[p] = w[q] => p = q

EnqInv(L, K, p) ==
  /\ pc[p] \in Unlinked =>
       w[p] \in 0 .. used - 1 /\ \A i \in 0 .. K : w[p] # L[i]
  /\ pc[p] \in {"eNext", "eCheck", "eLink", "eHelp", "eSwing"} =>
       On(L, K, t[p]) /\ t[p].count <= tail.count
  /\ pc[p] = "eCheck" => n[p] = ptr0 \/ Behind(L, K, t[p], n[p])
  /\ pc[p] = "eLink" => n[p] = ptr0
  /\ pc[p] = "eHelp" => Behind(L, K, t[p], n[p])
  /\ pc[p] = "eSwing" => t[p].count < K /\ w[p] = L[t[p].count + 1]

DeqInv(L, K, p) ==
  /\ pc[p] \in {"dTail", "dNext", "dCheck", "dHelp", "dVal", "dSwing", "dFree"} =>
       On(L, K, h[p]) /\ h[p].count <= head.count
  /\ pc[p] \in {"dNext", "dCheck", "dHelp", "dVal", "dSwing"} =>
       On(L, K, t[p]) /\ h[p].count <= t[p].count /\ t[p].count <= tail.count
  /\ pc[p] = "dCheck" =>
       Behind(L, K, h[p], n[p]) \/ (n[p] = ptr0 /\ h[p].count = t[p].count)
  /\ pc[p] = "dHelp" => Behind(L, K, t[p], n[p])
  /\ pc[p] \in {"dVal", "dSwing"} =>
       h[p].count < t[p].count /\ Behind(L, K, h[p], n[p])
  /\ pc[p] = "dSwing" /\ head = h[p] => rtn[p] = val[n[p].p]
  /\ pc[p] = "dFree" => h[p].count < head.count

InvAt(L, K) ==
  /\ TypeOK /\ ListInv(L, K) /\ EndsInv(L, K) /\ Apart
  /\ \A p \in Proc : EnqInv(L, K, p) /\ DeqInv(L, K, p)

IInv == \E K \in Nat : \E L \in [0 .. K -> Addr] : InvAt(L, K)

-----------------------------------------------------------------------------
(***************************************************************************)
(* What a step of one thread leaves alone.                                 *)
(***************************************************************************)
Extends(L, K, L2, K2) == K <= K2 /\ \A i \in 0 .. K : L2[i] = L[i]

Same(q) ==
  /\ pc'[q] = pc[q] /\ t'[q] = t[q] /\ h'[q] = h[q]
  /\ n'[q] = n[q] /\ w'[q] = w[q] /\ rtn'[q] = rtn[q]

\* The ends only move forward, and no value behind head is overwritten.
Onward(L, K) ==
  /\ used <= used'
  /\ tail.count <= tail'.count
  /\ head' = head \/ head.count < head'.count
  /\ \A i \in head.count + 1 .. K : val'[L[i]] = val[L[i]]

LEMMA PointerIs ==
  ASSUME NEW q \in Pointer
  PROVE  q.count \in Nat /\ q.p \in Addr \cup {Null} /\ q = Ptr(q.p, q.count)
BY DEF Pointer, Ptr

LEMMA OnKept ==
  ASSUME NEW K \in Nat, NEW L, NEW K2 \in Nat, NEW L2, Extends(L, K, L2, K2),
         NEW q \in Pointer, On(L, K, q)
  PROVE  On(L2, K2, q)
BY PointerIs DEF On, Extends

LEMMA BehindKept ==
  ASSUME NEW K \in Nat, NEW L, NEW K2 \in Nat, NEW L2, Extends(L, K, L2, K2),
         NEW q \in Pointer, NEW r, Behind(L, K, q, r)
  PROVE  Behind(L2, K2, q, r)
<1>1. q.count \in Nat
  BY PointerIs
<1>2. q.count + 1 \in 0 .. K /\ q.count < K2
  BY <1>1 DEF Behind, Extends
<1>. QED
  BY <1>2 DEF Behind, Extends

LEMMA LocalTypes ==
  ASSUME TypeOK, NEW q \in Proc
  PROVE  /\ t[q] \in Pointer /\ t[q].count \in Nat
         /\ h[q] \in Pointer /\ h[q].count \in Nat
         /\ n[q] \in Pointer /\ n[q].count \in Nat
         /\ pc[q] \in Label /\ w[q] \in Addr \cup {Null} /\ rtn[q] \in Item
BY PointerIs DEF TypeOK

LEMMA SharedTypes ==
  ASSUME TypeOK
  PROVE  /\ head \in Pointer /\ head.count \in Nat
         /\ tail \in Pointer /\ tail.count \in Nat
         /\ used \in Nat
BY PointerIs DEF TypeOK

LEMMA EnqKept ==
  ASSUME NEW K \in Nat, NEW L \in [0 .. K -> Addr],
         NEW K2 \in Nat, NEW L2 \in [0 .. K2 -> Addr], Extends(L, K, L2, K2),
         TypeOK, TypeOK', Onward(L, K), NEW q \in Proc, Same(q),
         EnqInv(L, K, q), pc[q] \in Unlinked => \A i \in 0 .. K2 : w[q] # L2[i]
  PROVE  EnqInv(L2, K2, q)'
<1>1. /\ t[q] \in Pointer /\ t[q].count \in Nat
      /\ tail.count \in Nat /\ tail'.count \in Nat /\ used \in Nat /\ used' \in Nat
  BY LocalTypes, SharedTypes, PointerIs DEF TypeOK
<1>2. pc[q] \in Unlinked => w[q] \in 0 .. used' - 1 /\ \A i \in 0 .. K2 : w[q] # L2[i]
  BY <1>1 DEF EnqInv, Onward
<1>3. ASSUME pc[q] \in {"eNext", "eCheck", "eLink", "eHelp", "eSwing"}
      PROVE  On(L2, K2, t[q]) /\ t[q].count <= tail'.count
  <2>1. On(L, K, t[q]) /\ t[q].count <= tail.count
    BY <1>3 DEF EnqInv
  <2>. QED
    BY <2>1, <1>1, OnKept DEF Onward
<1>4. pc[q] = "eCheck" => n[q] = ptr0 \/ Behind(L2, K2, t[q], n[q])
  BY <1>1, BehindKept DEF EnqInv
<1>5. pc[q] = "eHelp" => Behind(L2, K2, t[q], n[q])
  BY <1>1, BehindKept DEF EnqInv
<1>6. pc[q] = "eSwing" => t[q].count < K2 /\ w[q] = L2[t[q].count + 1]
  BY <1>1 DEF EnqInv, Extends
<1>7. pc[q] = "eLink" => n[q] = ptr0
  BY DEF EnqInv
<1>. QED
  BY <1>2, <1>3, <1>4, <1>5, <1>6, <1>7 DEF EnqInv, Same

LEMMA DeqKept ==
  ASSUME NEW K \in Nat, NEW L \in [0 .. K -> Addr],
         NEW K2 \in Nat, NEW L2 \in [0 .. K2 -> Addr], Extends(L, K, L2, K2),
         TypeOK, TypeOK', Onward(L, K), NEW q \in Proc, Same(q), DeqInv(L, K, q)
  PROVE  DeqInv(L2, K2, q)'
<1>1. /\ t[q] \in Pointer /\ t[q].count \in Nat
      /\ h[q] \in Pointer /\ h[q].count \in Nat
      /\ tail.count \in Nat /\ tail'.count \in Nat
      /\ head.count \in Nat /\ head'.count \in Nat
  BY LocalTypes, SharedTypes, PointerIs DEF TypeOK
<1>0. head.count <= head'.count
  BY <1>1 DEF Onward
<1>2. ASSUME pc[q] \in {"dTail", "dNext", "dCheck", "dHelp", "dVal", "dSwing", "dFree"}
      PROVE  On(L2, K2, h[q]) /\ h[q].count <= head'.count
  <2>1. On(L, K, h[q]) /\ h[q].count <= head.count
    BY <1>2 DEF DeqInv
  <2>2. On(L2, K2, h[q])
    BY <2>1, <1>1, OnKept
  <2>. QED
    BY <2>1, <2>2, <1>0, <1>1
<1>3. ASSUME pc[q] \in {"dNext", "dCheck", "dHelp", "dVal", "dSwing"}
      PROVE  /\ On(L2, K2, t[q])
             /\ h[q].count <= t[q].count
             /\ t[q].count <= tail'.count
  <2>1. On(L, K, t[q]) /\ h[q].count <= t[q].count /\ t[q].count <= tail.count
    BY <1>3 DEF DeqInv
  <2>2. On(L2, K2, t[q])
    BY <2>1, <1>1, OnKept
  <2>. QED
    BY <2>1, <2>2, <1>1 DEF Onward
<1>4. pc[q] = "dCheck" =>
        Behind(L2, K2, h[q], n[q]) \/ (n[q] = ptr0 /\ h[q].count = t[q].count)
  BY <1>1, BehindKept DEF DeqInv
<1>5. pc[q] = "dHelp" => Behind(L2, K2, t[q], n[q])
  BY <1>1, BehindKept DEF DeqInv
<1>6. pc[q] \in {"dVal", "dSwing"} => h[q].count < t[q].count /\ Behind(L2, K2, h[q], n[q])
  BY <1>1, BehindKept DEF DeqInv
<1>7. ASSUME pc[q] = "dSwing", head' = h[q]
      PROVE  rtn[q] = val'[n[q].p]
  <2>1. h[q].count <= head.count /\ Behind(L, K, h[q], n[q])
    BY <1>7 DEF DeqInv
  <2>2. head = h[q]
    BY <1>7, <2>1, <1>1 DEF Onward
  <2>3. n[q].p = L[head.count + 1] /\ head.count + 1 \in head.count + 1 .. K
    BY <2>1, <2>2, <1>1 DEF Behind
  <2>4. rtn[q] = val[n[q].p]
    BY <1>7, <2>2 DEF DeqInv
  <2>. QED
    BY <2>3, <2>4 DEF Onward
<1>8. pc[q] = "dFree" => h[q].count < head'.count
  BY <1>0, <1>1 DEF DeqInv
<1>. QED
  BY <1>2, <1>3, <1>4, <1>5, <1>6, <1>7, <1>8 DEF DeqInv, Same

-----------------------------------------------------------------------------
(***************************************************************************)
(* Every step keeps the types.                                             *)
(***************************************************************************)
LEMMA OnIs ==
  ASSUME NEW K \in Nat, NEW L \in [0 .. K -> Addr], NEW q \in Pointer
  PROVE  /\ On(L, K, q) => q.p = L[q.count] /\ q.p \in Addr /\ q.count \in 0 .. K
         /\ \A r : Behind(L, K, q, r) => r.p \in Addr /\ r.p # Null
<1>1. q.count \in Nat
  BY PointerIs
<1>. QED
  BY <1>1 DEF On, Behind, Addr, Null

LEMMA GotoType ==
  ASSUME TypeOK, NEW p \in Proc, NEW l1, NEW l2 \in Label, Goto(p, l1, l2)
  PROVE  pc' \in [Proc -> Label]
BY DEF TypeOK, Goto

LEMMA PtrType ==
  ASSUME NEW a \in Addr \cup {Null}, NEW c \in Nat
  PROVE  /\ Ptr(a, c) \in Pointer /\ Ptr(a, c).p = a /\ Ptr(a, c).count = c
         /\ ptr0 \in Pointer /\ ptr0.p = Null /\ ptr0.count = 0
BY DEF Ptr, Pointer, ptr0, Null

LEMMA TypeStep ==
  ASSUME NEW K \in Nat, NEW L \in [0 .. K -> Addr], InvAt(L, K), [Next]_vars
  PROVE  TypeOK'
<1>. TypeOK
  BY DEF InvAt
<1>1. CASE UNCHANGED vars
  BY <1>1 DEF TypeOK, vars, shared, local
<1>2. ASSUME NEW p \in Proc, CallDequeue(p)
      PROVE  TypeOK'
  <2>1. pc' \in [Proc -> Label]
    BY <1>2, GotoType DEF CallDequeue, Label
  <2>. QED
    BY <1>2, <2>1 DEF TypeOK, CallDequeue, shared, local
<1>3. ASSUME NEW p \in Proc, NEW x \in Item, CallEnqueue(p, x)
      PROVE  TypeOK'
  <2>1. pc' \in [Proc -> Label]
    BY <1>3, GotoType DEF CallEnqueue, Label, Unlinked
  <2>2. used' \in 1 .. maxNode
    BY <1>3 DEF TypeOK, CallEnqueue, Addr
  <2>3. val' \in [Addr -> Item] /\ w' \in [Proc -> Addr \cup {Null}]
        /\ freed' \subseteq Addr
    BY <1>3 DEF TypeOK, CallEnqueue
  <2>4. next' \in [Addr -> Pointer]
    BY <1>3, PtrType DEF TypeOK, CallEnqueue, ptr0
  <2>. QED
    BY <1>3, <2>1, <2>2, <2>3, <2>4 DEF TypeOK, CallEnqueue
<1>4. ASSUME NEW p \in Proc, LoadTail(p)
      PROVE  TypeOK'
  <2>1. pc' \in [Proc -> Label]
    BY <1>4, GotoType DEF LoadTail, Label, Unlinked
  <2>. QED
    BY <1>4, <2>1 DEF TypeOK, LoadTail, shared
<1>5. ASSUME NEW p \in Proc, LoadHead(p)
      PROVE  TypeOK'
  <2>1. pc' \in [Proc -> Label]
    BY <1>5, GotoType DEF LoadHead, Label
  <2>. QED
    BY <1>5, <2>1 DEF TypeOK, LoadHead, shared
<1>6. ASSUME NEW p \in Proc, LoadNext(p)
      PROVE  TypeOK'
  <2>1. pc' \in [Proc -> Label]
    BY <1>6, GotoType DEF LoadNext, Label, Unlinked
  <2>2. EnqInv(L, K, p) /\ DeqInv(L, K, p)
    BY DEF InvAt
  <2>3. n' \in [Proc -> Pointer]
    <3>1. CASE pc[p] = "eNext" /\ n' = [n EXCEPT ![p] = next[t[p].p]]
      <4>1. t[p].p \in Addr
        BY <2>2, <3>1, LocalTypes, OnIs DEF EnqInv
      <4>. QED
        BY <3>1, <4>1 DEF TypeOK
    <3>2. CASE pc[p] = "dNext" /\ n' = [n EXCEPT ![p] = next[h[p].p]]
      <4>1. h[p].p \in Addr
        BY <2>2, <3>2, LocalTypes, OnIs DEF DeqInv
      <4>. QED
        BY <3>2, <4>1 DEF TypeOK
    <3>. QED
      BY <3>1, <3>2, <1>6 DEF LoadNext, Goto
  <2>. QED
    BY <1>6, <2>1, <2>3 DEF TypeOK, LoadNext, shared
<1>7. ASSUME NEW p \in Proc, CheckTail(p)
      PROVE  TypeOK'
  <2>1. pc' \in [Proc -> Label]
    BY <1>7, GotoType DEF CheckTail, Label, Unlinked
  <2>. QED
    BY <1>7, <2>1 DEF TypeOK, CheckTail, shared, local
<1>8. ASSUME NEW p \in Proc, Link(p)
      PROVE  TypeOK'
  <2>1. pc' \in [Proc -> Label]
    BY <1>8, GotoType DEF Link, Label, Unlinked
  <2>2. next' \in [Addr -> Pointer]
    <3>1. Ptr(w[p], n[p].count + 1) \in Pointer
      <4>1. w[p] \in Addr \cup {Null} /\ n[p].count + 1 \in Nat
        BY LocalTypes
      <4>. QED
        BY <4>1, PtrType
    <3>. QED
      BY <1>8, <3>1 DEF TypeOK, Link
  <2>. QED
    BY <1>8, <2>1, <2>2 DEF TypeOK, Link, local
<1>9. ASSUME NEW p \in Proc, HelpTail(p)
      PROVE  TypeOK'
  <2>1. pc' \in [Proc -> Label]
    BY <1>9, GotoType DEF HelpTail, Label, Unlinked
  <2>2. tail' \in Pointer
    <3>1. n[p].p \in Addr \cup {Null} /\ t[p].count + 1 \in Nat
      BY LocalTypes, PointerIs
    <3>2. Ptr(n[p].p, t[p].count + 1) \in Pointer
      BY <3>1, PtrType
    <3>. QED
      BY <1>9, <3>2 DEF TypeOK, HelpTail
  <2>. QED
    BY <1>9, <2>1, <2>2 DEF TypeOK, HelpTail, local
<1>10. ASSUME NEW p \in Proc, SwingTail(p)
       PROVE  TypeOK'
  <2>1. pc' \in [Proc -> Label]
    BY <1>10, GotoType DEF SwingTail, Label
  <2>2. tail' \in Pointer
    <3>1. w[p] \in Addr \cup {Null} /\ t[p].count + 1 \in Nat
      BY LocalTypes
    <3>2. Ptr(w[p], t[p].count + 1) \in Pointer
      BY <3>1, PtrType
    <3>. QED
      BY <1>10, <3>2 DEF TypeOK, SwingTail
  <2>. QED
    BY <1>10, <2>1, <2>2 DEF TypeOK, SwingTail, local
<1>11. ASSUME NEW p \in Proc, CheckHead(p)
       PROVE  TypeOK'
  <2>1. pc' \in [Proc -> Label]
    BY <1>11, GotoType DEF CheckHead, Label
  <2>. QED
    BY <1>11, <2>1 DEF TypeOK, CheckHead, shared, local
<1>12. ASSUME NEW p \in Proc, ReadVal(p)
       PROVE  TypeOK'
  <2>1. pc' \in [Proc -> Label]
    BY <1>12, GotoType DEF ReadVal, Label
  <2>2. Behind(L, K, h[p], n[p])
    BY <1>12 DEF InvAt, DeqInv, ReadVal, Goto
  <2>3. n[p].p \in Addr
    BY <2>2, OnIs, LocalTypes
  <2>. QED
    BY <1>12, <2>1, <2>3 DEF TypeOK, ReadVal, shared
<1>13. ASSUME NEW p \in Proc, SwingHead(p)
       PROVE  TypeOK'
  <2>1. pc' \in [Proc -> Label]
    BY <1>13, GotoType DEF SwingHead, Label
  <2>2. head' \in Pointer
    <3>1. n[p].p \in Addr \cup {Null} /\ h[p].count + 1 \in Nat
      BY LocalTypes, PointerIs
    <3>2. Ptr(n[p].p, h[p].count + 1) \in Pointer
      BY <3>1, PtrType
    <3>. QED
      BY <1>13, <3>2 DEF TypeOK, SwingHead
  <2>. QED
    BY <1>13, <2>1, <2>2 DEF TypeOK, SwingHead, local
<1>14. ASSUME NEW p \in Proc, Free(p)
       PROVE  TypeOK'
  <2>1. pc' \in [Proc -> Label]
    BY <1>14, GotoType DEF Free, Label
  <2>2. On(L, K, h[p])
    BY <1>14 DEF InvAt, DeqInv, Free, Goto
  <2>3. h[p].p \in Addr
    BY <2>2, OnIs, LocalTypes
  <2>. QED
    BY <1>14, <2>1, <2>3 DEF TypeOK, Free, local
<1>15. ASSUME NEW p \in Proc, Return(p)
       PROVE  TypeOK'
  <2>1. pc' \in [Proc -> Label]
    BY <1>15, GotoType DEF Return, Label
  <2>2. ptr0 \in Pointer
    BY PtrType
  <2>. QED
    BY <1>15, <2>1, <2>2 DEF TypeOK, Return, shared
<1>. QED
  BY <1>1, <1>2, <1>3, <1>4, <1>5, <1>6, <1>7, <1>8, <1>9, <1>10, <1>11, <1>12,
     <1>13, <1>14, <1>15 DEF Next, Step

-----------------------------------------------------------------------------
(***************************************************************************)
(* Every step keeps the invariant: at the same list, or, when it links a   *)
(* node, at the list that ends with that node.                             *)
(***************************************************************************)
LEMMA Together ==
  ASSUME NEW K \in Nat, NEW L \in [0 .. K -> Addr], InvAt(L, K),
         NEW K2 \in Nat, NEW L2 \in [0 .. K2 -> Addr], Extends(L, K, L2, K2),
         TypeOK', NEW p \in Proc, \A q \in Proc \ {p} : Same(q), Onward(L, K),
         ListInv(L2, K2)', EndsInv(L2, K2)',
         \A q \in Proc \ {p} : pc[q] \in Unlinked => \A i \in 0 .. K2 : w[q] # L2[i],
         pc'[p] \in Unlinked =>
           \A q \in Proc \ {p} : pc[q] \in Unlinked => w'[p] # w[q],
         EnqInv(L2, K2, p)', DeqInv(L2, K2, p)'
  PROVE  InvAt(L2, K2)'
<1>1. Apart'
  BY DEF InvAt, Apart, Same
<1>2. ASSUME NEW q \in Proc, q # p
      PROVE  EnqInv(L2, K2, q)' /\ DeqInv(L2, K2, q)'
  <2>1. EnqInv(L, K, q) /\ DeqInv(L, K, q) /\ TypeOK /\ Same(q)
    BY <1>2 DEF InvAt
  <2>2. pc[q] \in Unlinked => \A i \in 0 .. K2 : w[q] # L2[i]
    BY <1>2
  <2>. QED
    BY <2>1, <2>2, EnqKept, DeqKept
<1>. QED
  BY <1>1, <1>2 DEF InvAt

\* A step that changes only the thread's own variables.
LEMMA Locally ==
  ASSUME NEW K \in Nat, NEW L \in [0 .. K -> Addr], InvAt(L, K), TypeOK',
         NEW p \in Proc, \A q \in Proc \ {p} : Same(q), UNCHANGED shared,
         pc'[p] \in Unlinked => pc[p] \in Unlinked /\ w'[p] = w[p],
         EnqInv(L, K, p)', DeqInv(L, K, p)'
  PROVE  InvAt(L, K)'
<1>1. Extends(L, K, L, K)
  BY DEF Extends
<1>2. Onward(L, K)
  BY SharedTypes DEF Onward, shared, InvAt
<1>3. ListInv(L, K)' /\ EndsInv(L, K)'
  BY DEF ListInv, EndsInv, InvAt, shared
<1>4. \A q \in Proc : pc[q] \in Unlinked => \A i \in 0 .. K : w[q] # L[i]
  BY DEF InvAt, EnqInv
<1>5. pc'[p] \in Unlinked => \A q \in Proc \ {p} : pc[q] \in Unlinked => w'[p] # w[q]
  BY DEF InvAt, Apart
<1>. QED
  BY <1>1, <1>2, <1>3, <1>4, <1>5, Together

\* The node behind position i.
LEMMA NextIs ==
  ASSUME NEW K \in Nat, NEW L \in [0 .. K -> Addr], ListInv(L, K),
         NEW q \in Pointer, On(L, K, q)
  PROVE  /\ q.count < K => Behind(L, K, q, next[q.p]) /\ next[q.p] # ptr0
         /\ q.count = K => next[q.p] = ptr0
<1>1. q.count \in 0 .. K /\ q.p = L[q.count] /\ q.p \in Addr
  BY OnIs
<1>2. ASSUME q.count < K
      PROVE  Behind(L, K, q, next[q.p]) /\ next[q.p] # ptr0
  <2>1. q.count \in 0 .. K - 1 /\ q.count + 1 \in 0 .. K
    BY <1>1, <1>2
  <2>2. next[q.p] = Ptr(L[q.count + 1], 1)
    BY <1>1, <2>1 DEF ListInv
  <2>. QED
    BY <1>2, <2>2 DEF Behind, Ptr, ptr0
<1>3. ASSUME q.count = K
      PROVE  next[q.p] = ptr0
  <2>1. \A i \in 0 .. K - 1 : q.p # L[i]
    BY <1>1, <1>3 DEF ListInv
  <2>. QED
    BY <1>1, <2>1 DEF ListInv
<1>. QED
  BY <1>2, <1>3

LEMMA LocalStep ==
  ASSUME NEW K \in Nat, NEW L \in [0 .. K -> Addr], InvAt(L, K), TypeOK',
         NEW p \in Proc,
         \/ CallDequeue(p) \/ LoadTail(p) \/ LoadHead(p) \/ LoadNext(p)
         \/ CheckTail(p) \/ CheckHead(p) \/ ReadVal(p) \/ Return(p)
  PROVE  InvAt(L, K)'
<1>. TypeOK /\ ListInv(L, K) /\ EndsInv(L, K) /\ EnqInv(L, K, p) /\ DeqInv(L, K, p)
  BY DEF InvAt
<1>. /\ head \in Pointer /\ tail \in Pointer /\ t[p] \in Pointer /\ h[p] \in Pointer
     /\ n[p] \in Pointer /\ head.count \in Nat /\ tail.count \in Nat
     /\ t[p].count \in Nat /\ h[p].count \in Nat
  BY SharedTypes, LocalTypes
<1>1. CASE CallDequeue(p)
  <2>1. pc'[p] = "dHead" /\ (\A q \in Proc \ {p} : Same(q)) /\ UNCHANGED shared
    BY <1>1 DEF CallDequeue, Goto, TypeOK, Same, local
  <2>2. EnqInv(L, K, p)' /\ DeqInv(L, K, p)'
    BY <2>1 DEF EnqInv, DeqInv, Unlinked
  <2>. QED
    BY <2>1, <2>2, Locally DEF Unlinked
<1>2. CASE LoadTail(p)
  <2>1. /\ \/ pc[p] = "eTail" /\ pc'[p] = "eNext"
           \/ pc[p] = "dTail" /\ pc'[p] = "dNext"
        /\ t'[p] = tail /\ h'[p] = h[p] /\ w'[p] = w[p]
        /\ \A q \in Proc \ {p} : Same(q)
        /\ UNCHANGED shared
    BY <1>2 DEF LoadTail, Goto, TypeOK, Same
  <2>2. On(L, K, tail) /\ head.count <= tail.count
    BY DEF EndsInv
  <2>3. EnqInv(L, K, p)'
    BY <2>1, <2>2 DEF EnqInv, Unlinked, shared
  <2>4. DeqInv(L, K, p)'
    BY <2>1, <2>2 DEF DeqInv, shared
  <2>. QED
    BY <2>1, <2>3, <2>4, Locally DEF Unlinked
<1>3. CASE LoadHead(p)
  <2>1. /\ pc[p] = "dHead" /\ pc'[p] = "dTail" /\ h'[p] = head
        /\ \A q \in Proc \ {p} : Same(q)
        /\ UNCHANGED shared
    BY <1>3 DEF LoadHead, Goto, TypeOK, Same
  <2>2. On(L, K, head)
    BY DEF EndsInv
  <2>3. EnqInv(L, K, p)' /\ DeqInv(L, K, p)'
    BY <2>1, <2>2 DEF EnqInv, DeqInv, Unlinked, shared
  <2>. QED
    BY <2>1, <2>3, Locally DEF Unlinked
<1>4. CASE LoadNext(p)
  <2>1. /\ \/ pc[p] = "eNext" /\ pc'[p] = "eCheck" /\ n'[p] = next[t[p].p]
           \/ pc[p] = "dNext" /\ pc'[p] = "dCheck" /\ n'[p] = next[h[p].p]
        /\ t'[p] = t[p] /\ h'[p] = h[p] /\ w'[p] = w[p]
        /\ \A q \in Proc \ {p} : Same(q)
        /\ UNCHANGED shared
    BY <1>4 DEF LoadNext, Goto, TypeOK, Same
  <2>2. CASE pc[p] = "eNext" /\ pc'[p] = "eCheck" /\ n'[p] = next[t[p].p]
    <3>1. On(L, K, t[p]) /\ t[p].count <= tail.count
      BY <2>2 DEF EnqInv
    <3>2. n'[p] = ptr0 \/ Behind(L, K, t[p], n'[p])
      BY <2>2, <3>1, NextIs DEF On
    <3>3. EnqInv(L, K, p)'
      BY <2>1, <2>2, <3>1, <3>2 DEF EnqInv, Unlinked, shared
    <3>4. DeqInv(L, K, p)'
      BY <2>2 DEF DeqInv
    <3>. QED
      BY <2>1, <2>2, <3>3, <3>4, Locally DEF Unlinked
  <2>3. CASE pc[p] = "dNext" /\ pc'[p] = "dCheck" /\ n'[p] = next[h[p].p]
    <3>1. /\ On(L, K, h[p]) /\ h[p].count <= head.count
          /\ On(L, K, t[p]) /\ h[p].count <= t[p].count /\ t[p].count <= tail.count
      BY <2>3 DEF DeqInv
    <3>2. Behind(L, K, h[p], n'[p]) \/ (n'[p] = ptr0 /\ h[p].count = t[p].count)
      BY <2>3, <3>1, NextIs DEF On
    <3>3. DeqInv(L, K, p)'
      BY <2>1, <2>3, <3>1, <3>2 DEF DeqInv, shared
    <3>4. EnqInv(L, K, p)'
      BY <2>3 DEF EnqInv, Unlinked
    <3>. QED
      BY <2>1, <2>3, <3>3, <3>4, Locally DEF Unlinked
  <2>. QED
    BY <2>1, <2>2, <2>3
<1>5. CASE CheckTail(p)
  <2>1. /\ pc[p] = "eCheck"
        /\ \/ pc'[p] = "eTail"
           \/ n[p].p = Null /\ pc'[p] = "eLink"
           \/ n[p].p # Null /\ pc'[p] = "eHelp"
        /\ t'[p] = t[p] /\ n'[p] = n[p] /\ w'[p] = w[p]
        /\ \A q \in Proc \ {p} : Same(q)
        /\ UNCHANGED shared
    BY <1>5 DEF CheckTail, Goto, TypeOK, Same, local
  <2>2. IF n[p].p = Null THEN n[p] = ptr0 ELSE Behind(L, K, t[p], n[p])
    <3>1. n[p] = ptr0 \/ Behind(L, K, t[p], n[p])
      BY <2>1 DEF EnqInv
    <3>2. ptr0.p = Null /\ (Behind(L, K, t[p], n[p]) => n[p].p # Null)
      BY OnIs DEF ptr0, Ptr
    <3>. QED
      BY <3>1, <3>2
  <2>3. EnqInv(L, K, p)'
    BY <2>1, <2>2 DEF EnqInv, Unlinked, shared
  <2>4. DeqInv(L, K, p)'
    BY <2>1 DEF DeqInv
  <2>. QED
    BY <2>1, <2>3, <2>4, Locally DEF Unlinked
<1>6. CASE CheckHead(p)
  <2>1. /\ pc[p] = "dCheck"
        /\ \/ pc'[p] \in {"dHead", "empty"}
           \/ h[p].p = t[p].p /\ n[p].p # Null /\ pc'[p] = "dHelp"
           \/ h[p].p # t[p].p /\ pc'[p] = "dVal"
        /\ t'[p] = t[p] /\ n'[p] = n[p] /\ h'[p] = h[p]
        /\ \A q \in Proc \ {p} : Same(q)
        /\ UNCHANGED shared
    BY <1>6 DEF CheckHead, Goto, TypeOK, Same, local
  <2>2. /\ On(L, K, h[p]) /\ h[p].count <= head.count
        /\ On(L, K, t[p]) /\ h[p].count <= t[p].count /\ t[p].count <= tail.count
        /\ Behind(L, K, h[p], n[p]) \/ (n[p] = ptr0 /\ h[p].count = t[p].count)
    BY <2>1 DEF DeqInv
  <2>3. ptr0.p = Null
    BY DEF ptr0, Ptr
  <2>4. h[p].p = t[p].p <=> h[p].count = t[p].count
    <3>1. /\ h[p].p = L[h[p].count] /\ h[p].count \in 0 .. K
          /\ t[p].p = L[t[p].count] /\ t[p].count \in 0 .. K
      BY <2>2, OnIs
    <3>. QED
      BY <3>1 DEF ListInv
  <2>5. h[p].p = t[p].p /\ n[p].p # Null => Behind(L, K, t[p], n[p])
    BY <2>2, <2>3, <2>4 DEF Behind
  <2>6. h[p].p # t[p].p => h[p].count < t[p].count /\ Behind(L, K, h[p], n[p])
    BY <2>2, <2>4
  <2>7. EnqInv(L, K, p)'
    BY <2>1 DEF EnqInv, Unlinked
  <2>8. DeqInv(L, K, p)'
    BY <2>1, <2>2, <2>5, <2>6 DEF DeqInv, shared
  <2>. QED
    BY <2>1, <2>7, <2>8, Locally DEF Unlinked
<1>7. CASE ReadVal(p)
  <2>1. /\ pc[p] = "dVal" /\ pc'[p] = "dSwing" /\ rtn'[p] = val[n[p].p]
        /\ t'[p] = t[p] /\ n'[p] = n[p] /\ h'[p] = h[p]
        /\ \A q \in Proc \ {p} : Same(q)
        /\ UNCHANGED shared
    BY <1>7 DEF ReadVal, Goto, TypeOK, Same
  <2>2. EnqInv(L, K, p)'
    BY <2>1 DEF EnqInv, Unlinked
  <2>3. DeqInv(L, K, p)'
    BY <2>1 DEF DeqInv, shared
  <2>. QED
    BY <2>1, <2>2, <2>3, Locally DEF Unlinked
<1>8. CASE Return(p)
  <2>1. /\ pc'[p] = "idle"
        /\ \A q \in Proc \ {p} : Same(q)
        /\ UNCHANGED shared
    BY <1>8 DEF Return, Goto, TypeOK, Same
  <2>2. EnqInv(L, K, p)' /\ DeqInv(L, K, p)'
    BY <2>1 DEF EnqInv, DeqInv, Unlinked
  <2>. QED
    BY <2>1, <2>2, Locally DEF Unlinked
<1>. QED
  BY <1>1, <1>2, <1>3, <1>4, <1>5, <1>6, <1>7, <1>8

LEMMA EnqueueStep ==
  ASSUME ~Reuse, NEW K \in Nat, NEW L \in [0 .. K -> Addr], InvAt(L, K), TypeOK',
         NEW p \in Proc, NEW x \in Item, CallEnqueue(p, x)
  PROVE  /\ InvAt(L, K)'
         /\ w' = [w EXCEPT ![p] = used] /\ val' = [val EXCEPT ![used] = x]
<1>. TypeOK /\ ListInv(L, K) /\ EndsInv(L, K)
  BY DEF InvAt
<1>1. /\ used \in Addr /\ used' = used + 1
      /\ w' = [w EXCEPT ![p] = used]
      /\ val' = [val EXCEPT ![used] = x]
      /\ next' = [next EXCEPT ![used] = ptr0]
      /\ UNCHANGED <<head, tail, freed, t, h, n, rtn>>
  BY DEF CallEnqueue
<1>2. /\ pc'[p] = "eTail" /\ w'[p] = used
      /\ \A q \in Proc \ {p} : Same(q)
  BY <1>1 DEF CallEnqueue, Goto, TypeOK, Same
<1>3. \A i \in 0 .. K : L[i] < used /\ L[i] # used /\ L[i] \in Addr
  BY SharedTypes DEF ListInv, Addr
<1>4. ListInv(L, K)'
  <2>1. \A i \in 0 .. K : L[i] < used'
    BY <1>1, <1>3 DEF Addr
  <2>2. \A i \in 0 .. K - 1 : next'[L[i]] = Ptr(L[i + 1], 1)
    BY <1>1, <1>3 DEF ListInv, TypeOK
  <2>3. \A a \in Addr : (\A i \in 0 .. K - 1 : a # L[i]) => next'[a] = ptr0
    BY <1>1 DEF ListInv, TypeOK
  <2>. QED
    BY <2>1, <2>2, <2>3 DEF ListInv
<1>5. EndsInv(L, K)'
  BY <1>1 DEF EndsInv, On
<1>6. Onward(L, K)
  <2>1. \A i \in head.count + 1 .. K : i \in 0 .. K
    BY SharedTypes
  <2>2. \A i \in head.count + 1 .. K : val'[L[i]] = val[L[i]]
    BY <2>1, <1>1, <1>3 DEF TypeOK
  <2>. QED
    BY <2>2, <1>1, SharedTypes DEF Onward
<1>7. \A q \in Proc : pc[q] \in Unlinked => w[q] \in 0 .. used - 1
      /\ \A i \in 0 .. K : w[q] # L[i]
  BY DEF InvAt, EnqInv
<1>8. \A q \in Proc : pc[q] \in Unlinked => w'[p] # w[q]
  BY <1>2, <1>7, SharedTypes
<1>9. EnqInv(L, K, p)'
  <2>1. w'[p] \in 0 .. used' - 1
    BY <1>1, <1>2, SharedTypes
  <2>. QED
    BY <2>1, <1>2, <1>3 DEF EnqInv
<1>10. DeqInv(L, K, p)'
  BY <1>2 DEF DeqInv
<1>11. Extends(L, K, L, K)
  BY DEF Extends
<1>12. InvAt(L, K)'
  BY <1>2, <1>4, <1>5, <1>6, <1>7, <1>8, <1>9, <1>10, <1>11, Together
<1>. QED
  BY <1>1, <1>12

\* The list with one more node.
Longer(L, K, a) == [i \in 0 .. K + 1 |-> IF i <= K THEN L[i] ELSE a]

LEMMA LongerIs ==
  ASSUME NEW K \in Nat, NEW L \in [0 .. K -> Addr], NEW a \in Addr
  PROVE  /\ Longer(L, K, a) \in [0 .. K + 1 -> Addr]
         /\ \A i \in 0 .. K : Longer(L, K, a)[i] = L[i]
         /\ Longer(L, K, a)[K + 1] = a
         /\ Extends(L, K, Longer(L, K, a), K + 1)
<1>1. \A i \in 0 .. K + 1 : (IF i <= K THEN L[i] ELSE a) \in Addr
  BY DEF Addr
<1>. QED
  BY <1>1 DEF Longer, Extends

\* The compare_exchange on next succeeds only at the last node, and only there
\* is a node linked.
Linking(p) == Link(p) /\ pc'[p] = "eSwing"

LEMMA LinkFacts ==
  ASSUME NEW K \in Nat, NEW L \in [0 .. K -> Addr], InvAt(L, K),
         NEW p \in Proc, Linking(p)
  PROVE  /\ pc[p] = "eLink" /\ w[p] \in Addr
         /\ t[p].count = K /\ tail.count = K /\ t[p].p = L[K]
         /\ next' = [next EXCEPT ![L[K]] = Ptr(w[p], 1)]
<1>. TypeOK /\ ListInv(L, K) /\ EndsInv(L, K) /\ EnqInv(L, K, p)
  BY DEF InvAt
<1>1. /\ pc[p] = "eLink"
      /\ next[t[p].p] = n[p]
      /\ next' = [next EXCEPT ![t[p].p] = Ptr(w[p], n[p].count + 1)]
  BY DEF Linking, Link, Goto, TypeOK
<1>2. /\ w[p] \in 0 .. used - 1 /\ n[p] = ptr0
      /\ On(L, K, t[p]) /\ t[p].count <= tail.count
  BY <1>1 DEF EnqInv, Unlinked
<1>3. w[p] \in Addr /\ n[p].count + 1 = 1
  BY <1>2, PtrType DEF TypeOK, Addr
<1>4. t[p].count = K
  BY <1>1, <1>2, NextIs, LocalTypes DEF On
<1>5. tail.count = K
  BY <1>2, <1>4, SharedTypes DEF EndsInv, On
<1>6. t[p].p = L[K]
  BY <1>2, <1>4 DEF On
<1>. QED
  BY <1>1, <1>3, <1>4, <1>5, <1>6

LEMMA LinkStep ==
  ASSUME NEW K \in Nat, NEW L \in [0 .. K -> Addr], InvAt(L, K), TypeOK',
         NEW p \in Proc, Linking(p), NEW a \in Addr, a = w[p]
  PROVE  InvAt(Longer(L, K, a), K + 1)'
<1>. TypeOK /\ ListInv(L, K) /\ EndsInv(L, K) /\ EnqInv(L, K, p)
  BY DEF InvAt
<1>1. /\ pc[p] = "eLink" /\ w[p] \in Addr
      /\ t[p].count = K /\ tail.count = K /\ t[p].p = L[K]
      /\ next' = [next EXCEPT ![L[K]] = Ptr(w[p], 1)]
  BY LinkFacts
<1>2. a = w[p]
  OBVIOUS
<1>3. PICK L2 \in [0 .. K + 1 -> Addr] : L2 = Longer(L, K, a)
  BY LongerIs
<1>4. /\ \A i \in 0 .. K : L2[i] = L[i]
      /\ L2[K + 1] = a
      /\ Extends(L, K, L2, K + 1)
  <2>1. /\ \A i \in 0 .. K : Longer(L, K, a)[i] = L[i]
        /\ Longer(L, K, a)[K + 1] = a
        /\ Extends(L, K, Longer(L, K, a), K + 1)
    BY LongerIs
  <2>. QED
    BY <1>3, <2>1
<1>5. /\ pc'[p] = "eSwing" /\ t'[p] = t[p] /\ w'[p] = a
      /\ \A q \in Proc \ {p} : Same(q)
      /\ UNCHANGED <<head, tail, val, used, freed>>
  BY <1>2 DEF Linking, Link, Goto, TypeOK, Same, local
<1>6. a \in 0 .. used - 1 /\ \A i \in 0 .. K : a # L[i]
  BY <1>1, <1>2 DEF EnqInv, Unlinked
<1>7. ListInv(L2, K + 1)'
  <2>1. ASSUME NEW i \in 0 .. K + 1, NEW j \in 0 .. K + 1, L2[i] = L2[j]
        PROVE  i = j
    <3>1. (i \in 0 .. K \/ i = K + 1) /\ (j \in 0 .. K \/ j = K + 1)
      OBVIOUS
    <3>. QED
      BY <2>1, <3>1, <1>4, <1>6 DEF ListInv
  <2>2. ASSUME NEW i \in 0 .. K + 1
        PROVE  L2[i] < used'
    <3>1. i \in 0 .. K \/ i = K + 1
      OBVIOUS
    <3>2. a < used'
      BY <1>5, <1>6, SharedTypes
    <3>. QED
      BY <3>1, <3>2, <1>4, <1>5 DEF ListInv
  <2>3. ASSUME NEW i \in 0 .. K
        PROVE  next'[L2[i]] = Ptr(L2[i + 1], 1)
    <3>1. CASE i = K
      BY <3>1, <1>1, <1>2, <1>4 DEF TypeOK
    <3>2. CASE i # K
      <4>1. i \in 0 .. K - 1 /\ i + 1 \in 0 .. K
        BY <3>2
      <4>2. L[i] # L[K]
        BY <3>2 DEF ListInv
      <4>. QED
        BY <4>1, <4>2, <1>1, <1>4 DEF TypeOK, ListInv
    <3>. QED
      BY <3>1, <3>2
  <2>4. ASSUME NEW b \in Addr, \A i \in 0 .. K : b # L2[i]
        PROVE  next'[b] = ptr0
    <3>1. b # L[K] /\ \A i \in 0 .. K - 1 : b # L[i]
      BY <2>4, <1>4
    <3>. QED
      BY <3>1, <1>1 DEF TypeOK, ListInv
  <2>5. K + 1 - 1 = K
    OBVIOUS
  <2>. QED
    BY <2>1, <2>2, <2>3, <2>4, <2>5 DEF ListInv
<1>8. EndsInv(L2, K + 1)'
  <2>1. head \in Pointer /\ tail \in Pointer /\ head.count \in Nat
    BY SharedTypes
  <2>2. On(L2, K + 1, head) /\ On(L2, K + 1, tail)
    BY <2>1, <1>4, OnKept DEF EndsInv
  <2>3. \A c \in freed : \E i \in 0 .. head.count - 1 : c = L2[i]
    <3>1. \A i \in 0 .. head.count - 1 : i \in 0 .. K
      BY <2>1 DEF EndsInv, On
    <3>. QED
      BY <3>1, <1>4 DEF EndsInv
  <2>4. head.count <= tail.count /\ K + 1 <= tail.count + 1
    BY <1>1 DEF EndsInv
  <2>. QED
    BY <2>2, <2>3, <2>4, <1>5 DEF EndsInv
<1>9. Onward(L, K)
  BY <1>5, SharedTypes DEF Onward
<1>10. ASSUME NEW q \in Proc \ {p}, pc[q] \in Unlinked, NEW i \in 0 .. K + 1
       PROVE  w[q] # L2[i]
  <2>1. i \in 0 .. K \/ i = K + 1
    OBVIOUS
  <2>2. \A j \in 0 .. K : w[q] # L[j]
    BY <1>10 DEF InvAt, EnqInv
  <2>3. w[q] # a
    BY <1>1, <1>2, <1>10 DEF InvAt, Apart, Unlinked
  <2>. QED
    BY <2>1, <2>2, <2>3, <1>4
<1>11. EnqInv(L2, K + 1, p)'
  <2>1. On(L2, K + 1, t[p])
    BY <1>1, <1>4 DEF On
  <2>2. t[p].count < K + 1 /\ w'[p] = L2[t[p].count + 1]
    BY <1>1, <1>4, <1>5
  <2>3. t[p].count <= tail'.count
    BY <1>1, <1>5
  <2>. QED
    BY <2>1, <2>2, <2>3, <1>5 DEF EnqInv, Unlinked
<1>12. DeqInv(L2, K + 1, p)'
  BY <1>5 DEF DeqInv
<1>13. InvAt(L2, K + 1)'
  BY <1>4, <1>5, <1>7, <1>8, <1>9, <1>10, <1>11, <1>12, Together DEF Unlinked
<1>. QED
  BY <1>3, <1>13

\* The tail swings to the node behind it, for whichever thread.
LEMMA TailStep ==
  ASSUME NEW K \in Nat, NEW L \in [0 .. K -> Addr], InvAt(L, K), TypeOK',
         NEW p \in Proc, HelpTail(p) \/ SwingTail(p)
  PROVE  InvAt(L, K)'
<1>. TypeOK /\ ListInv(L, K) /\ EndsInv(L, K) /\ EnqInv(L, K, p) /\ DeqInv(L, K, p)
  BY DEF InvAt
<1>1. /\ pc'[p] \in {"eTail", "dHead", "enqueued"}
      /\ pc'[p] = "eTail" => pc[p] = "eHelp"
      /\ \A q \in Proc \ {p} : Same(q)
      /\ w'[p] = w[p]
      /\ UNCHANGED <<head, val, next, used, freed>>
  BY DEF HelpTail, SwingTail, Goto, TypeOK, Same, local
<1>2. tail' # tail => tail.count < K /\ tail' = Ptr(L[tail.count + 1], tail.count + 1)
  <2>1. CASE HelpTail(p)
    BY <2>1 DEF HelpTail, Goto, EnqInv, DeqInv, Behind
  <2>2. CASE SwingTail(p)
    BY <2>2 DEF SwingTail, Goto, EnqInv
  <2>. QED
    BY <2>1, <2>2
<1>3. /\ On(L, K, tail)' /\ tail.count <= tail'.count
  <2>1. CASE tail' = tail
    BY <2>1, SharedTypes DEF EndsInv
  <2>2. CASE tail' # tail
    BY <2>2, <1>2, SharedTypes DEF On, Ptr
  <2>. QED
    BY <2>1, <2>2
<1>4. EndsInv(L, K)'
  <2>1. head.count <= tail'.count /\ K <= tail'.count + 1
    BY <1>3, SharedTypes, PointerIs DEF EndsInv, TypeOK
  <2>. QED
    BY <2>1, <1>1, <1>3 DEF EndsInv
<1>5. ListInv(L, K)' /\ Onward(L, K) /\ Extends(L, K, L, K)
  BY <1>1, <1>3, SharedTypes DEF ListInv, Onward, Extends
<1>6. EnqInv(L, K, p)'
  BY <1>1 DEF EnqInv, Unlinked
<1>7. DeqInv(L, K, p)'
  BY <1>1 DEF DeqInv
<1>8. \A q \in Proc : pc[q] \in Unlinked => \A i \in 0 .. K : w[q] # L[i]
  BY DEF InvAt, EnqInv
<1>9. pc'[p] \in Unlinked => \A q \in Proc \ {p} : pc[q] \in Unlinked => w'[p] # w[q]
  BY <1>1 DEF InvAt, Apart, Unlinked
<1>. QED
  BY <1>1, <1>4, <1>5, <1>6, <1>7, <1>8, <1>9, Together

LEMMA HeadStep ==
  ASSUME NEW K \in Nat, NEW L \in [0 .. K -> Addr], InvAt(L, K), TypeOK',
         NEW p \in Proc, SwingHead(p)
  PROVE  InvAt(L, K)'
<1>. TypeOK /\ ListInv(L, K) /\ EndsInv(L, K) /\ DeqInv(L, K, p)
  BY DEF InvAt
<1>1. /\ pc[p] = "dSwing"
      /\ \A q \in Proc \ {p} : Same(q)
      /\ h'[p] = h[p]
      /\ UNCHANGED <<tail, val, next, used, freed>>
      /\ \/ head = h[p] /\ head' = Ptr(n[p].p, h[p].count + 1) /\ pc'[p] = "dFree"
         \/ head' = head /\ pc'[p] = "dHead"
  BY DEF SwingHead, Goto, TypeOK, Same, local
<1>2. /\ On(L, K, h[p]) /\ h[p].count < t[p].count /\ t[p].count <= tail.count
      /\ Behind(L, K, h[p], n[p])
  BY <1>1 DEF DeqInv
<1>3. /\ head.count \in Nat /\ tail.count \in Nat /\ h[p].count \in Nat
      /\ t[p].count \in Nat
  BY SharedTypes, LocalTypes
<1>4. /\ On(L, K, head') /\ head'.count <= tail.count
      /\ head' = head \/ head'.count = head.count + 1
  <2>1. CASE head' = head
    BY <2>1 DEF EndsInv
  <2>2. CASE head = h[p] /\ head' = Ptr(n[p].p, h[p].count + 1)
    <3>1. head'.count = h[p].count + 1 /\ head'.p = n[p].p
      BY <2>2 DEF Ptr
    <3>2. head'.count <= tail.count /\ head'.count = head.count + 1
      BY <3>1, <2>2, <1>2, <1>3
    <3>3. On(L, K, head')
      BY <3>1, <1>2, <1>3 DEF On, Behind
    <3>. QED
      BY <3>2, <3>3
  <2>. QED
    BY <2>1, <2>2, <1>1
<1>5. head'.count \in Nat /\ head.count <= head'.count
  BY <1>3, <1>4
<1>6. EndsInv(L, K)'
  <2>1. \A a \in freed : \E i \in 0 .. head'.count - 1 : a = L[i]
    BY <1>3, <1>5 DEF EndsInv
  <2>. QED
    BY <2>1, <1>1, <1>4 DEF EndsInv, On
<1>7. ListInv(L, K)'
  BY <1>1 DEF ListInv
<1>8. Onward(L, K) /\ Extends(L, K, L, K)
  BY <1>1, <1>3, <1>4, SharedTypes DEF Onward, Extends
<1>9. EnqInv(L, K, p)'
  BY <1>1 DEF EnqInv, Unlinked
<1>10. DeqInv(L, K, p)'
  <2>1. CASE pc'[p] = "dFree"
    <3>1. head = h[p] /\ head'.count = h[p].count + 1
      BY <2>1, <1>1 DEF Ptr
    <3>2. h[p].count <= head'.count /\ h[p].count < head'.count
      BY <3>1, <1>3
    <3>. QED
      BY <2>1, <3>2, <1>1, <1>2 DEF DeqInv
  <2>2. CASE pc'[p] = "dHead"
    BY <2>2 DEF DeqInv
  <2>. QED
    BY <2>1, <2>2, <1>1
<1>11. \A q \in Proc : pc[q] \in Unlinked => \A i \in 0 .. K : w[q] # L[i]
  BY DEF InvAt, EnqInv
<1>12. pc'[p] \notin Unlinked
  BY <1>1 DEF Unlinked
<1>. QED
  BY <1>1, <1>6, <1>7, <1>8, <1>9, <1>10, <1>11, <1>12, Together

LEMMA FreeStep ==
  ASSUME NEW K \in Nat, NEW L \in [0 .. K -> Addr], InvAt(L, K), TypeOK',
         NEW p \in Proc, Free(p)
  PROVE  /\ InvAt(L, K)'
         /\ \A a \in Addr : a # L[h[p].count] => val'[a] = val[a]
         /\ h[p].count \in 0 .. K /\ h[p].count < head.count
<1>. TypeOK /\ ListInv(L, K) /\ EndsInv(L, K) /\ DeqInv(L, K, p)
  BY DEF InvAt
<1>1. /\ pc[p] = "dFree" /\ pc'[p] = "dequeued"
      /\ \A q \in Proc \ {p} : Same(q)
      /\ freed' = freed \cup {h[p].p}
      /\ UNCHANGED <<head, tail, next, used>>
  BY DEF Free, Goto, TypeOK, Same, local
<1>2. On(L, K, h[p]) /\ h[p].count < head.count
  BY <1>1 DEF DeqInv
<1>3. h[p].p = L[h[p].count] /\ h[p].count \in 0 .. K
  BY <1>2, LocalTypes, OnIs
<1>4. \A a \in Addr : a # L[h[p].count] => val'[a] = val[a]
  BY <1>3 DEF Free, TypeOK
<1>5. EndsInv(L, K)'
  <2>1. h[p].count \in 0 .. head.count - 1
    BY <1>2, <1>3, SharedTypes
  <2>2. \A a \in freed' : \E i \in 0 .. head.count - 1 : a = L[i]
    BY <1>1, <1>3, <2>1 DEF EndsInv
  <2>. QED
    BY <2>2, <1>1 DEF EndsInv, On
<1>6. ListInv(L, K)'
  BY <1>1 DEF ListInv
<1>7. Onward(L, K)
  <2>1. ASSUME NEW i \in head.count + 1 .. K
        PROVE  val'[L[i]] = val[L[i]]
    <3>1. i \in 0 .. K /\ i # h[p].count
      BY <1>2, <1>3, SharedTypes
    <3>2. L[i] # L[h[p].count] /\ L[i] \in Addr
      BY <3>1, <1>3 DEF ListInv
    <3>. QED
      BY <3>2, <1>4
  <2>. QED
    BY <2>1, <1>1, SharedTypes DEF Onward
<1>8. Extends(L, K, L, K)
  BY DEF Extends
<1>9. EnqInv(L, K, p)' /\ DeqInv(L, K, p)'
  BY <1>1 DEF EnqInv, DeqInv, Unlinked
<1>10. \A q \in Proc : pc[q] \in Unlinked => \A i \in 0 .. K : w[q] # L[i]
  BY DEF InvAt, EnqInv
<1>11. pc'[p] \notin Unlinked
  BY <1>1 DEF Unlinked
<1>12. InvAt(L, K)'
  BY <1>1, <1>5, <1>6, <1>7, <1>8, <1>9, <1>10, <1>11, Together
<1>. QED
  BY <1>2, <1>3, <1>4, <1>12

LEMMA FailedLinkStep ==
  ASSUME NEW K \in Nat, NEW L \in [0 .. K -> Addr], InvAt(L, K), TypeOK',
         NEW p \in Proc, Link(p), pc'[p] # "eSwing"
  PROVE  InvAt(L, K)'
<1>1. /\ pc[p] = "eLink" /\ pc'[p] = "eTail" /\ w'[p] = w[p]
      /\ \A q \in Proc \ {p} : Same(q)
      /\ UNCHANGED shared
  <2>1. TypeOK
    BY DEF InvAt
  <2>. QED
    BY <2>1 DEF Link, Goto, TypeOK, Same, local, shared
<1>2. EnqInv(L, K, p)
  BY DEF InvAt
<1>3. EnqInv(L, K, p)'
  BY <1>1, <1>2 DEF EnqInv, Unlinked, shared
<1>4. DeqInv(L, K, p)'
  BY <1>1 DEF DeqInv
<1>. QED
  BY <1>1, <1>3, <1>4, Locally DEF Unlinked

LEMMA InvStep ==
  ASSUME ~Reuse, NEW K \in Nat, NEW L \in [0 .. K -> Addr], InvAt(L, K), [Next]_vars
  PROVE  \/ InvAt(L, K)'
         \/ \E p \in Proc : Linking(p)
<1>1. TypeOK'
  BY TypeStep
<1>2. CASE UNCHANGED vars
  <2>1. \A p \in Proc : EnqInv(L, K, p)' /\ DeqInv(L, K, p)'
    BY <1>2 DEF InvAt, EnqInv, DeqInv, vars, shared, local
  <2>2. ListInv(L, K)' /\ EndsInv(L, K)' /\ Apart'
    BY <1>2 DEF InvAt, ListInv, EndsInv, Apart, vars, shared, local
  <2>. QED
    BY <1>1, <2>1, <2>2 DEF InvAt
<1>. QED
  BY <1>1, <1>2, LocalStep, EnqueueStep, FailedLinkStep, TailStep, HeadStep, FreeStep
     DEF Next, Step, Linking

LEMMA InvInit == Init => IInv
<1>. SUFFICES ASSUME Init PROVE IInv
  OBVIOUS
<1>. DEFINE L == [i \in 0 .. 0 |-> 0]
<1>1. L \in [0 .. 0 -> Addr] /\ \A i \in 0 .. 0 : L[i] = 0 /\ i = 0
  BY DEF Addr
<1>. HIDE DEF L
<1>2. 0 \in Addr /\ maxNode \in Nat /\ 1 \in 1 .. maxNode
  BY DEF Addr
<1>3. head.count = 0 /\ head.p = 0 /\ tail.count = 0 /\ tail.p = 0
  BY DEF Init, Ptr
<1>4. TypeOK
  <2>1. ptr0 \in Pointer /\ head \in Pointer /\ tail \in Pointer
    BY <1>2, PtrType DEF Init
  <2>2. val \in [Addr -> Item]
    BY DEF Init
  <2>3. pc \in [Proc -> Label]
    BY DEF Init, Label
  <2>. QED
    BY <2>1, <2>2, <2>3, <1>2 DEF Init, TypeOK
<1>5. ListInv(L, 0)
  BY <1>1 DEF ListInv, Init
<1>6. EndsInv(L, 0)
  BY <1>1, <1>3 DEF EndsInv, On, Init
<1>7. Apart
  BY DEF Apart, Init, Unlinked
<1>8. \A p \in Proc : EnqInv(L, 0, p) /\ DeqInv(L, 0, p)
  BY DEF EnqInv, DeqInv, Init, Unlinked
<1>9. InvAt(L, 0)
  BY <1>4, <1>5, <1>6, <1>7, <1>8 DEF InvAt
<1>. QED
  BY <1>1, <1>9 DEF IInv

LEMMA InvNext ==
  ASSUME ~Reuse, IInv, [Next]_vars
  PROVE  IInv'
<1>a. PICK K \in Nat : \E L \in [0 .. K -> Addr] : InvAt(L, K)
  BY DEF IInv
<1>1. PICK L \in [0 .. K -> Addr] : InvAt(L, K)
  BY <1>a
<1>2. CASE InvAt(L, K)'
  BY <1>2 DEF IInv
<1>3. CASE \E p \in Proc : Linking(p)
  <2>1. PICK p \in Proc : Linking(p)
    BY <1>3
  <2>2. w[p] \in Addr
    BY <1>1, <2>1, LinkFacts
  <2>3. PICK a \in Addr : a = w[p]
    BY <2>2
  <2>4. Longer(L, K, a) \in [0 .. K + 1 -> Addr] /\ K + 1 \in Nat
    BY LongerIs
  <2>5. InvAt(Longer(L, K, a), K + 1)'
    BY <1>1, <2>1, <2>3, TypeStep, LinkStep
  <2>6. PICK M \in Nat : M = K + 1
    BY <2>4
  <2>8. PICK L2 \in [0 .. M -> Addr] : L2 = Longer(L, K, a)
    BY <2>4, <2>6
  <2>7. InvAt(L2, M)'
    BY <2>5, <2>6, <2>8
  <2>. QED
    BY <2>7 DEF IInv
<1>. QED
  BY <1>1, <1>2, <1>3, InvStep

\* The shape of the linked list (lockfree_queue.h:49-120): between its steps no
\* thread holds a pointer that is not in the list at the position its count
\* says, no two threads link the same node, head does not pass tail, and tail
\* lags at most one node behind.
THEOREM Invariant ==
  ASSUME ~Reuse
  PROVE  Spec => []IInv
BY InvInit, InvNext, PTL DEF Spec

-----------------------------------------------------------------------------
(***************************************************************************)
(* Follow is well defined, and the list is what it finds.                  *)
(***************************************************************************)
\* The list from position i on.
Rest(L, K, i) == [j \in 1 .. K - i + 1 |-> L[i + j - 1]]

LEMMA RestIs ==
  ASSUME NEW K \in Nat, NEW L \in [0 .. K -> Addr]
  PROVE  /\ \A i \in 0 .. K : Rest(L, K, i) \in Seq(Addr) /\ Len(Rest(L, K, i)) = K - i + 1
         /\ \A i \in 0 .. K - 1 : Rest(L, K, i) = <<L[i]>> \o Rest(L, K, i + 1)
         /\ Rest(L, K, K) = <<L[K]>>
<1>1. ASSUME NEW i \in 0 .. K
      PROVE  Rest(L, K, i) \in Seq(Addr) /\ Len(Rest(L, K, i)) = K - i + 1
  <2>1. K - i + 1 \in Nat /\ \A j \in 1 .. K - i + 1 : i + j - 1 \in 0 .. K
    OBVIOUS
  <2>2. Rest(L, K, i) \in [1 .. K - i + 1 -> Addr]
    BY <2>1 DEF Rest
  <2>. QED
    BY <2>1, <2>2
<1>2. ASSUME NEW i \in 0 .. K - 1
      PROVE  Rest(L, K, i) = <<L[i]>> \o Rest(L, K, i + 1)
  <2>1. i \in 0 .. K /\ i + 1 \in 0 .. K
    OBVIOUS
  <2>a. L[i] \in Addr /\ <<L[i]>> \in Seq(Addr)
    BY <2>1
  <2>b. Rest(L, K, i) \in Seq(Addr) /\ Len(Rest(L, K, i)) = K - i + 1
    BY <2>1, <1>1
  <2>c. Rest(L, K, i + 1) \in Seq(Addr) /\ Len(Rest(L, K, i + 1)) = K - (i + 1) + 1
    BY ONLY <2>1, <1>1
  <2>3. \A j \in 1 .. K - i + 1 : Rest(L, K, i)[j] = L[i + j - 1]
    BY DEF Rest
  <2>4. \A j \in 1 .. K - (i + 1) + 1 : Rest(L, K, i + 1)[j] = L[i + 1 + j - 1]
    BY DEF Rest
  <2>5. ASSUME NEW j \in 1 .. K - i + 1
        PROVE  Rest(L, K, i)[j] = (<<L[i]>> \o Rest(L, K, i + 1))[j]
    <3>1. CASE j = 1
      <4>1. Rest(L, K, i)[1] = L[i + 1 - 1] /\ i + 1 - 1 = i
        BY <3>1, <2>3
      <4>2. (<<L[i]>> \o Rest(L, K, i + 1))[1] = L[i]
        BY <2>a, <2>c
      <4>. QED
        BY <3>1, <4>1, <4>2
    <3>2. CASE j # 1
      <4>1. j - 1 \in 1 .. K - (i + 1) + 1 /\ i + 1 + (j - 1) - 1 = i + j - 1
        BY <3>2
      <4>2. Rest(L, K, i + 1)[j - 1] = L[i + j - 1]
        BY <2>4, <4>1
      <4>3. (<<L[i]>> \o Rest(L, K, i + 1))[j] = Rest(L, K, i + 1)[j - 1]
        BY <2>a, <2>c, <3>2
      <4>. QED
        BY <2>3, <4>2, <4>3
    <3>. QED
      BY <3>1, <3>2
  <2>. HIDE DEF Rest
  <2>6. /\ <<L[i]>> \o Rest(L, K, i + 1) \in Seq(Addr)
        /\ Len(<<L[i]>> \o Rest(L, K, i + 1)) = K - i + 1
    BY <2>a, <2>c
  <2>. QED
    BY <2>b, <2>5, <2>6, SeqEqual
<1>3. Rest(L, K, K) = <<L[K]>>
  <2>1. Rest(L, K, K) \in Seq(Addr) /\ Len(Rest(L, K, K)) = 1
    BY <1>1
  <2>2. Rest(L, K, K)[1] = L[K]
    BY DEF Rest
  <2>. QED
    BY <2>1, <2>2
<1>. QED
  BY <1>1, <1>2, <1>3

LEMMA LinkIs ==
  ASSUME NEW K \in Nat, NEW L \in [0 .. K -> Addr], ListInv(L, K)
  PROVE  /\ \A i \in 0 .. K - 1 : next[L[i]].p = L[i + 1] /\ L[i + 1] # Null
         /\ next[L[K]].p = Null
<1>1. ASSUME NEW i \in 0 .. K - 1
      PROVE  next[L[i]].p = L[i + 1] /\ L[i + 1] # Null
  <2>1. next[L[i]] = Ptr(L[i + 1], 1)
    BY DEF ListInv
  <2>2. i + 1 \in 0 .. K
    OBVIOUS
  <2>3. L[i + 1] \in Addr
    BY <2>2
  <2>. QED
    BY <2>1, <2>3 DEF Ptr, Addr, Null
<1>2. next[L[K]].p = Null
  <2>1. K \in 0 .. K /\ \A i \in 0 .. K - 1 : i \in 0 .. K /\ i # K
    OBVIOUS
  <2>2. L[K] \in Addr /\ \A i \in 0 .. K - 1 : L[K] # L[i]
    BY <2>1 DEF ListInv
  <2>3. next[L[K]] = ptr0
    BY <2>2 DEF ListInv
  <2>. QED
    BY <2>3 DEF ptr0, Ptr
<1>. QED
  BY <1>1, <1>2

LEMMA FollowEquation ==
  ASSUME NEW K \in Nat, NEW L \in [0 .. K -> Addr], ListInv(L, K)
  PROVE  \A a \in Addr :
           Follow[a] = IF next[a].p = Null THEN <<a>> ELSE <<a>> \o Follow[next[a].p]
<1>. DEFINE place(a) == CHOOSE i \in 0 .. K : a = L[i]
            g == [a \in Addr |-> IF \E i \in 0 .. K : a = L[i]
                                 THEN Rest(L, K, place(a)) ELSE <<a>>]
<1>1. ASSUME NEW i \in 0 .. K
      PROVE  L[i] \in Addr /\ place(L[i]) = i /\ g[L[i]] = Rest(L, K, i)
  BY DEF ListInv
<1>2. ASSUME NEW a \in Addr
      PROVE  g[a] = IF next[a].p = Null THEN <<a>> ELSE <<a>> \o g[next[a].p]
  <2>1. CASE \E i \in 0 .. K - 1 : a = L[i]
    <3>1. PICK i \in 0 .. K - 1 : a = L[i]
      BY <2>1
    <3>2. i \in 0 .. K /\ i + 1 \in 0 .. K
      OBVIOUS
    <3>3. next[a].p = L[i + 1] /\ L[i + 1] # Null
      BY <3>1, LinkIs
    <3>4. g[a] = Rest(L, K, i) /\ g[L[i + 1]] = Rest(L, K, i + 1)
      BY <3>1, <3>2, <1>1
    <3>. HIDE DEF g
    <3>. QED
      BY <3>1, <3>3, <3>4, RestIs
  <2>2. CASE ~ \E i \in 0 .. K - 1 : a = L[i]
    <3>1. next[a] = ptr0 /\ next[a].p = Null
      BY <2>2 DEF ListInv, ptr0, Ptr
    <3>2. g[a] = <<a>>
      <4>1. CASE a = L[K]
        <5>0. K \in 0 .. K
          OBVIOUS
        <5>1. g[L[K]] = Rest(L, K, K)
          BY ONLY <5>0, <1>1
        <5>. HIDE DEF g
        <5>. QED
          BY <4>1, <5>1, RestIs
      <4>2. CASE a # L[K]
        <5>1. ~ \E i \in 0 .. K : a = L[i]
          BY <2>2, <4>2
        <5>. QED
          BY <5>1
      <4>. QED
        BY <4>1, <4>2
    <3>. QED
      BY <3>1, <3>2
  <2>. QED
    BY <2>1, <2>2
<1>3. g = [a \in Addr |-> g[a]]
  OBVIOUS
<1>. HIDE DEF g
<1>4. g = [a \in Addr |-> IF next[a].p = Null THEN <<a>> ELSE <<a>> \o g[next[a].p]]
  BY <1>2, <1>3
<1>5. Follow = [a \in Addr |-> IF next[a].p = Null THEN <<a>> ELSE <<a>> \o Follow[next[a].p]]
  BY <1>4 DEF Follow
<1>. QED
  BY <1>5

LEMMA FollowIs ==
  ASSUME NEW K \in Nat, NEW L \in [0 .. K -> Addr], ListInv(L, K)
  PROVE  \A i \in 0 .. K : Follow[L[i]] = Rest(L, K, i)
<1>. DEFINE Bad == { d \in 0 .. K : Follow[L[K - d]] # Rest(L, K, K - d) }
<1>1. CASE Bad = {}
  <2>1. ASSUME NEW i \in 0 .. K PROVE Follow[L[i]] = Rest(L, K, i)
    <3>1. K - i \in 0 .. K /\ K - (K - i) = i
      OBVIOUS
    <3>. QED
      BY <1>1, <3>1
  <2>. QED
    BY <2>1
<1>2. CASE Bad # {}
  <2>1. Bad \subseteq Nat
    OBVIOUS
  <2>2. PICK d \in Bad : \A e \in Bad : ~(<<e, d>> \in OpToRel(<, Nat))
    <3>. HIDE DEF Bad
    <3>. QED
      BY <1>2, <2>1, WFMin, NatLessThanWellFounded
  <2>3. /\ d \in 0 .. K /\ \A e \in Bad : ~(e < d)
        /\ Follow[L[K - d]] # Rest(L, K, K - d)
    BY <2>1, <2>2 DEF OpToRel
  <2>4. CASE d = 0
    <3>1. K - d = K /\ L[K] \in Addr
      BY <2>4
    <3>2. next[L[K]].p = Null
      BY LinkIs
    <3>3. Follow[L[K]] = <<L[K]>>
      <4>1. \A a \in Addr : next[a].p = Null => Follow[a] = <<a>>
        BY FollowEquation
      <4>. QED
        BY <3>1, <3>2, <4>1
    <3>. QED
      BY <2>3, <3>1, <3>3, RestIs
  <2>5. CASE d # 0
    <3>1. PICK i \in 0 .. K - 1 : i = K - d
      BY <2>3, <2>5
    <3>2. d - 1 \in 0 .. K /\ d - 1 < d /\ K - (d - 1) = i + 1
      BY <2>3, <2>5, <3>1
    <3>3. i \in 0 .. K /\ i + 1 \in 0 .. K
      OBVIOUS
    <3>4. L[i] \in Addr /\ L[i + 1] \in Addr
      BY <3>3
    <3>5. Follow[L[i + 1]] = Rest(L, K, i + 1)
      BY <2>3, <3>2
    <3>6. next[L[i]].p = L[i + 1] /\ L[i + 1] # Null
      BY LinkIs
    <3>7. Follow[L[i]] = <<L[i]>> \o Follow[L[i + 1]]
      BY <3>4, <3>6, FollowEquation
    <3>8. Follow[L[i]] = Rest(L, K, i)
      BY <3>5, <3>7, RestIs
    <3>. QED
      BY <2>3, <3>1, <3>8
  <2>. QED
    BY <2>4, <2>5
<1>. QED
  BY <1>1, <1>2

ListFacts(L, K) ==
  /\ Content = [j \in 1 .. K - head.count |-> val[L[head.count + j]]]
  /\ ListOK

AllListFacts ==
  \A K \in Nat : \A L \in [0 .. K -> Addr] : InvAt(L, K) => ListFacts(L, K)

LEMMA ListIs == AllListFacts
<1>. SUFFICES ASSUME NEW K \in Nat, NEW L \in [0 .. K -> Addr], InvAt(L, K)
              PROVE  ListFacts(L, K)
  BY DEF AllListFacts
<1>. TypeOK /\ ListInv(L, K) /\ EndsInv(L, K)
  BY DEF InvAt
<1>1. /\ head.p = L[head.count] /\ head.count \in 0 .. K
      /\ tail.p = L[tail.count] /\ tail.count \in 0 .. K
      /\ head.count <= tail.count /\ K <= tail.count + 1
  BY SharedTypes, OnIs DEF EndsInv
<1>2. Follow[head.p] = Rest(L, K, head.count) /\ Follow[tail.p] = Rest(L, K, tail.count)
  BY <1>1, FollowIs
<1>3. Len(Follow[head.p]) = K - head.count + 1 /\ Len(Follow[tail.p]) = K - tail.count + 1
  BY <1>1, <1>2, RestIs
<1>4. \A j \in 1 .. K - head.count + 1 : Follow[head.p][j] = L[head.count + j - 1]
  BY <1>2 DEF Rest
<1>5. Content = [j \in 1 .. K - head.count |-> val[L[head.count + j]]]
  <2>1. Len(Follow[head.p]) - 1 = K - head.count
    BY <1>1, <1>3
  <2>2. ASSUME NEW j \in 1 .. K - head.count
        PROVE  Follow[head.p][j + 1] = L[head.count + j]
    <3>1. j + 1 \in 1 .. K - head.count + 1 /\ head.count + (j + 1) - 1 = head.count + j
      BY <1>1
    <3>. QED
      BY <1>4, <3>1
  <2>. QED
    BY <2>1, <2>2 DEF Content
<1>6. Listed = { L[i] : i \in head.count .. K }
  <2>1. Listed = { L[head.count + j - 1] : j \in 1 .. K - head.count + 1 }
    BY <1>3, <1>4 DEF Listed
  <2>2. \A j \in 1 .. K - head.count + 1 : head.count + j - 1 \in head.count .. K
    BY <1>1
  <2>3. \A i \in head.count .. K :
          i - head.count + 1 \in 1 .. K - head.count + 1
          /\ head.count + (i - head.count + 1) - 1 = i
    BY <1>1
  <2>. QED
    BY <2>1, <2>2, <2>3
<1>7. tail.p \in Listed
  BY <1>1, <1>6
<1>8. Len(Follow[tail.p]) <= 2
  BY <1>1, <1>3
<1>9. Listed \cap freed = {}
  <2>1. ASSUME NEW i \in head.count .. K, L[i] \in freed
        PROVE  FALSE
    <3>1. PICK k \in 0 .. head.count - 1 : L[i] = L[k]
      BY <2>1 DEF EndsInv
    <3>2. i \in 0 .. K /\ k \in 0 .. K /\ i # k
      BY <1>1
    <3>. QED
      BY <3>1, <3>2 DEF ListInv
  <2>. QED
    BY <2>1, <1>6
<1>. QED
  BY <1>5, <1>7, <1>8, <1>9 DEF ListFacts, ListOK

LEMMA ListOKFollows == IInv => ListOK
BY ListIs DEF IInv, AllListFacts, ListFacts

\* tail is at the last node or the one before it, and free (lockfree_queue.h)
\* never gives back a node that head or tail still leads to.
THEOREM ListCorrect ==
  ASSUME ~Reuse
  PROVE  Spec => []ListOK
BY Invariant, ListOKFollows, PTL

-----------------------------------------------------------------------------
(***************************************************************************)
(* The linked queue is a FIFO queue.                                       *)
(***************************************************************************)
Looking == {"dHead", "dTail", "dNext", "dHelp", "dVal", "dSwing"}

LEMMA PhaseIs ==
  ASSUME NEW p \in Proc
  PROVE  /\ pc[p] = "idle" => Phase(p) = Queue!Idle
         /\ pc[p] \in Unlinked => Phase(p) = Queue!Pushing(val[w[p]])
         /\ pc[p] \in {"eSwing", "enqueued"} => Phase(p) = Queue!Pushed(TRUE)
         /\ pc[p] \in Looking => Phase(p) = Queue!Popping(FALSE)
         /\ pc[p] = "dCheck" => Phase(p) = Queue!Popping(n[p].p = Null)
         /\ pc[p] \in {"dFree", "dequeued"} => Phase(p) = Queue!Popped(rtn[p])
         /\ pc[p] = "empty" => Phase(p) = Queue!PopFailed
BY DEF Phase, Unlinked, Looking, Queue!Idle, Queue!Pushing, Queue!Pushed,
   Queue!Popping, Queue!Popped, Queue!PopFailed

LEMMA PhaseWillBe ==
  ASSUME NEW p \in Proc
  PROVE  /\ pc'[p] = "idle" => Phase(p)' = Queue!Idle
         /\ pc'[p] \in Unlinked => Phase(p)' = Queue!Pushing(val'[w'[p]])
         /\ pc'[p] \in {"eSwing", "enqueued"} => Phase(p)' = Queue!Pushed(TRUE)
         /\ pc'[p] \in Looking => Phase(p)' = Queue!Popping(FALSE)
         /\ pc'[p] = "dCheck" => Phase(p)' = Queue!Popping(n'[p].p = Null)
         /\ pc'[p] \in {"dFree", "dequeued"} => Phase(p)' = Queue!Popped(rtn'[p])
         /\ pc'[p] = "empty" => Phase(p)' = Queue!PopFailed
BY DEF Phase, Unlinked, Looking, Queue!Idle, Queue!Pushing, Queue!Pushed,
   Queue!Popping, Queue!Popped, Queue!PopFailed

LEMMA CallsMove ==
  ASSUME NEW p \in Proc, \A q \in Proc \ {p} : Same(q),
         \A q \in Proc \ {p} : pc[q] \in Unlinked => val'[w[q]] = val[w[q]]
  PROVE  Calls' = [Calls EXCEPT ![p] = Phase(p)']
<1>1. ASSUME NEW q \in Proc \ {p}
      PROVE  Phase(q)' = Phase(q)
  BY DEF Phase, Same, Unlinked
<1>. QED
  BY <1>1 DEF Calls

LEMMA ContentKept ==
  ASSUME NEW K \in Nat, NEW L \in [0 .. K -> Addr], InvAt(L, K), InvAt(L, K)',
         head' = head, \A i \in head.count + 1 .. K : val'[L[i]] = val[L[i]]
  PROVE  Content' = Content
<1>1. AllListFacts /\ AllListFacts'
  BY ListIs, PTL
<1>2. /\ Content = [j \in 1 .. K - head.count |-> val[L[head.count + j]]]
      /\ Content' = [j \in 1 .. K - head'.count |-> val'[L[head'.count + j]]]
  BY <1>1 DEF AllListFacts, ListFacts
<1>3. head.count \in Nat
  BY SharedTypes DEF InvAt
<1>4. \A j \in 1 .. K - head.count : head.count + j \in head.count + 1 .. K
  BY <1>3
<1>. QED
  BY <1>2, <1>4

\* The step is not one of the abstract queue.
LEMMA Stutters ==
  ASSUME NEW K \in Nat, NEW L \in [0 .. K -> Addr], InvAt(L, K), InvAt(L, K)',
         NEW p \in Proc, \A q \in Proc \ {p} : Same(q), UNCHANGED <<head, val>>,
         Phase(p)' = Phase(p)
  PROVE  UNCHANGED Queue!vars
<1>1. Content' = Content
  BY ContentKept
<1>2. Calls' = [Calls EXCEPT ![p] = Phase(p)']
  BY CallsMove
<1>3. Calls' = Calls
  BY <1>2 DEF Calls
<1>. QED
  BY <1>1, <1>3 DEF Queue!vars

LEMMA Refines ==
  ASSUME NEW p \in Proc,
         \/ Queue!Call(p) \/ Queue!Push(p) \/ Queue!Pop(p) \/ Queue!Look(p)
         \/ Queue!PopEmpty(p) \/ Queue!Return(p)
  PROVE  [Queue!Next]_(Queue!vars)
BY DEF Queue!Next

LEMMA CallIs == \A p \in Proc : Calls[p] = Phase(p)
BY DEF Calls

LEMMA LocalRefines ==
  ASSUME NEW K \in Nat, NEW L \in [0 .. K -> Addr], InvAt(L, K), TypeOK',
         NEW p \in Proc,
         \/ CallDequeue(p) \/ LoadTail(p) \/ LoadHead(p) \/ LoadNext(p)
         \/ CheckTail(p) \/ CheckHead(p) \/ ReadVal(p) \/ Return(p)
  PROVE  [Queue!Next]_(Queue!vars)
<1>a. InvAt(L, K)'
  BY LocalStep
<1>b. TypeOK
  BY DEF InvAt
<1>c. UNCHANGED shared /\ \A q \in Proc \ {p} : Same(q)
  BY <1>b DEF CallDequeue, LoadTail, LoadHead, LoadNext, CheckTail, CheckHead,
     ReadVal, Return, local, Goto, TypeOK, Same
<1>d. Content' = Content
  BY <1>a, <1>c, ContentKept DEF shared
<1>e. Calls' = [Calls EXCEPT ![p] = Phase(p)']
  BY <1>c, CallsMove DEF shared
<1>f. UNCHANGED <<head, val>>
  BY <1>c DEF shared
<1>g. Calls[p] = Phase(p)
  BY CallIs
<1>1. CASE CallDequeue(p)
  <2>1. pc[p] = "idle" /\ pc'[p] = "dHead"
    BY <1>1, <1>b DEF CallDequeue, Goto, TypeOK
  <2>2. Phase(p) = Queue!Idle /\ Phase(p)' = Queue!Popping(FALSE)
    BY <2>1, PhaseIs, PhaseWillBe DEF Looking
  <2>3. Queue!Call(p)
    BY <2>2, <1>d, <1>e, <1>g DEF Queue!Call, Queue!Becomes
  <2>. QED
    BY <2>3, Refines
<1>2. CASE LoadTail(p) \/ LoadHead(p) \/ CheckTail(p) \/ ReadVal(p)
  <2>1. /\ \/ pc[p] \in Unlinked /\ pc'[p] \in Unlinked
           \/ pc[p] \in Looking /\ pc'[p] \in Looking
        /\ w' = w
    BY <1>2, <1>b DEF LoadTail, LoadHead, CheckTail, ReadVal, Goto, TypeOK, local,
       Unlinked, Looking
  <2>2. Phase(p)' = Phase(p)
    BY <2>1, <1>f, PhaseIs, PhaseWillBe
  <2>. QED
    BY <2>2, <1>a, <1>c, <1>f, Stutters
<1>3. CASE LoadNext(p)
  <2>1. \/ pc[p] = "eNext" /\ pc'[p] = "eCheck"
        \/ pc[p] = "dNext" /\ pc'[p] = "dCheck"
    BY <1>3, <1>b DEF LoadNext, Goto, TypeOK
  <2>2. CASE pc[p] = "eNext" /\ pc'[p] = "eCheck"
    <3>1. Phase(p)' = Phase(p)
      BY <2>2, <1>3, <1>f, PhaseIs, PhaseWillBe DEF LoadNext, Unlinked
    <3>. QED
      BY <3>1, <1>a, <1>c, <1>f, Stutters
  <2>3. CASE pc[p] = "dNext" /\ pc'[p] = "dCheck"
    <3>1. Phase(p) = Queue!Popping(FALSE) /\ Phase(p)' = Queue!Popping(n'[p].p = Null)
      BY <2>3, PhaseIs, PhaseWillBe DEF Looking
    <3>2. n'[p].p = Null => Content = <<>>
      <4>1. SUFFICES ASSUME n'[p].p = Null PROVE Content = <<>>
        OBVIOUS
      <4>2. /\ DeqInv(L, K, p) /\ DeqInv(L, K, p)'
            /\ ListInv(L, K) /\ EndsInv(L, K)
        BY <1>a DEF InvAt
      <4>3. h'[p] = h[p] /\ t'[p] = t[p]
        BY <1>3 DEF LoadNext
      <4>4. ~Behind(L, K, h[p], n'[p])
        BY <4>1, OnIs, LocalTypes, <1>b
      <4>5. On(L, K, h[p]) /\ h[p].count <= head.count
        BY <4>2, <2>3 DEF DeqInv
      <4>6. n'[p] = next[h[p].p]
        BY <1>3, <1>b, <2>3 DEF LoadNext, Goto, TypeOK
      <4>7. h[p] \in Pointer /\ h[p].count \in Nat /\ head.count \in Nat
        BY <1>b, LocalTypes, SharedTypes
      <4>8. ~(h[p].count < K)
        BY <4>2, <4>4, <4>5, <4>6, <4>7, NextIs
      <4>9. head.count = K
        BY <4>2, <4>5, <4>7, <4>8 DEF EndsInv, On
      <4>10. AllListFacts
        BY ListIs
      <4>11. Content = [j \in 1 .. K - head.count |-> val[L[head.count + j]]]
        BY <4>10 DEF AllListFacts, ListFacts
      <4>12. 1 .. K - head.count = {}
        BY <4>9
      <4>. QED
        BY <4>11, <4>12
    <3>3. Queue!Look(p)
      <4>1. Calls[p].op = "popping"
        BY <3>1, <1>g DEF Queue!Popping
      <4>2. \/ Calls' = [Calls EXCEPT ![p] = Queue!Popping(FALSE)]
            \/ Content = <<>> /\ Calls' = [Calls EXCEPT ![p] = Queue!Popping(TRUE)]
        <5>1. CASE n'[p].p = Null
          BY <5>1, <3>1, <3>2, <1>e
        <5>2. CASE n'[p].p # Null
          <6>1. (n'[p].p = Null) = FALSE
            BY <5>2
          <6>. QED
            BY <6>1, <3>1, <1>e
        <5>. QED
          BY <5>1, <5>2
      <4>. QED
        BY <4>1, <4>2, <1>d DEF Queue!Look, Queue!Becomes
    <3>. QED
      BY <3>3, Refines
  <2>. QED
    BY <2>1, <2>2, <2>3
<1>4. CASE CheckHead(p)
  <2>1. /\ pc[p] = "dCheck"
        /\ pc'[p] \in Looking \/ (pc'[p] = "empty" /\ n[p].p = Null)
    BY <1>4, <1>b DEF CheckHead, Goto, TypeOK, Looking
  <2>2. Phase(p) = Queue!Popping(n[p].p = Null)
    BY <2>1, PhaseIs
  <2>3. Calls[p].op = "popping" /\ (n[p].p = Null => Calls[p].sawEmpty)
    <3>1. Calls[p].op = "popping"
      BY <2>2, <1>g DEF Queue!Popping
    <3>2. ASSUME n[p].p = Null PROVE Calls[p] = Queue!Popping(TRUE)
      <4>1. (n[p].p = Null) = TRUE
        BY <3>2
      <4>. QED
        BY <4>1, <2>2, <1>g
    <3>. QED
      BY <3>1, <3>2 DEF Queue!Popping
  <2>4. CASE pc'[p] \in Looking
    <3>1. Phase(p)' = Queue!Popping(FALSE)
      BY <2>4, PhaseWillBe
    <3>2. Queue!Look(p)
      BY <2>3, <3>1, <1>d, <1>e DEF Queue!Look, Queue!Becomes
    <3>. QED
      BY <3>2, Refines
  <2>5. CASE pc'[p] = "empty" /\ n[p].p = Null
    <3>1. Phase(p)' = Queue!PopFailed
      BY <2>5, PhaseWillBe
    <3>2. Queue!PopEmpty(p)
      BY <2>3, <2>5, <3>1, <1>d, <1>e DEF Queue!PopEmpty, Queue!Becomes
    <3>. QED
      BY <3>2, Refines
  <2>. QED
    BY <2>1, <2>4, <2>5
<1>5. CASE Return(p)
  <2>1. pc[p] \in {"enqueued", "dequeued", "empty"} /\ pc'[p] = "idle"
    BY <1>5, <1>b DEF Return, Goto, TypeOK
  <2>2. Phase(p)' = Queue!Idle
    BY <2>1, PhaseWillBe
  <2>3. Phase(p).op \in {"pushed", "popped", "popFailed"}
    BY <2>1 DEF Phase
  <2>4. Queue!Return(p)
    BY <2>2, <2>3, <1>d, <1>e, <1>g DEF Queue!Return, Queue!Becomes
  <2>. QED
    BY <2>4, Refines
<1>. QED
  BY <1>1, <1>2, <1>3, <1>4, <1>5

\* The list is never longer than there are addresses.
LEMMA RoomLeft ==
  ASSUME NEW K \in Nat, NEW L \in [0 .. K -> Addr], ListInv(L, K)
  PROVE  K < maxNode
<1>1. SUFFICES ASSUME maxNode < K + 1 PROVE FALSE
  OBVIOUS
<1>2. IsFiniteSet(0 .. K) /\ Cardinality(0 .. K) = K + 1
  <2>1. 0 \in Int /\ K \in Int /\ K - 0 + 1 = K + 1 /\ ~(0 > K)
    OBVIOUS
  <2>. QED
    BY <2>1, FS_Interval
<1>3. IsFiniteSet(Addr) /\ Cardinality(Addr) = maxNode
  <2>1. 0 \in Int /\ maxNode - 1 \in Int /\ maxNode - 1 - 0 + 1 = maxNode
        /\ ~(0 > maxNode - 1)
    OBVIOUS
  <2>. QED
    BY <2>1, FS_Interval DEF Addr
<1>4. \E i, j \in 0 .. K : i # j /\ L[i] = L[j]
  BY <1>1, <1>2, <1>3, FS_PigeonHole
<1>. QED
  BY <1>4 DEF ListInv

LEMMA LinkRefines ==
  ASSUME NEW K \in Nat, NEW L \in [0 .. K -> Addr], InvAt(L, K), TypeOK',
         NEW p \in Proc, Linking(p)
  PROVE  [Queue!Next]_(Queue!vars)
<1>. TypeOK /\ ListInv(L, K) /\ EndsInv(L, K)
  BY DEF InvAt
<1>1. pc[p] = "eLink" /\ w[p] \in Addr
  BY LinkFacts
<1>2. /\ pc'[p] = "eSwing" /\ \A q \in Proc \ {p} : Same(q)
      /\ head' = head /\ val' = val
  BY DEF Linking, Link, Goto, TypeOK, Same, local
<1>3. PICK a \in Addr : a = w[p]
  BY <1>1
<1>4. PICK M \in Nat : M = K + 1
  OBVIOUS
<1>5. PICK L2 \in [0 .. M -> Addr] : L2 = Longer(L, K, a)
  BY <1>4, LongerIs
<1>6. (\A i \in 0 .. K : L2[i] = L[i]) /\ L2[M] = a
  <2>1. /\ \A i \in 0 .. K : Longer(L, K, a)[i] = L[i]
        /\ Longer(L, K, a)[K + 1] = a
    BY LongerIs
  <2>. QED
    BY <2>1, <1>4, <1>5
<1>8. InvAt(L2, M)'
  BY <1>3, <1>4, <1>5, LinkStep
<1>9. AllListFacts /\ AllListFacts'
  BY ListIs, PTL
<1>10. Content = [j \in 1 .. K - head.count |-> val[L[head.count + j]]]
  BY <1>9 DEF AllListFacts, ListFacts
<1>11. Content' = [j \in 1 .. M - head.count |-> val[L2[head.count + j]]]
  <2>1. Content' = [j \in 1 .. M - head'.count |-> val'[L2[head'.count + j]]]
    BY <1>8, <1>9 DEF AllListFacts, ListFacts
  <2>. QED
    BY <2>1, <1>2
<1>12. head.count \in Nat /\ head.count <= K /\ K - head.count \in Nat
       /\ M - head.count = K - head.count + 1
  BY <1>4, SharedTypes DEF EndsInv, On
<1>13. \A j \in 1 .. K - head.count : head.count + j \in 0 .. K
  BY <1>12
<1>14. Len(Content) = K - head.count /\ DOMAIN Content = 1 .. K - head.count
       /\ Content \in Seq(Item)
  <2>1. \A j \in 1 .. K - head.count : val[L[head.count + j]] \in Item
    BY <1>13 DEF TypeOK
  <2>2. Content \in [1 .. K - head.count -> Item]
    BY <2>1, <1>10
  <2>3. K - head.count \in Nat
    BY <1>12
  <2>. QED
    BY ONLY <2>2, <2>3
<1>15. Content' = Append(Content, val[a])
  <2>1. Append(Content, val[a]) =
          [j \in 1 .. K - head.count + 1 |->
             IF j = K - head.count + 1 THEN val[a] ELSE Content[j]]
    BY <1>12, <1>14
  <2>2. ASSUME NEW j \in 1 .. K - head.count + 1
        PROVE  val[L2[head.count + j]] =
                 IF j = K - head.count + 1 THEN val[a] ELSE Content[j]
    <3>1. CASE j = K - head.count + 1
      <4>1. head.count + j = M
        BY <3>1, <1>4, <1>12
      <4>. QED
        BY <3>1, <4>1, <1>6
    <3>2. CASE j # K - head.count + 1
      <4>1. j \in 1 .. K - head.count /\ head.count + j \in 0 .. K
        BY <3>2, <1>12
      <4>. QED
        BY <3>2, <4>1, <1>6, <1>10
    <3>. QED
      BY <3>1, <3>2
  <2>. QED
    BY <2>1, <2>2, <1>11, <1>12
<1>16. Phase(p) = Queue!Pushing(val[a]) /\ Phase(p)' = Queue!Pushed(TRUE)
  BY <1>1, <1>2, <1>3, PhaseIs, PhaseWillBe DEF Unlinked
<1>17. Calls' = [Calls EXCEPT ![p] = Queue!Pushed(TRUE)]
  BY <1>2, <1>16, CallsMove
<1>18. Len(Content) < maxNode
  BY <1>12, <1>14, RoomLeft
<1>19. Calls[p].op = "pushing" /\ Calls[p].item = val[a]
  BY <1>16, CallIs DEF Queue!Pushing
<1>20. Queue!Push(p)
  BY <1>15, <1>17, <1>18, <1>19 DEF Queue!Push, Queue!Becomes
<1>. QED
  BY <1>20, Refines

LEMMA HeadRefines ==
  ASSUME NEW K \in Nat, NEW L \in [0 .. K -> Addr], InvAt(L, K), TypeOK',
         NEW p \in Proc, SwingHead(p)
  PROVE  [Queue!Next]_(Queue!vars)
<1>. TypeOK /\ ListInv(L, K) /\ EndsInv(L, K) /\ DeqInv(L, K, p)
  BY DEF InvAt
<1>0. InvAt(L, K)'
  BY HeadStep
<1>1. /\ pc[p] = "dSwing" /\ val' = val /\ rtn' = rtn
      /\ \A q \in Proc \ {p} : Same(q)
      /\ \/ head = h[p] /\ head' = Ptr(n[p].p, h[p].count + 1) /\ pc'[p] = "dFree"
         \/ head' = head /\ pc'[p] = "dHead"
  BY DEF SwingHead, Goto, TypeOK, Same, local
<1>2. Phase(p) = Queue!Popping(FALSE)
  BY <1>1, PhaseIs DEF Looking
<1>3. CASE head' = head /\ pc'[p] = "dHead"
  <2>1. Phase(p)' = Phase(p)
    BY <1>2, <1>3, PhaseWillBe DEF Looking
  <2>. QED
    BY <2>1, <1>0, <1>1, <1>3, Stutters
<1>4. CASE head = h[p] /\ head' = Ptr(n[p].p, h[p].count + 1) /\ pc'[p] = "dFree"
  <2>1. Phase(p)' = Queue!Popped(rtn[p])
    BY <1>1, <1>4, PhaseWillBe
  <2>2. Calls' = [Calls EXCEPT ![p] = Queue!Popped(rtn[p])]
    BY <1>1, <2>1, CallsMove
  <2>3. Behind(L, K, head, n[p]) /\ rtn[p] = val[n[p].p]
    BY <1>1, <1>4 DEF DeqInv
  <2>a. rtn[p] = val[L[head.count + 1]] /\ head'.count = head.count + 1
    BY <1>4, <2>3 DEF Behind, Ptr
  <2>4. head.count \in Nat /\ head.count < K
    BY <2>3, SharedTypes DEF Behind
  <2>5. AllListFacts /\ AllListFacts'
    BY ListIs, PTL
  <2>6. Content = [j \in 1 .. K - head.count |-> val[L[head.count + j]]]
    BY <2>5 DEF AllListFacts, ListFacts
  <2>7. Content' = [j \in 1 .. K - (head.count + 1) |-> val[L[head.count + 1 + j]]]
    <3>1. Content' = [j \in 1 .. K - head'.count |-> val'[L[head'.count + j]]]
      BY <1>0, <2>5 DEF AllListFacts, ListFacts
    <3>. QED
      BY <3>1, <1>1, <2>a
  <2>8. Content \in Seq(Item) /\ Len(Content) = K - head.count
    <3>1. \A j \in 1 .. K - head.count : head.count + j \in 0 .. K
      BY <2>4
    <3>2. \A j \in 1 .. K - head.count : val[L[head.count + j]] \in Item
      BY <3>1 DEF TypeOK
    <3>3. Content \in [1 .. K - head.count -> Item] /\ K - head.count \in Nat
      BY <3>2, <2>4, <2>6
    <3>. QED
      BY <3>3
  <2>9. Content # <<>> /\ Head(Content) = rtn[p]
    <3>1. 1 \in 1 .. K - head.count
      BY <2>4
    <3>2. Content[1] = rtn[p]
      BY <3>1, <2>a, <2>6
    <3>. QED
      BY <2>4, <2>8, <3>2
  <2>10. Content' = Tail(Content)
    <3>1. Tail(Content) = [j \in 1 .. Len(Content) - 1 |-> Content[j + 1]]
      BY <2>8, <2>9
    <3>2. ASSUME NEW j \in 1 .. K - (head.count + 1)
          PROVE  Content[j + 1] = val[L[head.count + 1 + j]]
      <4>1. j + 1 \in 1 .. K - head.count /\ head.count + (j + 1) = head.count + 1 + j
        BY ONLY <2>4, K \in Nat, j \in 1 .. K - (head.count + 1)
      <4>. QED
        BY <4>1, <2>6
    <3>3. Len(Content) - 1 = K - (head.count + 1)
      BY <2>4, <2>8
    <3>. QED
      BY <3>1, <3>2, <3>3, <2>7
  <2>11. Calls[p].op = "popping"
    BY <1>2, CallIs DEF Queue!Popping
  <2>12. Queue!Pop(p)
    BY <2>2, <2>9, <2>10, <2>11 DEF Queue!Pop, Queue!Becomes
  <2>. QED
    BY <2>12, Refines
<1>. QED
  BY <1>1, <1>3, <1>4

LEMMA OtherRefines ==
  ASSUME ~Reuse, NEW K \in Nat, NEW L \in [0 .. K -> Addr], InvAt(L, K), TypeOK',
         NEW p \in Proc,
         \/ \E x \in Item : CallEnqueue(p, x)
         \/ HelpTail(p) \/ SwingTail(p) \/ Free(p)
         \/ Link(p) /\ pc'[p] # "eSwing"
  PROVE  [Queue!Next]_(Queue!vars)
<1>. TypeOK /\ ListInv(L, K) /\ EndsInv(L, K)
  BY DEF InvAt
<1>a. \A q \in Proc : pc[q] \in Unlinked =>
         w[q] \in Addr /\ w[q] # used /\ \A i \in 0 .. K : w[q] # L[i]
  BY SharedTypes DEF InvAt, EnqInv, TypeOK, Addr
<1>b. \A i \in head.count + 1 .. K : i \in 0 .. K
  BY SharedTypes
<1>1. CASE \E x \in Item : CallEnqueue(p, x)
  <2>1. PICK x \in Item : CallEnqueue(p, x)
    BY <1>1
  <2>2. /\ InvAt(L, K)'
        /\ w' = [w EXCEPT ![p] = used] /\ val' = [val EXCEPT ![used] = x]
    BY <2>1, EnqueueStep
  <2>3. /\ pc[p] = "idle" /\ pc'[p] = "eTail" /\ head' = head
        /\ w'[p] = used /\ used \in Addr
        /\ \A q \in Proc \ {p} : Same(q)
    BY <2>1, <2>2 DEF CallEnqueue, Goto, TypeOK, Same
  <2>4. \A q \in Proc \ {p} : pc[q] \in Unlinked => val'[w[q]] = val[w[q]]
    BY <1>a, <2>2 DEF TypeOK
  <2>5. Content' = Content
    <3>1. \A i \in 0 .. K : L[i] # used /\ L[i] \in Addr
      BY SharedTypes DEF ListInv, Addr
    <3>2. \A i \in head.count + 1 .. K : val'[L[i]] = val[L[i]]
      BY <1>b, <2>2, <3>1 DEF TypeOK
    <3>. QED
      BY <2>2, <2>3, <3>2, ContentKept
  <2>6. Phase(p) = Queue!Idle /\ Phase(p)' = Queue!Pushing(x)
    <3>1. val'[w'[p]] = x
      BY <2>2, <2>3 DEF TypeOK
    <3>. QED
      BY <2>3, <3>1, PhaseIs, PhaseWillBe DEF Unlinked
  <2>7. Calls' = [Calls EXCEPT ![p] = Queue!Pushing(x)]
    BY <2>3, <2>4, <2>6, CallsMove
  <2>8. Queue!Call(p)
    BY <2>5, <2>6, <2>7, CallIs DEF Queue!Call, Queue!Becomes
  <2>. QED
    BY <2>8, Refines
<1>2. CASE HelpTail(p) \/ SwingTail(p)
  <2>1. InvAt(L, K)'
    BY <1>2, TailStep
  <2>2. /\ \/ pc[p] \in Unlinked /\ pc'[p] \in Unlinked
           \/ pc[p] \in Looking /\ pc'[p] \in Looking
           \/ pc[p] = "eSwing" /\ pc'[p] = "enqueued"
        /\ w' = w /\ UNCHANGED <<head, val>>
        /\ \A q \in Proc \ {p} : Same(q)
    BY <1>2 DEF HelpTail, SwingTail, Goto, TypeOK, Same, local, Unlinked, Looking
  <2>3. Phase(p)' = Phase(p)
    BY <2>2, PhaseIs, PhaseWillBe
  <2>. QED
    BY <2>1, <2>2, <2>3, Stutters
<1>3. CASE Free(p)
  <2>1. /\ InvAt(L, K)'
        /\ \A a \in Addr : a # L[h[p].count] => val'[a] = val[a]
        /\ h[p].count \in 0 .. K /\ h[p].count < head.count
    BY <1>3, FreeStep
  <2>2. /\ pc[p] = "dFree" /\ pc'[p] = "dequeued" /\ rtn' = rtn /\ head' = head
        /\ \A q \in Proc \ {p} : Same(q)
    BY <1>3 DEF Free, Goto, TypeOK, Same, local
  <2>3. \A q \in Proc \ {p} : pc[q] \in Unlinked => val'[w[q]] = val[w[q]]
    BY <1>a, <2>1
  <2>4. Content' = Content
    <3>1. ASSUME NEW i \in head.count + 1 .. K
          PROVE  val'[L[i]] = val[L[i]]
      <4>1. i \in 0 .. K /\ i # h[p].count
        BY <1>b, <2>1, SharedTypes
      <4>2. L[i] \in Addr /\ L[i] # L[h[p].count]
        BY <4>1, <2>1 DEF ListInv
      <4>. QED
        BY <4>2, <2>1
    <3>. QED
      BY <2>1, <2>2, <3>1, ContentKept
  <2>5. Phase(p)' = Phase(p)
    BY <2>2, PhaseIs, PhaseWillBe
  <2>6. Calls' = [Calls EXCEPT ![p] = Phase(p)']
    BY <2>2, <2>3, CallsMove
  <2>7. Calls' = Calls
    BY <2>5, <2>6 DEF Calls
  <2>. QED
    BY <2>4, <2>7 DEF Queue!vars
<1>4. CASE Link(p) /\ pc'[p] # "eSwing"
  <2>1. /\ pc[p] = "eLink" /\ pc'[p] = "eTail" /\ w' = w
        /\ UNCHANGED <<head, val>>
        /\ \A q \in Proc \ {p} : Same(q)
    BY <1>4 DEF Link, Goto, TypeOK, Same, local
  <2>2. InvAt(L, K)'
    BY <1>4, FailedLinkStep
  <2>3. Phase(p)' = Phase(p)
    BY <2>1, PhaseIs, PhaseWillBe DEF Unlinked
  <2>. QED
    BY <2>1, <2>2, <2>3, Stutters
<1>. QED
  BY <1>1, <1>2, <1>3, <1>4

LEMMA QueueInit == Init => Queue!Init
<1>. SUFFICES ASSUME Init PROVE Queue!Init
  OBVIOUS
<1>1. Calls = [p \in Proc |-> Queue!Idle]
  BY DEF Calls, Phase, Init, Queue!Idle
<1>2. Follow = [a \in Addr |-> <<a>>]
  <2>. DEFINE g == [a \in Addr |-> <<a>>]
  <2>1. \A a \in Addr : next[a].p = Null
    BY DEF Init, ptr0, Ptr
  <2>2. g = [a \in Addr |-> IF next[a].p = Null THEN <<a>> ELSE <<a>> \o g[next[a].p]]
    BY <2>1
  <2>. HIDE DEF g
  <2>3. Follow = [a \in Addr |-> IF next[a].p = Null THEN <<a>> ELSE <<a>> \o Follow[next[a].p]]
    BY <2>2 DEF Follow
  <2>. QED
    BY <2>1, <2>3
<1>3. head.p \in Addr
  BY DEF Init, Ptr, Addr
<1>4. Len(Follow[head.p]) - 1 = 0
  BY <1>2, <1>3
<1>5. Content = <<>>
  <2>1. \A m : m = 0 => 1 .. m = {}
    OBVIOUS
  <2>2. 1 .. Len(Follow[head.p]) - 1 = {}
    BY <1>4, <2>1
  <2>3. Content = [i \in {} |-> val[Follow[head.p][i + 1]]]
    BY <2>2 DEF Content
  <2>. QED
    BY <2>3
<1>. QED
  BY <1>1, <1>5 DEF Queue!Init

LEMMA QueueStep ==
  ASSUME ~Reuse, IInv, [Next]_vars
  PROVE  [Queue!Next]_(Queue!vars)
<1>1. PICK K \in Nat : \E L \in [0 .. K -> Addr] : InvAt(L, K)
  BY DEF IInv
<1>2. PICK L \in [0 .. K -> Addr] : InvAt(L, K)
  BY <1>1
<1>3. TypeOK'
  BY <1>2, TypeStep
<1>4. CASE UNCHANGED vars
  <2>1. Calls' = Calls
    BY <1>4 DEF Calls, Phase, vars, shared, local
  <2>2. Content' = Content
    BY <1>4 DEF Content, Follow, vars, shared
  <2>. QED
    BY <2>1, <2>2 DEF Queue!vars
<1>5. CASE \E p \in Proc : Linking(p)
  BY <1>2, <1>3, <1>5, LinkRefines
<1>6. CASE \E p \in Proc : Link(p) /\ pc'[p] # "eSwing"
  BY <1>2, <1>3, <1>6, OtherRefines
<1>. QED
  BY <1>2, <1>3, <1>4, <1>5, <1>6, LocalRefines, HeadRefines, OtherRefines
     DEF Next, Step, Linking

\* enqueue takes effect with its compare_exchange on next and dequeue with the
\* one on head, or, when it reports an empty queue, with its load of next:
\* with fresh addresses the linked queue is a FIFO queue, whatever the threads,
\* the items and the interleaving.
THEOREM Refinement ==
  ASSUME ~Reuse
  PROVE  Spec => ImplementsFifo
BY QueueInit, QueueStep, Invariant, PTL DEF Spec, ImplementsFifo, Queue!Spec

-----------------------------------------------------------------------------
(***************************************************************************)
(* The ring of blocking_queue.h, with room for maxNode items.  The mutex   *)
(* that nobody holds has a value that is not a thread.                     *)
(***************************************************************************)
VARIABLES ringHead, ringTail, items, q_mutex, ringPc, item

NoThread == CHOOSE x : x \notin Proc

Ring == INSTANCE BlockingQueue WITH
  maxqsize <- maxNode, NoProc <- NoThread,
  head <- ringHead, tail <- ringTail, pc <- ringPc

LEMMA RingAssumption == maxNode \in Nat \ {0} /\ NoThread \notin Proc
BY NoSetContainsEverything DEF NoThread

USE RingAssumption

\* The labels between lock and unlock, and all labels.
RingLocked == {"pushTest", "pushFull", "pushStore", "pushed",
               "popTest", "popEmpty", "popRead", "popped"}
RingLabel == RingLocked \cup {"idle", "push", "pop"}

RingTypeOK ==
  /\ ringHead \in Ring!Cell
  /\ ringTail \in Ring!Cell
  /\ items \in [Ring!Cell -> Item]
  /\ q_mutex \in Proc \cup {NoThread}
  /\ ringPc \in [Proc -> RingLabel]
  /\ item \in [Proc -> Item]

\* Between lock and unlock a thread holds the mutex, and only then.
RingMutexHeld == \A p \in Proc : ringPc[p] \in RingLocked <=> q_mutex = p

\* A thread about to store has made room, one about to read has taken room:
\* the ring is then neither empty nor full.
RingRoomMade ==
  /\ Ring!Writing => ringHead # ringTail
  /\ Ring!Reading => Ring!After(ringTail) # ringHead

RingInv == RingTypeOK /\ RingMutexHeld /\ RingRoomMade

-----------------------------------------------------------------------------
(***************************************************************************)
(* The ring.                                                               *)
(***************************************************************************)
\* The cells from head (not included) to tail.
RingDistance ==
  IF ringTail >= ringHead THEN ringTail - ringHead
  ELSE ringTail - ringHead + Ring!qsize

\* The item a pop has still to read, less the one a push has still to store.
RingHalfDone == (IF Ring!Reading THEN 1 ELSE 0) - (IF Ring!Writing THEN 1 ELSE 0)

USE DEF RingHalfDone

\* i taken back into the ring once.
RingWrap(i) == IF i < Ring!qsize THEN i ELSE i - Ring!qsize

LEMMA RingSize == Ring!qsize \in Nat /\ Ring!qsize >= 2 /\ Ring!qsize = maxNode + 1
  BY DEF Ring!qsize

LEMMA RingModWrap ==
  ASSUME NEW m \in Nat, m > 0, NEW a \in Int, -m <= a, a < 2 * m
  PROVE  a % m = IF a < 0 THEN a + m ELSE IF a < m THEN a ELSE a - m
<1>1. CASE a < 0
  BY <1>1
<1>2. CASE 0 <= a /\ a < m
  BY <1>2
<1>3. CASE m <= a
  BY <1>3
<1>. QED
  BY <1>1, <1>2, <1>3

LEMMA RingWrapIs ==
  ASSUME NEW a \in Int, 0 <= a, a < 2 * Ring!qsize
  PROVE  a % Ring!qsize = RingWrap(a)
<1>1. a % Ring!qsize = IF a < 0 THEN a + Ring!qsize ELSE IF a < Ring!qsize THEN a
      ELSE a - Ring!qsize
  BY RingSize, RingModWrap
<1>. QED
  BY <1>1 DEF RingWrap

LEMMA RingAfterIs ==
  ASSUME NEW c \in Ring!Cell
  PROVE  Ring!After(c) = RingWrap(c + 1) /\ Ring!After(c) \in Ring!Cell
<1>1. c \in Int /\ 0 <= c /\ c < Ring!qsize
  BY RingSize DEF Ring!Cell
<1>2. (c + 1) % Ring!qsize = RingWrap(c + 1)
  BY <1>1, RingSize, RingWrapIs
<1>. QED
  BY <1>1, <1>2, RingSize DEF Ring!After, RingWrap, Ring!Cell

\* The distance is what the code would compute modulo the size of the ring.
LEMMA RingDistanceIs ==
  ASSUME ringHead \in Ring!Cell, ringTail \in Ring!Cell
  PROVE  /\ (ringTail - ringHead) % Ring!qsize = RingDistance
         /\ RingDistance \in 0 .. maxNode
         /\ ringHead = ringTail <=> RingDistance = 0
         /\ Ring!After(ringTail) = ringHead <=> RingDistance = maxNode
<1>1. /\ ringHead \in Int /\ ringTail \in Int
      /\ 0 <= ringHead /\ ringHead < Ring!qsize /\ 0 <= ringTail /\ ringTail < Ring!qsize
  BY RingSize DEF Ring!Cell
<1>2. (ringTail - ringHead) % Ring!qsize =
        IF ringTail - ringHead < 0 THEN ringTail - ringHead + Ring!qsize
        ELSE ringTail - ringHead
  BY ONLY <1>1, RingSize, RingModWrap, ringTail - ringHead \in Int
<1>. QED
  BY <1>1, <1>2, RingSize, RingAfterIs DEF RingDistance, RingWrap

\* The place of the i-th item.
RingPlace(i) == RingWrap(Ring!First + i - 1)

LEMMA RingFirstIs ==
  ASSUME RingTypeOK
  PROVE  Ring!First = (IF Ring!Reading THEN ringHead ELSE RingWrap(ringHead + 1))
         /\ Ring!First \in Ring!Cell
  BY RingAfterIs DEF Ring!First, RingTypeOK

\* How many items the ring holds, and where.
LEMMA RingLengthIs ==
  ASSUME RingTypeOK, RingRoomMade, ~(Ring!Writing /\ Ring!Reading)
  PROVE  /\ Ring!Length = RingDistance + RingHalfDone
         /\ Ring!Length \in 0 .. maxNode
<1>1. /\ (ringTail - ringHead) % Ring!qsize = RingDistance
      /\ RingDistance \in 0 .. maxNode
      /\ ringHead = ringTail <=> RingDistance = 0
      /\ Ring!After(ringTail) = ringHead <=> RingDistance = maxNode
  BY RingDistanceIs DEF RingTypeOK
<1>2. (Ring!Writing => RingDistance # 0) /\ (Ring!Reading => RingDistance # maxNode)
  BY <1>1 DEF RingRoomMade
<1>3. Ring!Length = RingDistance + RingHalfDone
  BY <1>1 DEF Ring!Length
<1>. HIDE DEF Ring!Writing, Ring!Reading, Ring!Length, RingDistance
<1>. QED
  BY <1>1, <1>2, <1>3

LEMMA RingContentIs ==
  ASSUME RingTypeOK, RingRoomMade, ~(Ring!Writing /\ Ring!Reading)
  PROVE  /\ Ring!Content \in Seq(Item)
         /\ Len(Ring!Content) = Ring!Length
         /\ Ring!Length \in 0 .. maxNode
         /\ \A i \in 1 .. Ring!Length : Ring!Content[i] = items[RingPlace(i)]
            /\ RingPlace(i) \in Ring!Cell
<1>1. Ring!Length \in 0 .. maxNode /\ Ring!First \in Ring!Cell
  BY RingLengthIs, RingFirstIs
<1>2. \A i \in 1 .. Ring!Length : (Ring!First + i - 1) % Ring!qsize = RingPlace(i)
      /\ RingPlace(i) \in Ring!Cell
  <2>. SUFFICES ASSUME NEW i \in 1 .. Ring!Length
                PROVE  (Ring!First + i - 1) % Ring!qsize = RingPlace(i)
                       /\ RingPlace(i) \in Ring!Cell
    OBVIOUS
  <2>1. Ring!First + i - 1 \in Int /\ 0 <= Ring!First + i - 1
        /\ Ring!First + i - 1 < 2 * Ring!qsize
    BY <1>1, RingSize DEF Ring!Cell
  <2>2. (Ring!First + i - 1) % Ring!qsize = RingWrap(Ring!First + i - 1)
    BY ONLY <2>1, RingWrapIs
  <2>3. RingWrap(Ring!First + i - 1) \in Ring!Cell
    BY ONLY <2>1, RingSize DEF RingWrap, Ring!Cell
  <2>. QED
    BY ONLY <2>2, <2>3 DEF RingPlace
<1>3. \A i \in 1 .. Ring!Length : items[RingPlace(i)] \in Item
  BY <1>2 DEF RingTypeOK
<1>4. \A i \in 1 .. Ring!Length : items[(Ring!First + i - 1) % Ring!qsize] = items[RingPlace(i)]
  BY <1>2
<1>5. Ring!Content = [i \in 1 .. Ring!Length |-> items[RingPlace(i)]]
  BY <1>4 DEF Ring!Content
<1>. HIDE DEF Ring!Length, RingPlace
<1>6. Ring!Content \in [1 .. Ring!Length -> Item] /\ Ring!Length \in Nat
  BY <1>1, <1>3, <1>5
<1>7. Ring!Content \in Seq(Item) /\ Len(Ring!Content) = Ring!Length
  BY <1>6, SeqDef, LenProperties
<1>. QED
  BY <1>1, <1>2, <1>5, <1>7

-----------------------------------------------------------------------------
(***************************************************************************)
(* The invariant.                                                          *)
(***************************************************************************)
\* The holder of the mutex decides whether somebody is writing or reading;
\* when nobody holds it, nobody is.
RingFlagsOK ==
  /\ \A p \in Proc : ringPc[p] \in RingLocked =>
       /\ Ring!Writing <=> ringPc[p] = "pushStore"
       /\ Ring!Reading <=> ringPc[p] = "popRead"
  /\ q_mutex = NoThread => ~Ring!Writing /\ ~Ring!Reading
  /\ ~(Ring!Writing /\ Ring!Reading)

LEMMA RingFlags == RingInv => RingFlagsOK
<1>. SUFFICES ASSUME RingInv PROVE RingFlagsOK
  OBVIOUS
<1>1. \A p, r \in Proc : ringPc[p] \in RingLocked /\ ringPc[r] \in RingLocked => p = r
  BY DEF RingInv, RingMutexHeld
<1>2. "pushStore" \in RingLocked /\ "popRead" \in RingLocked
  BY DEF RingLocked
<1>3. ASSUME NEW p \in Proc, ringPc[p] \in RingLocked
      PROVE  /\ Ring!Writing <=> ringPc[p] = "pushStore"
             /\ Ring!Reading <=> ringPc[p] = "popRead"
  <2>1. Ring!Writing <=> ringPc[p] = "pushStore"
    BY <1>1, <1>2, <1>3 DEF Ring!Writing
  <2>2. Ring!Reading <=> ringPc[p] = "popRead"
    BY <1>1, <1>2, <1>3 DEF Ring!Reading
  <2>. QED
    BY <2>1, <2>2
<1>4. q_mutex = NoThread => ~Ring!Writing /\ ~Ring!Reading
  BY <1>2 DEF RingInv, RingMutexHeld, Ring!Writing, Ring!Reading
<1>5. ~(Ring!Writing /\ Ring!Reading)
  BY <1>1, <1>2 DEF Ring!Writing, Ring!Reading
<1>. QED
  BY <1>3, <1>4, <1>5 DEF RingFlagsOK

LEMMA RingInvInit == Ring!Init => RingInv
<1>. SUFFICES ASSUME Ring!Init PROVE RingInv
  OBVIOUS
<1>1. PICK x \in Item : items = [c \in Ring!Cell |-> x]
  BY DEF Ring!Init
<1>2. 0 \in Ring!Cell
  BY RingSize DEF Ring!Cell
<1>3. items \in [Ring!Cell -> Item] /\ items[0] \in Item
  BY <1>1, <1>2
<1>4. item \in [Proc -> Item] /\ ringPc \in [Proc -> RingLabel]
  BY <1>3 DEF Ring!Init, RingLabel
<1>5. RingTypeOK
  BY <1>2, <1>3, <1>4 DEF Ring!Init, RingTypeOK
<1>6. RingMutexHeld
  BY DEF Ring!Init, RingMutexHeld, RingLocked
<1>7. RingRoomMade
  BY DEF Ring!Init, RingRoomMade, Ring!Writing, Ring!Reading
<1>. QED
  BY <1>5, <1>6, <1>7 DEF RingInv

\* Where the statements of push and pop lead.
LEMMA RingGotoIs ==
  ASSUME RingTypeOK, NEW p \in Proc, NEW from, NEW to \in RingLabel, Ring!Goto(p, from, to)
  PROVE  /\ ringPc[p] = from
         /\ ringPc' \in [Proc -> RingLabel]
         /\ \A r \in Proc : ringPc'[r] = IF r = p THEN to ELSE ringPc[r]
  BY DEF RingTypeOK, Ring!Goto

\* A step of the holder that keeps the mutex, or leads to its release.
LEMMA RingHolderMoves ==
  ASSUME RingInv, NEW p \in Proc, NEW from \in RingLocked, NEW to \in RingLocked,
         Ring!Goto(p, from, to), q_mutex' = q_mutex
  PROVE  /\ ringPc' \in [Proc -> RingLabel]
         /\ RingMutexHeld'
         /\ Ring!Writing' <=> to = "pushStore"
         /\ Ring!Reading' <=> to = "popRead"
<1>1. /\ ringPc[p] = from
      /\ ringPc' \in [Proc -> RingLabel]
      /\ \A r \in Proc : ringPc'[r] = IF r = p THEN to ELSE ringPc[r]
  BY RingGotoIs DEF RingInv, RingLabel
<1>2. q_mutex = p /\ \A r \in Proc : ringPc[r] \in RingLocked => r = p
  BY <1>1 DEF RingInv, RingMutexHeld
<1>3. RingMutexHeld'
  BY <1>1, <1>2 DEF RingMutexHeld
<1>4. "pushStore" \in RingLocked /\ "popRead" \in RingLocked
  BY DEF RingLocked
<1>5. Ring!Writing' <=> to = "pushStore"
  BY <1>1, <1>2, <1>4 DEF Ring!Writing
<1>6. Ring!Reading' <=> to = "popRead"
  BY <1>1, <1>2, <1>4 DEF Ring!Reading
<1>. QED
  BY <1>1, <1>3, <1>5, <1>6

\* A step of a thread that does not hold the mutex and does not take it.
LEMMA RingOutsiderMoves ==
  ASSUME RingInv, NEW p \in Proc, NEW from \in RingLabel \ RingLocked,
         NEW to \in RingLabel \ RingLocked,
         Ring!Goto(p, from, to), q_mutex' = q_mutex
  PROVE  /\ ringPc' \in [Proc -> RingLabel]
         /\ RingMutexHeld'
         /\ Ring!Writing' <=> Ring!Writing
         /\ Ring!Reading' <=> Ring!Reading
<1>1. /\ ringPc[p] = from
      /\ ringPc' \in [Proc -> RingLabel]
      /\ \A r \in Proc : ringPc'[r] = IF r = p THEN to ELSE ringPc[r]
  BY RingGotoIs DEF RingInv
<1>2. RingMutexHeld'
  BY <1>1 DEF RingMutexHeld, RingInv
<1>3. from \notin {"pushStore", "popRead"} /\ to \notin {"pushStore", "popRead"}
  BY DEF RingLocked
<1>. QED
  BY <1>1, <1>2, <1>3 DEF Ring!Writing, Ring!Reading

\* Two cells have different successors.
LEMMA RingAfterInjective ==
  ASSUME NEW c \in Ring!Cell, NEW d \in Ring!Cell, c # d
  PROVE  Ring!After(c) # Ring!After(d)
<1>1. c \in Int /\ d \in Int /\ 0 <= c /\ c < Ring!qsize /\ 0 <= d /\ d < Ring!qsize
  BY RingSize DEF Ring!Cell
<1>2. Ring!After(c) = RingWrap(c + 1) /\ Ring!After(d) = RingWrap(d + 1)
  BY RingAfterIs
<1>. QED
  BY <1>1, <1>2, RingSize DEF RingWrap

LEMMA RingInvStep == RingInv /\ [Ring!Next]_(Ring!vars) => RingInv'
<1>. SUFFICES ASSUME RingInv, [Ring!Next]_(Ring!vars) PROVE RingInv'
  OBVIOUS
<1>. USE DEF RingInv
<1>1. CASE UNCHANGED Ring!vars
  BY <1>1 DEF Ring!vars, Ring!ringVars, RingTypeOK, RingMutexHeld, RingRoomMade,
     Ring!Writing, Ring!Reading
<1>2. ASSUME NEW p \in Proc, NEW x \in Item, Ring!CallPush(p, x)
      PROVE  RingInv'
  <2>1. Ring!Goto(p, "idle", "push") /\ UNCHANGED <<ringHead, ringTail, items, q_mutex>>
    BY <1>2 DEF Ring!CallPush, Ring!ringVars
  <2>2. "idle" \in RingLabel \ RingLocked /\ "push" \in RingLabel \ RingLocked
    BY DEF RingLabel, RingLocked
  <2>3. /\ ringPc' \in [Proc -> RingLabel] /\ RingMutexHeld'
        /\ Ring!Writing' <=> Ring!Writing
        /\ Ring!Reading' <=> Ring!Reading
    BY <2>1, <2>2, RingOutsiderMoves
  <2>4. item' \in [Proc -> Item]
    BY <1>2 DEF Ring!CallPush, RingTypeOK
  <2>5. RingTypeOK'
    BY <2>1, <2>3, <2>4 DEF RingTypeOK, Ring!Cell, Ring!qsize
  <2>6. RingRoomMade'
    BY <2>1, <2>3 DEF RingRoomMade, Ring!After, Ring!qsize
  <2>. QED
    BY <2>3, <2>5, <2>6
<1>3. ASSUME NEW p \in Proc, Ring!CallPop(p)
      PROVE  RingInv'
  <2>1. Ring!Goto(p, "idle", "pop")
        /\ UNCHANGED <<ringHead, ringTail, items, q_mutex, item>>
    BY <1>3 DEF Ring!CallPop, Ring!ringVars
  <2>2. "idle" \in RingLabel \ RingLocked /\ "pop" \in RingLabel \ RingLocked
    BY DEF RingLabel, RingLocked
  <2>3. /\ ringPc' \in [Proc -> RingLabel] /\ RingMutexHeld'
        /\ Ring!Writing' <=> Ring!Writing
        /\ Ring!Reading' <=> Ring!Reading
    BY <2>1, <2>2, RingOutsiderMoves
  <2>4. RingTypeOK'
    BY <2>1, <2>3 DEF RingTypeOK, Ring!Cell, Ring!qsize
  <2>5. RingRoomMade'
    BY <2>1, <2>3 DEF RingRoomMade, Ring!After, Ring!qsize
  <2>. QED
    BY <2>3, <2>4, <2>5
<1>4. ASSUME NEW p \in Proc, Ring!Lock(p)
      PROVE  RingInv'
  <2>1. PICK l \in {"pushTest", "popTest"} :
          /\ ringPc[p] \in {"push", "pop"}
          /\ ringPc' = [ringPc EXCEPT ![p] = l]
    BY <1>4 DEF Ring!Lock, Ring!Goto
  <2>2. ringPc' \in [Proc -> RingLabel]
        /\ \A r \in Proc : ringPc'[r] = IF r = p THEN l ELSE ringPc[r]
    BY <2>1 DEF RingTypeOK, RingLabel, RingLocked
  <2>3. q_mutex = NoThread /\ q_mutex' = p
    BY <1>4 DEF Ring!Lock, Ring!Acquire
  <2>4. \A r \in Proc : ringPc[r] \notin RingLocked
    BY <2>3 DEF RingMutexHeld
  <2>5. RingMutexHeld'
    BY <2>1, <2>2, <2>3, <2>4 DEF RingMutexHeld, RingLocked
  <2>6. ~Ring!Writing' /\ ~Ring!Reading'
    BY <2>1, <2>2, <2>4 DEF Ring!Writing, Ring!Reading, RingLocked
  <2>. QED
    BY <1>4, <2>2, <2>3, <2>5, <2>6 DEF Ring!Lock, Ring!ringVars, RingTypeOK, RingRoomMade
<1>5. ASSUME NEW p \in Proc, Ring!PushTest(p)
      PROVE  RingInv'
  <2>1. PICK l \in {"pushFull", "pushStore"} :
          /\ Ring!Goto(p, "pushTest", l)
          /\ l = "pushStore" => Ring!After(ringTail) # ringHead
             /\ ringTail' = Ring!After(ringTail)
          /\ l = "pushFull" => ringTail' = ringTail
    BY <1>5 DEF Ring!PushTest
  <2>2. /\ ringPc' \in [Proc -> RingLabel] /\ RingMutexHeld'
        /\ Ring!Writing' <=> l = "pushStore"
        /\ Ring!Reading' <=> l = "popRead"
    BY <1>5, <2>1, RingHolderMoves DEF Ring!PushTest, RingLocked
  <2>3. ringTail' \in Ring!Cell /\ ringHead' = ringHead
    BY <1>5, <2>1, RingAfterIs DEF Ring!PushTest, RingTypeOK
  <2>. QED
    BY <1>5, <2>1, <2>2, <2>3
       DEF Ring!PushTest, RingTypeOK, RingRoomMade, Ring!Cell, Ring!qsize
<1>6. ASSUME NEW p \in Proc, Ring!PushStore(p)
      PROVE  RingInv'
  <2>1. ringPc' \in [Proc -> RingLabel] /\ RingMutexHeld' /\ ~Ring!Writing'
        /\ ~Ring!Reading'
    BY <1>6, RingHolderMoves DEF Ring!PushStore, RingLocked
  <2>2. items' \in [Ring!Cell -> Item]
    BY <1>6 DEF Ring!PushStore, RingTypeOK
  <2>. QED
    BY <1>6, <2>1, <2>2 DEF Ring!PushStore, RingTypeOK, RingRoomMade
<1>7. ASSUME NEW p \in Proc, Ring!PopTest(p)
      PROVE  RingInv'
  <2>1. PICK l \in {"popEmpty", "popRead"} :
          /\ Ring!Goto(p, "popTest", l)
          /\ l = "popRead" => ringHead # ringTail /\ ringHead' = Ring!After(ringHead)
          /\ l = "popEmpty" => ringHead' = ringHead
    BY <1>7 DEF Ring!PopTest
  <2>2. /\ ringPc' \in [Proc -> RingLabel] /\ RingMutexHeld'
        /\ Ring!Writing' <=> l = "pushStore"
        /\ Ring!Reading' <=> l = "popRead"
    BY <1>7, <2>1, RingHolderMoves DEF Ring!PopTest, RingLocked
  <2>3. ringHead' \in Ring!Cell /\ ringTail' = ringTail
    BY <1>7, <2>1, RingAfterIs DEF Ring!PopTest, RingTypeOK
  <2>4. Ring!Reading' => Ring!After(ringTail) # ringHead'
    BY <2>1, <2>2, RingAfterInjective DEF RingTypeOK
  <2>5. RingRoomMade'
    BY <2>1, <2>2, <2>3, <2>4 DEF RingRoomMade, Ring!After, Ring!qsize
  <2>. QED
    BY <1>7, <2>2, <2>3, <2>5 DEF Ring!PopTest, RingTypeOK, Ring!Cell, Ring!qsize
<1>8. ASSUME NEW p \in Proc, Ring!PopRead(p)
      PROVE  RingInv'
  <2>1. ringPc' \in [Proc -> RingLabel] /\ RingMutexHeld' /\ ~Ring!Writing'
        /\ ~Ring!Reading'
    BY <1>8, RingHolderMoves DEF Ring!PopRead, RingLocked
  <2>2. item' \in [Proc -> Item]
    BY <1>8 DEF Ring!PopRead, RingTypeOK
  <2>. QED
    BY <1>8, <2>1, <2>2 DEF Ring!PopRead, Ring!ringVars, RingTypeOK, RingRoomMade
<1>9. ASSUME NEW p \in Proc, Ring!Unlock(p)
      PROVE  RingInv'
  <2>1. /\ ringPc[p] \in {"pushFull", "pushed", "popEmpty", "popped"}
        /\ ringPc' = [ringPc EXCEPT ![p] = "idle"]
    BY <1>9 DEF Ring!Unlock, Ring!Goto
  <2>2. ringPc' \in [Proc -> RingLabel]
        /\ \A r \in Proc : ringPc'[r] = IF r = p THEN "idle" ELSE ringPc[r]
    BY <2>1 DEF RingTypeOK, RingLabel, RingLocked
  <2>3. q_mutex' = NoThread
    BY <1>9 DEF Ring!Unlock
  <2>4. \A r \in Proc : ringPc[r] \in RingLocked => r = p
    BY <2>1 DEF RingMutexHeld, RingLocked
  <2>5. RingMutexHeld'
    BY <2>2, <2>3, <2>4 DEF RingMutexHeld, RingLocked
  <2>6. ~Ring!Writing' /\ ~Ring!Reading'
    BY <2>2, <2>4 DEF Ring!Writing, Ring!Reading, RingLocked
  <2>. QED
    BY <1>9, <2>2, <2>3, <2>5, <2>6 DEF Ring!Unlock, Ring!ringVars, RingTypeOK, RingRoomMade
<1>. QED
  BY <1>1, <1>2, <1>3, <1>4, <1>5, <1>6, <1>7, <1>8, <1>9 DEF Ring!Next, Ring!Step

\* Mutual exclusion (blocking_queue.h:33-43, 47-58), the types, and the two
\* facts about a half-done push or pop the refinement rests on.
THEOREM RingInvariant == Ring!Spec => []RingInv
BY RingInvInit, RingInvStep, PTL DEF Ring!Spec

-----------------------------------------------------------------------------
(***************************************************************************)
(* The ring holds a FIFO queue.                                            *)
(***************************************************************************)
RingContentOK ==
  /\ ringHead \in Ring!Cell /\ ringTail \in Ring!Cell
  /\ Ring!First = (IF Ring!Reading THEN ringHead ELSE RingWrap(ringHead + 1))
     /\ Ring!First \in Ring!Cell
  /\ RingDistance \in 0 .. maxNode
  /\ ringHead = ringTail <=> RingDistance = 0
  /\ Ring!After(ringTail) = ringHead <=> RingDistance = maxNode
  /\ Ring!Length = RingDistance + RingHalfDone
  /\ Ring!Length \in 0 .. maxNode
  /\ Ring!Content \in Seq(Item)
  /\ Len(Ring!Content) = Ring!Length
  /\ \A i \in 1 .. Ring!Length : Ring!Content[i] = items[RingPlace(i)]
     /\ RingPlace(i) \in Ring!Cell

LEMMA RingContentFacts == RingInv => RingContentOK
<1>. SUFFICES ASSUME RingInv PROVE RingContentOK
  OBVIOUS
<1>1. RingTypeOK /\ RingRoomMade /\ ~(Ring!Writing /\ Ring!Reading)
  BY RingFlags DEF RingInv, RingFlagsOK
<1>2. ringHead \in Ring!Cell /\ ringTail \in Ring!Cell
  BY <1>1 DEF RingTypeOK
<1>. QED
  BY ONLY <1>1, <1>2, RingFirstIs, RingDistanceIs, RingLengthIs, RingContentIs
     DEF RingContentOK

\* When neither the cells nor the bounds move, the queue is what it was.
LEMMA RingContentKept ==
  ASSUME items' = items, Ring!First' = Ring!First, Ring!Length' = Ring!Length
  PROVE  Ring!Content' = Ring!Content
  BY DEF Ring!Content, Ring!qsize

LEMMA RingKept ==
  ASSUME UNCHANGED Ring!ringVars, Ring!Writing' <=> Ring!Writing,
         Ring!Reading' <=> Ring!Reading
  PROVE  Ring!Content' = Ring!Content
<1>1. Ring!First' = Ring!First
  BY DEF Ring!First, Ring!ringVars, Ring!After, Ring!qsize
<1>2. Ring!Length' = Ring!Length
  BY DEF Ring!Length, Ring!ringVars, Ring!qsize
<1>. QED
  BY <1>1, <1>2, RingContentKept DEF Ring!ringVars

\* push makes room: nothing is in the queue yet (blocking_queue.h:38).
LEMMA RingRoomForOne ==
  ASSUME RingInv, RingInv', NEW p \in Proc, ringPc[p] = "pushTest",
         ringPc'[p] = "pushStore",
         Ring!After(ringTail) # ringHead, ringTail' = Ring!After(ringTail),
         UNCHANGED <<ringHead, items>>
  PROVE  Ring!Content' = Ring!Content
<1>1. ~Ring!Writing /\ ~Ring!Reading /\ Ring!Writing' /\ ~Ring!Reading'
  <2>1. RingFlagsOK /\ RingFlagsOK'
    BY RingFlags, PTL
  <2>. QED
    BY <2>1 DEF RingFlagsOK, RingLocked
<1>2. RingContentOK /\ RingContentOK'
  BY RingContentFacts, PTL
<1>3. Ring!First' = Ring!First
  BY <1>1 DEF Ring!First, Ring!After, Ring!qsize
<1>4. ringHead \in Int /\ ringTail \in Int /\ 0 <= ringHead /\ ringHead < Ring!qsize
      /\ 0 <= ringTail /\ ringTail < Ring!qsize
  BY <1>2, RingSize DEF RingContentOK, Ring!Cell
<1>5. ringTail' = RingWrap(ringTail + 1)
  BY <1>2, RingAfterIs DEF RingContentOK
<1>6. RingDistance' = RingDistance + 1
  BY <1>4, <1>5, RingSize DEF RingDistance, RingWrap, Ring!qsize
<1>7. Ring!Length = RingDistance /\ Ring!Length' = RingDistance' - 1 /\ RingDistance \in Int
  BY <1>1, <1>2 DEF RingContentOK
<1>. QED
  BY <1>3, <1>6, <1>7, RingContentKept

\* push stores the item: the queue grows at its end (blocking_queue.h:39).
LEMMA RingStored ==
  ASSUME RingInv, RingInv', NEW p \in Proc, ringPc[p] = "pushStore", ringPc'[p] = "pushed",
         items' = [items EXCEPT ![ringTail] = item[p]], UNCHANGED <<ringHead, ringTail>>
  PROVE  /\ Len(Ring!Content) < maxNode
         /\ Ring!Content' = Append(Ring!Content, item[p])
<1>1. Ring!Writing /\ ~Ring!Reading /\ ~Ring!Writing' /\ ~Ring!Reading'
  <2>1. RingFlagsOK /\ RingFlagsOK'
    BY RingFlags, PTL
  <2>. QED
    BY <2>1 DEF RingFlagsOK, RingLocked
<1>2. RingContentOK /\ RingContentOK'
  BY RingContentFacts, PTL
<1>3. Ring!First' = Ring!First /\ RingDistance' = RingDistance
  BY <1>1 DEF Ring!First, RingDistance, Ring!After, Ring!qsize
<1>4. /\ Ring!Length = RingDistance - 1 /\ Ring!Length' = RingDistance
      /\ Ring!Length \in 0 .. maxNode /\ RingDistance \in 0 .. maxNode
  BY <1>1, <1>2, <1>3 DEF RingContentOK
<1>5. \A i : RingPlace(i)' = RingPlace(i)
  BY <1>3 DEF RingPlace, RingWrap, Ring!qsize
<1>6. RingPlace(RingDistance) = ringTail
      /\ \A i \in 1 .. Ring!Length : RingPlace(i) # ringTail
  <2>1. ringHead \in Int /\ ringTail \in Int /\ 0 <= ringHead /\ ringHead < Ring!qsize
        /\ 0 <= ringTail /\ ringTail < Ring!qsize
    BY <1>2, RingSize DEF RingContentOK, Ring!Cell
  <2>2. Ring!First = RingWrap(ringHead + 1)
    BY <1>1, <1>2 DEF RingContentOK
  <2>3. RingPlace(RingDistance) = ringTail
    BY <1>4, <2>1, <2>2, RingSize DEF RingPlace, RingWrap, RingDistance
  <2>4. ASSUME NEW i \in 1 .. Ring!Length
        PROVE  RingPlace(i) # ringTail
    BY <1>4, <2>1, <2>2, RingSize DEF RingPlace, RingWrap, RingDistance
  <2>. QED
    BY <2>3, <2>4
<1>7. Len(Ring!Content) < maxNode
  BY <1>2, <1>4 DEF RingContentOK
<1>8. item[p] \in Item /\ items \in [Ring!Cell -> Item] /\ ringTail \in Ring!Cell
  BY DEF RingInv, RingTypeOK
<1>9. /\ Append(Ring!Content, item[p]) \in Seq(Item)
      /\ Len(Append(Ring!Content, item[p])) = Ring!Length + 1
      /\ \A i \in 1 .. Ring!Length : Append(Ring!Content, item[p])[i] = Ring!Content[i]
      /\ Append(Ring!Content, item[p])[Ring!Length + 1] = item[p]
  BY <1>2, <1>8, AppendProperties DEF RingContentOK
<1>10. ASSUME NEW i \in 1 .. Ring!Length'
       PROVE  Ring!Content'[i] = Append(Ring!Content, item[p])[i]
  <2>1. Ring!Content'[i] = items'[RingPlace(i)] /\ RingPlace(i) \in Ring!Cell
    BY <1>2, <1>5 DEF RingContentOK, Ring!Cell, Ring!qsize
  <2>2. CASE i \in 1 .. Ring!Length
    <3>1. items'[RingPlace(i)] = items[RingPlace(i)]
      BY <1>6, <1>8, <2>1, <2>2
    <3>2. Ring!Content[i] = items[RingPlace(i)]
      BY <1>2, <2>2 DEF RingContentOK
    <3>3. Append(Ring!Content, item[p])[i] = Ring!Content[i]
      BY <1>9, <2>2
    <3>. QED
      BY ONLY <2>1, <3>1, <3>2, <3>3
  <2>3. CASE i = Ring!Length + 1
    <3>1. RingPlace(i) = ringTail
      BY <1>4, <1>6, <2>3
    <3>2. items'[ringTail] = item[p]
      BY <1>8
    <3>. QED
      BY ONLY <1>9, <2>1, <2>3, <3>1, <3>2
  <2>4. i \in 1 .. Ring!Length \/ i = Ring!Length + 1
    BY ONLY <1>4, RingAssumption, i \in 1 .. Ring!Length'
  <2>. QED
    BY ONLY <2>2, <2>3, <2>4
<1>11. Ring!Content' \in Seq(Item) /\ Len(Ring!Content') = Ring!Length'
  BY <1>2 DEF RingContentOK
<1>12. Ring!Content' = Append(Ring!Content, item[p])
  BY <1>4, <1>9, <1>10, <1>11, SeqEqual
<1>. QED
  BY <1>7, <1>12

\* pop takes room: the item is in the queue until it is read
\* (blocking_queue.h:53).
LEMMA RingTakenOne ==
  ASSUME RingInv, RingInv', NEW p \in Proc, ringPc[p] = "popTest", ringPc'[p] = "popRead",
         ringHead # ringTail, ringHead' = Ring!After(ringHead),
         UNCHANGED <<ringTail, items>>
  PROVE  Ring!Content' = Ring!Content
<1>1. ~Ring!Writing /\ ~Ring!Reading /\ ~Ring!Writing' /\ Ring!Reading'
  <2>1. RingFlagsOK /\ RingFlagsOK'
    BY RingFlags, PTL
  <2>. QED
    BY <2>1 DEF RingFlagsOK, RingLocked
<1>2. RingContentOK /\ RingContentOK'
  BY RingContentFacts, PTL
<1>3. Ring!First' = Ring!First
  BY <1>1 DEF Ring!First
<1>4. ringHead \in Int /\ ringTail \in Int /\ 0 <= ringHead /\ ringHead < Ring!qsize
      /\ 0 <= ringTail /\ ringTail < Ring!qsize
  BY <1>2, RingSize DEF RingContentOK, Ring!Cell
<1>5. ringHead' = RingWrap(ringHead + 1)
  BY <1>2, RingAfterIs DEF RingContentOK
<1>6. RingDistance' = RingDistance - 1
  BY <1>4, <1>5, RingSize DEF RingDistance, RingWrap, Ring!qsize
<1>7. Ring!Length = RingDistance /\ Ring!Length' = RingDistance' + 1 /\ RingDistance \in Int
  BY <1>1, <1>2 DEF RingContentOK
<1>. QED
  BY <1>3, <1>6, <1>7, RingContentKept

\* pop reads the item: the queue loses its first (blocking_queue.h:54).
LEMMA RingRead ==
  ASSUME RingInv, RingInv', NEW p \in Proc, ringPc[p] = "popRead", ringPc'[p] = "popped",
         UNCHANGED Ring!ringVars
  PROVE  /\ Ring!Content # <<>>
         /\ items[ringHead] = Head(Ring!Content)
         /\ Ring!Content' = Tail(Ring!Content)
<1>1. ~Ring!Writing /\ Ring!Reading /\ ~Ring!Writing' /\ ~Ring!Reading'
  <2>1. RingFlagsOK /\ RingFlagsOK'
    BY RingFlags, PTL
  <2>. QED
    BY <2>1 DEF RingFlagsOK, RingLocked
<1>2. RingContentOK /\ RingContentOK'
  BY RingContentFacts, PTL
<1>3. RingDistance' = RingDistance
  BY DEF RingDistance, Ring!ringVars, Ring!qsize
<1>4. /\ Ring!Length = RingDistance + 1 /\ Ring!Length' = RingDistance
      /\ Ring!Length \in 0 .. maxNode /\ RingDistance \in 0 .. maxNode
  BY <1>1, <1>2, <1>3 DEF RingContentOK
<1>5. ringHead \in Int /\ 0 <= ringHead /\ ringHead < Ring!qsize
  BY <1>2, RingSize DEF RingContentOK, Ring!Cell
<1>6. Ring!First = ringHead /\ Ring!First' = RingWrap(ringHead + 1)
  BY <1>1, <1>2 DEF RingContentOK, Ring!ringVars, RingWrap, Ring!qsize
<1>7. RingPlace(1) = ringHead
  BY <1>5, <1>6 DEF RingPlace, RingWrap
<1>8. \A i \in 1 .. RingDistance : RingPlace(i)' = RingPlace(i + 1)
  <2>. SUFFICES ASSUME NEW i \in 1 .. RingDistance PROVE RingPlace(i)' = RingPlace(i + 1)
    OBVIOUS
  <2>1. RingPlace(i)' = RingWrap(Ring!First' + i - 1)
    BY DEF RingPlace, RingWrap, Ring!qsize
  <2>2. RingPlace(i + 1) = RingWrap(ringHead + (i + 1) - 1)
    BY <1>6 DEF RingPlace
  <2>3. RingDistance \in Int /\ RingDistance <= maxNode
    BY <1>4
  <2>4. RingWrap(RingWrap(ringHead + 1) + i - 1) = RingWrap(ringHead + (i + 1) - 1)
    <3>1. i \in Int /\ 1 <= i /\ i < Ring!qsize
      BY ONLY <2>3, RingSize, RingAssumption, i \in 1 .. RingDistance
    <3>2. CASE ringHead + 1 < Ring!qsize
      <4>1. RingWrap(ringHead + 1) + i - 1 = ringHead + (i + 1) - 1
        BY ONLY <1>5, <3>1, <3>2, RingSize DEF RingWrap
      <4>. QED
        BY ONLY <4>1
    <3>3. CASE ringHead + 1 = Ring!qsize
      <4>1. RingWrap(ringHead + 1) = 0
        BY ONLY <1>5, <3>3, RingSize DEF RingWrap
      <4>2. RingWrap(RingWrap(ringHead + 1) + i - 1) = i - 1
        BY ONLY <3>1, <4>1, RingSize DEF RingWrap
      <4>3. RingWrap(ringHead + (i + 1) - 1) = i - 1
        BY ONLY <1>5, <3>1, <3>3, RingSize DEF RingWrap
      <4>. QED
        BY ONLY <4>2, <4>3
    <3>. QED
      BY ONLY <1>5, <3>2, <3>3, RingSize
  <2>. QED
    BY <1>6, <2>1, <2>2, <2>4
<1>9. Ring!Content \in Seq(Item) /\ Len(Ring!Content) = RingDistance + 1
      /\ Ring!Content # <<>>
  BY <1>2, <1>4 DEF RingContentOK
<1>10. /\ Head(Ring!Content) = Ring!Content[1]
       /\ Tail(Ring!Content) \in Seq(Item)
       /\ Len(Tail(Ring!Content)) = RingDistance
       /\ \A i \in 1 .. RingDistance : Tail(Ring!Content)[i] = Ring!Content[i + 1]
  BY <1>4, <1>9, HeadTailProperties
<1>11. items[ringHead] = Head(Ring!Content)
  BY <1>2, <1>4, <1>7, <1>10 DEF RingContentOK
<1>12. Ring!Content' \in Seq(Item) /\ Len(Ring!Content') = RingDistance
  BY <1>2, <1>4 DEF RingContentOK
<1>13. ASSUME NEW i \in 1 .. RingDistance
       PROVE  Ring!Content'[i] = Tail(Ring!Content)[i]
  <2>1. Ring!Content'[i] = items[RingPlace(i)']
    BY <1>2, <1>4 DEF RingContentOK, Ring!ringVars
  <2>2. Ring!Content[i + 1] = items[RingPlace(i + 1)]
    BY <1>2, <1>4 DEF RingContentOK
  <2>. QED
    BY <1>8, <1>10, <2>1, <2>2
<1>14. Ring!Content' = Tail(Ring!Content)
  BY <1>10, <1>12, <1>13, SeqEqual
<1>. QED
  BY <1>9, <1>11, <1>14

-----------------------------------------------------------------------------
(***************************************************************************)
(* The queue implements Fifo.                                              *)
(***************************************************************************)
\* A step of one thread moves its own call only.
LEMMA RingCallsMove ==
  ASSUME NEW p \in Proc,
         \A r \in Proc : r # p => ringPc'[r] = ringPc[r] /\ item'[r] = item[r]
  PROVE  Ring!Calls' = [Ring!Calls EXCEPT ![p] = Ring!Phase(p)']
<1>1. \A r \in Proc : r # p => Ring!Phase(r)' = Ring!Phase(r)
  BY DEF Ring!Phase
<1>. QED
  BY <1>1 DEF Ring!Calls

LEMMA RingCallIs == \A p \in Proc : Ring!Calls[p] = Ring!Phase(p)
  BY DEF Ring!Calls

LEMMA RingQueueInit == Ring!Init => Ring!Queue!Init
<1>. SUFFICES ASSUME Ring!Init PROVE Ring!Queue!Init
  OBVIOUS
<1>1. RingInv
  BY RingInvInit
<1>2. Ring!Content = <<>>
  <2>1. RingContentOK /\ RingFlagsOK
    BY <1>1, RingContentFacts, RingFlags
  <2>2. RingDistance = 0 /\ ~Ring!Writing /\ ~Ring!Reading
    BY <2>1 DEF Ring!Init, RingContentOK, RingFlagsOK
  <2>3. Len(Ring!Content) = 0 /\ Ring!Content \in Seq(Item)
    BY <2>1, <2>2 DEF RingContentOK
  <2>. QED
    BY <2>3, EmptySeq
<1>3. Ring!Calls = [p \in Proc |-> Ring!Queue!Idle]
  BY DEF Ring!Init, Ring!Calls, Ring!Phase, Ring!Queue!Idle
<1>. QED
  BY <1>2, <1>3 DEF Ring!Queue!Init

\* Every statement is one step of the abstract queue, or hidden from it.
LEMMA RingQueueStep ==
  RingInv /\ RingInv' /\ [Ring!Next]_(Ring!vars) => [Ring!Queue!Next]_(Ring!Queue!vars)
<1>. SUFFICES ASSUME RingInv, RingInv', [Ring!Next]_(Ring!vars)
              PROVE [Ring!Queue!Next]_(Ring!Queue!vars)
  OBVIOUS
<1>. USE DEF Ring!Queue!vars
<1>a. RingFlagsOK /\ RingFlagsOK' /\ RingContentOK /\ RingTypeOK
  BY RingFlags, RingContentFacts, PTL DEF RingInv
<1>b. \A p \in Proc : ringPc'[p] = ringPc[p]
      /\ item'[p] = item[p] => Ring!Phase(p)' = Ring!Phase(p)
  BY DEF Ring!Phase
<1>1. CASE UNCHANGED Ring!vars
  <2>1. Ring!Content' = Ring!Content
    BY <1>1, RingKept DEF Ring!vars, Ring!Writing, Ring!Reading
  <2>2. Ring!Calls' = Ring!Calls
    BY <1>1 DEF Ring!vars, Ring!Calls, Ring!Phase
  <2>. QED
    BY <2>1, <2>2
<1>2. ASSUME NEW p \in Proc, NEW x \in Item, Ring!CallPush(p, x)
      PROVE  [Ring!Queue!Next]_(Ring!Queue!vars)
  <2>1. Ring!Goto(p, "idle", "push") /\ UNCHANGED <<Ring!ringVars, q_mutex>>
        /\ item' = [item EXCEPT ![p] = x]
    BY <1>2 DEF Ring!CallPush
  <2>2. ringPc[p] = "idle"
        /\ \A r \in Proc : ringPc'[r] = IF r = p THEN "push" ELSE ringPc[r]
    BY <1>a, <2>1 DEF Ring!Goto, RingTypeOK
  <2>3. \A r \in Proc : item'[r] = IF r = p THEN x ELSE item[r]
    BY <1>a, <2>1 DEF RingTypeOK
  <2>4. (Ring!Writing' <=> Ring!Writing) /\ (Ring!Reading' <=> Ring!Reading)
    BY <2>2 DEF Ring!Writing, Ring!Reading
  <2>5. Ring!Content' = Ring!Content
    BY <2>1, <2>4, RingKept
  <2>6. Ring!Phase(p) = Ring!Queue!Idle /\ Ring!Phase(p)' = Ring!Queue!Pushing(x)
    BY <2>2, <2>3 DEF Ring!Phase, Ring!Queue!Idle, Ring!Queue!Pushing
  <2>7. Ring!Calls' = [Ring!Calls EXCEPT ![p] = Ring!Phase(p)']
    BY <2>2, <2>3, RingCallsMove
  <2>8. Ring!Queue!Call(p)
    BY <2>5, <2>6, <2>7, RingCallIs DEF Ring!Queue!Call, Ring!Queue!Becomes
  <2>. QED
    BY <2>8 DEF Ring!Queue!Next
<1>3. ASSUME NEW p \in Proc, Ring!CallPop(p)
      PROVE  [Ring!Queue!Next]_(Ring!Queue!vars)
  <2>1. Ring!Goto(p, "idle", "pop") /\ UNCHANGED <<Ring!ringVars, q_mutex, item>>
    BY <1>3 DEF Ring!CallPop
  <2>2. ringPc[p] = "idle"
        /\ \A r \in Proc : ringPc'[r] = IF r = p THEN "pop" ELSE ringPc[r]
    BY <1>a, <2>1 DEF Ring!Goto, RingTypeOK
  <2>4. (Ring!Writing' <=> Ring!Writing) /\ (Ring!Reading' <=> Ring!Reading)
    BY <2>2 DEF Ring!Writing, Ring!Reading
  <2>5. Ring!Content' = Ring!Content
    BY <2>1, <2>4, RingKept
  <2>6. Ring!Phase(p) = Ring!Queue!Idle /\ Ring!Phase(p)' = Ring!Queue!Popping(FALSE)
    BY <2>2 DEF Ring!Phase, Ring!Queue!Idle, Ring!Queue!Popping
  <2>7. Ring!Calls' = [Ring!Calls EXCEPT ![p] = Ring!Phase(p)']
    BY <2>1, <2>2, RingCallsMove
  <2>8. Ring!Queue!Call(p)
    BY <2>5, <2>6, <2>7, RingCallIs DEF Ring!Queue!Call, Ring!Queue!Becomes
  <2>. QED
    BY <2>8 DEF Ring!Queue!Next
<1>4. ASSUME NEW p \in Proc, Ring!Lock(p)
      PROVE  [Ring!Queue!Next]_(Ring!Queue!vars)
  <2>1. PICK l \in {"pushTest", "popTest"} :
          /\ ringPc[p] = (IF l = "pushTest" THEN "push" ELSE "pop")
          /\ ringPc' = [ringPc EXCEPT ![p] = l]
    BY <1>4 DEF Ring!Lock, Ring!Goto
  <2>2. \A r \in Proc : ringPc'[r] = IF r = p THEN l ELSE ringPc[r]
    BY <1>a, <2>1 DEF RingTypeOK
  <2>3. ~Ring!Writing /\ ~Ring!Reading /\ ~Ring!Writing' /\ ~Ring!Reading'
        /\ UNCHANGED <<Ring!ringVars, item>>
    BY <1>4, <1>a, <2>2 DEF Ring!Lock, Ring!Acquire, RingFlagsOK, RingLocked
  <2>4. Ring!Content' = Ring!Content
    BY <2>3, RingKept
  <2>5. Ring!Phase(p)' = Ring!Phase(p)
    BY <2>1, <2>2, <2>3 DEF Ring!Phase
  <2>6. Ring!Calls' = Ring!Calls
    BY <1>b, <2>2, <2>3, <2>5 DEF Ring!Calls
  <2>. QED
    BY <2>4, <2>6
<1>5. ASSUME NEW p \in Proc, Ring!PushTest(p)
      PROVE  [Ring!Queue!Next]_(Ring!Queue!vars)
  <2>1. UNCHANGED <<ringHead, items, q_mutex, item>>
    BY <1>5 DEF Ring!PushTest
  <2>2. CASE Ring!After(ringTail) = ringHead /\ Ring!Goto(p, "pushTest", "pushFull")
        /\ UNCHANGED ringTail
    <3>1. ringPc[p] = "pushTest"
          /\ \A r \in Proc : ringPc'[r] = IF r = p THEN "pushFull" ELSE ringPc[r]
      BY <1>a, <2>2 DEF Ring!Goto, RingTypeOK
    <3>2. ~Ring!Writing /\ ~Ring!Reading /\ ~Ring!Writing' /\ ~Ring!Reading'
      BY <1>a, <3>1 DEF RingFlagsOK, RingLocked
    <3>3. Ring!Content' = Ring!Content
      BY <2>1, <2>2, <3>2, RingKept DEF Ring!ringVars
    <3>4. Len(Ring!Content) = maxNode
      BY <1>a, <2>2, <3>2 DEF RingContentOK
    <3>5. Ring!Phase(p) = Ring!Queue!Pushing(item[p])
          /\ Ring!Phase(p)' = Ring!Queue!Pushed(FALSE)
      BY <3>1 DEF Ring!Phase, Ring!Queue!Pushing, Ring!Queue!Pushed
    <3>6. Ring!Calls' = [Ring!Calls EXCEPT ![p] = Ring!Phase(p)']
      BY <2>1, <3>1, RingCallsMove
    <3>7. Ring!Queue!Push(p)
      BY <3>3, <3>4, <3>5, <3>6, RingCallIs
         DEF Ring!Queue!Push, Ring!Queue!Becomes, Ring!Queue!Pushing
    <3>. QED
      BY <3>7 DEF Ring!Queue!Next
  <2>3. CASE Ring!After(ringTail) # ringHead /\ Ring!Goto(p, "pushTest", "pushStore")
        /\ ringTail' = Ring!After(ringTail)
    <3>1. ringPc[p] = "pushTest"
          /\ \A r \in Proc : ringPc'[r] = IF r = p THEN "pushStore" ELSE ringPc[r]
      BY <1>a, <2>3 DEF Ring!Goto, RingTypeOK
    <3>2. Ring!Content' = Ring!Content
      BY <2>1, <2>3, <3>1, RingRoomForOne
    <3>3. Ring!Phase(p)' = Ring!Phase(p)
      BY <2>1, <3>1 DEF Ring!Phase
    <3>4. Ring!Calls' = Ring!Calls
      BY <1>b, <2>1, <3>1, <3>3 DEF Ring!Calls
    <3>. QED
      BY <3>2, <3>4
  <2>. QED
    BY <1>5, <2>2, <2>3 DEF Ring!PushTest
<1>6. ASSUME NEW p \in Proc, Ring!PushStore(p)
      PROVE  [Ring!Queue!Next]_(Ring!Queue!vars)
  <2>1. /\ items' = [items EXCEPT ![ringTail] = item[p]]
        /\ UNCHANGED <<ringHead, ringTail, q_mutex, item>>
    BY <1>6 DEF Ring!PushStore
  <2>2. ringPc[p] = "pushStore"
        /\ \A r \in Proc : ringPc'[r] = IF r = p THEN "pushed" ELSE ringPc[r]
    BY <1>6, <1>a DEF Ring!PushStore, Ring!Goto, RingTypeOK
  <2>3. Len(Ring!Content) < maxNode /\ Ring!Content' = Append(Ring!Content, item[p])
    BY <2>1, <2>2, RingStored
  <2>4. Ring!Phase(p) = Ring!Queue!Pushing(item[p])
        /\ Ring!Phase(p)' = Ring!Queue!Pushed(TRUE)
    BY <2>2 DEF Ring!Phase, Ring!Queue!Pushing, Ring!Queue!Pushed
  <2>5. Ring!Calls' = [Ring!Calls EXCEPT ![p] = Ring!Phase(p)']
    BY <2>1, <2>2, RingCallsMove
  <2>6. Ring!Queue!Push(p)
    BY <2>3, <2>4, <2>5, RingCallIs
       DEF Ring!Queue!Push, Ring!Queue!Becomes, Ring!Queue!Pushing
  <2>. QED
    BY <2>6 DEF Ring!Queue!Next
<1>7. ASSUME NEW p \in Proc, Ring!PopTest(p)
      PROVE  [Ring!Queue!Next]_(Ring!Queue!vars)
  <2>1. UNCHANGED <<ringTail, items, q_mutex, item>>
    BY <1>7 DEF Ring!PopTest
  <2>2. CASE ringHead = ringTail /\ Ring!Goto(p, "popTest", "popEmpty")
        /\ UNCHANGED ringHead
    <3>1. ringPc[p] = "popTest"
          /\ \A r \in Proc : ringPc'[r] = IF r = p THEN "popEmpty" ELSE ringPc[r]
      BY <1>a, <2>2 DEF Ring!Goto, RingTypeOK
    <3>2. ~Ring!Writing /\ ~Ring!Reading /\ ~Ring!Writing' /\ ~Ring!Reading'
      BY <1>a, <3>1 DEF RingFlagsOK, RingLocked
    <3>3. Ring!Content' = Ring!Content
      BY <2>1, <2>2, <3>2, RingKept DEF Ring!ringVars
    <3>4. Ring!Content = <<>>
      <4>1. Len(Ring!Content) = 0 /\ Ring!Content \in Seq(Item)
        BY <1>a, <2>2, <3>2 DEF RingContentOK
      <4>. QED
        BY <4>1, EmptySeq
    <3>5. Ring!Phase(p) = Ring!Queue!Popping(FALSE) /\ Ring!Phase(p)' = Ring!Queue!PopFailed
      BY <3>1 DEF Ring!Phase, Ring!Queue!Popping, Ring!Queue!PopFailed
    <3>6. Ring!Calls' = [Ring!Calls EXCEPT ![p] = Ring!Phase(p)']
      BY <2>1, <3>1, RingCallsMove
    <3>7. Ring!Queue!PopEmpty(p)
      BY <3>3, <3>4, <3>5, <3>6, RingCallIs
         DEF Ring!Queue!PopEmpty, Ring!Queue!Becomes, Ring!Queue!Popping
    <3>. QED
      BY <3>7 DEF Ring!Queue!Next
  <2>3. CASE ringHead # ringTail /\ Ring!Goto(p, "popTest", "popRead")
        /\ ringHead' = Ring!After(ringHead)
    <3>1. ringPc[p] = "popTest"
          /\ \A r \in Proc : ringPc'[r] = IF r = p THEN "popRead" ELSE ringPc[r]
      BY <1>a, <2>3 DEF Ring!Goto, RingTypeOK
    <3>2. Ring!Content' = Ring!Content
      BY <2>1, <2>3, <3>1, RingTakenOne
    <3>3. Ring!Phase(p)' = Ring!Phase(p)
      BY <2>1, <3>1 DEF Ring!Phase
    <3>4. Ring!Calls' = Ring!Calls
      BY <1>b, <2>1, <3>1, <3>3 DEF Ring!Calls
    <3>. QED
      BY <3>2, <3>4
  <2>. QED
    BY <1>7, <2>2, <2>3 DEF Ring!PopTest
<1>8. ASSUME NEW p \in Proc, Ring!PopRead(p)
      PROVE  [Ring!Queue!Next]_(Ring!Queue!vars)
  <2>1. item' = [item EXCEPT ![p] = items[ringHead]] /\ UNCHANGED <<Ring!ringVars, q_mutex>>
    BY <1>8 DEF Ring!PopRead
  <2>2. ringPc[p] = "popRead"
        /\ \A r \in Proc : ringPc'[r] = IF r = p THEN "popped" ELSE ringPc[r]
    BY <1>8, <1>a DEF Ring!PopRead, Ring!Goto, RingTypeOK
  <2>3. \A r \in Proc : item'[r] = IF r = p THEN items[ringHead] ELSE item[r]
    BY <1>a, <2>1 DEF RingTypeOK
  <2>4. Ring!Content # <<>> /\ items[ringHead] = Head(Ring!Content)
        /\ Ring!Content' = Tail(Ring!Content)
    BY <2>1, <2>2, RingRead
  <2>5. Ring!Phase(p) = Ring!Queue!Popping(FALSE)
        /\ Ring!Phase(p)' = Ring!Queue!Popped(items[ringHead])
    BY <2>2, <2>3 DEF Ring!Phase, Ring!Queue!Popping, Ring!Queue!Popped
  <2>6. Ring!Calls' = [Ring!Calls EXCEPT ![p] = Ring!Phase(p)']
    BY <2>2, <2>3, RingCallsMove
  <2>7. Ring!Queue!Pop(p)
    BY <2>4, <2>5, <2>6, RingCallIs
       DEF Ring!Queue!Pop, Ring!Queue!Becomes, Ring!Queue!Popping
  <2>. QED
    BY <2>7 DEF Ring!Queue!Next
<1>9. ASSUME NEW p \in Proc, Ring!Unlock(p)
      PROVE  [Ring!Queue!Next]_(Ring!Queue!vars)
  <2>1. /\ ringPc[p] \in {"pushFull", "pushed", "popEmpty", "popped"}
        /\ ringPc' = [ringPc EXCEPT ![p] = "idle"]
        /\ q_mutex' = NoThread /\ UNCHANGED <<Ring!ringVars, item>>
    BY <1>9 DEF Ring!Unlock, Ring!Goto
  <2>2. \A r \in Proc : ringPc'[r] = IF r = p THEN "idle" ELSE ringPc[r]
    BY <1>a, <2>1 DEF RingTypeOK
  <2>3. ~Ring!Writing /\ ~Ring!Reading /\ ~Ring!Writing' /\ ~Ring!Reading'
    BY <1>a, <2>1 DEF RingFlagsOK, RingLocked
  <2>4. Ring!Content' = Ring!Content
    BY <2>1, <2>3, RingKept
  <2>5. /\ Ring!Phase(p).op \in {"pushed", "popped", "popFailed"}
        /\ Ring!Phase(p)' = Ring!Queue!Idle
    BY <2>1, <2>2 DEF Ring!Phase, Ring!Queue!Idle
  <2>6. Ring!Calls' = [Ring!Calls EXCEPT ![p] = Ring!Phase(p)']
    BY <2>1, <2>2, RingCallsMove
  <2>7. Ring!Queue!Return(p)
    BY <2>4, <2>5, <2>6, RingCallIs DEF Ring!Queue!Return, Ring!Queue!Becomes
  <2>. QED
    BY <2>7 DEF Ring!Queue!Next
<1>. QED
  BY <1>1, <1>2, <1>3, <1>4, <1>5, <1>6, <1>7, <1>8, <1>9 DEF Ring!Next, Ring!Step

\* push and pop of blocking_queue.h are the operations of a FIFO queue.
THEOREM RingRefinement == Ring!Spec => Ring!ImplementsFifo
BY RingQueueInit, RingQueueStep, RingInvariant, PTL
   DEF Ring!Spec, Ring!ImplementsFifo, Ring!Queue!Spec
=============================================================================
