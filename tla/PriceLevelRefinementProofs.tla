---------------------- MODULE PriceLevelRefinementProofs ----------------------
EXTENDS PriceLevelRefinement, PriceLevelQueueProofs, SequenceTheorems,
        WellFoundedInduction

(* A nonempty set of natural numbers has a least element.                  *)
LEMMA LeastElement ==
  ASSUME NEW T \in SUBSET Nat, T # {}
  PROVE  \E x \in T : \A y \in T : ~(y < x)
<1>1. \E x \in T : \A y \in T : <<y, x>> \notin OpToRel(<, Nat)
  BY NatLessThanWellFounded, WFMin
<1> QED
  BY <1>1 DEF OpToRel

(* c begins at hd and its nodes lead to their successors.                  *)
Linked(c, len, hp, hd) ==
  /\ c \in [1..len -> Nodes]
  /\ len # 0 => hd = c[1]
  /\ \A i \in 1..len : i # len => hp[c[i]].next = c[i + 1]

(* w is what a reader finds who begins at hd and follows next.             *)
Walks(w, len, hp, hd) ==
  \A i \in 1..len :
    w[i] = IF i = 1 THEN hd ELSE IF w[i - 1] = None THEN None ELSE hp[w[i - 1]].next

(* A chain is such a walk.                                                 *)
LEMMA ChainIsWalk ==
  ASSUME NEW len \in Nat, NEW hp, NEW hd, NEW c, Linked(c, len, hp, hd)
  PROVE  Walks(c, len, hp, hd)
<1> USE DEF Linked
<1>1. \A i \in 1..len : c[i] # None
  BY NoneAssumption
<1>2. ASSUME NEW i \in 1..len
      PROVE  c[i] = IF i = 1 THEN hd
                    ELSE IF c[i - 1] = None THEN None ELSE hp[c[i - 1]].next
  <2>1. CASE i = 1
    BY <2>1
  <2>2. CASE i # 1
    <3>1. i - 1 \in 1..len /\ i - 1 # len /\ (i - 1) + 1 = i
      BY <2>2
    <3> QED
      BY <1>1, <2>2, <3>1
  <2> QED
    BY <2>1, <2>2
<1> QED
  BY <1>2 DEF Walks

(* And there is no other walk.                                             *)
LEMMA WalkIsChain ==
  ASSUME NEW len \in Nat, NEW hp, NEW hd, NEW c, Linked(c, len, hp, hd),
         NEW w, Walks(w, len, hp, hd)
  PROVE  \A i \in 1..len : w[i] = c[i]
<1> USE DEF Linked
<1>0. \A i \in 1..len : c[i] # None
  BY NoneAssumption
<1> DEFINE T == {i \in 1..len : w[i] # c[i]}
<1>1. SUFFICES ASSUME T # {} PROVE FALSE
  OBVIOUS
<1> HIDE DEF T
<1>2. PICK i \in T : \A j \in T : ~(j < i)
  <2>1. T \in SUBSET Nat
    BY DEF T
  <2> QED
    BY <1>1, <2>1, LeastElement
<1> USE DEF T
<1>3. i \in 1..len /\ w[i] # c[i]
  BY <1>2
<1>4. CASE i = 1
  BY <1>3, <1>4 DEF Walks
<1>5. CASE i # 1
  <2>1. i - 1 \in 1..len /\ i - 1 # len /\ (i - 1) + 1 = i
    BY <1>3, <1>5
  <2>2. w[i - 1] = c[i - 1]
    BY <1>2, <2>1
  <2>3. hp[c[i - 1]].next = c[i]
    BY <2>1
  <2> QED
    BY <1>0, <1>3, <1>5, <2>1, <2>2, <2>3 DEF Walks
<1> QED
  BY <1>4, <1>5

(* What is read off the chain.                                               *)
LEMMA FifoOfChain ==
  ASSUME NEW len \in Nat, len = Len(arena), NEW c \in [1..len -> Nodes], IsChain(c)
  PROVE  Fifo = [i \in 1..len |-> heap[c[i]].ro]
<1>1. Linked(c, len, heap, head)
  BY DEF IsChain, Linked
<1>2. NthNode = [i \in 1..Len(arena) |->
        IF i = 1 THEN head
        ELSE IF NthNode[i - 1] = None THEN None ELSE heap[NthNode[i - 1]].next]
  <2>1. Walks(c, len, heap, head)
    BY ONLY <1>1, len \in Nat, ChainIsWalk
  <2>2. c = [i \in 1..Len(arena) |->
          IF i = 1 THEN head ELSE IF c[i - 1] = None THEN None ELSE heap[c[i - 1]].next]
    BY <2>1 DEF Walks
  <2>3. \E g : g = [i \in 1..Len(arena) |->
          IF i = 1 THEN head ELSE IF g[i - 1] = None THEN None ELSE heap[g[i - 1]].next]
    BY <2>2, Zenon
  <2> QED
    BY <2>3, Zenon DEF NthNode
<1>3. Walks(NthNode, len, heap, head)
  BY <1>2 DEF Walks
<1>4. \A i \in 1..len : NthNode[i] = c[i]
  BY ONLY <1>1, <1>3, len \in Nat, WalkIsChain
<1>5. {j \in 1..Len(arena) : NthNode[j] # None} = 1..len
  BY <1>4, NoneAssumption
<1> QED
  BY <1>4, <1>5 DEF Fifo

(* What is read off the chain after a step.                                  *)
LEMMA FifoOfChainAfter ==
  ASSUME NEW len \in Nat, len = Len(arena'), NEW c \in [1..len -> Nodes], IsChain(c)'
  PROVE  Fifo' = [i \in 1..len |-> heap'[c[i]].ro]
<1>1. Linked(c, len, heap', head')
  BY DEF IsChain, Linked
<1>2. NthNode' = [i \in 1..Len(arena') |->
        IF i = 1 THEN head'
        ELSE IF NthNode'[i - 1] = None THEN None ELSE heap'[NthNode'[i - 1]].next]
  <2>1. Walks(c, len, heap', head')
    BY ONLY <1>1, len \in Nat, ChainIsWalk
  <2>2. c = [i \in 1..Len(arena') |->
          IF i = 1 THEN head' ELSE IF c[i - 1] = None THEN None ELSE heap'[c[i - 1]].next]
    BY <2>1 DEF Walks
  <2>3. \E g : g = [i \in 1..Len(arena') |->
          IF i = 1 THEN head' ELSE IF g[i - 1] = None THEN None ELSE heap'[g[i - 1]].next]
    BY <2>2, Zenon
  <2> QED
    BY <2>3, Zenon DEF NthNode
<1>3. Walks(NthNode', len, heap', head')
  BY <1>2 DEF Walks
<1>4. \A i \in 1..len : NthNode'[i] = c[i]
  BY ONLY <1>1, <1>3, len \in Nat, WalkIsChain
<1>5. {j \in 1..Len(arena') : NthNode'[j] # None} = 1..len
  BY <1>4, NoneAssumption
<1> QED
  BY <1>4, <1>5 DEF Fifo

-----------------------------------------------------------------------------
(* The queue of orders in a reachable state.                               *)

(* c is the chain of the nodes in use, and the queue is its image.         *)
QueueChain(c, len) ==
  /\ len \in Nat /\ len = Len(arena)
  /\ c \in [1..len -> Nodes] /\ IsChain(c)
  /\ Fifo \in Seq(RestingOrder) /\ Len(Fifo) = len /\ DOMAIN Fifo = 1..len
  /\ Fifo = [i \in 1..len |-> heap[c[i]].ro]
  /\ \A i \in 1..len : /\ c[i] \in Range(arena) /\ c[i] \in DOMAIN heap
                       /\ Fifo[i] = heap[c[i]].ro
  /\ \A n \in Range(arena) : \E i \in 1..len : n = c[i]
  /\ \A i, j \in 1..len : Fifo[i].id = Fifo[j].id => i = j

(* There is such a chain, and each id has one place in the queue.          *)
LEMMA FifoFacts ==
  ASSUME IInv
  PROVE  \E c, len : QueueChain(c, len)
<1>1. TypeOK /\ BoxesOwnedOnce /\ IndexExact
  BY DEF IInv
<1>2. PICK len \in Nat : len = Len(arena)
  BY <1>1 DEF TypeOK
<1>3. PICK c \in [1..len -> Nodes] : IsChain(c)
  BY <1>2 DEF IInv, TimePriority
<1>4. /\ \A i \in 1..len : c[i] \in Range(arena) /\ c[i] \in DOMAIN heap
      /\ \A n \in Range(arena) : \E i \in 1..len : n = c[i]
      /\ \A i, j \in 1..len : c[i] = c[j] => i = j
  BY <1>1, <1>2, <1>3, ChainFacts
<1>5. Fifo = [i \in 1..len |-> heap[c[i]].ro]
  BY <1>2, <1>3, FifoOfChain
<1>6. \A n \in DOMAIN heap : heap[n].ro \in RestingOrder
  BY <1>1 DEF TypeOK, OrderNode
<1>7. Fifo \in Seq(RestingOrder) /\ Len(Fifo) = len /\ DOMAIN Fifo = 1..len
  BY <1>4, <1>5, <1>6
<1>8. \A i \in 1..len : Fifo[i] = heap[c[i]].ro
  BY <1>5
<1>9. \A i, j \in 1..len : Fifo[i].id = Fifo[j].id => i = j
  BY <1>1, <1>4, <1>8 DEF IndexExact
<1>10. QueueChain(c, len)
  BY <1>2, <1>3, <1>4, <1>5, <1>7, <1>8, <1>9 DEF QueueChain
<1> QED
  BY <1>10

(* Where the abstract queue finds an id: nowhere when it does not rest,    *)
(* else at the one place whose node the index names.                       *)
LEMMA PlaceOfId ==
  ASSUME IInv, NEW id \in OrderIds
  PROVE  /\ id \notin DOMAIN index => Queue!At(id) = {}
         /\ id \in DOMAIN index =>
              \E k \in DOMAIN Fifo : Queue!At(id) = {k} /\ Fifo[k] = heap[index[id]].ro
<1>1. IndexExact
  BY DEF IInv
<1>2. PICK c, len : QueueChain(c, len)
  BY FifoFacts
<1>3. ASSUME id \notin DOMAIN index PROVE Queue!At(id) = {}
  BY <1>1, <1>2, <1>3 DEF IndexExact, Queue!At, QueueChain
<1>4. ASSUME id \in DOMAIN index
      PROVE  \E k \in DOMAIN Fifo : Queue!At(id) = {k} /\ Fifo[k] = heap[index[id]].ro
  <2>1. index[id] \in Range(arena) /\ heap[index[id]].ro.id = id
    BY <1>1, <1>4 DEF IndexExact
  <2>2. PICK k \in 1..len : index[id] = c[k]
    BY <1>2, <2>1 DEF QueueChain
  <2>3. Fifo[k] = heap[index[id]].ro /\ Fifo[k].id = id
    BY <1>2, <2>1, <2>2 DEF QueueChain
  <2>4. Queue!At(id) = {k}
    BY <1>2, <2>3 DEF Queue!At, QueueChain
  <2> QED
    BY <1>2, <2>3, <2>4 DEF QueueChain
<1> QED
  BY <1>3, <1>4

(* The level is empty when the queue is, and its head is the queue's.      *)
LEMMA HeadOfFifo ==
  ASSUME IInv
  PROVE  /\ head = None <=> Fifo = <<>>
         /\ head # None => 1 \in DOMAIN Fifo /\ Head(Fifo) = heap[head].ro /\ Head(Fifo) = Fifo[1]
<1>1. PICK c, len : QueueChain(c, len)
  BY FifoFacts
<1>2. head = IF len = 0 THEN None ELSE c[1]
  BY <1>1 DEF IsChain, QueueChain
<1>3. CASE len = 0
  BY <1>1, <1>2, <1>3 DEF QueueChain
<1>4. CASE len # 0
  <2>1. 1 \in 1..len /\ head = c[1] /\ head # None /\ Fifo # <<>>
    BY <1>1, <1>2, <1>4, NoneAssumption DEF QueueChain
  <2> QED
    BY <1>1, <2>1 DEF QueueChain
<1> QED
  BY <1>3, <1>4
-----------------------------------------------------------------------------
(* What the steps do to the queue.                                         *)

(* t is a function.                                                        *)
IsAFcn(t) == t = [x \in DOMAIN t |-> t[x]]

(* Removing the k-th element, written as the abstract queue does.          *)
LEMMA RemovalFacts ==
  ASSUME NEW S, NEW s \in Seq(S), NEW k \in 1..Len(s), NEW t,
         DOMAIN t = 1..Len(s) - 1, IsAFcn(t),
         \A i \in 1..Len(s) - 1 : t[i] = IF i < k THEN s[i] ELSE s[i + 1]
  PROVE  /\ t = SubSeq(s, 1, k - 1) \o SubSeq(s, k + 1, Len(s))
         /\ k = 1 => t = Tail(s)
<1>1. PICK len \in Nat : len = Len(s)
  OBVIOUS
<1>2. t \in Seq(S) /\ Len(t) = len - 1
  BY <1>1 DEF IsAFcn
<1> DEFINE a == SubSeq(s, 1, k - 1)
           b == SubSeq(s, k + 1, len)
<1>3. /\ a \in Seq(S) /\ Len(a) = k - 1
      /\ \A i \in 1..k - 1 : a[i] = s[i]
  BY <1>1
<1>4. /\ b \in Seq(S) /\ Len(b) = len - k
      /\ \A i \in 1..len - k : b[i] = s[k + i]
  BY <1>1
<1> HIDE DEF a, b
<1>5. /\ a \o b \in Seq(S) /\ Len(a \o b) = len - 1
      /\ \A i \in 1..len - 1 : (a \o b)[i] = IF i < k THEN s[i] ELSE s[i + 1]
  <2>1. /\ a \o b \in Seq(S) /\ Len(a \o b) = Len(a) + Len(b)
        /\ \A i \in 1..Len(a) + Len(b) :
             (a \o b)[i] = IF i <= Len(a) THEN a[i] ELSE b[i - Len(a)]
    BY ONLY <1>3, <1>4, ConcatProperties
  <2>2. k \in 1..len
    BY <1>1
  <2>3. /\ Len(a) + Len(b) = len - 1
        /\ \A i \in 1..len - 1 : (a \o b)[i] = IF i <= k - 1 THEN a[i] ELSE b[i - (k - 1)]
    BY ONLY <1>3, <1>4, <2>1, <2>2, len \in Nat
  <2>4. ASSUME NEW i \in 1..len - 1, i < k
        PROVE  (a \o b)[i] = s[i]
    <3>1. i <= k - 1 /\ i \in 1..k - 1
      BY ONLY <2>2, <2>4, len \in Nat
    <3> QED
      BY ONLY <1>3, <2>3, <2>4, <3>1
  <2>5. ASSUME NEW i \in 1..len - 1, ~(i < k)
        PROVE  (a \o b)[i] = s[i + 1]
    <3>1. /\ ~(i <= k - 1) /\ i - (k - 1) \in 1..len - k
          /\ k + (i - (k - 1)) = i + 1
      BY ONLY <2>2, <2>5, len \in Nat
    <3> QED
      BY ONLY <1>4, <2>3, <2>5, <3>1
  <2> QED
    BY ONLY <2>1, <2>3, <2>4, <2>5
<1>6. t = a \o b
  BY <1>1, <1>2, <1>5, SeqEqual
<1>7. k = 1 => t = Tail(s)
  BY <1>1, <1>2
<1> QED
  BY <1>1, <1>6, <1>7 DEF a, b

(* The nodes of a chain are different, and head is the first.              *)
LEMMA ChainHead ==
  ASSUME NEW len \in Nat, len = Len(arena), NEW c \in [1..len -> Nodes], IsChain(c)
  PROVE  /\ \A i, j \in 1..len : c[i] = c[j] => i = j
         /\ \A i \in 1..len : c[i] = head => i = 1
<1>1. \A i, j \in 1..len : c[i] = c[j] => i = j
  <2>1. IsInjective(c) /\ DOMAIN c = 1..len
    BY DEF IsChain
  <2> QED
    BY <2>1 DEF IsInjective
<1>2. len # 0 => 1 \in 1..len /\ head = c[1]
  BY DEF IsChain
<1> QED
  BY <1>1, <1>2

(* A node put into use adds its order at the end.                          *)
LEMMA AddFifo ==
  ASSUME IInv, NEW n, NEW ro \in RestingOrder, AddNode(n, ro)
  PROVE  Fifo' = Append(Fifo, ro)
<1>1. n \notin Range(arena)
  BY AddNodeBoxes DEF IInv
<1>2. PICK c, len : QueueChain(c, len)
  BY FifoFacts
<1>3. PICK d : d = ChainWith(c, len, n)
  OBVIOUS
<1>4. /\ len \in Nat /\ len = Len(arena) /\ c \in [1..len -> Nodes] /\ IsChain(c)
      /\ Fifo \in Seq(RestingOrder) /\ Len(Fifo) = len
      /\ \A i \in 1..len : c[i] \in Range(arena) /\ c[i] \in DOMAIN heap /\ Fifo[i] = heap[c[i]].ro
  BY <1>2 DEF QueueChain
<1>5. /\ heap'[n].ro = ro
      /\ \A m \in DOMAIN heap \ {n} : heap'[m].ro = heap[m].ro
      /\ Len(arena') = len + 1
      /\ d \in [1..len + 1 -> Nodes] /\ IsChain(d)'
  BY ONLY IInv, AddNode(n, ro), ro \in RestingOrder, <1>3, <1>4, AddChain
<1>6. Fifo' = [i \in 1..len + 1 |-> heap'[d[i]].ro]
  <2>1. PICK new \in Nat : new = len + 1
    BY <1>4
  <2> QED
    BY ONLY <1>5, <2>1, FifoOfChainAfter
<1>7. d[len + 1] = n /\ \A i \in 1..len : d[i] = c[i]
  BY <1>3, <1>4 DEF ChainWith
<1>8. \A i \in 1..len : heap'[d[i]].ro = Fifo[i]
  BY <1>1, <1>4, <1>5, <1>7
<1>9. \A i \in 1..len + 1 : heap'[d[i]].ro = IF i = len + 1 THEN ro ELSE Fifo[i]
  BY <1>4, <1>5, <1>7, <1>8
<1>10. Fifo' = [i \in 1..len + 1 |-> IF i = len + 1 THEN ro ELSE Fifo[i]]
  BY <1>6, <1>9
<1>11. /\ Fifo' \in Seq(RestingOrder) /\ Len(Fifo') = len + 1
       /\ \A i \in 1..len + 1 : Fifo'[i] = Append(Fifo, ro)[i]
  BY <1>4, <1>10
<1> QED
  BY <1>4, <1>11, AppendProperties, SeqEqual

(* A node dropped takes its order out of its place.                        *)
LEMMA DropFifo ==
  ASSUME IInv, NEW n, DropNode(n)
  PROVE  \E k \in DOMAIN Fifo :
           /\ Fifo[k] = heap[n].ro /\ (n = head => k = 1)
           /\ Fifo' = SubSeq(Fifo, 1, k - 1) \o SubSeq(Fifo, k + 1, Len(Fifo))
           /\ k = 1 => Fifo' = Tail(Fifo)
           /\ DOMAIN Fifo' = 1..Len(Fifo) - 1 /\ Len(Fifo') = Len(Fifo) - 1
           /\ \A i \in 1..Len(Fifo) - 1 : Fifo'[i] = IF i < k THEN Fifo[i] ELSE Fifo[i + 1]
<1>1. n \in Range(arena)
  BY DEF DropNode
<1>2. PICK c, len : QueueChain(c, len)
  BY FifoFacts
<1>3. /\ len \in Nat /\ len = Len(arena) /\ c \in [1..len -> Nodes] /\ IsChain(c)
      /\ Fifo \in Seq(RestingOrder) /\ Len(Fifo) = len /\ DOMAIN Fifo = 1..len
      /\ \A i \in 1..len : c[i] \in DOMAIN heap /\ Fifo[i] = heap[c[i]].ro
      /\ \A m \in Range(arena) : \E i \in 1..len : m = c[i]
  BY <1>2 DEF QueueChain
<1>4. PICK k \in 1..len : n = c[k]
  BY <1>1, <1>3
<1>5. PICK d : d = ChainWithout(c, len, k)
  OBVIOUS
<1>6. /\ \A m \in DOMAIN heap : heap'[m].ro = heap[m].ro
      /\ Len(arena') = len - 1
      /\ d \in [1..len - 1 -> Nodes] /\ IsChain(d)'
  BY ONLY IInv, DropNode(n), <1>3, <1>4, <1>5, DropChain
<1>7. Fifo' = [i \in 1..len - 1 |-> heap'[d[i]].ro]
  <2>1. PICK new \in Nat : new = len - 1
    BY ONLY <1>3, <1>4
  <2>2. new = Len(arena') /\ d \in [1..new -> Nodes] /\ IsChain(d)'
    BY ONLY <1>6, <2>1
  <2>3. Fifo' = [i \in 1..new |-> heap'[d[i]].ro]
    BY ONLY <2>2, new \in Nat, FifoOfChainAfter
  <2> QED
    BY ONLY <2>1, <2>3
<1>8. \A i \in 1..len - 1 : d[i] = IF i < k THEN c[i] ELSE c[i + 1]
  BY <1>3, <1>5 DEF ChainWithout
<1>9. \A i \in 1..len - 1 : Fifo'[i] = IF i < k THEN Fifo[i] ELSE Fifo[i + 1]
  <2>1. ASSUME NEW i \in 1..len - 1
        PROVE  Fifo'[i] = IF i < k THEN Fifo[i] ELSE Fifo[i + 1]
    <3>1. Fifo'[i] = heap'[d[i]].ro /\ i \in 1..len /\ i + 1 \in 1..len
      BY <1>3, <1>7
    <3> QED
      BY <1>3, <1>6, <1>8, <3>1
  <2> QED
    BY <2>1
<1>10. /\ DOMAIN Fifo' = 1..len - 1 /\ Fifo' = [i \in 1..len - 1 |-> Fifo'[i]]
       /\ Len(Fifo') = len - 1
  BY <1>3, <1>4, <1>7
<1>11. /\ Fifo' = SubSeq(Fifo, 1, k - 1) \o SubSeq(Fifo, k + 1, Len(Fifo))
       /\ k = 1 => Fifo' = Tail(Fifo)
  <2>1. /\ Fifo \in Seq(RestingOrder) /\ k \in 1..Len(Fifo)
        /\ DOMAIN Fifo' = 1..Len(Fifo) - 1
        /\ IsAFcn(Fifo')
        /\ \A i \in 1..Len(Fifo) - 1 : Fifo'[i] = IF i < k THEN Fifo[i] ELSE Fifo[i + 1]
    BY <1>3, <1>4, <1>9, <1>10 DEF IsAFcn
  <2> QED
    BY ONLY <2>1, RemovalFacts
<1>12. n = head => k = 1
  <2>1. \A i \in 1..len : c[i] = head => i = 1
    BY ONLY <1>3, ChainHead
  <2> QED
    BY ONLY <1>4, <2>1
<1> QED
  BY <1>3, <1>4, <1>9, <1>10, <1>11, <1>12

(* A quantity changed is changed in its order's place.                     *)
LEMMA SetQtyFifo ==
  ASSUME IInv, NEW n, NEW qty, SetQty(n, qty)
  PROVE  \E k \in DOMAIN Fifo :
           /\ Fifo[k] = heap[n].ro /\ (n = head => k = 1)
           /\ Fifo' = [Fifo EXCEPT ![k].qty = qty]
<1>1. TypeOK /\ n \in Range(arena)
  BY DEF IInv, SetQty
<1>2. PICK c, len : QueueChain(c, len)
  BY FifoFacts
<1>3. /\ len \in Nat /\ len = Len(arena) /\ c \in [1..len -> Nodes] /\ IsChain(c)
      /\ Fifo \in Seq(RestingOrder) /\ Len(Fifo) = len /\ DOMAIN Fifo = 1..len
      /\ \A i \in 1..len : c[i] \in DOMAIN heap /\ Fifo[i] = heap[c[i]].ro
      /\ \A m \in Range(arena) : \E i \in 1..len : m = c[i]
  BY <1>2 DEF QueueChain
<1>4. PICK k \in 1..len : n = c[k]
  BY <1>1, <1>3
<1>5. heap \in [DOMAIN heap -> OrderNode] /\ n \in DOMAIN heap
  BY <1>1, <1>3, <1>4 DEF TypeOK
<1>6. (\A i \in 1..len : c[i] = n <=> i = k) /\ (n = head => k = 1)
  <2>1. /\ \A i, j \in 1..len : c[i] = c[j] => i = j
        /\ \A i \in 1..len : c[i] = head => i = 1
    BY ONLY <1>3, ChainHead
  <2> QED
    BY ONLY <1>4, <2>1
<1>7. /\ \A m \in DOMAIN heap :
           /\ heap'[m].prev = heap[m].prev /\ heap'[m].next = heap[m].next
           /\ m # n => heap'[m].ro = heap[m].ro
      /\ heap'[n].ro = [heap[n].ro EXCEPT !.qty = qty]
  BY <1>5 DEF SetQty, OrderNode, RestingOrder
<1>8. IsChain(c)' /\ len = Len(arena')
  BY <1>3, <1>7 DEF IsChain, SetQty
<1>9. Fifo' = [i \in 1..len |-> heap'[c[i]].ro]
  BY ONLY <1>3, <1>8, FifoOfChainAfter
<1>10. \A i \in 1..len :
         heap'[c[i]].ro = IF i = k THEN [Fifo[k] EXCEPT !.qty = qty] ELSE Fifo[i]
  BY <1>3, <1>4, <1>6, <1>7
<1>11. Fifo' = [i \in 1..len |-> IF i = k THEN [Fifo[k] EXCEPT !.qty = qty] ELSE Fifo[i]]
  BY <1>9, <1>10
<1>12. Fifo' = [Fifo EXCEPT ![k].qty = qty]
  <2>1. Fifo = [i \in 1..len |-> Fifo[i]]
    BY <1>3
  <2> QED
    BY <1>3, <1>4, <1>11, <2>1
<1> QED
  BY <1>3, <1>4, <1>6, <1>12

(* A step that leaves the level alone leaves the queue alone.              *)
LEMMA SameFifo ==
  ASSUME IInv, UNCHANGED level
  PROVE  Fifo' = Fifo
<1>1. PICK c, len : QueueChain(c, len)
  BY FifoFacts
<1>2. /\ len \in Nat /\ len = Len(arena') /\ c \in [1..len -> Nodes] /\ IsChain(c)'
      /\ heap' = heap /\ Fifo = [i \in 1..len |-> heap[c[i]].ro]
  BY <1>1 DEF IsChain, level, QueueChain
<1>3. Fifo' = [i \in 1..len |-> heap'[c[i]].ro]
  BY ONLY <1>2, FifoOfChainAfter
<1> QED
  BY <1>2, <1>3
-----------------------------------------------------------------------------
(* Each method does to the queue what the abstract command does.           *)

(* A refused command is refused by the queue too.                          *)
LEMMA RejectQueue ==
  ASSUME IInv, NEW e, Reject(e)
  PROVE  Queue!Refuse(e)
<1>1. Fifo' = Fifo
  BY SameFifo DEF Reject
<1> QED
  BY <1>1 DEF Reject, Answer, TimedResult, Rejected, Queue!Refuse, Queue!Answer,
              Queue!TimedResult, Queue!Rejected

(* insert puts the order behind all others, stamped with the clock.        *)
LEMMA InsertQueue ==
  ASSUME IInv, NEW id \in OrderIds, NEW qty \in Quantities, Insert(id, qty)
  PROVE  Queue!Insert(id, qty)
<1>1. TypeOK /\ now' = now
  BY DEF IInv, Insert
<1>2. CASE id \in DOMAIN index /\ Reject("DuplicateOrderId")
  <2>1. Queue!Refuse("DuplicateOrderId") /\ Queue!At(id) # {}
    BY <1>2, RejectQueue, PlaceOfId
  <2> QED
    BY <1>1, <2>1 DEF Queue!Insert
<1>3. CASE id \notin DOMAIN index /\ Answer(Acknowledged)
  <2> DEFINE ro == [id |-> id, qty |-> qty, timestamp_ns |-> now]
  <2>1. ro \in RestingOrder /\ ro.id = id
    BY <1>1 DEF TypeOK, RestingOrder
  <2>2. PICK n : AddNode(n, ro)
    BY <1>3 DEF Insert, AddNode, Reject
  <2>3. Fifo' = Append(Fifo, ro)
    BY ONLY IInv, <2>1, <2>2, AddFifo
  <2>4. Queue!At(id) = {} /\ Queue!Answer(Queue!Acknowledged)
    BY <1>3, PlaceOfId DEF Answer, TimedResult, Acknowledged, Queue!Answer,
                           Queue!TimedResult, Queue!Acknowledged
  <2> QED
    BY <1>1, <2>3, <2>4 DEF Queue!Insert
<1> QED
  BY <1>2, <1>3 DEF Insert

(* pop_head takes the queue's head and reports all of it.                  *)
LEMMA PopHeadQueue ==
  ASSUME IInv, PopHead
  PROVE  Queue!PopHead
<1>1. now' = now
  BY DEF PopHead
<1>2. CASE head = None
  <2>1. reply' = Rejected("EmptyPriceLevel") /\ UNCHANGED level
    BY <1>2 DEF PopHead
  <2>2. Fifo = <<>> /\ Fifo' = Fifo
    BY <1>2, <2>1, HeadOfFifo, SameFifo
  <2> QED
    BY <1>1, <2>1, <2>2 DEF Queue!PopHead, Rejected, Queue!Rejected
<1>3. CASE head # None
  <2>1. DropNode(head)
    BY <1>3, PopHeadDrops
  <2>2. Fifo' = Tail(Fifo)
    BY <2>1, DropFifo
  <2>3. Fifo # <<>> /\ Head(Fifo) = heap[head].ro
    BY <1>3, HeadOfFifo
  <2>4. reply' = Full(heap[head].ro.id, heap[head].ro.qty)
    BY <1>3 DEF PopHead
  <2> QED
    BY <1>1, <2>2, <2>3, <2>4 DEF Queue!PopHead, Full, Queue!Full
<1> QED
  BY <1>2, <1>3

(* remove takes the order with this id out, wherever it stands.            *)
LEMMA RemoveQueue ==
  ASSUME IInv, NEW id \in OrderIds, Remove(id)
  PROVE  Queue!Remove(id)
<1>1. now' = now
  BY DEF Remove
<1>2. CASE id \notin DOMAIN index
  <2>1. Queue!Refuse("OrderNotFound") /\ Queue!At(id) = {}
    BY <1>2, RejectQueue, PlaceOfId DEF Remove
  <2> QED
    BY <1>1, <2>1 DEF Queue!Remove
<1>3. CASE id \in DOMAIN index
  <2>1. PICK k \in DOMAIN Fifo : Queue!At(id) = {k} /\ Fifo[k] = heap[index[id]].ro
    BY <1>3, PlaceOfId
  <2>2. DropNode(index[id]) /\ heap[index[id]].ro.id = id
    BY <1>3, RemoveDrops DEF IInv, IndexExact
  <2>3. PICK j \in DOMAIN Fifo :
          /\ Fifo[j] = heap[index[id]].ro
          /\ Fifo' = SubSeq(Fifo, 1, j - 1) \o SubSeq(Fifo, j + 1, Len(Fifo))
    BY <2>2, DropFifo
  <2>4. j = k
    BY <2>1, <2>2, <2>3 DEF Queue!At
  <2>5. reply' = TimedResult(now, Removed(id, heap[index[id]].ro.qty))
    BY <1>3 DEF Remove, Answer
  <2>6. Queue!Answer(Queue!Removed(id, Fifo[k].qty))
    BY <2>1, <2>5 DEF TimedResult, Removed, Queue!Answer, Queue!TimedResult, Queue!Removed
  <2> QED
    BY <1>1, <2>1, <2>3, <2>4, <2>6 DEF Queue!Remove
<1> QED
  BY <1>2, <1>3

(* update_quantity changes the quantity in place.                          *)
LEMMA UpdateQuantityQueue ==
  ASSUME IInv, NEW id \in OrderIds, NEW newQty \in Quantities, UpdateQuantity(id, newQty)
  PROVE  Queue!UpdateQuantity(id, newQty)
<1>1. now' = now
  BY DEF UpdateQuantity
<1>2. CASE id \notin DOMAIN index
  <2>1. Queue!Refuse("OrderNotFound") /\ Queue!At(id) = {}
    BY <1>2, RejectQueue, PlaceOfId DEF UpdateQuantity
  <2> QED
    BY <1>1, <2>1 DEF Queue!UpdateQuantity
<1>3. CASE id \in DOMAIN index
  <2>1. PICK k \in DOMAIN Fifo : Queue!At(id) = {k} /\ Fifo[k] = heap[index[id]].ro
    BY <1>3, PlaceOfId
  <2>2. SetQty(index[id], newQty) /\ heap[index[id]].ro.id = id
    BY <1>3 DEF UpdateQuantity, SetQty, IInv, IndexExact
  <2>3. PICK j \in DOMAIN Fifo :
          /\ Fifo[j] = heap[index[id]].ro
          /\ Fifo' = [Fifo EXCEPT ![j].qty = newQty]
    BY <2>2, SetQtyFifo
  <2>4. j = k
    BY <2>1, <2>2, <2>3 DEF Queue!At
  <2>5. reply' = TimedResult(now, QuantityUpdated(id, newQty))
    BY <1>3 DEF UpdateQuantity, Answer
  <2>6. Queue!Answer(Queue!QuantityUpdated(id, newQty))
    BY <2>5 DEF TimedResult, QuantityUpdated, Queue!Answer, Queue!TimedResult,
                Queue!QuantityUpdated
  <2> QED
    BY <1>1, <2>1, <2>3, <2>4, <2>6 DEF Queue!UpdateQuantity
<1> QED
  BY <1>2, <1>3

(* apply_partial_fill takes part of the queue's head, never all of it.     *)
LEMMA ApplyPartialFillQueue ==
  ASSUME IInv, NEW qty \in Quantities, ApplyPartialFill(qty)
  PROVE  Queue!ApplyPartialFill(qty)
<1>1. now' = now
  BY DEF ApplyPartialFill
<1>2. CASE head = None
  <2>1. Queue!Refuse("EmptyPriceLevel") /\ Fifo = <<>>
    BY <1>2, RejectQueue, HeadOfFifo DEF ApplyPartialFill
  <2> QED
    BY <1>1, <2>1 DEF Queue!ApplyPartialFill
<1>3. CASE head # None /\ qty >= heap[head].ro.qty /\ Reject("InsufficientQuantity")
  <2>1. /\ Queue!Refuse("InsufficientQuantity")
        /\ Fifo # <<>> /\ Head(Fifo) = heap[head].ro
    BY <1>3, RejectQueue, HeadOfFifo
  <2> QED
    BY <1>1, <1>3, <2>1 DEF Queue!ApplyPartialFill
<1>4. CASE head # None /\ qty < heap[head].ro.qty /\ FillHead(qty)
  <2>1. head \in Range(arena) /\ head \in DOMAIN heap
    BY <1>4, HeadFacts DEF IInv, BoxesOwnedOnce
  <2>2. heap \in [DOMAIN heap -> OrderNode] /\ heap[head] \in OrderNode
    BY <2>1 DEF IInv, TypeOK
  <2>3. heap[head].ro.qty - qty \in Quantities
    BY <1>4, <2>2, MaxQtyAssumption DEF OrderNode, RestingOrder, Quantities
  <2>4. heap' = [heap EXCEPT ![head].ro.qty = heap[head].ro.qty - qty]
    BY <1>4 DEF FillHead
  <2>5. heap'[head].ro.qty = heap[head].ro.qty - qty
    BY <2>1, <2>2, <2>4 DEF OrderNode, RestingOrder
  <2>6. SetQty(head, heap[head].ro.qty - qty)
    BY <1>1, <1>4, <2>1, <2>3, <2>4 DEF SetQty, FillHead
  <2>7. PICK k \in DOMAIN Fifo :
          k = 1 /\ Fifo' = [Fifo EXCEPT ![k].qty = heap[head].ro.qty - qty]
    BY <2>6, SetQtyFifo
  <2>8. Fifo # <<>> /\ Head(Fifo) = heap[head].ro /\ Fifo[1] = heap[head].ro
    BY <1>4, HeadOfFifo
  <2>9. Fifo' = [Fifo EXCEPT ![1].qty = Fifo[1].qty - qty]
    BY <2>7, <2>8
  <2>10. reply' = TimedResult(now, Partial(heap[head].ro.id, qty, heap[head].ro.qty - qty))
    BY <1>4, <2>5 DEF FillHead, Answer
  <2>11. Queue!Answer(Queue!Partial(Head(Fifo).id, qty, Head(Fifo).qty - qty))
    BY <2>8, <2>10 DEF TimedResult, Partial, Queue!Answer, Queue!TimedResult, Queue!Partial
  <2> QED
    BY <1>1, <1>4, <2>8, <2>9, <2>11 DEF Queue!ApplyPartialFill
<1> QED
  BY <1>2, <1>3, <1>4 DEF ApplyPartialFill

(* A price level implements the price-time queue: it starts as the empty   *)
(* queue and each of its steps is a step of the queue, with the same reply. *)
THEOREM Implementation == Spec => ImplementsQueue
<1>1. Init => Queue!Init
  <2>1. SUFFICES ASSUME Init PROVE Queue!Init
    OBVIOUS
  <2>2. IInv
    BY <2>1, InitInv
  <2>3. Fifo = <<>>
    BY <2>1, <2>2, HeadOfFifo DEF Init
  <2> QED
    BY <2>1, <2>3 DEF Init, Queue!Init, NoReply, Queue!NoReply
<1>2. IInv /\ [Next]_vars => [Queue!Next]_(Queue!vars)
  <2>1. SUFFICES ASSUME IInv, [Next]_vars PROVE [Queue!Next]_(Queue!vars)
    OBVIOUS
  <2> USE DEF Queue!Next
  <2>9. Queue!Quantities = Quantities
    BY DEF Quantities, Queue!Quantities
  <2>2. ASSUME NEW id \in OrderIds, NEW qty \in Quantities, Insert(id, qty)
        PROVE  Queue!Next
    BY <2>1, <2>2, <2>9, InsertQueue
  <2>3. ASSUME NEW id \in OrderIds, NEW qty \in Quantities, UpdateQuantity(id, qty)
        PROVE  Queue!Next
    BY <2>1, <2>3, <2>9, UpdateQuantityQueue
  <2>4. ASSUME NEW id \in OrderIds, Remove(id)
        PROVE  Queue!Next
    BY <2>1, <2>4, RemoveQueue
  <2>5. ASSUME NEW qty \in Quantities, ApplyPartialFill(qty)
        PROVE  Queue!Next
    BY <2>1, <2>5, <2>9, ApplyPartialFillQueue
  <2>6. CASE PopHead
    BY <2>1, <2>6, PopHeadQueue
  <2>7. CASE Tick
    <3>1. Fifo' = Fifo
      BY <2>1, <2>7, SameFifo DEF Tick
    <3> QED
      BY <2>7, <3>1 DEF Tick, Queue!Tick
  <2>8. CASE UNCHANGED vars
    <3>1. Fifo' = Fifo
      BY <2>1, <2>8, SameFifo DEF vars
    <3> QED
      BY <2>8, <3>1 DEF vars, Queue!vars
  <2> QED
    BY <2>1, <2>2, <2>3, <2>4, <2>5, <2>6, <2>7, <2>8 DEF Next
<1> QED
  BY <1>1, <1>2, Invariance, PTL DEF Spec, ImplementsQueue, Queue!Spec
-----------------------------------------------------------------------------
(* Who stands before whom.                                                 *)

(* a stands before b in the queue q.                                       *)
Before(q, a, b) ==
  \E i, j \in DOMAIN q : i < j /\ q[i].id = a /\ q[j].id = b

(* No step puts an order before one that was there already.                *)
LEMMA StepKeepsOrder ==
  ASSUME IInv, [Next]_vars, NEW b \in DOMAIN index, NEW a, Before(Fifo', a, b)
  PROVE  Before(Fifo, a, b)
<1>1. StepShape
  BY NextShape
<1>2. PICK c, len : QueueChain(c, len)
  BY FifoFacts
<1>3. Fifo \in Seq(RestingOrder) /\ DOMAIN Fifo = 1..Len(Fifo) /\ Len(Fifo) \in Nat
  BY <1>2 DEF QueueChain
<1>4. PICK i, j \in DOMAIN Fifo' : i < j /\ Fifo'[i].id = a /\ Fifo'[j].id = b
  BY DEF Before
<1>5. ASSUME NEW n, DropNode(n)
      PROVE  Before(Fifo, a, b)
  <2>1. PICK k \in DOMAIN Fifo :
          /\ DOMAIN Fifo' = 1..Len(Fifo) - 1
          /\ \A m \in 1..Len(Fifo) - 1 : Fifo'[m] = IF m < k THEN Fifo[m] ELSE Fifo[m + 1]
    BY <1>5, DropFifo
  <2> DEFINE old(m) == IF m < k THEN m ELSE m + 1
  <2>2. \A m \in DOMAIN Fifo' : old(m) \in DOMAIN Fifo /\ Fifo'[m] = Fifo[old(m)]
    BY <1>3, <2>1
  <2>3. old(i) < old(j)
    BY <1>3, <1>4, <2>1
  <2> QED
    BY <1>4, <2>2, <2>3 DEF Before
<1>6. ASSUME NEW n, NEW ro \in RestingOrder, ro.id \notin DOMAIN index, AddNode(n, ro)
      PROVE  Before(Fifo, a, b)
  <2>1. Fifo' = Append(Fifo, ro)
    BY <1>6, AddFifo
  <2>2. /\ DOMAIN Fifo' = 1..Len(Fifo) + 1 /\ Fifo'[Len(Fifo) + 1] = ro
        /\ \A m \in 1..Len(Fifo) : Fifo'[m] = Fifo[m]
    BY <1>3, <2>1, AppendProperties
  <2>3. j # Len(Fifo) + 1
    BY <1>4, <1>6, <2>2
  <2>4. i \in 1..Len(Fifo) /\ j \in 1..Len(Fifo)
    BY <1>3, <1>4, <2>2, <2>3
  <2> QED
    BY <1>3, <1>4, <2>2, <2>4 DEF Before
<1>7. ASSUME NEW n, NEW qty, SetQty(n, qty)
      PROVE  Before(Fifo, a, b)
  <2>1. PICK k \in DOMAIN Fifo : Fifo' = [Fifo EXCEPT ![k].qty = qty]
    BY <1>7, SetQtyFifo
  <2>2. DOMAIN Fifo' = DOMAIN Fifo
    BY <1>3, <2>1
  <2>3. \A m \in DOMAIN Fifo : Fifo[m] \in RestingOrder
    BY <1>3
  <2>4. \A m \in DOMAIN Fifo : Fifo'[m].id = Fifo[m].id
    BY <1>3, <2>1, <2>3 DEF RestingOrder
  <2> QED
    BY <1>4, <2>2, <2>4 DEF Before
<1>8. CASE UNCHANGED level
  BY <1>8, SameFifo
<1> QED
  BY <1>1, <1>5, <1>6, <1>7, <1>8 DEF StepShape

(* While an order rests, the orders ahead of it only become fewer.         *)
THEOREM NobodyOvertakes == Spec => NoOvertaking
<1> DEFINE Kept == \A id \in DOMAIN index \cap DOMAIN index' : Ahead(id)' \subseteq Ahead(id)
<1>1. ASSUME IInv, [Next]_vars PROVE Kept
  <2>1. ASSUME NEW id \in DOMAIN index, NEW a \in Ahead(id)' PROVE a \in Ahead(id)
    <3>1. Before(Fifo', a, id)
      BY <2>1 DEF Ahead, Before
    <3>2. Before(Fifo, a, id)
      BY <1>1, <3>1, StepKeepsOrder
    <3> QED
      BY <3>2 DEF Ahead, Before
  <2> QED
    BY <2>1
<1>2. IInv /\ [Next]_vars => [Kept]_vars
  BY <1>1
<1> QED
  BY <1>2, Invariance, PTL DEF Spec, NoOvertaking
=============================================================================
