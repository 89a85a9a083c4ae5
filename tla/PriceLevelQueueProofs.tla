----------------------- MODULE PriceLevelQueueProofs -----------------------
(***************************************************************************)
(* Theorems about PriceLevelQueue for every set of ids and addresses and   *)
(* every bound on quantities and time.                                     *)
(***************************************************************************)
EXTENDS PriceLevelQueue, FiniteSetTheorems, SequenceTheorems, TLAPS

-----------------------------------------------------------------------------
(* The vector operations.                                                  *)

(* The position found is one at which the element is.                      *)
LEMMA PositionFacts ==
  ASSUME NEW S, NEW v \in Seq(S), IsInjective(v), NEW x \in Range(v)
  PROVE  Position(v, x) \in 1..Len(v) /\ v[Position(v, x)] = x
<1>1. PICK p \in 1..Len(v) : v[p] = x
  BY DEF Range
<1>2. \A q \in 1..p - 1 : v[q] # x
  BY <1>1 DEF IsInjective
<1> QED
  BY <1>1, <1>2 DEF Position

(* Popping forgets the last element and nothing else.                      *)
LEMMA PopFacts ==
  ASSUME NEW S, NEW v \in Seq(S), v # <<>>, IsInjective(v)
  PROVE  /\ Pop(v) \in Seq(S) /\ IsInjective(Pop(v))
         /\ v[Len(v)] \in Range(v)
         /\ Range(Pop(v)) = Range(v) \ {v[Len(v)]}
<1>1. Len(v) \in Nat \ {0} /\ \A i \in 1..Len(v) : v[i] \in S
  OBVIOUS
<1>2. /\ Pop(v) \in Seq(S) /\ Len(Pop(v)) = Len(v) - 1
      /\ \A i \in 1..Len(v) - 1 : Pop(v)[i] = v[i]
  BY <1>1 DEF Pop
<1> QED
  BY <1>1, <1>2 DEF Range, IsInjective

(* Pushing a new element adds it and nothing else.                         *)
LEMMA PushFacts ==
  ASSUME NEW S, NEW v \in Seq(S), IsInjective(v), NEW x \in S, x \notin Range(v)
  PROVE  /\ Append(v, x) \in Seq(S) /\ IsInjective(Append(v, x))
         /\ Len(Append(v, x)) = Len(v) + 1
         /\ Range(Append(v, x)) = Range(v) \cup {x}
<1>1. /\ Append(v, x) \in Seq(S)
      /\ Len(Append(v, x)) = Len(v) + 1
      /\ Append(v, x)[Len(v) + 1] = x
      /\ \A i \in 1..Len(v) : Append(v, x)[i] = v[i]
  OBVIOUS
<1> QED
  BY <1>1 DEF Range, IsInjective

(* swap_remove takes out the chosen element and keeps every other one.     *)
LEMMA SwapRemoveFacts ==
  ASSUME NEW S, NEW v \in Seq(S), IsInjective(v), NEW p \in 1..Len(v)
  PROVE  /\ SwapRemove(v, p) \in Seq(S) /\ IsInjective(SwapRemove(v, p))
         /\ Len(SwapRemove(v, p)) = Len(v) - 1
         /\ Range(SwapRemove(v, p)) = Range(v) \ {v[p]}
<1> DEFINE w == SwapRemove(v, p)
<1>1. Len(v) - 1 \in Nat /\ \A i \in 1..Len(v) - 1 : v[i] \in S /\ v[Len(v)] \in S
  OBVIOUS
<1>2. w \in Seq(S) /\ Len(w) = Len(v) - 1
  BY <1>1 DEF SwapRemove
<1>3. \A i \in 1..Len(v) - 1 : w[i] = IF i = p THEN v[Len(v)] ELSE v[i]
  BY DEF SwapRemove
<1>4. IsInjective(w)
  BY <1>1, <1>2, <1>3 DEF IsInjective
<1>5. Range(w) \subseteq Range(v) \ {v[p]}
  BY <1>1, <1>2, <1>3 DEF Range, IsInjective
<1>6. ASSUME NEW x \in Range(v) \ {v[p]}
      PROVE  x \in Range(w)
  <2>1. PICK i \in 1..Len(v) : v[i] = x /\ i # p
    BY DEF Range
  <2>2. CASE i = Len(v)
    <3>1. p \in 1..Len(v) - 1 /\ w[p] = x
      BY <1>3, <2>1, <2>2
    <3> QED
      BY <1>2, <3>1 DEF Range
  <2>3. CASE i # Len(v)
    <3>1. i \in 1..Len(v) - 1 /\ w[i] = x
      BY <1>3, <2>1, <2>3
    <3> QED
      BY <1>2, <3>1 DEF Range
  <2> QED
    BY <2>2, <2>3
<1> QED
  BY <1>2, <1>4, <1>5, <1>6
-----------------------------------------------------------------------------
(* The pointer operations.                                                 *)

(* Unlinking n redirects the two pointers that led to n and changes no     *)
(* order, provided that n is not its own neighbour.                        *)
LEMMA UnlinkFacts ==
  ASSUME NEW D \in SUBSET Nodes, NEW h \in [D -> OrderNode], NEW n \in D,
         h[n].prev \in D \cup {None}, h[n].next \in D \cup {None}, h[n].prev # n
  PROVE  /\ Unlink(h, n) \in [D -> OrderNode]
         /\ \A m \in D :
              /\ Unlink(h, n)[m].ro = h[m].ro
              /\ Unlink(h, n)[m].next = IF m = h[n].prev THEN h[n].next ELSE h[m].next
              /\ Unlink(h, n)[m].prev = IF m = h[n].next THEN h[n].prev ELSE h[m].prev
<1> DEFINE h1 == SetNext(h, h[n].prev, h[n].next)
           h2 == SetPrev(h1, h1[n].next, h1[n].prev)
<1>1. None \notin D
  BY NoneAssumption
<1>2. \A m \in D : /\ h[m].ro \in RestingOrder
                    /\ h[m].prev \in Pointers /\ h[m].next \in Pointers
                    /\ h[m] = [ro |-> h[m].ro, prev |-> h[m].prev, next |-> h[m].next]
  BY DEF OrderNode
<1>3. /\ h1 \in [D -> OrderNode]
      /\ \A m \in D : /\ h1[m].ro = h[m].ro /\ h1[m].prev = h[m].prev
                       /\ h1[m].next = IF m = h[n].prev THEN h[n].next ELSE h[m].next
  BY <1>1, <1>2 DEF SetNext, OrderNode
<1>4. h1[n].next = h[n].next /\ h1[n].prev = h[n].prev
  BY <1>3
<1> HIDE DEF h1
<1>5. /\ h2 \in [D -> OrderNode]
      /\ \A m \in D : /\ h2[m].ro = h1[m].ro /\ h2[m].next = h1[m].next
                       /\ h2[m].prev = IF m = h[n].next THEN h[n].prev ELSE h1[m].prev
  BY <1>1, <1>2, <1>3, <1>4 DEF SetPrev, OrderNode
<1>6. Unlink(h, n) = h2
  BY DEF Unlink, h1
<1> QED
  BY <1>3, <1>5, <1>6
-----------------------------------------------------------------------------
(* Taking a node out of use, as PopHead and Remove both do.                *)

DropNode(n) ==
  /\ n \in Range(arena)
  /\ heap' = Unlink(heap, n)
  /\ head' = IF heap[n].prev = None THEN heap[n].next ELSE head
  /\ tail' = IF heap[n].next = None THEN heap[n].prev ELSE tail
  /\ index' = Without(index, heap[n].ro.id)
  /\ RemoveFromArena(n)
  /\ now' = now

(* The box of a node in use moves to the freelist.                         *)
LEMMA RemoveFromArenaFacts ==
  ASSUME TypeOK, BoxesOwnedOnce, NEW n \in Range(arena), RemoveFromArena(n)
  PROVE  /\ arena' \in Seq(Nodes) /\ IsInjective(arena')
         /\ Len(arena) \in Nat \ {0} /\ Len(arena') = Len(arena) - 1
         /\ Range(arena') = Range(arena) \ {n}
         /\ freelist' \in Seq(Nodes) /\ IsInjective(freelist')
         /\ Range(freelist') = Range(freelist) \cup {n}
<1> DEFINE p == Position(arena, n)
<1>1. /\ arena \in Seq(Nodes) /\ freelist \in Seq(Nodes) /\ n \in Nodes
      /\ IsInjective(arena) /\ IsInjective(freelist)
  BY DEF TypeOK, BoxesOwnedOnce, Range
<1>2. p \in 1..Len(arena) /\ arena[p] = n
  BY <1>1, PositionFacts
<1>3. arena' = SwapRemove(arena, p) /\ freelist' = Append(freelist, n)
  BY DEF RemoveFromArena
<1>4. n \notin Range(freelist)
  BY DEF BoxesOwnedOnce
<1>5. Len(arena) \in Nat \ {0}
  BY <1>1, <1>2
<1> HIDE DEF p
<1>6. /\ SwapRemove(arena, p) \in Seq(Nodes) /\ IsInjective(SwapRemove(arena, p))
      /\ Len(SwapRemove(arena, p)) = Len(arena) - 1
      /\ Range(SwapRemove(arena, p)) = Range(arena) \ {arena[p]}
  BY <1>1, <1>2, SwapRemoveFacts
<1>7. /\ Append(freelist, n) \in Seq(Nodes) /\ IsInjective(Append(freelist, n))
      /\ Range(Append(freelist, n)) = Range(freelist) \cup {n}
  BY <1>1, <1>4, PushFacts
<1> QED
  BY <1>2, <1>3, <1>5, <1>6, <1>7

(* What a chain says of the node at position k, and of being in use.       *)
LEMMA ChainFacts ==
  ASSUME TypeOK, BoxesOwnedOnce, NEW c \in [1..Len(arena) -> Nodes], IsChain(c)
  PROVE  /\ Len(arena) \in Nat
         /\ Range(c) = Range(arena)
         /\ \A i \in 1..Len(arena) : c[i] \in Range(arena) /\ c[i] \in DOMAIN heap
         /\ \A i, j \in 1..Len(arena) : c[i] = c[j] => i = j
         /\ \A n \in Range(arena) : \E i \in 1..Len(arena) : n = c[i]
<1>1. Len(arena) \in Nat
  BY DEF TypeOK
<1>2. IsInjective(c) /\ Range(c) = Range(arena) /\ Range(arena) \subseteq DOMAIN heap
  BY DEF IsChain, BoxesOwnedOnce
<1>3. Range(c) = {c[i] : i \in 1..Len(arena)}
  BY DEF Range
<1>4. \A i, j \in 1..Len(arena) : c[i] = c[j] => i = j
  BY <1>2 DEF IsInjective
<1> QED
  BY <1>1, <1>2, <1>3, <1>4

(* A chain without its k-th node, and a chain with a node behind it.       *)
ChainWithout(c, len, k) == [i \in 1..len - 1 |-> IF i < k THEN c[i] ELSE c[i + 1]]
ChainWith(c, len, n) == [i \in 1..len + 1 |-> IF i <= len THEN c[i] ELSE n]

(* The list closes up around the dropped node.                             *)
LEMMA DropChain ==
  ASSUME IInv, NEW n, DropNode(n), NEW len \in Nat, len = Len(arena),
         NEW c \in [1..len -> Nodes], IsChain(c), NEW k \in 1..len, n = c[k],
         NEW d, d = ChainWithout(c, len, k)
  PROVE  /\ heap' \in [DOMAIN heap -> OrderNode]
         /\ \A m \in DOMAIN heap : heap'[m].ro = heap[m].ro
         /\ head' \in Pointers /\ tail' \in Pointers
         /\ Len(arena') = len - 1
         /\ d \in [1..len - 1 -> Nodes] /\ IsChain(d)'
<1> USE DEF DropNode
<1>1. TypeOK /\ BoxesOwnedOnce /\ n \in Range(arena)
  BY DEF IInv
<1>3. /\ len \in Nat /\ Range(c) = Range(arena)
      /\ \A i \in 1..len : c[i] \in Range(arena) /\ c[i] \in DOMAIN heap
      /\ \A i, j \in 1..len : c[i] = c[j] => i = j
      /\ \A m \in Range(arena) : \E i \in 1..len : m = c[i]
  BY <1>1, ChainFacts
<1>5. /\ head = c[1] /\ tail = c[len]
      /\ \A i \in 1..len : /\ heap[c[i]].prev = IF i = 1 THEN None ELSE c[i - 1]
                           /\ heap[c[i]].next = IF i = len THEN None ELSE c[i + 1]
  BY <1>3 DEF IsChain
<1>6. /\ heap \in [DOMAIN heap -> OrderNode] /\ DOMAIN heap \in SUBSET Nodes
      /\ n \in DOMAIN heap
  BY <1>1, <1>3 DEF TypeOK
<1>7. /\ heap[n].prev = IF k = 1 THEN None ELSE c[k - 1]
      /\ heap[n].next = IF k = len THEN None ELSE c[k + 1]
  BY <1>5
<1>8. /\ heap[n].prev \in DOMAIN heap \cup {None}
      /\ heap[n].next \in DOMAIN heap \cup {None}
      /\ heap[n].prev # n
  BY <1>3, <1>6, <1>7, NoneAssumption
<1>9. /\ heap' \in [DOMAIN heap -> OrderNode]
      /\ \A m \in DOMAIN heap :
           /\ heap'[m].ro = heap[m].ro
           /\ heap'[m].next = IF m = heap[n].prev THEN heap[n].next ELSE heap[m].next
           /\ heap'[m].prev = IF m = heap[n].next THEN heap[n].prev ELSE heap[m].prev
  <2>1. heap' = Unlink(heap, n)
    OBVIOUS
  <2>2. /\ Unlink(heap, n) \in [DOMAIN heap -> OrderNode]
        /\ \A m \in DOMAIN heap :
             LET g == Unlink(heap, n) IN
             /\ g[m].ro = heap[m].ro
             /\ g[m].next = IF m = heap[n].prev THEN heap[n].next ELSE heap[m].next
             /\ g[m].prev = IF m = heap[n].next THEN heap[n].prev ELSE heap[m].prev
    BY ONLY <1>6, <1>8, UnlinkFacts
  <2> QED
    BY ONLY <2>1, <2>2
<1>10. head' \in Pointers /\ tail' \in Pointers
  BY <1>1, <1>6, <1>8 DEF TypeOK, Pointers
<1>11. /\ Range(arena') = Range(arena) \ {n} /\ Len(arena') = len - 1
       /\ now' = now
  BY <1>1, RemoveFromArenaFacts
<1>13. /\ d \in [1..len - 1 -> Nodes] /\ DOMAIN d = 1..len - 1
       /\ \A i \in 1..len - 1 : d[i] = IF i < k THEN c[i] ELSE c[i + 1]
  BY <1>3 DEF ChainWithout
<1>14. IsInjective(d)
  BY <1>3, <1>13 DEF IsInjective
<1>15. Range(d) = Range(arena) \ {n}
  <2>1. Range(d) \subseteq Range(arena) \ {n}
    <3>1. ASSUME NEW i \in 1..len - 1
          PROVE  d[i] \in Range(arena) /\ d[i] # n
      <4>1. PICK j \in 1..len : j # k /\ d[i] = c[j]
        BY <1>13
      <4> QED
        BY <1>3, <4>1
    <3> QED
      BY <1>13, <3>1 DEF Range
  <2>2. ASSUME NEW m \in Range(arena), m # n
        PROVE  m \in Range(d)
    <3>1. PICK i \in 1..len : m = c[i]
      BY <1>3
    <3>2. CASE i < k
      <4>1. i \in 1..len - 1 /\ d[i] = m
        BY <1>3, <1>13, <3>1, <3>2
      <4> QED
        BY <1>13, <4>1 DEF Range
    <3>3. CASE i > k
      <4>1. i - 1 \in 1..len - 1 /\ d[i - 1] = m
        BY <1>3, <1>13, <3>1, <3>3
      <4> QED
        BY <1>13, <4>1 DEF Range
    <3> QED
      BY <1>3, <2>2, <3>1, <3>2, <3>3
  <2> QED
    BY <2>1, <2>2
<1>16. /\ head' = IF len - 1 = 0 THEN None ELSE d[1]
       /\ tail' = IF len - 1 = 0 THEN None ELSE d[len - 1]
  <2>1. /\ head' = IF heap[n].prev = None THEN heap[n].next ELSE head
        /\ tail' = IF heap[n].next = None THEN heap[n].prev ELSE tail
    OBVIOUS
  <2>2. \A i \in 1..len : c[i] # None
    BY NoneAssumption
  <2>3. head' = IF k = 1 THEN heap[n].next ELSE c[1]
    BY <1>3, <1>5, <1>7, <2>1, <2>2
  <2>4. tail' = IF k = len THEN heap[n].prev ELSE c[len]
    BY <1>3, <1>5, <1>7, <2>1, <2>2
  <2>5. CASE len = 1
    <3>1. k = 1 /\ len - 1 = 0 /\ heap[n].next = None /\ heap[n].prev = None
      BY <1>7, <2>5
    <3> QED
      BY <2>3, <2>4, <2>5, <3>1
  <2>6. CASE len # 1
    <3>1. len \in Nat /\ 2 <= len /\ k \in Nat /\ 1 <= k /\ k <= len
      BY <1>3, <2>6
    <3>2. 1 \in 1..len - 1 /\ len - 1 \in 1..len - 1 /\ (len - 1) + 1 = len
      BY ONLY <3>1
    <3>3. d[1] = IF 1 < k THEN c[1] ELSE c[2]
      BY <1>13, <3>2
    <3>4. d[len - 1] = IF len - 1 < k THEN c[len - 1] ELSE c[len]
      BY <1>13, <3>2
    <3>5. head' = d[1]
      BY ONLY <1>7, <2>3, <3>1, <3>3
    <3>6. tail' = d[len - 1]
      BY ONLY <1>7, <2>4, <3>1, <3>4
    <3> QED
      BY ONLY <3>1, <3>5, <3>6
  <2> QED
    BY <2>5, <2>6
<1>17. ASSUME NEW i \in 1..len - 1
       PROVE  /\ heap'[d[i]].prev = IF i = 1 THEN None ELSE d[i - 1]
              /\ heap'[d[i]].next = IF i = len - 1 THEN None ELSE d[i + 1]
  <2>1. CASE i < k
    <3>1. d[i] = c[i] /\ c[i] \in DOMAIN heap /\ i \in 1..len
      BY <1>3, <1>13, <2>1
    <3>2. heap'[c[i]].prev = heap[c[i]].prev
      BY <1>3, <1>6, <1>7, <1>9, <2>1, <3>1, NoneAssumption
    <3>3. heap'[c[i]].next = IF i = k - 1 THEN heap[n].next ELSE heap[c[i]].next
      BY <1>3, <1>6, <1>7, <1>9, <2>1, <3>1, NoneAssumption
    <3>4. heap[c[i]].prev = IF i = 1 THEN None ELSE c[i - 1]
      BY <1>5, <3>1
    <3>5. i # 1 => d[i - 1] = c[i - 1]
      BY <1>13, <2>1
    <3>6. CASE i = k - 1
      <4>1. heap'[c[i]].next = IF i = len - 1 THEN None ELSE c[i + 2]
        BY <1>7, <3>3, <3>6
      <4>2. i # len - 1 => d[i + 1] = c[i + 2]
        BY <1>13, <3>6
      <4> QED
        BY <3>1, <3>2, <3>4, <3>5, <4>1, <4>2
    <3>7. CASE i # k - 1
      <4>1. i # len - 1 /\ i # len
        BY <2>1, <3>7
      <4>2. heap'[c[i]].next = c[i + 1]
        BY <1>5, <3>1, <3>3, <3>7, <4>1
      <4>3. d[i + 1] = c[i + 1]
        BY <1>13, <2>1, <3>7, <4>1
      <4> QED
        BY <3>1, <3>2, <3>4, <3>5, <4>1, <4>2, <4>3
    <3> QED
      BY <3>6, <3>7
  <2>2. CASE i >= k
    <3>1. d[i] = c[i + 1] /\ c[i + 1] \in DOMAIN heap /\ i + 1 \in 1..len
      BY <1>3, <1>13, <2>2
    <3>2. heap'[c[i + 1]].next = heap[c[i + 1]].next
      BY <1>3, <1>6, <1>7, <1>9, <2>2, <3>1, NoneAssumption
    <3>3. heap'[c[i + 1]].prev = IF i = k THEN heap[n].prev ELSE heap[c[i + 1]].prev
      BY <1>3, <1>6, <1>7, <1>9, <2>2, <3>1, NoneAssumption
    <3>4. heap[c[i + 1]].next = IF i + 1 = len THEN None ELSE c[i + 2]
      BY <1>5, <3>1
    <3>5. i # len - 1 => d[i + 1] = c[i + 2]
      BY <1>13, <2>2
    <3>6. CASE i = k
      <4>1. heap'[c[i + 1]].prev = IF i = 1 THEN None ELSE c[i - 1]
        BY <1>7, <3>3, <3>6
      <4>2. i # 1 => d[i - 1] = c[i - 1]
        BY <1>13, <3>6
      <4> QED
        BY <3>1, <3>2, <3>4, <3>5, <4>1, <4>2
    <3>7. CASE i # k
      <4>1. i # 1
        BY <2>2, <3>7
      <4>2. heap'[c[i + 1]].prev = c[i]
        BY <1>5, <3>1, <3>3, <3>7
      <4>3. d[i - 1] = c[i]
        BY <1>13, <2>2, <3>7, <4>1
      <4> QED
        BY <3>1, <3>2, <3>4, <3>5, <4>1, <4>2, <4>3
    <3> QED
      BY <3>6, <3>7
  <2> QED
    BY <2>1, <2>2
<1>18. IsChain(d)'
  BY <1>11, <1>14, <1>15, <1>16, <1>17 DEF IsChain
<1> QED
  BY <1>9, <1>10, <1>11, <1>13, <1>18

(* And it stays in time order.                                             *)
LEMMA DropKeepsTimePriority ==
  ASSUME IInv, NEW n, DropNode(n)
  PROVE  /\ heap' \in [DOMAIN heap -> OrderNode]
         /\ \A m \in DOMAIN heap : heap'[m].ro = heap[m].ro
         /\ head' \in Pointers /\ tail' \in Pointers
         /\ TimePriority'
<1>1. TypeOK /\ BoxesOwnedOnce /\ TimePriority /\ n \in Range(arena) /\ now' = now
  BY DEF IInv, DropNode
<1>len. PICK len \in Nat : len = Len(arena)
  BY <1>1 DEF TypeOK
<1>2. PICK c \in [1..len -> Nodes] :
        /\ IsChain(c)
        /\ \A i, j \in 1..len :
             i <= j => heap[c[i]].ro.timestamp_ns <= heap[c[j]].ro.timestamp_ns
        /\ \A m \in Range(arena) : heap[m].ro.timestamp_ns <= now
  BY <1>1, <1>len DEF TimePriority
<1>3. /\ len \in Nat /\ Range(c) = Range(arena)
      /\ \A i \in 1..len : c[i] \in Range(arena) /\ c[i] \in DOMAIN heap
      /\ \A i, j \in 1..len : c[i] = c[j] => i = j
      /\ \A m \in Range(arena) : \E i \in 1..len : m = c[i]
  BY <1>1, <1>2, <1>len, ChainFacts
<1>4. PICK k \in 1..len : n = c[k]
  BY <1>1, <1>3
<1>5. PICK d : d = ChainWithout(c, len, k)
  OBVIOUS
<1>6. /\ heap' \in [DOMAIN heap -> OrderNode]
      /\ \A m \in DOMAIN heap : heap'[m].ro = heap[m].ro
      /\ head' \in Pointers /\ tail' \in Pointers
      /\ Len(arena') = len - 1
      /\ d \in [1..len - 1 -> Nodes] /\ IsChain(d)'
  BY <1>2, <1>4, <1>5, <1>len, DropChain
<1>7. \A i \in 1..len - 1 : d[i] = IF i < k THEN c[i] ELSE c[i + 1]
  BY <1>5 DEF ChainWithout
<1>8. \A i, j \in 1..len - 1 :
         i <= j => heap'[d[i]].ro.timestamp_ns <= heap'[d[j]].ro.timestamp_ns
  <2>1. ASSUME NEW i \in 1..len - 1, NEW j \in 1..len - 1, i <= j
        PROVE  heap'[d[i]].ro.timestamp_ns <= heap'[d[j]].ro.timestamp_ns
    <3>1. PICK x \in 1..len : x = IF i < k THEN i ELSE i + 1
      OBVIOUS
    <3>2. PICK y \in 1..len : y = IF j < k THEN j ELSE j + 1
      OBVIOUS
    <3>3. x <= y
      BY <2>1, <3>1, <3>2
    <3>4. d[i] = c[x] /\ d[j] = c[y]
      BY <1>7, <3>1, <3>2
    <3>5. heap'[c[x]].ro = heap[c[x]].ro /\ heap'[c[y]].ro = heap[c[y]].ro
      BY <1>3, <1>6
    <3> QED
      BY <1>2, <3>3, <3>4, <3>5
  <2> QED
    BY <2>1
<1>9. Range(arena') \subseteq Range(arena) /\ Range(arena) \subseteq DOMAIN heap
  BY <1>1, RemoveFromArenaFacts DEF DropNode, BoxesOwnedOnce
<1>10. \A m \in Range(arena') : heap'[m].ro.timestamp_ns <= now'
  BY <1>1, <1>2, <1>6, <1>9
<1>11. TimePriority'
  BY <1>6, <1>8, <1>10 DEF TimePriority
<1> QED
  BY <1>6, <1>11

(* Box and index leave the level together with the node.                   *)
LEMMA DropKeepsOwnership ==
  ASSUME IInv, NEW n, DropNode(n)
  PROVE  /\ DOMAIN index' \subseteq OrderIds /\ index' \in [DOMAIN index' -> Nodes]
         /\ arena' \in Seq(Nodes) /\ freelist' \in Seq(Nodes)
         /\ BoxesOwnedOnce' /\ IndexExact'
<1> USE DEF DropNode
<1>1. TypeOK /\ BoxesOwnedOnce /\ IndexExact /\ n \in Range(arena)
  BY DEF IInv
<1>2. /\ arena' \in Seq(Nodes) /\ IsInjective(arena')
      /\ Range(arena') = Range(arena) \ {n}
      /\ freelist' \in Seq(Nodes) /\ IsInjective(freelist')
      /\ Range(freelist') = Range(freelist) \cup {n}
  BY <1>1, RemoveFromArenaFacts
<1>3. /\ DOMAIN heap' = DOMAIN heap
      /\ \A m \in DOMAIN heap : heap'[m].ro = heap[m].ro
  BY DropKeepsTimePriority
<1>4. BoxesOwnedOnce'
  BY <1>1, <1>2, <1>3 DEF BoxesOwnedOnce
<1>5. /\ DOMAIN index \subseteq OrderIds /\ index \in [DOMAIN index -> Nodes]
      /\ Range(arena) \subseteq DOMAIN heap
  BY <1>1 DEF TypeOK, BoxesOwnedOnce
<1> DEFINE gone == heap[n].ro.id
<1>6. index[gone] = n
  BY <1>1 DEF IndexExact
<1>7. /\ DOMAIN index' = DOMAIN index \ {gone}
      /\ \A id \in DOMAIN index' : index'[id] = index[id]
      /\ index' \in [DOMAIN index' -> Nodes]
  BY <1>5 DEF Without, Restrict
<1> HIDE DEF gone
<1>8. ASSUME NEW id \in DOMAIN index'
      PROVE  index'[id] \in Range(arena') /\ heap'[index'[id]].ro.id = id
  <2>1. id \in DOMAIN index /\ id # gone /\ index'[id] = index[id]
    BY <1>7
  <2>2. index[id] \in Range(arena) /\ heap[index[id]].ro.id = id
    BY <1>1, <2>1 DEF IndexExact
  <2>3. index[id] # n
    BY <2>1, <2>2 DEF gone
  <2> QED
    BY <1>2, <1>3, <1>5, <2>1, <2>2, <2>3
<1>9. ASSUME NEW m \in Range(arena')
      PROVE  heap'[m].ro.id \in DOMAIN index' /\ index'[heap'[m].ro.id] = m
  <2>1. m \in Range(arena) /\ m # n /\ heap'[m].ro = heap[m].ro
    BY <1>2, <1>3, <1>5
  <2>2. heap[m].ro.id \in DOMAIN index /\ index[heap[m].ro.id] = m
    BY <1>1, <2>1 DEF IndexExact
  <2>3. heap[m].ro.id # gone
    BY <1>6, <2>1, <2>2
  <2> QED
    BY <1>7, <2>1, <2>2, <2>3
<1>10. IndexExact'
  BY <1>8, <1>9 DEF IndexExact
<1> QED
  BY <1>2, <1>4, <1>5, <1>7, <1>10

(* Dropping a node preserves the invariant.                                *)
LEMMA DropPreserves ==
  ASSUME IInv, NEW n, DropNode(n), reply' \in Replies
  PROVE  IInv'
<1>1. TypeOK /\ now' = now
  BY DEF IInv, DropNode
<1>2. /\ heap' \in [DOMAIN heap -> OrderNode]
      /\ head' \in Pointers /\ tail' \in Pointers /\ TimePriority'
  BY DropKeepsTimePriority
<1>3. /\ DOMAIN index' \subseteq OrderIds /\ index' \in [DOMAIN index' -> Nodes]
      /\ arena' \in Seq(Nodes) /\ freelist' \in Seq(Nodes)
      /\ BoxesOwnedOnce' /\ IndexExact'
  BY DropKeepsOwnership
<1>4. TypeOK'
  BY <1>1, <1>2, <1>3 DEF TypeOK
<1> QED
  BY <1>2, <1>3, <1>4 DEF IInv

(* The head of a level that is not empty is in use and nothing precedes it. *)
LEMMA HeadFacts ==
  ASSUME IInv, head # None
  PROVE  head \in Range(arena) /\ heap[head].prev = None
<1>1. TypeOK /\ BoxesOwnedOnce /\ TimePriority
  BY DEF IInv
<1>2. PICK c \in [1..Len(arena) -> Nodes] : IsChain(c)
  BY <1>1 DEF TimePriority
<1>3. PICK len \in Nat : len = Len(arena)
  BY <1>1 DEF TypeOK
<1>4. /\ head = IF len = 0 THEN None ELSE c[1]
      /\ \A i \in 1..len : heap[c[i]].prev = IF i = 1 THEN None ELSE c[i - 1]
  BY <1>2, <1>3 DEF IsChain
<1>5. 1 \in 1..len /\ head = c[1]
  BY <1>3, <1>4
<1>6. c[1] \in Range(arena)
  BY <1>1, <1>2, <1>3, <1>5, ChainFacts
<1> QED
  BY <1>4, <1>5, <1>6

(* A full fill drops the head node: unlinking a node that nothing precedes *)
(* amounts to clearing the prev of its successor.                          *)
LEMMA PopHeadDrops ==
  ASSUME IInv, head # None, PopHead
  PROVE  DropNode(head)
<1>1. /\ head' = heap[head].next
      /\ tail' = IF heap[head].next = None THEN None ELSE tail
      /\ heap' = SetPrev(heap, heap[head].next, None)
      /\ index' = Without(index, heap[head].ro.id)
      /\ RemoveFromArena(head) /\ now' = now
  BY DEF PopHead
<1>2. head \in Range(arena) /\ heap[head].prev = None
  BY HeadFacts
<1>3. Unlink(heap, head) = SetPrev(heap, heap[head].next, None)
  BY <1>2 DEF Unlink, SetNext
<1> QED
  BY <1>1, <1>2, <1>3 DEF DropNode

(* A cancel drops the node the index names.                                *)
LEMMA RemoveDrops ==
  ASSUME IInv, NEW id \in DOMAIN index, Remove(id)
  PROVE  DropNode(index[id])
<1>1. index[id] \in Range(arena) /\ heap[index[id]].ro.id = id
  BY DEF IInv, IndexExact
<1> QED
  BY <1>1 DEF Remove, DropNode
-----------------------------------------------------------------------------
(* Putting a node into use.                                                *)

(* What an accepted insert does with the node n it got.                    *)
AddNode(n, ro) ==
  /\ n \in Nodes /\ TakeNode(n)
  /\ heap' = LinkAtTail(Put(heap, n, [ro |-> ro, prev |-> None, next |-> None]), n, tail)
  /\ head' = IF tail = None THEN n ELSE head
  /\ tail' = n
  /\ index' = Put(index, ro.id, n)
  /\ arena' = Append(arena, n)
  /\ now' = now

(* A node taken was not in use; from the freelist or fresh, the arena owns *)
(* it now and the freelist does not.                                       *)
LEMMA AddNodeBoxes ==
  ASSUME TypeOK, BoxesOwnedOnce, NEW n, NEW ro, AddNode(n, ro)
  PROVE  /\ n \in Nodes /\ n \notin Range(arena)
         /\ arena' \in Seq(Nodes) /\ IsInjective(arena')
         /\ Len(arena') = Len(arena) + 1 /\ Range(arena') = Range(arena) \cup {n}
         /\ freelist' \in Seq(Nodes) /\ IsInjective(freelist')
         /\ Range(freelist') = Range(freelist) \ {n}
         /\ DOMAIN heap \cup {n} = Range(arena') \cup Range(freelist')
<1>1. /\ arena \in Seq(Nodes) /\ freelist \in Seq(Nodes)
      /\ IsInjective(arena) /\ IsInjective(freelist)
      /\ Range(arena) \cap Range(freelist) = {}
      /\ DOMAIN heap = Range(arena) \cup Range(freelist)
  BY DEF TypeOK, BoxesOwnedOnce
<1>2. n \in Nodes /\ TakeNode(n) /\ arena' = Append(arena, n)
  BY DEF AddNode
<1>3. /\ n \notin Range(arena)
      /\ freelist' \in Seq(Nodes) /\ IsInjective(freelist')
      /\ Range(freelist') = Range(freelist) \ {n}
  <2>1. CASE freelist # <<>> /\ n = freelist[Len(freelist)] /\ freelist' = Pop(freelist)
    BY <1>1, <2>1, PopFacts
  <2>2. CASE freelist = <<>> /\ n \in Nodes \ DOMAIN heap /\ UNCHANGED freelist
    BY <1>1, <2>2
  <2> QED
    BY <1>2, <2>1, <2>2 DEF TakeNode
<1>4. /\ arena' \in Seq(Nodes) /\ IsInjective(arena')
      /\ Len(arena') = Len(arena) + 1 /\ Range(arena') = Range(arena) \cup {n}
  BY <1>1, <1>2, <1>3, PushFacts
<1> QED
  BY <1>1, <1>2, <1>3, <1>4

(* The list grows by n at its end.                                         *)
LEMMA AddChain ==
  ASSUME IInv, NEW n, NEW ro \in RestingOrder, AddNode(n, ro),
         NEW len \in Nat, len = Len(arena), NEW c \in [1..len -> Nodes], IsChain(c),
         NEW d, d = ChainWith(c, len, n)
  PROVE  /\ heap' \in [DOMAIN heap \cup {n} -> OrderNode]
         /\ heap'[n].ro = ro
         /\ \A m \in DOMAIN heap \ {n} : heap'[m].ro = heap[m].ro
         /\ head' \in Pointers /\ tail' \in Pointers
         /\ Len(arena') = len + 1
         /\ d \in [1..len + 1 -> Nodes] /\ IsChain(d)'
<1>1. TypeOK /\ BoxesOwnedOnce
  BY DEF IInv
<1>2. /\ n \in Nodes /\ n \notin Range(arena)
      /\ Len(arena') = Len(arena) + 1 /\ Range(arena') = Range(arena) \cup {n}
  BY <1>1, AddNodeBoxes
<1>5. /\ Range(c) = Range(arena) /\ IsInjective(c)
      /\ \A i \in 1..len : c[i] \in Range(arena) /\ c[i] \in DOMAIN heap /\ c[i] # n
      /\ \A i, j \in 1..len : c[i] = c[j] => i = j
  <2>1. c \in [1..Len(arena) -> Nodes] /\ IsChain(c)
    OBVIOUS
  <2>2. /\ Range(c) = Range(arena)
        /\ \A i \in 1..Len(arena) : c[i] \in Range(arena) /\ c[i] \in DOMAIN heap
        /\ \A i, j \in 1..Len(arena) : c[i] = c[j] => i = j
    BY ONLY <1>1, <2>1, ChainFacts
  <2> QED
    BY <1>2, <2>1, <2>2 DEF IsChain
<1>6. /\ head = IF len = 0 THEN None ELSE c[1]
      /\ tail = IF len = 0 THEN None ELSE c[len]
      /\ \A i \in 1..len : /\ heap[c[i]].prev = IF i = 1 THEN None ELSE c[i - 1]
                           /\ heap[c[i]].next = IF i = len THEN None ELSE c[i + 1]
  BY DEF IsChain
<1>7. /\ heap \in [DOMAIN heap -> OrderNode] /\ DOMAIN heap \in SUBSET Nodes
      /\ tail \in (DOMAIN heap \ {n}) \cup {None}
  BY <1>1, <1>5, <1>6 DEF TypeOK
<1>8. /\ heap' \in [DOMAIN heap \cup {n} -> OrderNode]
      /\ heap'[n].ro = ro /\ heap'[n].prev = tail /\ heap'[n].next = None
      /\ \A m \in DOMAIN heap \ {n} :
           /\ heap'[m].ro = heap[m].ro /\ heap'[m].prev = heap[m].prev
           /\ heap'[m].next = IF m = tail THEN n ELSE heap[m].next
  <2> DEFINE node == [ro |-> ro, prev |-> None, next |-> None]
             h0 == Put(heap, n, node)
             h1 == SetNext(h0, tail, n)
             h2 == SetPrev(h1, n, tail)
  <2>1. None \notin DOMAIN heap /\ n # None /\ n # tail
    BY <1>2, <1>7, NoneAssumption
  <2>2. node \in OrderNode
    BY DEF OrderNode, Pointers
  <2>3. /\ h0 \in [DOMAIN heap \cup {n} -> OrderNode] /\ h0[n] = node
        /\ \A m \in DOMAIN heap \ {n} : h0[m] = heap[m]
    BY <1>7, <2>2 DEF Put
  <2>4. heap' = h2
    BY DEF AddNode, LinkAtTail
  <2> HIDE DEF h0
  <2>5. /\ h1 \in [DOMAIN heap \cup {n} -> OrderNode]
        /\ h1[n] = node
        /\ \A m \in DOMAIN heap \ {n} :
             /\ h1[m].ro = heap[m].ro /\ h1[m].prev = heap[m].prev
             /\ h1[m].next = IF m = tail THEN n ELSE heap[m].next
    BY <1>2, <1>7, <2>1, <2>2, <2>3 DEF SetNext, OrderNode, Pointers
  <2> HIDE DEF h1
  <2>6. /\ h2 \in [DOMAIN heap \cup {n} -> OrderNode]
        /\ h2[n].ro = ro /\ h2[n].prev = tail /\ h2[n].next = None
        /\ \A m \in DOMAIN heap \ {n} : h2[m] = h1[m]
    BY <1>7, <2>1, <2>5 DEF SetPrev, OrderNode, Pointers
  <2> QED
    BY <2>4, <2>5, <2>6
<1>9. head' = (IF tail = None THEN n ELSE head) /\ tail' = n /\ now' = now
  BY DEF AddNode
<1>11. /\ d \in [1..len + 1 -> Nodes] /\ DOMAIN d = 1..len + 1
       /\ d[len + 1] = n /\ \A i \in 1..len : d[i] = c[i]
  BY <1>2 DEF ChainWith
<1>12. IsInjective(d)
  BY <1>5, <1>11 DEF IsInjective
<1>13. Range(d) = Range(arena) \cup {n}
  <2>1. Range(d) = {d[i] : i \in 1..len + 1} /\ Range(c) = {c[i] : i \in 1..len}
    BY <1>11 DEF Range
  <2> QED
    BY <1>5, <1>11, <2>1
<1>14. head' = d[1] /\ tail' = d[len + 1]
  <2>1. CASE len = 0
    BY <1>6, <1>9, <1>11, <2>1
  <2>2. CASE len # 0
    <3>1. 1 \in 1..len /\ len \in 1..len
      BY <2>2
    <3>2. tail = c[len] /\ c[len] # None /\ head = c[1] /\ d[1] = c[1]
      BY <1>6, <1>11, <2>2, <3>1, NoneAssumption
    <3> QED
      BY <1>9, <1>11, <3>2
  <2> QED
    BY <2>1, <2>2
<1>15. ASSUME NEW i \in 1..len
       PROVE  /\ heap'[d[i]].prev = IF i = 1 THEN None ELSE d[i - 1]
              /\ heap'[d[i]].next = d[i + 1]
  <2>1. d[i] = c[i] /\ c[i] \in DOMAIN heap \ {n} /\ len \in 1..len /\ tail = c[len]
    BY <1>5, <1>6, <1>11
  <2>2. heap'[d[i]].prev = IF i = 1 THEN None ELSE c[i - 1]
    BY <1>6, <1>8, <2>1
  <2>3. i # 1 => c[i - 1] = d[i - 1]
    BY <1>11
  <2>4. heap'[d[i]].next = IF i = len THEN n ELSE heap[c[i]].next
    BY <1>5, <1>8, <2>1
  <2>5. i # len => heap[c[i]].next = d[i + 1]
    BY <1>6, <1>11
  <2> QED
    BY <1>11, <2>2, <2>3, <2>4, <2>5
<1>16. /\ heap'[d[len + 1]].prev = IF len + 1 = 1 THEN None ELSE d[len]
       /\ heap'[d[len + 1]].next = None
  <2>1. len # 0 => c[len] = d[len]
    BY <1>11
  <2> QED
    BY <1>6, <1>8, <1>11, <2>1
<1>17. \A i \in 1..len + 1 :
         /\ heap'[d[i]].prev = IF i = 1 THEN None ELSE d[i - 1]
         /\ heap'[d[i]].next = IF i = len + 1 THEN None ELSE d[i + 1]
  <2>1. ASSUME NEW i \in 1..len + 1
        PROVE  /\ heap'[d[i]].prev = IF i = 1 THEN None ELSE d[i - 1]
               /\ heap'[d[i]].next = IF i = len + 1 THEN None ELSE d[i + 1]
    <3>1. CASE i = len + 1
      BY <1>16, <3>1
    <3>2. CASE i # len + 1
      <4>1. i \in 1..len
        BY <3>2
      <4> QED
        BY <1>15, <3>2, <4>1
    <3> QED
      BY <3>1, <3>2
  <2> QED
    BY <2>1
<1>18. IsChain(d)'
  BY <1>2, <1>12, <1>13, <1>14, <1>17 DEF IsChain
<1>22. head' \in Pointers /\ tail' \in Pointers
  BY <1>1, <1>2, <1>9 DEF TypeOK, Pointers
<1> QED
  BY <1>2, <1>8, <1>11, <1>18, <1>22

(* And n is not older than the rest.                                       *)
LEMMA AddKeepsTimePriority ==
  ASSUME IInv, NEW n, NEW ro \in RestingOrder, ro.timestamp_ns = now, AddNode(n, ro)
  PROVE  /\ heap' \in [DOMAIN heap \cup {n} -> OrderNode]
         /\ heap'[n].ro = ro
         /\ \A m \in DOMAIN heap \ {n} : heap'[m].ro = heap[m].ro
         /\ head' \in Pointers /\ tail' \in Pointers
         /\ TimePriority'
<1>1. TypeOK /\ BoxesOwnedOnce /\ TimePriority
  BY DEF IInv
<1>2. /\ n \in Nodes /\ n \notin Range(arena)
      /\ Len(arena') = Len(arena) + 1 /\ Range(arena') = Range(arena) \cup {n}
  BY <1>1, AddNodeBoxes
<1>3. PICK len \in Nat : len = Len(arena)
  BY <1>1 DEF TypeOK
<1>4. PICK c \in [1..len -> Nodes] :
        /\ IsChain(c)
        /\ \A i, j \in 1..len :
             i <= j => heap[c[i]].ro.timestamp_ns <= heap[c[j]].ro.timestamp_ns
        /\ \A m \in Range(arena) : heap[m].ro.timestamp_ns <= now
  BY <1>1, <1>3 DEF TimePriority
<1>5. PICK d : d = ChainWith(c, len, n)
  OBVIOUS
<1>8. /\ heap' \in [DOMAIN heap \cup {n} -> OrderNode]
      /\ heap'[n].ro = ro
      /\ \A m \in DOMAIN heap \ {n} : heap'[m].ro = heap[m].ro
      /\ head' \in Pointers /\ tail' \in Pointers
      /\ Len(arena') = len + 1
      /\ d \in [1..len + 1 -> Nodes] /\ IsChain(d)'
  BY <1>3, <1>4, <1>5, AddChain
<1>9. now' = now
  BY DEF AddNode
<1>10. /\ d[len + 1] = n
       /\ \A i \in 1..len : d[i] = c[i] /\ c[i] \in Range(arena) /\ c[i] \in DOMAIN heap \ {n}
  BY <1>1, <1>2, <1>3, <1>4, <1>5, ChainFacts DEF ChainWith
<1>19. \A m \in Range(arena') : heap'[m].ro.timestamp_ns <= now'
  <2>1. \A m \in Range(arena) : m \in DOMAIN heap \ {n}
    BY <1>1, <1>2 DEF BoxesOwnedOnce
  <2>2. now \in Nat
    BY <1>1, MaxTimeAssumption DEF TypeOK, Times
  <2> QED
    BY <1>2, <1>4, <1>8, <1>9, <2>1, <2>2
<1>20. ASSUME NEW i \in 1..len + 1, NEW j \in 1..len + 1, i <= j
       PROVE  heap'[d[i]].ro.timestamp_ns <= heap'[d[j]].ro.timestamp_ns
  <2>1. CASE j = len + 1
    <3>1. d[i] \in Range(arena') /\ heap'[d[j]].ro.timestamp_ns = now
      BY <1>2, <1>8, <1>10, <2>1
    <3> QED
      BY <1>9, <1>19, <3>1
  <2>2. CASE j # len + 1
    <3>1. i \in 1..len /\ j \in 1..len
      BY <1>20, <2>2
    <3> QED
      BY <1>4, <1>8, <1>10, <1>20, <3>1
  <2> QED
    BY <2>1, <2>2
<1>21. TimePriority'
  BY <1>8, <1>19, <1>20 DEF TimePriority
<1> QED
  BY <1>8, <1>21

(* Box and index entry come with the node.                                 *)
LEMMA AddKeepsOwnership ==
  ASSUME IInv, NEW n, NEW ro \in RestingOrder, ro.id \notin DOMAIN index,
         ro.timestamp_ns = now, AddNode(n, ro)
  PROVE  /\ DOMAIN index' \subseteq OrderIds /\ index' \in [DOMAIN index' -> Nodes]
         /\ arena' \in Seq(Nodes) /\ freelist' \in Seq(Nodes)
         /\ BoxesOwnedOnce' /\ IndexExact'
<1>1. TypeOK /\ BoxesOwnedOnce /\ IndexExact
  BY DEF IInv
<1>2. /\ n \in Nodes /\ n \notin Range(arena)
      /\ arena' \in Seq(Nodes) /\ IsInjective(arena')
      /\ Range(arena') = Range(arena) \cup {n}
      /\ freelist' \in Seq(Nodes) /\ IsInjective(freelist')
      /\ Range(freelist') = Range(freelist) \ {n}
      /\ DOMAIN heap \cup {n} = Range(arena') \cup Range(freelist')
  BY <1>1, AddNodeBoxes
<1>3. /\ DOMAIN heap' = DOMAIN heap \cup {n}
      /\ heap'[n].ro = ro
      /\ \A m \in DOMAIN heap \ {n} : heap'[m].ro = heap[m].ro
  BY AddKeepsTimePriority
<1>4. BoxesOwnedOnce'
  BY <1>1, <1>2, <1>3 DEF BoxesOwnedOnce
<1>5. /\ DOMAIN index \subseteq OrderIds /\ index \in [DOMAIN index -> Nodes]
      /\ Range(arena) \subseteq DOMAIN heap
  BY <1>1 DEF TypeOK, BoxesOwnedOnce
<1>6. ro.id \in OrderIds
  BY DEF RestingOrder
<1>7. /\ DOMAIN index' = DOMAIN index \cup {ro.id}
      /\ index'[ro.id] = n
      /\ \A id \in DOMAIN index : index'[id] = index[id]
      /\ index' \in [DOMAIN index' -> Nodes]
  BY <1>2, <1>5 DEF AddNode, Put
<1>8. ASSUME NEW id \in DOMAIN index'
      PROVE  index'[id] \in Range(arena') /\ heap'[index'[id]].ro.id = id
  <2>1. CASE id = ro.id
    BY <1>2, <1>3, <1>7, <2>1
  <2>2. CASE id # ro.id
    <3>1. id \in DOMAIN index /\ index'[id] = index[id]
      BY <1>7, <2>2
    <3>2. index[id] \in Range(arena) /\ heap[index[id]].ro.id = id
      BY <1>1, <3>1 DEF IndexExact
    <3>3. heap'[index[id]].ro = heap[index[id]].ro
      BY <1>2, <1>3, <1>5, <3>2
    <3> QED
      BY <1>2, <3>1, <3>2, <3>3
  <2> QED
    BY <2>1, <2>2
<1>9. ASSUME NEW m \in Range(arena')
      PROVE  heap'[m].ro.id \in DOMAIN index' /\ index'[heap'[m].ro.id] = m
  <2>1. CASE m = n
    BY <1>3, <1>7, <2>1
  <2>2. CASE m # n
    <3>1. m \in Range(arena) /\ heap'[m].ro = heap[m].ro
      BY <1>2, <1>3, <1>5, <2>2
    <3>2. heap[m].ro.id \in DOMAIN index /\ index[heap[m].ro.id] = m
      BY <1>1, <3>1 DEF IndexExact
    <3> QED
      BY <1>7, <3>1, <3>2
  <2> QED
    BY <2>1, <2>2
<1>10. IndexExact'
  BY <1>8, <1>9 DEF IndexExact
<1> QED
  BY <1>2, <1>4, <1>5, <1>6, <1>7, <1>10

(* Adding a node for an id that does not rest preserves the invariant.     *)
LEMMA AddPreserves ==
  ASSUME IInv, NEW n, NEW ro \in RestingOrder, ro.id \notin DOMAIN index,
         ro.timestamp_ns = now, AddNode(n, ro), reply' \in Replies
  PROVE  IInv'
<1>1. TypeOK /\ BoxesOwnedOnce /\ now' = now
  BY DEF IInv, AddNode
<1>2. n \in Nodes
  BY DEF AddNode
<1>3. /\ heap' \in [DOMAIN heap \cup {n} -> OrderNode]
      /\ head' \in Pointers /\ tail' \in Pointers /\ TimePriority'
  BY AddKeepsTimePriority
<1>4. /\ DOMAIN index' \subseteq OrderIds /\ index' \in [DOMAIN index' -> Nodes]
      /\ arena' \in Seq(Nodes) /\ freelist' \in Seq(Nodes)
      /\ BoxesOwnedOnce' /\ IndexExact'
  BY AddKeepsOwnership
<1>5. TypeOK'
  BY <1>1, <1>2, <1>3, <1>4 DEF TypeOK
<1> QED
  BY <1>3, <1>4, <1>5 DEF IInv
-----------------------------------------------------------------------------
(* Changing a quantity.                                                    *)

SetQty(n, qty) ==
  /\ n \in Range(arena) /\ qty \in Quantities
  /\ heap' = [heap EXCEPT ![n].ro.qty = qty]
  /\ UNCHANGED <<head, tail, index, arena, freelist, now>>

(* A new quantity moves no node and touches no id and no timestamp.        *)
LEMMA SetQtyPreserves ==
  ASSUME IInv, NEW n, NEW qty, SetQty(n, qty), reply' \in Replies
  PROVE  IInv'
<1> USE DEF SetQty
<1>1. TypeOK /\ BoxesOwnedOnce /\ IndexExact /\ TimePriority
  BY DEF IInv
<1>2. /\ heap \in [DOMAIN heap -> OrderNode] /\ n \in DOMAIN heap
      /\ Range(arena) \subseteq DOMAIN heap
  BY <1>1 DEF TypeOK, BoxesOwnedOnce
<1>3. /\ heap' \in [DOMAIN heap -> OrderNode]
      /\ \A m \in DOMAIN heap :
           /\ heap'[m].prev = heap[m].prev /\ heap'[m].next = heap[m].next
           /\ heap'[m].ro.id = heap[m].ro.id
           /\ heap'[m].ro.timestamp_ns = heap[m].ro.timestamp_ns
  BY <1>2 DEF OrderNode, RestingOrder
<1>4. TypeOK'
  BY <1>1, <1>3 DEF TypeOK
<1>5. BoxesOwnedOnce'
  BY <1>1, <1>3 DEF BoxesOwnedOnce
<1>6. IndexExact'
  BY <1>1, <1>2, <1>3 DEF IndexExact
<1>7. TimePriority'
  <2>1. PICK len \in Nat : len = Len(arena)
    BY <1>1 DEF TypeOK
  <2>2. PICK c \in [1..len -> Nodes] :
          /\ IsChain(c)
          /\ \A i, j \in 1..len :
               i <= j => heap[c[i]].ro.timestamp_ns <= heap[c[j]].ro.timestamp_ns
          /\ \A m \in Range(arena) : heap[m].ro.timestamp_ns <= now
    BY <1>1, <2>1 DEF TimePriority
  <2>3. \A i \in 1..len : c[i] \in DOMAIN heap
    BY <1>1, <2>1, <2>2, ChainFacts
  <2>4. IsChain(c)'
    BY <1>3, <2>1, <2>2, <2>3 DEF IsChain
  <2> QED
    BY <1>2, <1>3, <2>1, <2>2, <2>3, <2>4 DEF TimePriority
<1> QED
  BY <1>4, <1>5, <1>6, <1>7 DEF IInv
-----------------------------------------------------------------------------
(* Replies, and steps that change no order.                                *)

(* A command result over the ids and quantities makes a well-formed reply, *)
(* stamped or bare.                                                        *)
LEMMA ReplyTypes ==
  ASSUME TypeOK, NEW r \in CommandResult(OrderIds, Quantities)
  PROVE  r \in Replies /\ TimedResult(now, r) \in Replies
BY DEF TypeOK, Replies, TimedResult

(* Every variant is a command result.                                      *)
LEMMA ResultTypes ==
  ASSUME NEW id \in OrderIds, NEW q \in Quantities, NEW r \in Quantities
  PROVE  LET results == CommandResult(OrderIds, Quantities) IN
         /\ Acknowledged \in results /\ Full(id, q) \in results
         /\ Partial(id, q, r) \in results /\ QuantityUpdated(id, q) \in results
         /\ Removed(id, q) \in results
BY DEF CommandResult, Acknowledged, Full, Partial, QuantityUpdated, Removed

(* What is inside a stamped reply, and inside the bare one of pop_head.    *)
LEMMA ResultOfReply ==
  /\ \A t, r : Result(TimedResult(t, r)) = r
  /\ \A e : Result(Rejected(e)) = Rejected(e)
  /\ \A id, q : Result(Full(id, q)) = Full(id, q)
BY DEF Result, TimedResult, Rejected, Full

(* Every error makes a command result.                                     *)
LEMMA RejectedType ==
  ASSUME NEW e \in OrderBookError
  PROVE  Rejected(e) \in CommandResult(OrderIds, Quantities)
BY DEF CommandResult, Rejected

(* A step that leaves the level alone and does not turn the clock back     *)
(* preserves the invariant.                                                *)
LEMMA LevelUnchangedPreserves ==
  ASSUME IInv, UNCHANGED level, now' \in Times, now <= now', reply' \in Replies
  PROVE  IInv'
<1> USE DEF level
<1>1. TypeOK /\ BoxesOwnedOnce /\ IndexExact /\ TimePriority
  BY DEF IInv
<1>2. TypeOK'
  BY <1>1 DEF TypeOK
<1>3. BoxesOwnedOnce' /\ IndexExact'
  BY <1>1 DEF BoxesOwnedOnce, IndexExact
<1>4. TimePriority'
  <2>1. PICK c \in [1..Len(arena) -> Nodes] :
          /\ IsChain(c)
          /\ \A i, j \in 1..Len(arena) :
               i <= j => heap[c[i]].ro.timestamp_ns <= heap[c[j]].ro.timestamp_ns
          /\ \A m \in Range(arena) : heap[m].ro.timestamp_ns <= now
    BY <1>1 DEF TimePriority
  <2>2. IsChain(c)'
    BY <2>1 DEF IsChain
  <2>3. \A m \in Range(arena) : heap[m].ro.timestamp_ns \in Nat
    BY <1>1, MaxTimeAssumption DEF TypeOK, BoxesOwnedOnce, OrderNode, RestingOrder, Times
  <2>4. now \in Nat /\ now' \in Nat
    BY <1>1, MaxTimeAssumption DEF TypeOK, Times
  <2>5. \A m \in Range(arena) : heap[m].ro.timestamp_ns <= now'
    BY <2>1, <2>3, <2>4
  <2> QED
    BY <2>1, <2>2, <2>5 DEF TimePriority
<1> QED
  BY <1>2, <1>3, <1>4 DEF IInv

-----------------------------------------------------------------------------
(* Every step of a level has one of four shapes.                           *)

StepShape ==
  \/ \E n : DropNode(n)
  \/ \E n, ro : /\ ro \in RestingOrder /\ ro.id \notin DOMAIN index
                /\ ro.timestamp_ns = now /\ AddNode(n, ro)
  \/ \E n, qty : SetQty(n, qty)
  \/ UNCHANGED level /\ now' \in Times /\ now <= now'

(* A command that is refused leaves the level alone.                       *)
LEMMA RejectShape ==
  ASSUME IInv, NEW e \in OrderBookError, Reject(e), now' = now
  PROVE  StepShape /\ reply' \in Replies
<1>1. TypeOK
  BY DEF IInv
<1>2. reply' \in Replies
  BY <1>1, ReplyTypes, RejectedType DEF Reject, Answer
<1>3. now \in Times /\ now <= now' /\ UNCHANGED level
  BY <1>1, MaxTimeAssumption DEF TypeOK, Times, Reject
<1> QED
  BY <1>2, <1>3 DEF StepShape

(* insert adds a node or is refused.                                       *)
LEMMA InsertShape ==
  ASSUME IInv, NEW id \in OrderIds, NEW qty \in Quantities, Insert(id, qty)
  PROVE  StepShape /\ reply' \in Replies
<1>1. TypeOK /\ now' = now
  BY DEF IInv, Insert
<1>2. CASE id \in DOMAIN index /\ Reject("DuplicateOrderId")
  BY <1>1, <1>2, RejectShape DEF OrderBookError
<1>3. CASE id \notin DOMAIN index /\ Answer(Acknowledged)
  <2> DEFINE ro == [id |-> id, qty |-> qty, timestamp_ns |-> now]
  <2>1. ro \in RestingOrder /\ ro.id = id /\ ro.timestamp_ns = now
    BY <1>1 DEF TypeOK, RestingOrder
  <2>2. PICK n : AddNode(n, ro)
    BY <1>3 DEF Insert, AddNode, Reject
  <2>3. reply' \in Replies
    BY <1>1, <1>3, ReplyTypes, ResultTypes DEF Answer
  <2> HIDE DEF ro
  <2> QED
    BY <1>3, <2>1, <2>2, <2>3 DEF StepShape
<1> QED
  BY <1>2, <1>3 DEF Insert

(* pop_head drops the head node, if there is one.                          *)
LEMMA PopHeadShape ==
  ASSUME IInv, PopHead
  PROVE  StepShape /\ reply' \in Replies
<1>1. TypeOK /\ BoxesOwnedOnce /\ now' = now
  BY DEF IInv, PopHead
<1>2. CASE head = None
  <2>1. reply' = Rejected("EmptyPriceLevel") /\ UNCHANGED level
    BY <1>2 DEF PopHead
  <2>2. reply' \in Replies
    BY <1>1, <2>1, ReplyTypes, RejectedType DEF OrderBookError
  <2>3. now' \in Times /\ now <= now'
    BY <1>1, MaxTimeAssumption DEF TypeOK, Times
  <2> QED
    BY <2>1, <2>2, <2>3 DEF StepShape
<1>3. CASE head # None
  <2>1. head \in DOMAIN heap
    BY <1>1, <1>3, HeadFacts DEF BoxesOwnedOnce
  <2>2. heap[head].ro.id \in OrderIds /\ heap[head].ro.qty \in Quantities
    BY <1>1, <2>1 DEF TypeOK, OrderNode, RestingOrder
  <2>3. reply' = Full(heap[head].ro.id, heap[head].ro.qty)
    BY <1>3 DEF PopHead
  <2>4. reply' \in Replies
    BY <1>1, <2>2, <2>3, ReplyTypes, ResultTypes
  <2>5. DropNode(head)
    BY <1>3, PopHeadDrops
  <2> QED
    BY <2>4, <2>5 DEF StepShape
<1> QED
  BY <1>2, <1>3

(* remove drops the node the index names, if there is one.                 *)
LEMMA RemoveShape ==
  ASSUME IInv, NEW id \in OrderIds, Remove(id)
  PROVE  StepShape /\ reply' \in Replies
<1>1. TypeOK /\ BoxesOwnedOnce /\ IndexExact /\ now' = now
  BY DEF IInv, Remove
<1>2. CASE id \notin DOMAIN index
  <2>1. Reject("OrderNotFound")
    BY <1>2 DEF Remove
  <2> QED
    BY <1>1, <2>1, RejectShape DEF OrderBookError
<1>3. CASE id \in DOMAIN index
  <2>1. index[id] \in DOMAIN heap
    BY <1>1, <1>3 DEF IndexExact, BoxesOwnedOnce
  <2>2. heap[index[id]].ro.qty \in Quantities
    BY <1>1, <2>1 DEF TypeOK, OrderNode, RestingOrder
  <2>3. Answer(Removed(id, heap[index[id]].ro.qty))
    BY <1>3 DEF Remove
  <2>4. reply' \in Replies
    BY <1>1, <2>2, <2>3, ReplyTypes, ResultTypes DEF Answer
  <2>5. DropNode(index[id])
    BY <1>3, RemoveDrops
  <2> QED
    BY <2>4, <2>5 DEF StepShape
<1> QED
  BY <1>2, <1>3

(* update_quantity changes one quantity or is refused.                     *)
LEMMA UpdateQuantityShape ==
  ASSUME IInv, NEW id \in OrderIds, NEW newQty \in Quantities, UpdateQuantity(id, newQty)
  PROVE  StepShape /\ reply' \in Replies
<1>1. TypeOK /\ IndexExact /\ now' = now
  BY DEF IInv, UpdateQuantity
<1>2. CASE id \notin DOMAIN index
  <2>1. Reject("OrderNotFound")
    BY <1>2 DEF UpdateQuantity
  <2> QED
    BY <1>1, <2>1, RejectShape DEF OrderBookError
<1>3. CASE id \in DOMAIN index
  <2>1. SetQty(index[id], newQty)
    BY <1>1, <1>3 DEF UpdateQuantity, SetQty, IndexExact
  <2>2. reply' \in Replies
    BY <1>1, <1>3, ReplyTypes, ResultTypes DEF UpdateQuantity, Answer
  <2> QED
    BY <2>1, <2>2 DEF StepShape
<1> QED
  BY <1>2, <1>3

(* apply_partial_fill lowers the head's quantity or is refused; its guard  *)
(* keeps the subtraction from going below zero.                            *)
LEMMA ApplyPartialFillShape ==
  ASSUME IInv, NEW qty \in Quantities, ApplyPartialFill(qty)
  PROVE  StepShape /\ reply' \in Replies
<1>1. TypeOK /\ BoxesOwnedOnce /\ now' = now
  BY DEF IInv, ApplyPartialFill
<1>2. CASE Reject("EmptyPriceLevel") \/ Reject("InsufficientQuantity")
  BY <1>1, <1>2, RejectShape DEF OrderBookError
<1>3. CASE head # None /\ qty < heap[head].ro.qty /\ FillHead(qty)
  <2>1. head \in Range(arena) /\ head \in DOMAIN heap
    BY <1>1, <1>3, HeadFacts DEF BoxesOwnedOnce
  <2>2. heap \in [DOMAIN heap -> OrderNode] /\ heap[head] \in OrderNode
    BY <1>1, <2>1 DEF TypeOK
  <2>3. /\ heap[head].ro.id \in OrderIds /\ heap[head].ro.qty \in Quantities
        /\ heap[head].ro.qty - qty \in Quantities
    BY <1>3, <2>2, MaxQtyAssumption DEF OrderNode, RestingOrder, Quantities
  <2>4. heap' = [heap EXCEPT ![head].ro.qty = heap[head].ro.qty - qty]
    BY <1>3 DEF FillHead
  <2>5. heap'[head].ro.qty = heap[head].ro.qty - qty
    BY <2>1, <2>2, <2>4 DEF OrderNode, RestingOrder
  <2>6. reply' \in Replies
    BY <1>1, <1>3, <2>3, <2>5, ReplyTypes, ResultTypes DEF Answer, FillHead
  <2>7. SetQty(head, heap[head].ro.qty - qty)
    BY <1>1, <1>3, <2>1, <2>3, <2>4 DEF SetQty, FillHead
  <2> QED
    BY <2>6, <2>7 DEF StepShape
<1> QED
  BY <1>2, <1>3 DEF ApplyPartialFill

(* So every step has one of the four shapes, and its reply is well formed. *)
LEMMA NextShape ==
  ASSUME IInv, [Next]_vars
  PROVE  StepShape /\ reply' \in Replies
<1>1. ASSUME NEW id \in OrderIds, NEW qty \in Quantities,
             Insert(id, qty) \/ UpdateQuantity(id, qty)
      PROVE  StepShape /\ reply' \in Replies
  BY <1>1, InsertShape, UpdateQuantityShape
<1>2. ASSUME NEW id \in OrderIds, Remove(id)
      PROVE  StepShape /\ reply' \in Replies
  BY <1>2, RemoveShape
<1>3. ASSUME NEW qty \in Quantities, ApplyPartialFill(qty)
      PROVE  StepShape /\ reply' \in Replies
  BY <1>3, ApplyPartialFillShape
<1>4. CASE PopHead
  BY <1>4, PopHeadShape
<1>5. TypeOK
  BY DEF IInv
<1>6. CASE Tick
  <2>1. now' \in Times /\ now <= now' /\ UNCHANGED level /\ reply' = reply
    BY <1>5, <1>6, MaxTimeAssumption DEF Tick, TypeOK, Times
  <2> QED
    BY <1>5, <2>1 DEF StepShape, TypeOK
<1>7. CASE UNCHANGED vars
  <2>1. now' \in Times /\ now <= now' /\ UNCHANGED level /\ reply' = reply
    BY <1>5, <1>7, MaxTimeAssumption DEF vars, TypeOK, Times
  <2> QED
    BY <1>5, <2>1 DEF StepShape, TypeOK
<1> QED
  BY <1>1, <1>2, <1>3, <1>4, <1>6, <1>7 DEF Next
-----------------------------------------------------------------------------
(* The empty level satisfies the invariant.                                *)
THEOREM InitInv == Init => IInv
<1> SUFFICES ASSUME Init PROVE IInv
  OBVIOUS
<1> USE DEF Init
<1>1. TypeOK
  BY MaxTimeAssumption DEF TypeOK, Pointers, Times, Replies
<1>2. Range(arena) = {} /\ Range(freelist) = {}
  BY DEF Range
<1>3. BoxesOwnedOnce
  BY <1>2 DEF BoxesOwnedOnce, IsInjective
<1>4. IndexExact
  BY <1>2 DEF IndexExact
<1>5. TimePriority
  <2>1. PICK c : c = [i \in 1..0 |-> None]
    OBVIOUS
  <2>2. Len(arena) = 0 /\ 1..0 = {} /\ DOMAIN c = {}
    BY <2>1
  <2>3. c \in [1..Len(arena) -> Nodes]
    BY <2>1, <2>2
  <2>4. Range(c) = {} /\ IsInjective(c)
    BY <2>2 DEF Range, IsInjective
  <2>5. IsChain(c)
    BY <1>2, <2>2, <2>4 DEF IsChain
  <2> QED
    BY <1>2, <2>2, <2>3, <2>5 DEF TimePriority
<1> QED
  BY <1>1, <1>3, <1>4, <1>5 DEF IInv

(* Every call and every tick of the clock preserves the invariant.         *)
THEOREM NextInv == IInv /\ [Next]_vars => IInv'
<1> SUFFICES ASSUME IInv, [Next]_vars PROVE IInv'
  OBVIOUS
<1>1. StepShape /\ reply' \in Replies
  BY NextShape
<1>2. ASSUME NEW n, DropNode(n)
      PROVE  IInv'
  BY <1>1, <1>2, DropPreserves
<1>3. ASSUME NEW n, NEW ro, ro \in RestingOrder, ro.id \notin DOMAIN index,
             ro.timestamp_ns = now, AddNode(n, ro)
      PROVE  IInv'
  BY <1>1, <1>3, AddPreserves
<1>4. ASSUME NEW n, NEW qty, SetQty(n, qty)
      PROVE  IInv'
  BY <1>1, <1>4, SetQtyPreserves
<1>5. CASE UNCHANGED level /\ now' \in Times /\ now <= now'
  BY <1>1, <1>5, LevelUnchangedPreserves
<1> QED
  BY <1>1, <1>2, <1>3, <1>4, <1>5 DEF StepShape

(* The invariant holds in every reachable state.                           *)
THEOREM Invariance == Spec => []IInv
BY InitInv, NextInv, PTL DEF Spec

(* Every variable of a level keeps the type of its declaration.            *)
THEOREM TypeCorrect == Spec => []TypeOK
<1>1. IInv => TypeOK
  BY DEF IInv
<1> QED
  BY <1>1, Invariance, PTL

(* Whatever inserts, fills and cancels recycled, each box has one owner.   *)
THEOREM NoBoxLost == Spec => []BoxesOwnedOnce
<1>1. IInv => BoxesOwnedOnce
  BY DEF IInv
<1> QED
  BY <1>1, Invariance, PTL

(* The index finds exactly the orders in use.                              *)
THEOREM IndexCorrect == Spec => []IndexExact
<1>1. IInv => IndexExact
  BY DEF IInv
<1> QED
  BY <1>1, Invariance, PTL

(* The doubly linked list is whole in both directions.                     *)
THEOREM ListCorrect == Spec => []LinkedList
<1>1. IInv => LinkedList
  BY DEF IInv, TimePriority, LinkedList
<1> QED
  BY <1>1, Invariance, PTL

(* From head to tail the orders stand in the order of their arrival.       *)
THEOREM InTimeOrder == Spec => []TimePriority
<1>1. IInv => TimePriority
  BY DEF IInv
<1> QED
  BY <1>1, Invariance, PTL
-----------------------------------------------------------------------------
(* What no step does.                                                      *)

(* The pointers of a node in use lead to nodes in use.                     *)
LEMMA NeighboursInUse ==
  ASSUME IInv
  PROVE  /\ tail \in Range(arena) \cup {None}
         /\ \A n \in Range(arena) : /\ heap[n].prev \in Range(arena) \cup {None}
                                    /\ heap[n].next \in Range(arena) \cup {None}
                                    /\ heap[n].prev # n
<1>1. TypeOK /\ BoxesOwnedOnce /\ TimePriority
  BY DEF IInv
<1>2. PICK len \in Nat : len = Len(arena)
  BY <1>1 DEF TypeOK
<1>3. PICK c \in [1..len -> Nodes] : IsChain(c)
  BY <1>1, <1>2 DEF TimePriority
<1>4. /\ \A i \in 1..len : c[i] \in Range(arena)
      /\ \A i, j \in 1..len : c[i] = c[j] => i = j
      /\ \A n \in Range(arena) : \E i \in 1..len : n = c[i]
  <2>1. c \in [1..Len(arena) -> Nodes] /\ IsChain(c)
    BY <1>2, <1>3
  <2>2. /\ \A i \in 1..Len(arena) : c[i] \in Range(arena)
        /\ \A i, j \in 1..Len(arena) : c[i] = c[j] => i = j
        /\ \A n \in Range(arena) : \E i \in 1..Len(arena) : n = c[i]
    BY ONLY <1>1, <2>1, ChainFacts
  <2> QED
    BY <1>2, <2>2
<1>5. /\ tail = IF len = 0 THEN None ELSE c[len]
      /\ \A i \in 1..len : /\ heap[c[i]].prev = IF i = 1 THEN None ELSE c[i - 1]
                           /\ heap[c[i]].next = IF i = len THEN None ELSE c[i + 1]
  BY <1>2, <1>3 DEF IsChain
<1>6. tail \in Range(arena) \cup {None}
  BY <1>4, <1>5
<1>7. ASSUME NEW n \in Range(arena)
      PROVE  /\ heap[n].prev \in Range(arena) \cup {None}
             /\ heap[n].next \in Range(arena) \cup {None}
             /\ heap[n].prev # n
  <2>1. PICK i \in 1..len : n = c[i]
    BY <1>4
  <2>2. n # None
    BY <2>1, NoneAssumption
  <2>3. heap[n].prev \in Range(arena) \cup {None} /\ heap[n].prev # n
    <3>1. CASE i = 1
      BY <1>5, <2>1, <2>2, <3>1
    <3>2. CASE i # 1
      <4>1. i - 1 \in 1..len /\ heap[n].prev = c[i - 1]
        BY <1>5, <2>1, <3>2
      <4> QED
        BY <1>4, <2>1, <4>1
    <3> QED
      BY <3>1, <3>2
  <2>4. heap[n].next \in Range(arena) \cup {None}
    <3>1. CASE i = len
      BY <1>5, <2>1, <3>1
    <3>2. CASE i # len
      <4>1. i + 1 \in 1..len /\ heap[n].next = c[i + 1]
        BY <1>5, <2>1, <3>2
      <4> QED
        BY <1>4, <4>1
    <3> QED
      BY <3>1, <3>2
  <2> QED
    BY <2>3, <2>4
<1> QED
  BY <1>6, <1>7

(* A node that is neither of n's neighbours is not modified by its removal. *)
LEMMA DropWritesInUse ==
  ASSUME IInv, NEW n, DropNode(n), NEW m \in DOMAIN heap, m \notin Range(arena)
  PROVE  heap'[m] = heap[m]
<1>1. /\ n \in Range(arena) /\ heap' = Unlink(heap, n)
      /\ TypeOK /\ BoxesOwnedOnce
  BY DEF DropNode, IInv
<1>2. /\ heap[n].prev \in Range(arena) \cup {None}
      /\ heap[n].next \in Range(arena) \cup {None}
  BY <1>1, NeighboursInUse
<1>3. m # heap[n].prev /\ m # heap[n].next
  BY <1>1, <1>2, NoneAssumption DEF TypeOK
<1> DEFINE h1 == SetNext(heap, heap[n].prev, heap[n].next)
<1>4. h1[m] = heap[m]
  BY <1>1, <1>3 DEF SetNext, TypeOK
<1>5. h1[n].next = heap[n].next
  BY <1>1, NeighboursInUse DEF SetNext, TypeOK, BoxesOwnedOnce
<1>6. m \in DOMAIN h1
  BY <1>1 DEF SetNext, TypeOK
<1>7. heap' = SetPrev(h1, h1[n].next, h1[n].prev)
  BY <1>1 DEF Unlink
<1> HIDE DEF h1
<1> QED
  BY <1>3, <1>4, <1>5, <1>6, <1>7 DEF SetPrev

(* An insert writes to the new node and to the tail.                       *)
LEMMA AddWritesInUse ==
  ASSUME IInv, NEW n, NEW ro, AddNode(n, ro),
         NEW m \in DOMAIN heap, m \notin Range(arena), m # n
  PROVE  heap'[m] = heap[m]
<1>1. tail # m
  BY NeighboursInUse, NoneAssumption DEF IInv, TypeOK
<1> DEFINE h0 == Put(heap, n, [ro |-> ro, prev |-> None, next |-> None])
           h1 == SetNext(h0, tail, n)
<1>2. heap' = SetPrev(h1, n, tail)
  BY DEF AddNode, LinkAtTail
<1>3. h0[m] = heap[m] /\ m \in DOMAIN h0
  BY DEF Put
<1> HIDE DEF h0
<1>4. h1[m] = heap[m] /\ m \in DOMAIN h1
  BY <1>1, <1>3 DEF SetNext
<1> HIDE DEF h1
<1> QED
  BY <1>2, <1>4 DEF SetPrev

(* No step writes to a node that is and stays free.                        *)
THEOREM NoStaleWrite == Spec => FreeNodesUntouched
<1> DEFINE Free == \A n \in Range(freelist) \cap Range(freelist') : heap'[n] = heap[n]
<1>1. ASSUME IInv, [Next]_vars, NEW m \in Range(freelist), m \in Range(freelist')
      PROVE  heap'[m] = heap[m]
  <2>1. StepShape
    BY <1>1, NextShape
  <2>2. TypeOK /\ BoxesOwnedOnce /\ m \in DOMAIN heap /\ m \notin Range(arena)
    BY <1>1 DEF IInv, BoxesOwnedOnce
  <2>3. ASSUME NEW n, DropNode(n)
        PROVE  heap'[m] = heap[m]
    BY <1>1, <2>2, <2>3, DropWritesInUse
  <2>4. ASSUME NEW n, NEW ro, AddNode(n, ro)
        PROVE  heap'[m] = heap[m]
    <3>1. m # n
      BY <1>1, <2>2, <2>4, AddNodeBoxes
    <3> QED
      BY <1>1, <2>2, <2>4, <3>1, AddWritesInUse
  <2>5. ASSUME NEW n, NEW qty, SetQty(n, qty)
        PROVE  heap'[m] = heap[m]
    BY <2>2, <2>5 DEF SetQty, TypeOK
  <2>6. CASE UNCHANGED level
    BY <2>6 DEF level
  <2> QED
    BY <2>1, <2>3, <2>4, <2>5, <2>6 DEF StepShape
<1>2. IInv /\ [Next]_vars => [Free]_vars
  BY <1>1
<1> QED
  BY <1>2, Invariance, PTL DEF Spec, FreeNodesUntouched

(* A resting order keeps its node and its timestamp.                       *)
THEOREM NodesStayPut == Spec => OrdersStayPut
<1> DEFINE StayPut == \A id \in DOMAIN index \cap DOMAIN index' :
                     /\ index'[id] = index[id]
                     /\ heap'[index[id]].ro.timestamp_ns = heap[index[id]].ro.timestamp_ns
<1>1. ASSUME IInv, [Next]_vars, NEW id \in DOMAIN index, id \in DOMAIN index'
      PROVE  /\ index'[id] = index[id]
             /\ heap'[index[id]].ro.timestamp_ns = heap[index[id]].ro.timestamp_ns
  <2>1. StepShape
    BY <1>1, NextShape
  <2>2. TypeOK /\ index[id] \in Range(arena) /\ index[id] \in DOMAIN heap
    BY <1>1 DEF IInv, IndexExact, BoxesOwnedOnce
  <2>3. ASSUME NEW n, DropNode(n)
        PROVE  /\ index'[id] = index[id] /\ heap'[index[id]].ro = heap[index[id]].ro
    <3>1. index'[id] = index[id]
      BY <1>1, <2>3 DEF DropNode, Without, Restrict
    <3> QED
      BY <1>1, <2>2, <2>3, <3>1, DropKeepsTimePriority
  <2>4. ASSUME NEW n, NEW ro, ro \in RestingOrder, ro.id \notin DOMAIN index,
               ro.timestamp_ns = now, AddNode(n, ro)
        PROVE  /\ index'[id] = index[id] /\ heap'[index[id]].ro = heap[index[id]].ro
    <3>1. index'[id] = index[id]
      BY <1>1, <2>4 DEF AddNode, Put
    <3>2. index[id] # n
      BY <1>1, <2>2, <2>4, AddNodeBoxes DEF IInv
    <3> QED
      BY <1>1, <2>2, <2>4, <3>1, <3>2, AddKeepsTimePriority
  <2>5. ASSUME NEW n, NEW qty, SetQty(n, qty)
        PROVE  /\ index'[id] = index[id]
               /\ heap'[index[id]].ro.timestamp_ns = heap[index[id]].ro.timestamp_ns
    <3>1. heap \in [DOMAIN heap -> OrderNode]
      BY <2>2 DEF TypeOK
    <3> QED
      BY <2>2, <2>5, <3>1 DEF SetQty, OrderNode, RestingOrder
  <2>6. CASE UNCHANGED level
    BY <2>6 DEF level
  <2> QED
    BY <2>1, <2>3, <2>4, <2>5, <2>6 DEF StepShape
<1>2. IInv /\ [Next]_vars => [StayPut]_vars
  BY <1>1
<1> QED
  BY <1>2, Invariance, PTL DEF Spec, OrdersStayPut
-----------------------------------------------------------------------------
(* What a step does to the number of boxes.                                *)
LEMMA StepBoxes ==
  ASSUME IInv, [Next]_vars
  PROVE  /\ Len(arena) \in Nat /\ Len(freelist) \in Nat
         /\ Len(arena') \in Nat /\ Len(freelist') \in Nat
         /\ \/ Len(arena') = Len(arena) - 1 /\ Len(freelist') = Len(freelist) + 1
            \/ /\ Len(arena') = Len(arena) + 1
               /\ \/ Len(freelist) > 0 /\ Len(freelist') = Len(freelist) - 1
                  \/ Len(freelist) = 0 /\ Len(freelist') = 0
            \/ Len(arena') = Len(arena) /\ Len(freelist') = Len(freelist)
<1>1. StepShape /\ IInv'
  BY NextShape, NextInv
<1>2. TypeOK /\ BoxesOwnedOnce
  BY DEF IInv
<1>3. /\ arena \in Seq(Nodes) /\ freelist \in Seq(Nodes)
      /\ arena' \in Seq(Nodes) /\ freelist' \in Seq(Nodes)
  BY <1>1 DEF IInv, TypeOK
<1>4. ASSUME NEW n, DropNode(n)
      PROVE  Len(arena') = Len(arena) - 1 /\ Len(freelist') = Len(freelist) + 1
  <2>1. n \in Range(arena) /\ n \in Nodes /\ RemoveFromArena(n)
    BY <1>2, <1>4 DEF DropNode, BoxesOwnedOnce, TypeOK
  <2>2. Len(arena') = Len(arena) - 1
    BY ONLY <1>2, <2>1, RemoveFromArenaFacts
  <2>3. freelist' = Append(freelist, n)
    BY <2>1 DEF RemoveFromArena
  <2> QED
    BY <1>3, <2>1, <2>2, <2>3
<1>5. ASSUME NEW n, NEW ro, AddNode(n, ro)
      PROVE  /\ Len(arena') = Len(arena) + 1
             /\ \/ Len(freelist) > 0 /\ Len(freelist') = Len(freelist) - 1
                \/ Len(freelist) = 0 /\ Len(freelist') = 0
  <2>1. n \in Nodes /\ arena' = Append(arena, n) /\ TakeNode(n)
    BY <1>5 DEF AddNode
  <2>2. CASE freelist # <<>> /\ freelist' = Pop(freelist)
    <3>1. Len(freelist) > 0
      BY <1>3, <2>2, EmptySeq
    <3>2. Len(Pop(freelist)) = Len(freelist) - 1
      BY <1>3, <3>1 DEF Pop
    <3> QED
      BY <1>3, <2>1, <2>2, <3>1, <3>2
  <2>3. CASE freelist = <<>> /\ freelist' = freelist
    BY <1>3, <2>1, <2>3
  <2> QED
    BY <2>1, <2>2, <2>3 DEF TakeNode
<1>6. ASSUME NEW n, NEW qty, SetQty(n, qty)
      PROVE  Len(arena') = Len(arena) /\ Len(freelist') = Len(freelist)
  BY <1>6 DEF SetQty
<1>7. CASE UNCHANGED level
  BY <1>3, <1>7 DEF level
<1> QED
  BY <1>1, <1>3, <1>4, <1>5, <1>6, <1>7 DEF StepShape

(* An id that does not rest yet finds a box: a free one, or an address for *)
(* a new one.                                                              *)
BoxToTake == \A id \in OrderIds \ DOMAIN index : freelist # <<>> \/ Nodes \ DOMAIN heap # {}

(* The allocator's supply is no hidden guard: with as many addresses as    *)
(* order ids, insert is refused for a duplicate and for nothing else,      *)
(* however many orders came and went, because every box in use holds an    *)
(* order of its own and every other box is on the freelist.                *)
THEOREM AddressesSuffice ==
  ASSUME IsFiniteSet(OrderIds), IsFiniteSet(Nodes), Cardinality(OrderIds) <= Cardinality(Nodes)
  PROVE  Spec => []BoxToTake
<1>1. IInv => BoxToTake
  <2> SUFFICES ASSUME IInv, NEW id \in OrderIds, id \notin DOMAIN index,
                      freelist = <<>>, Nodes \subseteq DOMAIN heap
               PROVE  FALSE
    BY DEF BoxToTake
  <2>1. Range(freelist) = {}
    BY DEF Range
  <2>2. Range(arena) = Nodes
    BY <2>1 DEF IInv, TypeOK, BoxesOwnedOnce
  <2> DEFINE Holds == [n \in Nodes |-> heap[n].ro.id]
  <2>3. Holds \in [Nodes -> OrderIds \ {id}]
    BY <2>2 DEF IInv, TypeOK, IndexExact
  <2>4. \A n, m \in Nodes : Holds[n] = Holds[m] => n = m
    BY <2>2 DEF IInv, IndexExact
  <2>5. /\ IsFiniteSet(OrderIds \ {id})
        /\ Cardinality(OrderIds \ {id}) = Cardinality(OrderIds) - 1
    BY FS_RemoveElement
  <2>6. Cardinality(OrderIds \ {id}) < Cardinality(Nodes)
    BY <2>5, FS_CardinalityType
  <2> HIDE DEF Holds
  <2> QED
    BY ONLY IsFiniteSet(Nodes), <2>3, <2>4, <2>5, <2>6, FS_PigeonHole
<1> QED
  BY <1>1, Invariance, PTL
=============================================================================
