------------------------- MODULE LevelObserverProofs -------------------------
(***************************************************************************)
(* What the observer of a level knows, for every level: the client's       *)
(* mirror is exact, quantity is conserved, and no box is allocated while a *)
(* free one is at hand.                                                    *)
(***************************************************************************)
EXTENDS LevelObserver, PriceLevelRefinementProofs

(* A client's view of an order.                                            *)
SeenOrder == [id : OrderIds, qty : Quantities]

(* The client finds an order at its place in the queue.                    *)
LEMMA MirrorFacts ==
  ASSUME IInv, MirrorExact
  PROVE  /\ Fifo \in Seq(RestingOrder) /\ mirror \in Seq(SeenOrder)
         /\ Len(mirror) = Len(Fifo) /\ DOMAIN mirror = DOMAIN Fifo
         /\ \A i \in DOMAIN Fifo : mirror[i] = Seen(Fifo[i])
         /\ \A i \in DOMAIN Fifo : Place(mirror, Fifo[i].id) = i
<1>1. PICK c, len : QueueChain(c, len)
  BY FifoFacts
<1>2. /\ len \in Nat /\ Len(Fifo) = len /\ DOMAIN Fifo = 1..len
      /\ Fifo \in Seq(RestingOrder)
      /\ \A i, j \in 1..len : Fifo[i].id = Fifo[j].id => i = j
  BY <1>1 DEF QueueChain
<1>3. \A i \in 1..len : Seen(Fifo[i]) \in SeenOrder /\ Seen(Fifo[i]).id = Fifo[i].id
  <2>1. \A i \in 1..len : Fifo[i] \in RestingOrder
    BY <1>2
  <2>2. \A ro \in RestingOrder : Seen(ro) \in SeenOrder /\ Seen(ro).id = ro.id
    BY DEF Seen, SeenOrder, RestingOrder
  <2> QED
    BY ONLY <2>1, <2>2
<1>4. mirror = [i \in 1..len |-> Seen(Fifo[i])]
  BY <1>2 DEF MirrorExact
<1>5. mirror \in Seq(SeenOrder) /\ Len(mirror) = len /\ DOMAIN mirror = 1..len
  <2>1. mirror \in [1..len -> SeenOrder]
    BY <1>3, <1>4
  <2> QED
    BY <1>2, <2>1
<1>6. \A i \in 1..len : mirror[i] = Seen(Fifo[i]) /\ mirror[i].id = Fifo[i].id
  BY <1>3, <1>4
<1>7. ASSUME NEW i \in 1..len
      PROVE  Place(mirror, Fifo[i].id) = i
  <2>1. \A j \in DOMAIN mirror : mirror[j].id = Fifo[i].id <=> j = i
    BY <1>2, <1>5, <1>6
  <2> QED
    BY <1>5, <2>1, Zenon DEF Place
<1> QED
  BY <1>2, <1>5, <1>6, <1>7

(* A new order is appended to the mirror as to the queue.                  *)
LEMMA MirrorAdd ==
  ASSUME IInv, MirrorExact, NEW n, NEW ro \in RestingOrder, AddNode(n, ro),
         mirror' = Append(mirror, Seen(ro))
  PROVE  MirrorExact'
<1>1. Fifo' = Append(Fifo, ro)
  BY AddFifo
<1>2. /\ Fifo \in Seq(RestingOrder) /\ mirror \in Seq(SeenOrder)
      /\ Len(mirror) = Len(Fifo)
      /\ \A i \in 1..Len(Fifo) : mirror[i] = Seen(Fifo[i])
  BY MirrorFacts
<1>3. Seen(ro) \in SeenOrder
  BY DEF Seen, SeenOrder, RestingOrder
<1>4. PICK len \in Nat : len = Len(Fifo)
  BY <1>2
<1>5. /\ DOMAIN Fifo' = 1..len + 1 /\ Fifo'[len + 1] = ro
      /\ \A i \in 1..len : Fifo'[i] = Fifo[i]
  BY <1>1, <1>2, <1>4
<1>6. /\ mirror' \in Seq(SeenOrder) /\ Len(mirror') = len + 1
      /\ mirror'[len + 1] = Seen(ro) /\ \A i \in 1..len : mirror'[i] = mirror[i]
  BY <1>2, <1>3, <1>4, AppendProperties
<1>7. \A i \in 1..len + 1 : mirror'[i] = Seen(Fifo'[i])
  <2>1. \A i \in 1..len + 1 : i = len + 1 \/ i \in 1..len
    OBVIOUS
  <2> QED
    BY <1>2, <1>4, <1>5, <1>6, <2>1
<1>8. mirror' = [i \in 1..len + 1 |-> mirror'[i]]
  <2>1. mirror' \in [1..len + 1 -> SeenOrder]
    BY <1>6, LenProperties
  <2> QED
    BY <2>1
<1> QED
  BY <1>5, <1>7, <1>8 DEF MirrorExact

(* A dropped order is struck out of the mirror where it stood in the queue. *)
LEMMA MirrorDrop ==
  ASSUME IInv, MirrorExact, NEW n, DropNode(n),
         mirror' = Strike(mirror, Place(mirror, heap[n].ro.id))
  PROVE  MirrorExact'
<1>1. PICK k \in DOMAIN Fifo :
        /\ Fifo[k] = heap[n].ro
        /\ DOMAIN Fifo' = 1..Len(Fifo) - 1
        /\ \A i \in 1..Len(Fifo) - 1 : Fifo'[i] = IF i < k THEN Fifo[i] ELSE Fifo[i + 1]
  BY DropFifo
<1>2. /\ Fifo \in Seq(RestingOrder) /\ mirror \in Seq(SeenOrder)
      /\ Len(mirror) = Len(Fifo)
      /\ \A i \in 1..Len(Fifo) : mirror[i] = Seen(Fifo[i])
      /\ Place(mirror, Fifo[k].id) = k
  BY MirrorFacts
<1>3. PICK len \in Nat : len = Len(Fifo)
  BY <1>2
<1>4. PICK t : t = [i \in 1..len - 1 |-> Seen(Fifo'[i])]
  OBVIOUS
<1>5. /\ DOMAIN t = 1..len - 1 /\ IsAFcn(t)
      /\ \A i \in 1..len - 1 : t[i] = Seen(Fifo'[i])
  BY <1>4 DEF IsAFcn
<1>6. \A i \in 1..len - 1 : t[i] = IF i < k THEN mirror[i] ELSE mirror[i + 1]
  <2>1. \A i \in 1..len - 1 : i \in 1..len /\ i + 1 \in 1..len
    OBVIOUS
  <2> QED
    BY <1>1, <1>2, <1>3, <1>5, <2>1
<1>7. t = SubSeq(mirror, 1, k - 1) \o SubSeq(mirror, k + 1, Len(mirror))
  <2>1. /\ mirror \in Seq(SeenOrder) /\ k \in 1..Len(mirror)
        /\ DOMAIN t = 1..Len(mirror) - 1 /\ IsAFcn(t)
        /\ \A i \in 1..Len(mirror) - 1 : t[i] = IF i < k THEN mirror[i] ELSE mirror[i + 1]
    BY <1>1, <1>2, <1>3, <1>5, <1>6
  <2> QED
    BY ONLY <2>1, RemovalFacts
<1>8. mirror' = t
  BY <1>1, <1>2, <1>7 DEF Strike
<1> QED
  BY <1>1, <1>3, <1>4, <1>8 DEF MirrorExact

(* A changed quantity is changed in the mirror where its order stands.     *)
LEMMA MirrorSetQty ==
  ASSUME IInv, MirrorExact, NEW n, NEW qty, SetQty(n, qty),
         mirror' = [mirror EXCEPT ![Place(mirror, heap[n].ro.id)].qty = qty]
  PROVE  MirrorExact'
<1>1. PICK k \in DOMAIN Fifo :
        Fifo[k] = heap[n].ro /\ Fifo' = [Fifo EXCEPT ![k].qty = qty]
  BY SetQtyFifo
<1>2. /\ Fifo \in Seq(RestingOrder) /\ mirror \in Seq(SeenOrder)
      /\ DOMAIN mirror = DOMAIN Fifo
      /\ \A i \in DOMAIN Fifo : mirror[i] = Seen(Fifo[i]) /\ Fifo[i] \in RestingOrder
      /\ Place(mirror, Fifo[k].id) = k
  BY MirrorFacts
<1>3. DOMAIN Fifo' = DOMAIN Fifo
      /\ \A i \in DOMAIN Fifo : Fifo'[i] = IF i = k THEN [Fifo[k] EXCEPT !.qty = qty] ELSE Fifo[i]
  BY <1>1, <1>2
<1>4. mirror' = [i \in DOMAIN Fifo |->
        IF i = k THEN [mirror[k] EXCEPT !.qty = qty] ELSE mirror[i]]
  <2>1. mirror = [i \in DOMAIN Fifo |-> mirror[i]]
    BY <1>2
  <2> QED
    BY <1>1, <1>2, <2>1
<1>5. [mirror[k] EXCEPT !.qty = qty] = Seen([Fifo[k] EXCEPT !.qty = qty])
  BY <1>2 DEF Seen, RestingOrder
<1>6. \A i \in DOMAIN Fifo :
        (IF i = k THEN [mirror[k] EXCEPT !.qty = qty] ELSE mirror[i]) = Seen(Fifo'[i])
  BY <1>2, <1>3, <1>5
<1> QED
  BY <1>3, <1>4, <1>6 DEF MirrorExact

(* Nothing changes, and the client learns nothing.                         *)
LEMMA MirrorSame ==
  ASSUME IInv, MirrorExact, UNCHANGED level, mirror' = mirror
  PROVE  MirrorExact'
BY SameFifo DEF MirrorExact
-----------------------------------------------------------------------------
(* Adding up quantities.                                                   *)

(* d adds up the quantities of q from its beginning.                       *)
AddsUp(d, q, len) ==
  /\ d \in [0..len -> Int] /\ d[0] = 0
  /\ \A i \in 1..len : d[i] = d[i - 1] + q[i].qty

(* Quantities are numbers.                                                 *)
LEMMA QtyIsInt ==
  /\ \A ro \in RestingOrder : ro.qty \in Int
  /\ \A q \in Seq(RestingOrder) : \A i \in 1..Len(q) : q[i].qty \in Int
<1>1. \A ro \in RestingOrder : ro.qty \in Int
  BY MaxQtyAssumption DEF RestingOrder, Quantities
<1> QED
  BY <1>1

(* The quantities of every queue can be added up.                          *)
LEMMA SumExists ==
  ASSUME NEW q, NEW len \in Nat, \A i \in 1..len : q[i].qty \in Int
  PROVE  \E d : AddsUp(d, q, len)
<1> DEFINE T == {m \in 0..len : ~ \E d : AddsUp(d, q, m)}
<1>1. SUFFICES ASSUME len \in T PROVE FALSE
  OBVIOUS
<1>2. T \in SUBSET Nat /\ T # {}
  BY <1>1
<1> HIDE DEF T
<1>3. PICK m \in T : \A j \in T : ~(j < m)
  BY <1>2, LeastElement
<1> USE DEF T
<1>4. m \in 0..len /\ ~ \E d : AddsUp(d, q, m)
  BY <1>3
<1>5. m # 0
  <2>1. AddsUp([i \in 0..0 |-> 0], q, 0)
    BY DEF AddsUp
  <2> QED
    BY <1>4, <2>1
<1>6. PICK d : AddsUp(d, q, m - 1)
  BY <1>3, <1>4, <1>5
<1> DEFINE e == [i \in 0..m |-> IF i = m THEN d[m - 1] + q[m].qty ELSE d[i]]
<1>7. AddsUp(e, q, m)
  <2>1. /\ d \in [0..m - 1 -> Int] /\ d[0] = 0 /\ q[m].qty \in Int
        /\ \A i \in 1..m - 1 : d[i] = d[i - 1] + q[i].qty
    BY <1>4, <1>5, <1>6 DEF AddsUp
  <2>2. e \in [0..m -> Int] /\ e[0] = 0
    BY <1>4, <1>5, <2>1
  <2>3. ASSUME NEW i \in 1..m PROVE e[i] = e[i - 1] + q[i].qty
    BY <1>4, <1>5, <2>1
  <2> QED
    BY <2>2, <2>3 DEF AddsUp
<1> QED
  BY <1>4, <1>7

(* The depth of a queue is what its quantities add up to.                  *)
LEMMA DepthIsSum ==
  ASSUME NEW q, Len(q) \in Nat, NEW d, AddsUp(d, q, Len(q))
  PROVE  Depth(q) = d[Len(q)] /\ d[Len(q)] \in Int
<1> DEFINE upTo == CHOOSE f : f = [i \in 0..Len(q) |-> IF i = 0 THEN 0 ELSE f[i - 1] + q[i].qty]
<1>1. d = [i \in 0..Len(q) |-> IF i = 0 THEN 0 ELSE d[i - 1] + q[i].qty]
  BY DEF AddsUp
<1>2. \E f : f = [i \in 0..Len(q) |-> IF i = 0 THEN 0 ELSE f[i - 1] + q[i].qty]
  BY <1>1, Zenon
<1>3. upTo = [i \in 0..Len(q) |-> IF i = 0 THEN 0 ELSE upTo[i - 1] + q[i].qty]
  BY <1>2, Zenon
<1>4. Depth(q) = upTo[Len(q)]
  BY Zenon DEF Depth
<1> HIDE DEF upTo
<1> DEFINE T == {i \in 0..Len(q) : upTo[i] # d[i]}
<1>5. T = {}
  <2>1. SUFFICES ASSUME T # {} PROVE FALSE
    OBVIOUS
  <2>2. T \in SUBSET Nat
    OBVIOUS
  <2> HIDE DEF T
  <2>3. PICK m \in T : \A j \in T : ~(j < m)
    BY <2>1, <2>2, LeastElement
  <2> USE DEF T
  <2>4. m \in 0..Len(q) /\ upTo[m] # d[m]
    BY <2>3
  <2>5. m # 0
    BY <1>3, <2>4 DEF AddsUp
  <2>6. m - 1 \in 0..Len(q) /\ upTo[m - 1] = d[m - 1]
    BY <2>3, <2>4, <2>5
  <2> QED
    BY <1>3, <2>4, <2>5, <2>6 DEF AddsUp
<1> QED
  BY <1>4, <1>5 DEF AddsUp

(* The sums are numbers, and neighbouring ones differ by a quantity.       *)
LEMMA SumFacts ==
  ASSUME NEW q, NEW len \in Nat, NEW d, AddsUp(d, q, len),
         \A i \in 1..len : q[i].qty \in Int
  PROVE  /\ d \in [0..len -> Int] /\ d[0] = 0 /\ \A i \in 0..len : d[i] \in Int
         /\ \A i \in 1..len : /\ d[i] = d[i - 1] + q[i].qty /\ q[i].qty \in Int
                              /\ d[i] \in Int /\ d[i - 1] \in Int
<1>1. \A i \in 1..len : i \in 0..len /\ i - 1 \in 0..len
  OBVIOUS
<1> QED
  BY <1>1 DEF AddsUp

(* A new order adds its quantity.                                          *)
LEMMA DepthAppend ==
  ASSUME NEW q \in Seq(RestingOrder), NEW ro \in RestingOrder
  PROVE  Depth(Append(q, ro)) = Depth(q) + ro.qty /\ Depth(q) \in Int
<1>1. PICK len \in Nat : len = Len(q)
  OBVIOUS
<1>2. ro.qty \in Int /\ \A i \in 1..len : q[i].qty \in Int
  BY <1>1, QtyIsInt
<1>3. PICK d : AddsUp(d, q, len)
  BY <1>2, SumExists
<1>4. Depth(q) = d[len] /\ d[len] \in Int
  BY ONLY <1>1, <1>3, DepthIsSum
<1> DEFINE e == [i \in 0..len + 1 |-> IF i = len + 1 THEN d[len] + ro.qty ELSE d[i]]
           t == Append(q, ro)
<1>5. Len(t) = len + 1 /\ t[len + 1] = ro /\ \A i \in 1..len : t[i] = q[i]
  BY <1>1, AppendProperties
<1> HIDE DEF t
<1>6. AddsUp(e, t, len + 1)
  <2>1. /\ d \in [0..len -> Int] /\ d[0] = 0
        /\ \A i \in 1..len : d[i] = d[i - 1] + q[i].qty
    BY <1>2, <1>3, SumFacts
  <2>2. e \in [0..len + 1 -> Int] /\ e[0] = 0
    BY <1>2, <2>1
  <2>3. ASSUME NEW i \in 1..len + 1 PROVE e[i] = e[i - 1] + t[i].qty
    <3>1. CASE i = len + 1
      BY <1>5, <3>1
    <3>2. CASE i # len + 1
      <4>1. i \in 1..len /\ i - 1 # len + 1 /\ i - 1 \in 0..len + 1
        BY <3>2
      <4>2. e[i] = d[i] /\ e[i - 1] = d[i - 1] /\ t[i] = q[i]
        BY <1>5, <3>2, <4>1
      <4> QED
        BY <2>1, <4>1, <4>2
    <3> QED
      BY <3>1, <3>2
  <2> QED
    BY <2>2, <2>3 DEF AddsUp
<1>7. e[len + 1] = d[len] + ro.qty
  OBVIOUS
<1> HIDE DEF e
<1>8. Depth(t) = e[len + 1]
  <2>1. Len(t) \in Nat /\ AddsUp(e, t, Len(t))
    BY <1>5, <1>6
  <2> QED
    BY <1>5, <2>1, DepthIsSum
<1> QED
  BY <1>4, <1>7, <1>8 DEF t

(* An order taken out takes its quantity along.                            *)
LEMMA DepthWithout ==
  ASSUME NEW q \in Seq(RestingOrder), NEW k \in 1..Len(q), NEW t, Len(t) = Len(q) - 1,
         \A i \in 1..Len(q) - 1 : t[i] = IF i < k THEN q[i] ELSE q[i + 1]
  PROVE  Depth(t) = Depth(q) - q[k].qty /\ Depth(q) \in Int
<1>1. PICK len \in Nat : len = Len(q)
  OBVIOUS
<1>2. \A i \in 1..len : q[i].qty \in Int
  BY <1>1, QtyIsInt
<1>3. PICK d : AddsUp(d, q, len)
  BY <1>2, SumExists
<1>4. Depth(q) = d[len] /\ d[len] \in Int
  BY ONLY <1>1, <1>3, DepthIsSum
<1>5. /\ d \in [0..len -> Int] /\ d[0] = 0 /\ \A i \in 0..len : d[i] \in Int
      /\ \A i \in 1..len : /\ d[i] = d[i - 1] + q[i].qty /\ q[i].qty \in Int
                           /\ d[i] \in Int /\ d[i - 1] \in Int
  BY <1>2, <1>3, SumFacts
<1> DEFINE e == [i \in 0..len - 1 |-> IF i < k THEN d[i] ELSE d[i + 1] - q[k].qty]
<1>6. AddsUp(e, t, len - 1)
  <2>1. e \in [0..len - 1 -> Int] /\ e[0] = 0
    BY <1>1, <1>2, <1>5
  <2>2. ASSUME NEW i \in 1..len - 1 PROVE e[i] = e[i - 1] + t[i].qty
    <3>1. CASE i < k
      <4>1. i \in 1..len /\ i - 1 \in 0..len - 1 /\ i - 1 < k
        BY <1>1, <3>1
      <4>2. e[i] = d[i] /\ e[i - 1] = d[i - 1] /\ t[i] = q[i]
        BY <1>1, <3>1, <4>1
      <4> QED
        BY <1>5, <4>1, <4>2
    <3>2. CASE i = k
      <4>1. d[k] = d[k - 1] + q[k].qty /\ d[k + 1] = d[k] + q[k + 1].qty
        <5>1. k \in 1..len /\ k + 1 \in 1..len /\ (k + 1) - 1 = k
          BY <1>1, <3>2
        <5> QED
          BY <1>5, <5>1
      <4>2. e[k] = d[k + 1] - q[k].qty /\ e[k - 1] = d[k - 1] /\ t[k] = q[k + 1]
        <5>1. k \in 0..len - 1 /\ k - 1 \in 0..len - 1 /\ ~(k < k) /\ k - 1 < k
          BY <1>1, <3>2
        <5>2. e[k] = d[k + 1] - q[k].qty /\ e[k - 1] = d[k - 1]
          BY ONLY <5>1
        <5>3. t[k] = q[k + 1]
          BY <1>1, <3>2
        <5> QED
          BY ONLY <5>2, <5>3
      <4>3. d[k - 1] \in Int /\ q[k].qty \in Int /\ q[k + 1].qty \in Int
        <5>1. k \in 1..len /\ k + 1 \in 1..len
          BY <1>1, <3>2
        <5> QED
          BY <1>5, <5>1
      <4> HIDE DEF e
      <4> QED
        BY ONLY <3>2, <4>1, <4>2, <4>3
    <3>3. CASE i > k
      <4>1. d[i + 1] = d[i] + q[i + 1].qty
        <5>1. i + 1 \in 1..len /\ (i + 1) - 1 = i
          BY <1>1, <3>3
        <5> QED
          BY <1>5, <5>1
      <4>2. e[i] = d[i + 1] - q[k].qty /\ e[i - 1] = d[i] - q[k].qty /\ t[i] = q[i + 1]
        <5>1. /\ i \in 0..len - 1 /\ i - 1 \in 0..len - 1 /\ (i - 1) + 1 = i
              /\ ~(i < k) /\ ~(i - 1 < k)
          BY <1>1, <3>3
        <5>2. e[i] = d[i + 1] - q[k].qty /\ e[i - 1] = d[i] - q[k].qty
          BY ONLY <5>1
        <5>3. t[i] = q[i + 1]
          BY <1>1, <3>3
        <5> QED
          BY ONLY <5>2, <5>3
      <4>3. d[i] \in Int /\ q[k].qty \in Int /\ q[i + 1].qty \in Int
        <5>1. i \in 1..len /\ k \in 1..len /\ i + 1 \in 1..len
          BY <1>1, <3>3
        <5> QED
          BY ONLY <1>5, <5>1
      <4> HIDE DEF e
      <4> QED
        BY ONLY <4>1, <4>2, <4>3
    <3> QED
      BY <1>1, <3>1, <3>2, <3>3
  <2> QED
    BY <2>1, <2>2 DEF AddsUp
<1>7. e[len - 1] = d[len] - q[k].qty
  <2>1. len \in 1..len /\ k \in 1..len
    BY <1>1
  <2>2. d[len] = d[len - 1] + q[len].qty /\ d[len - 1] \in Int /\ q[len].qty \in Int
    BY <1>5, <2>1
  <2> QED
    BY <2>1, <2>2
<1> HIDE DEF e
<1>8. Depth(t) = e[len - 1]
  <2>1. Len(t) \in Nat /\ Len(t) = len - 1 /\ AddsUp(e, t, Len(t))
    BY <1>1, <1>6
  <2> QED
    BY <2>1, DepthIsSum
<1> QED
  BY <1>4, <1>7, <1>8

(* A quantity changed changes the depth by the difference.                 *)
LEMMA DepthChanged ==
  ASSUME NEW q \in Seq(RestingOrder), NEW k \in 1..Len(q), NEW qty \in Int,
         NEW t, Len(t) = Len(q), t[k].qty = qty,
         \A i \in 1..Len(q) : i # k => t[i] = q[i]
  PROVE  Depth(t) = Depth(q) + qty - q[k].qty /\ Depth(q) \in Int
<1>1. PICK len \in Nat : len = Len(q)
  OBVIOUS
<1>2. \A i \in 1..len : q[i].qty \in Int
  BY <1>1, QtyIsInt
<1>3. PICK d : AddsUp(d, q, len)
  BY <1>2, SumExists
<1>4. Depth(q) = d[len] /\ d[len] \in Int
  BY ONLY <1>1, <1>3, DepthIsSum
<1>5. /\ d \in [0..len -> Int] /\ d[0] = 0 /\ \A i \in 0..len : d[i] \in Int
      /\ \A i \in 1..len : /\ d[i] = d[i - 1] + q[i].qty /\ q[i].qty \in Int
                           /\ d[i] \in Int /\ d[i - 1] \in Int
  BY <1>2, <1>3, SumFacts
<1> DEFINE e == [i \in 0..len |-> IF i < k THEN d[i] ELSE d[i] + qty - q[k].qty]
<1>6. AddsUp(e, t, len)
  <2>1. e \in [0..len -> Int] /\ e[0] = 0
    BY <1>1, <1>2, <1>5
  <2>2. ASSUME NEW i \in 1..len PROVE e[i] = e[i - 1] + t[i].qty
    <3>1. d[i] = d[i - 1] + q[i].qty /\ d[i - 1] \in Int /\ q[i].qty \in Int /\ q[k].qty \in Int
      <4>1. k \in 1..len
        BY <1>1
      <4> QED
        BY <1>5, <4>1
    <3>2. t[i].qty = IF i = k THEN qty ELSE q[i].qty
      BY <1>1
    <3>3. k \in 1..len /\ qty \in Int
      BY <1>1
    <3>4. i \in 0..len /\ i - 1 \in 0..len
      BY <1>1
    <3>5. /\ e[i] = IF i < k THEN d[i] ELSE d[i] + qty - q[k].qty
          /\ e[i - 1] = IF i - 1 < k THEN d[i - 1] ELSE d[i - 1] + qty - q[k].qty
      BY ONLY <3>4
    <3> HIDE DEF e
    <3>6. CASE i < k
      <4>1. i - 1 < k /\ i # k
        BY ONLY <3>3, <3>6, i \in 1..len, len \in Nat
      <4> QED
        BY ONLY <3>1, <3>2, <3>5, <3>6, <4>1
    <3>7. CASE i = k
      <4>1. i - 1 < k /\ ~(i < k)
        BY ONLY <3>3, <3>7, len \in Nat
      <4> QED
        BY ONLY <3>1, <3>2, <3>3, <3>5, <3>7, <4>1
    <3>8. CASE i > k
      <4>1. ~(i - 1 < k) /\ ~(i < k) /\ i # k
        BY ONLY <3>3, <3>8, i \in 1..len, len \in Nat
      <4> QED
        BY ONLY <3>1, <3>2, <3>3, <3>5, <4>1
    <3> QED
      BY ONLY <3>3, <3>6, <3>7, <3>8, i \in 1..len, len \in Nat
  <2> QED
    BY <2>1, <2>2 DEF AddsUp
<1>7. e[len] = d[len] + qty - q[k].qty
  BY <1>1
<1> HIDE DEF e
<1>8. Depth(t) = e[len]
  BY <1>1, <1>6, DepthIsSum
<1> QED
  BY <1>4, <1>7, <1>8

(* The queue that the ledger speaks about.                                 *)
LEMMA FifoIsSeq ==
  ASSUME IInv
  PROVE  Fifo \in Seq(RestingOrder) /\ DOMAIN Fifo = 1..Len(Fifo) /\ Len(Fifo) \in Nat
BY FifoFacts DEF QueueChain

(* An accepted order is booked in full.                                    *)
LEMMA LedgerAdd ==
  ASSUME IInv, QuantityConserved, NEW n, NEW ro \in RestingOrder, AddNode(n, ro),
         ledger' = ledger + ro.qty
  PROVE  QuantityConserved'
<1>1. Depth(Fifo') = Depth(Fifo) + ro.qty
  BY AddFifo, FifoIsSeq, DepthAppend
<1> QED
  BY <1>1 DEF QuantityConserved

(* A dropped order is booked with the quantity it had.                     *)
LEMMA LedgerDrop ==
  ASSUME IInv, QuantityConserved, NEW n, DropNode(n), ledger' = ledger + (-heap[n].ro.qty)
  PROVE  QuantityConserved'
<1>1. PICK k \in DOMAIN Fifo :
        /\ Fifo[k] = heap[n].ro
        /\ Len(Fifo') = Len(Fifo) - 1
        /\ \A i \in 1..Len(Fifo) - 1 : Fifo'[i] = IF i < k THEN Fifo[i] ELSE Fifo[i + 1]
  BY DropFifo
<1>2. Fifo \in Seq(RestingOrder) /\ k \in 1..Len(Fifo) /\ Fifo[k].qty \in Int
  BY FifoIsSeq, QtyIsInt
<1>3. Depth(Fifo') = Depth(Fifo) - Fifo[k].qty /\ Depth(Fifo) \in Int
  BY ONLY <1>1, <1>2, DepthWithout
<1> QED
  BY <1>1, <1>2, <1>3 DEF QuantityConserved

(* A changed quantity is booked with the difference.                       *)
LEMMA LedgerSetQty ==
  ASSUME IInv, QuantityConserved, NEW n, NEW qty, SetQty(n, qty),
         ledger' = ledger + (qty - heap[n].ro.qty)
  PROVE  QuantityConserved'
<1>1. PICK k \in DOMAIN Fifo : Fifo[k] = heap[n].ro /\ Fifo' = [Fifo EXCEPT ![k].qty = qty]
  BY SetQtyFifo
<1>2. /\ Fifo \in Seq(RestingOrder) /\ k \in 1..Len(Fifo) /\ Fifo[k] \in RestingOrder
      /\ Fifo[k].qty \in Int
  BY FifoIsSeq, QtyIsInt
<1>3. qty \in Int
  BY MaxQtyAssumption DEF SetQty, Quantities
<1>4. /\ Len(Fifo') = Len(Fifo) /\ Fifo'[k].qty = qty
      /\ \A i \in 1..Len(Fifo) : i # k => Fifo'[i] = Fifo[i]
  BY <1>1, <1>2 DEF RestingOrder
<1>5. Depth(Fifo') = Depth(Fifo) + qty - Fifo[k].qty /\ Depth(Fifo) \in Int
  BY ONLY <1>2, <1>3, <1>4, DepthChanged
<1> QED
  BY <1>1, <1>2, <1>3, <1>5 DEF QuantityConserved

(* Nothing changes, and nothing is booked.                                 *)
LEMMA LedgerSame ==
  ASSUME IInv, QuantityConserved, UNCHANGED level, ledger' = ledger
  PROVE  QuantityConserved'
BY SameFifo DEF QuantityConserved
-----------------------------------------------------------------------------
(* The steps of the level as the client sees them.                         *)

(* What the client relies on.                                              *)
ClientInv == MirrorExact /\ QuantityConserved

(* The level's steps are those of its specification.                       *)
LEMMA ObservedStep ==
  ASSUME [ObservedNext]_observed
  PROVE  [Next]_vars
BY DEF ObservedNext, Next, observed

(* The ledger holds a number.                                              *)
LEMMA LedgerIsInt ==
  ASSUME IInv, QuantityConserved
  PROVE  ledger \in Int
<1>1. PICK len \in Nat : len = Len(Fifo)
  BY FifoIsSeq
<1>2. PICK d : AddsUp(d, Fifo, len)
  BY <1>1, FifoIsSeq, QtyIsInt, SumExists
<1>3. Depth(Fifo) \in Int
  BY <1>1, <1>2, DepthIsSum
<1> QED
  BY <1>3 DEF QuantityConserved

(* Nothing changes for the client when nothing changes in the level.       *)
LEMMA NothingSeen ==
  ASSUME IInv, ClientInv, UNCHANGED level, UNCHANGED <<mirror, ledger>>
  PROVE  ClientInv'
BY MirrorSame, LedgerSame DEF ClientInv

(* A refusal tells the client nothing new.                                 *)
LEMMA RefusalSeen ==
  ASSUME IInv, ClientInv, NEW e, UNCHANGED level, Result(reply') = Rejected(e), Observe
  PROVE  ClientInv'
<1>1. mirror' = mirror /\ ledger' = ledger + 0
  BY DEF Observe, Deduce, Booked, Rejected
<1>2. ledger' = ledger
  BY <1>1, LedgerIsInt DEF ClientInv
<1> QED
  BY <1>1, <1>2, NothingSeen

(* An order that leaves is struck out and booked.                          *)
LEMMA DropSeen ==
  ASSUME IInv, ClientInv, NEW n, DropNode(n), Observe,
         \/ Result(reply') = Full(heap[n].ro.id, heap[n].ro.qty)
         \/ Result(reply') = Removed(heap[n].ro.id, heap[n].ro.qty)
  PROVE  ClientInv'
<1>1. mirror' = Strike(mirror, Place(mirror, heap[n].ro.id))
  BY DEF Observe, Deduce, Full, Removed
<1>2. ledger' = ledger + (-heap[n].ro.qty)
  BY DEF Observe, Booked, Full, Removed
<1> QED
  BY <1>1, <1>2, MirrorDrop, LedgerDrop DEF ClientInv

(* insert.                                                                 *)
LEMMA InsertSeen ==
  ASSUME IInv, ClientInv, NEW id \in OrderIds, NEW qty \in Quantities,
         Insert(id, qty), ObserveInsert(id, qty)
  PROVE  ClientInv'
<1>1. TypeOK /\ now' = now
  BY DEF IInv, Insert
<1>2. CASE id \in DOMAIN index /\ Reject("DuplicateOrderId")
  <2>1. Result(reply') # Acknowledged
    BY <1>2, ResultOfReply DEF Reject, Answer, Rejected, Acknowledged
  <2>2. UNCHANGED <<mirror, ledger>> /\ UNCHANGED level
    BY <1>2, <2>1 DEF ObserveInsert, Reject
  <2> QED
    BY <2>2, NothingSeen
<1>3. CASE id \notin DOMAIN index /\ Answer(Acknowledged)
  <2> DEFINE ro == [id |-> id, qty |-> qty, timestamp_ns |-> now]
  <2>1. ro \in RestingOrder /\ Seen(ro) = [id |-> id, qty |-> qty] /\ ro.qty = qty
    BY <1>1 DEF TypeOK, RestingOrder, Seen
  <2>2. PICK n : AddNode(n, ro)
    BY <1>1, <1>3 DEF Insert, AddNode, Reject
  <2>3. Result(reply') = Acknowledged
    BY <1>3, ResultOfReply DEF Answer
  <2>4. mirror' = Append(mirror, Seen(ro)) /\ ledger' = ledger + ro.qty
    BY <2>1, <2>3 DEF ObserveInsert
  <2> HIDE DEF ro
  <2> QED
    BY <2>1, <2>2, <2>4, MirrorAdd, LedgerAdd DEF ClientInv
<1> QED
  BY <1>2, <1>3 DEF Insert

(* pop_head.                                                               *)
LEMMA PopHeadSeen ==
  ASSUME IInv, ClientInv, PopHead, Observe
  PROVE  ClientInv'
<1>1. CASE head = None
  <2>1. Result(reply') = Rejected("EmptyPriceLevel") /\ UNCHANGED level
    BY <1>1, ResultOfReply DEF PopHead
  <2> QED
    BY <2>1, RefusalSeen
<1>2. CASE head # None
  <2>1. Result(reply') = Full(heap[head].ro.id, heap[head].ro.qty)
    BY <1>2, ResultOfReply DEF PopHead
  <2> QED
    BY <1>2, <2>1, PopHeadDrops, DropSeen
<1> QED
  BY <1>1, <1>2

(* remove.                                                                 *)
LEMMA RemoveSeen ==
  ASSUME IInv, ClientInv, NEW id \in OrderIds, Remove(id), Observe
  PROVE  ClientInv'
<1>1. CASE id \notin DOMAIN index
  <2>1. Result(reply') = Rejected("OrderNotFound") /\ UNCHANGED level
    BY <1>1, ResultOfReply DEF Remove, Reject, Answer
  <2> QED
    BY <2>1, RefusalSeen
<1>2. CASE id \in DOMAIN index
  <2>1. DropNode(index[id]) /\ heap[index[id]].ro.id = id
    BY <1>2, RemoveDrops DEF IInv, IndexExact
  <2>2. Result(reply') = Removed(id, heap[index[id]].ro.qty)
    BY <1>2, ResultOfReply DEF Remove, Answer
  <2> QED
    BY <2>1, <2>2, DropSeen
<1> QED
  BY <1>1, <1>2

(* update_quantity.                                                        *)
LEMMA UpdateQuantitySeen ==
  ASSUME IInv, ClientInv, NEW id \in OrderIds, NEW newQty \in Quantities,
         UpdateQuantity(id, newQty), Observe
  PROVE  ClientInv'
<1>1. CASE id \notin DOMAIN index
  <2>1. Result(reply') = Rejected("OrderNotFound") /\ UNCHANGED level
    BY <1>1, ResultOfReply DEF UpdateQuantity, Reject, Answer
  <2> QED
    BY <2>1, RefusalSeen
<1>2. CASE id \in DOMAIN index
  <2>1. SetQty(index[id], newQty) /\ heap[index[id]].ro.id = id
    BY <1>2 DEF UpdateQuantity, SetQty, IInv, IndexExact
  <2>2. Result(reply') = QuantityUpdated(id, newQty)
    BY <1>2, ResultOfReply DEF UpdateQuantity, Answer
  <2>3. mirror' = [mirror EXCEPT ![Place(mirror, heap[index[id]].ro.id)].qty = newQty]
    BY <2>1, <2>2 DEF Observe, Deduce, QuantityUpdated
  <2>4. PICK k \in DOMAIN Fifo : Fifo[k] = heap[index[id]].ro
    BY <1>2, PlaceOfId
  <2>5. mirror[Place(mirror, id)] = Seen(heap[index[id]].ro)
    BY <2>1, <2>4, MirrorFacts DEF ClientInv
  <2>6. ledger' = ledger + (newQty - mirror[Place(mirror, id)].qty)
    BY <2>2 DEF Observe, Booked, QuantityUpdated
  <2>7. ledger' = ledger + (newQty - heap[index[id]].ro.qty)
    BY <2>5, <2>6 DEF Seen
  <2> QED
    BY <2>1, <2>3, <2>7, MirrorSetQty, LedgerSetQty DEF ClientInv
<1> QED
  BY <1>1, <1>2

(* apply_partial_fill.                                                     *)
LEMMA ApplyPartialFillSeen ==
  ASSUME IInv, ClientInv, NEW qty \in Quantities, ApplyPartialFill(qty), Observe
  PROVE  ClientInv'
<1>1. CASE Reject("EmptyPriceLevel") \/ Reject("InsufficientQuantity")
  <2>1. PICK e : Result(reply') = Rejected(e) /\ UNCHANGED level
    BY <1>1, ResultOfReply DEF Reject, Answer
  <2> QED
    BY <2>1, RefusalSeen
<1>2. CASE head # None /\ qty < heap[head].ro.qty /\ FillHead(qty)
  <2> DEFINE rest == heap[head].ro.qty - qty
  <2>1. head \in Range(arena) /\ head \in DOMAIN heap
    BY <1>2, HeadFacts DEF IInv, BoxesOwnedOnce
  <2>2. heap \in [DOMAIN heap -> OrderNode] /\ heap[head] \in OrderNode
    BY <2>1 DEF IInv, TypeOK
  <2>3. rest \in Quantities
    BY <1>2, <2>2, MaxQtyAssumption DEF OrderNode, RestingOrder, Quantities
  <2>4. SetQty(head, rest)
    BY <1>2, <2>1, <2>3 DEF SetQty, FillHead, ApplyPartialFill
  <2>5. /\ Result(reply').variant = "Partial" /\ Result(reply').order_id = heap[head].ro.id
        /\ Result(reply').filled_qty = qty
    BY <1>2, ResultOfReply DEF FillHead, Answer, Partial
  <2>6. 1 \in DOMAIN Fifo /\ Fifo[1] = heap[head].ro
    BY <1>2, HeadOfFifo
  <2>7. /\ mirror \in Seq(SeenOrder) /\ 1 \in DOMAIN mirror
        /\ mirror[1] = Seen(heap[head].ro) /\ Place(mirror, heap[head].ro.id) = 1
    BY <2>6, MirrorFacts DEF ClientInv
  <2>8. mirror[1].qty - qty = rest
    BY <2>7 DEF Seen
  <2>9. mirror' = [mirror EXCEPT ![1].qty = mirror[1].qty - qty]
    BY <2>5, <2>7 DEF Observe, Deduce
  <2>10. mirror' = [mirror EXCEPT ![Place(mirror, heap[head].ro.id)].qty = rest]
    BY <2>7, <2>8, <2>9
  <2>11. ledger' = ledger + (-qty)
    BY <2>5 DEF Observe, Booked
  <2>12. -qty = rest - heap[head].ro.qty
    BY <2>2, MaxQtyAssumption DEF OrderNode, RestingOrder, Quantities
  <2>13. ledger' = ledger + (rest - heap[head].ro.qty)
    BY <2>11, <2>12
  <2> HIDE DEF rest
  <2> QED
    BY <2>4, <2>10, <2>13, MirrorSetQty, LedgerSetQty DEF ClientInv
<1> QED
  BY <1>1, <1>2 DEF ApplyPartialFill

(* What the client relies on holds in every reachable state.               *)
LEMMA ClientInvariance == ObservedSpec => []ClientInv
<1>1. ObservedInit => IInv /\ ClientInv
  <2>1. SUFFICES ASSUME ObservedInit PROVE IInv /\ ClientInv
    OBVIOUS
  <2>2. IInv
    BY <2>1, InitInv DEF ObservedInit
  <2>3. Fifo = <<>>
    BY <2>1, <2>2, HeadOfFifo DEF ObservedInit, Init
  <2>4. MirrorExact
    BY <2>1, <2>3 DEF ObservedInit, MirrorExact
  <2>5. Depth(<<>>) = 0
    <3>1. AddsUp([i \in 0..0 |-> 0], <<>>, 0)
      BY DEF AddsUp
    <3>2. Len(<<>>) = 0
      OBVIOUS
    <3> QED
      BY <3>1, <3>2, DepthIsSum
  <2> QED
    BY <2>1, <2>2, <2>3, <2>4, <2>5 DEF ObservedInit, ClientInv, QuantityConserved
<1>2. IInv /\ ClientInv /\ [ObservedNext]_observed => IInv' /\ ClientInv'
  <2>1. SUFFICES ASSUME IInv, ClientInv, [ObservedNext]_observed PROVE IInv' /\ ClientInv'
    OBVIOUS
  <2>2. IInv'
    BY <2>1, ObservedStep, NextInv
  <2>3. ASSUME NEW id \in OrderIds, NEW qty \in Quantities,
               Insert(id, qty) /\ ObserveInsert(id, qty)
        PROVE  ClientInv'
    BY <2>1, <2>3, InsertSeen
  <2>4. ASSUME NEW id \in OrderIds, NEW qty \in Quantities,
               UpdateQuantity(id, qty) /\ Observe
        PROVE  ClientInv'
    BY <2>1, <2>4, UpdateQuantitySeen
  <2>5. ASSUME NEW id \in OrderIds, Remove(id) /\ Observe
        PROVE  ClientInv'
    BY <2>1, <2>5, RemoveSeen
  <2>6. ASSUME NEW qty \in Quantities, ApplyPartialFill(qty) /\ Observe
        PROVE  ClientInv'
    BY <2>1, <2>6, ApplyPartialFillSeen
  <2>7. CASE PopHead /\ Observe
    BY <2>1, <2>2, <2>7, PopHeadSeen
  <2>8. CASE Tick /\ UNCHANGED <<mirror, ledger>>
    BY <2>1, <2>2, <2>8, NothingSeen DEF Tick
  <2>9. CASE UNCHANGED observed
    BY <2>1, <2>2, <2>9, NothingSeen DEF observed, vars
  <2> QED
    BY <2>1, <2>2, <2>3, <2>4, <2>5, <2>6, <2>7, <2>8, <2>9 DEF ObservedNext
<1> QED
  BY <1>1, <1>2, PTL DEF ObservedSpec

(* The client's mirror is exact in every reachable state.                  *)
THEOREM ClientKnows == ObservedSpec => []MirrorExact
<1>1. ClientInv => MirrorExact
  BY DEF ClientInv
<1> QED
  BY <1>1, ClientInvariance, PTL

(* What was accepted and is neither filled nor cancelled still rests.      *)
THEOREM NothingLost == ObservedSpec => []QuantityConserved
<1>1. ClientInv => QuantityConserved
  BY DEF ClientInv
<1> QED
  BY <1>1, ClientInvariance, PTL
-----------------------------------------------------------------------------
(* A level owns as many boxes as orders ever rested in it at once.         *)
THEOREM NoBoxTooMany == ObservedSpec => []BoxesArePeak
<1>1. ObservedInit => IInv /\ BoxesArePeak
  BY InitInv DEF ObservedInit, Init, BoxesArePeak
<1>2. IInv /\ BoxesArePeak /\ [ObservedNext]_observed => IInv' /\ BoxesArePeak'
  <2>1. SUFFICES ASSUME IInv, BoxesArePeak, [ObservedNext]_observed
                 PROVE  IInv' /\ BoxesArePeak'
    OBVIOUS
  <2>2. IInv'
    BY <2>1, ObservedStep, NextInv
  <2>3. CASE ObservedNext
    <3>1. peak' = IF Len(arena') > peak THEN Len(arena') ELSE peak
      BY <2>3 DEF ObservedNext
    <3> QED
      BY <2>1, <2>2, <3>1, ObservedStep, StepBoxes DEF BoxesArePeak
  <2>4. CASE UNCHANGED observed
    BY <2>1, <2>2, <2>4 DEF observed, vars, level, BoxesArePeak
  <2> QED
    BY <2>1, <2>3, <2>4
<1> QED
  BY <1>1, <1>2, PTL DEF ObservedSpec
=============================================================================
