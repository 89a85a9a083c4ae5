--------------------------- MODULE OrderBookProofs ---------------------------
(***************************************************************************)
(* The book keeps arrivals, for every number of orders, prices and ids.    *)
(***************************************************************************)
EXTENDS OrderBook, SequenceTheorems, WellFoundedInduction, TLAPS

Order == [id : OrderIds, price : Prices, side : Sides, timestamp_ns : Nat]

Belongs(order, side, price) == order.side = side /\ order.price = price

(* f[i] are those of the first i orders of q that belong to a side and a    *)
(* price.                                                                  *)
Gathers(f, q, side, price) ==
  f = [i \in 0..Len(q) |->
         IF i = 0 THEN <<>>
         ELSE IF q[i].side = side /\ q[i].price = price
              THEN Append(f[i - 1], q[i]) ELSE f[i - 1]]

(* A set of numbers that is not empty has a least element.                 *)
LEMMA LeastElement ==
  ASSUME NEW T \in SUBSET Nat, T # {}
  PROVE  \E x \in T : \A y \in T : ~(y < x)
<1>1. \E x \in T : \A y \in T : <<y, x>> \notin OpToRel(<, Nat)
  BY NatLessThanWellFounded, WFMin
<1> QED
  BY <1>1 DEF OpToRel

(* There is one way to gather them.                                        *)
LEMMA GatheredOnce ==
  ASSUME NEW q, Len(q) \in Nat, NEW side, NEW price, NEW f, NEW g,
         Gathers(f, q, side, price), Gathers(g, q, side, price)
  PROVE  f[Len(q)] = g[Len(q)]
<1> DEFINE T == {i \in 0..Len(q) : f[i] # g[i]}
<1>1. SUFFICES ASSUME T # {} PROVE FALSE
  OBVIOUS
<1>2. T \in SUBSET Nat
  OBVIOUS
<1> HIDE DEF T
<1>3. PICK m \in T : \A j \in T : ~(j < m)
  BY <1>1, <1>2, LeastElement
<1> USE DEF T
<1>4. m \in 0..Len(q) /\ f[m] # g[m]
  BY <1>3
<1>5. m # 0
  BY <1>4 DEF Gathers
<1>6. m - 1 \in 0..Len(q) /\ f[m - 1] = g[m - 1]
  BY <1>3, <1>4, <1>5
<1> QED
  BY <1>4, <1>5, <1>6 DEF Gathers

(* Whatever gathers the orders added finds those that arrived.             *)
LEMMA ArrivedIsGathered ==
  ASSUME Len(added) \in Nat, NEW side, NEW price, NEW f, Gathers(f, added, side, price)
  PROVE  Arrived(side, price) = f[Len(added)]
<1> DEFINE upTo ==
      CHOOSE g : g = [i \in 0..Len(added) |->
                        IF i = 0 THEN <<>>
                        ELSE IF added[i].side = side /\ added[i].price = price
                             THEN Append(g[i - 1], added[i]) ELSE g[i - 1]]
<1>1. Gathers(upTo, added, side, price)
  BY Zenon DEF Gathers
<1>2. Arrived(side, price) = upTo[Len(added)]
  BY Zenon DEF Arrived
<1> HIDE DEF upTo
<1> QED
  BY <1>1, <1>2, GatheredOnce

(* One more order is appended where it belongs.                            *)
LEMMA GatherMore ==
  ASSUME NEW q \in Seq(Order), NEW order \in Order, NEW side, NEW price, NEW f,
         Gathers(f, q, side, price)
  PROVE  \E g : /\ Gathers(g, Append(q, order), side, price)
                /\ g[Len(q) + 1] = IF Belongs(order, side, price)
                                   THEN Append(f[Len(q)], order) ELSE f[Len(q)]
<1> DEFINE n == Len(q)
           r == Append(q, order)
           last == IF Belongs(order, side, price) THEN Append(f[n], order) ELSE f[n]
           g == [i \in 0..n + 1 |-> IF i = n + 1 THEN last ELSE f[i]]
<1>1. /\ n \in Nat /\ Len(r) = n + 1 /\ r[n + 1] = order
      /\ \A i \in 1..n : r[i] = q[i]
  OBVIOUS
<1> HIDE DEF n, r, last
<1>2. \A i \in 0..n + 1 : i = 0 \/ i \in 1..n \/ i = n + 1
  BY <1>1
<1>3. f = [i \in 0..n |->
             IF i = 0 THEN <<>>
             ELSE IF q[i].side = side /\ q[i].price = price
                  THEN Append(f[i - 1], q[i]) ELSE f[i - 1]]
  BY DEF Gathers, n
<1>4. g[0] = <<>> /\ g[n + 1] = last
  BY <1>1, <1>3
<1>5. ASSUME NEW i \in 1..n
      PROVE  g[i] = IF r[i].side = side /\ r[i].price = price
                    THEN Append(g[i - 1], r[i]) ELSE g[i - 1]
  <2>1. /\ i \in 0..n /\ i - 1 \in 0..n /\ i # 0 /\ i # n + 1 /\ i - 1 # n + 1
        /\ i \in 0..n + 1 /\ i - 1 \in 0..n + 1
    BY <1>1
  <2>2. g[i] = f[i] /\ g[i - 1] = f[i - 1] /\ r[i] = q[i]
    BY <1>1, <2>1
  <2> QED
    BY <1>3, <2>1, <2>2
<1>6. g[n + 1] = IF r[n + 1].side = side /\ r[n + 1].price = price
                 THEN Append(g[n], r[n + 1]) ELSE g[n]
  <2>1. g[n] = f[n]
    BY <1>1
  <2> QED
    BY <1>1, <1>4, <2>1 DEF last, Belongs
<1> HIDE DEF g
<1>7. Gathers(g, r, side, price)
  <2>1. ASSUME NEW i \in 0..n + 1
        PROVE  g[i] = IF i = 0 THEN <<>>
                      ELSE IF r[i].side = side /\ r[i].price = price
                           THEN Append(g[i - 1], r[i]) ELSE g[i - 1]
    <3>1. CASE i = 0
      BY <1>4, <3>1
    <3>2. CASE i \in 1..n
      BY <1>1, <1>5, <3>2
    <3>3. CASE i = n + 1
      <4>1. i # 0 /\ i - 1 = n
        BY <1>1, <3>3
      <4> QED
        BY <1>6, <3>3, <4>1
    <3> QED
      BY <1>2, <3>1, <3>2, <3>3
  <2>2. g = [i \in 0..n + 1 |-> g[i]]
    BY DEF g
  <2> QED
    BY <1>1, <2>1, <2>2 DEF Gathers
<1> QED
  BY <1>4, <1>7 DEF n, r, last

(* A side of the book holds the orders of q that belong to it.             *)
Holds(map, q, side) ==
  /\ map \in [DOMAIN map -> Seq(Order)] /\ DOMAIN map \subseteq Prices
  /\ \A p \in Prices : \E f :
       /\ Gathers(f, q, side, p) /\ f[Len(q)] \in Seq(Order)
       /\ p \in DOMAIN map <=> f[Len(q)] # <<>>
       /\ p \in DOMAIN map => map[p] = f[Len(q)]

BookInv ==
  /\ created \in Seq(Order) /\ added \in Seq(Order) /\ now \in Nat
  /\ Holds(bids, added, "BUY") /\ Holds(asks, added, "SELL")

(* The empty book holds nothing.                                           *)
LEMMA EmptyHolds ==
  ASSUME NEW side
  PROVE  Holds(<<>>, <<>>, side)
<1>1. ASSUME NEW p \in Prices
      PROVE  Gathers([i \in 0..0 |-> <<>>], <<>>, side, p)
  BY DEF Gathers
<1> QED
  BY <1>1 DEF Holds

(* An order for the other side changes nothing.                            *)
LEMMA OtherSideHolds ==
  ASSUME NEW map, NEW q \in Seq(Order), NEW side, Holds(map, q, side),
         NEW order \in Order, order.side # side
  PROVE  Holds(map, Append(q, order), side)
<1>1. Len(Append(q, order)) = Len(q) + 1
  OBVIOUS
<1>2. ASSUME NEW p \in Prices
      PROVE  \E f : /\ Gathers(f, Append(q, order), side, p) /\ f[Len(q) + 1] \in Seq(Order)
                    /\ p \in DOMAIN map <=> f[Len(q) + 1] # <<>>
                    /\ p \in DOMAIN map => map[p] = f[Len(q) + 1]
  <2>1. PICK f : /\ Gathers(f, q, side, p) /\ f[Len(q)] \in Seq(Order)
                 /\ p \in DOMAIN map <=> f[Len(q)] # <<>>
                 /\ p \in DOMAIN map => map[p] = f[Len(q)]
    BY DEF Holds
  <2>2. PICK g : Gathers(g, Append(q, order), side, p) /\ g[Len(q) + 1] = f[Len(q)]
    BY <2>1, GatherMore DEF Belongs
  <2> QED
    BY <2>1, <2>2
<1> QED
  BY <1>1, <1>2 DEF Holds

(* An order for this side is held once it is pushed to its price.          *)
LEMMA PushBackHolds ==
  ASSUME NEW map, NEW q \in Seq(Order), NEW side, Holds(map, q, side),
         NEW order \in Order, order.side = side
  PROVE  Holds(PushBack(map, order), Append(q, order), side)
<1> DEFINE m == PushBack(map, order)
<1>1. /\ DOMAIN m = DOMAIN map \cup {order.price} /\ order.price \in Prices
      /\ m[order.price] = Append(IF order.price \in DOMAIN map THEN map[order.price] ELSE <<>>, order)
      /\ \A p \in DOMAIN map : p # order.price => m[p] = map[p]
      /\ m = [p \in DOMAIN m |-> m[p]]
  BY DEF PushBack, Order
<1> HIDE DEF m
<1>2. Len(Append(q, order)) = Len(q) + 1
  OBVIOUS
<1>3. ASSUME NEW p \in Prices
      PROVE  \E f : /\ Gathers(f, Append(q, order), side, p) /\ f[Len(q) + 1] \in Seq(Order)
                    /\ p \in DOMAIN m <=> f[Len(q) + 1] # <<>>
                    /\ p \in DOMAIN m => m[p] = f[Len(q) + 1]
  <2>1. PICK f : /\ Gathers(f, q, side, p) /\ f[Len(q)] \in Seq(Order)
                 /\ p \in DOMAIN map <=> f[Len(q)] # <<>>
                 /\ p \in DOMAIN map => map[p] = f[Len(q)]
    BY DEF Holds
  <2>2. PICK g : /\ Gathers(g, Append(q, order), side, p)
                 /\ g[Len(q) + 1] = IF Belongs(order, side, p)
                                    THEN Append(f[Len(q)], order) ELSE f[Len(q)]
    BY <2>1, GatherMore
  <2>3. CASE p = order.price
    <3>1. g[Len(q) + 1] = Append(f[Len(q)], order)
      BY <2>2, <2>3 DEF Belongs
    <3>2. m[p] = Append(f[Len(q)], order) /\ p \in DOMAIN m
      BY <1>1, <2>1, <2>3
    <3>3. Append(f[Len(q)], order) \in Seq(Order) /\ Append(f[Len(q)], order) # <<>>
      BY <2>1, AppendProperties
    <3> QED
      BY <2>2, <3>1, <3>2, <3>3
  <2>4. CASE p # order.price
    <3>1. g[Len(q) + 1] = f[Len(q)]
      BY <2>2, <2>4 DEF Belongs
    <3> QED
      BY <1>1, <2>1, <2>2, <2>4, <3>1
  <2> QED
    BY <2>3, <2>4
<1>4. m \in [DOMAIN m -> Seq(Order)] /\ DOMAIN m \subseteq Prices
  <2>1. DOMAIN m \subseteq Prices
    BY <1>1 DEF Holds
  <2>2. \A p \in DOMAIN m : m[p] \in Seq(Order)
    BY <1>3, <2>1
  <2> QED
    BY <1>1, <2>1, <2>2
<1> QED
  BY <1>2, <1>3, <1>4 DEF Holds, m

(* Taking an order out of its creators' hands leaves a sequence of orders. *)
LEMMA TakenOut ==
  ASSUME NEW q \in Seq(Order), NEW i \in 1..Len(q)
  PROVE  SubSeq(q, 1, i - 1) \o SubSeq(q, i + 1, Len(q)) \in Seq(Order)
<1>1. SubSeq(q, 1, i - 1) \in Seq(Order)
  BY SubSeqProperties
<1>2. SubSeq(q, i + 1, Len(q)) \in Seq(Order)
  BY SubSeqProperties
<1> QED
  BY <1>1, <1>2, ConcatProperties

(* The orders held in the two maps are those added, in every state.        *)
LEMMA BookInvariance == Spec => []BookInv
<1>1. Init => BookInv
  BY EmptyHolds DEF Init, BookInv
<1>2. BookInv /\ [Next]_vars => BookInv'
  <2> SUFFICES ASSUME BookInv, [Next]_vars PROVE BookInv'
    OBVIOUS
  <2> USE DEF BookInv
  <2>1. ASSUME NEW id \in OrderIds, NEW price \in Prices, NEW side \in Sides,
               Create(id, price, side)
        PROVE  BookInv'
    <3>1. [id |-> id, price |-> price, side |-> side, timestamp_ns |-> now] \in Order
      BY DEF Order
    <3>2. created' \in Seq(Order)
      BY <2>1, <3>1 DEF Create
    <3> QED
      BY <2>1, <3>2 DEF Create
  <2>2. CASE AddOrder
    <3>1. PICK i \in DOMAIN created :
            /\ created' = SubSeq(created, 1, i - 1) \o SubSeq(created, i + 1, Len(created))
            /\ added' = Append(added, created[i])
            /\ \/ created[i].side = "BUY" /\ bids' = PushBack(bids, created[i]) /\ UNCHANGED asks
               \/ created[i].side = "SELL" /\ asks' = PushBack(asks, created[i]) /\ UNCHANGED bids
      BY <2>2 DEF AddOrder
    <3>2. created[i] \in Order /\ i \in 1..Len(created)
      BY <3>1
    <3>3. created' \in Seq(Order)
      BY <3>1, <3>2, TakenOut
    <3>4. added' \in Seq(Order)
      BY <3>1, <3>2
    <3>5. Holds(bids', added', "BUY") /\ Holds(asks', added', "SELL")
      <4>1. CASE created[i].side = "BUY" /\ bids' = PushBack(bids, created[i]) /\ UNCHANGED asks
        BY <3>1, <3>2, <4>1, PushBackHolds, OtherSideHolds
      <4>2. CASE created[i].side = "SELL" /\ asks' = PushBack(asks, created[i]) /\ UNCHANGED bids
        BY <3>1, <3>2, <4>2, PushBackHolds, OtherSideHolds
      <4> QED
        BY <3>1, <4>1, <4>2
    <3> QED
      BY <2>2, <3>3, <3>4, <3>5 DEF AddOrder
  <2>3. CASE Tick
    BY <2>3 DEF Tick
  <2>4. CASE UNCHANGED vars
    BY <2>4 DEF vars
  <2> QED
    BY <2>1, <2>2, <2>3, <2>4 DEF Next
<1> QED
  BY <1>1, <1>2, PTL DEF Spec

(* Every price of either side holds what arrived for it, for any number    *)
(* of orders, created and added in any sequence.                           *)
THEOREM ArrivalsHeld == Spec => []LevelsHoldArrivals
<1>1. ASSUME BookInv PROVE LevelsHoldArrivals
  <2> USE <1>1
  <2>1. Len(added) \in Nat
    BY DEF BookInv
  <2>2. ASSUME NEW map, NEW side, Holds(map, added, side)
        PROVE  /\ DOMAIN map = {p \in Prices : Arrived(side, p) # <<>>}
               /\ \A p \in DOMAIN map : map[p] = Arrived(side, p)
    <3>1. ASSUME NEW p \in Prices
          PROVE  /\ p \in DOMAIN map <=> Arrived(side, p) # <<>>
                 /\ p \in DOMAIN map => map[p] = Arrived(side, p)
      <4>1. PICK f : /\ Gathers(f, added, side, p)
                     /\ p \in DOMAIN map <=> f[Len(added)] # <<>>
                     /\ p \in DOMAIN map => map[p] = f[Len(added)]
        BY <2>2 DEF Holds
      <4> QED
        BY <2>1, <4>1, ArrivedIsGathered
    <3>2. DOMAIN map \subseteq Prices
      BY <2>2 DEF Holds
    <3> QED
      BY <3>1, <3>2
  <2> QED
    BY <2>2 DEF BookInv, LevelsHoldArrivals, Sides
<1> QED
  BY <1>1, BookInvariance, PTL
=============================================================================
