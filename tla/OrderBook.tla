------------------------------ MODULE OrderBook ------------------------------
(***************************************************************************)
(* order.rs: orders are created and stamped by whoever places them, and    *)
(* added later to the book, which keeps one queue per side and price.      *)
(* The book does not use PriceLevelQueue yet.  Quantities are left out:    *)
(* they are carried along and never read.                                  *)
(***************************************************************************)
EXTENDS Integers, Sequences, Functions

CONSTANTS
  OrderIds,
  Prices,
  MaxTime,        (* bound on the clock                                   *)
  MaxOrders       (* bound on the orders created                          *)

ASSUME BoundsAssumption == MaxTime \in Nat /\ MaxOrders \in Nat

VARIABLES
  bids, asks,     (* DashMap: price -> VecDeque of orders                 *)
  priceLevelById, (* DashMap: order id -> (price, side)                   *)
  created,        (* orders in their creators' hands, oldest first        *)
  added,          (* history: the orders added so far, in that order      *)
  now

vars == <<bids, asks, priceLevelById, created, added, now>>

Sides == {"BUY", "SELL"}

(* Fault: an order finds no queue at its price other than a new one.       *)
FaultyPushBack(map, order) ==
  [p \in DOMAIN map \cup {order.price} |-> IF p = order.price THEN <<order>> ELSE map[p]]

(* entry(price).or_insert_with(VecDeque::new).push_back(order)             *)
PushBack(map, order) ==
  [p \in DOMAIN map \cup {order.price} |->
     IF p # order.price THEN map[p]
     ELSE Append(IF p \in DOMAIN map THEN map[p] ELSE <<>>, order)]

Init ==
  /\ bids = <<>> /\ asks = <<>> /\ priceLevelById = <<>>
  /\ created = <<>> /\ added = <<>> /\ now = 0

(* Order::create reads the clock; nothing keeps ids apart.                 *)
Create(id, price, side) ==
  /\ Len(created) + Len(added) < MaxOrders
  /\ created' = Append(created,
                  [id |-> id, price |-> price, side |-> side, timestamp_ns |-> now])
  /\ UNCHANGED <<bids, asks, priceLevelById, added, now>>

(* add_order takes an order over from its creator, whichever is first.     *)
AddOrder ==
  /\ \E i \in DOMAIN created :
       LET order == created[i] IN
       /\ created' = SubSeq(created, 1, i - 1) \o SubSeq(created, i + 1, Len(created))
       /\ added' = Append(added, order)
       /\ \/ order.side = "BUY" /\ bids' = PushBack(bids, order) /\ UNCHANGED asks
          \/ order.side = "SELL" /\ asks' = PushBack(asks, order) /\ UNCHANGED bids
  /\ UNCHANGED <<priceLevelById, now>>

Tick ==
  now < MaxTime /\ now' = now + 1
    /\ UNCHANGED <<bids, asks, priceLevelById, created, added>>

Next ==
  \/ \E id \in OrderIds, price \in Prices, side \in Sides : Create(id, price, side)
  \/ AddOrder
  \/ Tick

Spec == Init /\ [][Next]_vars
-----------------------------------------------------------------------------
(* The orders added so far that belong to a side and a price, in the       *)
(* sequence of the calls to add_order.                                     *)
Arrived(side, price) ==
  LET upTo[i \in 0..Len(added)] ==
        IF i = 0 THEN <<>>
        ELSE IF added[i].side = side /\ added[i].price = price
             THEN Append(upTo[i - 1], added[i]) ELSE upTo[i - 1]
  IN  upTo[Len(added)]

(* Every order added rests once, on its own side and at its own price, and *)
(* a price keeps its orders in the sequence of the calls to add_order,     *)
(* which is not that of their creation; no price without orders is listed. *)
LevelsHoldArrivals ==
  \A side \in Sides :
    LET map == IF side = "BUY" THEN bids ELSE asks
    IN  /\ DOMAIN map = {p \in Prices : Arrived(side, p) # <<>>}
        /\ \A p \in DOMAIN map : map[p] = Arrived(side, p)

(* "order_id -> (price, side)": the map leads to every order in the book.  *)
FoundById ==
  \A i \in DOMAIN added :
    /\ added[i].id \in DOMAIN priceLevelById
    /\ priceLevelById[added[i].id] = <<added[i].price, added[i].side>>
=============================================================================
