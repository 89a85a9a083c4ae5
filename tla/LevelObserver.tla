--------------------------- MODULE LevelObserver ---------------------------
(***************************************************************************)
(* A price level together with somebody who watches it from outside:       *)
(* history variables that record what the calls and their replies say.     *)
(* They restrict no step of the level.                                     *)
(***************************************************************************)
EXTENDS PriceLevelRefinement

VARIABLES
  mirror,    (* the orders a client deduces from its calls and the replies *)
  ledger,    (* the quantity accepted less the quantity given up, by reply *)
  peak       (* the most orders that ever rested at once                   *)

observed == <<vars, mirror, ledger, peak>>

(* Where an order stands in m.                                             *)
Place(m, id) == CHOOSE i \in DOMAIN m : m[i].id = id

(* The orders m without the one that stands at i.                          *)
Strike(m, i) == SubSeq(m, 1, i - 1) \o SubSeq(m, i + 1, Len(m))

(* What a client deduces about the resting orders m from a result.         *)
Deduce(m, result) ==
  CASE result.variant \in {"Full", "Removed"} -> Strike(m, Place(m, result.order_id))
    [] result.variant = "Partial" ->
         [m EXCEPT ![Place(m, result.order_id)].qty = @ - result.filled_qty]
    [] result.variant = "QuantityUpdated" ->
         [m EXCEPT ![Place(m, result.order_id)].qty = result.new_qty]
    [] OTHER -> m

(* By how much a result changes the quantity that is left, m known before. *)
Booked(m, result) ==
  CASE result.variant \in {"Full", "Partial"} -> -result.filled_qty
    [] result.variant = "Removed" -> -result.canceled_quantity
    [] result.variant = "QuantityUpdated" ->
         result.new_qty - m[Place(m, result.order_id)].qty
    [] OTHER -> 0

Observe ==
  /\ mirror' = Deduce(mirror, Result(reply'))
  /\ ledger' = ledger + Booked(mirror, Result(reply'))

(* The result of an insert does not repeat the order: the caller knows it. *)
ObserveInsert(id, qty) ==
  IF Result(reply') = Acknowledged
  THEN mirror' = Append(mirror, [id |-> id, qty |-> qty]) /\ ledger' = ledger + qty
  ELSE UNCHANGED <<mirror, ledger>>

ObservedInit == Init /\ mirror = <<>> /\ ledger = 0 /\ peak = 0

ObservedNext ==
  /\ \/ \E id \in OrderIds, qty \in Quantities : Insert(id, qty) /\ ObserveInsert(id, qty)
     \/ \E id \in OrderIds, qty \in Quantities : UpdateQuantity(id, qty) /\ Observe
     \/ \E id \in OrderIds : Remove(id) /\ Observe
     \/ \E qty \in Quantities : ApplyPartialFill(qty) /\ Observe
     \/ PopHead /\ Observe
     \/ Tick /\ UNCHANGED <<mirror, ledger>>
  /\ peak' = IF Len(arena') > peak THEN Len(arena') ELSE peak

ObservedSpec == ObservedInit /\ [][ObservedNext]_observed
-----------------------------------------------------------------------------
(* The quantity that rests in a queue of orders.                           *)
Depth(q) ==
  LET upTo[i \in 0..Len(q)] == IF i = 0 THEN 0 ELSE upTo[i - 1] + q[i].qty
  IN  upTo[Len(q)]

(* An order as a client knows it.                                          *)
Seen(order) == [id |-> order.id, qty |-> order.qty]

(* The replies tell the whole truth: a client that knows only its calls    *)
(* and the replies knows which orders rest, in which sequence and with     *)
(* which quantity, after any mixture of fills, cancels and updates.        *)
MirrorExact == mirror = [i \in DOMAIN Fifo |-> Seen(Fifo[i])]

(* Quantity is conserved: what was accepted, by inserts and updates, less  *)
(* what the replies report as filled or cancelled is what still rests; a   *)
(* fill is reported with the quantity the order had when it was matched,   *)
(* neither more nor less, whatever was filled or updated before.           *)
QuantityConserved == ledger = Depth(Fifo)

(* The freelist is worth its name: boxes are recycled before new ones are  *)
(* allocated and never dropped, so that a level owns exactly as many boxes *)
(* as orders ever rested in it at once.                                    *)
BoxesArePeak == Len(arena) + Len(freelist) = peak
=============================================================================
