----------------------------- MODULE Responses -----------------------------
(***************************************************************************)
(* The outcomes a price level reports: domain/responses.rs and             *)
(* domain/errors.rs.  A CommandResult is a record tagged with its variant; *)
(* a TimedResult pairs one with the clock reading taken for the command.   *)
(***************************************************************************)
EXTENDS Integers

(* OrderNotInArena comes out of remove_from_arena only, and both of its     *)
(* callers drop that result: no reply ever carries it.                      *)
OrderBookError ==
  {"OrderNotInArena", "OrderNotFound", "DuplicateOrderId", "InsufficientQuantity",
   "EmptyPriceLevel"}

Acknowledged == [variant |-> "Acknowledged"]

Rejected(error) == [variant |-> "Rejected", error |-> error]

Full(orderId, filledQty) ==
  [variant |-> "Full", order_id |-> orderId, filled_qty |-> filledQty]

Partial(orderId, filledQty, remainingQty) ==
  [variant |-> "Partial", order_id |-> orderId, filled_qty |-> filledQty,
   remaining_qty |-> remainingQty]

QuantityUpdated(orderId, newQty) ==
  [variant |-> "QuantityUpdated", order_id |-> orderId, new_qty |-> newQty]

Removed(orderId, canceledQuantity) ==
  [variant |-> "Removed", order_id |-> orderId, canceled_quantity |-> canceledQuantity]

(* Every CommandResult over a set of order ids and a set of quantities.     *)
CommandResult(Ids, Qtys) ==
  {Acknowledged}
    \cup [variant : {"Rejected"}, error : OrderBookError]
    \cup [variant : {"Full"}, order_id : Ids, filled_qty : Qtys]
    \cup [variant : {"Partial"}, order_id : Ids, filled_qty : Qtys, remaining_qty : Qtys]
    \cup [variant : {"QuantityUpdated"}, order_id : Ids, new_qty : Qtys]
    \cup [variant : {"Removed"}, order_id : Ids, canceled_quantity : Qtys]

(* The reply slot before the first command.                                 *)
NoReply == [variant |-> "NoReply"]

TimedResult(timestamp, result) == [timestamp_ns |-> timestamp, result |-> result]

(* The result inside a reply, stamped or bare.                             *)
Result(r) == IF "timestamp_ns" \in DOMAIN r THEN r.result ELSE r
=============================================================================
