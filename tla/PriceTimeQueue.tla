--------------------------- MODULE PriceTimeQueue ---------------------------
(***************************************************************************)
(* What a price level promises to the code that calls it, without heap,    *)
(* pointers or index: the resting orders form a queue in arrival order,    *)
(* each command reads and changes that queue and answers with a reply.     *)
(* PriceLevelQueue is shown to implement this specification.               *)
(***************************************************************************)
EXTENDS Responses, Sequences

CONSTANTS
  OrderIds,   (* the order ids callers may use                             *)
  MaxQty,     (* the largest quantity, u64::MAX in the code                *)
  MaxTime     (* bound on the clock                                        *)

Quantities == 0..MaxQty

VARIABLES
  queue,      (* resting orders [id, qty, timestamp_ns], oldest first      *)
  now,        (* the clock                                                 *)
  reply       (* the reply to the last command                             *)

vars == <<queue, now, reply>>

Init == queue = <<>> /\ now = 0 /\ reply = NoReply

(* The positions at which an id rests; at most one, as Insert keeps it.     *)
At(id) == {i \in DOMAIN queue : queue[i].id = id}

Answer(result) == reply' = TimedResult(now, result)

Refuse(error) == Answer(Rejected(error)) /\ UNCHANGED queue

(* Fault: an id that rests already is accepted again.                      *)
LaxInsert(id, qty) ==
  /\ queue' = Append(queue, [id |-> id, qty |-> qty, timestamp_ns |-> now])
  /\ Answer(Acknowledged) /\ UNCHANGED now

Insert(id, qty) ==
  /\ \/ At(id) # {} /\ Refuse("DuplicateOrderId")
     \/ /\ At(id) = {}
        /\ queue' = Append(queue, [id |-> id, qty |-> qty, timestamp_ns |-> now])
        /\ Answer(Acknowledged)
  /\ UNCHANGED now

PopHead ==
  /\ \/ queue = <<>> /\ reply' = Rejected("EmptyPriceLevel") /\ UNCHANGED queue
     \/ /\ queue # <<>>
        /\ queue' = Tail(queue)
        /\ reply' = Full(Head(queue).id, Head(queue).qty)
  /\ UNCHANGED now

Remove(id) ==
  /\ \/ At(id) = {} /\ Refuse("OrderNotFound")
     \/ \E i \in At(id) :
          /\ queue' = SubSeq(queue, 1, i - 1) \o SubSeq(queue, i + 1, Len(queue))
          /\ Answer(Removed(id, queue[i].qty))
  /\ UNCHANGED now

UpdateQuantity(id, qty) ==
  /\ \/ At(id) = {} /\ Refuse("OrderNotFound")
     \/ \E i \in At(id) :
          /\ queue' = [queue EXCEPT ![i].qty = qty]
          /\ Answer(QuantityUpdated(id, qty))
  /\ UNCHANGED now

ApplyPartialFill(qty) ==
  /\ \/ queue = <<>> /\ Refuse("EmptyPriceLevel")
     \/ queue # <<>> /\ qty >= Head(queue).qty /\ Refuse("InsufficientQuantity")
     \/ /\ queue # <<>> /\ qty < Head(queue).qty
        /\ queue' = [queue EXCEPT ![1].qty = @ - qty]
        /\ Answer(Partial(Head(queue).id, qty, Head(queue).qty - qty))
  /\ UNCHANGED now

Tick == now < MaxTime /\ now' = now + 1 /\ UNCHANGED <<queue, reply>>

Next ==
  \/ \E id \in OrderIds, qty \in Quantities : Insert(id, qty) \/ UpdateQuantity(id, qty)
  \/ \E id \in OrderIds : Remove(id)
  \/ \E qty \in Quantities : ApplyPartialFill(qty)
  \/ PopHead
  \/ Tick

Spec == Init /\ [][Next]_vars
=============================================================================
