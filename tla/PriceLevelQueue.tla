-------------------------- MODULE PriceLevelQueue --------------------------
(***************************************************************************)
(* One price level of the book: price_level.rs and resting_order_node.rs.  *)
(*                                                                         *)
(* A resting order lives in a heap node that carries raw prev and next     *)
(* pointers.  The level keeps the ends of that doubly linked list, an      *)
(* index from order id to node, the arena that owns the nodes in use and   *)
(* the freelist that owns the nodes waiting to be used again.  Every       *)
(* method takes &mut self, so that a call is one atomic step; within it    *)
(* the pointer writes are applied in the order of the code.                *)
(***************************************************************************)
EXTENDS Responses, Sequences, Functions

CONSTANTS
  OrderIds,  (* the order ids callers may use                              *)
  Nodes,     (* the heap addresses a Box<OrderNode> may get                *)
  None,      (* the null case of Option<NonNull<OrderNode>>                *)
  MaxQty,    (* the largest quantity, u64::MAX in the code                 *)
  MaxTime    (* bound on the clock; 0 is the fixed MockClock of the tests  *)

ASSUME NoneAssumption == None \notin Nodes
ASSUME MaxQtyAssumption == MaxQty \in Nat
ASSUME MaxTimeAssumption == MaxTime \in Nat

VARIABLES
  heap,      (* allocated address -> OrderNode                             *)
  head,      (* the oldest resting order's node, or None                   *)
  tail,      (* the youngest resting order's node, or None                 *)
  index,     (* resting order id -> its node                               *)
  arena,     (* Vec<Box<OrderNode>>: the nodes in use, in no useful order  *)
  freelist,  (* Vec<Box<OrderNode>> used as a stack                        *)
  now,       (* what the TimeSource answers                                *)
  reply      (* the result of the last call                                *)

level == <<heap, head, tail, index, arena, freelist>>
vars == <<level, now, reply>>

Quantities == 0..MaxQty
Times == 0..MaxTime
Pointers == Nodes \cup {None}

RestingOrder == [id : OrderIds, qty : Quantities, timestamp_ns : Times]
OrderNode == [ro : RestingOrder, prev : Pointers, next : Pointers]
-----------------------------------------------------------------------------
(* Maps, vectors and pointers.                                             *)

(* HashMap::insert, and the write that initialises a fresh Box.            *)
Put(f, k, v) == [x \in DOMAIN f \cup {k} |-> IF x = k THEN v ELSE f[x]]

(* HashMap::remove.                                                        *)
Without(f, k) == Restrict(f, DOMAIN f \ {k})

(* What Vec::pop leaves behind.                                            *)
Pop(v) == [i \in 1..Len(v) - 1 |-> v[i]]

(* Iterator::position, for an element that occurs.                         *)
Position(v, x) ==
  CHOOSE p \in DOMAIN v : v[p] = x /\ \A q \in 1..p - 1 : v[q] # x

(* Fault: the arena's last box is popped instead of the one asked for.     *)
FaultySwapRemove(v, p) == Pop(v)

(* Vec::swap_remove: the last element takes the place of the removed one.  *)
SwapRemove(v, p) == [i \in 1..Len(v) - 1 |-> IF i = p THEN v[Len(v)] ELSE v[i]]

(* p.next = v and p.prev = v, when p points somewhere.                     *)
SetNext(h, p, v) == IF p = None THEN h ELSE [h EXCEPT ![p].next = v]
SetPrev(h, p, v) == IF p = None THEN h ELSE [h EXCEPT ![p].prev = v]

(* Fault: the new node does not learn its predecessor.                     *)
FaultyLinkAtTail(h, n, t) == SetNext(h, t, n)

(* Fault: the new node is spliced in before the tail instead of behind it. *)
OvertakingLinkAtTail(h, n, t) ==
  IF t = None THEN h
  ELSE SetPrev(SetNext(SetPrev(SetNext(h, h[t].prev, n), n, h[t].prev), n, t), t, n)

(* Put node n behind the tail t: old_tail.next = n, then n.prev = old_tail. *)
LinkAtTail(h, n, t) == SetPrev(SetNext(h, t, n), n, t)

(* Fault: the successor keeps pointing back to n.                          *)
FaultyUnlink(h, n) == SetNext(h, h[n].prev, h[n].next)

(* Join the neighbours of n; n keeps its own, now stale, pointers.         *)
Unlink(h, n) ==
  LET h1 == SetNext(h, h[n].prev, h[n].next)
  IN  SetPrev(h1, h1[n].next, h1[n].prev)
-----------------------------------------------------------------------------
(* Fault: the freelist is never drawn on.                                   *)
FaultyTakeNode(n) == n \in Nodes \ DOMAIN heap /\ UNCHANGED freelist

(* The node an insert writes to: the one freed last if there is any, else  *)
(* one the allocator has not handed out yet.                               *)
TakeNode(n) ==
  \/ freelist # <<>> /\ n = freelist[Len(freelist)] /\ freelist' = Pop(freelist)
  \/ freelist = <<>> /\ n \in Nodes \ DOMAIN heap /\ UNCHANGED freelist

(* Move the box of node n from the arena to the freelist.  The code scans  *)
(* the arena for n and drops the OrderNotInArena of a scan that fails.     *)
RemoveFromArena(n) ==
  IF n \in Range(arena)
  THEN /\ arena' = SwapRemove(arena, Position(arena, n))
       /\ freelist' = Append(freelist, n)
  ELSE UNCHANGED <<arena, freelist>>

(* Reply with the clock reading taken by this call.                        *)
Answer(result) == reply' = TimedResult(now, result)

Reject(error) == Answer(Rejected(error)) /\ UNCHANGED level
-----------------------------------------------------------------------------
(* The methods.                                                            *)

Insert(id, qty) ==
  /\ \/ id \in DOMAIN index /\ Reject("DuplicateOrderId")
     \/ /\ id \notin DOMAIN index
        /\ \E n \in Nodes :
             LET ro == [id |-> id, qty |-> qty, timestamp_ns |-> now]
                 node == [ro |-> ro, prev |-> None, next |-> None]
             IN  /\ TakeNode(n)
                 /\ heap' = LinkAtTail(Put(heap, n, node), n, tail)
                 /\ head' = IF tail = None THEN n ELSE head
                 /\ tail' = n
                 /\ index' = Put(index, id, n)
                 /\ arena' = Append(arena, n)
        /\ Answer(Acknowledged)
  /\ UNCHANGED now

(* Fault: the order leaves the list but not the index.                     *)
FaultyPopHead ==
  /\ head # None
  /\ LET next == heap[head].next IN
       /\ head' = next
       /\ tail' = IF next = None THEN None ELSE tail
       /\ heap' = SetPrev(heap, next, None)
  /\ RemoveFromArena(head)
  /\ reply' = Full(heap[head].ro.id, heap[head].ro.qty)
  /\ UNCHANGED <<index, now>>

(* Fault: the reply is read off the head after the head has moved on.      *)
LatePopHead ==
  /\ head # None
  /\ LET next == heap[head].next IN
       /\ head' = next
       /\ tail' = IF next = None THEN None ELSE tail
       /\ heap' = SetPrev(heap, next, None)
       /\ reply' = Full(heap[head].ro.id, IF next = None THEN 0 ELSE heap[next].ro.qty)
  /\ index' = Without(index, heap[head].ro.id)
  /\ RemoveFromArena(head)
  /\ UNCHANGED now

(* The fill of the whole head order.  Its result carries no timestamp.     *)
PopHead ==
  /\ \/ head = None /\ reply' = Rejected("EmptyPriceLevel") /\ UNCHANGED level
     \/ /\ head # None
        /\ LET next == heap[head].next IN
             /\ head' = next
             /\ tail' = IF next = None THEN None ELSE tail
             /\ heap' = SetPrev(heap, next, None)
        /\ index' = Without(index, heap[head].ro.id)
        /\ RemoveFromArena(head)
        /\ reply' = Full(heap[head].ro.id, heap[head].ro.qty)
  /\ UNCHANGED now

(* Fault: the arena holds the nodes themselves instead of boxes, so that    *)
(* its last node moves to the place that is freed.                         *)
MovingRemove(id) ==
  /\ id \in DOMAIN index
  /\ LET n == index[id]
         last == arena[Len(arena)]
         unlinked == Unlink(heap, n)
     IN  /\ heap' = [unlinked EXCEPT ![n] = unlinked[last]]
         /\ head' = IF heap[n].prev = None THEN heap[n].next ELSE head
         /\ tail' = IF heap[n].next = None THEN heap[n].prev ELSE tail
         /\ index' = [i \in DOMAIN index \ {id} |-> IF index[i] = last THEN n ELSE index[i]]
         /\ arena' = Pop(arena) /\ freelist' = Append(freelist, last)
         /\ Answer(Removed(id, heap[n].ro.qty))
  /\ UNCHANGED now

Remove(id) ==
  /\ \/ id \notin DOMAIN index /\ Reject("OrderNotFound")
     \/ /\ id \in DOMAIN index
        /\ index' = Without(index, id)
        /\ LET n == index[id] IN
             /\ heap' = Unlink(heap, n)
             /\ head' = IF heap[n].prev = None THEN heap[n].next ELSE head
             /\ tail' = IF heap[n].next = None THEN heap[n].prev ELSE tail
             /\ RemoveFromArena(n)
             /\ Answer(Removed(id, heap[n].ro.qty))
  /\ UNCHANGED now

(* Fault: the order is stamped anew but keeps its place in the list.       *)
FaultyUpdateQuantity(id, newQty) ==
  /\ id \in DOMAIN index
  /\ heap' = [heap EXCEPT ![index[id]].ro.qty = newQty, ![index[id]].ro.timestamp_ns = now]
  /\ UNCHANGED <<head, tail, index, arena, freelist, now>>
  /\ Answer(QuantityUpdated(id, newQty))

UpdateQuantity(id, newQty) ==
  /\ \/ id \notin DOMAIN index /\ Reject("OrderNotFound")
     \/ /\ id \in DOMAIN index
        /\ heap' = [heap EXCEPT ![index[id]].ro.qty = newQty]
        /\ UNCHANGED <<head, tail, index, arena, freelist>>
        /\ Answer(QuantityUpdated(id, newQty))
  /\ UNCHANGED now

(* Fault: the reply swaps what was filled and what remains.                *)
FaultyFillHead(qtyToFill) ==
  /\ heap' = [heap EXCEPT ![head].ro.qty = @ - qtyToFill]
  /\ UNCHANGED <<head, tail, index, arena, freelist>>
  /\ Answer(Partial(heap[head].ro.id, heap'[head].ro.qty, qtyToFill))

(* The head order gives up qtyToFill.                                      *)
FillHead(qtyToFill) ==
  /\ heap' = [heap EXCEPT ![head].ro.qty = @ - qtyToFill]
  /\ UNCHANGED <<head, tail, index, arena, freelist>>
  /\ Answer(Partial(heap[head].ro.id, qtyToFill, heap'[head].ro.qty))

(* Fault: the quantity of the head order is not compared at all.           *)
UnguardedPartialFill(qtyToFill) == head # None /\ FillHead(qtyToFill) /\ UNCHANGED now

(* Fault: a fill of the whole order passes for a partial one.              *)
FaultyApplyPartialFill(qtyToFill) ==
  head # None /\ qtyToFill <= heap[head].ro.qty /\ FillHead(qtyToFill) /\ UNCHANGED now

(* A fill of less than the head order; a fill of all of it is refused here *)
(* and left to PopHead.                                                    *)
ApplyPartialFill(qtyToFill) ==
  /\ \/ head = None /\ Reject("EmptyPriceLevel")
     \/ /\ head # None
        /\ qtyToFill >= heap[head].ro.qty
        /\ Reject("InsufficientQuantity")
     \/ /\ head # None
        /\ qtyToFill < heap[head].ro.qty
        /\ FillHead(qtyToFill)
  /\ UNCHANGED now

(* The clock moves on between calls; that it never goes back is assumed of  *)
(* every TimeSource, none of which says so.                                *)
Tick == now < MaxTime /\ now' = now + 1 /\ UNCHANGED <<level, reply>>
-----------------------------------------------------------------------------
(* PriceLevelQueue::new.                                                   *)
Init ==
  /\ heap = <<>> /\ index = <<>>
  /\ head = None /\ tail = None
  /\ arena = <<>> /\ freelist = <<>>
  /\ now = 0 /\ reply = NoReply

Next ==
  \/ \E id \in OrderIds, qty \in Quantities : Insert(id, qty) \/ UpdateQuantity(id, qty)
  \/ \E id \in OrderIds : Remove(id)
  \/ \E qty \in Quantities : ApplyPartialFill(qty)
  \/ PopHead
  \/ Tick

Spec == Init /\ [][Next]_vars
-----------------------------------------------------------------------------
(* What holds in every state.                                              *)

Replies ==
  LET results == CommandResult(OrderIds, Quantities) IN
    {NoReply} \cup results \cup [timestamp_ns : Times, result : results]

(* Every variable has the type its declaration in the code gives it.       *)
TypeOK ==
  /\ DOMAIN heap \subseteq Nodes /\ heap \in [DOMAIN heap -> OrderNode]
  /\ head \in Pointers /\ tail \in Pointers
  /\ DOMAIN index \subseteq OrderIds /\ index \in [DOMAIN index -> Nodes]
  /\ arena \in Seq(Nodes) /\ freelist \in Seq(Nodes)
  /\ now \in Times
  /\ reply \in Replies

(* No node is leaked, freed twice or in use while free: every allocated    *)
(* box is in exactly one place of exactly one of arena and freelist,       *)
(* whatever sequence of inserts, fills and cancels recycled it.            *)
BoxesOwnedOnce ==
  /\ IsInjective(arena) /\ IsInjective(freelist)
  /\ Range(arena) \cap Range(freelist) = {}
  /\ DOMAIN heap = Range(arena) \cup Range(freelist)

(* The index finds exactly the orders that rest: no entry leads to a       *)
(* recycled node or to a node that now holds another order, and no node in *)
(* use is out of the reach of a cancel.                                    *)
IndexExact ==
  /\ \A id \in DOMAIN index : index[id] \in Range(arena) /\ heap[index[id]].ro.id = id
  /\ \A n \in Range(arena) : /\ heap[n].ro.id \in DOMAIN index
                             /\ index[heap[n].ro.id] = n

(* c lists the nodes in use from head to tail, the pointers of each node   *)
(* leading to its neighbours in c and to None at the two ends.             *)
IsChain(c) ==
  LET len == Len(arena) IN
  /\ IsInjective(c) /\ Range(c) = Range(arena)
  /\ head = IF len = 0 THEN None ELSE c[1]
  /\ tail = IF len = 0 THEN None ELSE c[len]
  /\ \A i \in 1..len : /\ heap[c[i]].prev = IF i = 1 THEN None ELSE c[i - 1]
                       /\ heap[c[i]].next = IF i = len THEN None ELSE c[i + 1]

(* The linked list is whole: whichever node was unlinked, from the front,  *)
(* the middle or the back, and whatever stale pointers a recycled node     *)
(* brought along, both directions still visit every node in use once.      *)
LinkedList == \E c \in [1..Len(arena) -> Nodes] : IsChain(c)

(* Time priority: walking from head to tail the orders' timestamps never   *)
(* decrease and none lies in the future, so that position in the list and  *)
(* time of arrival agree however nodes were recycled.                      *)
TimePriority ==
  \E c \in [1..Len(arena) -> Nodes] :
    /\ IsChain(c)
    /\ \A i, j \in 1..Len(arena) :
         i <= j => heap[c[i]].ro.timestamp_ns <= heap[c[j]].ro.timestamp_ns
    /\ \A n \in Range(arena) : heap[n].ro.timestamp_ns <= now

(* The conjunction that every step preserves; TimePriority speaks about the *)
(* chain whose existence LinkedList claims.                                *)
IInv == TypeOK /\ BoxesOwnedOnce /\ IndexExact /\ TimePriority
-----------------------------------------------------------------------------
(* What no step does.                                                      *)

(* The raw pointers handed to the list and the index stay good: while an   *)
(* order rests it keeps its node, however the arena is reshuffled, and its *)
(* timestamp, whatever is filled or updated.                               *)
OrdersStayPut ==
  [][\A id \in DOMAIN index \cap DOMAIN index' :
       /\ index'[id] = index[id]
       /\ heap'[index[id]].ro.timestamp_ns = heap[index[id]].ro.timestamp_ns]_vars

(* No step writes through a stale pointer: a node that stays on the        *)
(* freelist is not modified, although the nodes around it in the list it   *)
(* once was part of are.                                                   *)
FreeNodesUntouched ==
  [][\A n \in Range(freelist) \cap Range(freelist') : heap'[n] = heap[n]]_vars

(* "Precisely timestamps all state-changing events": a step that changes   *)
(* which orders rest, or how much of one, answers with a TimedResult.      *)
EveryChangeTimed ==
  [][UNCHANGED level \/ "timestamp_ns" \in DOMAIN reply']_vars
=============================================================================
