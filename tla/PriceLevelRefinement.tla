------------------------ MODULE PriceLevelRefinement ------------------------
(***************************************************************************)
(* A price level implements the price-time queue: the queue is what a      *)
(* reader of the linked list finds from head to tail.                      *)
(***************************************************************************)
EXTENDS PriceLevelQueue

(* The node reached from head after i - 1 steps along next, None when the  *)
(* list is shorter.                                                        *)
NthNode[i \in 1..Len(arena)] ==
  IF i = 1 THEN head
  ELSE IF NthNode[i - 1] = None THEN None ELSE heap[NthNode[i - 1]].next

(* The orders of the list, oldest first.                                   *)
Fifo == [i \in {j \in 1..Len(arena) : NthNode[j] # None} |-> heap[NthNode[i]].ro]

Queue == INSTANCE PriceTimeQueue WITH queue <- Fifo

(* Seen through Fifo, every call does to the queue of orders what the      *)
(* abstract command does and gives the same reply: no order is lost,       *)
(* duplicated or passed over by the pointer surgery, the recycling of      *)
(* nodes or the swap_remove in the arena.                                  *)
ImplementsQueue == Queue!Spec

(* The ids that are matched before id.                                     *)
Ahead(id) ==
  {Fifo[i].id : i \in {j \in DOMAIN Fifo : \E k \in DOMAIN Fifo : j < k /\ Fifo[k].id = id}}

(* Priority is never lost: while an order rests, the orders ahead of it    *)
(* only become fewer.  An insert never jumps the queue, a cancel in the    *)
(* middle reorders nothing, and an update of the quantity, up or down,     *)
(* neither gains nor costs a place.                                        *)
NoOvertaking ==
  [][\A id \in DOMAIN index \cap DOMAIN index' : Ahead(id)' \subseteq Ahead(id)]_vars
=============================================================================
