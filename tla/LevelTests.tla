----------------------------- MODULE LevelTests -----------------------------
(***************************************************************************)
(* The unit tests of price_level.rs, call by call, with what they assert.  *)
(* The code runs each of them once, on a new level and at the addresses    *)
(* its allocator happens to choose.  Here they run at all addresses, and   *)
(* also on levels where other orders have come and gone before, so that    *)
(* the test gets boxes that carry old orders and old pointers.             *)
(***************************************************************************)
EXTENDS PriceLevelQueue

CONSTANT
  Earlier     (* the ids of the orders that may come and go before a test  *)

(* The ids and quantities in use are among those of the level.             *)
ASSUME TestIdsAssumption == 1..4 \cup Earlier \subseteq OrderIds
ASSUME TestQtyAssumption == 100 <= MaxQty

VARIABLES
  test,       (* the test that runs, or "none"                             *)
  step,       (* the number of its calls made                              *)
  spare       (* the boxes on the freelist when it began                   *)

testVars == <<vars, test, step, spare>>

Call(op, orderId, qty) == [op |-> op, order_id |-> orderId, qty |-> qty]

(* insert(create_new_order_request(i, qty)).                               *)
Order(i, qty) == Call("insert", i, qty)

Script ==
  [test_insert |-> <<Order(1, 1), Order(2, 1), Order(3, 1)>>,
   test_freelist_reuse |->
     <<Order(1, 100), Order(2, 100), Order(3, 100), Call("remove", 1, 0), Order(4, 100)>>,
   test_remove |-> <<Order(1, 100), Order(2, 100), Order(3, 100), Call("remove", 1, 0)>>,
   test_pop_head |->
     <<Call("pop_head", 0, 0), Order(1, 100), Order(2, 100), Order(3, 100),
       Call("pop_head", 0, 0)>>,
   test_update_order |->
     <<Order(1, 100), Order(2, 100), Order(3, 100), Call("update_quantity", 1, 10)>>,
   test_apply_partial_fill |->
     <<Call("apply_partial_fill", 0, 100), Order(1, 100), Call("apply_partial_fill", 0, 50)>>]

Perform(call) ==
  \/ call.op = "insert" /\ Insert(call.order_id, call.qty)
  \/ call.op = "remove" /\ Remove(call.order_id)
  \/ call.op = "pop_head" /\ PopHead
  \/ call.op = "update_quantity" /\ UpdateQuantity(call.order_id, call.qty)
  \/ call.op = "apply_partial_fill" /\ ApplyPartialFill(call.qty)

TestInit == Init /\ test = "none" /\ step = 0 /\ spare = 0
-----------------------------------------------------------------------------
(* Orders of earlier times come, and go in any order.                      *)
ComeAndGo ==
  /\ test = "none"
  /\ \E id \in Earlier : Insert(id, 1) \/ Remove(id)
  /\ UNCHANGED <<test, step, spare>>

(* A test starts when no order rests.                                      *)
Begin(t) ==
  /\ test = "none" /\ head = None
  /\ test' = t /\ spare' = Len(freelist)
  /\ UNCHANGED <<vars, step>>

Advance ==
  /\ test # "none" /\ step < Len(Script[test])
  /\ Perform(Script[test][step + 1])
  /\ step' = step + 1
  /\ UNCHANGED <<test, spare>>

TestNext == ComeAndGo \/ (\E t \in DOMAIN Script : Begin(t)) \/ Advance

TestSpec == TestInit /\ [][TestNext]_testVars
-----------------------------------------------------------------------------
(* The orders rest in the sequence ids, each where the index says, linked  *)
(* to its neighbours and to nothing at the ends.                           *)
Listed(ids) ==
  /\ DOMAIN index = Range(ids)
  /\ head = index[ids[1]] /\ tail = index[ids[Len(ids)]]
  /\ \A i \in DOMAIN ids :
       LET node == heap[index[ids[i]]] IN
       /\ node.ro.id = ids[i]
       /\ node.prev = IF i = 1 THEN None ELSE index[ids[i - 1]]
       /\ node.next = IF i = Len(ids) THEN None ELSE index[ids[i + 1]]

(* arena.len() and freelist.len(); a spare box is used before a new one is *)
(* allocated, and those the test had no use for are still there.           *)
Boxes(inUse, free) ==
  Len(arena) = inUse
    /\ Len(freelist) = IF spare > inUse + free THEN spare - inUse ELSE free

TestInsert == step > 0 => Boxes(step, 0) /\ Listed([i \in 1..step |-> i])

TestFreelistReuse ==
  step = 5 => /\ Boxes(3, 0) /\ heap[index[4]].ro.id = 4
              /\ heap[index[4]].prev = index[3] /\ heap[index[4]].next = None

TestRemove == step = 4 => Boxes(2, 1) /\ Listed(<<2, 3>>)

TestPopHead ==
  /\ step = 1 => reply = Rejected("EmptyPriceLevel")
  /\ step = 5 => Boxes(2, 1) /\ Listed(<<2, 3>>)

TestUpdateOrder == step = 4 => Boxes(3, 0) /\ Listed(<<1, 2, 3>>)

TestApplyPartialFill ==
  /\ step = 1 => reply.result = Rejected("EmptyPriceLevel")
  /\ step = 3 => reply.result = Partial(1, 50, 50)

(* Every assertion of the tests holds where the test makes it, and not by  *)
(* the luck of fresh memory: at whatever addresses the boxes lie, and in a *)
(* level that was in use before, whose free boxes still point to boxes     *)
(* that the test has put elsewhere in the list.                            *)
TestsPass ==
  /\ test = "test_insert" => TestInsert
  /\ test = "test_freelist_reuse" => TestFreelistReuse
  /\ test = "test_remove" => TestRemove
  /\ test = "test_pop_head" => TestPopHead
  /\ test = "test_update_order" => TestUpdateOrder
  /\ test = "test_apply_partial_fill" => TestApplyPartialFill
=============================================================================
