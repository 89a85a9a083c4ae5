-------------------------- MODULE LevelTestsProofs --------------------------
(***************************************************************************)
(* The assertions of the unit tests, for every set of addresses and after  *)
(* any orders that came and went before.  What the tests assert of nodes   *)
(* and pointers is derived from what the calls do to the queue of orders.  *)
(***************************************************************************)
EXTENDS LevelTests, PriceLevelRefinementProofs

(* The orders first to last rest, in this sequence.                        *)
Standing(q, first, last) ==
  /\ Len(q) = last - first + 1
  /\ \A i \in 1..Len(q) : q[i].id = first + i - 1

(* As many boxes as the level had spare, or as were in use at most.        *)
Pool(most) == Len(arena) + Len(freelist) = IF spare > most THEN spare ELSE most

(* The orders that rest after s calls of test t.                           *)
Progress(t, s, first, last) ==
  \/ /\ t \in {"test_insert", "test_freelist_reuse", "test_remove", "test_update_order"}
     /\ s \in 0..3 /\ first = 1 /\ last = s
  \/ t \in {"test_freelist_reuse", "test_remove"} /\ s = 4 /\ first = 2 /\ last = 3
  \/ t = "test_freelist_reuse" /\ s = 5 /\ first = 2 /\ last = 4
  \/ t = "test_update_order" /\ s = 4 /\ first = 1 /\ last = 3
  \/ t = "test_pop_head" /\ s = 0 /\ first = 1 /\ last = 0
  \/ t = "test_pop_head" /\ s \in 1..4 /\ first = 1 /\ last = s - 1
  \/ t = "test_pop_head" /\ s = 5 /\ first = 2 /\ last = 3
  \/ t = "test_apply_partial_fill" /\ s \in 0..1 /\ first = 1 /\ last = 0
  \/ t = "test_apply_partial_fill" /\ s \in 2..3 /\ first = 1 /\ last = 1

(* What the tests assert of the replies, and the quantity it rests on.     *)
Answered(t, s, q, r) ==
  /\ t = "test_pop_head" /\ s = 1 => r = Rejected("EmptyPriceLevel")
  /\ t = "test_apply_partial_fill" =>
       /\ s = 1 => r.result = Rejected("EmptyPriceLevel")
       /\ s = 2 => q[1].qty = 100
       /\ s = 3 => r.result = Partial(1, 50, 50)

TestInv ==
  /\ IInv /\ spare \in Nat /\ step \in Nat
  /\ test = "none" => step = 0
  /\ test # "none" =>
       \E first \in 1..2, last \in 0..4 :
         /\ Progress(test, step, first, last) /\ Standing(Fifo, first, last)
         /\ Pool(IF first = 1 THEN last ELSE 3)
  /\ Answered(test, step, Fifo, reply)
-----------------------------------------------------------------------------
(* The scripts, call by call.                                              *)

(* The calls of the tests but their last ones.                             *)
LEMMA Scripts ==
  /\ Len(Script["test_insert"]) = 3 /\ Len(Script["test_freelist_reuse"]) = 5
  /\ Len(Script["test_remove"]) = 4 /\ Len(Script["test_pop_head"]) = 5
  /\ Len(Script["test_update_order"]) = 4 /\ Len(Script["test_apply_partial_fill"]) = 3
  /\ \A i \in 1..3 :
       /\ Script["test_insert"][i] = Order(i, 1)
       /\ Script["test_freelist_reuse"][i] = Order(i, 100)
       /\ Script["test_remove"][i] = Order(i, 100)
       /\ Script["test_update_order"][i] = Order(i, 100)
  /\ Script["test_freelist_reuse"][4] = Call("remove", 1, 0)
  /\ Script["test_freelist_reuse"][5] = Order(4, 100)
  /\ Script["test_remove"][4] = Call("remove", 1, 0)
  /\ Script["test_update_order"][4] = Call("update_quantity", 1, 10)
  /\ Script["test_pop_head"][1] = Call("pop_head", 0, 0)
  /\ \A i \in 2..4 : Script["test_pop_head"][i] = Order(i - 1, 100)
  /\ Script["test_pop_head"][5] = Call("pop_head", 0, 0)
  /\ Script["test_apply_partial_fill"][1] = Call("apply_partial_fill", 0, 100)
  /\ Script["test_apply_partial_fill"][2] = Order(1, 100)
  /\ Script["test_apply_partial_fill"][3] = Call("apply_partial_fill", 0, 50)
<1>1. \A i \in 1..3 : i = 1 \/ i = 2 \/ i = 3
  OBVIOUS
<1>2. \A i \in 2..4 : (i = 2 /\ i - 1 = 1) \/ (i = 3 /\ i - 1 = 2) \/ (i = 4 /\ i - 1 = 3)
  OBVIOUS
<1>3. /\ Len(Script["test_insert"]) = 3
      /\ \A i \in 1..3 : Script["test_insert"][i] = Order(i, 1)
  BY <1>1 DEF Script
<1>4. /\ Len(Script["test_freelist_reuse"]) = 5
      /\ \A i \in 1..3 : Script["test_freelist_reuse"][i] = Order(i, 100)
      /\ Script["test_freelist_reuse"][4] = Call("remove", 1, 0)
      /\ Script["test_freelist_reuse"][5] = Order(4, 100)
  BY <1>1 DEF Script
<1>5. /\ Len(Script["test_remove"]) = 4
      /\ \A i \in 1..3 : Script["test_remove"][i] = Order(i, 100)
      /\ Script["test_remove"][4] = Call("remove", 1, 0)
  BY <1>1 DEF Script
<1>6. /\ Len(Script["test_pop_head"]) = 5
      /\ Script["test_pop_head"][1] = Call("pop_head", 0, 0)
      /\ \A i \in 2..4 : Script["test_pop_head"][i] = Order(i - 1, 100)
      /\ Script["test_pop_head"][5] = Call("pop_head", 0, 0)
  BY <1>2 DEF Script
<1>7. /\ Len(Script["test_update_order"]) = 4
      /\ \A i \in 1..3 : Script["test_update_order"][i] = Order(i, 100)
      /\ Script["test_update_order"][4] = Call("update_quantity", 1, 10)
  BY <1>1 DEF Script
<1>8. /\ Len(Script["test_apply_partial_fill"]) = 3
      /\ Script["test_apply_partial_fill"][1] = Call("apply_partial_fill", 0, 100)
      /\ Script["test_apply_partial_fill"][2] = Order(1, 100)
      /\ Script["test_apply_partial_fill"][3] = Call("apply_partial_fill", 0, 50)
  BY DEF Script
<1> QED
  BY ONLY <1>3, <1>4, <1>5, <1>6, <1>7, <1>8

(* What it is to perform a call.                                           *)
LEMMA Performed ==
  ASSUME NEW id, NEW qty
  PROVE  /\ Perform(Order(id, qty)) => Insert(id, qty)
         /\ Perform(Call("remove", id, qty)) => Remove(id)
         /\ Perform(Call("pop_head", id, qty)) => PopHead
         /\ Perform(Call("update_quantity", id, qty)) => UpdateQuantity(id, qty)
         /\ Perform(Call("apply_partial_fill", id, qty)) => ApplyPartialFill(qty)
BY DEF Perform, Call, Order

(* The calls of the tests are calls of the level.                          *)
LEMMA TestNumbers ==
  /\ 1 \in OrderIds /\ 2 \in OrderIds /\ 3 \in OrderIds /\ 4 \in OrderIds
  /\ 1 \in Quantities /\ 10 \in Quantities /\ 50 \in Quantities /\ 100 \in Quantities
<1>1. 1 \in 1..4 /\ 2 \in 1..4 /\ 3 \in 1..4 /\ 4 \in 1..4
  OBVIOUS
<1>2. 1 \in 0..MaxQty /\ 10 \in 0..MaxQty /\ 50 \in 0..MaxQty /\ 100 \in 0..MaxQty
  BY TestQtyAssumption, MaxQtyAssumption
<1> QED
  BY <1>1, <1>2, TestIdsAssumption DEF Quantities
-----------------------------------------------------------------------------
(* What a call does to orders that stand first to last.                    *)

(* The ids that stand, each in its place, and no other.                    *)
LEMMA StandingAt ==
  ASSUME NEW first \in Nat, NEW last \in Nat, Fifo \in Seq(RestingOrder),
         Standing(Fifo, first, last), NEW id \in Nat
  PROVE  Queue!At(id) = IF id \in first..last THEN {id - first + 1} ELSE {}
<1>1. PICK len \in Nat : len = Len(Fifo) /\ DOMAIN Fifo = 1..len
  OBVIOUS
<1>2. len = last - first + 1 /\ \A i \in 1..len : Fifo[i].id = first + i - 1
  BY <1>1 DEF Standing
<1>3. Queue!At(id) = {i \in 1..len : Fifo[i].id = id}
  BY <1>1 DEF Queue!At
<1>4. \A i \in 1..len : Fifo[i].id = id <=> i = id - first + 1
  BY <1>2
<1>5. id \in first..last <=> id - first + 1 \in 1..len
  BY ONLY <1>2, first \in Nat, last \in Nat, id \in Nat
<1> QED
  BY ONLY <1>3, <1>4, <1>5

(* The queue of a level is a sequence of its orders.                       *)
LEMMA FifoType ==
  ASSUME IInv
  PROVE  Fifo \in Seq(RestingOrder) /\ Len(Fifo) = Len(arena) /\ Len(arena) \in Nat
BY FifoFacts DEF QueueChain

LEMMA FifoLength == IInv => Len(Fifo) = Len(arena)
BY FifoType

(* The next order stands behind the last.                                  *)
LEMMA InsertStands ==
  ASSUME IInv, NEW first \in Nat, NEW last \in Nat, Standing(Fifo, first, last),
         first <= last + 1, NEW id \in OrderIds, id = last + 1,
         NEW qty \in Quantities, Insert(id, qty)
  PROVE  /\ Standing(Fifo', first, id)
         /\ first = id => Fifo'[1].qty = qty
<1>1. Fifo \in Seq(RestingOrder)
  BY FifoType
<1>2. Queue!At(id) = {}
  BY ONLY <1>1, StandingAt, first \in Nat, last \in Nat, Standing(Fifo, first, last), id = last + 1
<1>3. PICK order : /\ Fifo' = Append(Fifo, order)
                   /\ order = [id |-> id, qty |-> qty, timestamp_ns |-> now]
  BY <1>2, InsertQueue DEF Queue!Insert
<1>4. order.id = id /\ order.qty = qty
  BY <1>3
<1>5. PICK len \in Nat : len = Len(Fifo)
  BY <1>1
<1>6. /\ Len(Fifo') = len + 1 /\ Fifo'[len + 1] = order
      /\ \A i \in 1..len : Fifo'[i] = Fifo[i]
  BY ONLY <1>1, <1>3, <1>5, AppendProperties
<1>7. len = last - first + 1 /\ \A i \in 1..len : Fifo[i].id = first + i - 1
  BY ONLY <1>5, Standing(Fifo, first, last) DEF Standing
<1>8. ASSUME NEW i \in 1..len + 1 PROVE Fifo'[i].id = first + i - 1
  <2>1. CASE i = len + 1
    BY ONLY <1>4, <1>6, <1>7, <2>1, id = last + 1, first \in Nat, last \in Nat
  <2>2. CASE i # len + 1
    BY ONLY <1>6, <1>7, <2>2, i \in 1..len + 1, len \in Nat
  <2> QED
    BY <2>1, <2>2
<1>9. len + 1 = id - first + 1 /\ (first = id => len + 1 = 1)
  BY ONLY <1>7, id = last + 1, first \in Nat, last \in Nat
<1> QED
  BY ONLY <1>4, <1>6, <1>8, <1>9 DEF Standing

(* Without the first order the second is the first.                        *)
LEMMA TailStands ==
  ASSUME NEW first \in Nat, NEW last \in Nat, NEW q \in Seq(RestingOrder),
         Standing(q, first, last), first <= last
  PROVE  Standing(Tail(q), first + 1, last)
<1>1. PICK len \in Nat : len = Len(q)
  OBVIOUS
<1>2. len = last - first + 1 /\ \A i \in 1..len : q[i].id = first + i - 1
  BY ONLY <1>1, Standing(q, first, last) DEF Standing
<1>3. len # 0
  BY ONLY <1>2, first \in Nat, last \in Nat, first <= last
<1>4. /\ Len(Tail(q)) = len - 1 /\ \A i \in 1..len - 1 : Tail(q)[i] = q[i + 1]
  BY <1>1, <1>3
<1>5. \A i \in 1..len - 1 : Tail(q)[i].id = first + 1 + i - 1
  BY ONLY <1>2, <1>4, first \in Nat, len \in Nat
<1>6. len - 1 = last - (first + 1) + 1
  BY ONLY <1>2, first \in Nat, last \in Nat
<1> QED
  BY ONLY <1>4, <1>5, <1>6 DEF Standing

(* The first order leaves, by a cancel or by a fill.                       *)
LEMMA FirstLeaves ==
  ASSUME IInv, NEW first \in Nat, NEW last \in Nat, Standing(Fifo, first, last),
         first <= last, first \in OrderIds, Remove(first) \/ PopHead
  PROVE  Standing(Fifo', first + 1, last)
<1>1. Fifo \in Seq(RestingOrder)
  BY FifoType
<1>2. Len(Fifo) # 0 /\ Fifo # <<>>
  <2>1. Len(Fifo) # 0
    BY ONLY Standing(Fifo, first, last), first \in Nat, last \in Nat, first <= last DEF Standing
  <2> QED
    BY ONLY <2>1, EmptySeq
<1>3. CASE PopHead
  <2>1. Fifo' = Tail(Fifo)
    BY <1>2, <1>3, PopHeadQueue DEF Queue!PopHead
  <2> QED
    BY <1>1, <2>1, TailStands
<1>4. CASE Remove(first)
  <2>1. Queue!At(first) = {1}
    <3>1. first \in first..last /\ first - first + 1 = 1
      BY ONLY first \in Nat, last \in Nat, first <= last
    <3> QED
      BY <1>1, <3>1, StandingAt
  <2>2. Fifo' = SubSeq(Fifo, 1, 1 - 1) \o SubSeq(Fifo, 1 + 1, Len(Fifo))
    BY <1>4, <2>1, RemoveQueue DEF Queue!Remove
  <2>3. Fifo' = Tail(Fifo)
    <3>1. 1 \in DOMAIN Fifo
      BY <1>1, <1>2
    <3> QED
      BY <1>1, <1>2, <2>2
  <2> QED
    BY <1>1, <2>3, TailStands
<1> QED
  BY <1>3, <1>4

(* No order rests: both fills are refused, with and without a timestamp.   *)
LEMMA FillsOfNothing ==
  ASSUME IInv, NEW first \in Nat, NEW last \in Nat, Standing(Fifo, first, last), first = last + 1
  PROVE  /\ PopHead => Fifo' = Fifo /\ reply' = Rejected("EmptyPriceLevel")
         /\ \A qty \in Quantities : ApplyPartialFill(qty) =>
              Fifo' = Fifo /\ reply'.result = Rejected("EmptyPriceLevel")
<1>1. Fifo \in Seq(RestingOrder) /\ Len(Fifo) = 0
  <2>1. Len(Fifo) = 0
    BY ONLY Standing(Fifo, first, last), first \in Nat, last \in Nat, first = last + 1 DEF Standing
  <2> QED
    BY <2>1, FifoType
<1>2. Fifo = <<>>
  BY ONLY <1>1, EmptySeq
<1>3. head = None
  BY <1>2, HeadOfFifo
<1>4. ASSUME PopHead PROVE UNCHANGED level /\ reply' = Rejected("EmptyPriceLevel")
  BY <1>3, <1>4 DEF PopHead
<1>5. ASSUME NEW qty \in Quantities, ApplyPartialFill(qty)
      PROVE  UNCHANGED level /\ reply'.result = Rejected("EmptyPriceLevel")
  BY <1>3, <1>5 DEF ApplyPartialFill, Reject, Answer, TimedResult
<1> QED
  BY <1>4, <1>5, SameFifo

(* A new quantity moves no order.                                          *)
LEMMA QtyStands ==
  ASSUME NEW first, NEW last, NEW q \in Seq(RestingOrder), Standing(q, first, last),
         NEW i \in DOMAIN q, NEW qty, NEW r, r = [q EXCEPT ![i].qty = qty]
  PROVE  Standing(r, first, last)
<1>1. PICK len \in Nat : len = Len(q) /\ DOMAIN q = 1..len
  OBVIOUS
<1>2. \A j \in 1..len : q[j] \in RestingOrder
  BY <1>1
<1>3. /\ IsAFcn(r) /\ DOMAIN r = 1..len
      /\ \A j \in 1..len : r[j] = IF j = i THEN [q[i] EXCEPT !.qty = qty] ELSE q[j]
  BY <1>1 DEF IsAFcn
<1>4. Len(r) = len
  BY ONLY <1>3, len \in Nat
<1>5. \A j \in 1..len : r[j].id = q[j].id
  BY ONLY <1>1, <1>2, <1>3 DEF RestingOrder
<1> QED
  BY ONLY <1>1, <1>4, <1>5, Standing(q, first, last) DEF Standing

LEMMA UpdateStands ==
  ASSUME IInv, NEW first \in Nat, NEW last \in Nat, Standing(Fifo, first, last),
         NEW id \in OrderIds, id \in Nat, NEW qty \in Quantities, UpdateQuantity(id, qty)
  PROVE  Standing(Fifo', first, last)
<1>1. Fifo \in Seq(RestingOrder)
  BY FifoType
<1>2. \/ Fifo' = Fifo
      \/ \E i \in DOMAIN Fifo : Fifo' = [Fifo EXCEPT ![i].qty = qty]
  BY UpdateQuantityQueue DEF Queue!UpdateQuantity, Queue!Refuse, Queue!At
<1>3. CASE Fifo' = Fifo
  BY ONLY <1>3, Standing(Fifo, first, last) DEF Standing
<1>4. CASE \E i \in DOMAIN Fifo : Fifo' = [Fifo EXCEPT ![i].qty = qty]
  <2>1. PICK i \in DOMAIN Fifo : Fifo' = [Fifo EXCEPT ![i].qty = qty]
    BY <1>4
  <2>2. PICK q \in Seq(RestingOrder) : q = Fifo
    BY <1>1
  <2>3. PICK r : r = Fifo'
    OBVIOUS
  <2>4. r = [q EXCEPT ![i].qty = qty] /\ i \in DOMAIN q /\ Standing(q, first, last)
    BY ONLY <2>1, <2>2, <2>3, Standing(Fifo, first, last)
  <2>5. Standing(r, first, last)
    BY ONLY <2>4, q \in Seq(RestingOrder), QtyStands
  <2> QED
    BY ONLY <2>3, <2>5
<1> QED
  BY <1>2, <1>3, <1>4

(* Half of the one order is filled.                                        *)
LEMMA HalfFilled ==
  ASSUME IInv, Standing(Fifo, 1, 1), Fifo[1].qty = 100, ApplyPartialFill(50)
  PROVE  Standing(Fifo', 1, 1) /\ reply'.result = Partial(1, 50, 50)
<1>1. Fifo \in Seq(RestingOrder) /\ Len(Fifo) = 1 /\ Fifo[1].id = 1
  BY FifoType DEF Standing
<1>2. Fifo # <<>> /\ 1 \in DOMAIN Fifo /\ Head(Fifo) = Fifo[1]
  <2>1. Fifo # <<>>
    <3>1. Len(<<>>) = 0
      BY EmptySeq
    <3>2. Len(Fifo) = 1
      BY <1>1
    <3> QED
      BY ONLY <3>1, <3>2
  <2>2. head # None
    BY <2>1, HeadOfFifo
  <2> QED
    BY <2>1, <2>2, HeadOfFifo
<1>3. 50 < Head(Fifo).qty /\ ~ 50 >= Head(Fifo).qty /\ Head(Fifo).qty - 50 = 50
  BY ONLY <1>2, Fifo[1].qty = 100
<1>4. Queue!ApplyPartialFill(50)
  BY TestNumbers, ApplyPartialFillQueue
<1>5. /\ Fifo' = [Fifo EXCEPT ![1].qty = @ - 50]
      /\ Queue!Answer(Queue!Partial(Head(Fifo).id, 50, Head(Fifo).qty - 50))
  BY ONLY <1>2, <1>3, <1>4 DEF Queue!ApplyPartialFill
<1>6. Standing(Fifo', 1, 1)
  <2>1. PICK q, left : q = Fifo /\ q \in Seq(RestingOrder) /\ left = q[1].qty - 50
    BY <1>1
  <2>2. PICK r : r = Fifo'
    OBVIOUS
  <2>3. r = [q EXCEPT ![1].qty = left]
    BY ONLY <1>5, <2>1, <2>2
  <2>4. 1 \in DOMAIN q /\ Standing(q, 1, 1)
    BY ONLY <1>2, <2>1, Standing(Fifo, 1, 1)
  <2>5. Standing(r, 1, 1)
    BY ONLY <2>1, <2>3, <2>4, QtyStands
  <2> QED
    BY ONLY <2>2, <2>5
<1>7. reply'.result = Partial(1, 50, 50)
  BY <1>1, <1>2, <1>3, <1>5 DEF Queue!Answer, Queue!TimedResult, Queue!Partial, Partial
<1> QED
  BY <1>6, <1>7

(* The boxes after a step of the level.                                    *)
LEMMA PoolGoes ==
  ASSUME IInv, [Next]_vars, spare \in Nat, spare' = spare, NEW most \in Nat, Pool(most),
         Len(arena) <= most, NEW b \in Nat, b = Len(arena')
  PROVE  IF b > most THEN Pool(b)' ELSE Pool(most)'
<1>1. PICK a \in Nat, f \in Nat, g \in Nat :
        /\ a = Len(arena) /\ b = Len(arena') /\ f = Len(freelist) /\ g = Len(freelist')
        /\ \/ b = a - 1 /\ g = f + 1
           \/ b = a + 1 /\ f > 0 /\ g = f - 1
           \/ b = a + 1 /\ f = 0 /\ g = 0
           \/ b = a /\ g = f
  BY ONLY IInv, [Next]_vars, b = Len(arena'), StepBoxes
<1>2. a + f = (IF spare > most THEN spare ELSE most) /\ a <= most
  BY ONLY <1>1, Pool(most), Len(arena) <= most DEF Pool
<1>3. CASE b > most
  <2>1. b + g = IF spare > b THEN spare ELSE b
    BY ONLY <1>1, <1>2, <1>3, spare \in Nat, most \in Nat,
            a \in Nat, b \in Nat, f \in Nat, g \in Nat
  <2> QED
    BY ONLY <1>1, <1>3, <2>1, spare' = spare DEF Pool
<1>4. CASE ~ b > most
  <2>1. b + g = IF spare > most THEN spare ELSE most
    BY ONLY <1>1, <1>2, <1>4, spare \in Nat, most \in Nat,
            a \in Nat, b \in Nat, f \in Nat, g \in Nat
  <2> QED
    BY ONLY <1>1, <1>4, <2>1, spare' = spare DEF Pool
<1> QED
  BY <1>3, <1>4
-----------------------------------------------------------------------------
(* The calls of the tests, one by one.                                     *)

(* The next call has been made and first to last stand.                    *)
Reaches(first, last) ==
  /\ first \in 1..2 /\ last \in 0..4
  /\ Progress(test, step + 1, first, last) /\ Standing(Fifo', first, last)
  /\ Answered(test, step + 1, Fifo', reply')

LEMMA CallIsNext ==
  ASSUME NEW id \in OrderIds, NEW qty \in Quantities,
         \/ Insert(id, qty) \/ UpdateQuantity(id, qty) \/ Remove(id)
         \/ ApplyPartialFill(qty) \/ PopHead
  PROVE  Next
BY DEF Next

OrderTests == {"test_insert", "test_freelist_reuse", "test_remove", "test_update_order"}

(* Three orders are inserted.                                              *)
LEMMA OrdersStep ==
  ASSUME IInv, test \in OrderTests, step \in 0..2, Standing(Fifo, 1, step),
         Perform(Script[test][step + 1])
  PROVE  Next /\ Reaches(1, step + 1)
<1>1. PICK i \in 1..3 : i = step + 1 /\ i \in OrderIds /\ i \in 0..4 /\ i \in Nat
  <2>1. step + 1 \in 1..3 /\ step + 1 \in 1..4 /\ step + 1 \in 0..4 /\ step + 1 \in Nat
    BY step \in 0..2
  <2> QED
    BY <2>1, TestIdsAssumption
<1>2. PICK qty \in Quantities : Script[test][i] = Order(i, qty)
  BY Scripts, TestNumbers DEF OrderTests
<1>3. Insert(i, qty)
  BY ONLY <1>1, <1>2, Perform(Script[test][step + 1]), Performed
<1>4. Next
  BY ONLY <1>1, <1>3, qty \in Quantities, CallIsNext
<1>5. Standing(Fifo', 1, i)
  <2>1. 1 \in Nat /\ step \in Nat /\ 1 <= step + 1
    BY step \in 0..2
  <2> QED
    BY ONLY <1>1, <1>3, <2>1, IInv, Standing(Fifo, 1, step), qty \in Quantities, InsertStands
<1>6. Progress(test, i, 1, i)
  BY <1>1 DEF Progress, OrderTests
<1>7. Answered(test, i, Fifo', reply')
  BY DEF Answered, OrderTests
<1>8. 1 \in 1..2
  OBVIOUS
<1> QED
  BY ONLY <1>1, <1>4, <1>5, <1>6, <1>7, <1>8 DEF Reaches

(* The first order is removed.                                             *)
LEMMA RemoveStep ==
  ASSUME IInv, test \in {"test_freelist_reuse", "test_remove"}, step = 3,
         Standing(Fifo, 1, 3), Perform(Script[test][step + 1])
  PROVE  Next /\ Reaches(2, 3)
<1>1. step + 1 = 4 /\ 2 \in 1..2 /\ 3 \in 0..4 /\ 1 \in Nat /\ 3 \in Nat /\ 1 <= 3 /\ 1 + 1 = 2
  BY step = 3
<1>2. Script[test][step + 1] = Call("remove", 1, 0)
  BY <1>1, Scripts
<1>3. Remove(1)
  BY ONLY <1>2, Perform(Script[test][step + 1]), Performed
<1>4. Next
  BY ONLY <1>3, TestNumbers, CallIsNext
<1>5. Standing(Fifo', 2, 3)
  BY ONLY <1>1, <1>3, IInv, Standing(Fifo, 1, 3), TestNumbers, FirstLeaves
<1>6. Progress(test, step + 1, 2, 3)
  BY ONLY <1>1, test \in {"test_freelist_reuse", "test_remove"} DEF Progress
<1>7. Answered(test, step + 1, Fifo', reply')
  BY ONLY test \in {"test_freelist_reuse", "test_remove"} DEF Answered
<1> QED
  BY ONLY <1>1, <1>4, <1>5, <1>6, <1>7 DEF Reaches

(* Another order takes the free box.                                       *)
LEMMA ReuseStep ==
  ASSUME IInv, test = "test_freelist_reuse", step = 4,
         Standing(Fifo, 2, 3), Perform(Script[test][step + 1])
  PROVE  Next /\ Reaches(2, 4)
<1>1. step + 1 = 5 /\ 2 \in 1..2 /\ 4 \in 0..4 /\ 2 \in Nat /\ 3 \in Nat /\ 4 = 3 + 1 /\ 2 <= 3 + 1
  BY step = 4
<1>2. Script[test][step + 1] = Order(4, 100)
  BY <1>1, Scripts
<1>3. Insert(4, 100)
  BY ONLY <1>2, Perform(Script[test][step + 1]), Performed
<1>4. Next
  BY ONLY <1>3, TestNumbers, CallIsNext
<1>5. Standing(Fifo', 2, 4)
  BY ONLY <1>1, <1>3, IInv, Standing(Fifo, 2, 3), TestNumbers, InsertStands
<1>6. Progress(test, step + 1, 2, 4)
  BY ONLY <1>1, test = "test_freelist_reuse" DEF Progress
<1>7. Answered(test, step + 1, Fifo', reply')
  BY ONLY test = "test_freelist_reuse" DEF Answered
<1> QED
  BY ONLY <1>1, <1>4, <1>5, <1>6, <1>7 DEF Reaches

(* The first order's quantity is updated.                                  *)
LEMMA UpdateStep ==
  ASSUME IInv, test = "test_update_order", step = 3,
         Standing(Fifo, 1, 3), Perform(Script[test][step + 1])
  PROVE  Next /\ Reaches(1, 3)
<1>1. step + 1 = 4 /\ 1 \in 1..2 /\ 3 \in 0..4 /\ 1 \in Nat /\ 3 \in Nat
  BY step = 3
<1>2. Script[test][step + 1] = Call("update_quantity", 1, 10)
  BY <1>1, Scripts
<1>3. UpdateQuantity(1, 10)
  BY ONLY <1>2, Perform(Script[test][step + 1]), Performed
<1>4. Next
  BY ONLY <1>3, TestNumbers, CallIsNext
<1>5. Standing(Fifo', 1, 3)
  BY ONLY <1>1, <1>3, IInv, Standing(Fifo, 1, 3), TestNumbers, UpdateStands
<1>6. Progress(test, step + 1, 1, 3)
  BY ONLY <1>1, test = "test_update_order" DEF Progress
<1>7. Answered(test, step + 1, Fifo', reply')
  BY ONLY test = "test_update_order" DEF Answered
<1> QED
  BY ONLY <1>1, <1>4, <1>5, <1>6, <1>7 DEF Reaches

(* A pop of an empty level is refused.                                     *)
LEMMA EmptyPopStep ==
  ASSUME IInv, test = "test_pop_head", step = 0, Standing(Fifo, 1, 0),
         Perform(Script[test][step + 1])
  PROVE  Next /\ Reaches(1, 0)
<1>1. step + 1 = 1 /\ 1 \in 1..2 /\ 0 \in 0..4 /\ 1 \in Nat /\ 0 \in Nat /\ 1 = 0 + 1
      /\ 1 \in 1..4 /\ 0 = 1 - 1
  BY step = 0
<1>2. Script[test][step + 1] = Call("pop_head", 0, 0)
  BY <1>1, Scripts
<1>3. PopHead
  BY ONLY <1>2, Perform(Script[test][step + 1]), Performed
<1>4. Next
  BY ONLY <1>3, TestNumbers, CallIsNext
<1>5. Fifo' = Fifo /\ reply' = Rejected("EmptyPriceLevel")
  BY ONLY <1>1, <1>3, IInv, Standing(Fifo, 1, 0), FillsOfNothing
<1>6. Standing(Fifo', 1, 0)
  BY ONLY <1>5, Standing(Fifo, 1, 0) DEF Standing
<1>7. Progress(test, step + 1, 1, 0)
  BY ONLY <1>1, test = "test_pop_head" DEF Progress
<1>8. Answered(test, step + 1, Fifo', reply')
  BY ONLY <1>5, test = "test_pop_head" DEF Answered
<1> QED
  BY ONLY <1>1, <1>4, <1>6, <1>7, <1>8 DEF Reaches

(* Three orders are inserted for the pop.                                  *)
LEMMA PopOrdersStep ==
  ASSUME IInv, test = "test_pop_head", step \in 1..3, NEW last \in 0..4, last = step - 1,
         Standing(Fifo, 1, last), Perform(Script[test][step + 1])
  PROVE  Next /\ Reaches(1, step)
<1>1. /\ step \in OrderIds /\ step \in Nat /\ step = last + 1 /\ 1 <= last + 1
      /\ last \in Nat /\ 1 \in Nat
  <2>1. step \in 1..4 /\ step = last + 1 /\ 1 <= last + 1 /\ step \in Nat /\ last \in Nat
    BY step \in 1..3, last = step - 1
  <2> QED
    BY <2>1, TestIdsAssumption
<1>2. /\ step + 1 \in 2..4 /\ step + 1 \in 1..4 /\ step = (step + 1) - 1 /\ step + 1 # 1
      /\ step \in 0..4 /\ 1 \in 1..2
  BY step \in 1..3
<1>3. Script[test][step + 1] = Order(step, 100)
  BY <1>2, Scripts
<1>4. Insert(step, 100)
  BY ONLY <1>3, Perform(Script[test][step + 1]), Performed
<1>5. Next
  BY ONLY <1>1, <1>4, TestNumbers, CallIsNext
<1>6. Standing(Fifo', 1, step)
  BY ONLY <1>1, <1>4, IInv, Standing(Fifo, 1, last), TestNumbers, InsertStands
<1>7. Progress(test, step + 1, 1, step)
  BY ONLY <1>2, test = "test_pop_head" DEF Progress
<1>8. Answered(test, step + 1, Fifo', reply')
  BY ONLY <1>2, test = "test_pop_head" DEF Answered
<1> QED
  BY ONLY <1>2, <1>5, <1>6, <1>7, <1>8 DEF Reaches

(* The first order is popped.                                              *)
LEMMA PopStep ==
  ASSUME IInv, test = "test_pop_head", step = 4, Standing(Fifo, 1, 3),
         Perform(Script[test][step + 1])
  PROVE  Next /\ Reaches(2, 3)
<1>1. /\ step + 1 = 5 /\ step + 1 # 1 /\ 2 \in 1..2 /\ 3 \in 0..4 /\ 1 \in Nat /\ 3 \in Nat
      /\ 1 <= 3 /\ 1 + 1 = 2
  BY step = 4
<1>2. Script[test][step + 1] = Call("pop_head", 0, 0)
  BY <1>1, Scripts
<1>3. PopHead
  BY ONLY <1>2, Perform(Script[test][step + 1]), Performed
<1>4. Next
  BY ONLY <1>3, TestNumbers, CallIsNext
<1>5. Standing(Fifo', 2, 3)
  BY ONLY <1>1, <1>3, IInv, Standing(Fifo, 1, 3), TestNumbers, FirstLeaves
<1>6. Progress(test, step + 1, 2, 3)
  BY ONLY <1>1, test = "test_pop_head" DEF Progress
<1>7. Answered(test, step + 1, Fifo', reply')
  BY ONLY <1>1, test = "test_pop_head" DEF Answered
<1> QED
  BY ONLY <1>1, <1>4, <1>5, <1>6, <1>7 DEF Reaches

(* A partial fill of an empty level is refused.                            *)
LEMMA EmptyFillStep ==
  ASSUME IInv, test = "test_apply_partial_fill", step = 0, Standing(Fifo, 1, 0),
         Perform(Script[test][step + 1])
  PROVE  Next /\ Reaches(1, 0)
<1>1. step + 1 = 1 /\ 1 \in 1..2 /\ 0 \in 0..4 /\ 1 \in Nat /\ 0 \in Nat /\ 1 = 0 + 1
      /\ 1 \in 0..1 /\ 1 # 2 /\ 1 # 3
  BY step = 0
<1>2. Script[test][step + 1] = Call("apply_partial_fill", 0, 100)
  BY <1>1, Scripts
<1>3. ApplyPartialFill(100)
  BY ONLY <1>2, Perform(Script[test][step + 1]), Performed
<1>4. Next
  BY ONLY <1>3, TestNumbers, CallIsNext
<1>5. Fifo' = Fifo /\ reply'.result = Rejected("EmptyPriceLevel")
  BY ONLY <1>1, <1>3, IInv, Standing(Fifo, 1, 0), TestNumbers, FillsOfNothing
<1>6. Standing(Fifo', 1, 0)
  BY ONLY <1>5, Standing(Fifo, 1, 0) DEF Standing
<1>7. Progress(test, step + 1, 1, 0)
  BY ONLY <1>1, test = "test_apply_partial_fill" DEF Progress
<1>8. Answered(test, step + 1, Fifo', reply')
  BY ONLY <1>1, <1>5, test = "test_apply_partial_fill" DEF Answered
<1> QED
  BY ONLY <1>1, <1>4, <1>6, <1>7, <1>8 DEF Reaches

(* One order is inserted for the fill.                                     *)
LEMMA FillOrderStep ==
  ASSUME IInv, test = "test_apply_partial_fill", step = 1, Standing(Fifo, 1, 0),
         Perform(Script[test][step + 1])
  PROVE  Next /\ Reaches(1, 1)
<1>1. /\ step + 1 = 2 /\ 1 \in 1..2 /\ 1 \in 0..4 /\ 1 \in Nat /\ 0 \in Nat /\ 1 = 0 + 1
      /\ 1 <= 0 + 1 /\ 2 \in 2..3 /\ 2 # 1 /\ 2 # 3
  BY step = 1
<1>2. Script[test][step + 1] = Order(1, 100)
  BY <1>1, Scripts
<1>3. Insert(1, 100)
  BY ONLY <1>2, Perform(Script[test][step + 1]), Performed
<1>4. Next
  BY ONLY <1>3, TestNumbers, CallIsNext
<1>5. Standing(Fifo', 1, 1) /\ Fifo'[1].qty = 100
  BY ONLY <1>1, <1>3, IInv, Standing(Fifo, 1, 0), TestNumbers, InsertStands
<1>6. Progress(test, step + 1, 1, 1)
  BY ONLY <1>1, test = "test_apply_partial_fill" DEF Progress
<1>7. Answered(test, step + 1, Fifo', reply')
  BY ONLY <1>1, <1>5, test = "test_apply_partial_fill" DEF Answered
<1> QED
  BY ONLY <1>1, <1>4, <1>5, <1>6, <1>7 DEF Reaches

(* Half of it is filled.                                                   *)
LEMMA FillStep ==
  ASSUME IInv, test = "test_apply_partial_fill", step = 2, Standing(Fifo, 1, 1),
         Answered(test, step, Fifo, reply), Perform(Script[test][step + 1])
  PROVE  Next /\ Reaches(1, 1)
<1>1. /\ step + 1 = 3 /\ 1 \in 1..2 /\ 1 \in 0..4 /\ 3 \in 2..3 /\ 3 # 1 /\ 3 # 2
  BY step = 2
<1>2. Script[test][step + 1] = Call("apply_partial_fill", 0, 50)
  BY <1>1, Scripts
<1>3. ApplyPartialFill(50)
  BY ONLY <1>2, Perform(Script[test][step + 1]), Performed
<1>4. Next
  BY ONLY <1>3, TestNumbers, CallIsNext
<1>5. Fifo[1].qty = 100
  BY ONLY step = 2, test = "test_apply_partial_fill", Answered(test, step, Fifo, reply) DEF Answered
<1>6. Standing(Fifo', 1, 1) /\ reply'.result = Partial(1, 50, 50)
  BY ONLY <1>3, <1>5, IInv, Standing(Fifo, 1, 1), HalfFilled
<1>7. Progress(test, step + 1, 1, 1)
  BY ONLY <1>1, test = "test_apply_partial_fill" DEF Progress
<1>8. Answered(test, step + 1, Fifo', reply')
  BY ONLY <1>1, <1>6, test = "test_apply_partial_fill" DEF Answered
<1> QED
  BY ONLY <1>1, <1>4, <1>6, <1>7, <1>8 DEF Reaches
-----------------------------------------------------------------------------
(* The steps of the tests.                                                 *)

(* From the orders first to last to the orders first2 to last2.            *)
Moves(first, last, first2, last2) ==
  \/ first = 1 /\ first2 = 1 /\ (last2 = last + 1 \/ last2 = last)
  \/ first = 1 /\ last = 3 /\ first2 = 2 /\ last2 = 3
  \/ first = 2 /\ last = 3 /\ first2 = 2 /\ last2 = 4

(* A call that is a step of the level and leads on.                        *)
LEMMA GoesOn ==
  ASSUME TestInv, Advance, Next, NEW first \in 1..2, NEW last \in 0..4,
         Standing(Fifo, first, last), Pool(IF first = 1 THEN last ELSE 3),
         NEW first2, NEW last2, Reaches(first2, last2), Moves(first, last, first2, last2)
  PROVE  TestInv'
<1>1. IInv /\ spare \in Nat /\ step \in Nat
  BY DEF TestInv
<1>2. IInv'
  BY <1>1, NextInv
<1>3. test' = test /\ test # "none" /\ spare' = spare /\ step' = step + 1
  BY DEF Advance
<1>4. /\ first2 \in 1..2 /\ last2 \in 0..4
      /\ Progress(test, step + 1, first2, last2) /\ Standing(Fifo', first2, last2)
      /\ Answered(test, step + 1, Fifo', reply')
  BY DEF Reaches
<1>5. Len(arena) = last - first + 1
  BY ONLY <1>1, FifoType, Standing(Fifo, first, last) DEF Standing
<1>6. Len(arena') = last2 - first2 + 1
  <2>1. IInv' => (Len(Fifo) = Len(arena))'
    BY ONLY FifoLength, PTL
  <2>2. Len(Fifo') = Len(arena')
    BY ONLY <1>2, <2>1
  <2> QED
    BY ONLY <1>4, <2>2 DEF Standing
<1>7. PICK most \in Nat, b \in Nat :
        /\ most = IF first = 1 THEN last ELSE 3
        /\ b = last2 - first2 + 1 /\ last - first + 1 <= most
        /\ (IF first2 = 1 THEN last2 ELSE 3) = IF b > most THEN b ELSE most
  <2>1. /\ (IF first = 1 THEN last ELSE 3) \in Nat /\ last2 - first2 + 1 \in Nat
        /\ last - first + 1 <= IF first = 1 THEN last ELSE 3
    BY ONLY <1>4, first \in 1..2, last \in 0..4, Moves(first, last, first2, last2) DEF Moves
  <2>2. (IF first2 = 1 THEN last2 ELSE 3) =
          IF last2 - first2 + 1 > (IF first = 1 THEN last ELSE 3)
          THEN last2 - first2 + 1 ELSE (IF first = 1 THEN last ELSE 3)
    BY ONLY <1>4, first \in 1..2, last \in 0..4, Moves(first, last, first2, last2) DEF Moves
  <2> QED
    BY <2>1, <2>2
<1>8. Pool(most) /\ Len(arena) <= most /\ b = Len(arena')
  BY ONLY <1>5, <1>6, <1>7, Pool(IF first = 1 THEN last ELSE 3)
<1>9. IF b > most THEN Pool(b)' ELSE Pool(most)'
  <2>1. [Next]_vars
    OBVIOUS
  <2> QED
    BY ONLY <1>1, <1>3, <1>8, <2>1, most \in Nat, b \in Nat, PoolGoes
<1>10. Pool(IF first2 = 1 THEN last2 ELSE 3)'
  BY ONLY <1>7, <1>9 DEF Pool
<1>11. step' \in Nat /\ spare' \in Nat /\ test' # "none"
  BY <1>1, <1>3
<1>12. /\ Progress(test', step', first2, last2) /\ Standing(Fifo', first2, last2)
       /\ Answered(test', step', Fifo', reply')
  BY ONLY <1>3, <1>4
<1> QED
  BY ONLY <1>2, <1>4, <1>10, <1>11, <1>12 DEF TestInv

(* While calls are left the next one is made, whichever test runs.         *)
LEMMA AdvanceKeeps ==
  ASSUME TestInv, Advance
  PROVE  TestInv'
<1>1. IInv /\ step \in Nat /\ Answered(test, step, Fifo, reply)
  BY DEF TestInv
<1>2. /\ test # "none" /\ step < Len(Script[test])
      /\ Perform(Script[test][step + 1])
  BY DEF Advance
<1>3. PICK first \in 1..2, last \in 0..4 :
        /\ Progress(test, step, first, last) /\ Standing(Fifo, first, last)
        /\ Pool(IF first = 1 THEN last ELSE 3)
  BY <1>2 DEF TestInv
<1>4. SUFFICES \E f, l : Next /\ Reaches(f, l) /\ Moves(first, last, f, l)
  <2>1. PICK f, l : Next /\ Reaches(f, l) /\ Moves(first, last, f, l)
    BY <1>4
  <2> QED
    BY ONLY TestInv, Advance, <1>3, <2>1, GoesOn
<1>5. CASE test \in OrderTests /\ step \in 0..3 /\ first = 1 /\ last = step
  <2>1. CASE step \in 0..2
    <3>1. Next /\ Reaches(1, step + 1)
      BY ONLY <1>1, <1>2, <1>3, <1>5, <2>1, OrdersStep
    <3>2. Moves(first, last, 1, step + 1)
      BY ONLY <1>5 DEF Moves
    <3> QED
      BY ONLY <3>1, <3>2
  <2>2. CASE step = 3 /\ test \in {"test_freelist_reuse", "test_remove"}
    <3>1. Next /\ Reaches(2, 3)
      BY ONLY <1>1, <1>2, <1>3, <1>5, <2>2, RemoveStep
    <3>2. Moves(first, last, 2, 3)
      BY ONLY <1>5, <2>2 DEF Moves
    <3> QED
      BY ONLY <3>1, <3>2
  <2>3. CASE step = 3 /\ test = "test_update_order"
    <3>1. Next /\ Reaches(1, 3)
      BY ONLY <1>1, <1>2, <1>3, <1>5, <2>3, UpdateStep
    <3>2. Moves(first, last, 1, 3)
      BY ONLY <1>5, <2>3 DEF Moves
    <3> QED
      BY ONLY <3>1, <3>2
  <2>4. ~ (step = 3 /\ test = "test_insert")
    BY ONLY <1>2, Scripts
  <2>5. step \in 0..2 \/ step = 3
    BY ONLY <1>5
  <2> QED
    BY ONLY <1>5, <2>1, <2>2, <2>3, <2>4, <2>5 DEF OrderTests
<1>6. CASE test \in {"test_freelist_reuse", "test_remove"} /\ step = 4 /\ first = 2 /\ last = 3
  <2>1. test = "test_freelist_reuse"
    BY ONLY <1>2, <1>6, Scripts
  <2>2. Next /\ Reaches(2, 4)
    BY ONLY <1>1, <1>2, <1>3, <1>6, <2>1, ReuseStep
  <2>3. Moves(first, last, 2, 4)
    BY ONLY <1>6 DEF Moves
  <2> QED
    BY ONLY <2>2, <2>3
<1>7. CASE \/ test = "test_freelist_reuse" /\ step = 5
           \/ test = "test_update_order" /\ step = 4
           \/ test = "test_pop_head" /\ step = 5
  <2>1. /\ Len(Script["test_freelist_reuse"]) = 5 /\ Len(Script["test_update_order"]) = 4
        /\ Len(Script["test_pop_head"]) = 5
    BY ONLY Scripts
  <2>2. ~ 5 < 5 /\ ~ 4 < 4
    OBVIOUS
  <2> QED
    BY ONLY <1>2, <1>7, <2>1, <2>2
<1>8. CASE test = "test_pop_head" /\ step = 0 /\ first = 1 /\ last = 0
  <2>1. Next /\ Reaches(1, 0)
    BY ONLY <1>1, <1>2, <1>3, <1>8, EmptyPopStep
  <2>2. Moves(first, last, 1, 0)
    BY ONLY <1>8 DEF Moves
  <2> QED
    BY ONLY <2>1, <2>2
<1>9. CASE test = "test_pop_head" /\ step \in 1..4 /\ first = 1 /\ last = step - 1
  <2>1. CASE step \in 1..3
    <3>1. Next /\ Reaches(1, step)
      BY ONLY <1>1, <1>2, <1>3, <1>9, <2>1, PopOrdersStep
    <3>2. step = last + 1
      BY ONLY <1>9
    <3>3. Moves(first, last, 1, step)
      BY ONLY <1>9, <3>2 DEF Moves
    <3> QED
      BY ONLY <3>1, <3>3
  <2>2. CASE step = 4
    <3>1. last = 3
      BY ONLY <1>9, <2>2
    <3>2. Next /\ Reaches(2, 3)
      BY ONLY <1>1, <1>2, <1>3, <1>9, <2>2, <3>1, PopStep
    <3>3. Moves(first, last, 2, 3)
      BY ONLY <1>9, <3>1 DEF Moves
    <3> QED
      BY ONLY <3>2, <3>3
  <2> QED
    BY ONLY <1>9, <2>1, <2>2
<1>10. CASE test = "test_apply_partial_fill" /\ step \in 0..1 /\ first = 1 /\ last = 0
  <2>1. CASE step = 0
    <3>1. Next /\ Reaches(1, 0)
      BY ONLY <1>1, <1>2, <1>3, <1>10, <2>1, EmptyFillStep
    <3>2. Moves(first, last, 1, 0)
      BY ONLY <1>10 DEF Moves
    <3> QED
      BY ONLY <3>1, <3>2
  <2>2. CASE step = 1
    <3>1. Next /\ Reaches(1, 1)
      BY ONLY <1>1, <1>2, <1>3, <1>10, <2>2, FillOrderStep
    <3>2. Moves(first, last, 1, 1)
      BY ONLY <1>10 DEF Moves
    <3> QED
      BY ONLY <3>1, <3>2
  <2> QED
    BY ONLY <1>10, <2>1, <2>2
<1>11. CASE test = "test_apply_partial_fill" /\ step \in 2..3 /\ first = 1 /\ last = 1
  <2>1. step = 2
    BY ONLY <1>2, <1>11, Scripts
  <2>2. Next /\ Reaches(1, 1)
    BY ONLY <1>1, <1>2, <1>3, <1>11, <2>1, FillStep
  <2>3. Moves(first, last, 1, 1)
    BY ONLY <1>11 DEF Moves
  <2> QED
    BY ONLY <2>2, <2>3
<1> QED
  BY ONLY <1>3, <1>5, <1>6, <1>7, <1>8, <1>9, <1>10, <1>11 DEF Progress, OrderTests

(* A test starts on an empty level, with the boxes it has.                 *)
LEMMA BeginKeeps ==
  ASSUME TestInv, NEW t \in DOMAIN Script, Begin(t)
  PROVE  TestInv'
<1>1. IInv /\ step = 0
  BY DEF TestInv, Begin
<1>2. UNCHANGED vars /\ UNCHANGED level /\ test' = t /\ step' = 0 /\ spare' = Len(freelist)
  BY <1>1 DEF Begin, vars
<1>3. t \in OrderTests \cup {"test_pop_head", "test_apply_partial_fill"}
  BY DEF Script, OrderTests
<1>4. IInv'
  BY <1>1, <1>2, NextInv
<1>5. Fifo' = <<>>
  <2>1. Fifo = <<>>
    BY <1>1, HeadOfFifo DEF Begin
  <2> QED
    BY ONLY <1>1, <1>2, <2>1, SameFifo
<1>6. Standing(Fifo', 1, 0)
  <2>1. Len(<<>>) = 0
    BY EmptySeq
  <2>2. Len(Fifo') = 0
    BY ONLY <1>5, <2>1
  <2> QED
    BY ONLY <2>2 DEF Standing
<1>7. Len(freelist) \in Nat /\ Len(arena) = 0
  <2>1. Len(freelist) \in Nat
    BY <1>1 DEF IInv, TypeOK
  <2>2. Fifo = <<>> /\ Len(Fifo) = Len(arena)
    BY <1>1, HeadOfFifo, FifoType DEF Begin
  <2>3. Len(<<>>) = 0
    BY EmptySeq
  <2> QED
    BY ONLY <2>1, <2>2, <2>3
<1>8. arena' = arena /\ freelist' = freelist
  BY <1>2 DEF level
<1>9. Pool(0)' /\ spare' \in Nat
  BY ONLY <1>2, <1>7, <1>8 DEF Pool
<1>10. Progress(t, 0, 1, 0)
  BY ONLY <1>3 DEF Progress, OrderTests
<1>11. Answered(t, 0, Fifo', reply') /\ t # "none"
  BY ONLY <1>3 DEF Answered, OrderTests
<1>12. 1 \in 1..2 /\ 0 \in 0..4 /\ 0 \in Nat /\ (IF 1 = 1 THEN 0 ELSE 3) = 0
  OBVIOUS
<1>13. Pool(IF 1 = 1 THEN 0 ELSE 3)'
  BY ONLY <1>9, <1>12 DEF Pool
<1> QED
  BY ONLY <1>2, <1>4, <1>6, <1>9, <1>10, <1>11, <1>12, <1>13 DEF TestInv

(* Orders that come and go before a test leave the level as it must be.    *)
LEMMA ComeAndGoKeeps ==
  ASSUME TestInv, ComeAndGo
  PROVE  TestInv'
<1>1. IInv /\ spare \in Nat /\ step \in Nat /\ (test = "none" => step = 0)
  BY DEF TestInv
<1>2. PICK id \in Earlier : Insert(id, 1) \/ Remove(id)
  BY DEF ComeAndGo
<1>3. id \in OrderIds /\ 1 \in Quantities
  BY TestIdsAssumption, TestNumbers
<1>4. Next
  BY ONLY <1>2, <1>3, CallIsNext
<1>5. IInv'
  BY <1>1, <1>4, NextInv
<1>6. test = "none" /\ test' = "none" /\ step' = step /\ spare' = spare
  BY DEF ComeAndGo
<1>7. Answered(test', step', Fifo', reply')
  BY ONLY <1>6 DEF Answered
<1> QED
  BY ONLY <1>1, <1>5, <1>6, <1>7 DEF TestInv

LEMMA StutterKeeps ==
  ASSUME TestInv, UNCHANGED testVars
  PROVE  TestInv'
<1>1. /\ UNCHANGED vars /\ UNCHANGED level /\ reply' = reply
      /\ test' = test /\ step' = step /\ spare' = spare
  BY DEF testVars, vars
<1>2. IInv
  BY DEF TestInv
<1>3. IInv' /\ Fifo' = Fifo
  BY <1>1, <1>2, NextInv, SameFifo
<1>4. arena' = arena /\ freelist' = freelist
  BY <1>1 DEF level
<1>5. ASSUME NEW most, Pool(most) PROVE Pool(most)'
  BY ONLY <1>1, <1>4, <1>5 DEF Pool
<1>6. ASSUME NEW first, NEW last,
             /\ Progress(test, step, first, last) /\ Standing(Fifo, first, last)
             /\ Pool(IF first = 1 THEN last ELSE 3)
      PROVE  /\ Progress(test', step', first, last) /\ Standing(Fifo', first, last)
             /\ Pool(IF first = 1 THEN last ELSE 3)'
  <2>1. PICK most : most = IF first = 1 THEN last ELSE 3
    OBVIOUS
  <2>2. Pool(most)'
    BY ONLY <1>5, <1>6, <2>1
  <2> QED
    BY ONLY <1>1, <1>3, <1>6, <2>1, <2>2
<1> QED
  BY <1>1, <1>3, <1>6 DEF TestInv

(* Before anything is called.                                              *)
LEMMA TestStart ==
  ASSUME TestInit
  PROVE  TestInv
<1>1. Init /\ test = "none" /\ step = 0 /\ spare = 0
  BY DEF TestInit
<1>2. IInv
  BY <1>1, InitInv
<1>3. Answered(test, step, Fifo, reply)
  BY ONLY <1>1 DEF Answered
<1> QED
  BY ONLY <1>1, <1>2, <1>3 DEF TestInv

LEMMA TestStepKeeps == TestInv /\ [TestNext]_testVars => TestInv'
BY AdvanceKeeps, BeginKeeps, ComeAndGoKeeps, StutterKeeps DEF TestNext

LEMMA TestInvariance == TestSpec => []TestInv
<1>1. TestInit => TestInv
  BY TestStart
<1> QED
  BY <1>1, TestStepKeeps, PTL DEF TestSpec
-----------------------------------------------------------------------------
(* What the tests assert.                                                  *)

(* Of nodes and pointers: the list holds the orders that stand.            *)
LEMMA StandingListed ==
  ASSUME IInv, NEW first \in Nat, NEW last \in Nat, Standing(Fifo, first, last),
         first <= last, NEW ids, Len(ids) = last - first + 1,
         DOMAIN ids = 1..last - first + 1,
         \A i \in 1..last - first + 1 : ids[i] = first + i - 1
  PROVE  Listed(ids)
<1>1. PICK c, len : QueueChain(c, len)
  BY FifoFacts
<1>2. /\ len \in Nat /\ len = Len(arena) /\ Len(Fifo) = len /\ IsChain(c)
      /\ \A i \in 1..len : c[i] \in Range(arena) /\ Fifo[i] = heap[c[i]].ro
      /\ \A n \in Range(arena) : \E i \in 1..len : n = c[i]
  BY <1>1 DEF QueueChain
<1>3. len = last - first + 1 /\ \A i \in 1..len : Fifo[i].id = first + i - 1
  BY ONLY <1>2, Standing(Fifo, first, last) DEF Standing
<1>4. len # 0 /\ 1 \in 1..len /\ len \in 1..len
  BY ONLY <1>2, <1>3, first \in Nat, last \in Nat, first <= last
<1>5. /\ Len(ids) = len /\ DOMAIN ids = 1..len
      /\ \A i \in 1..len : ids[i] = Fifo[i].id
  BY ONLY <1>3, Len(ids) = last - first + 1, DOMAIN ids = 1..last - first + 1,
          \A i \in 1..last - first + 1 : ids[i] = first + i - 1
<1>6. IndexExact
  BY DEF IInv
<1>7. \A i \in 1..len : /\ ids[i] \in DOMAIN index /\ index[ids[i]] = c[i]
                        /\ heap[c[i]].ro.id = ids[i]
  BY ONLY <1>2, <1>5, <1>6 DEF IndexExact
<1>8. DOMAIN index = Range(ids)
  <2>1. Range(ids) = {ids[i] : i \in 1..len}
    BY ONLY <1>5 DEF Range
  <2>2. ASSUME NEW id \in DOMAIN index PROVE id \in {ids[i] : i \in 1..len}
    <3>1. index[id] \in Range(arena) /\ heap[index[id]].ro.id = id
      BY ONLY <1>6, <2>2 DEF IndexExact
    <3>2. PICK k \in 1..len : index[id] = c[k]
      BY ONLY <1>2, <3>1
    <3>3. ids[k] = id
      BY ONLY <1>7, <3>1, <3>2
    <3> QED
      BY ONLY <3>3, k \in 1..len
  <2>3. ASSUME NEW i \in 1..len PROVE ids[i] \in DOMAIN index
    BY ONLY <1>7, <2>3
  <2> QED
    BY ONLY <2>1, <2>2, <2>3
<1>9. /\ head = c[1] /\ tail = c[len]
      /\ \A i \in 1..len : /\ heap[c[i]].prev = IF i = 1 THEN None ELSE c[i - 1]
                           /\ heap[c[i]].next = IF i = len THEN None ELSE c[i + 1]
  BY ONLY <1>2, <1>4 DEF IsChain
<1>10. head = index[ids[1]] /\ tail = index[ids[Len(ids)]]
  BY ONLY <1>4, <1>5, <1>7, <1>9
<1>11. ASSUME NEW i \in 1..len
       PROVE  /\ heap[index[ids[i]]].ro.id = ids[i]
              /\ heap[index[ids[i]]].prev = IF i = 1 THEN None ELSE index[ids[i - 1]]
              /\ heap[index[ids[i]]].next = IF i = Len(ids) THEN None ELSE index[ids[i + 1]]
  <2>1. i # 1 => i - 1 \in 1..len
    BY ONLY i \in 1..len, <1>2
  <2>2. i # len => i + 1 \in 1..len
    BY ONLY i \in 1..len, <1>2
  <2> QED
    BY ONLY <1>5, <1>7, <1>9, <2>1, <2>2, i \in 1..len
<1> QED
  BY ONLY <1>5, <1>8, <1>10, <1>11 DEF Listed

(* Of the boxes: those in use hold the orders, the others are free.        *)
LEMMA StandingBoxes ==
  ASSUME IInv, spare \in Nat, NEW first \in Nat, NEW last \in Nat,
         Standing(Fifo, first, last), NEW most \in Nat, Pool(most),
         NEW inUse \in Nat, inUse = last - first + 1, NEW free \in Nat, inUse + free = most
  PROVE  Boxes(inUse, free)
<1>1. Len(arena) = inUse
  BY ONLY IInv, FifoType, Standing(Fifo, first, last), inUse = last - first + 1 DEF Standing
<1>2. PICK g \in Nat : g = Len(freelist)
  <2>1. freelist \in Seq(Nodes)
    BY DEF IInv, TypeOK
  <2> QED
    BY ONLY <2>1
<1>3. inUse + g = IF spare > most THEN spare ELSE most
  BY ONLY <1>1, <1>2, Pool(most) DEF Pool
<1>4. g = IF spare > inUse + free THEN spare - inUse ELSE free
  BY ONLY <1>3, g \in Nat, spare \in Nat, most \in Nat, inUse \in Nat, free \in Nat,
          inUse + free = most
<1> QED
  BY ONLY <1>1, <1>2, <1>4 DEF Boxes

(* In the states where they make their assertions.                         *)
LEMMA AssertionsHold ==
  ASSUME TestInv
  PROVE  TestsPass
<1>1. IInv /\ spare \in Nat /\ step \in Nat /\ Answered(test, step, Fifo, reply)
  BY DEF TestInv
<1>2. ASSUME test # "none"
      PROVE  \E first \in 1..2, last \in 0..4 :
               /\ Progress(test, step, first, last) /\ Standing(Fifo, first, last)
               /\ Pool(IF first = 1 THEN last ELSE 3)
  BY <1>2 DEF TestInv
<1>3. ASSUME test = "test_insert", step > 0 PROVE Boxes(step, 0) /\ Listed([i \in 1..step |-> i])
  <2>1. Standing(Fifo, 1, step) /\ Pool(step)
    BY ONLY <1>2, <1>3 DEF Progress
  <2>2. /\ 1 \in Nat /\ 0 \in Nat /\ step = step - 1 + 1 /\ step + 0 = step /\ 1 <= step
    BY ONLY <1>1, <1>3
  <2>3. Boxes(step, 0)
    BY ONLY <1>1, <2>1, <2>2, StandingBoxes
  <2>4. PICK ids : ids = [i \in 1..step |-> i]
    OBVIOUS
  <2>5. /\ Len(ids) = step /\ DOMAIN ids = 1..step
        /\ \A i \in 1..step : ids[i] = 1 + i - 1
    BY ONLY <1>1, <2>4
  <2>6. Listed(ids)
    BY ONLY <1>1, <2>1, <2>2, <2>5, StandingListed
  <2> QED
    BY ONLY <2>3, <2>4, <2>6
<1>4. ASSUME Standing(Fifo, 2, 3) PROVE Listed(<<2, 3>>)
  <2>1. PICK ids : ids = <<2, 3>>
    OBVIOUS
  <2>2. /\ Len(ids) = 3 - 2 + 1 /\ DOMAIN ids = 1..3 - 2 + 1
        /\ \A i \in 1..3 - 2 + 1 : ids[i] = 2 + i - 1
    BY ONLY <2>1
  <2>3. 2 \in Nat /\ 3 \in Nat /\ 2 <= 3
    OBVIOUS
  <2> QED
    BY ONLY <1>1, <1>4, <2>1, <2>2, <2>3, StandingListed
<1>5. ASSUME Standing(Fifo, 2, 3), Pool(3) PROVE Boxes(2, 1)
  <2>1. 2 \in Nat /\ 3 \in Nat /\ 1 \in Nat /\ 2 = 3 - 2 + 1 /\ 2 + 1 = 3
    OBVIOUS
  <2> QED
    BY ONLY <1>1, <1>5, <2>1, StandingBoxes
<1>6. ASSUME test = "test_freelist_reuse", step = 5
      PROVE  /\ Boxes(3, 0) /\ heap[index[4]].ro.id = 4
             /\ heap[index[4]].prev = index[3] /\ heap[index[4]].next = None
  <2>1. Standing(Fifo, 2, 4) /\ Pool(3)
    BY ONLY <1>2, <1>6 DEF Progress
  <2>2. /\ 2 \in Nat /\ 3 \in Nat /\ 4 \in Nat /\ 0 \in Nat /\ 2 <= 4
        /\ 3 = 4 - 2 + 1 /\ 3 + 0 = 3
    OBVIOUS
  <2>3. Boxes(3, 0)
    BY ONLY <1>1, <2>1, <2>2, StandingBoxes
  <2>4. PICK ids : ids = <<2, 3, 4>>
    OBVIOUS
  <2>5. /\ Len(ids) = 4 - 2 + 1 /\ DOMAIN ids = 1..4 - 2 + 1
        /\ \A i \in 1..4 - 2 + 1 : ids[i] = 2 + i - 1
    BY ONLY <2>4
  <2>6. Listed(ids)
    BY ONLY <1>1, <2>1, <2>2, <2>5, StandingListed
  <2>7. /\ 3 \in DOMAIN ids /\ Len(ids) = 3 /\ ids[3] = 4 /\ ids[3 - 1] = 3 /\ 3 # 1
    BY ONLY <2>4
  <2> QED
    BY ONLY <2>3, <2>6, <2>7 DEF Listed
<1>7. ASSUME test = "test_remove", step = 4 PROVE Boxes(2, 1) /\ Listed(<<2, 3>>)
  <2>1. Standing(Fifo, 2, 3) /\ Pool(3)
    BY ONLY <1>2, <1>7 DEF Progress
  <2> QED
    BY ONLY <1>4, <1>5, <2>1
<1>8. ASSUME test = "test_pop_head", step = 5 PROVE Boxes(2, 1) /\ Listed(<<2, 3>>)
  <2>1. Standing(Fifo, 2, 3) /\ Pool(3)
    BY ONLY <1>2, <1>8 DEF Progress
  <2> QED
    BY ONLY <1>4, <1>5, <2>1
<1>9. ASSUME test = "test_update_order", step = 4 PROVE Boxes(3, 0) /\ Listed(<<1, 2, 3>>)
  <2>1. Standing(Fifo, 1, 3) /\ Pool(3)
    BY ONLY <1>2, <1>9 DEF Progress
  <2>2. 1 \in Nat /\ 3 \in Nat /\ 0 \in Nat /\ 1 <= 3 /\ 3 = 3 - 1 + 1 /\ 3 + 0 = 3
    OBVIOUS
  <2>3. Boxes(3, 0)
    BY ONLY <1>1, <2>1, <2>2, StandingBoxes
  <2>4. PICK ids : ids = <<1, 2, 3>>
    OBVIOUS
  <2>5. /\ Len(ids) = 3 - 1 + 1 /\ DOMAIN ids = 1..3 - 1 + 1
        /\ \A i \in 1..3 - 1 + 1 : ids[i] = 1 + i - 1
    BY ONLY <2>4
  <2>6. Listed(ids)
    BY ONLY <1>1, <2>1, <2>2, <2>5, StandingListed
  <2> QED
    BY ONLY <2>3, <2>4, <2>6
<1>10. /\ test = "test_pop_head" /\ step = 1 => reply = Rejected("EmptyPriceLevel")
       /\ test = "test_apply_partial_fill" =>
            /\ step = 1 => reply.result = Rejected("EmptyPriceLevel")
            /\ step = 3 => reply.result = Partial(1, 50, 50)
  BY ONLY <1>1 DEF Answered
<1> QED
  BY ONLY <1>3, <1>6, <1>7, <1>8, <1>9, <1>10
     DEF TestsPass, TestInsert, TestFreelistReuse, TestRemove, TestPopHead, TestUpdateOrder,
         TestApplyPartialFill

(* Every assertion of the six unit tests holds wherever it is made, at all *)
(* addresses the allocator may choose and whatever orders were inserted    *)
(* and cancelled before the test began.                                    *)
THEOREM TestsHold == TestSpec => []TestsPass
BY TestInvariance, AssertionsHold, PTL
=============================================================================
