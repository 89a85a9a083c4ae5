------------------------- MODULE LevelReplayProofs -------------------------
(***************************************************************************)
(* What a replica has of the level whose stored commands it replays: the  *)
(* same orders until the first complete fill, and none too few after it,   *)
(* for every number of commands between the two.                           *)
(***************************************************************************)
EXTENDS LevelReplay, PriceLevelRefinementProofs

Orders == Seq(RestingOrder)

(* No id rests twice.                                                      *)
Distinct(q) == \A i, j \in DOMAIN q : q[i].id = q[j].id => i = j

SameOrder(a, b) == a.id = b.id /\ a.qty = b.qty
-----------------------------------------------------------------------------
(* What happens to a queue, apart from times.                              *)

Added(p, q, id, qty) ==
  /\ Len(q) = Len(p) + 1 /\ \A i \in 1..Len(p) : SameOrder(q[i], p[i])
  /\ q[Len(p) + 1].id = id /\ q[Len(p) + 1].qty = qty

Dropped(p, q, k) ==
  /\ Len(q) = Len(p) - 1
  /\ \A i \in 1..Len(p) - 1 : SameOrder(q[i], IF i < k THEN p[i] ELSE p[i + 1])

Requoted(p, q, k, qty) ==
  /\ Len(q) = Len(p)
  /\ \A i \in 1..Len(p) : q[i].id = p[i].id /\ q[i].qty = IF i = k THEN qty ELSE p[i].qty

(* The lengths of queues and the positions in them are numbers.            *)
LEMMA OrdersFacts ==
  ASSUME NEW q \in Orders
  PROVE  /\ Len(q) \in Nat /\ DOMAIN q = 1..Len(q)
         /\ \A i \in 1..Len(q) : q[i] \in RestingOrder
         /\ (q = <<>> <=> Len(q) = 0)
<1>1. Len(q) \in Nat /\ DOMAIN q = 1..Len(q) /\ \A i \in 1..Len(q) : q[i] \in RestingOrder
  BY DEF Orders
<1>2. q = <<>> <=> Len(q) = 0
  BY EmptySeq DEF Orders
<1> QED
  BY <1>1, <1>2

(* A new order at the end.                                                 *)
LEMMA AppendAdds ==
  ASSUME NEW q \in Orders, Distinct(q), NEW ro \in RestingOrder,
         \A k \in DOMAIN q : q[k].id # ro.id
  PROVE  LET t == Append(q, ro) IN
         t \in Orders /\ Distinct(t) /\ Added(q, t, ro.id, ro.qty)
<1>1. PICK t : t = Append(q, ro)
  OBVIOUS
<1>2. PICK len \in Nat : len = Len(q) /\ DOMAIN q = 1..len
  BY OrdersFacts
<1>3. /\ t \in Orders /\ Len(t) = len + 1 /\ t[len + 1] = ro
      /\ \A i \in 1..len : t[i] = q[i]
  BY ONLY <1>1, <1>2, q \in Orders, ro \in RestingOrder, AppendProperties DEF Orders
<1>4. DOMAIN t = 1..len + 1
  BY ONLY <1>3, OrdersFacts
<1>5. Added(q, t, ro.id, ro.qty)
  BY ONLY <1>2, <1>3 DEF Added, SameOrder
<1>6. Distinct(t)
  <2>1. SUFFICES ASSUME NEW i \in 1..len + 1, NEW j \in 1..len + 1, t[i].id = t[j].id
                 PROVE  i = j
    BY <1>4 DEF Distinct
  <2>2. \A k \in 1..len + 1 : k = len + 1 \/ k \in 1..len
    BY ONLY len \in Nat
  <2>3. \A k \in 1..len : t[k].id # ro.id
    BY ONLY <1>2, <1>3, \A k \in DOMAIN q : q[k].id # ro.id
  <2>4. CASE i \in 1..len /\ j \in 1..len
    BY ONLY <1>2, <1>3, <2>1, <2>4, Distinct(q) DEF Distinct
  <2> QED
    BY ONLY <1>3, <2>1, <2>2, <2>3, <2>4
<1> QED
  BY ONLY <1>1, <1>3, <1>5, <1>6

(* An order less, at the front or elsewhere.                               *)
LEMMA LessIsDropped ==
  ASSUME NEW q \in Orders, Distinct(q), NEW k \in 1..Len(q), NEW t \in Orders,
         Len(t) = Len(q) - 1,
         \A i \in 1..Len(q) - 1 : t[i] = IF i < k THEN q[i] ELSE q[i + 1]
  PROVE  Distinct(t) /\ Dropped(q, t, k)
<1>1. PICK len \in Nat : len = Len(q) /\ DOMAIN q = 1..len
  BY OrdersFacts
<1>2. DOMAIN t = 1..len - 1
  BY ONLY <1>1, Len(t) = Len(q) - 1, OrdersFacts, t \in Orders
<1>3. \A i \in 1..len - 1 : t[i] = IF i < k THEN q[i] ELSE q[i + 1]
  BY ONLY <1>1, \A i \in 1..Len(q) - 1 : t[i] = IF i < k THEN q[i] ELSE q[i + 1]
<1>4. Dropped(q, t, k)
  BY ONLY <1>1, <1>3, Len(t) = Len(q) - 1 DEF Dropped, SameOrder
<1>5. Distinct(t)
  <2>1. SUFFICES ASSUME NEW i \in 1..len - 1, NEW j \in 1..len - 1, t[i].id = t[j].id
                 PROVE  i = j
    BY <1>2 DEF Distinct
  <2>2. PICK m \in 1..len, n \in 1..len :
          /\ m = (IF i < k THEN i ELSE i + 1) /\ n = (IF j < k THEN j ELSE j + 1)
          /\ t[i] = q[m] /\ t[j] = q[n]
    BY ONLY <1>3, i \in 1..len - 1, j \in 1..len - 1, len \in Nat
  <2>3. m = n
    BY ONLY <1>1, <2>1, <2>2, Distinct(q) DEF Distinct
  <2> QED
    BY ONLY <1>1, <2>2, <2>3, k \in 1..Len(q), i \in 1..len - 1, j \in 1..len - 1
<1> QED
  BY <1>4, <1>5

LEMMA StrikeDrops ==
  ASSUME NEW q \in Orders, Distinct(q), NEW k \in 1..Len(q)
  PROVE  LET t == SubSeq(q, 1, k - 1) \o SubSeq(q, k + 1, Len(q)) IN
         t \in Orders /\ Distinct(t) /\ Dropped(q, t, k)
<1>1. PICK len \in Nat : len = Len(q) /\ DOMAIN q = 1..len
  BY OrdersFacts
<1>2. PICK t : t = [i \in 1..len - 1 |-> IF i < k THEN q[i] ELSE q[i + 1]]
  OBVIOUS
<1>3. /\ DOMAIN t = 1..len - 1 /\ IsAFcn(t)
      /\ \A i \in 1..len - 1 : t[i] = IF i < k THEN q[i] ELSE q[i + 1]
  BY ONLY <1>2 DEF IsAFcn
<1>4. k \in 1..len /\ len - 1 \in Nat
  BY ONLY <1>1, k \in 1..Len(q)
<1>5. t = SubSeq(q, 1, k - 1) \o SubSeq(q, k + 1, Len(q))
  BY ONLY <1>1, <1>3, q \in Orders, k \in 1..Len(q), RemovalFacts DEF Orders
<1>6. t \in Orders /\ Len(t) = len - 1
  <2>1. \A i \in 1..len - 1 : i \in 1..len /\ i + 1 \in 1..len
    BY ONLY len \in Nat
  <2>2. \A i \in 1..len - 1 : t[i] \in RestingOrder
    BY ONLY <1>1, <1>3, <2>1, q \in Orders, OrdersFacts
  <2> QED
    BY ONLY <1>3, <1>4, <2>2 DEF IsAFcn, Orders
<1>7. Distinct(t) /\ Dropped(q, t, k)
  BY ONLY <1>1, <1>3, <1>6, q \in Orders, Distinct(q), k \in 1..Len(q), LessIsDropped
<1> QED
  BY ONLY <1>5, <1>6, <1>7

LEMMA TailDrops ==
  ASSUME NEW q \in Orders, Distinct(q), q # <<>>
  PROVE  Tail(q) \in Orders /\ Distinct(Tail(q)) /\ Dropped(q, Tail(q), 1)
<1>1. PICK len \in Nat : len = Len(q) /\ DOMAIN q = 1..len /\ len # 0
  BY OrdersFacts
<1>2. PICK t : t = Tail(q)
  OBVIOUS
<1>3. t \in Orders /\ Len(t) = len - 1 /\ \A i \in 1..len - 1 : t[i] = q[i + 1]
  BY <1>1, <1>2 DEF Orders
<1>4. 1 \in 1..len /\ \A i \in 1..len - 1 : ~ i < 1
  BY ONLY <1>1
<1>5. Distinct(t) /\ Dropped(q, t, 1)
  BY ONLY <1>1, <1>3, <1>4, q \in Orders, Distinct(q), LessIsDropped
<1> QED
  BY ONLY <1>2, <1>3, <1>5

(* Another quantity.                                                       *)
LEMMA ExceptRequotes ==
  ASSUME NEW q \in Orders, Distinct(q), NEW k \in 1..Len(q), NEW qty \in Quantities
  PROVE  LET t == [q EXCEPT ![k].qty = qty] IN
         t \in Orders /\ Distinct(t) /\ Requoted(q, t, k, qty)
<1>1. PICK len \in Nat : /\ len = Len(q) /\ DOMAIN q = 1..len
                         /\ \A i \in 1..len : q[i] \in RestingOrder
  BY OrdersFacts
<1>2. PICK t : t = [q EXCEPT ![k].qty = qty]
  OBVIOUS
<1>3. /\ DOMAIN t = 1..len /\ IsAFcn(t)
      /\ \A i \in 1..len : t[i] = IF i = k THEN [q[k] EXCEPT !.qty = qty] ELSE q[i]
  BY <1>1, <1>2 DEF IsAFcn
<1>4. k \in 1..len
  BY ONLY <1>1, k \in 1..Len(q)
<1>5. PICK new \in RestingOrder :
        new = [q[k] EXCEPT !.qty = qty] /\ new.id = q[k].id /\ new.qty = qty
  <2>1. q[k] \in RestingOrder
    BY ONLY <1>1, <1>4
  <2>2. PICK new : new = [q[k] EXCEPT !.qty = qty]
    OBVIOUS
  <2>3. new \in RestingOrder /\ new.id = q[k].id /\ new.qty = qty
    BY ONLY <2>1, <2>2, qty \in Quantities DEF RestingOrder
  <2> QED
    BY ONLY <2>2, <2>3
<1>6. \A i \in 1..len : /\ t[i] \in RestingOrder /\ t[i].id = q[i].id
                        /\ t[i].qty = IF i = k THEN qty ELSE q[i].qty
  BY ONLY <1>1, <1>3, <1>4, <1>5
<1>7. t \in Orders /\ Len(t) = len
  BY ONLY <1>3, <1>6, len \in Nat DEF IsAFcn, Orders
<1>8. Distinct(t)
  BY ONLY <1>1, <1>3, <1>6, Distinct(q) DEF Distinct
<1>9. Requoted(q, t, k, qty)
  BY ONLY <1>1, <1>6, <1>7 DEF Requoted
<1> QED
  BY ONLY <1>2, <1>7, <1>8, <1>9
-----------------------------------------------------------------------------
(* What the commands do to a queue p of orders: the queue q they leave.    *)

Rests(p, id) == \E k \in DOMAIN p : p[k].id = id

InsertDoes(p, q, id, qty) ==
  \/ Rests(p, id) /\ SameOrders(p, q)
  \/ ~ Rests(p, id) /\ Added(p, q, id, qty)

RemoveDoes(p, q, id) ==
  \/ ~ Rests(p, id) /\ SameOrders(p, q)
  \/ \E k \in 1..Len(p) : p[k].id = id /\ Dropped(p, q, k)

UpdateDoes(p, q, id, qty) ==
  \/ ~ Rests(p, id) /\ SameOrders(p, q)
  \/ \E k \in 1..Len(p) : p[k].id = id /\ Requoted(p, q, k, qty)

FillDoes(p, q, qty) ==
  \/ (Len(p) = 0 \/ qty >= p[1].qty) /\ SameOrders(p, q)
  \/ Len(p) > 0 /\ qty < p[1].qty /\ Requoted(p, q, 1, p[1].qty - qty)

Does(p, command, q) ==
  \/ command \in NewOrderRequest /\ InsertDoes(p, q, command.order_id, command.qty)
  \/ command \in CancelRequest /\ RemoveDoes(p, q, command.order_id)
  \/ command \in UpdateQtyRequest /\ UpdateDoes(p, q, command.order_id, command.new_qty)
  \/ command \in PartialFillRequest /\ FillDoes(p, q, command.qty_to_fill)
-----------------------------------------------------------------------------
(* The same command does the same to two queues p and o of the same orders *)
(* and leaves the same orders q and s behind.                              *)

LEMMA SameLengths ==
  ASSUME NEW p \in Orders, NEW o \in Orders, SameOrders(p, o)
  PROVE  /\ Len(p) = Len(o) /\ DOMAIN p = 1..Len(p) /\ DOMAIN o = 1..Len(p)
         /\ \A i \in 1..Len(p) : SameOrder(p[i], o[i])
         /\ \A id : Rests(p, id) <=> Rests(o, id)
<1>1. PICK len \in Nat : len = Len(p) /\ DOMAIN p = 1..len
  BY OrdersFacts
<1>2. Len(o) = len /\ \A i \in 1..len : SameOrder(p[i], o[i])
  BY ONLY <1>1, SameOrders(p, o) DEF SameOrders, SameOrder
<1>3. DOMAIN o = 1..len
  BY ONLY <1>2, OrdersFacts, o \in Orders
<1>4. \A id : Rests(p, id) <=> Rests(o, id)
  BY ONLY <1>1, <1>2, <1>3 DEF Rests, SameOrder
<1> QED
  BY ONLY <1>1, <1>2, <1>3, <1>4

LEMMA AddedAlike ==
  ASSUME NEW p \in Orders, NEW o \in Orders, SameOrders(p, o), NEW q \in Orders,
         NEW s \in Orders, NEW id, NEW qty, Added(p, q, id, qty), Added(o, s, id, qty)
  PROVE  SameOrders(q, s)
<1>1. PICK len \in Nat : len = Len(p)
  BY OrdersFacts
<1>2. Len(o) = len /\ \A i \in 1..len : SameOrder(p[i], o[i])
  BY ONLY <1>1, SameLengths, p \in Orders, o \in Orders, SameOrders(p, o)
<1>3. /\ Len(q) = len + 1 /\ \A i \in 1..len : SameOrder(q[i], p[i])
      /\ q[len + 1].id = id /\ q[len + 1].qty = qty
  BY ONLY <1>1, Added(p, q, id, qty) DEF Added
<1>4. /\ Len(s) = len + 1 /\ \A i \in 1..len : SameOrder(s[i], o[i])
      /\ s[len + 1].id = id /\ s[len + 1].qty = qty
  BY ONLY <1>2, Added(o, s, id, qty) DEF Added
<1>5. \A i \in 1..len + 1 : i = len + 1 \/ i \in 1..len
  BY ONLY len \in Nat
<1>6. \A i \in 1..len + 1 : SameOrder(q[i], s[i])
  BY ONLY <1>2, <1>3, <1>4, <1>5 DEF SameOrder
<1>7. DOMAIN q = 1..len + 1
  BY ONLY <1>3, OrdersFacts, q \in Orders
<1> QED
  BY ONLY <1>3, <1>4, <1>6, <1>7 DEF SameOrders, SameOrder

LEMMA DroppedAlike ==
  ASSUME NEW p \in Orders, NEW o \in Orders, SameOrders(p, o), NEW q \in Orders,
         NEW s \in Orders, NEW k \in 1..Len(p), Dropped(p, q, k), Dropped(o, s, k)
  PROVE  SameOrders(q, s)
<1>1. PICK len \in Nat : len = Len(p)
  BY OrdersFacts
<1>2. Len(o) = len /\ \A i \in 1..len : SameOrder(p[i], o[i])
  BY ONLY <1>1, SameLengths, p \in Orders, o \in Orders, SameOrders(p, o)
<1>3. /\ Len(q) = len - 1
      /\ \A i \in 1..len - 1 : SameOrder(q[i], IF i < k THEN p[i] ELSE p[i + 1])
  BY ONLY <1>1, Dropped(p, q, k) DEF Dropped
<1>4. /\ Len(s) = len - 1
      /\ \A i \in 1..len - 1 : SameOrder(s[i], IF i < k THEN o[i] ELSE o[i + 1])
  BY ONLY <1>2, Dropped(o, s, k) DEF Dropped
<1>5. \A i \in 1..len - 1 : i \in 1..len /\ i + 1 \in 1..len
  BY ONLY len \in Nat
<1>6. \A i \in 1..len - 1 : SameOrder(q[i], s[i])
  BY ONLY <1>2, <1>3, <1>4, <1>5 DEF SameOrder
<1>7. DOMAIN q = 1..len - 1
  BY ONLY <1>3, OrdersFacts, q \in Orders
<1> QED
  BY ONLY <1>3, <1>4, <1>6, <1>7 DEF SameOrders, SameOrder

LEMMA RequotedAlike ==
  ASSUME NEW p \in Orders, NEW o \in Orders, SameOrders(p, o), NEW q \in Orders,
         NEW s \in Orders, NEW k \in 1..Len(p), NEW qty,
         Requoted(p, q, k, qty), Requoted(o, s, k, qty)
  PROVE  SameOrders(q, s)
<1>1. PICK len \in Nat : len = Len(p)
  BY OrdersFacts
<1>2. Len(o) = len /\ \A i \in 1..len : SameOrder(p[i], o[i])
  BY ONLY <1>1, SameLengths, p \in Orders, o \in Orders, SameOrders(p, o)
<1>3. /\ Len(q) = len
      /\ \A i \in 1..len : q[i].id = p[i].id /\ q[i].qty = IF i = k THEN qty ELSE p[i].qty
  BY ONLY <1>1, Requoted(p, q, k, qty) DEF Requoted
<1>4. /\ Len(s) = len
      /\ \A i \in 1..len : s[i].id = o[i].id /\ s[i].qty = IF i = k THEN qty ELSE o[i].qty
  BY ONLY <1>2, Requoted(o, s, k, qty) DEF Requoted
<1>5. \A i \in 1..len : SameOrder(q[i], s[i])
  BY ONLY <1>2, <1>3, <1>4 DEF SameOrder
<1>6. DOMAIN q = 1..len
  BY ONLY <1>3, OrdersFacts, q \in Orders
<1> QED
  BY ONLY <1>3, <1>4, <1>5, <1>6 DEF SameOrders, SameOrder

(* A refusal leaves both as they were.                                     *)
LEMMA KeptAlike ==
  ASSUME NEW p \in Orders, NEW o \in Orders, SameOrders(p, o), NEW q \in Orders,
         NEW s \in Orders, SameOrders(p, q), SameOrders(o, s)
  PROVE  SameOrders(q, s)
<1>1. PICK len \in Nat : len = Len(p)
  BY OrdersFacts
<1>2. /\ Len(o) = len /\ Len(q) = len /\ Len(s) = len /\ DOMAIN q = 1..len
      /\ \A i \in 1..len : /\ SameOrder(p[i], o[i]) /\ SameOrder(p[i], q[i])
                           /\ SameOrder(o[i], s[i])
  BY ONLY <1>1, SameLengths, p \in Orders, o \in Orders, q \in Orders, s \in Orders,
          SameOrders(p, o), SameOrders(p, q), SameOrders(o, s)
<1> QED
  BY ONLY <1>2 DEF SameOrders, SameOrder

(* An id rests at the same place in both.                                  *)
LEMMA SamePlace ==
  ASSUME NEW p \in Orders, NEW o \in Orders, SameOrders(p, o), Distinct(p),
         NEW k \in 1..Len(p), NEW m \in 1..Len(o), p[k].id = o[m].id
  PROVE  k = m /\ SameOrder(p[k], o[k])
<1>1. /\ Len(p) = Len(o) /\ DOMAIN p = 1..Len(p)
      /\ \A i \in 1..Len(p) : SameOrder(p[i], o[i])
  BY SameLengths
<1>2. p[m].id = o[m].id
  BY ONLY <1>1, m \in 1..Len(o) DEF SameOrder
<1> QED
  BY ONLY <1>1, <1>2, p[k].id = o[m].id, k \in 1..Len(p), m \in 1..Len(o), Distinct(p)
     DEF Distinct

LEMMA InsertAlike ==
  ASSUME NEW p \in Orders, NEW o \in Orders, SameOrders(p, o), NEW q \in Orders,
         NEW s \in Orders, NEW id, NEW qty,
         InsertDoes(p, q, id, qty), InsertDoes(o, s, id, qty)
  PROVE  SameOrders(q, s)
<1>1. Rests(p, id) <=> Rests(o, id)
  BY SameLengths
<1>2. CASE Rests(p, id)
  BY <1>1, <1>2, KeptAlike DEF InsertDoes
<1>3. CASE ~ Rests(p, id)
  BY <1>1, <1>3, AddedAlike DEF InsertDoes
<1> QED
  BY <1>2, <1>3

LEMMA RemoveAlike ==
  ASSUME NEW p \in Orders, NEW o \in Orders, SameOrders(p, o), Distinct(p), NEW q \in Orders,
         NEW s \in Orders, NEW id,
         RemoveDoes(p, q, id), RemoveDoes(o, s, id)
  PROVE  SameOrders(q, s)
<1>1. (Rests(p, id) <=> Rests(o, id)) /\ DOMAIN p = 1..Len(p) /\ DOMAIN o = 1..Len(o)
  BY SameLengths, OrdersFacts
<1>2. CASE ~ Rests(p, id)
  <2>1. /\ SameOrders(p, q)
        /\ SameOrders(o, s)
    BY ONLY <1>1, <1>2, RemoveDoes(p, q, id), RemoveDoes(o, s, id) DEF RemoveDoes, Rests
  <2> QED
    BY <2>1, KeptAlike
<1>3. CASE Rests(p, id)
  <2>1. PICK k \in 1..Len(p) : p[k].id = id /\ Dropped(p, q, k)
    BY ONLY <1>3, RemoveDoes(p, q, id) DEF RemoveDoes
  <2>2. PICK m \in 1..Len(o) : o[m].id = id /\ Dropped(o, s, m)
    BY ONLY <1>1, <1>3, RemoveDoes(o, s, id) DEF RemoveDoes
  <2>3. k = m /\ SameOrder(p[k], o[k])
    BY <2>1, <2>2, SamePlace
  <2> QED
    BY <2>1, <2>2, <2>3, DroppedAlike
<1> QED
  BY <1>2, <1>3

LEMMA UpdateAlike ==
  ASSUME NEW p \in Orders, NEW o \in Orders, SameOrders(p, o), Distinct(p), NEW q \in Orders,
         NEW s \in Orders, NEW id, NEW qty,
         UpdateDoes(p, q, id, qty), UpdateDoes(o, s, id, qty)
  PROVE  SameOrders(q, s)
<1>1. (Rests(p, id) <=> Rests(o, id)) /\ DOMAIN p = 1..Len(p) /\ DOMAIN o = 1..Len(o)
  BY SameLengths, OrdersFacts
<1>2. CASE ~ Rests(p, id)
  <2>1. /\ SameOrders(p, q)
        /\ SameOrders(o, s)
    BY ONLY <1>1, <1>2, UpdateDoes(p, q, id, qty), UpdateDoes(o, s, id, qty)
       DEF UpdateDoes, Rests
  <2> QED
    BY <2>1, KeptAlike
<1>3. CASE Rests(p, id)
  <2>1. PICK k \in 1..Len(p) :
          p[k].id = id /\ Requoted(p, q, k, qty)
    BY ONLY <1>3, UpdateDoes(p, q, id, qty) DEF UpdateDoes
  <2>2. PICK m \in 1..Len(o) :
          o[m].id = id /\ Requoted(o, s, m, qty)
    BY ONLY <1>1, <1>3, UpdateDoes(o, s, id, qty) DEF UpdateDoes
  <2>3. k = m
    BY <2>1, <2>2, SamePlace
  <2> QED
    BY <2>1, <2>2, <2>3, RequotedAlike
<1> QED
  BY <1>2, <1>3

LEMMA FillAlike ==
  ASSUME NEW p \in Orders, NEW o \in Orders, SameOrders(p, o), NEW q \in Orders,
         NEW s \in Orders, NEW qty \in Quantities,
         FillDoes(p, q, qty), FillDoes(o, s, qty)
  PROVE  SameOrders(q, s)
<1>1. PICK len \in Nat : len = Len(p) /\ len = Len(o)
  BY OrdersFacts, SameLengths
<1>2. CASE len = 0
  BY ONLY <1>1, <1>2, FillDoes(p, q, qty), FillDoes(o, s, qty), KeptAlike,
          p \in Orders, o \in Orders, q \in Orders, s \in Orders, SameOrders(p, o)
     DEF FillDoes
<1>3. CASE len # 0
  <2>1. PICK i \in 1..len : i = 1
    BY ONLY <1>3, len \in Nat
  <2>2. p[1] \in RestingOrder /\ o[1].id = p[1].id /\ o[1].qty = p[1].qty
    BY ONLY <1>1, <2>1, OrdersFacts, SameLengths, p \in Orders, o \in Orders, SameOrders(p, o)
       DEF SameOrder
  <2>3. PICK had \in Int : had = p[1].qty /\ had = o[1].qty /\ qty \in Int
    BY ONLY <2>2, qty \in Quantities, MaxQtyAssumption DEF RestingOrder, Quantities
  <2>4. CASE qty >= had
    <3>1. ~ qty < had /\ len > 0
      BY ONLY <1>3, <2>3, <2>4, len \in Nat
    <3>2. /\ SameOrders(p, q)
          /\ SameOrders(o, s)
      BY ONLY <1>1, <1>3, <2>3, <3>1, FillDoes(p, q, qty), FillDoes(o, s, qty) DEF FillDoes
    <3> QED
      BY <3>2, KeptAlike
  <2>5. CASE ~ qty >= had
    <3>1. /\ Requoted(p, q, 1, had - qty)
          /\ Requoted(o, s, 1, had - qty)
      BY ONLY <1>1, <1>3, <2>3, <2>5, FillDoes(p, q, qty), FillDoes(o, s, qty) DEF FillDoes
    <3>2. 1 \in 1..Len(p)
      BY ONLY <1>1, <2>1
    <3> QED
      BY <3>1, <3>2, RequotedAlike
  <2> QED
    BY <2>4, <2>5
<1> QED
  BY <1>2, <1>3

(* A command is of one kind.                                               *)
LEMMA OneKind ==
  ASSUME NEW command
  PROVE  /\ command \in NewOrderRequest => command.request = "NewOrderRequest"
         /\ command \in CancelRequest => command.request = "CancelRequest"
         /\ command \in UpdateQtyRequest => command.request = "UpdateQtyRequest"
         /\ command \in PartialFillRequest => command.request = "PartialFillRequest"
BY DEF NewOrderRequest, CancelRequest, UpdateQtyRequest, PartialFillRequest

LEMMA DoesAlike ==
  ASSUME NEW p \in Orders, NEW o \in Orders, SameOrders(p, o), Distinct(p), NEW q \in Orders,
         NEW s \in Orders, NEW command,
         Does(p, command, q), Does(o, command, s)
  PROVE  SameOrders(q, s)
<1>1. CASE command \in NewOrderRequest
  <2>1. /\ InsertDoes(p, q, command.order_id, command.qty)
        /\ InsertDoes(o, s, command.order_id, command.qty)
    BY ONLY <1>1, OneKind, Does(p, command, q), Does(o, command, s) DEF Does
  <2> QED
    BY <2>1, InsertAlike
<1>2. CASE command \in CancelRequest
  <2>1. RemoveDoes(p, q, command.order_id) /\ RemoveDoes(o, s, command.order_id)
    BY ONLY <1>2, OneKind, Does(p, command, q), Does(o, command, s) DEF Does
  <2> QED
    BY <2>1, RemoveAlike
<1>3. CASE command \in UpdateQtyRequest
  <2>1. /\ UpdateDoes(p, q, command.order_id, command.new_qty)
        /\ UpdateDoes(o, s, command.order_id, command.new_qty)
    BY ONLY <1>3, OneKind, Does(p, command, q), Does(o, command, s) DEF Does
  <2> QED
    BY <2>1, UpdateAlike
<1>4. CASE command \in PartialFillRequest
  <2>1. FillDoes(p, q, command.qty_to_fill) /\ FillDoes(o, s, command.qty_to_fill)
    BY ONLY <1>4, OneKind, Does(p, command, q), Does(o, command, s) DEF Does
  <2>2. command.qty_to_fill \in Quantities
    BY ONLY <1>4 DEF PartialFillRequest
  <2> QED
    BY <2>1, <2>2, FillAlike
<1> QED
  BY ONLY <1>1, <1>2, <1>3, <1>4, Does(p, command, q) DEF Does
-----------------------------------------------------------------------------
(* The commands of the contract, for any queue q of orders and clock t:    *)
(* they do what has been said.                                             *)

PlacesOf(q, id) == {i \in DOMAIN q : q[i].id = id}

InsertOn(q, s, t, id, qty) ==
  \/ PlacesOf(q, id) # {} /\ s = q
  \/ PlacesOf(q, id) = {} /\ s = Append(q, [id |-> id, qty |-> qty, timestamp_ns |-> t])

RemoveOn(q, s, id) ==
  \/ PlacesOf(q, id) = {} /\ s = q
  \/ \E k \in PlacesOf(q, id) : s = SubSeq(q, 1, k - 1) \o SubSeq(q, k + 1, Len(q))

UpdateOn(q, s, id, qty) ==
  \/ PlacesOf(q, id) = {} /\ s = q
  \/ \E k \in PlacesOf(q, id) : s = [q EXCEPT ![k].qty = qty]

FillOn(q, s, qty) ==
  \/ (q = <<>> \/ qty >= Head(q).qty) /\ s = q
  \/ q # <<>> /\ qty < Head(q).qty /\ s = [q EXCEPT ![1].qty = @ - qty]

LEMMA SameAsItself ==
  ASSUME NEW q \in Orders
  PROVE  SameOrders(q, q)
BY DEF SameOrders

LEMMA InsertOnDoes ==
  ASSUME NEW q \in Orders, Distinct(q), NEW s, NEW t \in Times,
         NEW id \in OrderIds, NEW qty \in Quantities, InsertOn(q, s, t, id, qty)
  PROVE  s \in Orders /\ Distinct(s) /\ InsertDoes(q, s, id, qty)
<1>1. PlacesOf(q, id) # {} <=> Rests(q, id)
  BY DEF PlacesOf, Rests
<1>2. CASE Rests(q, id)
  <2>1. s = q
    BY ONLY <1>1, <1>2, InsertOn(q, s, t, id, qty) DEF InsertOn
  <2> QED
    BY <1>2, <2>1, SameAsItself DEF InsertDoes
<1>3. CASE ~ Rests(q, id)
  <2>1. PICK ro : ro = [id |-> id, qty |-> qty, timestamp_ns |-> t]
    OBVIOUS
  <2>2. ro \in RestingOrder /\ ro.id = id /\ ro.qty = qty
    BY <2>1 DEF RestingOrder
  <2>3. s = Append(q, ro)
    BY ONLY <1>1, <1>3, <2>1, InsertOn(q, s, t, id, qty) DEF InsertOn
  <2>4. \A k \in DOMAIN q : q[k].id # ro.id
    BY ONLY <1>3, <2>2 DEF Rests
  <2>5. s \in Orders /\ Distinct(s) /\ Added(q, s, id, qty)
    BY ONLY <2>2, <2>3, <2>4, q \in Orders, Distinct(q), AppendAdds
  <2> QED
    BY ONLY <1>3, <2>5 DEF InsertDoes
<1> QED
  BY <1>2, <1>3

LEMMA RemoveOnDoes ==
  ASSUME NEW q \in Orders, Distinct(q), NEW s, NEW id \in OrderIds, RemoveOn(q, s, id)
  PROVE  s \in Orders /\ Distinct(s) /\ RemoveDoes(q, s, id)
<1>1. PlacesOf(q, id) = {} <=> ~ Rests(q, id)
  BY DEF PlacesOf, Rests
<1>2. CASE PlacesOf(q, id) = {} /\ s = q
  BY <1>1, <1>2, SameAsItself DEF RemoveDoes
<1>3. CASE \E k \in PlacesOf(q, id) : s = SubSeq(q, 1, k - 1) \o SubSeq(q, k + 1, Len(q))
  <2>1. PICK k \in PlacesOf(q, id) : s = SubSeq(q, 1, k - 1) \o SubSeq(q, k + 1, Len(q))
    BY <1>3
  <2>2. k \in 1..Len(q) /\ q[k].id = id
    BY ONLY k \in PlacesOf(q, id), q \in Orders, OrdersFacts DEF PlacesOf
  <2>3. s \in Orders /\ Distinct(s) /\ Dropped(q, s, k)
    BY ONLY <2>1, <2>2, q \in Orders, Distinct(q), StrikeDrops
  <2> QED
    BY ONLY <2>2, <2>3 DEF RemoveDoes
<1> QED
  BY ONLY <1>2, <1>3, RemoveOn(q, s, id) DEF RemoveOn

LEMMA UpdateOnDoes ==
  ASSUME NEW q \in Orders, Distinct(q), NEW s,
         NEW id \in OrderIds, NEW qty \in Quantities, UpdateOn(q, s, id, qty)
  PROVE  s \in Orders /\ Distinct(s) /\ UpdateDoes(q, s, id, qty)
<1>1. PlacesOf(q, id) = {} <=> ~ Rests(q, id)
  BY DEF PlacesOf, Rests
<1>2. CASE PlacesOf(q, id) = {} /\ s = q
  BY <1>1, <1>2, SameAsItself DEF UpdateDoes
<1>3. CASE \E k \in PlacesOf(q, id) : s = [q EXCEPT ![k].qty = qty]
  <2>1. PICK k \in PlacesOf(q, id) : s = [q EXCEPT ![k].qty = qty]
    BY <1>3
  <2>2. k \in 1..Len(q) /\ q[k].id = id
    BY ONLY k \in PlacesOf(q, id), q \in Orders, OrdersFacts DEF PlacesOf
  <2>3. s \in Orders /\ Distinct(s) /\ Requoted(q, s, k, qty)
    BY ONLY <2>1, <2>2, q \in Orders, Distinct(q), qty \in Quantities, ExceptRequotes
  <2> QED
    BY ONLY <2>2, <2>3 DEF UpdateDoes
<1> QED
  BY ONLY <1>2, <1>3, UpdateOn(q, s, id, qty) DEF UpdateOn

(* The first order of a queue that is not empty.                           *)
LEMMA FirstOrder ==
  ASSUME NEW q \in Orders, q # <<>>
  PROVE  Head(q) = q[1] /\ 1 \in 1..Len(q) /\ Len(q) > 0 /\ q[1].qty \in Quantities
<1>1. Len(q) \in Nat /\ Len(q) # 0 /\ \A i \in 1..Len(q) : q[i] \in RestingOrder
  BY OrdersFacts
<1>2. 1 \in 1..Len(q) /\ Len(q) > 0
  BY ONLY <1>1
<1>3. Head(q) = q[1]
  BY <1>1 DEF Orders
<1> QED
  BY ONLY <1>1, <1>2, <1>3 DEF RestingOrder

LEMMA FillOnDoes ==
  ASSUME NEW q \in Orders, Distinct(q), NEW s, NEW qty \in Quantities, FillOn(q, s, qty)
  PROVE  s \in Orders /\ Distinct(s) /\ FillDoes(q, s, qty)
<1>1. CASE q = <<>> /\ s = q
  <2>1. Len(q) = 0
    BY ONLY <1>1, OrdersFacts, q \in Orders
  <2> QED
    BY <1>1, <2>1, SameAsItself DEF FillDoes
<1>2. CASE q # <<>> /\ qty >= Head(q).qty /\ s = q
  <2>1. qty >= q[1].qty
    BY ONLY <1>2, FirstOrder, q \in Orders
  <2> QED
    BY <1>2, <2>1, SameAsItself DEF FillDoes
<1>3. CASE q # <<>> /\ qty < Head(q).qty /\ s = [q EXCEPT ![1].qty = @ - qty]
  <2>1. Head(q) = q[1] /\ 1 \in 1..Len(q) /\ Len(q) > 0 /\ q[1].qty \in Quantities
    BY ONLY <1>3, FirstOrder, q \in Orders
  <2>2. PICK left : left = q[1].qty - qty
    OBVIOUS
  <2>3. left \in Quantities /\ qty < q[1].qty
    BY ONLY <1>3, <2>1, <2>2, qty \in Quantities, MaxQtyAssumption DEF Quantities
  <2>4. s = [q EXCEPT ![1].qty = left]
    BY ONLY <1>3, <2>2
  <2>5. s \in Orders /\ Distinct(s) /\ Requoted(q, s, 1, left)
    BY ONLY <2>1, <2>3, <2>4, q \in Orders, Distinct(q), ExceptRequotes
  <2> QED
    BY ONLY <2>1, <2>2, <2>3, <2>5 DEF FillDoes
<1> QED
  BY ONLY <1>1, <1>2, <1>3, FillOn(q, s, qty) DEF FillOn
-----------------------------------------------------------------------------
(* What the commands do to the ids that rest.                              *)

After(ids, command) ==
  IF command \in NewOrderRequest THEN ids \cup {command.order_id}
  ELSE IF command \in CancelRequest THEN ids \ {command.order_id}
  ELSE ids

LEMMA SameIds ==
  ASSUME NEW p \in Orders, NEW q \in Orders, SameOrders(p, q)
  PROVE  Ids(q) = Ids(p)
<1>1. PICK len : len = Len(p) /\ DOMAIN p = 1..len /\ DOMAIN q = 1..len
  BY SameLengths
<1> QED
  BY ONLY <1>1, SameOrders(p, q) DEF Ids, SameOrders

LEMMA AddedIds ==
  ASSUME NEW p \in Orders, NEW q \in Orders, NEW id, NEW qty, Added(p, q, id, qty)
  PROVE  Ids(q) = Ids(p) \cup {id}
<1>1. PICK len \in Nat : len = Len(p) /\ DOMAIN p = 1..len
  BY OrdersFacts
<1>2. /\ Len(q) = len + 1 /\ q[len + 1].id = id
      /\ \A i \in 1..len : q[i].id = p[i].id
  BY ONLY <1>1, Added(p, q, id, qty) DEF Added, SameOrder
<1>3. DOMAIN q = 1..len + 1
  BY ONLY <1>2, OrdersFacts, q \in Orders
<1>4. \A i : i \in 1..len + 1 <=> (i \in 1..len \/ i = len + 1)
  BY ONLY len \in Nat
<1> QED
  BY ONLY <1>1, <1>2, <1>3, <1>4 DEF Ids

LEMMA DroppedIds ==
  ASSUME NEW p \in Orders, Distinct(p), NEW q \in Orders, NEW k \in 1..Len(p), Dropped(p, q, k)
  PROVE  Ids(q) = Ids(p) \ {p[k].id}
<1>1. PICK len \in Nat : len = Len(p) /\ DOMAIN p = 1..len /\ k \in 1..len
  BY OrdersFacts
<1>2. /\ Len(q) = len - 1
      /\ \A i \in 1..len - 1 : q[i].id = IF i < k THEN p[i].id ELSE p[i + 1].id
  BY ONLY <1>1, Dropped(p, q, k) DEF Dropped, SameOrder
<1>3. DOMAIN q = 1..len - 1
  BY ONLY <1>2, OrdersFacts, q \in Orders
<1>4. ASSUME NEW i \in 1..len - 1 PROVE q[i].id \in Ids(p) \ {p[k].id}
  <2>1. PICK m \in 1..len : m # k /\ q[i].id = p[m].id
    <3>1. CASE i < k
      BY ONLY <1>1, <1>2, <3>1, i \in 1..len - 1
    <3>2. CASE ~ i < k
      <4>1. i + 1 \in 1..len /\ i + 1 # k
        BY ONLY <1>1, <3>2, i \in 1..len - 1
      <4> QED
        BY ONLY <1>2, <3>2, <4>1, i \in 1..len - 1
    <3> QED
      BY ONLY <3>1, <3>2
  <2>2. p[m].id # p[k].id
    BY ONLY <1>1, <2>1, Distinct(p) DEF Distinct
  <2> QED
    BY ONLY <1>1, <2>1, <2>2 DEF Ids
<1>5. ASSUME NEW m \in 1..len, p[m].id # p[k].id PROVE p[m].id \in Ids(q)
  <2>1. CASE m < k
    <3>1. m \in 1..len - 1
      BY ONLY <1>1, <2>1, m \in 1..len
    <3> QED
      BY ONLY <1>2, <1>3, <2>1, <3>1 DEF Ids
  <2>2. CASE m > k
    <3>1. PICK i : i = m - 1
      OBVIOUS
    <3>2. i \in 1..len - 1 /\ ~ i < k /\ i + 1 = m
      BY ONLY <1>1, <2>2, <3>1, m \in 1..len
    <3> QED
      BY ONLY <1>2, <1>3, <3>2 DEF Ids
  <2>3. m # k
    BY ONLY <1>5
  <2> QED
    BY ONLY <1>1, <2>1, <2>2, <2>3
<1> QED
  BY ONLY <1>1, <1>3, <1>4, <1>5 DEF Ids

LEMMA RequotedIds ==
  ASSUME NEW p \in Orders, NEW q \in Orders, NEW k, NEW qty, Requoted(p, q, k, qty)
  PROVE  Ids(q) = Ids(p)
<1>1. Len(q) = Len(p) /\ \A i \in 1..Len(p) : q[i].id = p[i].id
  BY ONLY Requoted(p, q, k, qty) DEF Requoted
<1>2. DOMAIN p = 1..Len(p) /\ DOMAIN q = 1..Len(q)
  BY OrdersFacts
<1> QED
  BY ONLY <1>1, <1>2 DEF Ids

LEMMA DoesIds ==
  ASSUME NEW p \in Orders, Distinct(p), NEW q \in Orders, NEW command, Does(p, command, q)
  PROVE  Ids(q) = After(Ids(p), command)
<1>1. \A id : Rests(p, id) <=> id \in Ids(p)
  BY DEF Rests, Ids
<1>2. CASE command \in NewOrderRequest
  <2>1. InsertDoes(p, q, command.order_id, command.qty)
    BY ONLY <1>2, OneKind, Does(p, command, q) DEF Does
  <2>2. Ids(q) = Ids(p) \cup {command.order_id}
    BY <1>1, <2>1, SameIds, AddedIds DEF InsertDoes
  <2> QED
    BY ONLY <1>2, <2>2 DEF After
<1>3. CASE command \in CancelRequest
  <2>1. RemoveDoes(p, q, command.order_id)
    BY ONLY <1>3, OneKind, Does(p, command, q) DEF Does
  <2>2. Ids(q) = Ids(p) \ {command.order_id}
    BY <1>1, <2>1, SameIds, DroppedIds DEF RemoveDoes
  <2>3. command \notin NewOrderRequest
    BY ONLY <1>3, OneKind
  <2> QED
    BY ONLY <1>3, <2>2, <2>3 DEF After
<1>4. CASE command \in UpdateQtyRequest \/ command \in PartialFillRequest
  <2>1. command \notin NewOrderRequest /\ command \notin CancelRequest
    BY ONLY <1>4, OneKind
  <2>2. \/ UpdateDoes(p, q, command.order_id, command.new_qty)
        \/ FillDoes(p, q, command.qty_to_fill)
    BY ONLY <2>1, Does(p, command, q) DEF Does
  <2>3. Ids(q) = Ids(p)
    BY <2>2, SameIds, RequotedIds DEF UpdateDoes, FillDoes
  <2> QED
    BY ONLY <2>1, <2>3 DEF After
<1> QED
  BY ONLY <1>2, <1>3, <1>4, Does(p, command, q) DEF Does
-----------------------------------------------------------------------------
(* The two levels take commands as the contract says.                      *)

LEMMA OriginalDoes ==
  ASSUME original \in Orders, Distinct(original), clock \in Times,
         NEW command \in OrderCommand, ApplyFirst(command)
  PROVE  /\ original' \in Orders /\ Distinct(original') /\ clock' = clock
         /\ Does(original, command, original')
<1> USE DEF Original!At, Original!Refuse, PlacesOf
<1>1. CASE command \in NewOrderRequest /\ Original!Insert(command.order_id, command.qty)
  <2>1. command.order_id \in OrderIds /\ command.qty \in Quantities
    BY <1>1 DEF NewOrderRequest
  <2>2. clock' = clock /\ InsertOn(original, original', clock, command.order_id, command.qty)
    BY ONLY <1>1 DEF Original!Insert, InsertOn
  <2> QED
    BY ONLY <1>1, <2>1, <2>2, original \in Orders, Distinct(original), clock \in Times,
            InsertOnDoes DEF Does
<1>2. CASE command \in CancelRequest /\ Original!Remove(command.order_id)
  <2>1. command.order_id \in OrderIds
    BY <1>2 DEF CancelRequest
  <2>2. clock' = clock /\ RemoveOn(original, original', command.order_id)
    BY ONLY <1>2 DEF Original!Remove, RemoveOn
  <2> QED
    BY ONLY <1>2, <2>1, <2>2, original \in Orders, Distinct(original), clock \in Times,
            RemoveOnDoes DEF Does
<1>3. CASE command \in UpdateQtyRequest /\ Original!UpdateQuantity(command.order_id, command.new_qty)
  <2>1. command.order_id \in OrderIds /\ command.new_qty \in Quantities
    BY <1>3 DEF UpdateQtyRequest
  <2>2. clock' = clock /\ UpdateOn(original, original', command.order_id, command.new_qty)
    BY ONLY <1>3 DEF Original!UpdateQuantity, UpdateOn
  <2> QED
    BY ONLY <1>3, <2>1, <2>2, original \in Orders, Distinct(original), clock \in Times,
            UpdateOnDoes DEF Does
<1>4. CASE command \in PartialFillRequest /\ Original!ApplyPartialFill(command.qty_to_fill)
  <2>1. command.qty_to_fill \in Quantities
    BY <1>4 DEF PartialFillRequest
  <2>2. clock' = clock /\ FillOn(original, original', command.qty_to_fill)
    BY ONLY <1>4 DEF Original!ApplyPartialFill, FillOn
  <2> QED
    BY ONLY <1>4, <2>1, <2>2, original \in Orders, Distinct(original), clock \in Times,
            FillOnDoes DEF Does
<1> QED
  BY ONLY <1>1, <1>2, <1>3, <1>4, ApplyFirst(command) DEF ApplyFirst

(* A complete fill of the original takes the first order off.              *)
LEMMA OriginalFills ==
  ASSUME original \in Orders, Distinct(original), Original!PopHead
  PROVE  /\ original' \in Orders /\ Distinct(original') /\ clock' = clock
         /\ Ids(original') \subseteq Ids(original)
         /\ original = <<>> => original' = original
<1>1. CASE original = <<>>
  BY <1>1 DEF Original!PopHead
<1>2. CASE original # <<>>
  <2>1. original' = Tail(original) /\ clock' = clock
    BY ONLY <1>2, Original!PopHead DEF Original!PopHead
  <2>2. original' \in Orders /\ Distinct(original') /\ Dropped(original, original', 1)
    BY ONLY <1>2, <2>1, original \in Orders, Distinct(original), TailDrops
  <2>3. 1 \in 1..Len(original)
    BY ONLY <1>2, original \in Orders, FirstOrder
  <2>4. Ids(original') = Ids(original) \ {original[1].id}
    BY ONLY <2>2, <2>3, original \in Orders, Distinct(original), DroppedIds
  <2> QED
    BY ONLY <1>2, <2>1, <2>2, <2>4
<1> QED
  BY ONLY <1>1, <1>2

(* The queue of a level is one of its orders, each once.                   *)
LEMMA FifoIsOrders ==
  ASSUME IInv
  PROVE  Fifo \in Orders /\ Distinct(Fifo) /\ now \in Times
<1>1. PICK c, len : QueueChain(c, len)
  BY FifoFacts
<1>2. now \in Times
  BY DEF IInv, TypeOK
<1> QED
  BY <1>1, <1>2 DEF QueueChain, Orders, Distinct

LEMMA ReplicaDoes ==
  ASSUME IInv, NEW command \in OrderCommand, Apply(command)
  PROVE  /\ Next /\ Fifo' \in Orders /\ Distinct(Fifo')
         /\ Does(Fifo, command, Fifo')
<1>0. Fifo \in Orders /\ Distinct(Fifo) /\ now \in Times
  BY FifoIsOrders
<1> USE DEF Queue!At, Queue!Refuse, PlacesOf
<1>1. CASE command \in NewOrderRequest /\ Insert(command.order_id, command.qty)
  <2>1. command.order_id \in OrderIds /\ command.qty \in Quantities
    BY <1>1 DEF NewOrderRequest
  <2>2. Queue!Insert(command.order_id, command.qty)
    BY ONLY <1>1, <2>1, IInv, InsertQueue
  <2>3. InsertOn(Fifo, Fifo', now, command.order_id, command.qty)
    BY ONLY <2>2 DEF Queue!Insert, InsertOn
  <2>4. Next
    BY ONLY <1>1, <2>1 DEF Next
  <2> QED
    BY ONLY <1>0, <1>1, <2>1, <2>3, <2>4, InsertOnDoes DEF Does
<1>2. CASE command \in CancelRequest /\ Remove(command.order_id)
  <2>1. command.order_id \in OrderIds
    BY <1>2 DEF CancelRequest
  <2>2. Queue!Remove(command.order_id)
    BY ONLY <1>2, <2>1, IInv, RemoveQueue
  <2>3. RemoveOn(Fifo, Fifo', command.order_id)
    BY ONLY <2>2 DEF Queue!Remove, RemoveOn
  <2>4. Next
    BY ONLY <1>2, <2>1 DEF Next
  <2> QED
    BY ONLY <1>0, <1>2, <2>1, <2>3, <2>4, RemoveOnDoes DEF Does
<1>3. CASE command \in UpdateQtyRequest /\ UpdateQuantity(command.order_id, command.new_qty)
  <2>1. command.order_id \in OrderIds /\ command.new_qty \in Quantities
    BY <1>3 DEF UpdateQtyRequest
  <2>2. Queue!UpdateQuantity(command.order_id, command.new_qty)
    BY ONLY <1>3, <2>1, IInv, UpdateQuantityQueue
  <2>3. UpdateOn(Fifo, Fifo', command.order_id, command.new_qty)
    BY ONLY <2>2 DEF Queue!UpdateQuantity, UpdateOn
  <2>4. Next
    BY ONLY <1>3, <2>1 DEF Next
  <2> QED
    BY ONLY <1>0, <1>3, <2>1, <2>3, <2>4, UpdateOnDoes DEF Does
<1>4. CASE command \in PartialFillRequest /\ ApplyPartialFill(command.qty_to_fill)
  <2>1. command.qty_to_fill \in Quantities
    BY <1>4 DEF PartialFillRequest
  <2>2. Queue!ApplyPartialFill(command.qty_to_fill)
    BY ONLY <1>4, <2>1, IInv, ApplyPartialFillQueue
  <2>3. FillOn(Fifo, Fifo', command.qty_to_fill)
    BY ONLY <2>2 DEF Queue!ApplyPartialFill, FillOn
  <2>4. Next
    BY ONLY <1>4, <2>1 DEF Next
  <2> QED
    BY ONLY <1>0, <1>4, <2>1, <2>3, <2>4, FillOnDoes DEF Does
<1> QED
  BY ONLY <1>1, <1>2, <1>3, <1>4, Apply(command) DEF Apply
-----------------------------------------------------------------------------
(* What lies between a replica and its original: the queues h[0], h[1], ...*)
(* that the stored commands lead through, from one with the orders of the  *)
(* replica to the orders of the original.                                  *)

Leads(h, commands, replica, orders) ==
  /\ \A i \in 0..Len(commands) : h[i] \in Orders /\ Distinct(h[i])
  /\ SameOrders(h[0], replica) /\ h[Len(commands)] = orders
  /\ \A i \in 1..Len(commands) : Does(h[i - 1], commands[i], h[i])

(* A command that is taken makes the way one step longer.                  *)
LEMMA LeadsFurther ==
  ASSUME NEW h, NEW commands \in Seq(OrderCommand), NEW replica, NEW orders, NEW command \in OrderCommand,
         Leads(h, commands, replica, orders), NEW after \in Orders, Distinct(after),
         Does(orders, command, after)
  PROVE  \E g : Leads(g, Append(commands, command), replica, after)
<1>1. PICK t : t = Append(commands, command)
  OBVIOUS
<1>2. PICK n \in Nat : n = Len(commands)
  OBVIOUS
<1>3. Len(t) = n + 1 /\ t[n + 1] = command /\ \A i \in 1..n : t[i] = commands[i]
  BY ONLY <1>1, <1>2, commands \in Seq(OrderCommand), command \in OrderCommand, AppendProperties
<1>4. PICK g : g = [i \in 0..n + 1 |-> IF i = n + 1 THEN after ELSE h[i]]
  OBVIOUS
<1>5. g[n + 1] = after /\ \A i \in 0..n : g[i] = h[i]
  BY ONLY <1>4, n \in Nat
<1>6. /\ \A i \in 0..n : h[i] \in Orders /\ Distinct(h[i])
      /\ SameOrders(h[0], replica) /\ h[n] = orders
      /\ \A i \in 1..n : Does(h[i - 1], commands[i], h[i])
  BY ONLY <1>2, Leads(h, commands, replica, orders) DEF Leads
<1>7. ASSUME NEW i \in 0..n + 1 PROVE g[i] \in Orders /\ Distinct(g[i])
  <2>1. i = n + 1 \/ i \in 0..n
    BY ONLY n \in Nat, i \in 0..n + 1
  <2> QED
    BY ONLY <1>5, <1>6, <2>1, after \in Orders, Distinct(after)
<1>8. SameOrders(g[0], replica)
  <2>1. 0 \in 0..n
    BY ONLY n \in Nat
  <2> QED
    BY ONLY <1>5, <1>6, <2>1
<1>9. ASSUME NEW i \in 1..n + 1 PROVE Does(g[i - 1], t[i], g[i])
  <2>1. PICK j : j = i - 1
    OBVIOUS
  <2>2. j \in 0..n /\ ((i = n + 1 /\ j = n) \/ (i \in 1..n /\ i \in 0..n))
    BY ONLY <2>1, n \in Nat, i \in 1..n + 1
  <2>3. CASE i = n + 1 /\ j = n
    BY ONLY <1>3, <1>5, <1>6, <2>1, <2>2, <2>3,
            Does(orders, command, after)
  <2>4. CASE i \in 1..n /\ i \in 0..n
    BY ONLY <1>3, <1>5, <1>6, <2>1, <2>2, <2>4
  <2> QED
    BY ONLY <2>2, <2>3, <2>4
<1>10. Leads(g, t, replica, after)
  BY ONLY <1>3, <1>5, <1>7, <1>8, <1>9 DEF Leads
<1> QED
  BY ONLY <1>1, <1>10

(* A command that is replayed makes it one step shorter.                   *)
LEMMA LeadsOn ==
  ASSUME NEW h, NEW commands \in Seq(OrderCommand), commands # <<>>, NEW replica \in Orders, NEW orders,
         Leads(h, commands, replica, orders), NEW after \in Orders,
         Does(replica, Head(commands), after)
  PROVE  \E g : Leads(g, Tail(commands), after, orders)
<1>1. PICK n, t, first :
        n = Len(commands) /\ t = Tail(commands) /\ first = Head(commands)
  OBVIOUS
<1>2. n \in Nat /\ n > 0 /\ first = commands[1]
  BY ONLY <1>1, commands \in Seq(OrderCommand), commands # <<>>, EmptySeq
<1>3. Len(t) = n - 1 /\ \A i \in 1..n - 1 : t[i] = commands[i + 1]
  BY ONLY <1>1, <1>2, commands \in Seq(OrderCommand), commands # <<>>
<1>4. /\ \A i \in 0..n : h[i] \in Orders /\ Distinct(h[i])
      /\ SameOrders(h[0], replica) /\ h[n] = orders
      /\ \A i \in 1..n : Does(h[i - 1], commands[i], h[i])
  BY ONLY <1>1, <1>2, Leads(h, commands, replica, orders) DEF Leads
<1>5. SameOrders(h[1], after)
  <2>1. 0 \in 0..n /\ 1 \in 0..n /\ 1 \in 1..n /\ 1 - 1 = 0
    BY ONLY <1>1, <1>2
  <2>2. Does(h[0], first, h[1])
    BY ONLY <1>1, <1>2, <1>4, <2>1
  <2>3. h[0] \in Orders /\ Distinct(h[0]) /\ h[1] \in Orders
    BY ONLY <1>4, <2>1
  <2>4. Does(replica, first, after)
    BY ONLY <1>1, <1>2, Does(replica, Head(commands), after)
  <2> QED
    BY ONLY <1>4, <2>2, <2>3, <2>4, replica \in Orders, after \in Orders, DoesAlike
<1>6. PICK g : g = [i \in 0..n - 1 |-> h[i + 1]]
  OBVIOUS
<1>7. \A i \in 0..n - 1 : g[i] = h[i + 1] /\ i + 1 \in 0..n
  BY ONLY <1>1, <1>2, <1>6
<1>8. \A i \in 0..n - 1 : g[i] \in Orders /\ Distinct(g[i])
  BY ONLY <1>4, <1>7
<1>9. SameOrders(g[0], after) /\ g[n - 1] = orders
  <2>1. 0 \in 0..n - 1 /\ n - 1 \in 0..n - 1 /\ 0 + 1 = 1 /\ (n - 1) + 1 = n
    BY ONLY <1>1, <1>2
  <2> QED
    BY ONLY <1>4, <1>5, <1>7, <2>1
<1>10. ASSUME NEW i \in 1..n - 1 PROVE Does(g[i - 1], t[i], g[i])
  <2>1. PICK k : k = i + 1
    OBVIOUS
  <2>2. i \in 0..n - 1 /\ i - 1 \in 0..n - 1 /\ k \in 1..n /\ k - 1 = i /\ (i - 1) + 1 = i
    BY ONLY <1>1, <1>2, <2>1, i \in 1..n - 1
  <2>3. Does(h[i], commands[k], h[k])
    BY ONLY <1>4, <2>2
  <2>4. g[i - 1] = h[i] /\ g[i] = h[k] /\ t[i] = commands[k]
    BY ONLY <1>3, <1>7, <2>1, <2>2, i \in 1..n - 1
  <2> QED
    BY ONLY <2>3, <2>4
<1>11. Leads(g, t, after, orders)
  BY ONLY <1>3, <1>8, <1>9, <1>10 DEF Leads
<1> QED
  BY ONLY <1>1, <1>11

(* The ids that rest, from those of the replica on.  Once the original has *)
(* filled an order the last of them may be more than rest there.           *)

Covers(g, commands, ids, resting) ==
  /\ g[0] = ids /\ resting \subseteq g[Len(commands)]
  /\ \A i \in 1..Len(commands) : g[i] = After(g[i - 1], commands[i])

LEMMA CoversFurther ==
  ASSUME NEW g, NEW commands \in Seq(OrderCommand), NEW ids, NEW resting,
         Covers(g, commands, ids, resting), NEW command \in OrderCommand
  PROVE  \E f : Covers(f, Append(commands, command), ids, After(resting, command))
<1>1. PICK t : t = Append(commands, command)
  OBVIOUS
<1>2. PICK n \in Nat : n = Len(commands)
  OBVIOUS
<1>3. Len(t) = n + 1 /\ t[n + 1] = command /\ \A i \in 1..n : t[i] = commands[i]
  BY ONLY <1>1, <1>2, commands \in Seq(OrderCommand), command \in OrderCommand, AppendProperties
<1>4. PICK last : last = After(g[n], command)
  OBVIOUS
<1>5. PICK f : f = [i \in 0..n + 1 |-> IF i = n + 1 THEN last ELSE g[i]]
  OBVIOUS
<1>6. f[n + 1] = last /\ \A i \in 0..n : f[i] = g[i]
  BY ONLY <1>5, n \in Nat
<1>7. /\ g[0] = ids /\ resting \subseteq g[n]
      /\ \A i \in 1..n : g[i] = After(g[i - 1], commands[i])
  BY ONLY <1>2, Covers(g, commands, ids, resting) DEF Covers
<1>8. After(resting, command) \subseteq last
  BY ONLY <1>4, <1>7 DEF After
<1>9. ASSUME NEW i \in 1..n + 1 PROVE f[i] = After(f[i - 1], t[i])
  <2>1. PICK j : j = i - 1
    OBVIOUS
  <2>2. j \in 0..n /\ ((i = n + 1 /\ j = n) \/ (i \in 1..n /\ i \in 0..n))
    BY ONLY <2>1, n \in Nat, i \in 1..n + 1
  <2>3. CASE i = n + 1 /\ j = n
    BY ONLY <1>3, <1>4, <1>6, <2>1, <2>2, <2>3
  <2>4. CASE i \in 1..n /\ i \in 0..n
    BY ONLY <1>3, <1>6, <1>7, <2>1, <2>2, <2>4
  <2> QED
    BY ONLY <2>2, <2>3, <2>4
<1>10. f[0] = ids
  <2>1. 0 \in 0..n
    BY ONLY n \in Nat
  <2> QED
    BY ONLY <1>6, <1>7, <2>1
<1>11. Covers(f, t, ids, After(resting, command))
  BY ONLY <1>3, <1>6, <1>8, <1>9, <1>10 DEF Covers
<1> QED
  BY ONLY <1>1, <1>11

LEMMA CoversOn ==
  ASSUME NEW g, NEW commands \in Seq(OrderCommand), commands # <<>>, NEW ids, NEW resting,
         Covers(g, commands, ids, resting)
  PROVE  \E f : Covers(f, Tail(commands), After(ids, Head(commands)), resting)
<1>1. PICK n, t, first :
        n = Len(commands) /\ t = Tail(commands) /\ first = Head(commands)
  OBVIOUS
<1>2. n \in Nat /\ n > 0 /\ first = commands[1]
  BY ONLY <1>1, commands \in Seq(OrderCommand), commands # <<>>, EmptySeq
<1>3. Len(t) = n - 1 /\ \A i \in 1..n - 1 : t[i] = commands[i + 1]
  BY ONLY <1>1, <1>2, commands \in Seq(OrderCommand), commands # <<>>
<1>4. /\ g[0] = ids /\ resting \subseteq g[n]
      /\ \A i \in 1..n : g[i] = After(g[i - 1], commands[i])
  BY ONLY <1>1, Covers(g, commands, ids, resting) DEF Covers
<1>5. PICK f : f = [i \in 0..n - 1 |-> g[i + 1]]
  OBVIOUS
<1>6. \A i \in 0..n - 1 : f[i] = g[i + 1]
  BY ONLY <1>5
<1>7. f[0] = After(ids, first) /\ resting \subseteq f[n - 1]
  <2>1. /\ 1 \in 1..n /\ 1 - 1 = 0 /\ 0 \in 0..n - 1 /\ n - 1 \in 0..n - 1
        /\ 0 + 1 = 1 /\ (n - 1) + 1 = n
    BY ONLY <1>2
  <2>2. g[1] = After(ids, first)
    BY ONLY <1>2, <1>4, <2>1
  <2> QED
    BY ONLY <1>4, <1>6, <2>1, <2>2
<1>8. ASSUME NEW i \in 1..n - 1 PROVE f[i] = After(f[i - 1], t[i])
  <2>1. PICK k : k = i + 1
    OBVIOUS
  <2>2. i \in 0..n - 1 /\ i - 1 \in 0..n - 1 /\ k \in 1..n /\ k - 1 = i /\ (i - 1) + 1 = i
    BY ONLY <1>2, <2>1, i \in 1..n - 1
  <2>3. g[k] = After(g[i], commands[k])
    BY ONLY <1>4, <2>2
  <2>4. f[i - 1] = g[i] /\ f[i] = g[k] /\ t[i] = commands[k]
    BY ONLY <1>3, <1>6, <2>1, <2>2, i \in 1..n - 1
  <2> QED
    BY ONLY <2>3, <2>4
<1>9. Covers(f, t, After(ids, first), resting)
  BY ONLY <1>3, <1>7, <1>8 DEF Covers
<1> QED
  BY ONLY <1>1, <1>9
-----------------------------------------------------------------------------
(* The inductive invariant: each level is one by itself, and the stored    *)
(* commands lead from the replica to the original, in orders until the     *)
(* first complete fill and in ids at all times.                            *)
ReplayInv ==
  /\ IInv
  /\ original \in Orders /\ Distinct(original) /\ clock \in Times
  /\ log \in Seq(OrderCommand) /\ filled \in BOOLEAN
  /\ ~ filled => \E h : Leads(h, log, Fifo, original)
  /\ \E g : Covers(g, log, Ids(Fifo), Ids(original))

LEMMA ReplayStarts == ReplayInit => ReplayInv
<1>1. SUFFICES ASSUME ReplayInit PROVE ReplayInv
  OBVIOUS
<1>2. IInv
  BY <1>1, InitInv DEF ReplayInit
<1>3. Fifo = <<>>
  BY <1>1, <1>2, HeadOfFifo DEF ReplayInit, Init
<1>4. original = <<>> /\ clock = 0 /\ log = <<>> /\ filled = FALSE
  BY <1>1 DEF ReplayInit, Original!Init
<1>5. /\ original \in Orders /\ Distinct(original) /\ clock \in Times
      /\ log \in Seq(OrderCommand) /\ filled \in BOOLEAN
  <2>1. original \in Orders /\ Distinct(original) /\ clock \in Times /\ log \in Seq(OrderCommand)
    BY ONLY <1>4, MaxTimeAssumption DEF Orders, Distinct, Times
  <2> QED
    BY <1>4, <2>1
<1>6. PICK h : h = [i \in 0..0 |-> original]
  OBVIOUS
<1>7. Len(log) = 0 /\ h[0] = original /\ \A i \in 0..0 : h[i] = original
  BY ONLY <1>4, <1>6
<1>8. SameOrders(original, Fifo)
  BY ONLY <1>3, <1>4, <1>5, SameAsItself
<1>9. Leads(h, log, Fifo, original)
  BY ONLY <1>5, <1>7, <1>8 DEF Leads
<1>10. PICK g : g = [i \in 0..0 |-> Ids(Fifo)]
  OBVIOUS
<1>11. Covers(g, log, Ids(Fifo), Ids(original))
  <2>1. g[0] = Ids(Fifo) /\ Ids(original) = Ids(Fifo)
    BY ONLY <1>3, <1>4, <1>10
  <2> QED
    BY ONLY <1>7, <2>1 DEF Covers
<1> QED
  BY <1>2, <1>5, <1>9, <1>11 DEF ReplayInv

(* A stored command lengthens both ways.                                   *)
LEMMA TakeInv ==
  ASSUME ReplayInv, NEW command \in OrderCommand, Take(command)
  PROVE  ReplayInv'
<1>1. IInv' /\ Fifo' = Fifo
  BY NextInv, SameFifo DEF ReplayInv, Take, vars
<1>2. original \in Orders /\ Distinct(original) /\ clock \in Times
  BY DEF ReplayInv
<1>3. /\ original' \in Orders /\ Distinct(original') /\ clock' = clock
      /\ Does(original, command, original')
  BY ONLY <1>2, command \in OrderCommand, Take(command), OriginalDoes DEF Take
<1>4. /\ log \in Seq(OrderCommand) /\ log' = Append(log, command)
      /\ filled \in BOOLEAN /\ filled' = filled
  BY DEF ReplayInv, Take
<1>5. log' \in Seq(OrderCommand)
  BY ONLY <1>4, command \in OrderCommand, AppendProperties
<1>6. ASSUME ~ filled' PROVE \E h : Leads(h, log', Fifo', original')
  <2>1. PICK h : Leads(h, log, Fifo, original)
    BY <1>4, <1>6 DEF ReplayInv
  <2> QED
    BY ONLY <1>1, <1>3, <1>4, <2>1, command \in OrderCommand, LeadsFurther
<1>7. \E g : Covers(g, log', Ids(Fifo'), Ids(original'))
  <2>1. PICK g : Covers(g, log, Ids(Fifo), Ids(original))
    BY DEF ReplayInv
  <2>2. Ids(original') = After(Ids(original), command)
    BY ONLY <1>2, <1>3, DoesIds
  <2> QED
    BY ONLY <1>1, <1>4, <2>1, <2>2, command \in OrderCommand, CoversFurther
<1> QED
  BY <1>1, <1>2, <1>3, <1>4, <1>5, <1>6, <1>7 DEF ReplayInv, Ids

(* A complete fill ends the first, and leaves fewer ids to cover.          *)
LEMMA FillInv ==
  ASSUME ReplayInv, FillCompletely
  PROVE  ReplayInv'
<1>1. IInv' /\ Fifo' = Fifo
  BY NextInv, SameFifo DEF ReplayInv, FillCompletely, vars
<1>2. original \in Orders /\ Distinct(original) /\ clock \in Times
  BY DEF ReplayInv
<1>3. /\ original' \in Orders /\ Distinct(original') /\ clock' = clock
      /\ Ids(original') \subseteq Ids(original)
      /\ original = <<>> => original' = original
  BY ONLY <1>2, FillCompletely, OriginalFills DEF FillCompletely
<1>4. /\ log \in Seq(OrderCommand) /\ log' = log
      /\ filled \in BOOLEAN /\ filled' = (filled \/ original # <<>>)
  BY DEF ReplayInv, FillCompletely
<1>5. ASSUME ~ filled' PROVE \E h : Leads(h, log', Fifo', original')
  <2>1. ~ filled /\ original' = original
    BY ONLY <1>3, <1>4, <1>5
  <2>2. \E h : Leads(h, log, Fifo, original)
    BY <2>1 DEF ReplayInv
  <2> QED
    BY ONLY <1>1, <1>4, <2>1, <2>2
<1>6. \E g : Covers(g, log', Ids(Fifo'), Ids(original'))
  <2>1. PICK g : Covers(g, log, Ids(Fifo), Ids(original))
    BY DEF ReplayInv
  <2>2. Covers(g, log, Ids(Fifo), Ids(original'))
    BY ONLY <1>3, <2>1 DEF Covers
  <2> QED
    BY ONLY <1>1, <1>4, <2>2
<1>7. filled' \in BOOLEAN /\ log' \in Seq(OrderCommand)
  BY ONLY <1>4
<1> QED
  BY <1>1, <1>2, <1>3, <1>5, <1>6, <1>7 DEF ReplayInv, Ids

(* A replayed command shortens both.                                       *)
LEMMA ReplayStep ==
  ASSUME ReplayInv, Replay
  PROVE  ReplayInv'
<1>1. /\ log \in Seq(OrderCommand) /\ log # <<>> /\ log' = Tail(log)
      /\ filled \in BOOLEAN /\ UNCHANGED <<original, clock, filled>>
  BY DEF ReplayInv, Replay
<1>2. PICK command \in OrderCommand : command = Head(log) /\ Apply(command)
  <2>1. Head(log) \in OrderCommand
    BY ONLY <1>1
  <2> QED
    BY <2>1 DEF Replay
<1>3. Next /\ Fifo' \in Orders /\ Distinct(Fifo') /\ Does(Fifo, command, Fifo')
  BY <1>2, ReplicaDoes DEF ReplayInv
<1>4. IInv' /\ Fifo \in Orders /\ Distinct(Fifo)
  BY <1>3, NextInv, FifoIsOrders DEF ReplayInv
<1>5. ASSUME ~ filled' PROVE \E h : Leads(h, log', Fifo', original')
  <2>1. PICK h : Leads(h, log, Fifo, original)
    BY <1>1, <1>5 DEF ReplayInv
  <2> QED
    BY ONLY <1>1, <1>2, <1>3, <1>4, <2>1, LeadsOn
<1>6. \E g : Covers(g, log', Ids(Fifo'), Ids(original'))
  <2>1. PICK g : Covers(g, log, Ids(Fifo), Ids(original))
    BY DEF ReplayInv
  <2>2. Ids(Fifo') = After(Ids(Fifo), command)
    BY ONLY <1>3, <1>4, DoesIds
  <2>3. Ids(original') = Ids(original)
    BY ONLY <1>1
  <2> QED
    BY ONLY <1>1, <1>2, <2>1, <2>2, <2>3, CoversOn
<1>7. log' \in Seq(OrderCommand)
  BY ONLY <1>1
<1> QED
  BY <1>1, <1>3, <1>4, <1>5, <1>6, <1>7 DEF ReplayInv, Ids

(* Time, and the steps of others, change neither queue.                    *)
LEMMA IdleInv ==
  ASSUME ReplayInv, UNCHANGED <<original, level, log, filled>>, [Next]_vars, clock' \in Times
  PROVE  ReplayInv'
<1>1. IInv' /\ Fifo' = Fifo
  BY NextInv, SameFifo DEF ReplayInv
<1> QED
  BY <1>1 DEF ReplayInv, Ids

LEMMA ReplayInduction == ReplayInv /\ [ReplayNext]_replayVars => ReplayInv'
<1>1. SUFFICES ASSUME ReplayInv, [ReplayNext]_replayVars PROVE ReplayInv'
  OBVIOUS
<1>2. ASSUME NEW command \in OrderCommand, Take(command) PROVE ReplayInv'
  BY <1>1, <1>2, TakeInv
<1>3. CASE FillCompletely
  BY <1>1, <1>3, FillInv
<1>4. CASE Replay
  BY <1>1, <1>4, ReplayStep
<1>5. CASE TimePasses
  <2>1. UNCHANGED <<original, level, log, filled>> /\ [Next]_vars
    BY <1>5 DEF TimePasses, Tick, Original!Tick, Next, vars
  <2>2. clock \in Times /\ (clock' = clock \/ (clock < MaxTime /\ clock' = clock + 1))
    BY <1>1, <1>5 DEF TimePasses, Original!Tick, ReplayInv
  <2>3. clock' \in Times
    BY ONLY <2>2, MaxTimeAssumption DEF Times
  <2> QED
    BY <1>1, <2>1, <2>3, IdleInv
<1>6. CASE UNCHANGED replayVars
  <2>1. UNCHANGED <<original, level, log, filled>> /\ [Next]_vars /\ clock' \in Times
    BY <1>1, <1>6 DEF replayVars, vars, ReplayInv
  <2> QED
    BY <1>1, <2>1, IdleInv
<1> QED
  BY <1>1, <1>2, <1>3, <1>4, <1>5, <1>6 DEF ReplayNext

LEMMA ReplayInvariance == ReplaySpec => []ReplayInv
BY ReplayStarts, ReplayInduction, PTL DEF ReplaySpec

(* Until the original fills an order completely, a replica with nothing    *)
(* left to replay holds the orders of the level that took the commands,    *)
(* whatever was stored and however late it is replayed.                    *)
THEOREM ReplicasAgree == ReplaySpec => []ConsistentUntilFilled
<1>1. ReplayInv => ConsistentUntilFilled
  <2>1. SUFFICES ASSUME ReplayInv, log = <<>>, ~ filled PROVE SameOrders(Fifo, original)
    BY DEF ConsistentUntilFilled
  <2>2. PICK h : Leads(h, log, Fifo, original)
    BY <2>1 DEF ReplayInv
  <2>3. SameOrders(original, Fifo)
    BY ONLY <2>1, <2>2, Len(<<>>) = 0 DEF Leads
  <2>4. Fifo \in Orders /\ original \in Orders
    BY <2>1, FifoIsOrders DEF ReplayInv
  <2>5. DOMAIN Fifo = 1..Len(Fifo) /\ DOMAIN original = 1..Len(original)
    BY ONLY <2>4, OrdersFacts
  <2> QED
    BY ONLY <2>3, <2>5 DEF SameOrders
<1> QED
  BY <1>1, ReplayInvariance, PTL

(* Complete fills or not, a replica with nothing left to replay lacks no   *)
(* order that rests in the original.                                       *)
THEOREM NothingMissing == ReplaySpec => []NoneMissing
<1>1. ReplayInv => NoneMissing
  <2>1. SUFFICES ASSUME ReplayInv, log = <<>> PROVE Ids(original) \subseteq Ids(Fifo)
    BY DEF NoneMissing
  <2>2. PICK g : Covers(g, log, Ids(Fifo), Ids(original))
    BY <2>1 DEF ReplayInv
  <2> QED
    BY ONLY <2>1, <2>2, Len(<<>>) = 0 DEF Covers
<1> QED
  BY <1>1, ReplayInvariance, PTL
=============================================================================
