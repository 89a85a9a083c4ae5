-------------------------- MODULE BenchmarksProofs --------------------------
(***************************************************************************)
(* What the benchmarks measure, for loops of any length above 501.         *)
(***************************************************************************)
EXTENDS Benchmarks, SequenceTheorems, TLAPS

BenchOrder == [id : Int, qty : {Quantity}, timestamp_ns : {0}]

(* The orders 0 to n - 1 rest, in this sequence.                           *)
Filled(q, n) == Len(q) = n /\ \A i \in 1..n : q[i].id = i - 1

(* Order 1 rests alone.                                                    *)
Alone(q) == Len(q) = 1 /\ q[1].id = 1

(* What rests after c calls of loop b.                                     *)
Rests(b, q, c) ==
  /\ b = "insert 1000 orders" => Filled(q, c)
  /\ b = "insert single" => IF c = 0 THEN q = <<>> ELSE c = 1 /\ Alone(q)
  /\ b = "cancel 1000 orders" => IF c \in 1..N + 1 THEN Alone(q) ELSE q = <<>>
  /\ b = "cancel 1 order from 1000" =>
       IF c <= N THEN Filled(q, c) ELSE c = N + 1 /\ Len(q) = N - 1

LoopInv ==
  /\ bench \in Benches /\ pc \in Nat
  /\ queue \in Seq(BenchOrder) /\ now = 0
  /\ Rests(bench, queue, pc)

(* The lengths of the loops.                                               *)
LEMMA LoopLengths ==
  /\ SetupCalls["insert 1000 orders"] = 0 /\ Calls("insert 1000 orders") = N
  /\ SetupCalls["insert single"] = 0 /\ Calls("insert single") = 1
  /\ SetupCalls["cancel 1000 orders"] = N /\ Calls("cancel 1000 orders") = N + N
  /\ SetupCalls["cancel 1 order from 1000"] = N /\ Calls("cancel 1 order from 1000") = N + 1
<1>1. /\ "insert 1000 orders" \in Benches /\ "insert single" \in Benches
      /\ "cancel 1000 orders" \in Benches /\ "cancel 1 order from 1000" \in Benches
  BY DEF Benches
<1>2. /\ SetupCalls["insert 1000 orders"] = 0 /\ SetupCalls["insert single"] = 0
      /\ SetupCalls["cancel 1000 orders"] = N /\ SetupCalls["cancel 1 order from 1000"] = N
  BY <1>1 DEF SetupCalls
<1>3. /\ MeasuredCalls["insert 1000 orders"] = N /\ MeasuredCalls["insert single"] = 1
      /\ MeasuredCalls["cancel 1000 orders"] = N /\ MeasuredCalls["cancel 1 order from 1000"] = 1
  BY <1>1 DEF MeasuredCalls
<1>4. /\ Calls("insert 1000 orders") = 0 + N /\ Calls("insert single") = 0 + 1
      /\ Calls("cancel 1000 orders") = N + N
      /\ Calls("cancel 1 order from 1000") = N + 1
  BY ONLY <1>2, <1>3 DEF Calls
<1>5. 0 + N = N /\ 0 + 1 = 1
  BY NAssumption
<1> QED
  BY ONLY <1>2, <1>4, <1>5

(* An id that does not rest yet is put behind the others.                  *)
LEMMA FreshInsert ==
  ASSUME queue \in Seq(BenchOrder), now = 0, NEW id \in Int, At(id) = {},
         Insert(id, Quantity)
  PROVE  /\ queue' \in Seq(BenchOrder) /\ now' = 0 /\ Len(queue') = Len(queue) + 1
         /\ queue'[Len(queue) + 1].id = id
         /\ \A i \in 1..Len(queue) : queue'[i] = queue[i]
<1> DEFINE order == [id |-> id, qty |-> Quantity, timestamp_ns |-> now]
<1>1. order \in BenchOrder /\ order.id = id
  BY DEF BenchOrder
<1>2. queue' = Append(queue, order) /\ now' = now
  BY DEF Insert
<1> HIDE DEF order
<1> QED
  BY <1>1, <1>2, AppendProperties

(* An id that rests already is refused.                                    *)
LEMMA DuplicateInsert ==
  ASSUME now = 0, NEW id, At(id) # {}, Insert(id, Quantity)
  PROVE  queue' = queue /\ now' = 0
BY DEF Insert, Refuse

(* One id more than 0 to n - 1.                                            *)
LEMMA FillMore ==
  ASSUME queue \in Seq(BenchOrder), now = 0, NEW n \in Nat, Filled(queue, n),
         Insert(n, Quantity)
  PROVE  queue' \in Seq(BenchOrder) /\ now' = 0 /\ Filled(queue', n + 1)
<1>1. DOMAIN queue = 1..n
  BY DEF Filled
<1>2. At(n) = {}
  BY <1>1 DEF At, Filled
<1>3. /\ queue' \in Seq(BenchOrder) /\ now' = 0 /\ Len(queue') = n + 1
      /\ queue'[n + 1].id = n /\ \A i \in 1..n : queue'[i] = queue[i]
  BY <1>2, FreshInsert DEF Filled
<1>4. ASSUME NEW i \in 1..n + 1 PROVE queue'[i].id = i - 1
  <2>1. CASE i = n + 1
    BY <1>3, <2>1
  <2>2. CASE i \in 1..n
    BY <1>3, <2>2 DEF Filled
  <2> QED
    BY <2>1, <2>2
<1> QED
  BY <1>3, <1>4 DEF Filled

(* An empty level and one insert of id 1.                                  *)
LEMMA FirstInsert ==
  ASSUME queue = <<>>, now = 0, Insert(1, Quantity)
  PROVE  queue' \in Seq(BenchOrder) /\ now' = 0 /\ Alone(queue')
<1>1. At(1) = {} /\ queue \in Seq(BenchOrder) /\ Len(queue) = 0
  BY DEF At
<1> QED
  BY <1>1, FreshInsert DEF Alone

(* Where id 1 rests when it rests alone.                                   *)
LEMMA AtAlone ==
  ASSUME queue \in Seq(BenchOrder), Alone(queue), NEW id
  PROVE  At(id) = IF id = 1 THEN {1} ELSE {}
<1>1. DOMAIN queue = {1}
  BY DEF Alone
<1> QED
  BY <1>1 DEF At, Alone

(* A cancel takes the order out that has the id, or nothing.               *)
LEMMA RemoveOne ==
  ASSUME queue \in Seq(BenchOrder), now = 0, NEW id, Remove(id)
  PROVE  /\ now' = 0 /\ queue' \in Seq(BenchOrder)
         /\ At(id) = {} => queue' = queue
         /\ At(id) # {} => Len(queue') = Len(queue) - 1
<1>1. now' = 0
  BY DEF Remove
<1>2. CASE At(id) = {}
  BY <1>1, <1>2 DEF Remove, Refuse
<1>3. CASE At(id) # {}
  <2>1. PICK i \in At(id) :
          queue' = SubSeq(queue, 1, i - 1) \o SubSeq(queue, i + 1, Len(queue))
    BY <1>3 DEF Remove
  <2>2. PICK len \in Nat : len = Len(queue) /\ i \in 1..len
    BY DEF At
  <2>3. /\ SubSeq(queue, 1, i - 1) \in Seq(BenchOrder)
        /\ Len(SubSeq(queue, 1, i - 1)) = i - 1
    BY <2>2
  <2>4. /\ SubSeq(queue, i + 1, len) \in Seq(BenchOrder)
        /\ Len(SubSeq(queue, i + 1, len)) = len - i
    BY <2>2
  <2>5. PICK before, behind \in Seq(BenchOrder) :
          /\ queue' = before \o behind
          /\ Len(before) = i - 1 /\ Len(behind) = len - i
    BY ONLY <2>1, <2>2, <2>3, <2>4
  <2>6. queue' \in Seq(BenchOrder) /\ Len(queue') = Len(before) + Len(behind)
    BY ONLY <2>5, ConcatProperties
  <2>7. Len(queue') = len - 1
    BY ONLY <2>2, <2>5, <2>6
  <2> QED
    BY ONLY <1>1, <1>3, <2>2, <2>6, <2>7
<1> QED
  BY <1>2, <1>3

(* Before anything is called.                                              *)
LEMMA LoopStart == BenchInit => LoopInv
<1>1. ASSUME BenchInit PROVE LoopInv
  <2>1. /\ bench \in Benches /\ pc = 0 /\ queue = <<>> /\ now = 0
    BY <1>1 DEF BenchInit, Init
  <2>2. queue \in Seq(BenchOrder) /\ Len(queue) = 0
    BY <2>1
  <2>3. Filled(queue, 0)
    BY <2>2 DEF Filled
  <2>4. pc \in Nat /\ 0 \notin 1..N + 1 /\ 0 <= N
    BY ONLY <2>1, NAssumption
  <2>5. Rests(bench, queue, pc)
    BY ONLY <2>1, <2>3, <2>4 DEF Rests
  <2> QED
    BY ONLY <2>1, <2>2, <2>4, <2>5 DEF LoopInv
<1> QED
  BY <1>1

(* A call of a loop is one of the setup or one that is measured.           *)
LEMMA LoopCall ==
  ASSUME LoopInv, BenchNext, NEW setup \in Nat, NEW calls,
         SetupCalls[bench] = setup, Calls(bench) = calls
  PROVE  \/ pc < setup /\ \E id : id = SetupId(bench, pc) /\ Insert(id, Quantity)
         \/ /\ setup <= pc /\ pc < calls
            /\ \E i \in Nat : i = pc - setup /\
                 \/ bench = "insert 1000 orders" /\ Insert(i, Quantity)
                 \/ bench = "insert single" /\ Insert(1, Quantity)
                 \/ bench = "cancel 1000 orders" /\ Remove(i)
                 \/ /\ bench = "cancel 1 order from 1000"
                    /\ \E id : id = Middle /\ Remove(id)
<1>1. pc \in Nat
  BY DEF LoopInv
<1>2. CASE SetupStep
  BY ONLY <1>1, <1>2, SetupCalls[bench] = setup DEF SetupStep
<1>3. CASE MeasuredStep
  <2>1. setup <= pc /\ pc < calls
    BY <1>3 DEF MeasuredStep
  <2>2. pc - setup \in Nat
    BY ONLY <1>1, <2>1, setup \in Nat
  <2>3. \/ bench = "insert 1000 orders" /\ Insert(pc - setup, Quantity)
        \/ bench = "insert single" /\ Insert(1, Quantity)
        \/ bench = "cancel 1000 orders" /\ Remove(pc - setup)
        \/ bench = "cancel 1 order from 1000" /\ Remove(Middle)
    BY ONLY <1>3, SetupCalls[bench] = setup DEF MeasuredStep
  <2> QED
    BY ONLY <2>1, <2>2, <2>3
<1> QED
  BY <1>2, <1>3 DEF BenchNext

(* What a call leaves to show: that the loop's orders rest after it.       *)
LEMMA LoopGoes ==
  ASSUME LoopInv, BenchNext,
         queue' \in Seq(BenchOrder), now' = 0, Rests(bench, queue', pc + 1)
  PROVE  LoopInv'
<1>1. bench \in Benches /\ pc \in Nat
  BY DEF LoopInv
<1>2. bench' = bench /\ pc' = pc + 1
  BY DEF BenchNext
<1>3. Rests(bench, queue', pc + 1) = Rests(bench', queue', pc')
  BY ONLY <1>2
<1>4. pc' \in Nat /\ bench' \in Benches
  BY <1>1, <1>2
<1> QED
  BY <1>3, <1>4 DEF LoopInv

(* A call of the loop "insert 1000 orders".                                *)
LEMMA InsertManyStep ==
  ASSUME LoopInv, BenchNext, bench = "insert 1000 orders"
  PROVE  LoopInv'
<1>1. SetupCalls[bench] = 0 /\ 0 \in Nat /\ Calls(bench) = N
  BY LoopLengths
<1>2. pc \in Nat /\ queue \in Seq(BenchOrder) /\ now = 0 /\ Filled(queue, pc)
  BY DEF LoopInv, Rests
<1>3. \/ pc < 0
      \/ \E i \in Nat : i = pc - 0 /\ Insert(i, Quantity)
  BY ONLY LoopInv, BenchNext, bench = "insert 1000 orders", <1>1, LoopCall
<1>4. PICK i \in Nat : i = pc /\ Insert(i, Quantity)
  BY ONLY <1>2, <1>3
<1>5. queue' \in Seq(BenchOrder) /\ now' = 0 /\ Filled(queue', i + 1)
  BY ONLY <1>2, <1>4, FillMore
<1>6. Rests(bench, queue', pc + 1)
  BY <1>4, <1>5 DEF Rests
<1> QED
  BY <1>5, <1>6, LoopGoes

(* The one call of "insert single".                                        *)
LEMMA InsertSingleStep ==
  ASSUME LoopInv, BenchNext, bench = "insert single"
  PROVE  LoopInv'
<1>1. SetupCalls[bench] = 0 /\ 0 \in Nat /\ Calls(bench) = 1
  BY LoopLengths
<1>2. pc \in Nat /\ now = 0 /\ (pc = 0 => queue = <<>>)
  BY DEF LoopInv, Rests
<1>3. pc < 0 \/ (pc < 1 /\ Insert(1, Quantity))
  BY ONLY LoopInv, BenchNext, bench = "insert single", <1>1, LoopCall
<1>4. queue = <<>> /\ pc + 1 = 1 /\ Insert(1, Quantity)
  BY ONLY <1>2, <1>3
<1>5. queue' \in Seq(BenchOrder) /\ now' = 0 /\ Alone(queue')
  BY ONLY <1>2, <1>3, <1>4, FirstInsert
<1>6. ASSUME NEW q, Alone(q) PROVE Rests("insert single", q, 1)
  <2>1. IF 1 = 0 THEN q = <<>> ELSE 1 = 1 /\ Alone(q)
    BY ONLY <1>6
  <2> QED
    BY ONLY <2>1 DEF Rests
<1>7. Rests(bench, queue', pc + 1)
  BY ONLY <1>4, <1>5, <1>6, bench = "insert single"
<1> QED
  BY <1>5, <1>7, LoopGoes

(* A setup call of "cancel 1000 orders": all inserts but the first are     *)
(* refused.                                                                *)
LEMMA RepeatedInsert ==
  ASSUME LoopInv, bench = "cancel 1000 orders", pc < N, Insert(1, Quantity)
  PROVE  queue' \in Seq(BenchOrder) /\ now' = 0 /\ Alone(queue')
<1>1. /\ queue \in Seq(BenchOrder) /\ now = 0 /\ pc \in Nat
      /\ IF pc \in 1..N + 1 THEN Alone(queue) ELSE queue = <<>>
  BY DEF LoopInv, Rests
<1>2. CASE pc = 0
  <2>1. queue = <<>>
    BY ONLY <1>1, <1>2, NAssumption
  <2> QED
    BY <1>1, <2>1, FirstInsert
<1>3. CASE pc # 0
  <2>1. Alone(queue)
    BY ONLY <1>1, <1>3, pc < N, NAssumption
  <2>2. At(1) # {}
    BY <1>1, <2>1, AtAlone
  <2>3. queue' = queue /\ now' = 0
    BY <1>1, <2>2, DuplicateInsert
  <2> QED
    BY ONLY <1>1, <2>1, <2>3
<1> QED
  BY <1>2, <1>3

(* A measured call of "cancel 1000 orders": only the second cancel finds   *)
(* an order.                                                               *)
LEMMA RepeatedCancel ==
  ASSUME LoopInv, bench = "cancel 1000 orders", N <= pc,
         NEW i \in Nat, i = pc - N, Remove(i)
  PROVE  /\ queue' \in Seq(BenchOrder) /\ now' = 0
         /\ IF pc + 1 \in 1..N + 1 THEN Alone(queue') ELSE queue' = <<>>
<1>1. /\ queue \in Seq(BenchOrder) /\ now = 0 /\ pc \in Nat
      /\ IF pc \in 1..N + 1 THEN Alone(queue) ELSE queue = <<>>
  BY DEF LoopInv, Rests
<1>2. /\ now' = 0 /\ queue' \in Seq(BenchOrder)
      /\ At(i) = {} => queue' = queue
      /\ At(i) # {} => Len(queue') = Len(queue) - 1
  BY <1>1, RemoveOne
<1>3. CASE i = 1
  <2>1. pc \in 1..N + 1 /\ pc + 1 \notin 1..N + 1
    BY ONLY <1>1, <1>3, i = pc - N, NAssumption
  <2>2. Alone(queue)
    BY <1>1, <2>1
  <2>3. Len(queue) = 1 /\ At(i) # {}
    BY <1>1, <1>3, <2>2, AtAlone DEF Alone
  <2>4. Len(queue') = 1 - 1
    BY ONLY <1>2, <2>3
  <2>5. Len(queue') = 0
    BY ONLY <2>4
  <2>6. queue' = <<>>
    BY ONLY <1>2, <2>5, EmptySeq
  <2> QED
    BY ONLY <1>2, <2>1, <2>6
<1>4. CASE i # 1
  <2>1. pc + 1 \in 1..N + 1 <=> pc \in 1..N + 1
    BY ONLY <1>1, <1>4, N <= pc, i = pc - N, NAssumption
  <2>2. At(i) = {}
    <3>1. CASE Alone(queue)
      BY <1>1, <1>4, <3>1, AtAlone
    <3>2. CASE queue = <<>>
      <4>1. DOMAIN queue = {}
        BY ONLY <3>2
      <4> QED
        BY ONLY <4>1 DEF At
    <3> QED
      BY <1>1, <3>1, <3>2
  <2> QED
    BY ONLY <1>1, <1>2, <2>1, <2>2
<1> QED
  BY <1>3, <1>4

LEMMA CancelManyStep ==
  ASSUME LoopInv, BenchNext, bench = "cancel 1000 orders"
  PROVE  LoopInv'
<1>1. SetupCalls[bench] = N /\ N \in Nat /\ Calls(bench) = N + N /\ pc \in Nat
  BY LoopLengths, NAssumption DEF LoopInv
<1>2. \/ pc < N /\ \E id : id = SetupId(bench, pc) /\ Insert(id, Quantity)
      \/ N <= pc /\ \E i \in Nat : i = pc - N /\ Remove(i)
  BY ONLY LoopInv, BenchNext, bench = "cancel 1000 orders", <1>1, LoopCall
<1>3. CASE pc < N /\ \E id : id = SetupId(bench, pc) /\ Insert(id, Quantity)
  <2>1. Insert(1, Quantity)
    BY <1>3 DEF SetupId
  <2>2. queue' \in Seq(BenchOrder) /\ now' = 0 /\ Alone(queue')
    BY <1>3, <2>1, RepeatedInsert
  <2>3. pc + 1 \in 1..N + 1
    BY ONLY <1>1, <1>3
  <2>4. Rests(bench, queue', pc + 1)
    BY <2>2, <2>3 DEF Rests
  <2> QED
    BY <2>2, <2>4, LoopGoes
<1>4. CASE N <= pc /\ \E i \in Nat : i = pc - N /\ Remove(i)
  <2>1. /\ queue' \in Seq(BenchOrder) /\ now' = 0
        /\ IF pc + 1 \in 1..N + 1 THEN Alone(queue') ELSE queue' = <<>>
    BY <1>4, RepeatedCancel
  <2>2. Rests(bench, queue', pc + 1)
    BY <2>1 DEF Rests
  <2> QED
    BY <2>1, <2>2, LoopGoes
<1> QED
  BY <1>2, <1>3, <1>4

(* Where the order in the middle rests, and that it has neighbours.        *)
LEMMA MiddleOfFilled ==
  ASSUME queue \in Seq(BenchOrder), Filled(queue, N)
  PROVE  Middle + 1 \in At(Middle) /\ 1 < Middle + 1 /\ Middle + 1 < Len(queue)
<1>1. PICK m \in Nat : m = Middle /\ 1 < m + 1 /\ m + 1 < N
  BY NAssumption DEF Middle
<1>2. /\ Len(queue) = N /\ DOMAIN queue = 1..N
      /\ \A i \in 1..N : queue[i].id = i - 1
  BY DEF Filled
<1>3. m + 1 \in 1..N /\ (m + 1) - 1 = m
  BY ONLY <1>1, NAssumption
<1>4. queue[m + 1].id = m
  BY ONLY <1>2, <1>3
<1>5. m + 1 \in At(m)
  BY ONLY <1>2, <1>3, <1>4 DEF At
<1> QED
  BY ONLY <1>1, <1>2, <1>5

(* A call of "cancel 1 order from 1000".                                   *)
LEMMA CancelOneStep ==
  ASSUME LoopInv, BenchNext, bench = "cancel 1 order from 1000"
  PROVE  LoopInv'
<1>1. SetupCalls[bench] = N /\ N \in Nat /\ Calls(bench) = N + 1
  BY LoopLengths, NAssumption
<1>2. /\ pc \in Nat /\ queue \in Seq(BenchOrder) /\ now = 0
      /\ pc <= N => Filled(queue, pc)
  BY DEF LoopInv, Rests
<1>3. \/ pc < N /\ \E id : id = SetupId(bench, pc) /\ Insert(id, Quantity)
      \/ N <= pc /\ pc < N + 1 /\ \E id : id = Middle /\ Remove(id)
  BY ONLY LoopInv, BenchNext, bench = "cancel 1 order from 1000", <1>1, LoopCall
<1>4. CASE pc < N /\ \E id : id = SetupId(bench, pc) /\ Insert(id, Quantity)
  <2>1. PICK id : id = pc /\ Insert(id, Quantity)
    BY <1>4 DEF SetupId
  <2>2. id \in Nat /\ Filled(queue, id) /\ id + 1 <= N
    BY ONLY <1>1, <1>2, <1>4, <2>1
  <2>3. queue' \in Seq(BenchOrder) /\ now' = 0 /\ Filled(queue', id + 1)
    BY ONLY <1>2, <2>1, <2>2, FillMore
  <2>4. Rests(bench, queue', pc + 1)
    BY <2>1, <2>2, <2>3 DEF Rests
  <2> QED
    BY <2>3, <2>4, LoopGoes
<1>5. CASE N <= pc /\ pc < N + 1 /\ \E id : id = Middle /\ Remove(id)
  <2>1. pc = N /\ pc <= N /\ ~ (pc + 1 <= N) /\ pc + 1 = N + 1
    BY ONLY <1>1, <1>2, <1>5
  <2>2. Filled(queue, N) /\ Len(queue) = N
    BY ONLY <1>2, <2>1 DEF Filled
  <2>3. PICK id : id = Middle /\ Remove(id)
    BY <1>5
  <2>4. At(id) # {}
    BY <1>2, <2>2, <2>3, MiddleOfFilled
  <2>5. queue' \in Seq(BenchOrder) /\ now' = 0 /\ Len(queue') = N - 1
    BY <1>2, <2>2, <2>3, <2>4, RemoveOne
  <2>6. Rests(bench, queue', pc + 1)
    BY <2>1, <2>5 DEF Rests
  <2> QED
    BY <2>5, <2>6, LoopGoes
<1> QED
  BY <1>3, <1>4, <1>5

-----------------------------------------------------------------------------
(* The loop invariant holds throughout, and what a stutter leaves alone.   *)
LEMMA LoopHolds == BenchSpec => []LoopInv
<1>1. BenchInit => LoopInv
  BY LoopStart
<1>2. LoopInv /\ [BenchNext]_benchVars => LoopInv'
  <2>1. ASSUME LoopInv, BenchNext PROVE LoopInv'
    <3>1. bench \in Benches
      BY <2>1 DEF LoopInv
    <3> QED
      BY <2>1, <3>1, InsertManyStep, InsertSingleStep, CancelManyStep, CancelOneStep
         DEF Benches
  <2>2. ASSUME LoopInv, UNCHANGED benchVars PROVE LoopInv'
    <3>1. queue' = queue /\ now' = now /\ bench' = bench /\ pc' = pc
      BY <2>2 DEF benchVars, vars
    <3>2. Rests(bench', queue', pc') = Rests(bench, queue, pc)
      BY ONLY <3>1
    <3> QED
      BY <2>2, <3>1, <3>2 DEF LoopInv
  <2> QED
    BY <2>1, <2>2
<1> QED
  BY <1>1, <1>2, PTL DEF BenchSpec

(* "Cancel middle order to avoid head/tail fast paths": the order that the *)
(* measured cancel takes by its literal id, 500, rests between two others, *)
(* for any number of orders above 501 that the loop before it inserts.     *)
THEOREM MiddleIsMeasured == BenchSpec => []MiddleHasNeighbours
<1>1. ASSUME LoopInv PROVE MiddleHasNeighbours
  <2>1. SUFFICES ASSUME bench = "cancel 1 order from 1000", pc = SetupCalls[bench]
                 PROVE  \E k \in At(Middle) : 1 < k /\ k < Len(queue)
    BY DEF MiddleHasNeighbours
  <2>2. pc = N /\ pc <= N
    <3>1. SetupCalls[bench] = N
      BY ONLY <2>1, LoopLengths
    <3>2. pc = N
      BY ONLY <2>1, <3>1
    <3> QED
      BY ONLY <3>2, NAssumption
  <2>3. queue \in Seq(BenchOrder) /\ Filled(queue, N)
    BY <1>1, <2>1, <2>2 DEF LoopInv, Rests
  <2> QED
    BY <2>3, MiddleOfFilled
<1> QED
  BY <1>1, LoopHolds, PTL

(* The insert benchmarks, and the setup of the cancel of one order, call   *)
(* nothing but accepted inserts: the level is as long as the loop is far.  *)
THEOREM InsertsMeasured == BenchSpec => []InsertsAccepted
<1>1. ASSUME LoopInv PROVE InsertsAccepted
  <2>1. pc \in Nat /\ bench \in Benches /\ Rests(bench, queue, pc)
    BY <1>1 DEF LoopInv
  <2>2. CASE bench = "insert 1000 orders"
    <3>1. SetupCalls[bench] = 0 /\ Len(queue) = pc
      BY <2>1, <2>2, LoopLengths DEF Rests, Filled
    <3> QED
      BY ONLY <3>1 DEF InsertsAccepted
  <2>3. CASE bench = "insert single"
    <3>1. SetupCalls[bench] = 0
      BY ONLY <2>3, LoopLengths
    <3>2. IF pc = 0 THEN queue = <<>> ELSE pc = 1 /\ Len(queue) = 1
      BY <2>1, <2>3 DEF Rests, Alone
    <3>3. Len(<<>>) = 0
      BY EmptySeq
    <3>4. Len(queue) = pc
      <4>1. CASE pc = 0
        BY ONLY <3>2, <3>3, <4>1
      <4>2. CASE pc # 0
        BY ONLY <3>2, <4>2
      <4> QED
        BY <4>1, <4>2
    <3> QED
      BY ONLY <3>1, <3>4 DEF InsertsAccepted
  <2>4. CASE bench = "cancel 1 order from 1000"
    <3>1. SetupCalls[bench] = N
      BY ONLY <2>4, LoopLengths
    <3>2. IF pc <= N THEN Len(queue) = pc ELSE pc = N + 1 /\ Len(queue) = N - 1
      BY <2>1, <2>4 DEF Rests, Filled
    <3>3. Len(queue) = IF pc <= N \/ N = 0 THEN pc ELSE N - (pc - N)
      BY ONLY <3>2, NAssumption
    <3> QED
      BY ONLY <3>1, <3>3 DEF InsertsAccepted
  <2>5. CASE bench = "cancel 1000 orders"
    BY <2>5 DEF InsertsAccepted
  <2> QED
    BY <2>1, <2>2, <2>3, <2>4, <2>5 DEF Benches
<1> QED
  BY <1>1, LoopHolds, PTL

(* "Measured: cancel all 1000 orders" is not what the loop of that name    *)
(* does: exactly one order rests from its first insert to its second       *)
(* cancel, so that all its other cancels are refused.                      *)
THEOREM OneCancelMeasured == BenchSpec => []OneOrderToCancel
<1>1. ASSUME LoopInv PROVE OneOrderToCancel
  <2>1. bench = "cancel 1000 orders" =>
          IF pc \in 1..N + 1 THEN Len(queue) = 1 ELSE queue = <<>>
    BY <1>1 DEF LoopInv, Rests, Alone
  <2>2. Len(<<>>) = 0
    BY EmptySeq
  <2> QED
    BY <2>1, <2>2 DEF OneOrderToCancel
<1> QED
  BY <1>1, LoopHolds, PTL
=============================================================================
