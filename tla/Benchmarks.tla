----------------------------- MODULE Benchmarks -----------------------------
(***************************************************************************)
(* The four loops of benches/bench_order_book.rs, each driving a fresh     *)
(* price level from one thread.  The level is taken by its contract, the   *)
(* price-time queue; the clock stands still.                               *)
(***************************************************************************)
EXTENDS PriceTimeQueue

CONSTANT N      (* orders per loop, 1000 in the code                      *)

(* The order cancelled by its literal id lies between the first and the    *)
(* last of them.                                                           *)
ASSUME NAssumption == N \in Nat /\ N > 501

VARIABLES
  bench,        (* the benchmark that runs                                *)
  pc            (* calls made so far                                      *)

benchVars == <<vars, bench, pc>>

Benches == {"insert 1000 orders", "insert single", "cancel 1000 orders",
            "cancel 1 order from 1000"}

(* Calls made by the closure that prepares the level, outside the measure. *)
SetupCalls == [b \in Benches |->
  IF b \in {"insert 1000 orders", "insert single"} THEN 0 ELSE N]

(* Calls made by the closure that is measured.                             *)
MeasuredCalls == [b \in Benches |->
  IF b \in {"insert single", "cancel 1 order from 1000"} THEN 1 ELSE N]

Calls(b) == SetupCalls[b] + MeasuredCalls[b]

(* Fault: the counter is ignored by every setup loop.                      *)
FaultySetupId(b, i) == 1

(* The id each setup call inserts; the loop that prepares the cancels does *)
(* not use its counter.                                                    *)
SetupId(b, i) == IF b = "cancel 1000 orders" THEN 1 ELSE i

(* Fault: the order cancelled is the last.                                 *)
FaultyMiddle == N - 1

(* The order cancelled in the last benchmark: a literal, whatever the loop *)
(* before it inserts.                                                      *)
Middle == 500

Quantity == 100

(* The ids and the quantity in use are among those the contract speaks of. *)
ASSUME CallsAssumption ==
  0..N - 1 \subseteq OrderIds /\ MaxQty \in Nat /\ Quantity <= MaxQty

BenchInit == Init /\ bench \in Benches /\ pc = 0

SetupStep ==
  /\ pc < SetupCalls[bench]
  /\ Insert(SetupId(bench, pc), Quantity)

MeasuredStep ==
  LET i == pc - SetupCalls[bench] IN
  /\ SetupCalls[bench] <= pc /\ pc < Calls(bench)
  /\ \/ bench = "insert 1000 orders" /\ Insert(i, Quantity)
     \/ bench = "insert single" /\ Insert(1, Quantity)
     \/ bench = "cancel 1000 orders" /\ Remove(i)
     \/ bench = "cancel 1 order from 1000" /\ Remove(Middle)

BenchNext == (SetupStep \/ MeasuredStep) /\ pc' = pc + 1 /\ UNCHANGED bench

BenchSpec == BenchInit /\ [][BenchNext]_benchVars
-----------------------------------------------------------------------------
(* "Cancel middle order to avoid head/tail fast paths": when the measured  *)
(* cancel runs, the order rests and has a neighbour on either side.        *)
MiddleHasNeighbours ==
  bench = "cancel 1 order from 1000" /\ pc = SetupCalls[bench] =>
    \E k \in At(Middle) : 1 < k /\ k < Len(queue)

(* The insert benchmarks and the setup of the last one measure accepted    *)
(* inserts, each of which makes the level one order longer.                *)
InsertsAccepted ==
  bench # "cancel 1000 orders" =>
    Len(queue) = IF pc <= SetupCalls[bench] \/ SetupCalls[bench] = 0 THEN pc
                 ELSE SetupCalls[bench] - (pc - SetupCalls[bench])

(* What "cancel 1000 orders" measures instead: its setup leaves one order, *)
(* however often it inserts it, and only the second cancel takes that out. *)
OneOrderToCancel ==
  bench = "cancel 1000 orders" => Len(queue) = IF pc \in 1..N + 1 THEN 1 ELSE 0

(* "Measured: cancel all 1000 orders": every measured cancel removes one.  *)
CancelsRemove ==
  bench = "cancel 1000 orders" /\ SetupCalls[bench] < pc =>
    reply.result.variant = "Removed"
=============================================================================
