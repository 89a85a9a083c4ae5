---------------------------- MODULE LevelReplay ----------------------------
(***************************************************************************)
(* What domain/commands.rs says commands are for: stored by the level that *)
(* takes them, and replayed to another one.  The requests are those of     *)
(* that file; there is none for a complete fill, which reaches only the    *)
(* level it is called on.  The store, the replica and the dispatch of a    *)
(* request to its method are not in the code yet and are supplied here.    *)
(* The replica is the level of PriceLevelQueue down to its pointers, with  *)
(* a memory and a clock of its own; the level that takes the commands is   *)
(* represented by its contract, PriceTimeQueue.                            *)
(***************************************************************************)
EXTENDS PriceLevelRefinement

CONSTANT
  MaxBacklog   (* bound on the commands stored and not yet replayed        *)

ASSUME MaxBacklogAssumption == MaxBacklog \in Nat

VARIABLES
  original,    (* the orders in the level that takes the commands          *)
  clock,       (* its clock                                                *)
  answer,      (* its last reply                                           *)
  log,         (* the commands stored and not yet replayed                 *)
  filled       (* history: the original has filled an order completely     *)

Original == INSTANCE PriceTimeQueue WITH queue <- original, now <- clock, reply <- answer

replayVars == <<vars, original, clock, answer, log, filled>>

NewOrderRequest == [request : {"NewOrderRequest"}, order_id : OrderIds, qty : Quantities]
CancelRequest == [request : {"CancelRequest"}, order_id : OrderIds]
UpdateQtyRequest == [request : {"UpdateQtyRequest"}, order_id : OrderIds, new_qty : Quantities]
PartialFillRequest == [request : {"PartialFillRequest"}, qty_to_fill : Quantities]

(* All there are.                                                          *)
OrderCommand == NewOrderRequest \cup CancelRequest \cup UpdateQtyRequest \cup PartialFillRequest

(* OrderCommand::apply, on the replica.                                    *)
Apply(command) ==
  \/ command \in NewOrderRequest /\ Insert(command.order_id, command.qty)
  \/ command \in CancelRequest /\ Remove(command.order_id)
  \/ command \in UpdateQtyRequest /\ UpdateQuantity(command.order_id, command.new_qty)
  \/ command \in PartialFillRequest /\ ApplyPartialFill(command.qty_to_fill)

(* The same on the level that takes the command first.                     *)
ApplyFirst(command) ==
  \/ command \in NewOrderRequest /\ Original!Insert(command.order_id, command.qty)
  \/ command \in CancelRequest /\ Original!Remove(command.order_id)
  \/ command \in UpdateQtyRequest /\ Original!UpdateQuantity(command.order_id, command.new_qty)
  \/ command \in PartialFillRequest /\ Original!ApplyPartialFill(command.qty_to_fill)

ReplayInit == Init /\ Original!Init /\ log = <<>> /\ filled = FALSE

(* A command is applied, and stored whatever became of it.                 *)
Take(command) ==
  /\ Len(log) < MaxBacklog
  /\ ApplyFirst(command)
  /\ log' = Append(log, command)
  /\ UNCHANGED <<vars, filled>>

(* pop_head on the original: there is no command to store.                 *)
FillCompletely ==
  /\ Original!PopHead
  /\ filled' = (filled \/ original # <<>>)
  /\ UNCHANGED <<vars, log>>

(* The oldest stored command is replayed.                                  *)
Replay ==
  /\ log # <<>>
  /\ Apply(Head(log))
  /\ log' = Tail(log)
  /\ UNCHANGED <<original, clock, answer, filled>>

(* Each level has a clock of its own.                                      *)
TimePasses ==
  /\ \/ Tick /\ UNCHANGED <<original, clock, answer>>
     \/ Original!Tick /\ UNCHANGED vars
  /\ UNCHANGED <<log, filled>>

ReplayNext ==
  (\E command \in OrderCommand : Take(command)) \/ FillCompletely \/ Replay \/ TimePasses

ReplaySpec == ReplayInit /\ [][ReplayNext]_replayVars
-----------------------------------------------------------------------------
(* The same orders with the same quantities in the same sequence; when     *)
(* they arrived is a matter of each level's clock.                         *)
SameOrders(p, q) ==
  /\ Len(p) = Len(q)
  /\ \A i \in DOMAIN p : p[i].id = q[i].id /\ p[i].qty = q[i].qty

(* "OrderCommand's can be stored and replayed to ensure that the order     *)
(* book is always in a consistent state": once it has replayed what was    *)
(* stored, a replica holds what the original holds.                        *)
ReplicaConsistent == log = <<>> => SameOrders(Fifo, original)

(* It does until the first complete fill.  Nothing that the commands do    *)
(* not say, addresses, recycled boxes, the time of day or the delay, has a *)
(* say in which orders rest and which is matched next.                     *)
ConsistentUntilFilled == log = <<>> /\ ~filled => SameOrders(Fifo, original)

Ids(q) == {q[i].id : i \in DOMAIN q}

(* After it, the two differ in orders, sequence and quantities, and each   *)
(* refuses commands that the other accepts.  But the replica errs on one   *)
(* side only: having replayed what was stored it may hold orders that were *)
(* traded, never does it lack an order that rests.                         *)
NoneMissing == log = <<>> => Ids(original) \subseteq Ids(Fifo)
=============================================================================
