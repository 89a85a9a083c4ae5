# open-match-rs in TLA+

TLA+ specifications of [open-match-rs](../src/README.md), a limit order book in
Rust. The library is small and sequential; what is hard in it is the memory
structure under each price level: a doubly linked list over raw pointers, whose
nodes are recycled through a free list and found through a hash map. The
specifications follow that structure pointer by pointer, TLC checks it on small
instances, and TLAPS proves every safety property that holds, the refinement
among them, for instances of every size.

Paths below are relative to `src/open-match-rs/`.

## The system

| Part | Source | State | Operations |
|---|---|---|---|
| price level queue | `src/order_book/price_level/*.rs` | head, tail, index, arena, freelist, the heap nodes | `new`, `insert`, `pop_head`, `remove`, `update_quantity`, `apply_partial_fill`, the internal `remove_from_arena` |
| results and errors | `src/domain/responses.rs`, `errors.rs` | none (values) | |
| command requests | `src/domain/commands.rs` | none (values), the stored commands once there are any | the trait `OrderCommand::apply`, which nothing implements yet |
| order book | `src/order_book/order.rs` | `bids`, `asks`, `price_level_by_id` | `Order::create`, `OrderBook::new`, `add_order` |
| time sources | `src/time/*.rs` | the clock | `now` |
| benchmarks | `benches/bench_order_book.rs` | one price level each | four loops |
| SBE codecs | `sbe/` | the caller's byte buffer | generated encoders and decoders |

**Interaction.** A caller owns a price level and calls its methods one at a
time (`&mut self`); the level calls its time source once in each call except
`pop_head`. The order book keeps queues of its own (`VecDeque`) and does not use
the price level yet. The benchmarks drive a price level through `insert` and
`remove`. The codec crate is not a dependency of the library.

**No concurrency inside a level.** `PriceLevelQueue` holds `NonNull` pointers,
so it is neither `Send` nor `Sync`, and every mutator takes `&mut self`. No step of
one call can meet a step of another, which is why each method is one atomic
action. Multithreading, consensus and persistence are items of the
repository's TODO list and are not modelled.

**What is hard**, and which property watches it (`PROJECT.json` lists each
hazard at its line):

- recycled nodes that carry stale neighbours and a stale order
  (`LinkedList`, `FreeNodesUntouched`);
- index entries that could lead to a recycled or a foreign node
  (`IndexExact`, `OrdersStayPut`);
- `swap_remove` reshuffling the arena under raw pointers (`OrdersStayPut`);
- unlinking at the front, in the middle, at the back and of an only order
  (`LinkedList`, `ImplementsQueue`);
- the result of `remove_from_arena` being dropped (`BoxesOwnedOnce`);
- memory that grows although orders leave (`BoxesArePeak`);
- priority: nothing but an arrival at the tail may place an order behind another
  (`TimePriority`, `NoOvertaking`);
- replies that must account for every unit of quantity (`QuantityConserved`,
  `MirrorExact`);
- complete fills, which no request of `commands.rs` can repeat elsewhere
  (`ReplicaConsistent`, `ConsistentUntilFilled`, `NoneMissing`);
- a benchmark that times something else than it says (`CancelsRemove`, `OneOrderToCancel`);
- encoders that clear nothing and count no setters, and a reader that finds its way by
  block lengths (`DecodedAsSet`, `ReaderOnTrack`);
- decoders that compare the template id in debug builds only (`MisreadCaught`,
  `ReaderOnTrack`);
- the boundary between a partial and a complete fill, and the `u64`
  subtraction behind it (`TypeOK`, `ImplementsQueue`).

## The modules

| Module | What it is |
|---|---|
| `Responses` | the values of `CommandResult`, `OrderBookError`, `TimedResult` |
| `PriceLevelQueue` | the price level as it is written: heap, pointers, index, arena, freelist |
| `PriceLevelQueueProofs` | theorems about it |
| `PriceTimeQueue` | the contract: a sequence of orders in arrival order, and a reply for each call |
| `PriceLevelRefinement` | `PriceLevelQueue` implements `PriceTimeQueue` |
| `PriceLevelRefinementProofs` | the refinement and `NoOvertaking` as theorems |
| `LevelObserver` | the price level with history variables: a client that only sees replies, the quantity it accounts for, and the peak of the resting orders |
| `LevelObserverProofs` | theorems about what the client knows |
| `LevelTests`, `LevelTestsProofs` | the six unit tests of `price_level.rs`, call by call; the theorem that they pass |
| `LevelReplay`, `LevelReplayProofs` | two levels, the second replaying the stored commands of the first; theorems on what it has of the first |
| `OrderBook`, `OrderBookProofs` | `Order::create` and `add_order`; the theorem about them |
| `Benchmarks`, `BenchmarksProofs` | the four loops over the contract; theorems about them |
| `SbeMessages` | the eight message layouts, the header, and the reads and writes of a field |
| `SbeStream`, `SbeStreamProofs` | a writer and a reader of messages in one reused buffer; theorems about them |
| `MC...` | instances of these for TLC: symmetry sets and, for the benchmarks, ids |

```
Responses <- PriceLevelQueue <- PriceLevelRefinement <- LevelObserver
        ^        ^-- LevelTests     |      ^-- LevelReplay
        |                (INSTANCE) |              | (INSTANCE)
        '---- PriceTimeQueue <------+--------------'
                     ^-- Benchmarks         OrderBook     SbeMessages <- SbeStream
```

### How `PriceLevelQueue` corresponds to `price_level.rs`

- A heap address is a member of `Nodes`; `heap` is a function whose domain is
  the set of addresses allocated so far, its values the `OrderNode`s. A
  `Box<OrderNode>` in `arena` or `freelist` is its address: moving a box does not move
  the node. `Option<NonNull<OrderNode>>` is an address or `None`.
- `index` is a function from the ids present; `arena` and `freelist` are
  sequences, `arena` reordered by `SwapRemove` as `Vec::swap_remove` does, and
  `freelist` a stack.
- `SetNext` and `SetPrev` are the two pointer writes; `LinkAtTail` and `Unlink`
  apply them in the order of the code, so that a write that goes through a pointer
  changed just before is modelled as such.
- `TakeNode` draws on the freelist first, else on the allocator, which may
  hand out any address not in use. The allocator is never exhausted in the code;
  the instances have as many nodes as ids, which `BoxesArePeak` shows to be enough.
- `RemoveFromArena` keeps the branch in which the scan fails. `BoxesOwnedOnce`
  together with `IndexExact` is what makes that branch dead, and with it
  `OrderNotInArena`.
- `reply` is the returned value: a `TimedResult` for every method but
  `pop_head`, which returns a bare `CommandResult`.
- `apply_partial_fill` is private in the code and called by its test only; it is
  an action like the others.
- `Tick` is the passing of time between calls. That readings never decrease is an
  **assumption of the model**: neither the trait `TimeSource` nor the `raw()` that
  `quanta_clock.rs:16` calls promises it. `TimePriority`, which compares timestamps,
  rests on it; the order of arrival (`ImplementsQueue`, `NoOvertaking`, `LinkedList`) is a
  matter of sequence and does not. The clock may stand still between two calls, and the
  unit of a reading has no meaning in the model. Within a call the readings that the code
  takes are one reading.

Left out: `price` and `side` of a level, which no method but the getter reads,
and `link_at_tail`, a `todo!` without callers. That the nodes lie still while boxes move is a
choice of the code (`Vec<Box<OrderNode>>`), translated as such; the fault `MovingRemove` is the level with
the nodes in the vector itself, and `OrdersStayPut` refutes it. Outside the model is also what the
Rust memory model says about a raw pointer taken before its `Box` is moved:
pointers are addresses here, as they are in the machine code.

### `OrderBook`

`Create` puts an order, stamped with the clock, in its creator's hands;
`AddOrder` hands any one of them to the book. So orders may be added in another
sequence than they were created, and two creators may use the same id, as the code
permits. `created` is where those orders wait and `added` a history variable.

### `Benchmarks`

Each step is one call of the loop of one benchmark, against the contract
`PriceTimeQueue`, which `level_observed` shows the level to implement. `N` is the number of
orders of a loop, 1000 in the code, and `Middle` the literal 500 of `bench_order_book.rs:91`. The
repetition of a closure by the benchmark harness starts with a fresh level and
is not modelled.

### `SbeMessages` and `SbeStream`

A layout gives the template id, the block length and the offset and width of each field,
as both the encoder and the decoder of a message have them in their
constants and offsets. A byte of the buffer is a pair of a value and the number of the byte in that
value, so that little-endian writing and reading is followed byte by byte
without computing digits. `Start` is `wrap`, `header` and `parent`; `SetField` is one
setter; `ReadAs` is a decoder's `header` and all its getters, `HeaderAt` the
getters of the header decoder.

The generated code has no caller in the repository: `SbeStream` supplies one that wraps
each encoder, and each decoder, at the limit of the one before. This writer calls the setters in any
order, some twice and some never; the reader takes any decoder,
the right one or not. `Accepted` is what the code does about that: `debug_assert_eq!`
on the template id, where it is compiled in (`DebugBuild`), and the bounds checks of the slices
a getter takes; a decoder that is not accepted panics, which ends the program.
The writer itself stays inside the buffer and passes every header encoder its parent, so that
the panic of an encoder beyond the buffer and `SbeErr::ParentNotSet` do not occur.

### `LevelTests`

`Script` lists the calls of each test in `price_level.rs`, with its ids and
quantities, and `Test...` are its assertions after each call. `Begin` starts a test in any
state in which no order rests. In the code that is a new level; `ComeAndGo` lets
other orders rest and leave before, so that the test also gets boxes with old orders and stale
pointers. `spare` is the number of such boxes: an assertion on `freelist.len()`
holds up to those the test did not need.

### `LevelReplay`

`commands.rs` defines four requests and a trait to apply one to a level, and says what for:
"OrderCommand's can be stored and replayed to ensure that the order book is always in a
consistent state in the case of Disaster Recovery or using a replicated order book"
(lines 8 and 9). The store, the replica and the dispatch of a request to its method are not in the
code; the module supplies them, and asks whether these requests and the methods of a level
suffice. `Take` applies a command to the original and stores it, whatever became of it; `Replay`
applies the oldest stored command to the replica, any number of commands behind. The replica is the
level of `PriceLevelQueue`, with its own memory and clock; the original is taken by its contract, which
`level_observed` shows a level to implement. The request structs are the sets of the same names, less
the price, which a level does not read.

`pop_head`, the complete fill, has no request, and the bare `CommandResult` it returns is not what the
trait asks for. In the model it is called on the original only (`FillCompletely`), and the replica does
not hear of it: `ReplicaConsistent`, the words of `commands.rs:8`, is false (finding 4). Two properties say
what is true. Until the first complete fill the replica holds the orders of the original, in their
sequence and with their quantities (`ConsistentUntilFilled`); nothing but the commands has a say in
that, no address, recycled box, time or delay. After it, sequence and quantities may differ and either
level may accept what the other refuses, but a replica that has replayed everything still lacks none of
the orders that rest in the original (`NoneMissing`): it errs by holding orders that were traded. Times of
arrival are left out of both, as a request does not carry them.

## What the runs check

Deadlock is checked in every run of a price level by itself. A test script, a benchmark
loop, the book once its orders are placed and the stream after its last message or a
panic all stop, so their runs do not check it.

| Run | Instance | Distinct states | Shows |
|---|---|---|---|
| `level_safety` | 3 ids, 3 nodes, quantities 0..1, clock 0..1 | 43 096 | list, index, arena and freelist always agree; free nodes are not written; orders keep node and timestamp |
| `level_observed` | 3 ids, 3 nodes, quantities 0..2, clock 0..1 | 151 594 | the level implements `PriceTimeQueue`; no overtaking; replies suffice to mirror the level and account for all quantity; boxes are recycled before new ones are allocated |
| `level_tests` | the six tests, 4 nodes, up to 2 orders before, fixed clock | 3 380 | the tests pass at all addresses and with recycled boxes |
| `level_replay` | 2 ids, 2 nodes, quantities 0..1, both clocks 0..1, 2 stored commands | 2 926 998 | the replica holds the same orders until the first complete fill, and lacks none after it |
| `replay_fills` | as `level_replay` | stops early | finding 4 |
| `level_untimed` | as `level_safety` | stops early | finding 1 |
| `book_levels` | 2 ids, 2 prices, 3 orders, clock 0..1 | 4 078 | the book keeps arrivals by side and price |
| `book_index` | as `book_levels` | stops early | finding 2 |
| `bench_loops` | N = 1000, the real length | 4 006 | three loops do what they say, the fourth has one order to cancel |
| `sbe_stream` | release build, one message of each block length, 3 messages, 2 values, 64 bytes | 584 079 | fields are decoded as set, whatever an earlier use left in the buffer; a misread stays local |
| `sbe_debug` | debug build, all 8 messages, 2 messages, 2 values, 64 bytes | 258 407 | wrong decoders panic, right ones do not |
| `bench_cancels` | as `bench_loops` | stops early | finding 3 |

**Bounds.** Three resting orders are the least number with a front, a middle and a
back; every pointer write reaches at most the two neighbours of a node, so a longer
list adds no new case, and the proofs below do not depend on the length at
all. Three nodes over three ids also let a node be recycled under every other id and
let the freelist hold all of them. A quantity of 2 can be filled in two
steps and left at 1, and 0 is the quantity of an order nothing can partially
fill. Clock 0..1 gives orders of equal and of different times. Larger instances (four ids
and nodes) exceed five minutes. 64 bytes hold two of the longest
messages; the third then goes over what the first two left. `sbe_debug` needs every
pair of templates and no third message; `sbe_stream` needs the third message and, as
wrong decoders are told apart by their block lengths there, one message of each length. 255
stands for the null value of the optional field. The four nodes of
`level_tests` are one more than ever rest at once, so that a test can begin with
boxes and still have to allocate one. Two stored commands of `level_replay` are a command and one that
was taken after it, such as an insert and its cancel; complete fills may fall before,
between and behind the two. Its quantities stop at 1 as the quantities of the level itself are the
matter of `level_observed`. `MaxTime`, `MaxQty`,
`MaxOrders`, `MaxMessages` and `MaxBacklog` are the only bounds on counters; `MaxQty` stands for `u64::MAX`. Addresses, ids and prices are only compared for
equality, and no run checks a liveness property, so that symmetry is sound.

**Fairness.** None is assumed. A library has no scheduler: nothing obliges a caller to call, every
method returns, and the code promises nothing that must eventually happen.

## Findings

1. `level_untimed`: `pop_head` (`price_level.rs:114`) changes the level and
   answers with a bare `CommandResult`, while `responses.rs:6` says that `TimedResult`
   "precisely timestamps all state-changing events". The clock is not read in a
   complete fill.
2. `book_index`: `add_order` (`order.rs:57`) never writes `price_level_by_id`,
   documented as "order_id → (price, side)" (`order.rs:45`).
3. `bench_cancels`: the setup of "cancel 1000 orders" inserts id 1 in every round
   (`bench_order_book.rs:57`), where the comments say "insert 1000 orders" and
   "cancel all 1000 orders". One order rests; 999 of the measured cancels are
   refused.
4. `replay_fills`: `pop_head` (`price_level.rs:114`) has no request among those of
   `commands.rs:14-35` and could not implement the trait, which returns a `TimedResult`
   (`commands.rs:11`). A replica that has replayed every command still holds an order the
   original has filled, where `commands.rs:8` says that commands "can be stored and replayed to
   ensure that the order book is always in a consistent state".

## What is proved

`PriceLevelQueueProofs` proves, for every set of ids and of addresses, every `MaxQty`
and every `MaxTime`, from the assumptions `NoneAssumption` (`None` is not an
address), `MaxQtyAssumption` and `MaxTimeAssumption` (both are natural numbers):

| Theorem | States |
|---|---|
| `Invariance` | `Spec => []IInv`, the inductive invariant |
| `TypeCorrect` | `Spec => []TypeOK`: no subtraction leaves `0..MaxQty` |
| `NoBoxLost` | `Spec => []BoxesOwnedOnce` |
| `IndexCorrect` | `Spec => []IndexExact` |
| `ListCorrect` | `Spec => []LinkedList` |
| `InTimeOrder` | `Spec => []TimePriority` |
| `NoStaleWrite` | `Spec => FreeNodesUntouched` |
| `NodesStayPut` | `Spec => OrdersStayPut` |
| `AddressesSuffice` | with finitely many ids and at least as many addresses, `Spec => []BoxToTake`: there is a box for every order that does not rest, so that the finite set of addresses never stops an insert the code would make |

**The inductive invariant** is `TypeOK /\ BoxesOwnedOnce /\ IndexExact /\
TimePriority`. None of the parts is inductive alone: that the index stays exact
when a node is recycled needs that no free node is in use (`BoxesOwnedOnce`), that an unlink
keeps the list whole needs that the index leads to a node of the list (`IndexExact`), and
that the arena scan finds the node needs both. `TimePriority` claims a witness,
the sequence of nodes from head to tail, rather than computing it by following
pointers: a proof by induction along the list is then a matter of
giving the new sequence for each step (the old one without the node, or with the new
node at its end).

**The argument.** Every step has one of four shapes (`StepShape`): it takes one
node out of use (`DropNode`: `Remove`, and `PopHead`, whose separate code is shown
to be the same unlink at the front), puts one node into use at the tail
(`AddNode`), changes one quantity (`SetQty`) or leaves the level alone. There is a
lemma per method that gives its shape and the type of its reply, and a lemma per shape
that preserves the invariant. Below them are lemmas on the vectors (`SwapRemove`, `Pop`,
`Append` keep injectivity and change the range by one element) and on the
pointers (`UnlinkFacts`). `NoStaleWrite` needs that the neighbours of a node in
use are in use (`NeighboursInUse`), which follows from the chain.

**The refinement** (`PriceLevelRefinementProofs`, same assumptions):

| Theorem | States |
|---|---|
| `Implementation` | `Spec => ImplementsQueue`, every step is a step of `PriceTimeQueue` with the same reply, or a stutter |
| `NobodyOvertakes` | `Spec => NoOvertaking` |

`Fifo`, the refinement mapping, follows `next` from `head`: a recursive function,
about which the prover knows only its equation. `ChainIsWalk` and `WalkIsChain` tie it to the
chain of the invariant, the latter by contradiction at the least place where the walk and the
chain differ, which takes the place of an induction. After that `Fifo` is the sequence of the orders
along the chain, and one lemma per step shape (`AddFifo`, `DropFifo`, `SetQtyFifo`, `SameFifo`)
says what becomes of it; one lemma per method adds the guard and the
reply.

**The client** (`LevelObserverProofs`, same assumptions): `ClientKnows`
(`ObservedSpec => []MirrorExact`), `NothingLost` (`[]QuantityConserved`) and
`NoBoxTooMany` (`[]BoxesArePeak`). `ClientInv` joins the invariant of the level with the two
properties: the mirror tells the ledger which quantity an update replaces, and the chain tells both where
an order stands. `Depth` is a recursive sum; `AddsUp` states its equation, and the lemmas
`DepthAppend`, `DepthWithout` and `DepthChanged` say how the sum changes with one order.

**The book** (`OrderBookProofs`, no assumption on the constants): `ArrivalsHeld`
(`Spec => []LevelsHoldArrivals`). The invariant `BookInv` claims for every side and price
the prefixes of what has arrived there (`Gathers`), which one more order extends by one; that they are
the only ones makes them those of `Arrived`.

**The codecs** (`SbeStreamProofs`, for every buffer length, every set of values,
every choice of messages, both builds): `DecodingExact` (`Spec => []DecodedAsSet`), `ReaderKeepsTrack`
(`[]ReaderOnTrack`) and `AssertionExact` (`[]MisreadCaught`). `Layouts` shows of the eight
layouts that fields lie inside their block and do not overlap. `BufferInv`
says that the unread messages lie side by side from the reader's position to the `Edge`, where the draft or
the free room begins, each with its header and its set fields stored, and
that nothing is written before the edge.

**The unit tests** (`LevelTestsProofs`, from `TestIdsAssumption` and `TestQtyAssumption`,
that the ids 1 to 4 and the quantities of the tests exist, and those of the level): `TestsHold`
(`TestSpec => []TestsPass`), for any set of addresses, any further ids and any orders before a
test. `TestInv` says for every test and every number of calls made which orders stand in
`Fifo` (`Standing`), what the last reply was and how arena, freelist and `spare` add up; the
refinement lemmas then turn each call into one step of the queue, and the assertions are read
off the orders that stand.

**Replay** (`LevelReplayProofs`, from the assumptions of the level and `MaxBacklogAssumption`):
`ReplicasAgree` (`ReplaySpec => []ConsistentUntilFilled`) and `NothingMissing`
(`ReplaySpec => []NoneMissing`), for any number of commands between the two. Both properties
speak of an empty log only and are far from inductive. `ReplayInv` claims what lies in between, twice.
Until the first complete fill there is a sequence of queues (`Leads`), from one with the orders of the
replica to the original, each of which the next stored command leads to. At all times there is a
sequence of sets of ids (`Covers`), from the ids in the replica on, each what the next stored command makes of
the one before (`After`), and the last contains the ids in the original. `Take` makes both ways longer at
one end (`LeadsFurther`, `CoversFurther`), `Replay` shorter at the other (`LeadsOn`, `CoversOn`);
`FillCompletely` ends the first and takes an id out of what the second has to cover (`FillInv`). `LeadsOn` rests on
`DoesAlike`: a command applied to two queues with the same orders leaves the same orders behind;
`CoversFurther` on `After` being monotone. `OriginalDoes` shows what the commands do of the contract,
`ReplicaDoes`, through the refinement, of the level with its pointers.

**The benchmarks** (`BenchmarksProofs`, from `NAssumption`, `N > 501`, and `CallsAssumption`, that the ids and
the quantity of the calls exist): `MiddleIsMeasured`, `InsertsMeasured` and `OneCancelMeasured` prove the three
invariants of `bench_loops` for every number of orders that leaves the literal 500 between the first and the
last of them. `LoopInv` says which orders rest after how many calls of which benchmark.

**Only model-checked** are the four runs that expect a violation: each refutes a property and proves
none. `OneCancelMeasured` proves what holds in the place of `CancelsRemove`, `ReplicasAgree` and
`NothingMissing` what holds in the place of `ReplicaConsistent`.

## Not modelled

- How commands are stored and reach a replica: there is no implementor of `OrderCommand`, no store
  and no replica in the code; in the map all of this is external. `LevelReplay` supposes a log that keeps its sequence and
  loses nothing.
- `OrderStatus`, `QtyFilledInfo` and the price of a `NewOrderRequest`: used nowhere.
- What a raw reading of quanta's counter measures (`quanta_clock.rs:16` applies
  `into_nanos` to an unscaled reading): a property of that library.
- The unit tests of `order.rs` (71-121): each makes one call, the effect of
  which `LevelsHoldArrivals` states for all sequences of calls.
- The get and put functions of `sbe/matching_engine/src/lib.rs` for types that no codec uses,
  and the `Display` and `Error` implementations.

## Plan

Done, in this order: `Responses`, `PriceLevelQueue` with its safety
properties, the contract and the refinement, the observer, the order book, the
benchmarks, the codecs, the proofs of the inductive invariant and of two action
properties; then the proofs of the refinement, of the client's knowledge, of the book and
of the codecs, the ledger, the unit tests, and codecs with partial messages and
wrong decoders; then the replay of commands, and the proofs of the unit tests, of the
benchmarks and of the replay.

Next: facts about sequences that several proof modules state for themselves moved into one
place, and the operators of `Benchmarks` and `OrderBook` related to the level once the code relates them.

When the code grows: a price level behind the order book once the two
are connected, and the log and the recovery of a replica once `OrderCommand` has an
implementor. With a request for
the complete fill, `ReplicaConsistent` becomes a property to prove.
