# A verification development for Flash-LOB

Flash-LOB (`src/`) is a limit order book matching engine in Rust. This directory
holds TLA+ modules that model it, TLC runs that check them on small instances,
and theorems about them proved with TLAPS. Paths below are relative to the
repository's root (`src/arena.rs` is listed in PROJECT.json as
`src/src/arena.rs`).

## 1. Inventory

| Component | State | Operations | Uses |
|---|---|---|---|
| Arena allocator, `src/arena.rs` | block of order nodes, free list threaded through `next`, `allocated_count` | `new`, `alloc`, `free`, `get`, `get_mut`, `is_full`, `warm_up` | - |
| Price level, `src/price_level.rs` | `head`, `tail`, cached `total_qty` and `count`; the links are in the arena's nodes | `push_back`, `pop_front`, `remove`, `subtract_qty`, `peek_head` | arena |
| Order book, `src/order_book.rs` | two maps from price to level, map from order id to (node, side, price, user) | `add_order`, `remove_order`, `remove_order_from_map`, `remove_empty_level`, `clear`, `best_*`, `spread`, `depth_at`, `order_count` | price levels, arena |
| Matching engine, `src/matching.rs` | an arena and a book | `process_place` (validate, cross, rest), `process_cancel`, `state_hash` | book, arena |
| Engine, `src/engine.rs` | matcher and the reused event buffer | `process_command` (place, cancel, modify), `run` | matcher, two rtrb rings |
| Commands and events, `src/command.rs` | none | data types | - |
| Coinbase feed, `src/coinbase.rs` | none | `to_message`: a CSV row to a message, decimals to integers, ids to hashes | - |
| Replay, `src/bin/replay.rs` | engine; counters of messages, pending trades, validated and missed matches | one row at a time: received places, done cancels, match counts | engine, feed |
| TUI demo, `src/bin/tui.rs` | snapshot under an `RwLock`, relaxed counters | engine thread with synthetic load (batch, store, publish, reset), drawing thread (poll, frame) | engine |
| Latency report, `src/bin/latency_report.rs` | engine | the same commands placed round after round | engine |
| Benches, tests | - | timing, scenarios, fuzzing against a naive book | engine |

**How they interact.** The core is single-threaded: `process_command` is a call
that runs to its end and leaves its events in a buffer. Everything inside it
communicates through shared indices: a level's `head` and `tail`, the map's
`arena_index` and the nodes' `next` and `prev` are indices into the same block,
and `next` belongs to the free list when the node is free and to a level when it
is not. The engine thread is coupled to a network thread and to market data
consumers by two bounded single-producer single-consumer rings. The TUI demo has
the engine in a thread of its own, which hands the book to the drawing thread as
a snapshot under a lock and the arena usage as a relaxed atomic beside it. The
replay program feeds the engine with the rows of a file and compares its trades
with the match rows.

**What is hard here.**

* Indices instead of ownership: a node freed twice, leaked, or left in a level
  is not noticed where it happens, but many commands later. Nothing in release
  builds guards against it.
* Four cached or redundant descriptions of the same orders (queue, count and
  total, order map, free list) that every operation must change together.
* Checks made before the work and relied on during it: the fill-or-kill check
  and `unreachable!()`; the duplicate check and the ignored result of
  `add_order`; the loop of `cross_order`, which ends only because no empty level
  is ever left in the book.
* Late failures: the arena is found full after the order has traded; a
  replacement is refused after the original was cancelled.
* Integer widths: a u64 total cut to u32; `capacity - 1`.
* Events: absolute depths that must be read after the change, and that are
  dropped when the output ring is full; trades, accepts and cancels that must add
  up to what is open of each order.
* Data from outside (replay): ids that collide, sizes that do not fit u32, rows
  that the engine's own behaviour need not agree with.
* Two threads (TUI): a snapshot published and read in halves, a counter that no
  lock protects, a reset that the screen does not notice.

PROJECT.json lists the hazards one by one, at their lines, with the properties
that cover them.

**What makes each part correct.** Arena: the free list is exactly the set of
unused nodes (`FreeListSound`). Level and book: `BookConsistent`. Matching: price
and time priority, i.e. the naive book (`ImplementsReference`), never crossed
(`NotCrossed`), no panic, termination, exact deltas (`DeltasExact`). Engine
thread: it never waits for a subscriber (`InputDrains`), what a subscriber loses
is bounded (`ViewFollowsBook`), and so it is with the engine itself in the loop
(`SubscriberFollowsBook`, `CommandsTaken`). Getters and hash: functions of the
resting orders alone (`GettersExact`). Events: owners know what is open
(`EventsTellOrders`); a refusal is true of the book it leaves, and changes nothing
that is not reported (`RefusalsTrue`); and the buffer needs room for no more than two events per
slot of the arena and two (`EventsBounded`). Replay: what is in the book came from the feed, whole
(`BookFromFeed`, `PlacedInFull`), and trades are counted once (`TradesCounted`).
TUI: a frame is of one moment, and a recent one (`FrameAtomic`, `FrameFresh`,
`UsedNotOlder`), and neither thread stops the other (`EngineRuns`, `FrameDrawn`).

## 2. Modules

| Module | Models | Code |
|---|---|---|
| `Word` | u32 and u64 of a width given by a constant | integer types, `as u32`, `saturating_add` |
| `Arena` | the arena as a record, `Alloc` and `Free` as operators on it | `src/arena.rs` |
| `ArenaClient` | the arena under the most general client | contract of `alloc`, `free`, `get_mut` |
| `ArenaNew` | the constructor step by step | `Arena::new` |
| `ArenaLife` | the constructor, then the client | `src/arena.rs` |
| `PriceLevel` | the linked list operations | `src/price_level.rs` |
| `LevelClient` | one level under the most general client | contract of `push_back`, `pop_front`, `remove`, `subtract_qty`; `OrderBook::clear` |
| `Command` | commands and events | `src/command.rs` |
| `OrderBook` | the matcher record (arena, levels, order map) and its operations; what it means for it to be consistent | `src/order_book.rs` |
| `Matching` | one order being placed, a trade per step; cancelling | `src/matching.rs` |
| `Engine` | `process_command`, the specification, the properties | `src/engine.rs` |
| `ReferenceBook` | the abstract specification | naive book of `tests/fuzz.rs` |
| `MCEngine` | a symmetry for TLC | - |
| `EngineLoop` | engine thread, rings, subscriber; commands as bursts of events | `Engine::run` |
| `EngineThread` | the same with `Engine` in it | `Engine::run` with `process_command` |
| `Feed` | rows, messages, conversions | `src/coinbase.rs` |
| `Replay`, `MCReplay` | the feed driving `Engine`; a hash with a collision for TLC | `src/bin/replay.rs` |
| `Tui` | the two threads of the demo | `src/bin/tui.rs` |
| `LevelLemmas` | lemmas about finite sums, the free list, and one linked list | - |
| `ArenaProofs` | theorems about `ArenaClient`, `ArenaNew` and `ArenaLife` | - |
| `LevelProofs` | theorems about `LevelClient` | - |
| `EngineProofs` | the book's operators; the invariants of `Engine`; why matching ends | - |
| `EngineRefinement` | the action properties of `Engine`, its getters, the refinement of `ReferenceBook`, and that of `EngineLoop` by `EngineThread` | - |
| `EngineLoopProofs` | theorems about `EngineLoop` | - |
| `ReplayProofs` | theorems about `Replay`, on those about the engine | - |
| `TuiProofs` | theorems about `Tui` | - |

`Matching` EXTENDS `OrderBook`, which EXTENDS `PriceLevel`, which EXTENDS
`Arena`, which EXTENDS `Word`. Structures are records and calls are operators
that give the record a call leaves behind; the state machine is in `Matching`
and `Engine`. `Replay` EXTENDS `Engine` and `Feed` and puts the engine's steps into a
program of its own. `EngineThread` EXTENDS `Engine` and puts it between the rings
of `EngineLoop`, of which it takes an instance: the steps of the loop are those of
the instance. Definitions keep the source's names.

### How state and steps correspond to the code

* `matcher` is `MatchingEngine`: `matcher.arena` is its `Arena` (`capacity` is
  the constant `Capacity`), `matcher.levels["Bid"]` and `["Ask"]` are `bids` and
  `asks`, `matcher.order_map` is `order_map`. `event_buffer` is the field of
  that name. `pc`, `taker` and `remaining_qty` are the control state and the
  locals of a `process_place` under way.
* A command begins with `Place`, `Cancel` or `Modify` (from `pc = "idle"`).
  Cancels and refusals are one step. An order that passes validation goes to
  `pc = "cross"`, and each turn of the loop in `match_at_level` is a step
  (`Match`), so that every invariant is also checked between two trades of one
  command. `RestRemainder`, `RejectRemainder` and `CompletePlace` are the ways
  out.
* A turn of `cross_order` at a level that is empty, or has no head, changes
  nothing and comes back: `Match` is then a stuttering step, and a book with
  such a level violates `CommandCompletes`.
* `unreachable!()` is `pc = "panicked"`, where the system stops.
* `calculate_available_qty` returns early once the sum covers the order.
  `AvailableQty` is the whole sum: the two agree on whether the sum is below the
  order's quantity, which is all that is asked of it.
* `PriceLevel::remove` has four cases; `Remove` sets head, tail and the
  neighbours' links by what each of the two links says, which comes to the same
  in each case.
* Ids and users are model values. The empty node has id and user 0 and
  quantity 0, as in `OrderNode::empty`.
* `count` and `total_qty` are exact integers in the operators. That they never
  leave u32 and u64, so that plain arithmetic in the code is exact, is part of
  `BookConsistent` (`CountersFit`).
* `EngineLoop` replaces the inside of `process_command` by what `DeltasExact`
  and `CommandCompletes` say of it: it ends, and every change of depth is in the
  event buffer as a delta, in order, among other events. A step of the engine may
  add several events (`Bursts`). A cell is a side and price; a depth stands for a
  pair of quantity and count.
* In `EngineThread` cells and depths are those pairs, the loop's depth is that of
  `matcher` (`DepthOf`), and its buffer is `event_buffer`, where events that are
  no deltas all look alike (`AsDelta`). `process_command` is called, clears the
  buffer (`begun`), takes the steps of `Engine`, and returns. Before it clears the
  buffer the events of the last command are still there; the loop has read them
  all, so it sees none (`Emitted`).
* `Engine::run` is behind the feature `runtime`. Its loop takes the events from
  the slice that `process_command` returns; `PublishEvent` pushes a copy of each.

`ReferenceBook` has, for each side and price, the queue of orders, with one
trade per step. The naive book of `tests/fuzz.rs` knows only limit orders and
cancels; the abstract specification adds, from `process_command`, the other
order types, replacements, users and the bound on resting orders. `Engine`
implements it with the levels read off the linked lists (`Queues`), and with the
trades among the events (`Trades`). Refusals and deltas are stuttering there, or
`EndAtOnce`: the naive book may refuse at will. When the engine may, and what a
refusal leaves, is `RefusalsTrue`.

* `LevelClient` keeps, beside level and nodes, the queue that the level stands
  for, changed as a queue would be; `Reduce` is a partial fill, the write to the
  node and `subtract_qty`. The nodes start with any links, and `Clear` leaves
  the links of a queue that is gone.
* A getter that returns an `Option` is a set of one value or none. `StateHash` is
  the record of what is fed to the hasher: equal hashes stand for equal records,
  i.e. 64-bit collisions are left out.
* `Feed` counts decimals in fractions of the unit they are converted to, so that
  conversion has digits to cut off. `to_message` gives every done row the reason
  `Canceled`; rows without a price become orders at price 0. `Hash` is a constant
  function, in the run one with a collision.
* `Replay` takes rows in any order, and is the engine's client: a row is a step,
  and a received row goes on with the steps of `process_command`. `traded` (all
  trades so far) and `open` (the rows that may have orders in the book) are
  history variables.
* `Tui` keeps, of every value the threads share, its age: how many batches have
  been completed since the moment it describes. Locking, the two assignments of
  the snapshot, the two renderings, and the load of the counter are steps. A
  relaxed load may return any value from the one it returned last, or the one
  the lock makes visible, up to the latest: `used .. Younger(synced, seen)`.
  The lock cannot be poisoned: nothing that can panic runs under the write guard.

## 3. Runs

| Run | Instance | Question | Distinct states |
|---|---|---|---|
| `arena` | all capacities of a 4-bit word; 3 nodes, links written freely | the constructor builds what the client starts from, for each positive capacity; free list and count, any client | 10205 |
| `arena_new_zero` | all capacities | the documented panics: violated | - |
| `engine` | 4 ids, 3 nodes, 2 prices, quantities 0 to 2 | types, consistency, uncrossed, no panic, clean and true refusals | 55800 |
| `engine_queue` | 4 ids, 3 nodes, 1 price, 2 users | the naive book: time priority, users | 26658 |
| `engine_prices` | 3 ids, 2 nodes, 2 prices | the naive book: price priority; exact deltas, events, getters; room for events; every command ends | 27110 |
| `fok_exact` | 4 ids, 3 nodes, 1 price, quantity 2 | fill-or-kill is refused only if short: violated | - |
| `engine_loop` | 2 cells, 2 depths, 3 events a command, rings of 1 and 2 | subscriber's view, engine never stalls | 707424 |
| `engine_thread` | 2 ids, 2 nodes, 1 price, rings of 1 | the same with the engine's own commands | 172738 |
| `level_client` | 4 nodes, quantities 1 and 2 | a level is the queue it stands for; its total is exact | 454369 |
| `tui` | batches of 2, published every third, 20 nodes | frames atomic and fresh; no stall; never full | 10758 |
| `replay` | 3 raw ids on 2 ids, 4 rows, 2 nodes | the book is what the feed placed; trades counted once | 2318025 |
| `replay_match` | 3 ids, 3 rows | a validated match was traded: violated | - |

Why the bounds are enough to be worth something:

* Three nodes give a level a head, a middle and a tail, so each case of `remove`
  is taken in each position. One more id than nodes lets an order arrive at a
  full arena. Two prices give both orders of two levels on a side, and a spread.
* `U32_MAX` is 4, with `NULL_INDEX` = 4 above the three indices. Three orders of
  2 at one price make 6 > 4: totals exceed u32, and `as u32` matters, while each
  quantity fits. Quantity 0 is there for its refusal.
* A command takes at most as many trades as there are nodes, so nothing is cut
  off: no run has a state constraint.
* `engine_loop` has an output ring smaller than the events of one command, so
  that the first, a middle or the last of them may be dropped, and two cells, so
  that a lost delta could spoil the wrong one. The constant `MaxEvents` bounds
  the events of a command; that the engine keeps to `2 * Capacity + 2` of them is
  `EventsBounded`.
* `engine_thread` has a ring for one of the up to four events of its commands,
  and a command ring that is full with one. Two orders at one price make every
  kind of command and event; what more orders do inside a command is the question
  of the engine's own runs.
* `level_client` has four nodes, so that both neighbours of a removed middle may
  be middles themselves or ends.
* `replay`: sizes of 1 and 2 units and one that does not fit u32; prices present
  and missing; as many rows (`Limit`) as it takes to place under both colliding
  ids, trade, and cancel. The file may end after any row.
* `tui`: the threshold of 18 leaves room for exactly one batch of 2. Ages are
  told apart up to `PUBLISH` + 1, past every bound that is claimed. The real
  parameters are 1000000, 1000 and 50.

Ids and users are symmetric (clients choose them, nothing compares them but
equality) and `engine` and `engine_queue` use that; `engine_prices`, which checks
liveness too, does not.

`ArenaLife` and `ArenaNew` and only they have `CHECK_DEADLOCK FALSE`: a constructor
ends, and no client follows one that panicked or built another number of nodes. In the
engine runs TLC's deadlock check says that there is always a way on.

**Fairness.** `Engine` has weak fairness of the steps of a command under way:
`process_command` is a synchronous call and its thread does not stop in the
middle. There is none on commands arriving. `EngineLoop` has weak fairness of the
engine thread's steps, which busy-waits and takes no lock; client and subscriber
have none, so a subscriber that never reads is among the behaviours. The same
holds of `EngineThread` (`RunStep`).
`ArenaNew` and `ArenaLife` have weak fairness of the constructor's steps. `Tui` has weak fairness of
the engine thread's steps, which computes without a pause, and of the drawing
thread's while it holds the lock; strong fairness of both acquisitions, since
`RwLock` wakes those who wait when it is dropped, and they may find it taken
again but not for ever. There is none on `poll` and on writing to the terminal,
so a drawing thread that hangs there for good is among the behaviours:
`EngineRuns` says that the engine thread goes on all the same. It does wait for
a frame in progress: the decoupling that README.md:104 speaks of is from the
terminal, not from the rendering.

**Three runs that end in a violation.** They are the project's findings.

* `fok_exact`: `calculate_available_qty` (`matching.rs:133` and `:147`) cuts the
  u64 total of a level to u32 before it adds, so a level that holds more than
  u32::MAX counts modulo 2^32, and a fill-or-kill order that could be filled is
  refused. In the trace three orders of 2 rest at one price on one side, the level of
  6 counts as 1 where u32::MAX is 4, and a fill-or-kill order of 2 on the other
  side is refused. The truncation only ever
  loses quantity, which is why `NoPanic` holds
  all the same.
* `arena_new_zero`: `0..(capacity - 1)` (`arena.rs:169`) underflows for a
  capacity of zero. The comment names only capacities above u32::MAX - 1 as
  panicking, and two later branches provide for zero; they are never reached
  with it. Modelled for builds with and without overflow checks; both panic.
* `replay_match`: a match row is validated by any trade of the engine that is
  still pending (`replay.rs:97`), whatever its order, price and quantity, while
  `replay.rs:49` and README.md:64 speak of matches that align with the engine's
  trades. What the counters do say is `TradesCounted`.

Not a finding, but worth knowing: the comment at `latency_report.rs:38` says that
the engine does not check duplicates strictly. It does (`matching.rs:72`); no
duplicate occurs because its prices make every round leave the book empty. And the
buffer for "output events to avoid allocation" (`engine.rs:14`) has room for 16
(`engine.rs:22`), two events a trade: an order that trades nine times makes the
`Vec` grow while it matches, where README.md:9 promises no heap allocation. What
reservation would do is `EventsBounded`: two for each slot of the arena, and two.

Each property of a passing run comes with a mutant, an operator marked "Mutant
of ..." next to the definition it changes, under which TLC finds the property
violated. They are used nowhere else.

## 4. Proofs

Every invariant and every action property that a passing run checks is also a
theorem, for all values of the constants, and so are both refinements: `Engine`
of `ReferenceBook`, and the safety part of `EngineThread` of `EngineLoop`. What
stays with TLC is liveness.

**Assumptions**, each named in the module that declares the constants:
u32::MAX is positive (`WordAssumption`); `0 < Capacity < NULL_INDEX`, the
assertion of `Arena::new`, and zero for `ArenaNew` (`CapacityAssumption`); prices
are in u64 and quantities in u32 (`CommandAssumption`); the quantities of the
level's client are in u32 (`LevelAssumption`); `NoOrder` is not an order
(`NoOrderAssumption`); the rings have room for something, `NoCell` is not a cell
and no orders is a depth (`LoopAssumption`, which the lemma `LoopConstants`
shows of the thread's cells and depths from `ThreadAssumption`, that its rings
have room); decimals are sets of integers, the
hash gives order ids, and what the conversions give is a price and a quantity
(`FeedAssumption`); the replay's user 1 is a user and its limit a number
(`ReplayAssumption`); the tenth of the arena that the TUI keeps free holds a
batch (`TuiAssumption`). No theorem bounds the number of orders, prices, commands
or rows.

**Sums.** The library's induction theorems take an operator, which the provers
cannot instantiate, so `LevelLemmas` states induction over sets: a set of numbers
that holds 0 and with each number the next holds all (`NatInduct`, from `<` being
well-founded), and a set of sets that holds {} and is closed under one element
more holds every finite set (`SetInduct`). A sum (`SumFunctionOnSet`) is reasoned
about through the table of its values on the subsets of its domain (`SumTable`):
one exists, and any two agree. `SumAdd`, `SumRemove`, `SumSame`, `SumBounds` and
`SumByNumber` are what the other modules cite. `TradesOf` is a recursive function,
`Told` and `PlacedQty` are sums, and `Follows` names the last delta, since filters
and folds over sequences are recursive operators, or folds that a proof would have
to unfold by an induction of its own.

* `ArenaProofs`: `ArenaTypes`, `ArenaFreeList`, `ArenaCount`. The invariant is
  that the free list is a sequence without duplicates of exactly the nodes the
  client does not hold, chained by `next`, and that `allocated_count` is the
  number of nodes held. It is inductive as it stands: `Alloc` takes the first
  element of the sequence, `Free` puts one in front, and what the client writes
  is not in the chain. `LevelLemmas` states both steps about the operators alone,
  so that they serve the matcher's arena too. `ArenaNewBuilds` is about the
  constructor: a constructor that returns has built what the others start from
  (`BuildsNewArena`), and `ArenaLifeSound` puts both together. Its loop invariant (`Threaded`): the nodes before `i` are
  linked, and a capacity of zero does not get past the loop.
* `LevelProofs`: `LevelLinksSound`, a level is a doubly linked queue, and
  `LevelTotalExact`, its cached total is that of the nodes in it. Both come from
  one inductive invariant, `Holds` with types: `RemoveLinks` is the step, by where
  a node stands to the removed one; `PopLinks` reduces `pop_front` to it (the head
  has no predecessor, so that the two do the same), `PushLinks` is the other
  direction. The quantities of the nodes are any integers.
* `EngineProofs`, first invariant: `EngineTypes`, `EngineNotCrossed`,
  `EngineArenaFullIsClean`, by `IInv`, the conjunction of `TypeOK`, `NotCrossed`,
  `ArenaFullIsClean` and `Clean`. `Clean` is what the last needs: while an order
  is being matched no refusal is in the buffer, and if anything at all is in it,
  whether a trade that filled a maker or the cancel a replacement begins with, a
  node is free or nothing is left of the order. `NotCrossed` is kept when the
  remainder rests because the order then crosses no level of the other side, and
  by every other step because price levels only disappear.
* `EngineProofs`, second invariant: `EngineBookConsistent`, `EngineNoPanic`, by
  `BookInv`. `BookConsistent` speaks of chains followed through the nodes and is
  awkward to carry from step to step, so the invariant is `Orderly`: the order
  map decides which nodes belong to which level (`Placed`), each level is a queue
  of exactly those, each is the order the map says, the free list is the rest,
  and the count is exact. Every operator then needs two facts, what it does to
  the level it touches (`CancelEffect`, `Reduced`, `Rested`) and that it leaves
  all others alone (`OtherLevel`); `pop_front` of a filled maker is the removal of
  that order (`FillIsCancel`). `OrderlyConsistent` returns to `BookConsistent`;
  the widths of the counters come from there, since no more than `Capacity` nodes
  of at most u32::MAX each are in a level. `NoPanic` needs one more conjunct,
  `FillOrKillCovered`: what is left of a fill-or-kill order never exceeds the
  exact liquidity in its reach. It holds at the start because the 32-bit sum is at
  most the exact one (`AvailableAtMost`), and each trade takes the same from both
  (`CrossingLess`). Also in `BookInv`: the order being placed is not in the map.
* `EngineProofs`, third invariant: `EngineEventsBounded`, by `EventsPaid`. That
  the buffer is short is not inductive: the next trade adds two events to it. But
  each order that leaves the book pays for two, so while an order is matched the
  events, and two for each order still in the book, fit `2 * Capacity`; only a
  trade that leaves nothing of the taker takes no maker, and it is the last.
  Counting orders needs that the map is finite, which is `BookInv`.
* `EngineProofs`, why matching ends: `EngineMatchingEnds` is the safety part of
  `CommandCompletes`. At every turn there is a level that matches, with a head to
  trade with, or one of the ways out is open (`CanGoOn`), and a turn that stays in
  the loop leaves less of the order. That a measure which decreases must come to
  an end is the induction that fairness and these two need.
* `EngineRefinement`: `EngineDeltasExact` and `EngineEventsTellOrders`, step by
  step from the same effects: a step changes one price and one order, and adds a
  delta of that price and an event of that order. `EngineRefusalsTrue`: a refusal
  comes alone and changes nothing, or after the cancel of a replacement
  (`RefusedAfterCancel`), and the arena is full with `Capacity` orders (`FullIs`).
  `EngineImplementsReference`:
  `Queues` of what an operator leaves is the queue operation of the naive book
  (`CancelQueues`, `FillQueues`, `ReduceQueues`, `RestQueues`), then each
  step is a step of `ReferenceBook` or a stutter (`PlaceSteps`, `CancelSteps`,
  `ModifySteps`, `TradeSteps`, ...), with the same trades, in the same order, and
  full when the naive book is full (`FullIs`). The invariants are used: that a
  replacement is for the user of a resting order, that a taker is not in the book,
  that a matched level is not empty, that the panic is not taken.
  `EngineGettersExact`: the seats in the queues are as many as the orders in the
  map, and depths are sums over the queue.
* `EngineRefinement`, the thread: `ThreadImplementsEngine` and
  `ThreadImplementsLoop`. A step of the engine is `EmitEvents` of the events it
  adds (`ContinueAdds`): since it tells its change of depth exactly
  (`CommandDeltas`, `StepDeltas`), the loop's reader follows it (`FollowsTold`,
  `EmitsToLoop`), and `EventsPaid` keeps the buffer to `MaxEvents`.
  `ThreadSubscriberFollowsBook` then is the invariant of `EngineLoopProofs`, taken
  at the cells and depths of the book: the theorem about bursts of any events
  becomes one about the engine's.
* `EngineLoopProofs`: `LoopTypes`, `LoopViewFollowsBook`. To the view one has to
  add the buffer of the command under way (`BufferExact`: the last delta in it
  about a cell gives the cell's depth in the book), and that nothing is sent while
  the command runs. The view, after the deltas still under way, is the book's
  depth except in stale cells, the ones whose latest delta was dropped.
* `ReplayProofs`: `ReplayTypes`, `ReplayTradesCounted`, `ReplayBookFromFeed`,
  `ReplayPlacedInFull`. A step of the program is a step of the engine or leaves it
  alone (`StepOfEngine`), so the engine's invariants hold, and its effects are
  reused. The invariant adds that the trades in the buffer are those not yet
  counted (`Counts`), and, while an order is placed, that what its events say has
  traded, with what is left, is the size of its row (`PlacingOrder`). The book
  comes from the feed (`FromFeed`) since trades and cancels leave no more open
  than there was (`NoMoreOpen`), and a done row takes away, with the rows of an
  id, the order that has its hash.
* `TuiProofs`: all five safety properties of `Tui`. The inductive invariant adds
  to `TypeOK` who holds the lock at which step (`LockHeld`), how old the published
  values may be at each step of the engine thread (`Ages`), how the parts drawn so
  far relate to the snapshot while the lock is held (`Drawn`), and the room left at
  each point of a batch (`Room`).

**Only model-checked.** The liveness properties `ServesPositive`,
`CommandCompletes`, `InputDrains`, `CommandsTaken`, `EngineRuns` and `FrameDrawn`:
TLAPS has no proof of properties under fairness, nor of ENABLED, so that
`EngineMatchingEnds` says with `CanGoOn` what enables each step. `TypeOK` of `Engine` leaves counters as
integers and allows a maker's id and user to be 0 in a trade; the widths are in
`BookConsistent`, and that a maker is an order of the book is in
`ImplementsReference`, which takes every trade from a queue.

## 5. Not modelled

* `warm_up`, `pin_to_core`: performance.
* Heap growth of the maps, and running out of memory.
* The rtrb rings are taken to be what they promise: bounded FIFO queues whose
  push fails when full.
* `OrderBook::clear` beyond one level: only a unit test calls it.
* The benches (`benches/*.rs`) and the latency report: one deterministic sequence
  of commands each, timed.
* Of the feed: the CSV and decimal libraries, a product that overflows `Decimal`
  itself (a panic), `trade_id`, which nothing reads. Of the replay: printing.
* Of the TUI: the random walk of the prices, throughput and latency figures,
  layout; raw mode, which an error in the loop leaves switched on (`tui.rs:188`).
  A panic in either thread (a release build aborts: `panic = "abort"`).
* `PriceLevel` derives `Default`, with head and tail 0; nothing uses it.
  `RejectReason::InvalidPrice` is never produced.

## 6. Plan

Done: every component but warm-up, pinning and the benchmark programs; a theorem
for every safety property of the passing runs, and for both refinements. What
could be added:

1. Consequences that no run states and that follow from what is proved: the
   determinism that the fuzz tests compare (equal queues and equal commands give
   equal events).
2. `OrderBook::clear` on a whole book, and the latency report as a client of the
   engine, whose ids come back round after round.
3. Stricter types of events in `TypeOK` (a maker is never order 0), now that
   `BookInv` gives them.

## 7. Running it

    tlc -workers 2 -config MCEngine.cfg MCEngine
    tlapm EngineProofs.tla

Each run of PROJECT.json is a module and a configuration; the longest takes a
minute or two. From nothing `EngineProofs` and `EngineRefinement` take some ten
minutes each and `ReplayProofs` three, the other proof modules a minute or less.
