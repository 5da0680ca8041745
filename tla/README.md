# A TLA+ model of mockex

mockex is a single-threaded, replay-driven trading pipeline: a binary market
data feed drives an order book, a market maker quotes around the book's best
prices, risk checks filter the quotes, a gateway sends them to a simulated
exchange, and a portfolio books the fills. This directory models that pipeline
in TLA+, model-checks it with TLC on small instances, and proves some of its
properties with TLAPS for every value of the constants.

`PROJECT.json` lists the components, the runs, the source lines behind every
definition, the hazards and the theorems. Paths below are relative to the
repository.

## 1. Inventory

| Component | Source | State | Operations | What makes it correct |
|---|---|---|---|---|
| Order book | `src/book/order_book.hpp` | price levels of two sides, live orders by id, four cached fields | add, modify, cancel, trade, clear; best prices, midprice | levels are the sums of the live orders; the cache is the best level; an update is returned exactly when the best bid or offer changes |
| Flat hash map | `src/common/flat_hash_map.hpp` | key and value arrays, size | find, insert (grows), erase (shifts back), clear | it is a partial function; every stored key is found; probes end |
| Exchange simulator | `src/exchange/exchange_sim.hpp` | one resting order per side and price, an index by client id | submit: sweep, rest, cancel | never crossed; an order leaves only by fill or cancel; index and book agree |
| Order gateway | `src/gateway/order_gateway.hpp` | next client id, active orders | submit_intent, process_reports | every resting order is tracked; fills and rest add up to the order |
| Market maker | `src/strategy/market_maker.hpp` | inventory | on_bbo, on_fill | quotes around the fair price, skewed against the inventory |
| Risk engine | `src/risk/risk_engine.hpp` | none (two counters) | validate | position, size, notional and collar limits |
| Portfolio | `src/portfolio/portfolio.hpp` | position, cash | apply_fill, snapshot | the position is the sum of the fills |
| Trading loop | `src/app/main_replay.cpp` | what the loop holds between stages | one message at a time through all stages | limits hold over the whole pipeline; every message is worked off |
| ITCH parser | `src/feed/itch_parser.cpp` | orders by id, sequence number | one case per message type | its orders stay those of the book it feeds |
| Replay readers | `src/feed/replay_reader.cpp`, `src/feed/itch_replay_reader.cpp` | the mapping, position, message count; native: last sequence number, gap count | open, close, next | every whole message is delivered once, in order, nothing of a cut one; the gap count tells of every break in the sequence; the mapping is undone |
| Native parser | `src/feed/parser.cpp` | none | parse | refuses what would put an empty order or level into the book |
| SPSC ring buffer | `src/common/ring_buffer.hpp` | head, tail, slots | try_push, try_pop, size | a bounded queue under two threads |
| Price level map | `src/common/price_level_map.hpp` | hash map of levels, cached best | add, remove, clear; no code uses it | holds the levels and the best price of a `std::map` |
| Latency tracker | `src/common/latency_tracker.hpp` | per stage an array on the heap, two counts | construct, move, destroy, record, print_summary | each array has one owner; the summary is of the run it is printed for |
| Benchmark | `src/app/main_bench.cpp` | results, the tracker kept | iterations of the loop, each with everything new | ends, leaks nothing |
| Feed generator | `scripts/generate_feed.py` | sequence number, active orders | one message per iteration, a clear at the end | writes a feed the book can follow |
| Test runner, clock, other scripts | `src/common/test_runner.hpp`, `src/common/time.hpp`, `scripts/` | | | out of scope |

Interaction is by direct calls on one thread: the loop calls each stage and
passes its result to the next. Nothing is asynchronous and nothing survives a
restart, so there is no crash recovery to model. What is hard instead:

- **long sequences of legal calls** that leave two redundant pieces of state
  disagreeing: levels and orders, cache and levels, index and resting orders,
  gateway and simulator, inventory and position;
- **limits**: four-entry arrays that drop what does not fit, a hash table's load,
  32-bit quantities that wrap, sentinels inside the value range (id 0, price
  `UINT32_MAX`);
- **state that is stale when used**: the second quote of an update is sent after
  the first has filled, the reference price is read after the update was built,
  a stale index entry is cancelled later;
- **feeds that are not consistent**: repeated ids, unknown ids, trades larger
  than their order; messages lost, repeated, swapped or damaged on their way, of
  which the reader notices a break in the sequence numbers and the parser a
  damaged field, and neither repairs anything;
- **files and memory**: a file that cannot be opened or mapped or that ends
  anywhere, arrays on the heap that change their owner.

## 2. Modules

```
Types                 sides, 32-bit values, fixed arrays
OrderBook             the book                    L2View       what it promises
PriceLevelMap         one side of a book as a hash map with its best price
LadderBook            the book with a PriceLevelMap beside each std::map
FlatHashMap           the hash map                AbstractMap  what it promises
ExchangeSim           the simulator
OrderGateway          the gateway, with the simulator inside (INSTANCE ExchangeSim)
MarketMaker, RiskEngine, Portfolio
TradingLoop           the loop, with all of the above inside but FlatHashMap
ItchParser            the ITCH feed handler
ItchFeed              an exchange, the ITCH parser and the book it feeds
Parser                the native wire format and what the parser refuses
SequenceGaps          the native reader's watch on sequence numbers
NativeFeed            generator, faulty recording, SequenceGaps, Parser, OrderBook
MappedFile            a mapped feed file and a position in it
ReplayReader          the native reader (INSTANCE MappedFile, SequenceGaps)
ItchReplayReader      the ITCH reader (INSTANCE MappedFile)
LatencyTracker        the tracker, its arrays and its summary
Replay                both programs from start to end, with readers and trackers
SPSCRingBuffer        the ring buffer             BoundedFifo  what it promises
MC*                   instances for TLC
TypesProofs           facts about best prices, partial functions, sums, and levels
                      that are the sums of orders
OrderBookProofs       theorems about OrderBook and LadderBook
ItchFeedProofs        theorems about ItchFeed, with the parser and the book
OrderGatewayProofs    theorems about OrderGateway and ExchangeSim
TradingLoopProofs     theorems about TradingLoop, from those about book and gateway
NativeFeedProofs      theorems about NativeFeed, with its refinement of L2View
ReplayProofs          theorems about Replay, with readers and trackers
ContainerProofs       theorems about FlatHashMap and SPSCRingBuffer
```

**OrderBook.** `levels[side]` is `bids_` / `asks_`, a function from prices to
quantities; `orders` is `orders_`; `cached[side]` holds the best price and
quantity; `bbo` is what the last call returned, `{}` for `nullopt`. Each public
operation is one action, its early return included (`Ignore`). A uint32_t
addition is taken modulo `U32`. The hash map's key 0 is kept: `InsertOrder`
refuses id 0, and `add_order`, which ignores that answer, adds the quantity to a
level nobody can take off again. `Spec` lets the feed send anything.

**L2View** is the book without levels and cache: a set of live orders, and a
published best bid and offer computed from scratch from all of them. The
refinement `ActsAsL2View` of `NativeFeed` maps `orders` to the live orders and
`bbo` to what is published.

**PriceLevelMap** and **LadderBook.** `docs/benchmarks.md` compares the book's
`std::map` with a "FlatHashMap + cached best", which `price_level_map.hpp` still
is; no code uses it. `ladders[side]` is such a map, its hash map a partial
function. `LadderBook` gives it the calls the book makes on `bids_` and `asks_`,
beside the book's own operations.

**FlatHashMap.** `slots` is `keys_` and `vals_`; a value under an empty key is
never read and is not kept. The hash is a constant function, taken modulo the
number of slots, so that home slots move when the table grows. A probing loop is
the first offset at which it stops; `BackwardShift` is the result of the loop of
`backward_shift`. **AbstractMap** is a partial function; both record what each
call returned, so the refinement also says that every answer is right.

**ExchangeSim** and **OrderGateway.** A call of `submit_intent` is several
steps: `SubmitNew` or `SubmitCancel` enters the simulator, `SimSweep` is one
iteration of the matching loop, `SimReturn` rests what is left or performs the
cancel, `ProcessReport` is one iteration of `process_reports`, and `Return` ends
the call. The program can see none of the states in between; they are there to
state what the loops do. The array of four reports drops what does not fit
(`PushBack`).

**TradingLoop** instantiates the components under the names `Book`, `Strategy`,
`Risk`, `Account` and `Gateway`, and sequences them with `stage`: "read" waits
for a message, "quote" has the update, "intents" has quotes left, "gateway" is
inside `submit_intent`, "fills" books the fills. A message the parser refuses
changes nothing and is not a step. The ITCH loop of the same file runs the same
stages.

**ItchParser** and **ItchFeed.** `known` is the parser's `orders_`, `parsed` the
result of `parse`. Each ITCH message type is one action, `A` and `F` together
since their code is the same; both branches of a skip are in it. `ItchFeed` adds
an exchange, which is outside the program, and the book: one step is one message
from the exchange's own book (`listed`) through the parser to the book operation
`process_itch` selects (`ApplyToBook`). `diverged` is a history variable: the
orders partly cancelled or replaced.

**NativeFeed** follows a message from `scripts/generate_feed.py` to the book. One
action per message type generates it (`active_orders` is the script's list) and
writes it to the recording, where it may be lost, repeated or damaged (`Write`);
`Swap` exchanges the next two. That part is outside the program, and `MaxFaults`
bounds it. `Read` is one iteration of the native loop: the reader's gap count
(`SequenceGaps`), the `--max-msgs` limit, the parser and the book. A refused
message leaves the book alone. `unread` holds what was written and not yet read:
the loop is as far behind as it likes up to `MaxUnread`. History variables say what
was read first, which orders had a message damaged, which were cancelled in
part, and whether a trade was larger than the order in the book.

**MappedFile**, **ReplayReader**, **ItchReplayReader.** A file is the frames it was
written as and the number of bytes that are left of it. `pos` and `size` are in
bytes, so that a file cut anywhere, in a header too, is cut as in the code.
`Open` has an outcome for every system call that can fail; a failed `mmap`
leaves `size_` behind, as the code does.

**LatencyTracker** and **Replay.** The six arrays of a tracker, which are allocated,
moved and freed together, are one block of `heap`. `Replay` runs `mini_trader` or
`mini_trader_bench`, chosen in `Init`, through their phases: construction, `open`,
`next` in a loop, one latency record per stage a message reaches (`Paths`), the
reader's destructor, the move of the last iteration's tracker, the summary, the
destructors. What the stages do with a message is left to the other modules.

**SPSCRingBuffer.** Each access to shared memory is a step of its thread. A
thread's relaxed load of its own index is exact. An acquire load of the other's
index may be late: it returns any value stored since the one returned last
(`TailValues`, `HeadValues`), which is what C++ coherence allows for one writer.
Release and acquire order the accesses to a slot with those loads, so slots are
plain memory, provided no two accesses overlap (`NoDataRace`). A slot that was
moved from holds nothing that may be read (`NoItem`).

### Abstractions

- Instrument ids, timestamps, statistics and the fill log decide nothing and are
  left out; sequence numbers are in `NativeFeed` and `Replay`, latency records in
  `Replay` only.
- A payload is a record of the fields the parser reads, with its length; its
  bytes are not modelled. A damaged message is one whose length, type, quantity,
  price or side makes no sense: other damage cannot be told from another message.
- A message has no intent, one or two: the strategy quotes two sides, each under
  its own guard (`market_maker.hpp:46`, 57), and only one at the maximum inventory,
  which `--max-pos 100` reaches. `Paths` has all three, with each intent accepted
  or refused. The fills of an intent record no latency.
- A duration in the summary is a quotient of integers; the code rounds a double.
- `std::map` is a function on the set of its keys; "first" and "last" are its
  minimum and maximum.
- `OrderBook`, `OrderGateway` and `ExchangeSim` use a partial function where the
  code uses `FlatHashMap`. The runs `hash_apart` and `hash_adjacent` say when
  that is justified: see the first finding.
- Signed 32-bit positions, `int64_t` cash and `uint64_t` notional are integers
  without a width: the model's values stay far below them. The program's
  notional limit is `UINT64_MAX`, which nothing reaches; the model's is as
  unreachable at its scale.
- `risk_skew_factor` is one half, its default, which no option changes, so the
  product with the inventory is exact and only the truncation is modelled.
- ITCH bytes are decoded to integers by the message; `TicksOf` is the division by
  100 that truncates, with its cast to an unsigned value.
- Feed prices are below `INVALID_PRICE` (`BookAssumption`). Nothing in the
  program ensures this: an order at `UINT32_MAX` would be cached as an empty side.

## 3. Runs

| Run | Question | Bounds | Result |
|---|---|---|---|
| `book_any` | Are the cache and the price level map right for any feed? | ids 0..2, 2 prices, quantities 1, 2; `U32` = 4, so that a level wraps after two orders | holds, 99 650 states |
| `hash_apart` | Is the hash map a map? | 4 keys, 2 values, 4 slots growing to 8; clusters of one home slot that wrap around | holds, 2 410 states |
| `hash_adjacent` | And with home slots next to each other? | 3 keys with home slots 0, 0, 1 | a key is lost |
| `gateway` | Do gateway and simulator agree? | 5 new orders, 4 prices, quantities 1, 4, cancels of any id | holds, 8 069 581 states |
| `gateway_lost` | Does an order leave only by fill or cancel? | 4 new orders, 3 prices, quantities 1, 2 | an order is overwritten |
| `loop` | Does the pipeline keep its limits? | the program's spread 2 and collar 100; lot 90, maximum position 250; prices 500, 600, 1000; 8 new orders | holds, 94 697 states |
| `itch` | Does the parser keep up with the exchange, and the book with the parser? | 3 reference numbers, 2 stocks of which one is kept, raw prices 50, 150, 200 (below a tick, mid-tick, on a tick), quantities 1, 2; all message types | holds, 330 298 states |
| `itch_cancel` | Does the book show what the parser knows after a partial cancel? | message types A, E, X, D | the order is gone |
| `itch_replace` | And after a replacement? | message types A, E, D, U | a level stays for good |
| `native` | What is a gap count of 0 worth, and what holds of the book without it? | 2 ids, 2 prices, quantities 1, 2, 4 messages and a clear, the loop up to 2 behind, one fault; `U32` = 8, more than all orders together | holds, 768 423 states |
| `replay` | Does a replay see every whole message, free what it took, and end? | files of up to 2 frames with 0 or 8 bytes, cut by 0, 1 or 9 bytes; 2 iterations; `--max-msgs` 1; arrays of 3 samples, durations 0..2 | holds, 294 543 states |
| `ring` | Is the ring buffer a race-free queue? | 4 slots, 2 items, unbounded time | holds, 2 437 states |

Why the bounds are enough. *Book*: two orders at one price, at neighbouring
prices and on both sides, a third to be repeated or unknown, and a level that
wraps cover every branch of every operation; more ids only repeat them. A level
that disappears and leaves two others behind needs three prices: the proof of
`LaddersAgree` covers it. *Hash
map*: four slots fill to the load limit of three, the fourth key makes the table
grow, and home slot 3 of 4 (7 of 8) makes every cluster wrap. *Gateway*: four
resting orders at four prices and a fifth that sweeps them all. That would be
five reports, one more than the array holds: the last fill is lost, and the run
gets there. A quantity of 4 against orders of 1 leaves a rest after every shorter
sweep, and is itself filled in part.
*Loop*: with best prices that jump by up to 500 ticks new quotes meet resting
ones on both sides, and eight orders are enough for the position to reach both
+180 and -180, where the position check refuses the next lot (270 > 250) while
the collar would still pass it (92 ticks). With the default lot of 100 the collar
refuses a third lot first, whatever the maximum position, and a wrong position
check would go unnoticed.

*ITCH*: an order of its own, one that replaces it and one more at the same tick;
a fourth only repeats them. *Ring*: with four slots every index wraps, the buffer
is full with three items, and an index read late can be anywhere behind; two
items tell order and repetition apart, and the proof covers every capacity.
*Native*: the fault may hit the add, a modify, a cancel or a trade of an order
that shares its level with another one, and a message follows it; an order that
misses a modify, or whose modify is refused, is then traded for more than the book
knows, beside an order that must stay as it is. *Replay*: frames with
and without a payload in both positions, numbers in and out of sequence, files cut
in the last payload, the last header and before; the first run's tracker must be
gone when the second one's is kept; four durations and more at the first stages,
so that an array of three is full; the proofs cover files of any length.

Deadlock is checked in every run but `loop`, whose bound on new orders ends it,
`native`, where the loop ends with the file, and `replay`, where the programs exit.

### What the properties say

- `CacheCoherent`: the cached fields are the best level, in every state a feed
  of any kind can lead to.
- `LaddersAgree`: the levels and the best price of a `PriceLevelMap` are those of
  the `std::map`, after removals of the best level too.
- `BookFollowsFeed`: what a summary without sequence gaps is worth, provided the
  first message read was the first written. A refused message is no gap and is not
  counted (`main_replay.cpp:214`), and one with a wrong price may be taken: the
  property says how far that reaches, to the order the message names and no
  further. Every other order is in the book as the exchange has it. A cancel's
  quantity is not used (`main_replay.cpp:228`), so an order cancelled even in part
  is not (`OnBook`), and the messages about the rest of it change nothing. A
  damaged `Clear` names no order; then nothing is said of the book at the end.
  Without a damaged message no trade was larger than its order.
- `LevelsMatchOrders` in `native`: each level is the sum of the live orders at its
  price, whatever is lost, repeated, swapped or damaged, as long as no trade was
  larger than the order it met. Such a trade takes its whole quantity off the
  level (`order_book.hpp:102`), that of other orders included. By
  `BookFollowsFeed` only a gap or a damaged message can lead to one.
- `ActsAsL2View`, under the same condition: after every message the book returned
  the best bid and offer of its live orders if they changed, and nothing
  otherwise. `Clear` is the exception the model records: it changes them and
  returns nothing.
- `NoEmptyLevels`: nothing a recording contains leads to an order or a level of
  quantity 0, after which the strategy would see a best price nobody trades at.
- `ProbesTerminate`, `SizeCountsSlots`, `EveryKeyReachable`, `ImplementsMap`: the
  hash map always has a vacant slot, counts its entries right, finds every key where
  it is and nowhere else, and answers like a partial function.
- `NeverCrossed`, `RestingIsIndexed`, `RestingIsActive`: the simulator's book is
  never crossed; every resting order is found through `by_id_`, and is one the
  gateway tracks on the same side.
- `FillsWithinLimit`, `FillsAndRestAddUp`: fills are at the limit or better and in
  price order; the fills booked and what the last report leaves are the order. What
  rests is what that report leaves as long as the array has room. When it is full
  the fills that follow are dropped (`types.hpp:176`): less may rest then, the
  position is booked short by the difference, and the gateway goes on tracking an
  order that is gone, but no fill is booked twice or at a wrong quantity.
- `OrdersLeaveByFillOrCancel` (violated): an order leaves the book only that way.
- `PositionWithinLimits`: position and inventory are equal and within the limit,
  although the check sees neither open orders nor the effect of the quote before.
  It holds because fills are booked for the incoming order only, before the next
  quote is checked.
- `ReportsNeverDropped`: in the pipeline every order is of one lot, so that it
  rests whole or fills whole against one other order, and the four-entry arrays
  never overflow.
- `ReferenceIsFair`: the collar is measured from the price the strategy quoted
  around.
- `ReducingQuoteAccepted`: the quote that leads back to a flat position is never
  refused, so the strategy cannot lock itself in. This depends on the
  parameters. With the spread of 2 and the collar of 100, a bid passes the collar
  up to an inventory of 197, and the sell quote up to 205. If the inventory can
  step over 205, that is, if no multiple of the lot lies in 198..205 (with a lot
  of 60 or 150, say) and the maximum position does not stop it before, both
  quotes are outside the collar from there on and the strategy never trades
  again. With the default options the inventory stops at 200: the maximum
  position of 1000 is never met.
- `KnownOrdersAreListed`: every order the parser knows is on the exchange's book
  with the same side, quantity and price in ticks, and of the stock kept, through
  partial cancels, executions and replacements.
- `BookFollowsParser`, and `LevelsMatchOrders` in `itch`: apart from partial
  cancels and replacements the book has the parser's orders, and whatever it is
  sent its levels stay the sums of its orders.
- `BookShowsKnownOrders` (violated): the book shows the parser's orders.
- `DeliversWholeFrames`: a program sees every message that is whole in the file,
  once, up to its limit (for ITCH up to a frame without a payload, which `next`
  takes for the end), and the gap count is the number of breaks in what was read.
- `CrashesOnlyUnchecked`: memory that was not mapped is read only by the
  benchmark, and only if `open` had failed there (`main_bench.cpp:105`, 168).
- `OneOwner`: at any time each block of samples has one tracker that will free it,
  each mapping one reader, and at the end nothing is left.
- `SummaryIsOfLastRun`: the summary counts every duration of the last run and
  shows the first `kCap` of them in order. (`best_lat` of the benchmark is the last
  iteration's tracker, not that of the fastest.)
- `ReplayEnds`: both programs end, whatever the file.
- `NoDataRace`, `SizeIsSafe`, `ImplementsFifo`: the ring buffer's threads never
  meet in a slot, `size()` errs to the safe side of its caller, and the buffer is
  a first-in first-out queue of `RingCapacity - 1` items.
- `EveryMessageEnds`: a message is worked off, its calls of the gateway included.

### Fairness

`WF_vars(Work)` in `TradingLoop`, the steps inside the gateway among them: once a
message was read, one thread runs on, and nothing in it waits. There is no fairness
on `Read`: the feed may end. `OrderGateway` alone has safety properties only.
`WF_vars(Next)` in `Replay`: the program is
one thread that waits for nobody, and its file does not grow.

### Findings

1. **Erase can lose keys** (`hash_adjacent`, `flat_hash_map.hpp:115`).
   `backward_shift` stops at the first key that sits in its home slot; a later
   key of the cluster that had probed past that slot is cut off by the new
   vacancy. Nothing else can do this (`OnlyShortShiftsHideKeys`, section 4). Every
   holder of a `FlatHashMap` is exposed. The order book forgets
   live orders, and a lost id can be added twice.
2. **A new order overwrites the one resting at its price** (`gateway_lost`,
   `exchange_sim.hpp:91`), and its index entry stays; a cancel through that entry
   removes the newer order.
3. **A partial ITCH cancel removes the whole order from the book** (`itch_cancel`,
   `itch_parser.cpp:182`): the cancelled quantity is passed on, but
   `cancel_order` has no use for it.
4. **An ITCH replacement leaves the book with the old order number**
   (`itch_replace`, `itch_parser.cpp:229`): the messages that follow carry the new
   one, the book ignores them, and the quantity stays on its level.

Smaller disagreements between documents and code, met while modelling; no run is
about them:

- `docs/architecture.md:73` says the parser "Validates: non-zero qty/price, valid
  side". Price and side are looked at in an add only, so a modify may move an
  order to price 0 (`NativeFeed` lets it).
- `docs/architecture.md:159` says the simulator emits `PartialFill`. It does not: a partial fill is a `Fill` with a rest.
- `docs/architecture.md:198` lists "Latency sample counts" among what is identical
  in every run over a file: a duration of 0 cycles is dropped (`latency_tracker.hpp:69`,
  74), so they depend on the clock.
- The risk sample of a message's second quote starts when the strategy returned
  and contains the time the first quote spent in the gateway.

## 4. Proofs

`OrderBookProofs` proves, for every `U32 > 1`, every set of ids, every set of
prices below `INVALID_PRICE` and every set of quantities (`U32Assumption`,
`BookAssumption`):

- `TypeCorrect`: `Spec => []TypeOK`;
- `CacheIsCoherent`: `Spec => []CacheCoherent`.

The inductive invariant `IInv` is their conjunction. `CacheCoherent` alone is not
inductive: `CacheOnAdd` compares the new price with the cached one, and that this
finds the best level needs the prices to be naturals below the sentinel and the
set of levels to be such a set. The argument has three parts.
`BestIsBest` (of `TypesProofs`, the least or greatest natural of a bounded set)
and `BestPriceUnique` say that a non-empty set of prices has
exactly one best element;
`CacheOnAddIsTop` uses them to show that the incremental update of `add_order`
agrees with `TopOf` of the new levels; every other operation recomputes the cache
(`InvalidateCacheEstablishes`), which needs nothing but types. One lemma per
operation and one for each helper on a side (`AddToSideType`,
`RemoveFromSideType`) complete it.

For `LadderBook` the same module proves, where no price is the hash map's empty key
(`LadderFits`, which holds of the run's prices),

- `LaddersAlwaysAgree`: `LadderFits => (LadderSpec => []LaddersAgree)`.

Its invariant `LadderInv` is `IInv` of the book and one equation: each ladder is
`LadderOf` the side's levels, which has the levels, their best price and its
quantity. `AddKeepsLadder` and `RemoveKeepsLadder` say that `add` and `remove`
commute with it. The first shares `TopAfterAdd` with `CacheOnAddIsTop`; the second
needs, when the level removed is not the best, that the best one is still there
and unique (`BestPriceUnique`). The condition is necessary: `add` at price 0 is
refused by the hash map, and price 0 becomes the best ask all the same.

`ItchFeedProofs` proves, for every set of message kinds, stocks, prices whose
ticks are 32-bit and positive 32-bit quantities, any `FilterLocate` and any
number of orders (`FeedAssumption`):

- `ItchTypes`: `Spec => []TypeOK`;
- `ParserKeepsUp`: `Spec => []KnownOrdersAreListed`;
- `BookKeepsUp`: `Spec => []BookFollowsParser`;
- `LevelsKeepUp`: `Spec /\ []NoLevelOverflows => []LevelsMatchOrders`, and
  `LevelsKeepUpWithRoom`: `Spec => []LevelsMatchOrders` if `RoomFor(B)`.

The first three are proved together, one reference number at a time: `IInv` says of
every number in use that the exchange's order has its types (`ListedAt`), that the
parser's is the same order (`KnownAt`), and that the book's is the parser's unless
the two were made to differ (`BookAt`). A step changes the entries of at most the
numbers in its message, so `SameAt`, `SameIsKept` and `StepKeeps` leave only those
to look at. Executions and partial cancels come down to one lemma
(`ReductionKeeps`): exchange, parser and book all compute `Less`, the same
reduction, from equal orders. A new order rests on its number being nobody's
(`NextIsFresh`), which is why a repeated number would break the agreement.

Nothing in the code keeps a level from passing 32 bits, and a level that wraps is
no sum any more. `NoLevelOverflows` says of the live orders, not of the levels, that
those at one price add up to less than `U32`. The program does not ensure it;
`RoomFor(B)` does, where no quantity is above `B` and all numbers ever given out
times `B` are below `U32`. The proof needs one fact about the feed: an order that is
still listed, and of which the book has an old copy, has left the book
(`StaleIsGone`). Otherwise an execution could take more off a level than the book's
order has.

A sum over a set of orders is a fold, and no induction over it can be had. What
`TypesProofs` does instead: `SumsOver` is what a table of all partial sums of a
finite set satisfies, such a table exists and is unique (were there a set without
one, there would be a least such set, by `LeastSubset`), and so the fold has the
equation of one step, in any order of the elements (`SumStep`, `SumTakeOut`).
From there `AddMatches`, `CancelMatches` and their likes say, once for both feeds,
that each operation of the book keeps levels and orders in step.

`OrderGatewayProofs` proves, for every `U32 > 1`, every bound on the number of
orders and every set of 32-bit prices and quantities (`U32Assumption`,
`GatewayAssumption`):

- `GatewayTypes`: `Spec => []TypeOK`;
- `BookNeverCrossed`: `Spec => []NeverCrossed`;
- `IndexFindsResting`: `Spec => []RestingIsIndexed`;
- `RestingIsTracked`: `Spec => []RestingIsActive`;
- `FillsAreWithinLimit`: `Spec => []FillsWithinLimit`;
- `FillsAndRestAreTheOrder`: `Spec => []FillsAndRestAddUp`.

Here `IInv` adds four parts to these properties. `Shape` gives the types of every
variable over all ids; `IdsKnown` says that all ids in use were handed out, so
that the next one is new. `InCall` is what holds while `submit` runs: a new order
is tracked and does not rest yet, and a report that closes an order can only be
the order's own last fill, with nothing left of it. Without it a new order that
rests could be one the gateway has forgotten or is about to forget. `AfterCall` carries
that over to the reports still to be processed: none of them closes an order that
rests. The steps divide into those that only take orders off the book
(`RemovalKeepsIndex`, `ReductionKeepsIndex`, `ShrunkKeeps`), the one that adds one
(`RestKeepsBook`, where `CannotMatch` turns the failed loop condition into "every
opposite price is worse" by `BestIsBest`), and those that leave it alone
(`BookUnchanged`). `RestKeepsBook` needs that the new order's id does not rest, and
nothing about the order it overwrites: that is why the stale entry of finding 2
breaks neither the index nor the tracking of what does rest.

`FillInv` and `AddInv` are invariants of their own on top of `IInv`. The first says
that the prices reported so far get worse and that nothing that still rests opposite
is better than they are (`Worsening`, `StillWorse`), so that the next iteration
cannot report a better one; and that the fills booked so far
are those of the reports handled so far, in the same order. The second counts:
the reports' quantities and what the last one leaves are the order's, no more than
that is left of it, exactly that until the array is full, and the fills booked have
the quantities of the reports handled.

`TradingLoopProofs` proves, for every feed, every spread, lot, maximum position,
size, notional and collar limit and any number of orders (`LoopAssumption`):

- `LoopTypes`: `Spec => []TypeOK`;
- `PositionStaysWithinLimits`: `Spec => []PositionWithinLimits`;
- `ReportsAlwaysFit`: `Spec => []ReportsNeverDropped`;
- `QuotesMeetTheirReference`: `Spec => []ReferenceIsFair`;
- `ReducingQuotePasses`: `LeadsHome => (Spec => []ReducingQuoteAccepted)`.

The loop's book and gateway are the modules proved about before. `B` and `G` are
instances of `OrderBookProofs` and `OrderGatewayProofs` in the loop's variables, the
gateway's order quantities being `{lot_size}`; `BookOperations` and the lemmas
after it say that their actions are the loop's. So two parts of `IInv` are the
invariants of those modules (`BookOK`, `GatewayOK`), kept by their own theorems.
`Lots` is what the pipeline adds: every resting order is of one lot. Hence a sweep
fills an order whole in one iteration (`SweepKeepsLots`), there are at most two
reports, and at any point of a call the position can still take the lot in flight
(`CanTake`), which is what the risk check found before the call. `Priced` is the
second addition: while quotes are pending the update they were made from is the
book's cache, and valid. The position's limit thus rests on the lots; with orders
of two sizes it would need another argument.

`ReducingQuoteAccepted` depends on the parameters (section 3). `LeadsHome` is the
condition: quotes have room in 32 bits and below the notional limit, a lot is within
the size limit, and for every multiple `q` of the lot that may grow by one, if the
collar lets a quote pass that leads away from `q`, it lets the one pass that leads
back from `q + lot_size`. The default options satisfy it (100 and 200 lead back), and
so do those of the run `loop`. `OnWayHome` is the invariant: the
position is one the collar leads back from (`Reached`), and of each pending quote it
is known at which inventory it was made (`OfferedAt`); an ask that is left over may
have been made before the bid filled (`LastAsk`). A position the collar leads back
from stays one after a fill on either side (`AwayIsReached`, `BackIsReached`),
which `CanTake` carries through the gateway together with the limit.

`NativeFeedProofs` proves, for any number of orders, messages and faults, however
far the loop is behind (`NativeFeedAssumption`):

- `FeedTypes`: `Spec => []TypeOK`;
- `LevelsAreNeverEmpty`, `LevelsKeepUp`: `Spec /\ []NoLevelOverflows` implies
  `[]NoEmptyLevels` and `[]LevelsMatchOrders`;
- `BookFollows`: `Spec => []BookFollowsFeed`;
- `FeedActsAsL2View`: `Spec /\ []NoLevelOverflows => ActsAsL2View`, the refinement
  of `L2View`;
- the same three without the proviso where `RoomFor(B)` holds
  (`...WithRoom`).

`Shape` gives the types: every message in the recording carries a number and an id
that were given out, whatever faults hit it. `Covered` says that each level has
orders behind it that add up to no less than what it shows, `InStep` that they add
up to it exactly unless a trade was too large. The first is what is left after such
a trade, and enough for `NoEmptyLevels`.

`BookFollowsFeed` compares the book with a generator that may be many messages
ahead. Its invariant is `\E h : History(h)`: `h` is the sequence of the generator's
states, one per message (`Wrote` relates neighbours), each message in the recording
is the one `h` has under its number or a damaged copy of it (`Arrives`), and a loop
that saw no gap has the book of the state it has read up to, but for the damaged
orders (`Synced`, `Follows`). The orders are compared one by one (`Shows`): a message
that arrives as written does to its order in the book what the generator did to its
list (`IntactMessageFollows`), and any other touches at most the order it names, which
a damaged copy has in common with the original (`MessageLeavesOthers`,
`OthersStillShow`). That no gap was seen means that the next number read is the next
of `h`, so that faults that lose, repeat or swap messages drop out; a payload too
short for a number counts as number 0, which is never the next one. A swap of two messages is two gaps at least, and a loss at the
end of the recording is the reason the loop is compared with where it is and not
with the generator.

For the refinement the cache must be right too. `CacheOK` is `IInv` of
`OrderBookProofs` in the feed's variables (`AnyBook`, with all ids, prices and
quantities). `InsideIsTop` then turns the best price of the levels into the best
price of the orders, using that levels and orders are in step, and each message is
a step of `L2View` or a stutter (`MessageIsViewed`, `NextIsViewed`).

`ReplayProofs` proves, for every set of files of any length, any number of missing
bytes, every number of iterations, `--max-msgs`, array size and clock
(`ReplayAssumption`):

- `ReplayTypes`: `Spec => []TypeOK`;
- `SamplesHaveOneOwner`: `Spec => []OneOwner`;
- `OnlyUncheckedCrashes`: `Spec => []CrashesOnlyUnchecked`;
- `WholeFramesAreDelivered`: `Spec => []DeliversWholeFrames`;
- `SummaryOfLastRun`: `Spec => []SummaryIsOfLastRun`.

`IInv` has two halves. The trackers' says which of them live in which phase
(`LiveTrackers`, a part of `Control`), and that blocks and live trackers belong
together one to one (`Owned`); there is one lemma per operation of the tracker
(`ConstructKeeps` to `PrintKeeps`), of which `MoveKeeps` is the delicate one: what
the target had is freed, and the source must be left without a block. The
reader's says that a file is mapped only between `open` and `close` (`Mapped`), that
without one the reader is as it was constructed (`Unread`), except for a size left
behind by a failed `mmap`, which only a program that ignores `open`'s answer meets
(`Checked`), and that with one the position is where a frame begins
(`Reading`). `NativeFrame` and `ItchFrame` need that no two frames begin at the same
byte: positions are sums of lengths, which grow with every frame because headers
are not empty (`BytesGrow`, by a least counterexample again). When the loop has
ended there is nothing whole ahead (`NoneAhead`), or a frame without a payload
was taken, or the one too many for `--max-msgs`; from each, `WholeIs` and
`GivenAre` get the number of messages the property asks for.

`SummaryOfLastRun` has a second invariant, `Filled`: who holds the durations measured
in the run, which is the iteration's tracker (`Holds("lat")`), then the one it was
moved to in the last iteration, then the summary (`SummaryOf`). To hold them means
to have counted all and to have the first `kCap` in the array (`KeepsAll`), and
`OneMoreKept` says that `record` keeps it so at the array's end, too; `MoveHolds` and
`DestroyHolds` use that blocks have one owner. The rest is about sorting. `Sorted`
chooses an arrangement of the samples in ascending order, and `CanBeSorted` shows by
a least counterexample that there is one: the next sample goes before the first that
is greater (`OneMoreSorted`). In it the first and last are the extremes
(`EndsAre`), and at least as many samples are at most the one at a place as there are
places up to it (`RankOf`), which with the truncated index (`Places`) gives the ranks
of the percentiles; `NsGrows` carries the order over to nanoseconds.

`ContainerProofs` is about the two containers. For every set of keys and values,
every hash and every initial capacity that is a power of two from 4 up
(`FlatHashMapAssumption`) it proves of the hash map, whatever the hash,

- `TableTypes`: `Spec => []TypeOK`;
- `ProbesEnd`: `Spec => []ProbesTerminate`;
- `SizeIsExact`: `Spec => []SizeCountsSlots`;
- `OnlyShortShiftsHideKeys`: in a step after which some key is no longer where a
  probe for it ends, though all keys were before, `erase` vacated a slot that an
  occupied one follows (`ShortErase`);

and, since finding 1 says that the rest is not true of every hash,

- `KeysStayReachable`, `ActsAsMap`: `Spec /\ [][NoShortErase]_vars` implies
  `[]EveryKeyReachable` and `ImplementsMap`, the refinement of `AbstractMap`;
- `KeysStayReachableApart`, `ActsAsMapApart`: the same of `Spec` alone where
  `HashesApart` holds.

`HashesApart` says of finitely many keys that in a table of any size there is room
between a home slot and the next one used for all the keys of the first and a
vacant slot. The keys of `hash_apart` are such; with most hashes the first few keys
that collide are not, so the theorem with `NoShortErase` is the one that says what
the code does.

The invariant for every hash is `HashInv`: a table of the right kind with a vacancy,
and `size` the number of its entries (`Sound`). That a probe ends at exactly one
slot follows (`ProbeEnds`, `OneEnd`), and `OnWay`, "this slot is passed on the way",
replaces offsets and remainders. `Tidy` is added for reachability: each entry is
where the probe for its key ends. The steps have these parts. `PutKeepsTidy` and
`PutContents` are about insertion. Growth is a recursive function over the old
slots; `CopyExists` shows by a least counterexample that it is defined, and
`PartwayGoesOn` that each of its steps keeps `Partway`: the new table is tidy even
if the old one was not, at most half full, and has the entries copied so far.
`ShiftIs` says what the backward shift moves (`Shifted`), `ShiftFreesOne` that it
takes one entry away whatever the hash, and `ShiftKeepsTidy` that a shift up to a
vacant slot leaves the table tidy. `MapIs` then reads the abstract function off the
entries (`Contents`). For `HashesApart`, `EachInItsRoom` shows that in a tidy table
the keys of one home slot stay in the room kept for them: of those that do not, the
first after a vacancy was pushed out by one that does not either.

For every `RingCapacity` above 0 (`RingAssumption`; the code's powers of two are
among them) and every set of items it proves of the ring buffer

- `RingTypes`: `RingSpec => []RingTypeOK`;
- `RaceFree`: `RingSpec => []NoDataRace`;
- `SizeErrsSafely`: `RingSpec => []SizeIsSafe`;
- `IsFifo`: `RingSpec => ImplementsFifo`, the refinement of `BoundedFifo`.

The inductive invariant `RingInv` says that around the ring `tail_seen`, `tail`, `head` and
`tail`, `head_seen`, `head` lie in this order (`SeenIsBehind`), that a thread
inside the buffer has seen room or an item (`Admitted`), and that what is to be
published is in its slot (`Written`). `WrapIs` and `DistanceIs` replace the
remainder by a case distinction once, after which the steps are linear
arithmetic. In the refinement `PublishHead` is the abstract `Put`, `ReadSlot` the
abstract `Get`, and every other step a stutter; `RoomBehindHead` shows that the
slot after the head is not in use when a thread publishes.

Only model-checked:

- liveness (`EveryMessageEnds`, `ReplayEnds`): fairness and `ENABLED`
  are out of this prover's reach.

## 5. Not modelled

- `OrderBook::spread` (no caller but the tests; it underflows on a crossed book),
  `ExchangeSim::clear`, `Portfolio::reset`, `FlatHashMap::for_each` (its use in
  `PriceLevelMap::rescan` is the set of levels), the latency tracker's move
  constructor: none has a caller in the program.
- Statistics, the fill log, profit figures and the other printed values; option
  parsing; the clock.
- `test_runner.hpp`, `generate_itch_feed.py`, `itch_to_feed.py`, the shell scripts:
  no state of the program depends on them. The exchange of `ItchFeed` sends more
  than the generator does.
- Prices at the sentinel `UINT32_MAX`, and positions near 2^31, where
  `risk_engine.hpp:35` would overflow: see Abstractions.

## 6. Plan

What was planned is done: every safety property the passing runs check is also a
theorem. Four hold under a condition that section 4 names, without which they are not
true of every instance: `LaddersAgree`, `ReducingQuoteAccepted`, `EveryKeyReachable`
and `ImplementsMap`. What could come next: positions and prices at the ends of their
32 bits (`order_book.hpp:26`, `risk_engine.hpp:35`), which need the width of the types
in `OrderBook` and `RiskEngine`; and the printed statistics.
