# HFTToolset in TLA+

This directory holds a TLA+ development of HFTToolset, the C++23 library of the
repository: models of its concurrent data structures, its two order books, its
risk, matching, trade and market data engines and its telemetry, TLC runs that check them on small instances, and
TLAPS proofs of what matters most for every value of the constants. Paths below
are relative to the repository's `src/`, and `Module!Name` is a definition.

## 1. Inventory

| Component | State | Operations | Modelled |
|---|---|---|---|
| L3 order book (`orderbook/l3_order_book`) | `bids_`, `asks_` (price to FIFO queue), `order_index_`, two order counts | `add_order`, `cancel_order`, `replace_order`; depth and queue queries | `BookOps`, `L3OrderBook` |
| Ring buffer (`HPRingBuffer.hpp`) | array, `head_`, `tail_` | `push`, `pop`, `size` | `HPRingBuffer` |
| Memory pool (`common/memory_pool.h`) | free list, `free_head_`, `allocated_`, `in_use` | `allocate`, `deallocate`, `available` | `MemoryPool` |
| Risk engine (`risk/risk_engine`) | limits, positions, submit times, kill switches | `check_order`, `on_fill`, setters, kill and unkill | `RiskEngine`, `RiskSession` |
| Matching engine (`market/matching_engine`) | a book, an L1 feed and an L2 aggregator per symbol, `order_symbol_index_` | `add_symbol`, `process_new_order`, `process_cancel`, `process_replace` | `MatchingEngine`, `TradingSession` |
| L1 feed (`orderbook/l1_feed`) | last top of book, windows of spreads and trades | `update`, `record_trade`, `vwap`, `rolling_spread` | `L1Feed` |
| L2 aggregator (`orderbook/l2_aggregator`) | none | `snapshot` | `depth` of `BookOps`, `Snapshot` of `MatchingEngine` |
| Trade engine (`market/trade_engine`) | positions with average prices and profits | `process_trade`, `mark_to_market` | `TradeEngine`, `TradingSession` |
| Market data engine (`market/market_data_engine`) | a ring, last publication time per symbol | `on_tob_update`, `on_depth_update`, `on_trade`, `process_pending`, throttling | `MarketDataEngine` |
| Simple book (`market/order_book`) | two maps, locations of orders | `addOrder`, `cancelOrder`, `matchIncoming` | `OrderBook`, `TwoBooks` |
| Histogram and telemetry (`metrics/`) | buckets, sums and extremes; active timers and a mutex; atomic counters | `record`, `percentile`, `reset`; `start_timer`, `end_timer`, `record_*_latency` | `LatencyHistogram`, `Telemetry` (partly) |
| Scope timer (`ScopeTimer.hpp`) | a table of labelled timers for each thread | `start`, `end`, `endAndLog` | `ScopeTimer` (partly) |
| Clock and constants (`common/types.h`) | a simulated time | | the records the models use |
| Market data publisher, latency model, benchmark | callbacks, random generators, formatted output | | no, see section 6 |

How they interact. A client calls the matching engine, which asks the risk engine
(`check_order`), hands the order to the book of its symbol, tells the risk engine
of the incoming order's fills (`on_fill`) and publishes the book's top to the L1
feed and its depth to the L2 callback. The book calls a trade callback in every
iteration of its matching loop and a top-of-book callback after an operation that
changed something. The engine's trade callback gives each trade to the L1 feed's
window and to the client, who binds it to the trade engine. The simple book is
for clients that do without the L3 book; nothing in the repository uses it. Threads record latencies in the
telemetry's histograms while another prints them. The market data
engine hands messages to another thread through `HPRingBuffer`. The pool is a
building block for clients; nothing in the repository uses it.

What is hard in each, and what makes it correct:

* **Book.** Nested loops erase from two containers while they iterate over them;
  an index of iterators, two counters and the published top are maintained by
  hand on every path (rest, two kinds of fill, cancel, replace). It must never
  be crossed, must keep price-time priority, lose no quantity, leave no dangling
  index entry, tell clients the truth and return.
* **Ring.** Two threads share an array; each reads the other's index, perhaps an
  old value of it. No slot may be accessed by both; items come out once and in
  order.
* **Pool.** A linked list changed by compare and exchange, with accesses to
  `next_free` and `in_use` that are not synchronised otherwise. A slot belongs to
  one client at a time, none is lost.
* **Risk engine.** Two totals of positions, a sliding window of submit times, and
  limits and switches that change between check and fill. No fill goes past a
  limit; no window admits more orders than its rate.
* **Market data engine.** The feed thread fills a ring that the publisher thread
  drains; updates that come too soon after the last one of their symbol are
  dropped, and so is what a full ring refuses. Throttling must space a symbol's
  updates without silencing it, and what the ring took must arrive in order.
* **Matching engine.** State kept beside the books (routing, L1 feed, positions)
  must follow them. It does for routing and for the feed with its windows. It does
  not for the positions (section 5).
* **Trade engine.** A trade changes the positions of two parties, perhaps the same
  one, and averages that are updated under a condition. Every trade must be in
  both accounts, and profits must be money.
* **Simple book.** The matching loop written a second time, with other tests. It must
  trade with the same orders as the L3 book, at the same prices and for the same
  quantities, and rest the same ones. It does; what it tells of them is less (section 5).
* **Telemetry.** A histogram is plain memory that one thread writes and another
  reads; a timer's end is measured before the lock is taken. What is reported must
  lie between what was recorded before and what came meanwhile.
* **Scope timer.** Slots are found by a flag in one function and by label in
  another. A label must be timed from its last start; it is not (section 5).

`PROJECT.json` lists the hazards at their lines, with the properties that cover
each or the reason why none does yet.

## 2. Modules

    BookOps        a book as a value; what each piece of l3_order_book.cpp does to it
    PriceTimeBook  abstract: what a price-time priority book promises
    L3OrderBook    one symbol's book, in steps              EXTENDS BookOps
    SumProofs      lemmas on sums over finite sets          EXTENDS TLAPS
    L3OrderBookProofs   shape, quantities, places, refinements  EXTENDS TwoBooks, SumProofs
    OrderBook      the simple book and its client           EXTENDS BookOps
    TwoBooks       the L3 book matches as the simple one does  EXTENDS L3OrderBook
    BoundedFifo    abstract: a bounded queue
    HPRingBuffer   the ring, one memory access a step
    HPRingBufferProofs                                      EXTENDS HPRingBuffer, TLAPS
    SlotPool       abstract: slots that are free or taken
    MemoryPool     the pool, one memory access a step
    MemoryPoolProofs                                        EXTENDS MemoryPool, SumProofs
    RiskEngine     the operations of the risk engine
    RiskSession    check and fill, as process_new_order calls them  EXTENDS RiskEngine
    RiskSessionProofs                                       EXTENDS RiskSession, SumProofs
    L1Feed         a feed as a value                        EXTENDS BookOps
    TradeEngine    positions and what trades do to them     EXTENDS BookOps
    MatchingEngine books, routing, feeds and risk engine    EXTENDS L1Feed, RiskEngine
    TradingSession a matching engine bound to a trade engine  EXTENDS MatchingEngine, TradeEngine
    MatchingEngineProofs                                    EXTENDS TradingSession, SumProofs
    MarketDataEngine  throttling and the ring to the publisher thread
    MarketDataEngineProofs                                  EXTENDS MarketDataEngine, TLAPS
    LatencyHistogram  a histogram as a value
    Telemetry      timers, records and a reader of percentiles  EXTENDS LatencyHistogram
    TelemetryProofs                                         EXTENDS Telemetry, SumProofs
    ScopeTimer     the labelled timers of one thread
    MC*            the small instances for TLC

Each module with variables of a component (but `OrderBook`, whose states `TwoBooks`
maps to, and `ScopeTimer`) states one type invariant, its properties and, where
there is one, its refinement of an abstract module (`ImplementsPriceTimeBook`,
`ImplementsBoundedFifo`, `ImplementsSlotPool`) or of another component
(`BooksMatchAlike`). An operator that carries the
comment "Mutant:" is a plausible bug in the definition that follows it; each
property is broken by one of them, which shows that it depends on the code.

### L3OrderBook and BookOps

| Model | Code |
|---|---|
| `book.levels[side]` | `bids_` and `asks_`; a price that has no level is not in the domain |
| `book.order_index` | `order_index_`; the list iterator is the element of that queue with that id |
| `book.order_count` | `bid_order_count_`, `ask_order_count_` |
| `call` | the locals of a running `add_order`: order, `MatchResult`, whether the FOK pre-check passed |
| `report`, `tob` | the last returned `ExecutionReport`, the last `TopOfBook` given to `tob_cb_` |
| `RejectDuplicate`, `BeginAdd` | `add_order` up to the matching loop |
| `MatchOne` | one iteration of `match_against`: fill, trade, removal of a filled order and of an empty level |
| `FinishAdd` | status, `add_resting_order`, publication, return |
| `CancelOrder`, `RejectUnknown` | `cancel_order`; `RejectUnknown` also for `replace_order` |
| `ReplaceOrder` | `replace_order`: the cancel, which publishes, then the beginning of `add_order` |

`add_order` is several steps because the trade callback runs in every iteration
and can look at the book there. Within an iteration the callback runs before the
resting order is reduced; the model takes callback and reduction as one step, and
what it claims of states "while matching" is about states between iterations.

The queries are operators of `BookOps`: `TopOfBook`, `depth` and `quantity_ahead`. The order of
`std::map`, in which `depth` reads the levels, is `InOrder`: the i-th price is the one with i - 1
better ones.
Left out: times, symbols, client ids, trade numbers and `orders_at_price`. Prices are integers, as in the code (ticks). The iceberg code of
`FillResting` is modelled and proved about; no run reaches it, because
`add_resting_order` gives every order a hidden quantity of 0 and nothing else sets it.

### HPRingBuffer

The steps are the load of the other thread's index (with the full or empty test),
the access to the slot, and the store of the own index. A load may return a stale
value: the model remembers what the thread read last (`tail_seen`, `head_seen`)
and allows any value stored since (`Loadable`), which is what coherence of one
atomic variable guarantees. Release and acquire make the slot's contents visible
with the index, so slots hold one value. Reading a slot turns it into `Junk`: a
moved-from object. The two overloads of `push` are one action.

### MemoryPool

Each load, exchange and flag or count update is a step of a thread. An exchange
may fail with the expected value in place (`compare_exchange_weak`), and a failure
loads the value found. A stale first load needs no separate treatment, because a
thread may take it at any time after its call begins. `held` counts the pointers
clients have; a client gives back a pointer it got, once. The objects
constructed in the slots are left out.

`AllocateRead` reads `next_free`, a plain integer. With one allocating thread nobody
writes it then: the slot is on the list, only the allocator takes slots off, and a
deallocation writes its own slot. With two, the slot may be gone and a deallocation
may be writing it; the model takes the read before or after the write, which is
already enough for the run `pool_two_allocators` to fail.

### RiskEngine, RiskSession

An order passes the checks in the code's order: kill switches, price, quantity,
positions, rate. `check_rate_limit` is reached by orders that pass the others only
and forgets expired times even if it then rejects (`CheckOrder`). The comparison of
times is unsigned, so a time before the oldest kept one wraps around and counts as
expired (`Expired`). `kill_all` sets an atomic flag and may happen between a
check and its fill; every other operation belongs to the one calling thread.
`check_self_trade` is left out because nothing calls it.

### MatchingEngine

Books change by whole operations here (`AddOrder` folds the iterations of
`BookOps`, of which each but the last removes an order); the new order is two
steps, check and match, because the kill switch for all may come between. `taken`
and `given` are history variables that sum the trades, for comparison with the
positions of the risk engine and of the trade engine. `PutBook` ends every
operation that reached a book, also one that was refused there, as
`publish_market_data` does: the L1 feed (`l1`) is told of the trades, then of the
top, and the depth is given to the L2 callback (`l2`). Statistics, reports, execution
callbacks and an engine without a risk engine are left out.

### L1Feed

| Model | Code |
|---|---|
| `last_tob`, `recent_trades`, `spread_history` | `last_tob_`, `recent_trades_`, `spread_history_` |
| `update`, `record_trade` | the functions of these names |
| `Kept` | the bound of a window: `push_back`, then `pop_front` |
| `vwap`, `rolling_spread` | the same, as the two sums that the code divides |

### TradeEngine, TradingSession

`TradeEngine` has what a trade does to `positions_`. An average price is kept as the
quantity and the cost it is the quotient of, and profits are exact fractions, so
no property depends on rounding. `process_trade` updates the aggressor first and
then the passive party: a trader that trades with itself has both updates in one
position. `TradingSession` binds it to the trade callback (`Callbacks`), for new
orders and for replaces, and lets the client call `mark_to_market` in between. Its
history variables are the money and the units each trader got by its trades
(`ledger`, which also says whether a position was reopened) and each symbol's trades
(`prints`).

### OrderBook, TwoBooks

`OrderBook` has the three operations of the simple book. None of them calls
another, so the module has the client that makes an order book of them: it matches,
rests what is left of a `Day` or `GTC` limit order, asks the depth before it matches
a fill-or-kill order, and replaces by cancelling and matching. One iteration of
`matchIncoming`'s inner loop is a step, together with the removal of a level it
empties. `TwoBooks` maps the L3 book's state to the simple book's: `BooksMatchAlike` says
that every step of the one is a step of the other or none, and that the depths have the
same prices and quantities (`SamePricesAndQuantities`). Fields that the simple book never
sets are in the model with their defaults: `trade_id`, `resting_trader` and
`incoming_trader` of a trade (`Printed`) and `order_count` of a level (`Levels`). The
mapping writes these defaults in the place of what the L3 book's trades say there, and of
the counts `SamePricesAndQuantities` says that they always differ. An L3 order that is refused as a duplicate, or stopped by the FOK pre-check,
maps to no call at all.

### LatencyHistogram, Telemetry

| Model | Code |
|---|---|
| `active_timers` | `active_timers_`, read and written under `timer_mutex_` |
| `ending` | an `end_timer` that has read the clock and waits for the lock |
| `EndTimerLocked` | its critical section up to `record`: lookup, choice of histogram, erasure |
| `Begin`, `Store` | `record`: what it loads, and each of its stores |
| `BeginPercentile`, `LoadBucket` | `percentile`: load of the total, then of one bucket in each iteration |
| `reset` | `reset` of the histograms |
| `samples` (history) | the latencies whose record is complete |

The fields are not atomic. The stores of a record become visible to the reader in any
order; the reader's loads are taken in program order. The lock is held until the
record's last store, so a thread that ends a timer waits for the record of another.
`end_timer` looks at the clock before it takes the lock and `start_timer` after, so a
timer that another thread starts again in between gives a negative latency.

### ScopeTimer

The table is `thread_local`, so the module has one thread's. `start` takes the first
slot without `used`, `end` the first with it and the label, `endAndLog` the first of the
label whether used or not, as the three loops do.

### MarketDataEngine

| Model | Code |
|---|---|
| `on_tob_update`, `on_depth_update` | the functions of these names: `should_throttle`, then drop or push |
| `TooSoon`, `PublishTimes` | what `should_throttle` answers, and what it leaves in `last_publish_time_` |
| `on_trade` | `on_trade`, which never asks `should_throttle` |
| `Push` | `push` of the ring, which fails if the ring looks full to the producer |
| `Deliver` | one iteration of `process_pending`: pop, count, handlers |
| `received` (history) | what the handlers were called with; its length is `messages_published_` |
| `lost` (history) | messages whose `push` failed |
| `advance` | `Clock::advance`; the steady clock moves in the same way |

`md_queue_` is taken for the bounded queue that `HPRingBuffer` is proved to implement,
with one refinement: the producer may act upon an old `tail_` and see items as
present that were taken (`unseen`), so it may find the ring full when it is not. An
entry of `last_publish_time_` is written before the push and stays if the push fails.
A simulated clock that is set back is left out; the unsigned difference would
then wrap around and let the next update through.

## 3. Runs

| Run | Question | Bounds, and why they are enough |
|---|---|---|
| `l3_book` | Is a book under any sequence of adds, cancels and replaces never crossed, exact in index, counts, reports and published top, a price-time book, does every call return, and does the simple book match alike? | 3 order ids, 3 prices, GTC quantities 1 and 2, IOC and FOK of 2, market orders of 0 and 3, market FOK, replaces to 2 and -1: a sweep can empty a level and stop in the next, a fill is partial or exact, two orders queue at a level. Ids are reused after they leave the book. The ids play the same part, so one of them stands for the orders that never rest (`o3`, which otherwise rests in the middle) and one for those replaced (`o1`). |
| `ring_buffer` | Do producer and consumer with stale loads stay apart, and is the ring a queue that a polling consumer empties? | Size 4, 2 items: full, empty and wrapped in every alignment. |
| `pool_one_allocator` | Is every slot in one place, whatever exchanges fail? | 3 threads, 3 slots, one of the threads allocates. Two free at once while the allocator is between read and exchange. |
| `risk_session` | Do limits and rates hold while limits and switches change? | 1 trader, 2 symbols, 2 sets of limits, times 0 to 3 with a window of 1: a trader can be at, below and (after a lowered limit) above its limit, and a window can slide past. |
| `engine` | Do routing, feeds with their windows, depth, the risk engine's record of new orders and the trade engine's positions and profits follow the books, and what gets past a kill switch? | 2 symbols, 2 traders, 8 orders with 5 ids, so that a side can have two levels, cancels with and without a symbol, 2 replaces, a mark; at most 3 accepted orders per trader, by its rate limit; windows of 2 (1000 trades and 500 spreads in the code), which 3 trades slide. A trader can trade with itself, through a resting order or a replace, and reduce, close, flip and reopen a position. |
| `market_data` | Are throttled updates spaced, is no symbol silenced, and does what the ring took arrive in order? | 2 symbols, a ring of 2, an interval of 0 or 2 that changes at any time, 3 calls, times 0 to 3: the ring can be full, also on an old index, and updates come within, at and beyond the interval. The bounds are `MaxTime` and `MaxUpdates`. |
| `telemetry` | Is a histogram exact between records, and a percentile that is read during them bracketed? | 2 threads, a timer they share, one that is not recorded, 3 buckets of 2, 2 direct latencies, 2 percentiles, times 0 to 2, 3 records: latencies below zero, in every bucket and beyond the last, and a reader that meets two records. |
| `l3_queue_position`, `pool_two_allocators`, `engine_risk_positions`, `trade_pnl`, `scope_timer` | Statements of comments and documents that the code does not meet: section 5. | One price and two traders for the book; two threads for the pool; the instance of `engine` for positions and profits; two labels and three slots for the timers. |

The instances are named sets in the MC modules. The bounds that are constants of a
specification are `RiskSession!MaxTime`, the last submit time, `MaxTime` and
`MaxUpdates` of `MarketDataEngine`, `MaxTime` and `MaxSamples` of `Telemetry`, and `MaxTime` of
`ScopeTimer`. No other variable needs one: quantities are bounded by what can rest, positions by
limits, and the history of `accepted` by the rate and the times.

What the passing runs show beyond the type invariants:

* `NotCrossed`, `IndexMatchesBook`, `CountsMatchBook`: the book's containers are
  consistent between any two iterations of matching.
* `QuantityConserved`: what the incoming order loses, the resting order loses and
  the trade prints, for every fill that leaves the order resting. A fill that takes
  the rest of an order is a step of the abstract book (`ImplementsPriceTimeBook`).
* `TobCurrent`: no path changes the best level without publishing it.
* `ReportMatchesBook`: a limit order's report says whether and with how much it rests.
* `ImplementsPriceTimeBook`: best price first, then earliest; fills at the resting
  price; FOK all or nothing; a replaced order loses its place.
* `CallReturns`: the loops end, also for quantities of 0 and -1.
* `NoSlotRace`, `SizeIsSafe`, `ImplementsBoundedFifo`, `ItemsAreConsumed`: the ring.
* `OnePlace`, `CountsSlots`, `NoDoubleFree`, `ImplementsSlotPool`: the pool. `CountsSlots`
  says how far `allocated()` lags; it can exceed the capacity for a moment, and
  `available()` then wraps around.
* `NetIsSum`, `LimitsRespected`, `RateLimited`: the risk engine. `RateLimited` counts
  from a history of accepted orders, not from the deque that is pruned.
* `PriorityKept`: `quantity_ahead` of a resting order never grows, whoever joins,
  leaves or is replaced.
* `BooksMatchAlike`: the simple book, used as its operations allow, trades with the same
  resting orders as the L3 book, at the same prices, for the same quantities and in the
  same order, leaves the same remainder, keeps the same ids and open quantities in the
  same queues and the same index, and its depth has the same prices and quantities. Not
  the same are the trade ids, the traders of a trade and the order counts of a depth
  (section 5), and the trades come at once when `matchIncoming` returns, not by a callback.
* `RestingIsRouted`, `FeedsCurrent`, `RiskSeesNewOrders`: the engine's copies.
  `FeedsCurrent` compares what L1 and L2 subscribers were shown last with each other
  and with the book (`FeedsAgree`), and the feed's windows with a history of all trades.
* `KillLetsOneThrough`: of new orders, only the one between its check and its matching
  trades after the kill switch for all was thrown. Replaces are another matter
  (section 5).
* `TradeEngineSeesAllTrades`: unlike the risk engine, the trade engine hears of every
  trade, for both parties, and a symbol's positions sum to nothing.
* `MarkedAtLiquidationValue`: until a position is reopened or flipped, realised and
  unrealised profit at any mark are the money of its trades and the value of what is
  held. It relates averages, profits and the history of trades.
* `PercentileBracketed`: a percentile read while threads record is, to half a bucket,
  that of some set of samples between those known when the reader began and those begun
  when it ended; it is `MAX_LATENCY_NS` only if a counted sample had not reached its bucket.
* `HistogramIsExact`: total, sum, extremes and buckets have each latency once, also
  those out of range and those below zero.
* `ThrottleSpacing`: book updates of a symbol are an interval apart, whatever was
  refused and however the interval changed. It counts updates sent under an
  interval only: `should_throttle` does not record the time of others, so the first
  update after an interval is set may follow one at once.
* `NotStarved`: a fast feed does not push the end of the interval before itself.
  It speaks of some update of the symbol. Top of book and depth share an entry of
  `last_publish_time_`, so when both are published at once, as
  `publish_market_data` does, the depth is the one that is held back each time.
* `DeliveredInOrder`, `EverythingArrives`: what the ring took is handed over in order,
  once, in the end. What it refused is lost, trades too (`lost`).

Every run checks for deadlock.

### Fairness

`L3OrderBook` assumes weak fairness of `MatchOne` and `FinishAdd`: the thread in
`add_order` keeps running. Nothing obliges a client to call again.
`HPRingBuffer` assumes that a push once begun goes on and that the consumer keeps
polling, with loads that eventually return the newest value, as hardware does; a
producer need not push. `MarketDataEngine` assumes weak fairness of `Deliver`: the
publisher thread keeps polling. The pool states no fairness: a lock-free exchange may fail
for one thread for ever. Neither do the risk engine, the matching engine with its
trade engine, the telemetry and the timers: no property of theirs says that
something happens, and their operations, but for the telemetry's mutex, do not wait.

### Preconditions

* One thread uses a book, a risk engine (but for `kill_all`) and a matching engine:
  they have no locks.
* One producer and one consumer use a ring, as its documentation says.
* `RestingIsRouted`: an order id is used for one symbol only. An id used for two
  symbols overwrites its entry.
* `RateLimited`: submit times do not decrease, and all limits of the run have the
  same window.
* `BooksMatchAlike`: the simple book's client never submits an id that rests; the book would
  overwrite the entry of the first.
* `HistogramIsExact`: the callers of `record_*_latency` do not record into a histogram
  into which another thread records, and `reset` is called while nothing records: the
  fields are plain variables, and a sample could be lost.
* `ScopeTimer!end` is called for a label that is timed; the function returns nothing for
  another.
* `LimitsRespected`: an order that passed is filled at once or not at all. A resting
  remainder that fills later is the subject of a finding.

## 4. Proofs

All are checked by `tlapm`, from the constants' named assumptions only: `SizeAssumption`
and `JunkAssumption` of the ring, `PriceAssumption` and `InputAssumption` of the book,
`LimitsAssumption` and `SessionAssumption` of the risk engine, `CapacityAssumption`,
`IntervalsAssumption` and `BoundsAssumption` of the market data engine, `CapacityAssumption`
and `ThreadAssumption` (finitely many threads) of the pool, `RequestsAssumption` (orders and
replaces have the types of their fields) and `L2DepthAssumption` of the matching engine,
`HistoryAssumption` (a feed keeps at least one trade and one spread) of the L1 feed,
`TradersAssumption` (finitely many trader ids) and `MarksAssumption` (prices of marks are
numbers) of the session, `BucketAssumption` and
`HugeAssumption` (every bucket is below the largest integer) of the histogram, and
`RouteAssumption` (a timer is recorded in one histogram at most), `PercentilesAssumption` and
`LatenciesAssumption` (what is recorded, and the clock, fit 64 bits) of the telemetry.
`NoSymbolAssumption` is not used. Where a theorem needs more, its statement has the
hypothesis.

**HPRingBufferProofs**, for every size and every set of items: `TypeCorrect`,
`SlotsDoNotRace`, `SizesAreSafe` and `RingIsBoundedFifo`, that the ring implements
`BoundedFifo`. The inductive invariant `IInv` adds to the types that, going round the
ring, the tail lies between the tail the producer saw last and the head, and the head
the consumer saw last between the tail and the head (`IndexOrder`), that a push that has passed its test still has room and has
written its slot before it publishes (`PushHasRoom`, `PushHasWritten`), and that a pop
that has passed its test still has an item (`PopHasItem`). `NoSlotRace` alone is not
inductive: it says nothing of what a thread acts upon, and the order of the four
indices is what makes acting upon an old value harmless. The refinement maps a
push to its publication and a pop to its move out of the slot; `QueueLemma` gives
the shape of the abstract queue, `StepRefines` has one case per action.

**L3OrderBookProofs**, for every set of ids, traders, prices, orders and replaces:
`TypeCorrect` (no level has an empty queue, so `front()` is never called on one),
`BookNeverCrossed` and `IndexIsExact`. The invariant is

    IInv == TypeOK /\ IndexMatchesBook /\ NotCrossed /\ CallSane

where `CallSane` says of the running `add_order` that its id does not rest, that it
has not more left than it began with, and that an order the FOK pre-check stopped is
FOK. It is needed because `FinishAdd` rests an order without looking: the index
stays exact only if its id is not there, and the book stays uncrossed only if
matching ended because no level crosses any more (`MatchingDone`), and not because of
the pre-check: an order that rests is never FOK. `UnlinkLemma`, `RestLemma`, `FillFrontLemma` and
`WithdrawLemma` say what each write does to a well-formed book, one lemma per
action carries the invariant, and `NextIInv` combines them. `FillRestingLemma` shows
that a fill conserves quantity, displayed or hidden, iceberg or not.

**SumProofs**, lemmas only, which the second part of `L3OrderBookProofs` and most other
proof modules use. A sum over a set is a fold, and a fold a recursive function on
sets that the library defines by a `CHOOSE`. `SumsExist` and `SumsUnique` show that the
function exists and is determined, by induction on the size of an explicit set of
subsets (`NatLemma`, `SubsetLemma`, from the well-foundedness of the natural numbers). From
them: the sum over a set with one element more or one value changed (`SumAdd`,
`SumUpdate`), over a union and over an image (`SumUnion`, `SumImage`). The prover cannot
use an induction theorem that takes an operator; a set is enough for these.

**L3OrderBookProofs**, its second part, for every set of orders, traders, prices and requests:
`CountsAreRight`, `TopOfBookIsCurrent`, `ReportsAreTrue`, `QuantityIsConserved` and `PlaceIsKept`. The
invariant is

    AInv == IInv /\ Sound(book) /\ OneCall /\ CallFresh /\ TobTold /\ ReportMatchesBook

`Sound` adds to the shape of the book that the counts are sums over the levels
and that nothing rests with nothing left. `TobCurrent` speaks of the states between
calls and is not inductive: `TobTold` says that until a call has traded, the top is still
the one published, which is why a call that ends without a trade and without resting may
leave the subscriber alone; `CallFresh` ties "has not traded" to "has all it came
with". Each write of the code is one of three changes of one queue: an order
leaves it, joins its end, or is filled in place (`Loses`, `Gains`, `Fills`). For each change
there is one lemma on places and quantities (`LosesOthers`, `GainsOthers`, `FillsOthers`)
and one on the sums (`LosesSound`, `GainsSound`, `FillsSound`); `MatchOneEdits` and
`FinishAddEdits` say which changes an action makes. `PlaceIsKept` needs that what an
order displays does not grow when it fills (`FillShown`); that is so because no order
that rests is an iceberg, which `Sound` says too: `add_resting_order` has no way to make one.

**L3OrderBookProofs**, its third part: `BookKeepsPriceTimePriority`, that the book implements
`PriceTimeBook` step by step. The abstract book is a set of records, one for each id in
the index (`View`, `Views`); `LosesSet`, `GainsSet` and `FillsSet` say what the three changes
do to that set, one lemma per action that the abstract step does the same. The
invariant is `RInv == AInv /\ EnoughLeft`, which `FillOrKillIsDecidedOnce` states: while a
fill-or-kill order matches, what the book still holds at prices it accepts covers what it
has left, and one that was stopped has got nothing. The code looks once, before its loop,
and the abstract `Kill` and `Settle` look at the end; only this invariant says that both
see the same. `CanFillLemma` shows that the sum of the pre-check, level by level and
queue by queue, is the abstract sum over records.

**L3OrderBookProofs**, its last part: `BooksAlwaysMatchAlike`, that the simple book matches, rests
and removes step by step as the order-level book does, and that its depth has the same prices and
quantities; trade ids, traders and order counts are not part of it. `FlatChanged` and `FlatWithdraw` say that a
queue put in its place is put in the same place of the simple book, with or without a level
that empties; `MatchesSimply`, `RestsSimply`, `CancelsSimply` and `FinishSimply`, one lemma per action, that
the writes and the tests are the same. Three things are not plain. `cancel_order` renumbers those
behind, `cancelOrder` does not: the simple queues have no numbers to compare. The two check a
fill-or-kill order by different sums, the depth of the simple book against the levels that
cross, and `SufficesLemma` shows that they let the same orders through: the depth lists every
level once (`OrderIsComplete`), a level it may not trade with counts nothing (`ReachedLemma`), and both
add up the same quantities (`SimpleQtyLemma`). And `bid_depth` adds up what is displayed
only, `bids` all there is: the quantities are equal because no order hides anything, which the invariant
`PInv == AInv /\ Plain(book)` adds (`PlainStep`); an iceberg would make them differ.

**MemoryPoolProofs**, for every capacity and every finite set of threads: `TypeCorrect`,
`SlotsHaveOnePlace`, `AllocatedIsExact`, `AssertionHolds` and `PoolIsSlotPool`, that the pool
implements `SlotPool`. All have the hypothesis `OneAllocator`, at most one thread that calls
`allocate`; with two the run `pool_two_allocators` refutes `NoDoubleFree`. The model says which
slots are free by a walk along `next_free` (`Reached`, a recursive function); the proof, by a
list: `Ordered` says that some injective sequence of slots begins at `free_head_`, is linked and
ends at the capacity, and `WalkLemma` that the walk meets just its slots. `ListStays`,
`ListPops` and `ListPushes` say what each write does to it. `IInv` adds what a thread may
rely on between its steps (`ThreadOK`): what `allocate` has read of the head is still its link,
and the head is still on the list, because the only thread that takes from the list is itself
and a link is written only in a slot that is in its writer's hands (`SlotOK`). That is
the step that a second allocator breaks. `OnePlace` alone is not inductive: it does not
relate `seen` to the list. That `allocated_` stays above zero (`TypeCorrect`) follows from
`CountsSlots` and `DueAreTaken`: the slots that calls have taken and not counted are different
slots.

**RiskSessionProofs**, for every set of traders, symbols, limits and orders: `TypeCorrect`,
`NetIsAlwaysSum`, `LimitsKept` and `RateLimitKept`. `IInv` adds `PassedFits`: an order that
passed still fits the limits until its fill. `RateLimitKept` assumes that all limits have
one window (`WindowIs`), as the property does; its invariant `RateInv` says that the
deque `check_rate_limit` pops has lost no time that the window still covers
(`Remembers`), which with two windows would be false.

**MatchingEngineProofs**, for every set of symbols, orders and requests: `RoutingIsKept` and
`KillStopsNewOrders`. `RoutingIsKept` has the hypothesis `OneSymbolPerId`, that a client
uses an id for one symbol. Its invariant `RoutingInv` adds to `RestingIsRouted` that the id of
each order that rests was submitted for the symbol of its book (`Submitted`): without it, the
route of a new order could overwrite that of an order which rests in another book, and a
cancel could drop it. What `AddOrder` does to the index is proved for the loop as a whole
(`AddOrderIndex`): `MatchedLemma` shows that the recursive `Matched` is what some
number of iterations leave, and `IterateIndex` that none of them adds an entry.

The second half of the module is about the accounts: `RiskHearsOfTrades` and
`TradeEngineHearsOfTrades`, for every set of symbols, requests and marks. The engine's books
change by whole operations, so what `L3OrderBookProofs` shows of a book
step by step has to hold of the loop run to its end. `L3OrderBookProofs` therefore has
what its steps do to a book as lemmas without its variables (`WithdrawSound`, `RestSound`,
`IterationLemma`), and `Book == INSTANCE L3OrderBookProofs WITH ...` brings them here; the
instance is of constants (every integer a price, no requests), for which its assumptions
hold, and `SameTests` to `SamePrinted` show that its operators are the engine's. `EngineInv`
says that every book is sound; from it `AddOrderSound` shows that a report's filled quantity
is the sum of its trades. That is not plain: `AddReport` says zero of an order that the
pre-check killed, and agrees with the trades only because such an order makes none. Accounts
are folds over these trades, and the library's fold is a `CHOOSE`; `FoldsExist` and `FoldPasses`
turn one into a sequence of accounts, one per trade, along which `SettleAdds` and `PositionsAdd`
are inductions. `Share` names what a trader has of the first k trades. The invariants are

    RiskInv     == EngineInv /\ KnowsTraders(trader_states) /\ taken \in Totals /\ RiskSeesNewOrders
    PositionInv == EngineInv /\ one order checked at most /\ HasNets(positions)
                   /\ taken \in Totals /\ given \in Totals /\ Accounts(positions, taken, given)

`RiskInv` needs that all trades of an operation have one aggressor (`OneTaker`), `PositionInv`
that at most one order is between check and match, and `TradeNet` that what one
party of a trade wins the other loses, also when they are one trader and the second update
reads what the first has written.

The last part is about what subscribers see: `FeedsFollowBooks`, for every set of symbols and
requests and every size of the windows. Its hypothesis `L2Depth > 0` says that a depth has
levels; a depth of none cannot agree with a top of book. The invariant is

    FeedInv == EngineInv /\ one order checked at most /\ an L1 feed for every book
               /\ prints is a history of trades, empty where there is no book
               /\ \A symbol \in DOMAIN books : Shown(symbol)

where `Shown` says that the last depth is the book's, if there has been one, that a feed has
the book's top (`Follows`), that its trades are the last of all that were ever printed
(`WindowAt`), and that if a spread is shown it is also the newest of those that are kept
(`SpreadKnown`). `FeedsCurrent` speaks of the sums that a subscriber computes; the windows have
to be in the invariant because a sum does not tell which trade leaves next. `WindowStep` is
the step of a window, also when it slides, `RecordedWindow` the same for all trades of an
operation. `RankLemma` shows that for each k below their number some price of a side has
just k better ones, and `OrderLemma` and `DepthLemma` that the order in which `depth` walks the
levels therefore begins with the best and descends or ascends; `VwapOfLast` compares two folds, over a feed's trades and over
the history, as two sequences of partial sums.

At its end is the trade engine's valuation: `MarksAreLiquidationValues`, for all marks and prices.
`MarkedAtLiquidationValue` says what profits are worth at a price, and says nothing of how the
next fill changes that; its invariant

    LedgerInv == EngineInv /\ Matches(positions, ledger)

relates each position to what its trader has by its trades (`Agrees`). While nothing was
closed, the two averages have just the quantities and the money that came in (`Building`). Once
something was, the average of the side that was opened no longer changes, and the realised
profit is the cash less what is still held, at that average (`Valued`); the code never
computes that cash, it adds a gain for each partial close. `FillBuilds`, `FillCloses` and `MarkedWorth`
are about the three steps that matter. Profits are fractions in lowest terms, and equal only if
their terms are: `Worth(a, n, d)` says that a is n of d to the one, `FractionWorth` that dividing by
the greatest common divisor keeps that, `PlusWorth`, `TimesWorth`, `GainWorth` and
`AverageWorth` that sums, multiples, gains and averages have the worth they should, and `PlusWhole` that what is
worth a whole number is that number over one.

`SessionTypeCorrect` is the type of the whole session. Its invariant is `TypeParts` with `EngineInv`,
`PositionInv` and `LedgerInv`: a type alone is not inductive, since what a trade puts into a window
has a quantity only because a book's queues hold no order of nothing, and an average has a
denominator only because a side that has an average has a quantity. `UpdateType` is about a
feed after any number of trades, `OnFillType` and `CheckOrderType` about the risk engine.

**MarketDataEngineProofs**, for every set of symbols, of intervals and every capacity:
`TypeCorrect`, `UpdatesAreSpaced`, `NoSymbolIsStarved` and `DeliveryInOrder`. `IInv` adds
that `last_publish_time_` is not behind any book update that went into the ring
(`RecordedIn`) and is the time of one that was given to it (`PublishedIn`): the first spaces
the updates, the second keeps a symbol from being silenced by an update that was not sent.

**TelemetryProofs**, for all sets of threads, timers and histograms, any number and width of
buckets, any latencies and any percentiles above zero: `TypeCorrect`, `NothingIsLost` and
`PercentilesAreBracketed`. The invariant is

    IInv == Times /\ Types /\ Exclusive /\ Kept /\ \A r \in reading : Reads(r)

`HistogramIsExact` speaks of the moments at which nothing is recorded. In between, `Kept`
says that a record has loaded all that was recorded before (`Exact`) and that the histogram
is what it loaded but for the fields it has stored (`PartlyStored`); `Exclusive`, that nobody else
stores into the same histogram meanwhile, so that no store overwrites another's. The stores
are in any order, `StoredLemma` is about any one of them and `AllStored` about the last: the
histogram then is exact for one latency more, in whatever bucket, above the maximum or
below zero. `Reads` is about a reader between two loads: the sum of the buckets before
`next` is at least what the latencies known at its begin have there (`Below(r.known, r.next)`),
and at most what all begun since have, those included whose record is not finished; the sum
has not reached the target. Sorted sequences make a rank of this: `CutLemma` says that the
first `Below(s, i)` numbers of a sorted sequence are those in the buckets before the i-th,
`BelowInserted` and `InBucketInserted` what one latency more does, `BucketLemma` that a bucket
is an interval of latencies, clamped at both ends. That the
sum is within both bounds at every load, whatever was recorded between two, is what makes the
answer a latency of the rank asked for, and half a bucket is what its middle can be off.

Model-checked only: liveness (`CallReturns`, `ItemsAreConsumed`, `EverythingArrives`), which is out
of the prover's reach.

## 5. What the code does otherwise than it says

Each of these is a run that TLC refutes:

* `QueuePosExact`: a fill that removes the front of a queue does not renumber those
  behind it, so `queue_position()` stays too high, and a later order can get a
  number that is taken. `l3_order_book.h` calls the field the position in the queue.
* `NoDoubleFree`, two allocating threads: between the read of `next_free` and the
  exchange, the head can be taken and given back over a different list. The
  exchange succeeds and a slot is given out twice.
* `RiskSeesAllTrades`: fills of resting orders and of replaced orders do not reach
  the risk engine. `risk_engine.h` calls `positions` the net position per symbol.
* `RealizedIsCash`: a trade that takes a position through zero enters no average price,
  and averages survive the position they belong to. A trader that is flat then has a
  `realized_pnl` that is not what it received less what it paid, which
  `market/README.md` calls the realized PnL on position reduction.
* `LogsLatestStart`: `start` takes a new slot for a label that has one, and `endAndLog` logs
  the first slot of the label and never frees it. `ScopeTimer.hpp` says that a start
  overwrites an existing timer with the same label.

Four more are plain from the code, and no run is kept for them:

* `risk_engine.cpp` says that the matching engine prevents self-trades at match time;
  nothing does, and `self_trade_prevention` is never read. Self-trades happen in
  `l3_book` and in `engine`.
* A market order with FOK that the pre-check stops is reported `New`, where
  `market/README.md` says that a FOK order is filled or rejected.
* The simple book is no replacement for the L3 book in what it returns, although
  `order_book.h` calls it an alternative: `matchIncoming` gives a trade neither an id nor
  its two traders, which stay 0, so that a trade engine would book both sides on trader 0,
  and the levels of its depth have an `order_count` of 0. `OrderBook` does the same.
* A replace asks no risk check and trades while the global kill switch, which "rejects
  all orders", is on.

## 6. Plan

Done, in this order: the book with its abstract specification and its invariant
proved; the ring, with its refinement proved; the pool; the risk engine; the
engine that composes books and risk engine; the market data engine, on the queue
that the ring implements; the depth and queue queries; the L1 feed's windows; the
trade engine, bound to the matching engine; the simple book, compared with the L3
book; the histogram, the telemetry's timers and the table of scope timers.

Not modelled, and why:

* the latency model: random draws added to a time, with no control;
* the market data publisher: it calls the one callback it was given and keeps no
  other state;
* the benchmark and the timer objects that print: wall-clock time and output;
* the telemetry's atomic counters and sums: additions that nothing reads back but the
  printing, whose averages can mix two moments;
* the clocks, but for what the models call a time: a simulated clock is one number
  that its owner sets;
* `check_self_trade` and `orders_at_price`, which nothing calls or which only copy.

What remains is a run for `unkill_all`, which also clears the switches of single traders,
and one for submit times that go back.
