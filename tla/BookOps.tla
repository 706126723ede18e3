------------------------------ MODULE BookOps ------------------------------
(***************************************************************************)
(* The order-level book of src/src/orderbook/l3_order_book.cpp as a value, *)
(* and what each piece of the code does to it.  A book is a record of      *)
(*   levels       bids_ and asks_: a function from the prices that have a  *)
(*                level to the FIFO queue of L3Order records at that price *)
(*   order_index  order_index_: where each resting order is.  The list     *)
(*                iterator of an OrderLocation is the element of the queue *)
(*                with that id                                             *)
(*   order_count  bid_order_count_ and ask_order_count_                    *)
(* L3Order.side and .price are where the record sits; times, symbols,      *)
(* client ids and trade ids are left out.                                  *)
(***************************************************************************)
EXTENDS Integers, SequencesExt

Side == {"Buy", "Sell"}
OrderType == {"Limit", "Market"}
TimeInForce == {"Day", "GTC", "IOC", "FOK"}
OrderStatus == {"New", "PartiallyFilled", "Filled", "Canceled", "Rejected"}

Opposite(side) == IF side = "Buy" THEN "Sell" ELSE "Buy"

\* The orders of the two std::maps: bids descend, asks ascend.
Better(side, p, q) == IF side = "Buy" THEN p > q ELSE p < q

\* Mutant: equal prices do not trade.
CrossesStrictly(order, p) ==
  \/ order.type = "Market"
  \/ Better(order.side, order.price, p)

\* The price check of the two matching loops.
Crosses(order, p) ==
  \/ order.type = "Market"
  \/ ~Better(order.side, p, order.price)

LesserOf(a, b) == IF a <= b THEN a ELSE b

\* C++ integer division rounds towards zero.
TruncDiv(a, b) == IF a >= 0 THEN a \div b ELSE -((-a) \div b)

OpenQty(o) == o.visible_qty + o.hidden_qty

VisibleQty(queue) == FoldLeft(LAMBDA sum, o : sum + o.visible_qty, 0, queue)

TotalQty(queue) == FoldLeft(LAMBDA sum, o : sum + OpenQty(o), 0, queue)

EmptyBook ==
  [levels      |-> [s \in Side |-> <<>>],
   order_index |-> <<>>,
   order_count |-> [s \in Side |-> 0]]

\* Mutant: both maps ascend.
IsFirstAscending(levels, side, p) ==
  p \in DOMAIN levels[side] /\ \A q \in DOMAIN levels[side] : p <= q

\* begin() of the map of one side.
IsBest(levels, side, p) ==
  /\ p \in DOMAIN levels[side]
  /\ \A q \in DOMAIN levels[side] : ~Better(side, q, p)

----------------------------------------------------------------------------
(* The writes. *)

\* Mutant: the empty level stays.
SetLevelKeepingEmpty(side_levels, p, queue) ==
  [q \in DOMAIN side_levels \cup {p} |-> IF q = p THEN queue ELSE side_levels[q]]

\* Put a queue at a price; a level whose queue became empty is erased.
SetLevel(side_levels, p, queue) ==
  [q \in (DOMAIN side_levels \cup {p}) \ {x \in {p} : queue = <<>>} |->
     IF q = p THEN queue ELSE side_levels[q]]

\* Mutant: the index entry stays.
UnlinkKeepingIndex(book, side, p, id, queue) ==
  [levels      |-> [book.levels EXCEPT ![side] = SetLevel(@, p, queue)],
   order_index |-> book.order_index,
   order_count |-> [book.order_count EXCEPT ![side] = @ - 1]]

\* Mutant: the count of the side stays.
UnlinkKeepingCount(book, side, p, id, queue) ==
  [levels      |-> [book.levels EXCEPT ![side] = SetLevel(@, p, queue)],
   order_index |-> [x \in DOMAIN book.order_index \ {id} |-> book.order_index[x]],
   order_count |-> book.order_count]

\* Order id leaves the book, and its level keeps the rest of the queue.
Unlink(book, side, p, id, queue) ==
  [levels      |-> [book.levels EXCEPT ![side] = SetLevel(@, p, queue)],
   order_index |-> [x \in DOMAIN book.order_index \ {id} |-> book.order_index[x]],
   order_count |-> [book.order_count EXCEPT ![side] = @ - 1]]

\* What an iceberg displays at a time.
IcebergSlice == 100

\* Mutant: the fill is not counted as filled.
FillRestingUncounted(o, qty) == [o EXCEPT !.visible_qty = @ - qty]

\* A fill takes displayed quantity first, then hidden, and an iceberg that
\* shows nothing any more displays its next slice.
FillResting(o, qty) ==
  LET shown     == IF qty <= o.visible_qty THEN o.visible_qty - qty ELSE 0
      hidden    == IF qty <= o.visible_qty THEN o.hidden_qty
                   ELSE o.hidden_qty - (qty - o.visible_qty)
      replenish == IF shown = 0 /\ hidden > 0 /\ o.is_iceberg
                   THEN LesserOf(hidden, IcebergSlice) ELSE 0
  IN  [o EXCEPT !.visible_qty = shown + replenish,
                !.hidden_qty  = hidden - replenish,
                !.filled_qty  = @ + qty]

\* One iteration of match_against on the front of the queue at (side, p): the
\* iteration that leaves quantity in the front has exhausted the incoming
\* order, so the loop never looks past the front.
FillFront(book, side, p, qty) ==
  LET queue == book.levels[side][p]
      front == FillResting(Head(queue), qty)
  IN  IF OpenQty(front) = 0
      THEN Unlink(book, side, p, front.id, Tail(queue))
      ELSE [book EXCEPT !.levels[side][p] = <<front>> \o Tail(queue)]

\* Mutant: push_front.
RestInFront(book, order, remaining) ==
  LET side  == order.side
      queue == IF order.price \in DOMAIN book.levels[side]
               THEN book.levels[side][order.price] ELSE <<>>
      l3    == [id          |-> order.id,
                trader_id   |-> order.trader_id,
                visible_qty |-> remaining,
                hidden_qty  |-> 0,
                filled_qty  |-> order.quantity - remaining,
                queue_pos   |-> Len(queue),
                is_iceberg  |-> FALSE]
      loc   == [side |-> side, price |-> order.price]
  IN  [levels      |-> [book.levels EXCEPT ![side] =
                          SetLevel(@, order.price, <<l3>> \o queue)],
       order_index |-> [id \in DOMAIN book.order_index \cup {order.id} |->
                          IF id = order.id THEN loc ELSE book.order_index[id]],
       order_count |-> [book.order_count EXCEPT ![side] = @ + 1]]

\* add_resting_order: push_back, and the position is the new size minus one.
Rest(book, order, remaining) ==
  LET side  == order.side
      queue == IF order.price \in DOMAIN book.levels[side]
               THEN book.levels[side][order.price] ELSE <<>>
      l3    == [id          |-> order.id,
                trader_id   |-> order.trader_id,
                visible_qty |-> remaining,
                hidden_qty  |-> 0,
                filled_qty  |-> order.quantity - remaining,
                queue_pos   |-> Len(queue),
                is_iceberg  |-> FALSE]
      loc   == [side |-> side, price |-> order.price]
  IN  [levels      |-> [book.levels EXCEPT ![side] =
                          SetLevel(@, order.price, Append(queue, l3))],
       order_index |-> [id \in DOMAIN book.order_index \cup {order.id} |->
                          IF id = order.id THEN loc ELSE book.order_index[id]],
       order_count |-> [book.order_count EXCEPT ![side] = @ + 1]]

\* update_queue_positions.
Renumber(queue) == [i \in DOMAIN queue |-> [queue[i] EXCEPT !.queue_pos = i - 1]]

\* The removal in cancel_order: the element the iterator designates leaves the
\* queue, those left are renumbered.
Withdraw(book, id) ==
  LET loc   == book.order_index[id]
      queue == book.levels[loc.side][loc.price]
      at    == CHOOSE i \in DOMAIN queue : queue[i].id = id
  IN  Unlink(book, loc.side, loc.price, id, Renumber(RemoveAt(queue, at)))

\* The resting order an index entry designates.
RestingOrder(book, id) ==
  LET loc   == book.order_index[id]
      queue == book.levels[loc.side][loc.price]
  IN  queue[CHOOSE i \in DOMAIN queue : queue[i].id = id]

----------------------------------------------------------------------------
(* The reads. *)

\* The FOK pre-check of match_incoming: is there enough on the levels the order
\* may trade with?  The loop stops early, which changes no answer.
CanFill(book, order) ==
  LET levels  == book.levels[Opposite(order.side)]
      crossed == {p \in DOMAIN levels : Crosses(order, p)}
  IN  MapThenSumSet(LAMBDA p : TotalQty(levels[p]), crossed) >= order.quantity

\* best_bid and best_ask; BookLevel{} is what TopOfBook holds for no level.
NoLevel == [price |-> 0, qty |-> 0, order_count |-> 0]

LevelAt(book, side, p) ==
  [price       |-> p,
   qty         |-> VisibleQty(book.levels[side][p]),
   order_count |-> Len(book.levels[side][p])]

BestLevel(book, side) ==
  IF DOMAIN book.levels[side] = {} THEN NoLevel
  ELSE LevelAt(book, side,
               CHOOSE p \in DOMAIN book.levels[side] : IsBest(book.levels, side, p))

TopOfBook(book) ==
  LET bb    == BestLevel(book, "Buy")
      ba    == BestLevel(book, "Sell")
      both  == bb # NoLevel /\ ba # NoLevel
      total == bb.qty + ba.qty
      mid   == IF both THEN TruncDiv(bb.price + ba.price, 2) ELSE bb.price + ba.price
  IN  [valid       |-> bb # NoLevel \/ ba # NoLevel,
       best_bid    |-> bb,
       best_ask    |-> ba,
       mid_price   |-> mid,
       spread      |-> IF both THEN ba.price - bb.price ELSE 0,
       micro_price |-> IF ~both THEN 0
                       ELSE IF total > 0
                            THEN TruncDiv(bb.price * ba.qty + ba.price * bb.qty, total)
                            ELSE mid]

\* Mutant: both maps ascend.
depth_ascending(book, side, n) ==
  LET prices == SetToSortSeq(DOMAIN book.levels[side], <)
  IN  [i \in 1..LesserOf(n, Len(prices)) |-> LevelAt(book, side, prices[i])]

\* The map of one side, in its order: i - 1 prices are better than the i-th.
\* (SetToSortSeq would say the same, but tlapm cannot see into it.)
InOrder(levels, side) ==
  [i \in 1..Cardinality(DOMAIN levels[side]) |->
     CHOOSE p \in DOMAIN levels[side] :
       Cardinality({q \in DOMAIN levels[side] : Better(side, q, p)}) = i - 1]

\* bid_depth and ask_depth: the first n levels of a side.
depth(book, side, n) ==
  LET prices == InOrder(book.levels, side)
  IN  [i \in 1..LesserOf(n, Len(prices)) |-> LevelAt(book, side, prices[i])]

\* quantity_ahead: what is displayed before an order in its queue, 0 if the
\* order does not rest.
quantity_ahead(book, id) ==
  IF id \notin DOMAIN book.order_index THEN 0
  ELSE LET loc   == book.order_index[id]
           queue == book.levels[loc.side][loc.price]
           at    == CHOOSE i \in DOMAIN queue : queue[i].id = id
       IN  VisibleQty(SubSeq(queue, 1, at - 1))

\* What add_order needs to remember while it runs: the order, MatchResult's
\* remaining_qty and trades, and whether the FOK pre-check let it match.
Activation(book, order) ==
  [order     |-> order,
   remaining |-> order.quantity,
   trades    |-> <<>>,
   fillable  |-> order.tif # "FOK" \/ CanFill(book, order)]

\* The two loops of match_against are over.
MatchingDone(book, c) ==
  LET side == Opposite(c.order.side)
  IN  \/ ~c.fillable
      \/ c.remaining <= 0
      \/ \A p \in DOMAIN book.levels[side] : ~Crosses(c.order, p)

\* Mutant: an IOC or FOK order rests too.
RestsWhateverTif(c) == c.remaining > 0 /\ c.order.type = "Limit"

\* add_order rests what a Limit order with Day or GTC has left.
Rests(c) ==
  /\ c.remaining > 0
  /\ c.order.type = "Limit"
  /\ c.order.tif \in {"Day", "GTC"}

\* The trade an iteration of match_against prints, and what the order has left.
Traded(c, front, p, qty) ==
  [c EXCEPT !.remaining = @ - qty,
            !.trades    = Append(@, [resting_id      |-> front.id,
                                     resting_trader  |-> front.trader_id,
                                     incoming_trader |-> c.order.trader_id,
                                     price           |-> p,
                                     qty             |-> qty])]

----------------------------------------------------------------------------
(* The reports. *)

Rejection(id, type, qty, reason) ==
  [order_id |-> id, type |-> type, status |-> "Rejected", reject_reason |-> reason,
   order_qty |-> qty, filled_qty |-> 0, leaves_qty |-> 0]

DuplicateReport(order) ==
  Rejection(order.id, order.type, order.quantity, "DuplicateOrderId")

\* What the request does not say is a default: the type is Limit.
UnknownReport(id) == Rejection(id, "Limit", 0, "None")

\* The report of add_order once matching is over.
AddReport(c) ==
  LET order  == c.order
      filled == order.quantity - c.remaining
      rest   == c.remaining > 0 /\ order.type = "Limit"
      killed == rest /\ order.tif = "FOK"
      dead   == rest /\ order.tif \in {"IOC", "FOK"}
  IN  [order_id      |-> order.id,
       type          |-> order.type,
       status        |-> IF killed THEN "Rejected"
                         ELSE IF c.remaining = 0 THEN "Filled"
                         ELSE IF filled > 0 THEN "PartiallyFilled"
                         ELSE IF dead THEN "Canceled" ELSE "New",
       reject_reason |-> IF killed THEN "InsufficientLiquidity" ELSE "None",
       order_qty     |-> order.quantity,
       filled_qty    |-> IF killed THEN 0 ELSE filled,
       leaves_qty    |-> IF dead THEN 0 ELSE c.remaining]

CancelReport(book, id) ==
  LET o == RestingOrder(book, id)
  IN  [order_id |-> id, type |-> "Limit", status |-> "Canceled", reject_reason |-> "None",
       order_qty |-> OpenQty(o) + o.filled_qty, filled_qty |-> o.filled_qty, leaves_qty |-> 0]

\* The order a replace_order submits: whatever the request does not say is a
\* default, so the time in force is Day.
ReplacementOrder(book, req) ==
  [id |-> req.order_id, trader_id |-> req.trader_id,
   side |-> book.order_index[req.order_id].side,
   type |-> "Limit", tif |-> "Day", price |-> req.new_price, quantity |-> req.new_qty]

\* Mutant: a trade that leaves nothing to rest is not published.
PublishesNewOnly(c) == AddReport(c).status = "New"

\* Market data follows a trade, or an order that changed the book by resting.
Publishes(c) == c.trades # <<>> \/ AddReport(c).status = "New"
=============================================================================
