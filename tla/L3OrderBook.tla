---------------------------- MODULE L3OrderBook ----------------------------
(***************************************************************************)
(* L3OrderBook (src/src/orderbook/l3_order_book.h and .cpp): one symbol's  *)
(* book.  add_order runs in steps, because a trade callback is called in   *)
(* every iteration of its matching loop and sees the book there; a cancel  *)
(* is one step.  A replace is a cancel, which publishes, and then an       *)
(* add_order.  The book has no lock: one thread calls it.                  *)
(***************************************************************************)
EXTENDS BookOps

CONSTANTS
  OrderId,        \* order ids
  TraderId,       \* traders
  Price,          \* prices in ticks
  Submissions,    \* the orders given to add_order
  Replacements    \* the requests given to replace_order

Order ==
  [id : OrderId, trader_id : TraderId, side : Side, type : OrderType,
   tif : TimeInForce, price : Price, quantity : Int]

ReplaceRequest ==
  [order_id : OrderId, trader_id : TraderId, new_price : Price, new_qty : Int]

ASSUME PriceAssumption == Price \subseteq Int
ASSUME InputAssumption ==
  Submissions \subseteq Order /\ Replacements \subseteq ReplaceRequest

VARIABLES
  book,           \* bids_, asks_, order_index_ and the order counts
  call,           \* {} or the add_order that is running (see Activation)
  report,         \* {} or the ExecutionReport returned last
  tob             \* the TopOfBook given to tob_cb_ last

vars == <<book, call, report, tob>>

----------------------------------------------------------------------------
Init ==
  /\ book = EmptyBook
  /\ call = {}
  /\ report = {}
  /\ tob = TopOfBook(EmptyBook)

\* add_order with an id that rests already.
RejectDuplicate(order) ==
  /\ call = {}
  /\ order.id \in DOMAIN book.order_index
  /\ report' = {DuplicateReport(order)}
  /\ UNCHANGED <<book, call, tob>>

\* add_order up to the matching loop.
BeginAdd(order) ==
  /\ call = {}
  /\ order.id \notin DOMAIN book.order_index
  /\ call' = {Activation(book, order)}
  /\ report' = {}
  /\ UNCHANGED <<book, tob>>

\* Mutant: an iteration reduces neither side.
MatchNothing == \E c \in call : ~MatchingDone(book, c) /\ UNCHANGED vars

\* One iteration of the inner loop of match_against, with its trade callback.
MatchOne ==
  \E c \in call :
    LET side == Opposite(c.order.side)
    IN  /\ ~MatchingDone(book, c)
        /\ \E p \in DOMAIN book.levels[side] :
             LET front == Head(book.levels[side][p])
                 qty   == LesserOf(c.remaining, OpenQty(front))
             IN  /\ IsBest(book.levels, side, p)
                 /\ book' = FillFront(book, side, p, qty)
                 /\ call' = {Traded(c, front, p, qty)}
        /\ UNCHANGED <<report, tob>>

\* add_order after match_incoming: status, rest or drop, publish, return.
FinishAdd ==
  \E c \in call :
    /\ MatchingDone(book, c)
    /\ call' = {}
    /\ report' = {AddReport(c)}
    /\ book' = IF Rests(c) THEN Rest(book, c.order, c.remaining) ELSE book
    /\ tob' = IF Publishes(c) THEN TopOfBook(book') ELSE tob

\* cancel_order and replace_order with an id that does not rest.
RejectUnknown(id) ==
  /\ call = {}
  /\ id \notin DOMAIN book.order_index
  /\ report' = {UnknownReport(id)}
  /\ UNCHANGED <<book, call, tob>>

CancelOrder(id) ==
  /\ call = {}
  /\ id \in DOMAIN book.order_index
  /\ report' = {CancelReport(book, id)}
  /\ book' = Withdraw(book, id)
  /\ tob' = TopOfBook(book')
  /\ UNCHANGED call

\* replace_order: the cancel publishes, then add_order begins on what is left.
ReplaceOrder(req) ==
  /\ call = {}
  /\ req.order_id \in DOMAIN book.order_index
  /\ book' = Withdraw(book, req.order_id)
  /\ tob' = TopOfBook(book')
  /\ call' = {Activation(book', ReplacementOrder(book, req))}
  /\ report' = {}

Next ==
  \/ \E order \in Submissions : RejectDuplicate(order) \/ BeginAdd(order)
  \/ MatchOne
  \/ FinishAdd
  \/ \E id \in OrderId : RejectUnknown(id) \/ CancelOrder(id)
  \/ \E req \in Replacements : ReplaceOrder(req)

\* The calling thread does not stop in the middle of add_order.
Fairness == WF_vars(MatchOne) /\ WF_vars(FinishAdd)

Spec == Init /\ [][Next]_vars /\ Fairness

----------------------------------------------------------------------------
\* The type of every variable: a level in a map has a queue, and the matching
\* loop never takes more than there is.
L3Order ==
  [id : OrderId, trader_id : TraderId, visible_qty : Nat, hidden_qty : Nat,
   filled_qty : Nat, queue_pos : Nat, is_iceberg : BOOLEAN]

OrderLocation == [side : Side, price : Price]

PartialFunction(f, D, R) == DOMAIN f \subseteq D /\ f \in [DOMAIN f -> R]

IsBook(b) ==
  /\ b = [levels      |-> [s \in Side |-> b.levels[s]],
          order_index |-> b.order_index,
          order_count |-> b.order_count]
  /\ \A s \in Side : /\ PartialFunction(b.levels[s], Price, Seq(L3Order))
                     /\ \A p \in DOMAIN b.levels[s] : b.levels[s][p] # <<>>
  /\ PartialFunction(b.order_index, OrderId, OrderLocation)
  /\ b.order_count \in [Side -> Int]

Trade ==
  [resting_id : OrderId, resting_trader : TraderId, incoming_trader : TraderId,
   price : Price, qty : Nat]

TypeOK ==
  /\ IsBook(book)
  /\ \A c \in call :
       c \in [order : Order, remaining : Int, trades : Seq(Trade), fillable : BOOLEAN]
  /\ \A r \in report : r.order_id \in OrderId /\ r.status \in OrderStatus
  /\ tob.valid \in BOOLEAN

----------------------------------------------------------------------------
(* Safety. *)

\* A bid and an ask that could trade with each other never rest together, not
\* even while add_order is matching: match_against leaves no crossing level
\* behind before add_resting_order runs, whatever was replaced or cancelled.
NotCrossed ==
  \A b \in DOMAIN book.levels["Buy"], a \in DOMAIN book.levels["Sell"] : b < a

\* order_index_ and the queues agree: every resting order is indexed where it
\* is and only there, and no entry keeps an iterator to an erased element,
\* which cancel_order, replace_order and queue_position would dereference.
Linked(b) ==
  /\ \A s \in Side : \A p \in DOMAIN b.levels[s] : \A i \in DOMAIN b.levels[s][p] :
       LET o == b.levels[s][p][i]
       IN  /\ o.id \in DOMAIN b.order_index
           /\ b.order_index[o.id] = [side |-> s, price |-> p]
           /\ \A j \in DOMAIN b.levels[s][p] : b.levels[s][p][j].id = o.id => j = i
  /\ \A id \in DOMAIN b.order_index :
       LET loc == b.order_index[id]
       IN  /\ loc.price \in DOMAIN b.levels[loc.side]
           /\ \E i \in DOMAIN b.levels[loc.side][loc.price] :
                b.levels[loc.side][loc.price][i].id = id

IndexMatchesBook == Linked(book)

\* bid_order_count_ and ask_order_count_, which every path maintains by hand,
\* are the numbers of orders in the queues, and no order rests with nothing
\* left: matching would print a trade of quantity zero against it.
CountsMatchBook ==
  \A s \in Side :
    /\ book.order_count[s] =
         MapThenSumSet(LAMBDA p : Len(book.levels[s][p]), DOMAIN book.levels[s])
    /\ \A p \in DOMAIN book.levels[s] : \A i \in DOMAIN book.levels[s][p] :
         OpenQty(book.levels[s][p][i]) > 0

\* Whenever no operation runs, the top of book the subscriber was given last is
\* the top of the book: no path of add, cancel and replace changes the best
\* level or its quantity without publishing.
TobCurrent == call = {} => tob = TopOfBook(book)

\* What a client is told of its limit order is what the book holds: a report
\* with quantity left means the order rests with that quantity and those fills,
\* and any other report means that it does not rest.
ReportMatchesBook ==
  \A r \in report : r.type = "Limit" /\ r.reject_reason # "DuplicateOrderId" =>
    IF r.leaves_qty > 0
    THEN /\ r.order_id \in DOMAIN book.order_index
         /\ OpenQty(RestingOrder(book, r.order_id)) = r.leaves_qty
         /\ RestingOrder(book, r.order_id).filled_qty = r.filled_qty
    ELSE r.order_id \notin DOMAIN book.order_index

----------------------------------------------------------------------------
(* Action properties. *)

\* A step that leaves an order resting conserves its quantity, moves it only
\* from open to filled, and moves as much as the running add_order loses and
\* prints: the reduction of remaining, of the resting order and the trade are
\* three separate assignments of match_against.
QuantityConserved ==
  [][\A id \in DOMAIN book.order_index \cap DOMAIN book'.order_index :
       LET before == RestingOrder(book, id)
           after  == RestingOrder(book', id)
           taken  == after.filled_qty - before.filled_qty
       IN  /\ OpenQty(before) - OpenQty(after) = taken
           /\ taken # 0 => \E c \in call, d \in call' :
                             /\ c.remaining - d.remaining = taken
                             /\ Last(d.trades).qty = taken
                             /\ Last(d.trades).resting_id = id]_vars

\* An order that rests keeps its place: quantity_ahead never grows, whoever
\* else joins, leaves, is replaced or fills, until the order itself is replaced.
\* (With icebergs it would, by a slice; this code never makes an order one.)
PriorityKept ==
  [][\A id \in DOMAIN book.order_index \cap DOMAIN book'.order_index :
       quantity_ahead(book', id) <= quantity_ahead(book, id)]_vars

----------------------------------------------------------------------------
(* What documents say and the code does not do. *)

\* queue_pos is the order's position in its price-level queue, whenever no
\* operation runs.
QueuePosExact ==
  call = {} => \A s \in Side : \A p \in DOMAIN book.levels[s] :
    \A i \in DOMAIN book.levels[s][p] : book.levels[s][p][i].queue_pos = i - 1

----------------------------------------------------------------------------
(* Liveness. *)

\* The matching loop ends: every add_order and replace_order returns.
CallReturns == call # {} ~> call = {}

----------------------------------------------------------------------------
(* The book keeps price-time priority.  The abstract orders ahead of a resting *)
(* order are those in front of it in the queue of its level.                   *)

RestingAt(s, p) ==
  LET queue == book.levels[s][p]
  IN  {[id    |-> queue[i].id,
        side  |-> s,
        price |-> p,
        qty   |-> OpenQty(queue[i]),
        ahead |-> {queue[j].id : j \in 1..(i - 1)}] : i \in DOMAIN queue}

AbstractResting ==
  UNION {UNION {RestingAt(s, p) : p \in DOMAIN book.levels[s]} : s \in Side}

AbstractActive ==
  {[order |-> c.order,
    left  |-> c.remaining,
    fills |-> [i \in DOMAIN c.trades |-> [resting_id |-> c.trades[i].resting_id,
                                          price      |-> c.trades[i].price,
                                          qty        |-> c.trades[i].qty]]] : c \in call}

AnyOrder ==
  Submissions \cup
    {[id |-> r.order_id, trader_id |-> r.trader_id, side |-> s, type |-> "Limit",
      tif |-> "Day", price |-> r.new_price, quantity |-> r.new_qty] :
        r \in Replacements, s \in Side}

PriceTime == INSTANCE PriceTimeBook
               WITH Orders <- AnyOrder, resting <- AbstractResting, active <- AbstractActive

\* Every trade is with the best price and the earliest order there, at that
\* order's price; only Day and GTC limit orders rest, at the back; a
\* fill-or-kill order is all or nothing; a cancelled order never trades.
ImplementsPriceTimeBook == PriceTime!Spec
=============================================================================
