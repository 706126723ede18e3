--------------------------- MODULE MatchingEngine ---------------------------
(***************************************************************************)
(* MatchingEngine (src/src/market/matching_engine.h and .cpp): a book and  *)
(* an L1 feed for each symbol, the routing of cancels by order id, and the *)
(* risk engine around them.  One thread calls the engine, and the books    *)
(* change by whole operations (L3OrderBook has the steps within one); the  *)
(* kill switch for all may be thrown by another thread, between the risk   *)
(* check of a new order and its matching.                                  *)
(*                                                                         *)
(* A request for an unknown symbol, or a cancel that is not routed,        *)
(* changes nothing but the report, and reports are left out.  A request    *)
(* for an order that the book does not have still publishes the book.  All *)
(* submit times are equal: what check_rate_limit does with different ones  *)
(* is in RiskSession.                                                      *)
(***************************************************************************)
EXTENDS L1Feed, RiskEngine

CONSTANTS
  OrderId,
  NewOrders,      \* the orders given to process_new_order, each with its symbol
  Cancels,        \* [order_id, symbol]
  Replaces,       \* [order_id, trader_id, new_price, new_qty, symbol]
  NoSymbol,       \* the empty symbol of a cancel that is routed by order id
  L2Depth         \* levels of each side in a depth snapshot

ASSUME L2DepthAssumption == L2Depth \in Nat
ASSUME NoSymbolAssumption == NoSymbol \notin Symbol

\* What a client may ask for.
SymbolOrder ==
  [id : OrderId, trader_id : TraderId, symbol : Symbol, side : Side, type : OrderType,
   tif : TimeInForce, price : Int, quantity : Int]

SymbolReplace ==
  [order_id : OrderId, trader_id : TraderId, symbol : Symbol, new_price : Int, new_qty : Int]

ASSUME RequestsAssumption == NewOrders \subseteq SymbolOrder /\ Replaces \subseteq SymbolReplace

VARIABLES
  books,          \* symbols_: the book of each symbol that was added
  l1,             \* the L1Feed of each symbol
  l2,             \* the DepthSnapshot given to l2_cb_ last, once there is one
  order_symbol_index,
  checked,        \* {} or the new order between its risk check and its matching
  taken,          \* history: net quantity by trades of new orders
  given           \* history: net quantity by all other trades: of orders that
                  \* rested, and of orders that replaced another

vars == <<risk_vars, books, l1, l2, order_symbol_index, checked, taken, given>>

Nothing == [t \in TraderId |-> [s \in Symbol |-> 0]]

Init ==
  /\ RiskInit
  /\ books = <<>>
  /\ l1 = <<>>
  /\ l2 = <<>>
  /\ order_symbol_index = <<>>
  /\ checked = {}
  /\ taken = Nothing
  /\ given = Nothing

----------------------------------------------------------------------------
(* A book operation as a whole.  Every iteration of match_against but the last *)
(* removes an order, so there are never more iterations than orders.           *)

Best(levels, side) == CHOOSE p \in DOMAIN levels[side] : IsBest(levels, side, p)

MatchFront(m) ==
  LET side  == Opposite(m.c.order.side)
      p     == Best(m.book.levels, side)
      front == Head(m.book.levels[side][p])
      qty   == LesserOf(m.c.remaining, OpenQty(front))
  IN  [book |-> FillFront(m.book, side, p, qty), c |-> Traded(m.c, front, p, qty)]

Matched(book, order) ==
  LET after[n \in Nat] ==
        IF n = 0 THEN [book |-> book, c |-> Activation(book, order)]
        ELSE LET m == after[n - 1]
             IN  IF MatchingDone(m.book, m.c) THEN m ELSE MatchFront(m)
  IN  after[Cardinality(DOMAIN book.order_index)]

AddOrder(book, order) ==
  IF order.id \in DOMAIN book.order_index
  THEN [book |-> book, report |-> DuplicateReport(order), trades |-> <<>>]
  ELSE LET m == Matched(book, order)
       IN  [book   |-> IF Rests(m.c) THEN Rest(m.book, order, m.c.remaining) ELSE m.book,
            report |-> AddReport(m.c),
            trades |-> m.c.trades]

\* What trades add to what traders have.
Settle(totals, symbol, trades, trader(_), side) ==
  FoldLeft(LAMBDA sum, tr : [sum EXCEPT ![trader(tr)][symbol] = @ + Signed(side, tr.qty)],
           totals, trades)

Incoming(tr) == tr.incoming_trader
Resting(tr) == tr.resting_trader

----------------------------------------------------------------------------
(* publish_market_data updates the L1 feed of the symbol and publishes a depth *)
(* snapshot.                                                                   *)

\* L2Aggregator::snapshot.
Snapshot(book) == [side \in Side |-> depth(book, side, L2Depth)]

Published(symbol, snapshot) ==
  [s \in DOMAIN l2 \cup {symbol} |-> IF s = symbol THEN snapshot ELSE l2[s]]

\* The trade callback tells the feed of each trade.
Recorded(feed, trades) ==
  FoldLeft(LAMBDA f, tr : record_trade(f, tr.price, tr.qty), feed, trades)

\* The trades were there before.
PutBook(symbol, book, trades) ==
  /\ books' = [books EXCEPT ![symbol] = book]
  /\ l1' = [l1 EXCEPT ![symbol] = update(Recorded(@, trades), book)]
  /\ l2' = Published(symbol, Snapshot(book))

AddSymbol(symbol) ==
  /\ checked = {}
  /\ symbol \notin DOMAIN books
  /\ books' = [s \in DOMAIN books \cup {symbol} |-> IF s = symbol THEN EmptyBook ELSE books[s]]
  /\ l1' = [s \in DOMAIN l1 \cup {symbol} |-> IF s = symbol THEN EmptyFeed ELSE l1[s]]
  /\ UNCHANGED <<risk_vars, l2, order_symbol_index, checked, taken, given>>

----------------------------------------------------------------------------
(* process_new_order *)

CheckNewOrder(order) ==
  /\ checked = {}
  /\ order.symbol \in DOMAIN books
  /\ CheckOrder(order, 0)
  /\ checked' = {o \in {order} : Passes(o, 0)}
  /\ UNCHANGED <<books, l1, l2, order_symbol_index, taken, given>>

\* Mutant: an order that filled in part is not routed.
IndexesNewOnly(status) == status = "New"

\* The order is routed by its id from now on, unless it is rejected or gone.
Indexes(status) == status \notin {"Rejected", "Filled"}

NewOrderResult(order) == AddOrder(books[order.symbol], order)

MatchNewOrder ==
  \E order \in checked :
    LET r == NewOrderResult(order)
        side == order.side
    IN  /\ PutBook(order.symbol, r.book, r.trades)
        /\ order_symbol_index' =
             IF Indexes(r.report.status)
             THEN [id \in DOMAIN order_symbol_index \cup {order.id} |->
                     IF id = order.id THEN order.symbol ELSE order_symbol_index[id]]
             ELSE order_symbol_index
        /\ IF r.report.filled_qty > 0
           THEN OnFill(order.trader_id, order.symbol, side, r.report.filled_qty)
           ELSE UNCHANGED risk_vars
        /\ taken' = Settle(taken, order.symbol, r.trades, Incoming, side)
        /\ given' = Settle(given, order.symbol, r.trades, Resting, Opposite(side))
        /\ checked' = {}

----------------------------------------------------------------------------
(* process_cancel and process_replace; neither asks the risk engine. *)

\* The symbol of the request, or else the one the index has for the order.
Routes(cancel) ==
  IF cancel.symbol # NoSymbol THEN {cancel.symbol}
  ELSE {order_symbol_index[id] : id \in {cancel.order_id} \cap DOMAIN order_symbol_index}

ProcessCancel(cancel) ==
  /\ checked = {}
  /\ \E symbol \in Routes(cancel) \cap DOMAIN books :
       IF cancel.order_id \in DOMAIN books[symbol].order_index
       THEN /\ PutBook(symbol, Withdraw(books[symbol], cancel.order_id), <<>>)
            /\ order_symbol_index' =
                 [id \in DOMAIN order_symbol_index \ {cancel.order_id} |-> order_symbol_index[id]]
       ELSE PutBook(symbol, books[symbol], <<>>) /\ UNCHANGED order_symbol_index
  /\ UNCHANGED <<risk_vars, checked, taken, given>>

\* The book cancels the order and adds one with its id, on the same side.
ReplaceResult(replace) ==
  LET book == books[replace.symbol]
  IN  AddOrder(Withdraw(book, replace.order_id), ReplacementOrder(book, replace))

ReplacedSide(replace) == books[replace.symbol].order_index[replace.order_id].side

Replaceable(replace) ==
  /\ replace.symbol \in DOMAIN books
  /\ replace.order_id \in DOMAIN books[replace.symbol].order_index

ProcessReplace(replace) ==
  /\ checked = {}
  /\ Replaceable(replace)
  /\ LET symbol == replace.symbol
         side   == ReplacedSide(replace)
         r      == ReplaceResult(replace)
     IN  /\ PutBook(symbol, r.book, r.trades)
         /\ given' = Settle(Settle(given, symbol, r.trades, Incoming, side),
                            symbol, r.trades, Resting, Opposite(side))
  /\ UNCHANGED <<risk_vars, order_symbol_index, checked, taken>>

\* A replace of an order that is not in the book.
ReplaceUnknown(replace) ==
  /\ checked = {}
  /\ replace.symbol \in DOMAIN books /\ ~Replaceable(replace)
  /\ PutBook(replace.symbol, books[replace.symbol], <<>>)
  /\ UNCHANGED <<risk_vars, order_symbol_index, checked, taken, given>>

----------------------------------------------------------------------------
(* The kill switches; kill_all alone does not wait for a call to end. *)

SwitchTrader(t) ==
  /\ checked = {}
  /\ KillTrader(t) \/ UnkillTrader(t)
  /\ UNCHANGED <<books, l1, l2, order_symbol_index, checked, taken, given>>

SwitchAll ==
  /\ KillAll \/ (checked = {} /\ UnkillAll)
  /\ UNCHANGED <<books, l1, l2, order_symbol_index, checked, taken, given>>

Next ==
  \/ \E symbol \in Symbol : AddSymbol(symbol)
  \/ \E order \in NewOrders : CheckNewOrder(order)
  \/ MatchNewOrder
  \/ \E cancel \in Cancels : ProcessCancel(cancel)
  \/ \E replace \in Replaces : ProcessReplace(replace) \/ ReplaceUnknown(replace)
  \/ \E t \in TraderId : SwitchTrader(t)
  \/ SwitchAll

Spec == Init /\ [][Next]_vars

----------------------------------------------------------------------------
\* The type of every variable; an order that passed the checks has a quantity
\* and a book to go to.
TypeOK ==
  /\ RiskTypeOK
  /\ DOMAIN books \subseteq Symbol /\ DOMAIN l1 = DOMAIN books
  /\ \A s \in DOMAIN l1 : IsFeed(l1[s])
  /\ DOMAIN l2 \subseteq DOMAIN books
  /\ DOMAIN order_symbol_index \subseteq OrderId
  /\ \A id \in DOMAIN order_symbol_index : order_symbol_index[id] \in Symbol
  /\ \A o \in checked : o.quantity > 0 /\ o.symbol \in DOMAIN books
  /\ taken \in [TraderId -> [Symbol -> Int]] /\ given \in [TraderId -> [Symbol -> Int]]

\* A client can cancel by its id alone every order that rests, whatever filled
\* in part, was replaced or was cancelled before, when an id is used for one
\* symbol only: the index is kept by process_new_order and process_cancel,
\* while replaces, and fills of resting orders, change the books behind it.
RestingIsRouted ==
  \A symbol \in DOMAIN books : \A id \in DOMAIN books[symbol].order_index :
    id \in DOMAIN order_symbol_index /\ order_symbol_index[id] = symbol

\* The L1 and L2 subscribers are never shown an old book, nor different ones:
\* get_top_of_book, which answers from the feed, is the top of the book, the
\* first levels of the depth published last are the feed's best levels, and the
\* levels worsen with depth.  Before the first publication both show nothing.
FeedsAgree ==
  \A symbol \in DOMAIN books :
    LET tob == l1[symbol].last_tob
    IN  /\ tob = TopOfBook(books[symbol])
        /\ symbol \notin DOMAIN l2 => ~tob.valid
        /\ symbol \in DOMAIN l2 => \A side \in Side :
             LET levels == l2[symbol][side]
                 best   == IF side = "Buy" THEN tob.best_bid ELSE tob.best_ask
             IN  /\ best = IF levels = <<>> THEN NoLevel ELSE Head(levels)
                 /\ \A i, j \in DOMAIN levels :
                      i < j => Better(side, levels[i].price, levels[j].price)

\* The risk engine's positions are the sums of what the trades of new orders
\* said, trade by trade, on both sides and for partial fills.
RiskSeesNewOrders ==
  \A t \in TraderId, s \in Symbol : trader_states[t].positions[s] = taken[t][s]

\* No new order passes while the switch for all is on: at most the one that
\* was between its check and its matching when the switch was thrown trades
\* after that.
KillLetsOneThrough == [][global_kill => checked' \subseteq checked]_vars

----------------------------------------------------------------------------
(* What documents say and the code does not do. *)

\* positions has each trader's net position per symbol: all that was bought
\* less all that was sold.
RiskSeesAllTrades ==
  \A t \in TraderId, s \in Symbol :
    trader_states[t].positions[s] = taken[t][s] + given[t][s]
=============================================================================
