--------------------------- MODULE TradingSession ---------------------------
(***************************************************************************)
(* A matching engine whose trade callback, called for every trade of every *)
(* book, is process_trade of a trade engine (on_trade in                   *)
(* src/src/market/matching_engine.h).  The two keep accounts of their own: *)
(* the risk engine in MatchingEngine hears of reports, the trade engine of *)
(* trades.                                                                 *)
(***************************************************************************)
EXTENDS MatchingEngine, TradeEngine

CONSTANT Marks    \* the calls of mark_to_market: [symbol, price]

\* Trader ids are machine integers.
ASSUME TradersAssumption == IsFiniteSet(TraderId)

ASSUME MarksAssumption == \A mark \in Marks : mark.price \in Int

\* History: what each trader has by its trades.  A position is "opening" until
\* a trade reduces it, "closing" until one enlarges or flips it, and
\* "reopened" from then on.
VARIABLE ledger

\* History: the trades of each symbol.
VARIABLE prints

session_vars == <<vars, positions, ledger, prints>>

SessionInit ==
  /\ Init
  /\ positions = <<>>
  /\ ledger = [t \in TraderId |-> [s \in Symbol |-> [net |-> 0, cash |-> 0, phase |-> "opening"]]]
  /\ prints = [s \in Symbol |-> <<>>]

----------------------------------------------------------------------------
Phase(entry, side, qty) ==
  LET held == IF side = "Buy" THEN entry.net ELSE -entry.net
  IN  CASE held >= 0 -> IF entry.phase = "closing" THEN "reopened" ELSE entry.phase
        [] qty > -held -> "reopened"
        [] OTHER -> IF entry.phase = "opening" THEN "closing" ELSE entry.phase

Entered(all, trader, symbol, side, trade) ==
  [all EXCEPT ![trader][symbol] =
     [net   |-> @.net + Signed(side, trade.qty),
      cash  |-> @.cash - Signed(side, trade.qty * trade.price),
      phase |-> Phase(@, side, trade.qty)]]

\* The trade callback, for each of these trades.
Callbacks(symbol, side, trades) ==
  /\ positions' =
       FoldLeft(LAMBDA all, tr : process_trade(all, symbol, side, tr), positions, trades)
  /\ ledger' =
       FoldLeft(LAMBDA all, tr :
                  Entered(Entered(all, tr.incoming_trader, symbol, side, tr),
                          tr.resting_trader, symbol, Opposite(side), tr),
                ledger, trades)
  /\ prints' = [prints EXCEPT ![symbol] = @ \o trades]

TradeNewOrder ==
  /\ MatchNewOrder
  /\ \E order \in checked : Callbacks(order.symbol, order.side, NewOrderResult(order).trades)

TradeReplace(replace) ==
  /\ ProcessReplace(replace)
  /\ Callbacks(replace.symbol, ReplacedSide(replace), ReplaceResult(replace).trades)

\* mark_to_market, called by the client between two operations of the engine.
MarkToMarket(mark) ==
  /\ checked = {}
  /\ positions' = mark_to_market(positions, mark.symbol, mark.price)
  /\ UNCHANGED <<vars, ledger, prints>>

WithoutTrade ==
  /\ \/ \E symbol \in Symbol : AddSymbol(symbol)
     \/ \E order \in NewOrders : CheckNewOrder(order)
     \/ \E cancel \in Cancels : ProcessCancel(cancel)
     \/ \E replace \in Replaces : ReplaceUnknown(replace)
     \/ \E t \in TraderId : SwitchTrader(t)
     \/ SwitchAll
  /\ UNCHANGED <<positions, ledger, prints>>

SessionNext ==
  \/ WithoutTrade
  \/ TradeNewOrder
  \/ \E replace \in Replaces : TradeReplace(replace)
  \/ \E mark \in Marks : MarkToMarket(mark)

SessionSpec == SessionInit /\ [][SessionNext]_session_vars

----------------------------------------------------------------------------
\* The type of every variable of the session.
SessionTypeOK ==
  /\ TypeOK
  /\ DOMAIN positions \subseteq TraderId \X Symbol
  /\ \A key \in DOMAIN positions : IsPosition(positions[key])

NetQty(t, s) == IF <<t, s>> \in DOMAIN positions THEN positions[<<t, s>>].net_qty ELSE 0

\* What trades were worth, and how much they traded.
Value(trades) == FoldLeft(LAMBDA sum, tr : sum + tr.price * tr.qty, 0, trades)
Volume(trades) == FoldLeft(LAMBDA sum, tr : sum + tr.qty, 0, trades)

LastOf(s, n) == SubSeq(s, Len(s) - LesserOf(n, Len(s)) + 1, Len(s))

\* What L1 subscribers can ask for follows the books: the top (FeedsAgree), the
\* volume-weighted price of the symbol's last trades, whichever request made
\* them, and, as the newest spread, that of the book now.
FeedsCurrent ==
  /\ FeedsAgree
  /\ \A symbol \in DOMAIN books :
       LET last == LastOf(prints[symbol], MaxTradeHistory)
           tob  == l1[symbol].last_tob
       IN  /\ vwap(l1[symbol]) = <<Value(last), Volume(last)>>
           /\ tob.spread > 0 => rolling_spread(l1[symbol], 1) = <<tob.spread, 1>>

\* The trade engine's positions, unlike the risk engine's, have all trades of
\* both parties, of new orders, resting ones and replacements, and what all
\* traders have of a symbol is nothing in sum.
TradeEngineSeesAllTrades ==
  \A s \in Symbol :
    /\ \A t \in TraderId : NetQty(t, s) = taken[t][s] + given[t][s]
    /\ MapThenSumSet(LAMBDA t : NetQty(t, s), TraderId) = 0

\* Marked at any price, the realised and unrealised profit of a position that
\* was built up and then reduced are what its trader would have if it were
\* closed at that price: the money it received and paid, and the value of
\* what it holds.  (One that was reopened is the subject of RealizedIsCash.)
MarkedAtLiquidationValue ==
  \A key \in DOMAIN positions : \A price \in {0} \cup {m.price : m \in Marks} :
    LET pos   == mark_to_market(positions, key[2], price)[key]
        entry == ledger[key[1]][key[2]]
    IN  entry.phase # "reopened" =>
          Plus(pos.realized_pnl, pos.unrealized_pnl)
            = <<entry.cash + entry.net * price, 1>>

----------------------------------------------------------------------------
(* What documents say and the code does not do. *)

\* realized_pnl is the profit realised by reducing positions: when a position
\* is closed, it is what was received less what was paid.
RealizedIsCash ==
  \A key \in DOMAIN positions :
    positions[key].net_qty = 0 =>
      positions[key].realized_pnl = <<ledger[key[1]][key[2]].cash, 1>>
=============================================================================
