------------------------------- MODULE L1Feed -------------------------------
(***************************************************************************)
(* L1Feed (src/src/orderbook/l1_feed.h and .cpp) as a value: the top of    *)
(* its book at the last update, and two windows, of the last trades and of *)
(* the last spreads.  MatchingEngine says when it is told of them.  Its    *)
(* own callback, which nothing registers, is left out.                     *)
(***************************************************************************)
EXTENDS BookOps

CONSTANTS
  MaxTradeHistory,   \* MAX_TRADE_HISTORY
  MaxSpreadHistory   \* MAX_SPREAD_HISTORY

ASSUME HistoryAssumption ==
  MaxTradeHistory \in Nat \ {0} /\ MaxSpreadHistory \in Nat \ {0}

EmptyFeed == [last_tob |-> TopOfBook(EmptyBook), recent_trades |-> <<>>, spread_history |-> <<>>]

\* Mutant: the window drops its newest element.
KeptOldest(window, max) == SubSeq(window, 1, LesserOf(Len(window), max))

\* Mutant: the window grows for ever.
KeptAll(window, max) == window

\* push_back was before; pop_front if there is too much.
Kept(window, max) == IF Len(window) > max THEN Tail(window) ELSE window

\* A spread that is not positive, as that of a book with one side, is not kept.
update(feed, book) ==
  LET tob == TopOfBook(book)
  IN  [feed EXCEPT !.last_tob = tob,
                   !.spread_history = IF tob.valid /\ tob.spread > 0
                                      THEN Kept(Append(@, tob.spread), MaxSpreadHistory) ELSE @]

record_trade(feed, price, qty) ==
  [feed EXCEPT !.recent_trades =
     Kept(Append(@, [price |-> price, quantity |-> qty]), MaxTradeHistory)]

\* The sums whose quotient vwap and rolling_spread are (0, if it has none).
vwap(feed) ==
  FoldLeft(LAMBDA sum, t : <<sum[1] + t.price * t.quantity, sum[2] + t.quantity>>,
           <<0, 0>>, feed.recent_trades)

rolling_spread(feed, window) ==
  LET spreads == feed.spread_history
      n       == LesserOf(window, Len(spreads))
  IN  <<FoldLeft(LAMBDA sum, s : sum + s, 0, SubSeq(spreads, Len(spreads) - n + 1, Len(spreads))), n>>

IsFeed(feed) ==
  /\ Len(feed.recent_trades) <= MaxTradeHistory
  /\ \A i \in DOMAIN feed.recent_trades : feed.recent_trades[i].quantity > 0
  /\ Len(feed.spread_history) <= MaxSpreadHistory
  /\ \A i \in DOMAIN feed.spread_history : feed.spread_history[i] > 0
=============================================================================
