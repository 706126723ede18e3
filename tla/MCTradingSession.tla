-------------------------- MODULE MCTradingSession --------------------------
(***************************************************************************)
(* Two traders, two symbols, three orders of each trader accepted at most. *)
(* Order ids are used for one symbol each.  A market order of T for B can  *)
(* sweep two levels, of which the second is its own.                       *)
(***************************************************************************)
EXTENDS TradingSession

CONSTANTS T, U, A, B

MCInitialLimits ==
  [max_position_per_symbol |-> 3, max_net_position |-> 3,
   max_order_rate |-> 3, rate_window |-> 0]

MCOrder(id, trader, symbol, side, type, tif, price, quantity) ==
  [id |-> id, trader_id |-> trader, symbol |-> symbol, side |-> side, type |-> type,
   tif |-> tif, price |-> price, quantity |-> quantity]

MCNewOrders ==
  {MCOrder(1, T, A, "Buy", "Limit", "GTC", 2, 2),
   MCOrder(2, U, A, "Sell", "Limit", "GTC", 3, 1),
   MCOrder(2, T, A, "Sell", "Limit", "Day", 2, 3),
   MCOrder(2, U, A, "Buy", "Limit", "GTC", 1, 1),
   MCOrder(3, U, B, "Sell", "Limit", "GTC", 2, 1),
   MCOrder(4, T, B, "Buy", "Market", "GTC", 0, 2),
   MCOrder(4, U, B, "Buy", "Limit", "IOC", 3, 2),
   MCOrder(5, T, B, "Sell", "Limit", "GTC", 3, 2)}

MCCancels ==
  {[order_id |-> id, symbol |-> s] : id \in {1, 2, 3}, s \in {A, NoSymbol}}

MCReplaces ==
  {[order_id |-> 2, trader_id |-> U, new_price |-> 2, new_qty |-> 2, symbol |-> A],
   [order_id |-> 1, trader_id |-> T, new_price |-> 1, new_qty |-> 1, symbol |-> A]}

MCOrderId == 1..5
MCTraderId == {T, U}
MCSymbol == {A, B}
MCLimitChoices == {MCInitialLimits}
MCMarks == {[symbol |-> A, price |-> 4]}
=============================================================================
