--------------------------- MODULE MCRiskSession ---------------------------
(***************************************************************************)
(* One trader, two symbols, limits of two sizes with the same window.      *)
(***************************************************************************)
EXTENDS RiskSession

CONSTANTS T, A, B

Limits(position, net, rate) ==
  [max_position_per_symbol |-> position, max_net_position |-> net,
   max_order_rate |-> rate, rate_window |-> 1]

MCInitialLimits == Limits(2, 3, 2)
MCLimitChoices == {Limits(1, 1, 1), MCInitialLimits}

MCOrder(symbol, side, type, price, quantity) ==
  [trader_id |-> T, symbol |-> symbol, side |-> side, type |-> type,
   price |-> price, quantity |-> quantity]

MCOrders ==
  {MCOrder(A, "Buy", "Limit", 1, 2), MCOrder(A, "Sell", "Limit", 1, 3),
   MCOrder(B, "Buy", "Market", 0, 2), MCOrder(B, "Sell", "Limit", 0, 1),
   MCOrder(A, "Buy", "Market", 0, 0)}

MCTraderId == {T}
MCSymbol == {A, B}
=============================================================================
