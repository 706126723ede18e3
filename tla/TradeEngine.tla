---------------------------- MODULE TradeEngine ----------------------------
(***************************************************************************)
(* TradeEngine (src/src/market/trade_engine.h and .cpp): the position of   *)
(* each trader in each symbol, from the trades it is told of.  The module  *)
(* has the operations on positions_; TradingSession says who calls them.   *)
(*                                                                         *)
(* An average price is a quotient that the code updates in floating point. *)
(* The model keeps its two parts, quantity and cost, and the profits as    *)
(* exact fractions, so it shows what is left when rounding is not the      *)
(* reason.  The totals of trades, the callbacks and the queries are left   *)
(* out.                                                                    *)
(***************************************************************************)
EXTENDS BookOps

VARIABLE positions    \* positions_: from <<trader, symbol>> to Position

----------------------------------------------------------------------------
(* Fractions <<numerator, denominator>> in lowest terms. *)

Fraction(n, d) ==
  LET common == Max({k \in 1..d : n % k = 0 /\ d % k = 0})
  IN  <<n \div common, d \div common>>

Plus(a, b) == Fraction(a[1] * b[2] + b[1] * a[2], a[2] * b[2])

Times(n, a) == Fraction(n * a[1], a[2])

----------------------------------------------------------------------------
\* opened has what avg_buy_price and avg_sell_price are averages of: buy_qty
\* and sell_qty, and what was paid or received for them.
NoPosition ==
  [net_qty        |-> 0,
   opened         |-> [s \in Side |-> [qty |-> 0, cost |-> 0]],
   realized_pnl   |-> <<0, 1>>,
   unrealized_pnl |-> <<0, 1>>]

\* avg_buy_price and avg_sell_price, which are 0 at first.
AveragePrice(pos, side) ==
  IF pos.opened[side].qty = 0 THEN <<0, 1>>
  ELSE Fraction(pos.opened[side].cost, pos.opened[side].qty)

\* What is gained on each unit bought (or sold) at one price and sold (or
\* bought) at another.
Gain(side, from, to) ==
  LET rise == Plus(to, Times(-1, from)) IN IF side = "Buy" THEN rise ELSE Times(-1, rise)

\* The net quantity seen from a side: negative, if it is held on the other.
Held(pos, side) == IF side = "Buy" THEN pos.net_qty ELSE -pos.net_qty

\* Mutant: the average is the last price.
update_position_last_price(pos, side, qty, price) ==
  LET held == Held(pos, side)
      closed == IF held < 0 THEN LesserOf(qty, -held) ELSE 0
  IN  [pos EXCEPT
         !.net_qty      = @ + (IF side = "Buy" THEN qty ELSE -qty),
         !.realized_pnl = Plus(@, Times(closed, Gain(Opposite(side),
                                 AveragePrice(pos, Opposite(side)), <<price, 1>>))),
         !.opened[side] = IF held >= 0 THEN [qty |-> @.qty + qty, cost |-> (@.qty + qty) * price]
                                       ELSE @]

\* A fill first closes what is held on the other side, and realises a profit;
\* its price enters the average of its own side only if nothing was.
update_position(pos, side, qty, price) ==
  LET held   == Held(pos, side)
      closed == IF held < 0 THEN LesserOf(qty, -held) ELSE 0
  IN  [pos EXCEPT
         !.net_qty      = @ + (IF side = "Buy" THEN qty ELSE -qty),
         !.realized_pnl = Plus(@, Times(closed, Gain(Opposite(side),
                                 AveragePrice(pos, Opposite(side)), <<price, 1>>))),
         !.opened[side] = IF held >= 0 THEN [qty |-> @.qty + qty, cost |-> @.cost + qty * price]
                                       ELSE @]

\* positions_[key], which makes an entry if there is none, and its update.
Updated(all, key, side, qty, price) ==
  LET pos == IF key \in DOMAIN all THEN all[key] ELSE NoPosition
  IN  [k \in DOMAIN all \cup {key} |->
         IF k = key THEN update_position(pos, side, qty, price) ELSE all[k]]

\* Mutant: both parties are on the side of the aggressor.
process_trade_one_side(all, symbol, side, trade) ==
  Updated(Updated(all, <<trade.incoming_trader, symbol>>, side, trade.qty, trade.price),
          <<trade.resting_trader, symbol>>, side, trade.qty, trade.price)

\* The aggressor first, then the passive party, who may be the same trader.
process_trade(all, symbol, side, trade) ==
  Updated(Updated(all, <<trade.incoming_trader, symbol>>, side, trade.qty, trade.price),
          <<trade.resting_trader, symbol>>, Opposite(side), trade.qty, trade.price)

mark_to_market(all, symbol, price) ==
  [key \in DOMAIN all |->
     IF key[2] # symbol THEN all[key]
     ELSE LET pos  == all[key]
              side == IF pos.net_qty > 0 THEN "Buy" ELSE "Sell"
          IN  [pos EXCEPT !.unrealized_pnl =
                 Times(Held(pos, side), Gain(side, AveragePrice(pos, side), <<price, 1>>))]]

----------------------------------------------------------------------------
IsFraction(a) == a \in Int \X (Nat \ {0})

IsPosition(pos) ==
  /\ pos.net_qty \in Int
  /\ \A s \in Side : pos.opened[s].qty \in Nat /\ pos.opened[s].cost \in Int
  /\ IsFraction(pos.realized_pnl) /\ IsFraction(pos.unrealized_pnl)
=============================================================================
