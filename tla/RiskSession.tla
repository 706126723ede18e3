---------------------------- MODULE RiskSession ----------------------------
(***************************************************************************)
(* The risk engine used as MatchingEngine::process_new_order uses it: an   *)
(* order is checked, and one that passes is filled up to its quantity at   *)
(* once, before the thread calls anything else.  The kill switch for all   *)
(* can be thrown between the two.  Submit times do not decrease.           *)
(***************************************************************************)
EXTENDS RiskEngine

CONSTANTS
  Orders,         \* the orders given to check_order
  MaxTime         \* bound: the last submit time

Order ==
  [trader_id : TraderId, symbol : Symbol, side : {"Buy", "Sell"},
   type : {"Limit", "Market"}, price : Int, quantity : Int]

ASSUME SessionAssumption ==
  Orders \subseteq Order /\ MaxTime \in Nat /\ IsFiniteSet(Symbol)

VARIABLES
  now,            \* the submit time of the order checked last
  passed,         \* {} or the order that passed and has not been filled
  accepted        \* history: the submit times of each trader's passed orders

vars == <<risk_vars, now, passed, accepted>>

Init ==
  /\ RiskInit
  /\ now = 0
  /\ passed = {}
  /\ accepted = [t \in TraderId |-> <<>>]

Check(order, at) ==
  /\ passed = {}
  /\ CheckOrder(order, at)
  /\ now' = at
  /\ passed' = {o \in {order} : Passes(o, at)}
  /\ accepted' = [t \in TraderId |->
                    IF t = order.trader_id /\ Passes(order, at)
                    THEN Append(accepted[t], at) ELSE accepted[t]]

\* on_fill is called if anything filled; the report may say nothing did.
Fill ==
  \E o \in passed : \E qty \in 0..o.quantity :
    /\ IF qty > 0 THEN OnFill(o.trader_id, o.symbol, o.side, qty) ELSE UNCHANGED risk_vars
    /\ passed' = {}
    /\ UNCHANGED <<now, accepted>>

Configure ==
  /\ passed = {}
  /\ \/ \E t \in TraderId, limits \in LimitChoices : SetTraderLimits(t, limits)
     \/ \E limits \in LimitChoices : SetDefaultLimits(limits)
     \/ \E t \in TraderId : KillTrader(t) \/ UnkillTrader(t)
     \/ UnkillAll
  /\ UNCHANGED <<now, passed, accepted>>

Kill == KillAll /\ UNCHANGED <<now, passed, accepted>>

Next ==
  \/ \E order \in Orders, at \in now..MaxTime : Check(order, at)
  \/ Fill
  \/ Configure
  \/ Kill

Spec == Init /\ [][Next]_vars

----------------------------------------------------------------------------
\* The type of every variable; an order that passed can be given to a book.
TypeOK ==
  /\ RiskTypeOK
  /\ now \in 0..MaxTime
  /\ passed \subseteq Orders
  /\ \A o \in passed : o.quantity > 0 /\ (o.type = "Limit" => o.price > 0)
  /\ accepted \in [TraderId -> Seq(0..MaxTime)]

\* net_position, which on_fill keeps beside the map, is the sum of the map.
NetIsSum ==
  \A t \in TraderId :
    trader_states[t].net_position =
      MapThenSumSet(LAMBDA s : trader_states[t].positions[s], Symbol)

\* No fill takes a trader past a limit, or further past one that was lowered
\* below what the trader has: check_order tests the whole quantity, on either
\* side of zero, and the fill comes before the next check.
LimitsRespected ==
  [][\A t \in TraderId :
       LET old == trader_states[t]
           new == trader_states'[t]
       IN  /\ \A s \in Symbol :
                \/ Abs(new.positions[s]) <= get_limits(t).max_position_per_symbol
                \/ Abs(new.positions[s]) <= Abs(old.positions[s])
           /\ \/ Abs(new.net_position) <= get_limits(t).max_net_position
              \/ Abs(new.net_position) <= Abs(old.net_position)]_vars

\* When an order passes, no more orders of the trader have passed within the
\* window that ends with it than the limit in force allows, counting from the
\* orders themselves and not from the deque that forgets them.
RateLimited ==
  [][\A t \in TraderId : accepted'[t] # accepted[t] =>
       LET last == accepted'[t][Len(accepted'[t])]
       IN  Cardinality({i \in DOMAIN accepted'[t] :
                          last - accepted'[t][i] <= get_limits(t).rate_window})
             <= get_limits(t).max_order_rate]_vars
=============================================================================
