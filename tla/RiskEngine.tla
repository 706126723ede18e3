----------------------------- MODULE RiskEngine -----------------------------
(***************************************************************************)
(* RiskEngine (src/src/risk/risk_engine.h and .cpp): the checks an order   *)
(* passes before it reaches a book, and the state they read.  The module   *)
(* has the operations; RiskSession and MatchingEngine say who calls them.  *)
(*                                                                         *)
(* A trader or a symbol that the maps have no entry for has an entry with  *)
(* the default value here.  The counters of checks and rejects are left    *)
(* out.  One thread calls everything but kill_all, whose flag is atomic.   *)
(***************************************************************************)
EXTENDS Integers, Sequences, FiniteSetsExt

CONSTANTS
  TraderId,
  Symbol,
  LimitChoices,   \* the TraderRiskLimits that can be configured
  InitialLimits   \* what default_limits_ is at first

RiskLimits ==
  [max_position_per_symbol : Nat, max_net_position : Nat,
   max_order_rate : Nat, rate_window : Nat]

ASSUME LimitsAssumption ==
  LimitChoices \subseteq RiskLimits /\ InitialLimits \in RiskLimits

VARIABLES
  trader_limits,  \* trader_limits_, for the traders that have an entry
  default_limits, \* default_limits_
  trader_states,  \* trader_states_
  global_kill     \* global_kill_

limit_vars == <<trader_limits, default_limits>>
risk_vars == <<trader_limits, default_limits, trader_states, global_kill>>

NewTrader ==
  [positions |-> [s \in Symbol |-> 0], net_position |-> 0,
   killed |-> FALSE, order_timestamps |-> <<>>]

RiskInit ==
  /\ trader_limits = <<>>
  /\ default_limits = InitialLimits
  /\ trader_states = [t \in TraderId |-> NewTrader]
  /\ global_kill = FALSE

Abs(n) == IF n < 0 THEN -n ELSE n

Signed(side, qty) == IF side = "Buy" THEN qty ELSE -qty

----------------------------------------------------------------------------
(* Limits and kill switches. *)

get_limits(t) == IF t \in DOMAIN trader_limits THEN trader_limits[t] ELSE default_limits

SetTraderLimits(t, limits) ==
  /\ trader_limits' = [u \in DOMAIN trader_limits \cup {t} |->
                         IF u = t THEN limits ELSE trader_limits[u]]
  /\ UNCHANGED <<default_limits, trader_states, global_kill>>

SetDefaultLimits(limits) ==
  /\ default_limits' = limits
  /\ UNCHANGED <<trader_limits, trader_states, global_kill>>

KillTrader(t) ==
  /\ trader_states' = [trader_states EXCEPT ![t].killed = TRUE]
  /\ UNCHANGED <<limit_vars, global_kill>>

UnkillTrader(t) ==
  /\ trader_states' = [trader_states EXCEPT ![t].killed = FALSE]
  /\ UNCHANGED <<limit_vars, global_kill>>

KillAll == global_kill' = TRUE /\ UNCHANGED <<limit_vars, trader_states>>

\* unkill_all clears the switch of every trader as well.
UnkillAll ==
  /\ global_kill' = FALSE
  /\ trader_states' = [t \in TraderId |-> [trader_states[t] EXCEPT !.killed = FALSE]]
  /\ UNCHANGED limit_vars

is_killed(t) == global_kill \/ trader_states[t].killed

----------------------------------------------------------------------------
(* check_order *)

\* now - front > window_ns in unsigned arithmetic: a time before front is as
\* good as expired, because the difference wraps around.
Expired(now, front, window) == now < front \/ now - front > window

\* Mutant: a time at the edge of the window is forgotten.
FreshLoosely(stamps, now, window) ==
  SelectSeq(stamps, LAMBDA front : now - front < window)

\* What check_rate_limit's loop leaves of the deque: it pops at the front until
\* it meets a time that has not expired.
Fresh(stamps, now, window) ==
  LET kept == {i \in DOMAIN stamps : ~Expired(now, stamps[i], window)}
  IN  IF kept = {} THEN <<>> ELSE SubSeq(stamps, Min(kept), Len(stamps))

\* Mutant: the check does not count the order.
BreaksPositionLimitNow(order) ==
  Abs(trader_states[order.trader_id].positions[order.symbol])
    > get_limits(order.trader_id).max_position_per_symbol

\* The position check reads what filled, and not what rests.
BreaksPositionLimit(order) ==
  LET state  == trader_states[order.trader_id]
      limits == get_limits(order.trader_id)
      change == Signed(order.side, order.quantity)
  IN  \/ Abs(state.positions[order.symbol] + change) > limits.max_position_per_symbol
      \/ Abs(state.net_position + change) > limits.max_net_position

\* Mutant: without the quantity check.
RejectsAnyQuantity(order) ==
  \/ is_killed(order.trader_id)
  \/ order.type = "Limit" /\ order.price <= 0
  \/ BreaksPositionLimit(order)

\* Mutant: the kill switches are not asked.
RejectsUnswitched(order) ==
  \/ order.type = "Limit" /\ order.price <= 0
  \/ order.quantity <= 0
  \/ BreaksPositionLimit(order)

\* The checks before the rate limit.
Rejects(order) ==
  \/ is_killed(order.trader_id)
  \/ order.type = "Limit" /\ order.price <= 0
  \/ order.quantity <= 0
  \/ BreaksPositionLimit(order)

FreshStamps(order, now) ==
  Fresh(trader_states[order.trader_id].order_timestamps, now,
        get_limits(order.trader_id).rate_window)

Passes(order, now) ==
  /\ ~Rejects(order)
  /\ Len(FreshStamps(order, now)) < get_limits(order.trader_id).max_order_rate

\* The rate limit is checked last; it forgets expired times even if it rejects.
CheckOrder(order, now) ==
  /\ trader_states' =
       IF Rejects(order) THEN trader_states
       ELSE [trader_states EXCEPT ![order.trader_id].order_timestamps =
               IF Passes(order, now) THEN Append(FreshStamps(order, now), now)
                                     ELSE FreshStamps(order, now)]
  /\ UNCHANGED <<limit_vars, global_kill>>

----------------------------------------------------------------------------
(* on_fill *)

\* Mutant: one of the two totals is forgotten.
OnFillForgettingNet(t, symbol, side, qty) ==
  /\ trader_states' =
       [trader_states EXCEPT ![t].positions[symbol] = @ + Signed(side, qty)]
  /\ UNCHANGED <<limit_vars, global_kill>>

\* Mutant: a sale counts as a purchase.
OnFillUnsigned(t, symbol, side, qty) ==
  /\ trader_states' =
       [trader_states EXCEPT ![t].positions[symbol] = @ + qty,
                             ![t].net_position      = @ + qty]
  /\ UNCHANGED <<limit_vars, global_kill>>

OnFill(t, symbol, side, qty) ==
  /\ trader_states' =
       [trader_states EXCEPT ![t].positions[symbol] = @ + Signed(side, qty),
                             ![t].net_position      = @ + Signed(side, qty)]
  /\ UNCHANGED <<limit_vars, global_kill>>

----------------------------------------------------------------------------
RiskState ==
  [positions : [Symbol -> Int], net_position : Int, killed : BOOLEAN,
   order_timestamps : Seq(Nat)]

RiskTypeOK ==
  /\ DOMAIN trader_limits \subseteq TraderId
  /\ \A t \in DOMAIN trader_limits : trader_limits[t] \in RiskLimits
  /\ default_limits \in RiskLimits
  /\ trader_states \in [TraderId -> RiskState]
  /\ global_kill \in BOOLEAN
=============================================================================
