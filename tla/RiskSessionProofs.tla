------------------------- MODULE RiskSessionProofs -------------------------
(***************************************************************************)
(* RiskSession for all sets of traders, symbols, limits and orders: the    *)
(* types, the totals, the position limits and the rate limit.              *)
(***************************************************************************)
EXTENDS RiskSession, SumProofs, SequenceTheorems

\* The order that has passed still fits the limits.
PassedFits == \A o \in passed : ~BreaksPositionLimit(o)

IInv == TypeOK /\ PassedFits

\* The minimum of a set of natural numbers is one of them and not above any.
LEMMA MinLemma ==
  ASSUME NEW S \in SUBSET Nat, S # {}
  PROVE  Min(S) \in S /\ \A n \in S : Min(S) <= n
BY LeastLemma DEF Min

\* What check_rate_limit leaves of the deque is an end of it.
LEMMA FreshLemma ==
  ASSUME NEW stamps \in Seq(Nat), NEW at \in Nat, NEW window \in Nat
  PROVE  \E k \in 0..Len(stamps) :
           /\ Fresh(stamps, at, window) = SubSeq(stamps, k + 1, Len(stamps))
           /\ Fresh(stamps, at, window) \in Seq(Nat)
           /\ Len(Fresh(stamps, at, window)) = Len(stamps) - k
           /\ \A i \in 1..(Len(stamps) - k) : Fresh(stamps, at, window)[i] = stamps[i + k]
           /\ \A i \in 1..k : Expired(at, stamps[i], window)
<1> DEFINE kept == {i \in DOMAIN stamps : ~Expired(at, stamps[i], window)}
           k    == IF kept = {} THEN Len(stamps) ELSE Min(kept) - 1
<1>1. kept \subseteq 1..Len(stamps) /\ kept \in SUBSET Nat
  BY LenProperties
<1>2. kept # {} => Min(kept) \in kept /\ \A n \in kept : Min(kept) <= n
  BY <1>1, MinLemma
<1>3. Len(stamps) \in Nat
  BY LenProperties
<1>4. k \in 0..Len(stamps)
  BY <1>1, <1>2, <1>3
<1>5. \A i \in 1..k : Expired(at, stamps[i], window)
  <2> SUFFICES ASSUME NEW i \in 1..k, ~Expired(at, stamps[i], window) PROVE FALSE
    OBVIOUS
  <2>1. i \in kept
    BY <1>3, <1>4, LenProperties
  <2>2. kept # {} /\ Min(kept) \in Nat /\ Min(kept) <= i
    BY <1>1, <1>2, <2>1
  <2>3. k = Min(kept) - 1
    BY <2>2
  <2> QED BY <2>2, <2>3
<1>6. Fresh(stamps, at, window) = SubSeq(stamps, k + 1, Len(stamps))
  <2>1. CASE kept = {}
    BY <1>3, <2>1, SubSeqEmpty DEF Fresh
  <2>2. CASE kept # {}
    <3>1. k + 1 = Min(kept)
      BY <1>1, <1>2, <2>2
    <3> QED BY <2>2, <3>1 DEF Fresh
  <2> QED BY <2>1, <2>2
<1> HIDE DEF k
<1>7. \A i \in (k + 1)..Len(stamps) : stamps[i] \in Nat
  BY <1>3, <1>4, ElementOfSeq
<1> DEFINE rest == SubSeq(stamps, k + 1, Len(stamps))
<1>8. /\ rest \in Seq(Nat)
      /\ Len(rest) = IF k + 1 <= Len(stamps) THEN Len(stamps) - (k + 1) + 1 ELSE 0
      /\ \A i \in 1..(Len(stamps) - (k + 1) + 1) : rest[i] = stamps[k + 1 + i - 1]
  BY <1>3, <1>4, <1>7, SubSeqProperties
<1>9. /\ Len(rest) = Len(stamps) - k
      /\ \A i \in 1..(Len(stamps) - k) : rest[i] = stamps[i + k]
  BY <1>3, <1>4, <1>8
<1>10. Fresh(stamps, at, window) = rest
  BY <1>6
<1> QED BY <1>4, <1>5, <1>6, <1>8, <1>9, <1>10, Zenon

\* The limits in force for a trader are limits.
LEMMA LimitsLemma ==
  ASSUME RiskTypeOK, NEW t \in TraderId
  PROVE  get_limits(t) \in RiskLimits
BY DEF RiskTypeOK, get_limits

----------------------------------------------------------------------------
(* Each operation of the risk engine keeps its types. *)

\* What check_order leaves of a trader's state.
LEMMA CheckOrderLemma ==
  ASSUME RiskTypeOK, NEW order \in Order, NEW at \in Nat, CheckOrder(order, at)
  PROVE  /\ RiskTypeOK'
         /\ \A t \in TraderId :
              /\ trader_states'[t].positions = trader_states[t].positions
              /\ trader_states'[t].net_position = trader_states[t].net_position
              /\ t # order.trader_id => trader_states'[t] = trader_states[t]
         /\ ~Rejects(order) =>
              trader_states'[order.trader_id].order_timestamps =
                IF Passes(order, at) THEN Append(FreshStamps(order, at), at)
                                     ELSE FreshStamps(order, at)
         /\ Rejects(order) => trader_states' = trader_states
         /\ FreshStamps(order, at) \in Seq(Nat)
<1> DEFINE t == order.trader_id
           left == IF Passes(order, at) THEN Append(FreshStamps(order, at), at)
                                        ELSE FreshStamps(order, at)
<1>1. t \in TraderId
  BY DEF Order
<1>2. trader_states[t].order_timestamps \in Seq(Nat)
  BY <1>1 DEF RiskTypeOK, RiskState
<1>3. get_limits(t).rate_window \in Nat
  BY <1>1, LimitsLemma DEF RiskLimits
<1>4. FreshStamps(order, at) \in Seq(Nat)
  BY <1>2, <1>3, FreshLemma DEF FreshStamps
<1>5. left \in Seq(Nat)
  BY <1>4
<1>6. trader_states' = IF Rejects(order) THEN trader_states
                       ELSE [trader_states EXCEPT ![t].order_timestamps = left]
  BY DEF CheckOrder
<1>7. UNCHANGED <<trader_limits, default_limits, global_kill>>
  BY DEF CheckOrder, limit_vars
<1> HIDE DEF left
<1>8. trader_states' \in [TraderId -> RiskState]
  BY <1>1, <1>5, <1>6 DEF RiskTypeOK, RiskState
<1>9. RiskTypeOK'
  BY <1>7, <1>8 DEF RiskTypeOK
<1>10. \A u \in TraderId :
         /\ trader_states'[u].positions = trader_states[u].positions
         /\ trader_states'[u].net_position = trader_states[u].net_position
         /\ u # t => trader_states'[u] = trader_states[u]
  BY <1>1, <1>6 DEF RiskTypeOK, RiskState
<1>11. ~Rejects(order) => trader_states'[t].order_timestamps = left
  BY <1>1, <1>6 DEF RiskTypeOK, RiskState
<1> QED BY <1>4, <1>6, <1>9, <1>10, <1>11 DEF left

\* What on_fill does to the positions.
LEMMA OnFillLemma ==
  ASSUME RiskTypeOK, NEW t \in TraderId, NEW s \in Symbol, NEW side \in {"Buy", "Sell"},
         NEW qty \in Int, OnFill(t, s, side, qty)
  PROVE  /\ RiskTypeOK'
         /\ Signed(side, qty) \in Int
         /\ \A u \in TraderId : \A z \in Symbol :
              trader_states'[u].positions[z] =
                IF u = t /\ z = s THEN trader_states[u].positions[z] + Signed(side, qty)
                                 ELSE trader_states[u].positions[z]
         /\ \A u \in TraderId :
              /\ trader_states'[u].net_position =
                   IF u = t THEN trader_states[u].net_position + Signed(side, qty)
                            ELSE trader_states[u].net_position
              /\ trader_states'[u].order_timestamps = trader_states[u].order_timestamps
<1>1. Signed(side, qty) \in Int
  BY DEF Signed
<1> DEFINE d == Signed(side, qty)
           pos == [trader_states[t].positions EXCEPT ![s] = trader_states[t].positions[s] + d]
           mid == [trader_states[t] EXCEPT !.positions = pos]
           new == [mid EXCEPT !.net_position = trader_states[t].net_position + d]
<1>2. trader_states' = [trader_states EXCEPT ![t] = new]
  BY DEF OnFill
<1>3. UNCHANGED <<trader_limits, default_limits, global_kill>>
  BY DEF OnFill, limit_vars
<1>4. trader_states[t] \in RiskState
  BY DEF RiskTypeOK
<1> HIDE DEF d
<1>4a. pos \in [Symbol -> Int]
  BY <1>1, <1>4 DEF RiskState, d
<1> HIDE DEF pos
<1>4b. /\ mid.positions = pos
      /\ mid.order_timestamps = trader_states[t].order_timestamps
      /\ mid \in RiskState
  BY <1>4, <1>4a DEF RiskState
<1> HIDE DEF mid
<1>5. /\ new.positions = pos
      /\ new.net_position = trader_states[t].net_position + d
      /\ new.order_timestamps = trader_states[t].order_timestamps
      /\ new \in RiskState
  <2>1. mid.net_position \in Int /\ trader_states[t].net_position + d \in Int
    BY <1>1, <1>4, <1>4b DEF RiskState, d
  <2> DEFINE sum == trader_states[t].net_position + d
  <2> HIDE DEF sum
  <2>2. [mid EXCEPT !.net_position = sum].net_position = sum
        /\ [mid EXCEPT !.net_position = sum].positions = mid.positions
        /\ [mid EXCEPT !.net_position = sum].order_timestamps = mid.order_timestamps
    BY <1>4b DEF RiskState
  <2>3. sum \in Int => [mid EXCEPT !.net_position = sum] \in RiskState
    BY <1>4b DEF RiskState
  <2> QED BY <1>4b, <2>1, <2>2, <2>3 DEF sum
<1> HIDE DEF new
<1>6. trader_states' \in [TraderId -> RiskState]
  BY <1>2, <1>5 DEF RiskTypeOK
<1>7. RiskTypeOK'
  BY <1>3, <1>6 DEF RiskTypeOK
<1>8. \A u \in TraderId : trader_states'[u] = IF u = t THEN new ELSE trader_states[u]
  BY <1>2 DEF RiskTypeOK
<1>9. \A z \in Symbol : new.positions[z] =
        IF z = s THEN trader_states[t].positions[z] + d ELSE trader_states[t].positions[z]
  BY <1>4, <1>5 DEF RiskState, pos
<1> QED BY <1>1, <1>5, <1>7, <1>8, <1>9 DEF d

\* Limits and switches leave positions and deques alone.
LEMMA ConfigureLemma ==
  ASSUME RiskTypeOK, Configure
  PROVE  /\ RiskTypeOK'
         /\ \A t \in TraderId :
              /\ trader_states'[t].positions = trader_states[t].positions
              /\ trader_states'[t].net_position = trader_states[t].net_position
              /\ trader_states'[t].order_timestamps = trader_states[t].order_timestamps
<1> USE LimitsAssumption
<1>1. ASSUME NEW t \in TraderId, NEW limits \in LimitChoices, SetTraderLimits(t, limits)
      PROVE  RiskTypeOK' /\ UNCHANGED trader_states
  BY <1>1 DEF SetTraderLimits, RiskTypeOK
<1>2. ASSUME NEW limits \in LimitChoices, SetDefaultLimits(limits)
      PROVE  RiskTypeOK' /\ UNCHANGED trader_states
  BY <1>2 DEF SetDefaultLimits, RiskTypeOK
<1>3. ASSUME NEW t \in TraderId, NEW b \in BOOLEAN,
             trader_states' = [trader_states EXCEPT ![t].killed = b],
             UNCHANGED <<trader_limits, default_limits, global_kill>>
      PROVE  /\ RiskTypeOK'
             /\ \A u \in TraderId :
                  /\ trader_states'[u].positions = trader_states[u].positions
                  /\ trader_states'[u].net_position = trader_states[u].net_position
                  /\ trader_states'[u].order_timestamps = trader_states[u].order_timestamps
  BY <1>3 DEF RiskTypeOK, RiskState
<1>4. ASSUME NEW t \in TraderId, KillTrader(t) \/ UnkillTrader(t)
      PROVE  \E b \in BOOLEAN :
               /\ trader_states' = [trader_states EXCEPT ![t].killed = b]
               /\ UNCHANGED <<trader_limits, default_limits, global_kill>>
  BY <1>4 DEF KillTrader, UnkillTrader, limit_vars
<1>5. ASSUME UnkillAll
      PROVE  /\ RiskTypeOK'
             /\ \A u \in TraderId :
                  /\ trader_states'[u].positions = trader_states[u].positions
                  /\ trader_states'[u].net_position = trader_states[u].net_position
                  /\ trader_states'[u].order_timestamps = trader_states[u].order_timestamps
  BY <1>5 DEF UnkillAll, limit_vars, RiskTypeOK, RiskState
<1>6. \/ \E t \in TraderId, limits \in LimitChoices : SetTraderLimits(t, limits)
      \/ \E limits \in LimitChoices : SetDefaultLimits(limits)
      \/ \E t \in TraderId : KillTrader(t) \/ UnkillTrader(t)
      \/ UnkillAll
  BY DEF Configure
<1> QED BY <1>1, <1>2, <1>3, <1>4, <1>5, <1>6

----------------------------------------------------------------------------
(* The types, and the order that has passed: every step keeps them. *)

\* The check of the position limits reads the positions and the limits only.
LEMMA SamePositionLimit ==
  ASSUME NEW o \in Order, UNCHANGED limit_vars,
         trader_states'[o.trader_id].positions = trader_states[o.trader_id].positions,
         trader_states'[o.trader_id].net_position = trader_states[o.trader_id].net_position
  PROVE  BreaksPositionLimit(o)' = BreaksPositionLimit(o)
BY DEF limit_vars, BreaksPositionLimit, get_limits, Signed

\* Initially nothing has passed.
LEMMA InitIInv == Init => IInv
<1> SUFFICES ASSUME Init PROVE IInv
  OBVIOUS
<1>1. NewTrader \in RiskState
  BY EmptySeq DEF NewTrader, RiskState
<1>2. RiskTypeOK
  <2>1. DOMAIN trader_limits = {}
    BY DEF Init, RiskInit
  <2> QED BY <1>1, <2>1, LimitsAssumption DEF Init, RiskInit, RiskTypeOK
<1> QED BY <1>2, SessionAssumption DEF Init, IInv, TypeOK, PassedFits

\* check_order lets an order through only if it fits the limits.
LEMMA CheckStep ==
  ASSUME IInv, NEW order \in Orders, NEW at \in now..MaxTime, Check(order, at)
  PROVE  IInv'
<1> USE SessionAssumption
<1>1. order \in Order /\ at \in Nat /\ RiskTypeOK /\ CheckOrder(order, at)
  BY DEF IInv, TypeOK, Check
<1>2. RiskTypeOK'
      /\ \A t \in TraderId :
           /\ trader_states'[t].positions = trader_states[t].positions
           /\ trader_states'[t].net_position = trader_states[t].net_position
  BY <1>1, CheckOrderLemma
<1>3. accepted' \in [TraderId -> Seq(0..MaxTime)]
  <2>1. at \in 0..MaxTime
    BY DEF IInv, TypeOK
  <2> QED BY <2>1, AppendProperties DEF IInv, TypeOK, Check
<1>4. \A o \in passed' : o = order /\ ~Rejects(o)
  BY DEF Check, Passes
<1>5. \A o \in passed' : ~BreaksPositionLimit(o)'
  <2> SUFFICES ASSUME NEW o \in passed' PROVE ~BreaksPositionLimit(o)'
    OBVIOUS
  <2>1. o = order /\ ~BreaksPositionLimit(o)
    BY <1>4 DEF Rejects
  <2>2. UNCHANGED limit_vars
    BY <1>1 DEF CheckOrder
  <2>3. o.trader_id \in TraderId
    BY <1>1, <2>1 DEF Order
  <2> QED BY <1>1, <1>2, <2>1, <2>2, <2>3, SamePositionLimit
<1>6. \A o \in passed' : o.quantity > 0 /\ (o.type = "Limit" => o.price > 0)
  BY <1>1, <1>4 DEF Rejects, Order
<1>7. passed' \subseteq Orders /\ now' \in 0..MaxTime
  BY <1>4 DEF IInv, TypeOK, Check
<1> QED BY <1>2, <1>3, <1>5, <1>6, <1>7 DEF IInv, TypeOK, PassedFits

\* A fill is of an order that has passed, and is the last of it.
LEMMA FillStep == ASSUME IInv, Fill PROVE IInv'
<1> USE SessionAssumption
<1>1. PICK o \in passed : \E qty \in 0..o.quantity :
        /\ IF qty > 0 THEN OnFill(o.trader_id, o.symbol, o.side, qty) ELSE UNCHANGED risk_vars
        /\ passed' = {}
        /\ UNCHANGED <<now, accepted>>
  BY DEF Fill
<1>2. PICK qty \in 0..o.quantity :
        IF qty > 0 THEN OnFill(o.trader_id, o.symbol, o.side, qty) ELSE UNCHANGED risk_vars
  BY <1>1
<1>3. /\ o.trader_id \in TraderId /\ o.symbol \in Symbol /\ o.side \in {"Buy", "Sell"}
      /\ qty \in Int /\ RiskTypeOK
  BY DEF IInv, TypeOK, Order
<1>4. RiskTypeOK'
  <2>1. CASE qty > 0
    BY <1>2, <1>3, <2>1, OnFillLemma
  <2>2. CASE ~(qty > 0)
    BY <1>2, <1>3, <2>2 DEF risk_vars, RiskTypeOK
  <2> QED BY <2>1, <2>2
<1> QED BY <1>1, <1>4 DEF IInv, TypeOK, PassedFits

\* Limits and switches change only when no order waits for its fill.
LEMMA ConfigureStep == ASSUME IInv, Configure PROVE IInv'
<1>1. RiskTypeOK'
  BY ConfigureLemma DEF IInv, TypeOK
<1> QED BY <1>1 DEF Configure, IInv, TypeOK, PassedFits

\* The switch for all changes nothing the order that has passed was checked for.
LEMMA KillStep == ASSUME IInv, Kill PROVE IInv'
<1>1. RiskTypeOK'
  BY DEF Kill, KillAll, limit_vars, IInv, TypeOK, RiskTypeOK
<1>2. UNCHANGED <<trader_states, limit_vars, passed, now, accepted>>
  BY DEF Kill, KillAll
<1>3. \A o \in passed : BreaksPositionLimit(o)' = BreaksPositionLimit(o)
  BY <1>2 DEF limit_vars, BreaksPositionLimit, get_limits, Signed
<1> QED BY <1>1, <1>2, <1>3 DEF IInv, TypeOK, PassedFits

\* Every step keeps the invariant.
LEMMA NextIInv == IInv /\ [Next]_vars => IInv'
<1> SUFFICES ASSUME IInv, [Next]_vars PROVE IInv'
  OBVIOUS
<1>1. CASE UNCHANGED vars
  BY <1>1 DEF vars, risk_vars, IInv, TypeOK, RiskTypeOK, PassedFits, BreaksPositionLimit,
              get_limits, Signed
<1> QED BY <1>1, CheckStep, FillStep, ConfigureStep, KillStep DEF Next

\* The types hold, and an order that has passed fits the limits until its fill.
THEOREM Invariance == Spec => []IInv
<1> QED BY InitIInv, NextIInv, PTL DEF Spec

\* Every variable has its type; an order that passed can be given to a book.
THEOREM TypeCorrect == Spec => []TypeOK
<1>1. IInv => TypeOK
  BY DEF IInv
<1> QED BY <1>1, Invariance, PTL

----------------------------------------------------------------------------
(* The net position. *)

\* NetIsSum, with the sum that SumProofs is about.
NetIsSumOver ==
  \A t \in TraderId :
    trader_states[t].net_position = SumOver(trader_states[t].positions, Symbol)

\* on_fill changes one position and the net position by the same amount.
LEMMA FillKeepsNet ==
  ASSUME IInv, NetIsSumOver, Fill
  PROVE  NetIsSumOver'
<1> USE SessionAssumption
<1>1. PICK o \in passed : \E qty \in 0..o.quantity :
        IF qty > 0 THEN OnFill(o.trader_id, o.symbol, o.side, qty) ELSE UNCHANGED risk_vars
  BY DEF Fill
<1>2. PICK qty \in 0..o.quantity :
        IF qty > 0 THEN OnFill(o.trader_id, o.symbol, o.side, qty) ELSE UNCHANGED risk_vars
  BY <1>1
<1>3. /\ o.trader_id \in TraderId /\ o.symbol \in Symbol /\ o.side \in {"Buy", "Sell"}
      /\ qty \in Int /\ RiskTypeOK
  BY DEF IInv, TypeOK, Order
<1>4. CASE ~(qty > 0)
  BY <1>2, <1>4 DEF risk_vars, NetIsSumOver
<1>5. CASE qty > 0
  <2> SUFFICES ASSUME NEW t \in TraderId
               PROVE  trader_states'[t].net_position = SumOver(trader_states'[t].positions, Symbol)
    BY DEF NetIsSumOver
  <2> DEFINE old == trader_states[t].positions
             new == trader_states'[t].positions
             d   == Signed(o.side, qty)
  <2>1. trader_states[t].net_position = SumOver(old, Symbol)
    BY DEF NetIsSumOver
  <2>2. /\ RiskTypeOK'
        /\ d \in Int
        /\ \A z \in Symbol :
             new[z] = IF t = o.trader_id /\ z = o.symbol THEN old[z] + d ELSE old[z]
        /\ trader_states'[t].net_position =
             IF t = o.trader_id THEN trader_states[t].net_position + d
                                ELSE trader_states[t].net_position
    BY <1>2, <1>3, <1>5, OnFillLemma
  <2>3. \A z \in Symbol : old[z] \in Int /\ new[z] \in Int
    BY <1>3, <2>2 DEF RiskTypeOK, RiskState
  <2>4. trader_states[t].net_position \in Int
    BY <1>3 DEF RiskTypeOK, RiskState
  <2> HIDE DEF old, new, d
  <2>5. CASE t = o.trader_id
    <3>1. SumOver(new, Symbol) = SumOver(old, Symbol) + (new[o.symbol] - old[o.symbol])
      BY <1>3, <2>2, <2>3, SumUpdate
    <3>2. new[o.symbol] - old[o.symbol] = d
      BY <1>3, <2>2, <2>3, <2>5
    <3> QED BY <2>1, <2>2, <2>4, <2>5, <3>1, <3>2 DEF new
  <2>6. CASE t # o.trader_id
    <3>1. SumOver(new, Symbol) = SumOver(old, Symbol)
      BY <2>2, <2>6, SumSame
    <3> QED BY <2>1, <2>2, <2>6, <3>1 DEF new
  <2> QED BY <2>5, <2>6
<1> QED BY <1>4, <1>5

\* No other step touches a position.
LEMMA OthersKeepPositions ==
  ASSUME IInv, Next, ~Fill, NEW t \in TraderId
  PROVE  /\ trader_states'[t].positions = trader_states[t].positions
         /\ trader_states'[t].net_position = trader_states[t].net_position
<1> USE SessionAssumption
<1>0. RiskTypeOK
  BY DEF IInv, TypeOK
<1>1. ASSUME NEW order \in Orders, NEW at \in now..MaxTime, Check(order, at)
      PROVE  /\ trader_states'[t].positions = trader_states[t].positions
             /\ trader_states'[t].net_position = trader_states[t].net_position
  <2>1. order \in Order /\ at \in Nat /\ CheckOrder(order, at)
    BY <1>1 DEF IInv, TypeOK, Check
  <2> QED BY <1>0, <2>1, CheckOrderLemma
<1>2. ASSUME Configure
      PROVE  /\ trader_states'[t].positions = trader_states[t].positions
             /\ trader_states'[t].net_position = trader_states[t].net_position
  BY <1>0, <1>2, ConfigureLemma
<1>3. ASSUME Kill
      PROVE  /\ trader_states'[t].positions = trader_states[t].positions
             /\ trader_states'[t].net_position = trader_states[t].net_position
  BY <1>3 DEF Kill, KillAll
<1> QED BY <1>1, <1>2, <1>3 DEF Next

\* The net position that on_fill keeps beside the map of positions is the sum of
\* the map, for any number of symbols.
THEOREM NetIsAlwaysSum == Spec => []NetIsSum
<1>1. Init => NetIsSumOver
  <2> SUFFICES ASSUME Init, NEW t \in TraderId
               PROVE  trader_states[t].net_position = SumOver(trader_states[t].positions, Symbol)
    BY DEF NetIsSumOver
  <2>1. trader_states[t].net_position = 0
        /\ \A s \in Symbol : trader_states[t].positions[s] = 0
    BY DEF Init, RiskInit, NewTrader
  <2> QED BY <2>1, SumZero, SessionAssumption
<1>2. IInv /\ NetIsSumOver /\ [Next]_vars => NetIsSumOver'
  <2> SUFFICES ASSUME IInv, NetIsSumOver, [Next]_vars PROVE NetIsSumOver'
    OBVIOUS
  <2>1. CASE UNCHANGED vars
    BY <2>1 DEF vars, risk_vars, NetIsSumOver
  <2>2. CASE Next /\ ~Fill
    BY <2>2, OthersKeepPositions DEF NetIsSumOver
  <2> QED BY <2>1, <2>2, FillKeepsNet
<1>3. NetIsSumOver => NetIsSum
  BY DEF NetIsSumOver, NetIsSum, SumOver
<1> QED BY <1>1, <1>2, <1>3, Invariance, PTL DEF Spec

----------------------------------------------------------------------------
(* The position limits. *)

\* A part of a change takes a total no further than the change or where it was.
LEMMA PartOfChange ==
  ASSUME NEW n \in Int, NEW side \in {"Buy", "Sell"}, NEW quantity \in Int,
         NEW qty \in 0..quantity, NEW limit \in Int,
         ~(Abs(n + Signed(side, quantity)) > limit)
  PROVE  Abs(n + Signed(side, qty)) <= limit \/ Abs(n + Signed(side, qty)) <= Abs(n)
<1>1. CASE side = "Buy"
  BY <1>1 DEF Abs, Signed
<1>2. CASE side # "Buy"
  BY <1>2 DEF Abs, Signed
<1> QED BY <1>1, <1>2

\* A step that leaves the positions of t keeps them within any limit.
LEMMA SamePositions ==
  ASSUME RiskTypeOK, NEW t \in TraderId,
         trader_states'[t].positions = trader_states[t].positions,
         trader_states'[t].net_position = trader_states[t].net_position
  PROVE  /\ \A s \in Symbol :
              Abs(trader_states'[t].positions[s]) <= Abs(trader_states[t].positions[s])
         /\ Abs(trader_states'[t].net_position) <= Abs(trader_states[t].net_position)
<1>1. trader_states[t] \in RiskState
  BY DEF RiskTypeOK
<1>2. \A n \in Int : Abs(n) <= Abs(n)
  BY DEF Abs
<1> QED BY <1>1, <1>2 DEF RiskState

\* A fill takes each total of its trader no further than the whole order would.
LEMMA FillWithinLimits ==
  ASSUME IInv, NEW o \in passed, NEW qty \in 0..o.quantity,
         OnFill(o.trader_id, o.symbol, o.side, qty), NEW t \in TraderId
  PROVE  /\ \A s \in Symbol :
              \/ Abs(trader_states'[t].positions[s]) <= get_limits(t).max_position_per_symbol
              \/ Abs(trader_states'[t].positions[s]) <= Abs(trader_states[t].positions[s])
         /\ \/ Abs(trader_states'[t].net_position) <= get_limits(t).max_net_position
            \/ Abs(trader_states'[t].net_position) <= Abs(trader_states[t].net_position)
<1> USE SessionAssumption
<1> DEFINE d == Signed(o.side, qty)
<1>1. /\ o.trader_id \in TraderId /\ o.symbol \in Symbol /\ o.side \in {"Buy", "Sell"}
      /\ o.quantity \in Int /\ qty \in Int /\ RiskTypeOK
  BY DEF IInv, TypeOK, Order
<1>2. trader_states[t] \in RiskState /\ get_limits(t) \in RiskLimits
  BY <1>1, LimitsLemma DEF RiskTypeOK
<1>3. /\ \A s \in Symbol : trader_states'[t].positions[s] =
           IF t = o.trader_id /\ s = o.symbol THEN trader_states[t].positions[s] + d
                                              ELSE trader_states[t].positions[s]
      /\ trader_states'[t].net_position =
           IF t = o.trader_id THEN trader_states[t].net_position + d
                              ELSE trader_states[t].net_position
  BY <1>1, OnFillLemma
<1>4. \A n \in Int : Abs(n) <= Abs(n)
  BY DEF Abs
<1>5. t = o.trader_id =>
        /\ ~(Abs(trader_states[t].positions[o.symbol] + Signed(o.side, o.quantity))
               > get_limits(t).max_position_per_symbol)
        /\ ~(Abs(trader_states[t].net_position + Signed(o.side, o.quantity))
               > get_limits(t).max_net_position)
  BY DEF IInv, PassedFits, BreaksPositionLimit
<1>6. /\ get_limits(t).max_position_per_symbol \in Int
      /\ get_limits(t).max_net_position \in Int
      /\ trader_states[t].net_position \in Int
      /\ \A s \in Symbol : trader_states[t].positions[s] \in Int
  BY <1>2 DEF RiskLimits, RiskState
<1>7. ASSUME NEW s \in Symbol
      PROVE  \/ Abs(trader_states'[t].positions[s]) <= get_limits(t).max_position_per_symbol
             \/ Abs(trader_states'[t].positions[s]) <= Abs(trader_states[t].positions[s])
  <2>1. CASE t = o.trader_id /\ s = o.symbol
    BY <1>1, <1>3, <1>5, <1>6, <2>1, PartOfChange
  <2>2. CASE ~(t = o.trader_id /\ s = o.symbol)
    BY <1>3, <1>4, <1>6, <2>2
  <2> QED BY <2>1, <2>2
<1>8. \/ Abs(trader_states'[t].net_position) <= get_limits(t).max_net_position
      \/ Abs(trader_states'[t].net_position) <= Abs(trader_states[t].net_position)
  <2>1. CASE t = o.trader_id
    BY <1>1, <1>3, <1>5, <1>6, <2>1, PartOfChange
  <2>2. CASE t # o.trader_id
    BY <1>3, <1>4, <1>6, <2>2
  <2> QED BY <2>1, <2>2
<1> QED BY <1>7, <1>8

\* No step takes a total of a trader past its limit, or further past it.
LEMMA StepWithinLimits ==
  ASSUME IInv, Next, NEW t \in TraderId
  PROVE  /\ \A s \in Symbol :
              \/ Abs(trader_states'[t].positions[s]) <= get_limits(t).max_position_per_symbol
              \/ Abs(trader_states'[t].positions[s]) <= Abs(trader_states[t].positions[s])
         /\ \/ Abs(trader_states'[t].net_position) <= get_limits(t).max_net_position
            \/ Abs(trader_states'[t].net_position) <= Abs(trader_states[t].net_position)
<1> USE SessionAssumption
<1>0. RiskTypeOK
  BY DEF IInv, TypeOK
<1>1. CASE ~Fill
  BY <1>0, <1>1, OthersKeepPositions, SamePositions
<1>2. CASE Fill
  <2>0. PICK o \in passed : \E qty \in 0..o.quantity :
          IF qty > 0 THEN OnFill(o.trader_id, o.symbol, o.side, qty) ELSE UNCHANGED risk_vars
    BY <1>2 DEF Fill
  <2>1. PICK qty \in 0..o.quantity :
          IF qty > 0 THEN OnFill(o.trader_id, o.symbol, o.side, qty) ELSE UNCHANGED risk_vars
    BY <2>0
  <2>2. CASE qty > 0
    BY <2>1, <2>2, FillWithinLimits
  <2>3. CASE ~(qty > 0)
    BY <1>0, <2>1, <2>3, SamePositions DEF risk_vars
  <2> QED BY <2>2, <2>3
<1> QED BY <1>1, <1>2

\* No fill takes a trader past a limit, or further past one that was lowered
\* below what the trader has: check_order tests the whole quantity against what
\* filled before, and nothing changes either until the fill.
THEOREM LimitsKept == Spec => LimitsRespected
<1>1. IInv /\ [Next]_vars =>
        [\A t \in TraderId :
           LET old == trader_states[t]
               new == trader_states'[t]
           IN  /\ \A s \in Symbol :
                    \/ Abs(new.positions[s]) <= get_limits(t).max_position_per_symbol
                    \/ Abs(new.positions[s]) <= Abs(old.positions[s])
               /\ \/ Abs(new.net_position) <= get_limits(t).max_net_position
                  \/ Abs(new.net_position) <= Abs(old.net_position)]_vars
  BY StepWithinLimits
<1> QED BY <1>1, Invariance, PTL DEF Spec, LimitsRespected

----------------------------------------------------------------------------
(* The rate limit, if every limit has the window w.  A limit with a longer     *)
(* window that comes later would count times that a shorter one has forgotten. *)

WindowIs(w) == \A limits \in LimitChoices \cup {InitialLimits} : limits.rate_window = w

\* stamps is the end of history that a check at time at still counts.
Remembers(stamps, history, at, w) ==
  /\ \A i \in DOMAIN history : history[i] <= at
  /\ \E k \in 0..Len(history) :
       /\ Len(stamps) = Len(history) - k
       /\ \A i \in 1..Len(stamps) : stamps[i] = history[i + k]
       /\ \A i \in 1..k : at - history[i] > w

\* The times of history that a window of length w before at covers.
InWindow(history, at, w) == {i \in DOMAIN history : at - history[i] <= w}

\* The limits in force have the window w.
InForce(w) ==
  /\ \A t \in DOMAIN trader_limits : trader_limits[t].rate_window = w
  /\ default_limits.rate_window = w

\* No deque has forgotten a time that its window still covers.
RateInv(w) ==
  /\ InForce(w)
  /\ \A t \in TraderId :
       Remembers(trader_states[t].order_timestamps, accepted[t], now, w)

\* Time goes by, and a deque forgets what has expired.
LEMMA ForgetLemma ==
  ASSUME NEW stamps \in Seq(Nat), NEW history \in Seq(Nat), NEW w \in Nat,
         NEW old \in Nat, NEW at \in Nat, old <= at, Remembers(stamps, history, old, w)
  PROVE  /\ Remembers(stamps, history, at, w)
         /\ Remembers(Fresh(stamps, at, w), history, at, w)
<1>1. PICK k \in 0..Len(history) :
        /\ Len(stamps) = Len(history) - k
        /\ \A i \in 1..Len(stamps) : stamps[i] = history[i + k]
        /\ \A i \in 1..k : old - history[i] > w
  BY DEF Remembers
<1>2. /\ Len(history) \in Nat /\ DOMAIN history = 1..Len(history)
      /\ \A i \in 1..Len(history) : history[i] \in Nat
      /\ Len(stamps) \in Nat
  BY ElementOfSeq
<1>3. \A i \in DOMAIN history : history[i] <= at
  BY <1>2 DEF Remembers
<1>4. \A i \in 1..k : at - history[i] > w
  BY <1>1, <1>2
<1>5. Remembers(stamps, history, at, w)
  BY <1>1, <1>3, <1>4 DEF Remembers
<1> DEFINE left == Fresh(stamps, at, w)
<1>6. PICK j \in 0..Len(stamps) :
        /\ Len(left) = Len(stamps) - j
        /\ \A i \in 1..(Len(stamps) - j) : left[i] = stamps[i + j]
        /\ \A i \in 1..j : Expired(at, stamps[i], w)
  BY FreshLemma
<1> HIDE DEF left
<1>7. k + j \in 0..Len(history) /\ Len(left) = Len(history) - (k + j)
  BY <1>1, <1>2, <1>6
<1>8. \A i \in 1..Len(left) : left[i] = history[i + (k + j)]
  <2> TAKE i \in 1..Len(left)
  <2>1. left[i] = stamps[i + j] /\ i + j \in 1..Len(stamps)
    BY <1>2, <1>6
  <2>2. stamps[i + j] = history[(i + j) + k] /\ (i + j) + k = i + (k + j)
    BY <1>1, <1>2, <1>6, <2>1
  <2> QED BY <2>1, <2>2
<1>9. \A i \in 1..(k + j) : at - history[i] > w
  <2> TAKE i \in 1..(k + j)
  <2>1. CASE i <= k
    BY <1>4, <2>1
  <2>2. CASE i > k
    <3>1. i - k \in 1..j /\ i - k \in 1..Len(stamps) /\ i \in 1..Len(history)
      BY <1>1, <1>2, <1>6, <1>7, <2>2
    <3>2. Expired(at, stamps[i - k], w)
      BY <1>6, <3>1
    <3>3. stamps[i - k] = history[(i - k) + k] /\ (i - k) + k = i
      BY <1>1, <3>1, <2>2
    <3>4. history[i] \in Nat /\ history[i] <= at
      BY <1>2, <1>3, <3>1
    <3> QED BY <3>2, <3>3, <3>4 DEF Expired
  <2> QED BY <2>1, <2>2
<1>10. Remembers(left, history, at, w)
  BY <1>3, <1>7, <1>8, <1>9 DEF Remembers
<1> QED BY <1>5, <1>10 DEF left

\* The check appends its time to the deque and to the history alike.
LEMMA RememberLemma ==
  ASSUME NEW stamps \in Seq(Nat), NEW history \in Seq(Nat), NEW w \in Nat,
         NEW at \in Nat, Remembers(stamps, history, at, w)
  PROVE  /\ Remembers(Append(stamps, at), Append(history, at), at, w)
         /\ Append(history, at)[Len(Append(history, at))] = at
         /\ Cardinality(InWindow(Append(history, at), at, w)) \in Nat
         /\ Cardinality(InWindow(Append(history, at), at, w)) <= Len(stamps) + 1
<1> DEFINE h == Append(history, at)
           s == Append(stamps, at)
<1>1. PICK k \in 0..Len(history) :
        /\ Len(stamps) = Len(history) - k
        /\ \A i \in 1..Len(stamps) : stamps[i] = history[i + k]
        /\ \A i \in 1..k : at - history[i] > w
  BY DEF Remembers
<1>2. /\ Len(history) \in Nat /\ Len(stamps) \in Nat /\ DOMAIN history = 1..Len(history)
      /\ \A i \in 1..Len(history) : history[i] \in Nat
  BY ElementOfSeq
<1>3. /\ h \in Seq(Nat) /\ Len(h) = Len(history) + 1 /\ DOMAIN h = 1..Len(h)
      /\ \A i \in 1..Len(history) : h[i] = history[i]
      /\ h[Len(history) + 1] = at
  BY AppendProperties, LenProperties
<1>4. /\ Len(s) = Len(stamps) + 1
      /\ \A i \in 1..Len(stamps) : s[i] = stamps[i]
      /\ s[Len(stamps) + 1] = at
  BY AppendProperties
<1> HIDE DEF h, s
<1>5. \A i \in DOMAIN h : h[i] <= at
  <2> SUFFICES ASSUME NEW i \in 1..(Len(history) + 1) PROVE h[i] <= at
    BY <1>3
  <2>1. CASE i = Len(history) + 1
    BY <1>3, <2>1
  <2>2. CASE i # Len(history) + 1
    <3>1. i \in DOMAIN history
      BY <1>2, <2>2
    <3> QED BY <1>2, <1>3, <3>1 DEF Remembers
  <2> QED BY <2>1, <2>2
<1>6. \A i \in 1..Len(s) : s[i] = h[i + k]
  <2> SUFFICES ASSUME NEW i \in 1..(Len(stamps) + 1) PROVE s[i] = h[i + k]
    BY <1>4
  <2>1. CASE i = Len(stamps) + 1
    <3>1. i + k = Len(history) + 1
      BY <1>1, <1>2, <2>1
    <3> QED BY <1>3, <1>4, <2>1, <3>1
  <2>2. CASE i # Len(stamps) + 1
    <3>1. i \in 1..Len(stamps) /\ i + k \in 1..Len(history)
      BY <1>1, <1>2, <2>2
    <3> QED BY <1>1, <1>3, <1>4, <3>1
  <2> QED BY <2>1, <2>2
<1>7. \A i \in 1..k : at - h[i] > w
  <2> TAKE i \in 1..k
  <2>1. i \in 1..Len(history)
    BY <1>2
  <2> QED BY <1>1, <1>3, <2>1
<1>8. Remembers(s, h, at, w)
  <2>1. k \in 0..Len(h) /\ Len(s) = Len(h) - k
    BY <1>1, <1>2, <1>3, <1>4
  <2> QED BY <1>5, <1>6, <1>7, <2>1 DEF Remembers
<1> DEFINE counted == InWindow(h, at, w)
<1>9. counted \subseteq (k + 1)..Len(h)
  <2> SUFFICES ASSUME NEW i \in DOMAIN h, at - h[i] <= w PROVE i \in (k + 1)..Len(h)
    BY DEF InWindow
  <2>1. i \in Int /\ 1 <= i /\ i <= Len(h) /\ Len(h) \in Int /\ h[i] \in Nat
    BY <1>2, <1>3, ElementOfSeq
  <2>2. ~(i <= k)
    BY <1>7, <2>1
  <2> QED BY <2>1, <2>2
<1>10. IsFiniteSet((k + 1)..Len(h)) /\ Cardinality((k + 1)..Len(h)) = Len(stamps) + 1
  <2>1. k + 1 \in Int /\ Len(h) \in Int /\ ~(k + 1 > Len(h))
        /\ Len(h) - (k + 1) + 1 = Len(stamps) + 1
    BY <1>1, <1>2, <1>3
  <2> QED BY <2>1, FS_Interval
<1>11. IsFiniteSet(counted) /\ Cardinality(counted) <= Len(stamps) + 1
  BY <1>9, <1>10, FS_Subset
<1>12. Cardinality(counted) \in Nat
  BY <1>11, FS_CardinalityType
<1> QED BY <1>2, <1>3, <1>8, <1>11, <1>12 DEF h, s

\* Deques, histories and times are what the lemmas above take.
LEMMA RateTypes ==
  ASSUME IInv, NEW t \in TraderId
  PROVE  /\ trader_states[t].order_timestamps \in Seq(Nat)
         /\ accepted[t] \in Seq(Nat)
         /\ now \in Nat
         /\ get_limits(t) \in RiskLimits
<1>1. RiskTypeOK /\ now \in 0..MaxTime /\ accepted[t] \in Seq(0..MaxTime)
  BY DEF IInv, TypeOK
<1>2. accepted[t] \in Seq(Nat)
  <2>1. 0..MaxTime \subseteq Nat
    OBVIOUS
  <2> QED BY <1>1, <2>1, SeqMonotonic
<1> QED BY <1>1, <1>2, LimitsLemma DEF RiskTypeOK, RiskState

\* One check: the deque keeps what it must, and an order that passes is within
\* the limit.
LEMMA CheckRate ==
  ASSUME IInv, NEW w \in Nat, RateInv(w),
         NEW order \in Orders, NEW at \in now..MaxTime, Check(order, at), NEW t \in TraderId
  PROVE  /\ Remembers(trader_states'[t].order_timestamps, accepted'[t], at, w)
         /\ accepted'[t] # accepted[t] =>
              /\ accepted'[t][Len(accepted'[t])] = at
              /\ Cardinality(InWindow(accepted'[t], at, w)) <= get_limits(t).max_order_rate
<1> USE SessionAssumption
<1> DEFINE stamps == trader_states[t].order_timestamps
           fresh  == Fresh(stamps, at, w)
<1>1. /\ order \in Order /\ at \in Nat /\ now <= at /\ RiskTypeOK /\ CheckOrder(order, at)
      /\ stamps \in Seq(Nat) /\ accepted[t] \in Seq(Nat) /\ now \in Nat
      /\ get_limits(t).max_order_rate \in Nat
  BY RateTypes DEF IInv, TypeOK, Check, RiskLimits
<1>2. /\ Remembers(stamps, accepted[t], at, w)
      /\ Remembers(fresh, accepted[t], at, w)
  BY <1>1, ForgetLemma DEF RateInv
<1>3. accepted'[t] = IF t = order.trader_id /\ Passes(order, at)
                     THEN Append(accepted[t], at) ELSE accepted[t]
  BY DEF Check
<1>4. t = order.trader_id => FreshStamps(order, at) = fresh
  BY DEF FreshStamps, RateInv, InForce, get_limits
<1>5. fresh \in Seq(Nat) /\ Len(fresh) \in Nat
  <2>1. fresh \in Seq(Nat)
    BY <1>1, FreshLemma
  <2> QED BY <2>1, LenProperties
<1>6. /\ t # order.trader_id => trader_states'[t] = trader_states[t]
      /\ ~Rejects(order) =>
           trader_states'[order.trader_id].order_timestamps =
             IF Passes(order, at) THEN Append(FreshStamps(order, at), at)
                                  ELSE FreshStamps(order, at)
      /\ Rejects(order) => trader_states' = trader_states
  BY <1>1, CheckOrderLemma
<1> HIDE DEF stamps, fresh
<1>7. CASE t = order.trader_id /\ Passes(order, at)
  <2>1. /\ trader_states'[t].order_timestamps = Append(fresh, at)
        /\ accepted'[t] = Append(accepted[t], at)
    BY <1>3, <1>4, <1>6, <1>7 DEF Passes
  <2>2. Len(fresh) + 1 <= get_limits(t).max_order_rate
    BY <1>1, <1>4, <1>5, <1>7 DEF Passes
  <2>3. /\ Remembers(Append(fresh, at), Append(accepted[t], at), at, w)
        /\ Append(accepted[t], at)[Len(Append(accepted[t], at))] = at
        /\ Cardinality(InWindow(Append(accepted[t], at), at, w)) \in Nat
        /\ Cardinality(InWindow(Append(accepted[t], at), at, w)) <= Len(fresh) + 1
    BY <1>1, <1>2, <1>5, RememberLemma
  <2>4. Cardinality(InWindow(Append(accepted[t], at), at, w)) <= get_limits(t).max_order_rate
    BY <1>1, <1>5, <2>2, <2>3
  <2> QED BY <2>1, <2>3, <2>4
<1>8. CASE ~(t = order.trader_id /\ Passes(order, at))
  <2>1. accepted'[t] = accepted[t]
    BY <1>3, <1>8
  <2>2. \/ trader_states'[t].order_timestamps = stamps
        \/ trader_states'[t].order_timestamps = fresh
    BY <1>4, <1>6, <1>8 DEF stamps
  <2> QED BY <1>2, <2>1, <2>2
<1> QED BY <1>7, <1>8

\* A limit that is set has the window of all limits.
LEMMA InForceStep ==
  ASSUME IInv, Next, NEW w \in Nat, WindowIs(w), InForce(w)
  PROVE  InForce(w)'
<1>1. ASSUME NEW t \in TraderId, NEW limits \in LimitChoices, SetTraderLimits(t, limits)
      PROVE  InForce(w)'
  BY <1>1 DEF SetTraderLimits, InForce, WindowIs
<1>2. ASSUME NEW limits \in LimitChoices, SetDefaultLimits(limits)
      PROVE  InForce(w)'
  BY <1>2 DEF SetDefaultLimits, InForce, WindowIs
<1>3. CASE UNCHANGED limit_vars
  BY <1>3 DEF limit_vars, InForce
<1>4. CASE Configure
  <2>1. ASSUME NEW t \in TraderId, KillTrader(t) \/ UnkillTrader(t) PROVE UNCHANGED limit_vars
    BY <2>1 DEF KillTrader, UnkillTrader
  <2>2. UnkillAll => UNCHANGED limit_vars
    BY DEF UnkillAll
  <2> QED BY <1>1, <1>2, <1>3, <1>4, <2>1, <2>2 DEF Configure
<1>5. CASE Fill
  <2>1. PICK o \in passed : \E qty \in 0..o.quantity :
          IF qty > 0 THEN OnFill(o.trader_id, o.symbol, o.side, qty) ELSE UNCHANGED risk_vars
    BY <1>5 DEF Fill
  <2>2. UNCHANGED limit_vars
    BY <2>1 DEF OnFill, risk_vars, limit_vars
  <2> QED BY <1>3, <2>2
<1>6. CASE \E order \in Orders, at \in now..MaxTime : Check(order, at)
  BY <1>3, <1>6 DEF Check, CheckOrder
<1>7. CASE Kill
  BY <1>3, <1>7 DEF Kill, KillAll
<1> QED BY <1>4, <1>5, <1>6, <1>7 DEF Next

\* Only a check touches a deque, a history or the time.
LEMMA OthersKeepRate ==
  ASSUME IInv, Fill \/ Configure \/ Kill
  PROVE  /\ UNCHANGED <<accepted, now>>
         /\ \A t \in TraderId :
              trader_states'[t].order_timestamps = trader_states[t].order_timestamps
<1> USE SessionAssumption
<1>0. RiskTypeOK
  BY DEF IInv, TypeOK
<1>1. CASE Fill
  <2>1. PICK o \in passed : \E qty \in 0..o.quantity :
          /\ IF qty > 0 THEN OnFill(o.trader_id, o.symbol, o.side, qty) ELSE UNCHANGED risk_vars
          /\ UNCHANGED <<now, accepted>>
    BY <1>1 DEF Fill
  <2>2. PICK qty \in 0..o.quantity :
          IF qty > 0 THEN OnFill(o.trader_id, o.symbol, o.side, qty) ELSE UNCHANGED risk_vars
    BY <2>1
  <2>3. /\ o.trader_id \in TraderId /\ o.symbol \in Symbol /\ o.side \in {"Buy", "Sell"}
        /\ qty \in Int
    BY DEF IInv, TypeOK, Order
  <2>4. qty > 0 => \A t \in TraderId :
          trader_states'[t].order_timestamps = trader_states[t].order_timestamps
    BY <1>0, <2>2, <2>3, OnFillLemma
  <2> QED BY <2>1, <2>2, <2>4 DEF risk_vars
<1>2. CASE Configure
  BY <1>0, <1>2, ConfigureLemma DEF Configure
<1>3. CASE Kill
  BY <1>3 DEF Kill, KillAll
<1> QED BY <1>1, <1>2, <1>3

\* Every step keeps the deques, and lets no order pass above the rate.
LEMMA StepWithinRate ==
  ASSUME IInv, Next, NEW w \in Nat, WindowIs(w), RateInv(w)
  PROVE  /\ RateInv(w)'
         /\ \A t \in TraderId : accepted'[t] # accepted[t] =>
              LET last == accepted'[t][Len(accepted'[t])]
              IN  Cardinality({i \in DOMAIN accepted'[t] :
                                 last - accepted'[t][i] <= get_limits(t).rate_window})
                    <= get_limits(t).max_order_rate
<1>1. InForce(w)'
  BY InForceStep DEF RateInv
<1>2. \A t \in TraderId : get_limits(t).rate_window = w
  BY DEF RateInv, InForce, get_limits
<1>3. CASE \E order \in Orders, at \in now..MaxTime : Check(order, at)
  <2>1. PICK order \in Orders, at \in now..MaxTime : Check(order, at)
    BY <1>3
  <2>2. now' = at
    BY <2>1 DEF Check
  <2> QED BY <1>1, <1>2, <2>1, <2>2, CheckRate DEF RateInv, InWindow
<1>4. CASE Fill \/ Configure \/ Kill
  <2>1. /\ UNCHANGED <<accepted, now>>
        /\ \A t \in TraderId :
             trader_states'[t].order_timestamps = trader_states[t].order_timestamps
    BY <1>4, OthersKeepRate
  <2> QED BY <1>1, <2>1 DEF RateInv
<1> QED BY <1>3, <1>4 DEF Next

\* When an order passes, no more orders of its trader have passed within the
\* window than its limit allows: the deque of times that check_rate_limit pops
\* has lost none that the window still covers, if all limits have one window.
THEOREM RateLimitKept ==
  ASSUME NEW w \in Nat, WindowIs(w)
  PROVE  Spec => RateLimited
<1>1. Init => RateInv(w)
  <2> SUFFICES ASSUME Init PROVE RateInv(w)
    OBVIOUS
  <2>1. InForce(w)
    <3>1. DOMAIN trader_limits = {}
      BY DEF Init, RiskInit
    <3> QED BY <3>1 DEF Init, RiskInit, InForce, WindowIs
  <2>2. ASSUME NEW t \in TraderId
        PROVE  Remembers(trader_states[t].order_timestamps, accepted[t], now, w)
    <3>1. trader_states[t].order_timestamps = <<>> /\ accepted[t] = <<>>
      BY DEF Init, RiskInit, NewTrader
    <3>2. Len(<<>>) = 0 /\ DOMAIN <<>> = {} /\ 1..0 = {}
      OBVIOUS
    <3> QED BY <3>1, <3>2 DEF Remembers
  <2> QED BY <2>1, <2>2 DEF RateInv
<1>2. IInv /\ RateInv(w) /\ [Next]_vars => RateInv(w)'
  <2>1. CASE UNCHANGED vars
    BY <2>1 DEF vars, risk_vars, RateInv, InForce
  <2> QED BY <2>1, StepWithinRate
<1>3. IInv /\ RateInv(w) /\ [Next]_vars =>
        [\A t \in TraderId : accepted'[t] # accepted[t] =>
           LET last == accepted'[t][Len(accepted'[t])]
           IN  Cardinality({i \in DOMAIN accepted'[t] :
                              last - accepted'[t][i] <= get_limits(t).rate_window})
                 <= get_limits(t).max_order_rate]_vars
  BY StepWithinRate
<1> QED BY <1>1, <1>2, <1>3, Invariance, PTL DEF Spec, RateLimited
=============================================================================
