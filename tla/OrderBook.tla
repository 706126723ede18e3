----------------------------- MODULE OrderBook -----------------------------
(***************************************************************************)
(* OrderBook (src/src/market/order_book.h and .cpp), the simple book, and  *)
(* the client that makes an order book of it: matchIncoming only matches,  *)
(* addOrder only rests, and neither asks for the other, for a time in      *)
(* force or whether an id rests already.  The client here matches an order *)
(* first and rests what a Day or GTC limit order has left, submits a       *)
(* fill-or-kill order only if the depth suffices, replaces by cancelOrder  *)
(* and matchIncoming, and never submits an id that rests.                  *)
(*                                                                         *)
(* matchIncoming runs one iteration of its inner loop a step, with the     *)
(* removal of a level it empties.                                          *)
(***************************************************************************)
EXTENDS BookOps

CONSTANTS
  Submissions,    \* the client's orders
  Replacements    \* the client's orders that replace one that rests

VARIABLES
  levels,         \* bids_ and asks_: a queue of BookOrder for each price
  order_index,    \* order_index_: the side and price of each id
  incoming        \* {} or the matchIncoming that is running

vars == <<levels, order_index, incoming>>

Init ==
  /\ levels = [s \in Side |-> <<>>]
  /\ order_index = <<>>
  /\ incoming = {}

----------------------------------------------------------------------------
\* Mutant: the price of the order itself does not match.
MatchesStrictly(order, price) ==
  order.type # "Limit" \/ Better(order.side, order.price, price)

\* The break of the outer loop: a limit order matches up to its price.
Matches(order, price) == ~(order.type = "Limit" /\ Better(order.side, price, order.price))

\* Mutant: the level is counted by its first order.
LevelQtyOfFront(queue) == Head(queue).qty

\* The sum of a BookLevel.
LevelQty(queue) == FoldLeft(LAMBDA sum, ord : sum + ord.qty, 0, queue)

\* bids and asks; bestBid and bestAsk are the first level, if there is one.
\* A BookLevel{price, qty} leaves order_count at its default.
Levels(side, n) ==
  LET prices == InOrder(levels, side)
  IN  [i \in 1..LesserOf(n, Len(prices)) |->
         [price |-> prices[i], qty |-> LevelQty(levels[side][prices[i]]), order_count |-> 0]]

\* Does the depth suffice for a fill-or-kill order?
Suffices(order) ==
  LET side == Opposite(order.side)
      all  == Levels(side, Cardinality(DOMAIN levels[side]))
  IN  FoldLeft(LAMBDA sum, level : sum + (IF Matches(order, level.price) THEN level.qty ELSE 0),
               0, all) >= order.quantity

----------------------------------------------------------------------------
\* The call of matchIncoming.
Submit(order) ==
  /\ incoming = {}
  /\ order.id \notin DOMAIN order_index
  /\ order.tif = "FOK" => Suffices(order)
  /\ incoming' = {[order |-> order, remaining |-> order.quantity, trades |-> <<>>]}
  /\ UNCHANGED <<levels, order_index>>

\* A Trade of matchIncoming.  It leaves trade_id and the two traders at their
\* defaults, although the orders have traders; incoming_id and aggressor_side
\* are those of the order that runs.
Printed(resting_id, price, qty) ==
  [trade_id |-> 0, resting_id |-> resting_id, resting_trader |-> 0, incoming_trader |-> 0,
   price |-> price, qty |-> qty]

MatchFront ==
  \E m \in incoming :
    LET side == Opposite(m.order.side)
    IN  /\ m.remaining > 0
        /\ \E p \in DOMAIN levels[side] :
             LET queue       == levels[side][p]
                 resting     == Head(queue)
                 matched_qty == LesserOf(m.remaining, resting.qty)
                 gone        == resting.qty = matched_qty
             IN  /\ IsBest(levels, side, p)
                 /\ Matches(m.order, p)
                 /\ incoming' =
                      {[m EXCEPT !.remaining = @ - matched_qty,
                                 !.trades = Append(@, Printed(resting.id, p, matched_qty))]}
                 /\ levels' = [levels EXCEPT ![side] =
                      SetLevel(@, p, IF gone THEN Tail(queue)
                                     ELSE <<[resting EXCEPT !.qty = @ - matched_qty]>>
                                            \o Tail(queue))]
                 /\ order_index' = [id \in DOMAIN order_index \ {x \in {resting.id} : gone} |->
                                      order_index[id]]

\* Mutant: the order is not indexed.
addOrderUnindexed(order, qty) ==
  /\ levels' = [levels EXCEPT ![order.side] =
       SetLevel(@, order.price, Append(IF order.price \in DOMAIN @ THEN @[order.price] ELSE <<>>,
                                       [id |-> order.id, qty |-> qty]))]
  /\ UNCHANGED order_index

addOrder(order, qty) ==
  /\ levels' = [levels EXCEPT ![order.side] =
       SetLevel(@, order.price, Append(IF order.price \in DOMAIN @ THEN @[order.price] ELSE <<>>,
                                       [id |-> order.id, qty |-> qty]))]
  /\ order_index' = [id \in DOMAIN order_index \cup {order.id} |->
       IF id = order.id THEN [side |-> order.side, price |-> order.price] ELSE order_index[id]]

\* matchIncoming returns, and the client rests the remainder or drops it.
Return ==
  \E m \in incoming :
    /\ \/ m.remaining <= 0
       \/ \A p \in DOMAIN levels[Opposite(m.order.side)] : ~Matches(m.order, p)
    /\ IF m.remaining > 0 /\ m.order.type = "Limit" /\ m.order.tif \in {"Day", "GTC"}
       THEN addOrder(m.order, m.remaining)
       ELSE UNCHANGED <<levels, order_index>>
    /\ incoming' = {}

cancelOrder(id) ==
  /\ id \in DOMAIN order_index
  /\ LET loc   == order_index[id]
         queue == levels[loc.side][loc.price]
         it    == CHOOSE i \in DOMAIN queue : queue[i].id = id
     IN  levels' = [levels EXCEPT ![loc.side] = SetLevel(@, loc.price, RemoveAt(queue, it))]
  /\ order_index' = [x \in DOMAIN order_index \ {id} |-> order_index[x]]

Cancel(id) == incoming = {} /\ cancelOrder(id) /\ UNCHANGED incoming

\* The client replaces an order by another with its id, on the same side.
Replace(order) ==
  /\ incoming = {}
  /\ cancelOrder(order.id)
  /\ order_index[order.id].side = order.side
  /\ incoming' = {[order |-> order, remaining |-> order.quantity, trades |-> <<>>]}

Next ==
  \/ \E order \in Submissions : Submit(order)
  \/ MatchFront
  \/ Return
  \/ \E id \in DOMAIN order_index : Cancel(id)
  \/ \E order \in Replacements : Replace(order)

Spec == Init /\ [][Next]_vars
=============================================================================
