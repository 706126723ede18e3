--------------------------- MODULE PriceTimeBook ---------------------------
(***************************************************************************)
(* What an order book with price-time priority promises, with no queue, no *)
(* index and no loop: a set of resting orders, each knowing which orders   *)
(* of its price came before it, and at most one order being executed.  An  *)
(* execution takes the best price on the other side and, there, the order  *)
(* that nobody is ahead of, at the resting order's price.                  *)
(***************************************************************************)
EXTENDS Integers, Sequences, FiniteSetsExt

CONSTANT
  Orders          \* the orders that may be submitted

VARIABLES
  resting,        \* records [id, side, price, qty, ahead]
  active          \* {} or the order being executed: {[order, left, fills]}

vars == <<resting, active>>

Acceptable(order, price) ==
  \/ order.type = "Market"
  \/ order.side = "Buy"  /\ price <= order.price
  \/ order.side = "Sell" /\ price >= order.price

Counterparties(order) ==
  {r \in resting : r.side # order.side /\ Acceptable(order, r.price)}

\* Nobody on r's side has a better price, or the same price and came earlier.
First(r) ==
  /\ r.ahead = {}
  /\ \A s \in resting : s.side = r.side =>
       IF r.side = "Buy" THEN s.price <= r.price ELSE s.price >= r.price

\* The orders left when r goes: nobody waits behind it any more.
LeftWithout(r) == {[s EXCEPT !.ahead = @ \ {r.id}] : s \in resting \ {r}}

Begin(order, others) ==
  /\ active' = {[order |-> order, left |-> order.quantity, fills |-> <<>>]}
  /\ \A r \in others : r.id # order.id
  /\ resting' = others

Init == resting = {} /\ active = {}

Submit == active = {} /\ \E order \in Orders : Begin(order, resting)

Execute ==
  \E a \in active : \E r \in Counterparties(a.order) :
    LET qty == Min({a.left, r.qty})
    IN  /\ a.left > 0
        /\ First(r)
        /\ active' = {[a EXCEPT !.left  = @ - qty,
                                !.fills = Append(@, [resting_id |-> r.id,
                                                     price      |-> r.price,
                                                     qty        |-> qty])]}
        /\ resting' = IF qty = r.qty THEN LeftWithout(r)
                      ELSE (resting \ {r}) \cup {[r EXCEPT !.qty = @ - qty]}

\* A fill-or-kill order that has not executed goes, when there is too little.
Kill ==
  \E a \in active :
    /\ a.order.tif = "FOK" /\ a.fills = <<>>
    /\ MapThenSumSet(LAMBDA r : r.qty, Counterparties(a.order)) < a.order.quantity
    /\ active' = {}
    /\ UNCHANGED resting

\* Nothing is left to execute, or nobody to execute with: a Day or GTC limit
\* order rests behind those of its price, any other remainder is dropped.  A
\* fill-or-kill order has no remainder.
Settle ==
  \E a \in active :
    /\ a.left <= 0 \/ Counterparties(a.order) = {}
    /\ a.order.tif = "FOK" => a.left <= 0
    /\ active' = {}
    /\ resting' = IF a.left > 0 /\ a.order.type = "Limit" /\ a.order.tif \in {"Day", "GTC"}
                  THEN resting \cup
                         {[id    |-> a.order.id,
                           side  |-> a.order.side,
                           price |-> a.order.price,
                           qty   |-> a.left,
                           ahead |-> {r.id : r \in {s \in resting :
                                         s.side = a.order.side /\ s.price = a.order.price}}]}
                  ELSE resting

Cancel ==
  /\ active = {} /\ UNCHANGED active
  /\ \E r \in resting : resting' = LeftWithout(r)

\* A replaced order gives its place up before its new version is executed.
Replace ==
  /\ active = {}
  /\ \E r \in resting : \E order \in Orders :
       /\ order.id = r.id /\ order.side = r.side
       /\ order.type = "Limit" /\ order.tif = "Day"
       /\ Begin(order, LeftWithout(r))

Next == Submit \/ Execute \/ Kill \/ Settle \/ Cancel \/ Replace

Spec == Init /\ [][Next]_vars
=============================================================================
