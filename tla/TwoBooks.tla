------------------------------ MODULE TwoBooks ------------------------------
(***************************************************************************)
(* The repository has two order books.  The simple one is "a lightweight   *)
(* alternative to L3OrderBook" (src/src/market/order_book.h), with the     *)
(* matching written again.  Here every step of the detailed book is        *)
(* matched by one of the simple book, or by none: a fill-or-kill order     *)
(* that the pre-check stops, an id that is refused, which the simple       *)
(* book's client does not submit.                                          *)
(*                                                                         *)
(* The two match alike, but they do not answer alike.  The trades of the   *)
(* simple book have no id and no traders, which those of the other have,   *)
(* and its levels do not count their orders.  The mapping gives its trades *)
(* these defaults and says nothing of what the other book has there.       *)
(***************************************************************************)
EXTENDS L3OrderBook

SimpleLevels ==
  [s \in Side |-> [p \in DOMAIN book.levels[s] |->
     [i \in DOMAIN book.levels[s][p] |->
        [id |-> book.levels[s][p][i].id, qty |-> OpenQty(book.levels[s][p][i])]]]]

SimpleIncoming ==
  {[order     |-> c.order,
    remaining |-> c.remaining,
    trades    |-> [i \in DOMAIN c.trades |-> [trade_id        |-> 0,
                                              resting_id      |-> c.trades[i].resting_id,
                                              resting_trader  |-> 0,
                                              incoming_trader |-> 0,
                                              price           |-> c.trades[i].price,
                                              qty             |-> c.trades[i].qty]]] :
     c \in {d \in call : d.fillable}}

Replacing ==
  {[id |-> r.order_id, trader_id |-> r.trader_id, side |-> s, type |-> "Limit",
    tif |-> "Day", price |-> r.new_price, quantity |-> r.new_qty] :
      r \in Replacements, s \in Side}

Simple == INSTANCE OrderBook
            WITH levels <- SimpleLevels, order_index <- book.order_index,
                 incoming <- SimpleIncoming, Replacements <- Replacing

\* The depths of both books, to any number of levels, have the same prices with
\* the same quantities, and never the same number of orders: the simple book
\* says 0 of each level, the other what is there, which is never 0.
SamePricesAndQuantities ==
  \A side \in Side : \A n \in 0..(Cardinality(DOMAIN book.order_index) + 1) :
    LET l3 == depth(book, side, n)
    IN  /\ Simple!Levels(side, n) =
             [i \in DOMAIN l3 |-> [price |-> l3[i].price, qty |-> l3[i].qty, order_count |-> 0]]
        /\ \A i \in DOMAIN l3 : l3[i].order_count > 0

\* The two books match alike: trades with the same resting orders at the same
\* prices for the same quantities, in the same order, the same remainder, the
\* same ids and open quantities in the same queues, the same index, and depths
\* of the same prices and quantities, after any orders, cancels and replaces,
\* although their loops, their tests and the places where they remove orders
\* and levels were written twice.  What a trade says beyond that (its id, its
\* traders) and the order counts of the levels are not alike.
BooksMatchAlike == Simple!Spec /\ []SamePricesAndQuantities
=============================================================================
