--------------------------- MODULE MCL3OrderBook ---------------------------
(***************************************************************************)
(* A small instance of L3OrderBook: three orders and three prices, so that *)
(* a sweep can empty one level and stop in the next while the other side   *)
(* of the book is occupied.  Quantities 1 and 2 make every fill partial or *)
(* exact, 3 is more than one order holds, 0 and -1 are what nothing in the *)
(* book itself refuses.  The ids play the same part, so one of them is     *)
(* enough for the orders that never rest, and one for those replaced.  The *)
(* third order rests in the middle: when three rest, the outer two make    *)
(* one level, two or three, on either side of it.                          *)
(***************************************************************************)
EXTENDS TwoBooks

CONSTANTS o1, o2, o3, t1, t2

MCOrders(ids, traders, kinds, prices, qtys) ==
  {o \in [id : ids, trader_id : traders, side : Side, type : {k[1] : k \in kinds},
          tif : {k[2] : k \in kinds}, price : prices, quantity : qtys] :
     <<o.type, o.tif>> \in kinds}

MCOrderId == {o1, o2, o3}
MCTraderId == {t1}
MCPrice == {1, 2, 3}
MCSubmissions ==
  MCOrders({o1, o2}, MCTraderId, {<<"Limit", "GTC">>}, MCPrice, {1, 2})
    \cup MCOrders({o3}, MCTraderId, {<<"Limit", "GTC">>}, {2}, {1, 2})
    \cup MCOrders({o3}, MCTraderId, {<<"Limit", "IOC">>, <<"Limit", "FOK">>}, {2}, {2})
    \cup MCOrders({o3}, MCTraderId, {<<"Market", "Day">>}, {2}, {0, 3})
    \cup MCOrders({o3}, MCTraderId, {<<"Market", "FOK">>}, {2}, {3})
MCReplacements ==
  [order_id : {o1}, trader_id : MCTraderId, new_price : {2}, new_qty : {-1, 2}]

\* Two orders of one trader and one of another, one price: what the documented
\* queue positions need.
MCTwoTraders == {t1, t2}
MCOnePrice == {1}
MCGtcOnly == MCOrders(MCOrderId, MCTwoTraders, {<<"Limit", "GTC">>}, MCOnePrice, {1, 2})
MCNoReplacements == {}
=============================================================================
