------------------------ MODULE MatchingEngineProofs ------------------------
(***************************************************************************)
(* The matching engine with its trade engine, for all sets of symbols,     *)
(* traders, orders and requests: how cancels find their orders, what the   *)
(* kill switch lets through, and what risk, positions and feeds hear of    *)
(* trades and books.                                                       *)
(***************************************************************************)
EXTENDS TradingSession, SumProofs

\* Every step of a session is a step of its engine, or leaves the engine alone.
LEMMA SessionStep == [SessionNext]_session_vars => [Next]_vars
BY DEF SessionNext, session_vars, WithoutTrade, TradeNewOrder, TradeReplace, MarkToMarket, Next

----------------------------------------------------------------------------
(* The kill switch. *)

\* While the switch for all is on, Passes is false of every order.
LEMMA KillStep == Next => (global_kill => checked' \subseteq checked)
<1> SUFFICES ASSUME Next, global_kill PROVE checked' \subseteq checked
  OBVIOUS
<1>1. CASE \E order \in NewOrders : CheckNewOrder(order)
  <2>1. PICK order \in NewOrders : CheckNewOrder(order)
    BY <1>1
  <2>2. ~Passes(order, 0)
    BY DEF Passes, Rejects, is_killed
  <2>3. checked' = {o \in {order} : Passes(o, 0)}
    BY <2>1 DEF CheckNewOrder
  <2> QED BY <2>2, <2>3
<1>2. CASE MatchNewOrder
  BY <1>2 DEF MatchNewOrder
<1>3. CASE \E symbol \in Symbol : AddSymbol(symbol)
  BY <1>3 DEF AddSymbol
<1>4. CASE \E cancel \in Cancels : ProcessCancel(cancel)
  BY <1>4 DEF ProcessCancel
<1>5. CASE \E replace \in Replaces : ProcessReplace(replace) \/ ReplaceUnknown(replace)
  BY <1>5 DEF ProcessReplace, ReplaceUnknown
<1>6. CASE (\E t \in TraderId : SwitchTrader(t)) \/ SwitchAll
  BY <1>6 DEF SwitchTrader, SwitchAll
<1> QED BY <1>1, <1>2, <1>3, <1>4, <1>5, <1>6 DEF Next

\* However orders, requests and switches follow each other, no new order passes
\* the risk check while the switch for all is on.
THEOREM KillStopsNewOrders == SessionSpec => KillLetsOneThrough
<1>1. [SessionNext]_session_vars => [global_kill => checked' \subseteq checked]_vars
  BY SessionStep, KillStep
<1> QED BY <1>1, PTL DEF SessionSpec, KillLetsOneThrough
----------------------------------------------------------------------------
(* The matching loop of a whole add_order. *)

\* One iteration, if there is one.
Iterate(m) == IF MatchingDone(m.book, m.c) THEN m ELSE MatchFront(m)

\* The states of the first n iterations.
Iterations(it, m, n) ==
  it = [k \in 0..n |-> IF k = 0 THEN m ELSE Iterate(it[k - 1])]

\* Two runs of the loop agree as far as the shorter one goes.
LEMMA IterationsUnique ==
  ASSUME NEW m, NEW n \in Nat, NEW l \in 0..n,
         NEW f, Iterations(f, m, n), NEW g, Iterations(g, m, l)
  PROVE  \A k \in 0..l : f[k] = g[k]
<1> DEFINE T == {k \in Nat : k <= l => f[k] = g[k]}
<1>1. 0 \in T
  BY DEF Iterations
<1>2. ASSUME NEW k \in Nat, k \in T PROVE k + 1 \in T
  <2> SUFFICES ASSUME k + 1 <= l PROVE f[k + 1] = g[k + 1]
    BY <1>2
  <2>1. k + 1 \in 0..l /\ k + 1 \in 0..n /\ k + 1 # 0 /\ (k + 1) - 1 = k /\ k <= l
    OBVIOUS
  <2>2. f[k + 1] = Iterate(f[k])
    BY <2>1 DEF Iterations
  <2>3. g[k + 1] = Iterate(g[k])
    BY <2>1 DEF Iterations
  <2> QED BY <1>2, <2>1, <2>2, <2>3
<1>3. Nat \subseteq T
  <2> HIDE DEF T
  <2> QED BY <1>1, <1>2, NatLemma
<1> QED BY <1>3

\* The loop can be run for any number of iterations.
LEMMA IterationsExist ==
  ASSUME NEW m
  PROVE  \A n \in Nat : \E it : Iterations(it, m, n)
<1> DEFINE T == {n \in Nat : \E it : Iterations(it, m, n)}
<1>1. 0 \in T
  <2>1. Iterations([k \in 0..0 |-> m], m, 0)
    BY DEF Iterations
  <2> QED BY <2>1
<1>2. ASSUME NEW n \in Nat, n \in T PROVE n + 1 \in T
  <2>1. PICK f : Iterations(f, m, n)
    BY <1>2
  <2> DEFINE g == [k \in 0..(n + 1) |-> IF k = n + 1 THEN Iterate(f[n]) ELSE f[k]]
  <2>2. ASSUME NEW k \in 0..(n + 1)
        PROVE  g[k] = IF k = 0 THEN m ELSE Iterate(g[k - 1])
    <3>1. CASE k = n + 1
      BY <3>1
    <3>2. CASE k # n + 1
      <4>1. k \in 0..n /\ (k # 0 => k - 1 \in 0..n)
        BY <3>2
      <4>2. f[k] = IF k = 0 THEN m ELSE Iterate(f[k - 1])
        BY <2>1, <4>1 DEF Iterations
      <4> QED BY <4>1, <4>2
    <3> QED BY <3>1, <3>2
  <2>3. g = [k \in 0..(n + 1) |-> g[k]]
    OBVIOUS
  <2> HIDE DEF g
  <2>4. Iterations(g, m, n + 1)
    BY <2>2, <2>3 DEF Iterations
  <2> QED BY <2>4
<1>3. Nat \subseteq T
  <2> HIDE DEF T
  <2> QED BY <1>1, <1>2, NatLemma
<1> QED BY <1>3

\* What add_order's loop leaves is what some number of iterations leave.
LEMMA MatchedLemma ==
  ASSUME NEW book, NEW order, Cardinality(DOMAIN book.order_index) \in Nat
  PROVE  \E it : /\ it[0] = [book |-> book, c |-> Activation(book, order)]
                 /\ \A n \in Nat : it[n + 1] = Iterate(it[n])
                 /\ Matched(book, order) = it[Cardinality(DOMAIN book.order_index)]
<1> DEFINE m    == [book |-> book, c |-> Activation(book, order)]
           upto(n) == CHOOSE it : Iterations(it, m, n)
           all  == [n \in Nat |-> upto(n)[n]]
           After(it) == it = [n \in Nat |-> IF n = 0 THEN m
                                ELSE LET u == it[n - 1]
                                     IN  IF MatchingDone(u.book, u.c) THEN u ELSE MatchFront(u)]
<1> HIDE DEF m
<1>1. \A n \in Nat : Iterations(upto(n), m, n)
  BY IterationsExist
<1> HIDE DEF upto
<1>2. After(all)
  <2>1. ASSUME NEW n \in Nat
        PROVE  all[n] = IF n = 0 THEN m ELSE Iterate(all[n - 1])
    <3>1. Iterations(upto(n), m, n)
      BY <1>1
    <3>2. CASE n = 0
      BY <3>1, <3>2 DEF Iterations
    <3>3. CASE n # 0
      <4>1. n - 1 \in Nat /\ n - 1 \in 0..n /\ n \in 0..n /\ n - 1 \in 0..(n - 1)
        BY <3>3
      <4>2. Iterations(upto(n - 1), m, n - 1)
        BY <1>1, <4>1
      <4>3. upto(n)[n - 1] = upto(n - 1)[n - 1]
        BY <3>1, <4>1, <4>2, IterationsUnique
      <4>4. upto(n)[n] = Iterate(upto(n)[n - 1])
        BY <3>1, <3>3, <4>1 DEF Iterations
      <4> QED BY <3>3, <4>1, <4>3, <4>4
    <3> QED BY <3>2, <3>3
  <2>2. all = [n \in Nat |-> all[n]]
    OBVIOUS
  <2> HIDE DEF all
  <2> QED BY <2>1, <2>2 DEF Iterate
<1> HIDE DEF all
<1> DEFINE it == CHOOSE f : After(f)
<1>3. After(it)
  BY <1>2
<1>4. Matched(book, order) = it[Cardinality(DOMAIN book.order_index)]
  BY DEF Matched, m
<1> HIDE DEF it
<1>5. it[0] = m
  BY <1>3
<1>6. ASSUME NEW n \in Nat PROVE it[n + 1] = Iterate(it[n])
  <2>1. n + 1 \in Nat /\ n + 1 # 0 /\ (n + 1) - 1 = n
    OBVIOUS
  <2> QED BY <1>3, <2>1 DEF Iterate
<1> QED BY <1>4, <1>5, <1>6 DEF m
----------------------------------------------------------------------------
(* Routing. *)

\* A client uses an id for one symbol only.
OneSymbolPerId == \A o, p \in NewOrders : o.id = p.id => o.symbol = p.symbol

HasIndex(b) == "order_index" \in DOMAIN b /\ IsFiniteSet(DOMAIN b.order_index)

\* The id of each order that rests was submitted for the symbol of its book.
Submitted ==
  \A symbol \in DOMAIN books : \A id \in DOMAIN books[symbol].order_index :
    \E o \in NewOrders : o.id = id /\ o.symbol = symbol

RoutingInv ==
  /\ \A o \in checked : o \in NewOrders /\ o.symbol \in DOMAIN books
  /\ \A symbol \in DOMAIN books : HasIndex(books[symbol])
  /\ Submitted
  /\ RestingIsRouted

\* No iteration adds an order to the index.
LEMMA IterateIndex ==
  ASSUME NEW m, HasIndex(m.book)
  PROVE  /\ HasIndex(Iterate(m).book)
         /\ DOMAIN Iterate(m).book.order_index \subseteq DOMAIN m.book.order_index
<1> DEFINE side == Opposite(m.c.order.side)
           p    == Best(m.book.levels, side)
           front == Head(m.book.levels[side][p])
           qty   == LesserOf(m.c.remaining, OpenQty(front))
           b     == FillFront(m.book, side, p, qty)
<1>1. Iterate(m).book = m.book \/ Iterate(m).book = b
  BY DEF Iterate, MatchFront
<1> HIDE DEF side, p, qty
<1>2. HasIndex(b) /\ DOMAIN b.order_index \subseteq DOMAIN m.book.order_index
  <2> DEFINE queue == m.book.levels[side][p]
             rest  == FillResting(Head(queue), qty)
             gone  == Unlink(m.book, side, p, rest.id, Tail(queue))
             kept  == [m.book EXCEPT !.levels[side][p] = <<rest>> \o Tail(queue)]
  <2>1. b = gone \/ b = kept
    BY DEF FillFront
  <2> HIDE DEF rest, queue
  <2>2. HasIndex(gone) /\ DOMAIN gone.order_index \subseteq DOMAIN m.book.order_index
    <3>1. /\ "order_index" \in DOMAIN gone
          /\ DOMAIN gone.order_index = DOMAIN m.book.order_index \ {rest.id}
      BY DEF Unlink
    <3> QED BY <3>1, FS_Subset DEF HasIndex
  <2>3. HasIndex(kept) /\ DOMAIN kept.order_index \subseteq DOMAIN m.book.order_index
    <3>1. DOMAIN kept = DOMAIN m.book /\ kept.order_index = m.book.order_index
      BY DEF HasIndex
    <3> QED BY <3>1 DEF HasIndex
  <2> HIDE DEF gone, kept
  <2> QED BY <2>1, <2>2, <2>3
<1> HIDE DEF b
<1> QED BY <1>1, <1>2

\* Nor does matching.
LEMMA MatchedIndex ==
  ASSUME NEW book, HasIndex(book), NEW order
  PROVE  /\ HasIndex(Matched(book, order).book)
         /\ DOMAIN Matched(book, order).book.order_index \subseteq DOMAIN book.order_index
<1> DEFINE n == Cardinality(DOMAIN book.order_index)
<1>1. n \in Nat
  BY FS_CardinalityType DEF HasIndex
<1>2. PICK it : /\ it[0] = [book |-> book, c |-> Activation(book, order)]
                /\ \A k \in Nat : it[k + 1] = Iterate(it[k])
                /\ Matched(book, order) = it[n]
  BY <1>1, MatchedLemma
<1> DEFINE T == {k \in Nat : /\ HasIndex(it[k].book)
                            /\ DOMAIN it[k].book.order_index \subseteq DOMAIN book.order_index}
<1>3. 0 \in T
  BY <1>2
<1>4. ASSUME NEW k \in Nat, k \in T PROVE k + 1 \in T
  <2>1. it[k + 1] = Iterate(it[k])
    BY <1>2
  <2> QED BY <1>4, <2>1, IterateIndex
<1>5. Nat \subseteq T
  <2> HIDE DEF T
  <2> QED BY <1>3, <1>4, NatLemma
<1> QED BY <1>1, <1>2, <1>5

\* add_order adds at most the order, and then reports a status for which the
\* order is routed.
LEMMA AddOrderIndex ==
  ASSUME NEW book, HasIndex(book), NEW order
  PROVE  LET r == AddOrder(book, order)
         IN  /\ HasIndex(r.book)
             /\ DOMAIN r.book.order_index \subseteq DOMAIN book.order_index \cup {order.id}
             /\ \/ order.id \notin DOMAIN r.book.order_index
                \/ order.id \in DOMAIN book.order_index
                \/ Indexes(r.report.status)
             /\ order.id \in DOMAIN book.order_index => ~Indexes(r.report.status)
<1> DEFINE m == Matched(book, order)
           r == AddOrder(book, order)
           rests == Rest(m.book, order, m.c.remaining)
<1>1. HasIndex(m.book) /\ DOMAIN m.book.order_index \subseteq DOMAIN book.order_index
  BY MatchedIndex
<1>2. CASE order.id \in DOMAIN book.order_index
  <2>1. r.book = book /\ r.report.status = "Rejected"
    BY <1>2 DEF AddOrder, DuplicateReport, Rejection
  <2> QED BY <1>2, <2>1 DEF Indexes
<1>3. CASE order.id \notin DOMAIN book.order_index
  <2>1. r = [book |-> IF Rests(m.c) THEN rests ELSE m.book,
             report |-> AddReport(m.c), trades |-> m.c.trades]
    BY <1>3 DEF AddOrder
  <2> HIDE DEF m, r
  <2>2. HasIndex(rests) /\ DOMAIN rests.order_index = DOMAIN m.book.order_index \cup {order.id}
    <3>1. /\ "order_index" \in DOMAIN rests
          /\ DOMAIN rests.order_index = DOMAIN m.book.order_index \cup {order.id}
      BY DEF Rest
    <3> QED BY <1>1, <3>1, FS_AddElement DEF HasIndex
  <2>3. Rests(m.c) => Indexes(AddReport(m.c).status)
    BY DEF Rests, Indexes, AddReport
  <2> HIDE DEF rests
  <2> QED BY <1>1, <1>3, <2>1, <2>2, <2>3 DEF r
<1> QED BY <1>2, <1>3

\* A book that was put in place of another and has no order it had not.
LEMMA PutBookLemma ==
  ASSUME RoutingInv, NEW symbol \in DOMAIN books, NEW b, NEW trades, PutBook(symbol, b, trades),
         HasIndex(b), DOMAIN b.order_index \subseteq DOMAIN books[symbol].order_index
  PROVE  /\ DOMAIN books' = DOMAIN books
         /\ \A s \in DOMAIN books' :
              /\ HasIndex(books'[s])
              /\ DOMAIN books'[s].order_index \subseteq DOMAIN books[s].order_index
         /\ Submitted'
<1>1. books' = [books EXCEPT ![symbol] = b]
  BY DEF PutBook
<1>2. /\ DOMAIN books' = DOMAIN books
      /\ \A s \in DOMAIN books' :
           /\ HasIndex(books'[s])
           /\ DOMAIN books'[s].order_index \subseteq DOMAIN books[s].order_index
  BY <1>1 DEF RoutingInv
<1>3. Submitted'
  BY <1>2 DEF RoutingInv, Submitted
<1> QED BY <1>2, <1>3

\* process_new_order routes what it lets rest, and no other symbol has its id.
LEMMA NewOrderRouting ==
  ASSUME OneSymbolPerId, RoutingInv, MatchNewOrder
  PROVE  RoutingInv'
<1>1. PICK order \in checked :
        /\ PutBook(order.symbol, NewOrderResult(order).book, NewOrderResult(order).trades)
        /\ order_symbol_index' =
             IF Indexes(NewOrderResult(order).report.status)
             THEN [id \in DOMAIN order_symbol_index \cup {order.id} |->
                     IF id = order.id THEN order.symbol ELSE order_symbol_index[id]]
             ELSE order_symbol_index
        /\ checked' = {}
  BY DEF MatchNewOrder
<1> DEFINE symbol == order.symbol
           book == books[symbol]
           r == NewOrderResult(order)
<1>2. order \in NewOrders /\ symbol \in DOMAIN books /\ HasIndex(book)
  BY DEF RoutingInv
<1>3. /\ HasIndex(r.book)
      /\ DOMAIN r.book.order_index \subseteq DOMAIN book.order_index \cup {order.id}
      /\ \/ order.id \notin DOMAIN r.book.order_index
         \/ order.id \in DOMAIN book.order_index
         \/ Indexes(r.report.status)
      /\ order.id \in DOMAIN book.order_index => ~Indexes(r.report.status)
  BY <1>2, AddOrderIndex DEF NewOrderResult
<1>4. books' = [books EXCEPT ![symbol] = r.book]
  BY <1>1 DEF PutBook
<1>5. order_symbol_index' =
        IF Indexes(r.report.status)
        THEN [id \in DOMAIN order_symbol_index \cup {order.id} |->
                IF id = order.id THEN symbol ELSE order_symbol_index[id]]
        ELSE order_symbol_index
  BY <1>1
<1> HIDE DEF r
<1>6. /\ DOMAIN books' = DOMAIN books
      /\ books'[symbol] = r.book
      /\ \A s \in DOMAIN books : s # symbol => books'[s] = books[s]
  BY <1>2, <1>4
<1>7. \A s \in DOMAIN books' : HasIndex(books'[s])
  BY <1>3, <1>6 DEF RoutingInv
<1>8. ASSUME NEW s \in DOMAIN books', NEW id \in DOMAIN books'[s].order_index
      PROVE  /\ \E o \in NewOrders : o.id = id /\ o.symbol = s
             /\ id = order.id => s = symbol
             /\ id \in DOMAIN books[s].order_index \/ (s = symbol /\ id = order.id /\ Indexes(r.report.status))
  <2>1. id \in DOMAIN books[s].order_index \/ (s = symbol /\ id = order.id /\ Indexes(r.report.status))
    BY <1>3, <1>6
  <2>2. \E o \in NewOrders : o.id = id /\ o.symbol = s
    BY <1>2, <1>6, <2>1 DEF RoutingInv, Submitted
  <2>3. id = order.id => s = symbol
    BY <1>2, <2>2 DEF OneSymbolPerId
  <2> QED BY <2>1, <2>2, <2>3
<1>9. RestingIsRouted'
  <2> SUFFICES ASSUME NEW s \in DOMAIN books', NEW id \in DOMAIN books'[s].order_index
               PROVE  id \in DOMAIN order_symbol_index' /\ order_symbol_index'[id] = s
    BY DEF RestingIsRouted
  <2>1. CASE id \in DOMAIN books[s].order_index
    <3>1. id \in DOMAIN order_symbol_index /\ order_symbol_index[id] = s
      BY <1>6, <2>1 DEF RoutingInv, RestingIsRouted
    <3> QED BY <1>5, <1>8, <3>1
  <2>2. CASE id \notin DOMAIN books[s].order_index
    BY <1>5, <1>8, <2>2
  <2> QED BY <2>1, <2>2
<1>10. Submitted'
  BY <1>8 DEF Submitted
<1> QED BY <1>1, <1>7, <1>9, <1>10 DEF RoutingInv

\* process_cancel drops the route of the one order it takes out of a book.
LEMMA CancelRouting ==
  ASSUME RoutingInv, NEW cancel \in Cancels, ProcessCancel(cancel), OneSymbolPerId
  PROVE  RoutingInv'
<1> DEFINE x == cancel.order_id
<1>1. checked = {} /\ checked' = {}
  BY DEF ProcessCancel
<1>2. PICK symbol \in Routes(cancel) \cap DOMAIN books :
        IF cancel.order_id \in DOMAIN books[symbol].order_index
        THEN /\ PutBook(symbol, Withdraw(books[symbol], cancel.order_id), <<>>)
             /\ order_symbol_index' =
                  [id \in DOMAIN order_symbol_index \ {cancel.order_id} |-> order_symbol_index[id]]
        ELSE PutBook(symbol, books[symbol], <<>>) /\ UNCHANGED order_symbol_index
  BY DEF ProcessCancel
<1>3. CASE x \in DOMAIN books[symbol].order_index
  <2> DEFINE b == Withdraw(books[symbol], x)
  <2>1. PutBook(symbol, b, <<>>)
    BY <1>2, <1>3
  <2>2. order_symbol_index' = [id \in DOMAIN order_symbol_index \ {x} |-> order_symbol_index[id]]
    BY <1>2, <1>3
  <2>3. HasIndex(b) /\ DOMAIN b.order_index = DOMAIN books[symbol].order_index \ {x}
    <3>1. /\ "order_index" \in DOMAIN b
          /\ DOMAIN b.order_index = DOMAIN books[symbol].order_index \ {x}
      BY DEF Withdraw, Unlink
    <3>2. IsFiniteSet(DOMAIN books[symbol].order_index)
      BY DEF RoutingInv, HasIndex
    <3> QED BY <3>1, <3>2, FS_Subset DEF HasIndex
  <2> HIDE DEF b
  <2>4. /\ DOMAIN books' = DOMAIN books
        /\ \A s \in DOMAIN books' :
             /\ HasIndex(books'[s])
             /\ DOMAIN books'[s].order_index \subseteq DOMAIN books[s].order_index
        /\ Submitted'
    BY <2>1, <2>3, PutBookLemma
  <2>5. x \notin DOMAIN books'[symbol].order_index
    BY <2>1, <2>3 DEF PutBook
  <2>6. ASSUME NEW s \in DOMAIN books', NEW id \in DOMAIN books'[s].order_index
        PROVE  id \in DOMAIN order_symbol_index' /\ order_symbol_index'[id] = s
    <3>1. id \in DOMAIN order_symbol_index /\ order_symbol_index[id] = s
      BY <2>4 DEF RoutingInv, RestingIsRouted
    <3>2. id # x
      <4> SUFFICES ASSUME id = x PROVE FALSE
        OBVIOUS
      <4>1. order_symbol_index[x] = symbol
        BY <1>3 DEF RoutingInv, RestingIsRouted
      <4> QED BY <2>5, <3>1, <4>1
    <3> QED BY <2>2, <3>1, <3>2
  <2> QED BY <1>1, <2>4, <2>6 DEF RoutingInv, RestingIsRouted
<1>4. CASE x \notin DOMAIN books[symbol].order_index
  <2>1. PutBook(symbol, books[symbol], <<>>) /\ UNCHANGED order_symbol_index
    BY <1>2, <1>4
  <2>2. HasIndex(books[symbol])
    BY DEF RoutingInv
  <2>3. /\ DOMAIN books' = DOMAIN books
        /\ \A s \in DOMAIN books' :
             /\ HasIndex(books'[s])
             /\ DOMAIN books'[s].order_index \subseteq DOMAIN books[s].order_index
        /\ Submitted'
    BY <2>1, <2>2, PutBookLemma
  <2> QED BY <1>1, <2>1, <2>3 DEF RoutingInv, RestingIsRouted
<1> QED BY <1>3, <1>4

\* process_replace puts back at most the id it took out, into the same book.
LEMMA ReplaceRouting ==
  ASSUME RoutingInv, NEW replace \in Replaces,
         ProcessReplace(replace) \/ ReplaceUnknown(replace)
  PROVE  RoutingInv'
<1> DEFINE symbol == replace.symbol
           book == books[symbol]
<1>1. checked = {} /\ checked' = {} /\ UNCHANGED order_symbol_index /\ symbol \in DOMAIN books
  BY DEF ProcessReplace, ReplaceUnknown, Replaceable
<1>2. HasIndex(book)
  BY <1>1 DEF RoutingInv
<1>3. CASE ProcessReplace(replace)
  <2> DEFINE less == Withdraw(book, replace.order_id)
             new == ReplacementOrder(book, replace)
             r == ReplaceResult(replace)
  <2>1. PutBook(symbol, r.book, r.trades) /\ replace.order_id \in DOMAIN book.order_index
    BY <1>3 DEF ProcessReplace, Replaceable
  <2>2. HasIndex(less) /\ DOMAIN less.order_index \subseteq DOMAIN book.order_index
    <3>1. /\ "order_index" \in DOMAIN less
          /\ DOMAIN less.order_index = DOMAIN book.order_index \ {replace.order_id}
      BY DEF Withdraw, Unlink
    <3> QED BY <1>2, <3>1, FS_Subset DEF HasIndex
  <2>3. new.id = replace.order_id
    BY DEF ReplacementOrder
  <2>4. r = AddOrder(less, new)
    BY DEF ReplaceResult
  <2> HIDE DEF less, new, r
  <2>5. /\ HasIndex(r.book)
        /\ DOMAIN r.book.order_index \subseteq DOMAIN less.order_index \cup {new.id}
    BY <2>2, <2>4, AddOrderIndex
  <2>6. DOMAIN r.book.order_index \subseteq DOMAIN book.order_index
    BY <2>1, <2>2, <2>3, <2>5
  <2>7. /\ DOMAIN books' = DOMAIN books
        /\ \A s \in DOMAIN books' :
             /\ HasIndex(books'[s])
             /\ DOMAIN books'[s].order_index \subseteq DOMAIN books[s].order_index
        /\ Submitted'
    BY <1>1, <2>1, <2>5, <2>6, PutBookLemma
  <2> QED BY <1>1, <2>7 DEF RoutingInv, RestingIsRouted
<1>4. CASE ReplaceUnknown(replace)
  <2>1. PutBook(symbol, book, <<>>)
    BY <1>4 DEF ReplaceUnknown
  <2>2. /\ DOMAIN books' = DOMAIN books
        /\ \A s \in DOMAIN books' :
             /\ HasIndex(books'[s])
             /\ DOMAIN books'[s].order_index \subseteq DOMAIN books[s].order_index
        /\ Submitted'
    BY <1>1, <1>2, <2>1, PutBookLemma
  <2> QED BY <1>1, <2>2 DEF RoutingInv, RestingIsRouted
<1> QED BY <1>3, <1>4

\* A new symbol's book is empty.
LEMMA AddSymbolRouting ==
  ASSUME RoutingInv, NEW symbol, AddSymbol(symbol)
  PROVE  RoutingInv'
<1>1. /\ checked = {} /\ checked' = {} /\ UNCHANGED order_symbol_index
      /\ books' = [s \in DOMAIN books \cup {symbol} |-> IF s = symbol THEN EmptyBook ELSE books[s]]
      /\ symbol \notin DOMAIN books
  BY DEF AddSymbol
<1>2. HasIndex(EmptyBook) /\ DOMAIN EmptyBook.order_index = {}
  <2>1. "order_index" \in DOMAIN EmptyBook /\ DOMAIN EmptyBook.order_index = {}
    BY DEF EmptyBook
  <2> QED BY <2>1, FS_EmptySet DEF HasIndex
<1>3. ASSUME NEW s \in DOMAIN books', NEW id \in DOMAIN books'[s].order_index
      PROVE  s \in DOMAIN books /\ books'[s] = books[s]
  BY <1>1, <1>2
<1>4. \A s \in DOMAIN books' : HasIndex(books'[s])
  BY <1>1, <1>2 DEF RoutingInv
<1>5. Submitted'
  BY <1>3 DEF RoutingInv, Submitted
<1>6. RestingIsRouted'
  BY <1>1, <1>3 DEF RoutingInv, RestingIsRouted
<1> QED BY <1>1, <1>4, <1>5, <1>6 DEF RoutingInv

\* Every step keeps the routing invariant.
LEMMA NextRouting ==
  OneSymbolPerId /\ RoutingInv /\ [Next]_vars => RoutingInv'
<1> SUFFICES ASSUME OneSymbolPerId, RoutingInv, [Next]_vars PROVE RoutingInv'
  OBVIOUS
<1>1. CASE UNCHANGED <<books, order_symbol_index>> /\ checked' \subseteq checked \cup NewOrders
           /\ \A o \in checked' \ checked : o.symbol \in DOMAIN books
  BY <1>1 DEF RoutingInv, RestingIsRouted, Submitted
<1>2. CASE \E order \in NewOrders : CheckNewOrder(order)
  BY <1>1, <1>2 DEF CheckNewOrder
<1>3. CASE (\E t \in TraderId : SwitchTrader(t)) \/ SwitchAll
  BY <1>1, <1>3 DEF SwitchTrader, SwitchAll
<1>4. CASE UNCHANGED vars
  BY <1>1, <1>4 DEF vars
<1> QED BY <1>2, <1>3, <1>4, NewOrderRouting, CancelRouting, ReplaceRouting, AddSymbolRouting DEF Next

\* Whatever fills in part, is replaced or cancelled, a client that uses an id for
\* one symbol can cancel every order that rests by its id alone.
THEOREM RoutingIsKept == OneSymbolPerId => (SessionSpec => []RestingIsRouted)
<1> SUFFICES ASSUME OneSymbolPerId PROVE SessionSpec => []RestingIsRouted
  OBVIOUS
<1>1. SessionInit => RoutingInv
  BY DEF SessionInit, Init, RoutingInv, Submitted, RestingIsRouted
<1>2. RoutingInv /\ [SessionNext]_session_vars => RoutingInv'
  BY NextRouting, SessionStep
<1>3. RoutingInv => RestingIsRouted
  BY DEF RoutingInv
<1> QED BY <1>1, <1>2, <1>3, PTL DEF SessionSpec

----------------------------------------------------------------------------
(* What is proved of a book, for the books of the engine.  The operations on a *)
(* book do not look at the constants of L3OrderBook, nor at its variables.     *)

Book == INSTANCE L3OrderBookProofs
          WITH Price <- Int, Submissions <- {}, Replacements <- {},
               book <- EmptyBook, call <- {}, report <- {}, tob <- 0

\* The fields of an order that a book looks at.
Request(o) ==
  [id |-> o.id, trader_id |-> o.trader_id, side |-> o.side, type |-> o.type,
   tif |-> o.tif, price |-> o.price, quantity |-> o.quantity]

\* The operators of a book are those of the engine.
LEMMA SameTests ==
  /\ \A side : Book!Opposite(side) = Opposite(side)
  /\ \A levels, side, p : Book!IsBest(levels, side, p) <=> IsBest(levels, side, p)
  /\ \A o, p : Book!Crosses(o, p) <=> Crosses(o, p)
  /\ \A b, c : Book!MatchingDone(b, c) <=> MatchingDone(b, c)
  /\ \A m, n : Book!LesserOf(m, n) = LesserOf(m, n)
  /\ \A o : Book!OpenQty(o) = OpenQty(o)
  /\ Book!Side = Side
<1>1. \A side : Book!Opposite(side) = Opposite(side)
  BY DEF Book!Opposite, Opposite
<1>2. \A levels, side, p : Book!IsBest(levels, side, p) <=> IsBest(levels, side, p)
  BY DEF Book!IsBest, IsBest, Book!Better, Better
<1>3. \A o, p : Book!Crosses(o, p) <=> Crosses(o, p)
  BY DEF Book!Crosses, Crosses, Book!Better, Better
<1>4. \A b, c : Book!MatchingDone(b, c) <=> MatchingDone(b, c)
  BY <1>1, <1>3 DEF Book!MatchingDone, MatchingDone
<1>5. \A m, n : Book!LesserOf(m, n) = LesserOf(m, n)
  BY DEF Book!LesserOf, LesserOf
<1>6. \A o : Book!OpenQty(o) = OpenQty(o)
  BY DEF Book!OpenQty, OpenQty
<1> QED BY <1>1, <1>2, <1>3, <1>4, <1>5, <1>6 DEF Book!Side, Side

\* What rests at a price, and at every price an order may trade at, is the same sum.
LEMMA SameSums ==
  /\ \A q : Book!TotalQty(q) = TotalQty(q)
  /\ \A f, S : Book!SumOver(f, S) = SumOver(f, S)
<1>1. \A q : Book!TotalQty(q) = TotalQty(q)
  BY DEF Book!TotalQty, TotalQty, Book!OpenQty, OpenQty, Book!FoldLeft, FoldLeft,
         Book!MapThenFoldSet, MapThenFoldSet, Book!Max, Max
<1>2. \A f, S : Book!SumOver(f, S) = SumOver(f, S)
  BY DEF Book!SumOver, SumOver, Book!MapThenSumSet, MapThenSumSet,
         Book!MapThenFoldSet, MapThenFoldSet
<1> QED BY <1>1, <1>2

\* can_fully_fill answers the same of the same book and the same order.
LEMMA SameCanFill ==
  ASSUME NEW b, NEW o
  PROVE  Book!CanFill(b, o) = CanFill(b, o)
<1> DEFINE levels  == b.levels[Opposite(o.side)]
           crossed == {p \in DOMAIN levels : Crosses(o, p)}
<1>1. {p \in DOMAIN levels : Book!Crosses(o, p)} = crossed
  BY SameTests
<1>2. CanFill(b, o) = (MapThenSumSet(LAMBDA p : TotalQty(levels[p]), crossed) >= o.quantity)
  BY DEF CanFill
<1>3. Book!CanFill(b, o) =
        (Book!MapThenSumSet(LAMBDA p : Book!TotalQty(levels[p]), crossed) >= o.quantity)
  <2>1. Book!Opposite(o.side) = Opposite(o.side)
    BY SameTests
  <2> QED BY <1>1, <2>1 DEF Book!CanFill
<1> HIDE DEF levels, crossed
<1>4. Book!MapThenSumSet(LAMBDA p : Book!TotalQty(levels[p]), crossed) =
      MapThenSumSet(LAMBDA p : Book!TotalQty(levels[p]), crossed)
  BY DEF Book!MapThenSumSet, MapThenSumSet, Book!MapThenFoldSet, MapThenFoldSet
<1>5. MapThenSumSet(LAMBDA p : Book!TotalQty(levels[p]), crossed) =
      MapThenSumSet(LAMBDA p : TotalQty(levels[p]), crossed)
  <2>1. \A q : Book!TotalQty(q) = TotalQty(q)
    BY SameSums
  <2> QED BY <2>1 DEF MapThenSumSet, MapThenFoldSet
<1> QED BY <1>2, <1>3, <1>4, <1>5

\* Resting and withdrawing an order write the same book.
LEMMA SameWrites ==
  /\ \A b, side, p, qty : Book!FillFront(b, side, p, qty) = FillFront(b, side, p, qty)
  /\ \A b, o, remaining : Book!Rest(b, o, remaining) = Rest(b, o, remaining)
  /\ \A b, id : Book!Withdraw(b, id) = Withdraw(b, id)
  /\ \A c, front, p, qty : Book!Traded(c, front, p, qty) = Traded(c, front, p, qty)
  /\ \A b, o : Book!Activation(b, o) = Activation(b, o)
<1>1. \A b, side, p, qty : Book!FillFront(b, side, p, qty) = FillFront(b, side, p, qty)
  BY DEF Book!FillFront, FillFront, Book!Unlink, Unlink, Book!SetLevel, SetLevel,
         Book!FillResting, FillResting, Book!OpenQty, OpenQty, Book!LesserOf, LesserOf,
         Book!IcebergSlice, IcebergSlice
<1>2. \A b, o, remaining : Book!Rest(b, o, remaining) = Rest(b, o, remaining)
  BY DEF Book!Rest, Rest, Book!SetLevel, SetLevel
<1>3. \A b, id : Book!Withdraw(b, id) = Withdraw(b, id)
  BY DEF Book!Withdraw, Withdraw, Book!SetLevel, SetLevel, Book!Unlink, Unlink,
         Book!Renumber, Renumber, Book!RemoveAt, RemoveAt
<1>4. \A c, front, p, qty : Book!Traded(c, front, p, qty) = Traded(c, front, p, qty)
  BY DEF Book!Traded, Traded
<1>5. \A b, o : Book!Activation(b, o) = Activation(b, o)
  BY SameCanFill DEF Book!Activation, Activation
<1> QED BY <1>1, <1>2, <1>3, <1>4, <1>5

----------------------------------------------------------------------------
(* A whole add_order. *)

\* The iterations that are left are at most the orders that are left.
LoopState(m, b, o, order, k) ==
  /\ Book!LoopInv(m.book, m.c, order)
  /\ m.c.order = o
  /\ DOMAIN m.book.order_index \subseteq DOMAIN b.order_index
  /\ IsFiniteSet(DOMAIN m.book.order_index)
  /\ \/ MatchingDone(m.book, m.c)
     \/ Cardinality(DOMAIN m.book.order_index) + k <= Cardinality(DOMAIN b.order_index)

\* A step of the loop of a whole add_order is an iteration as the stepwise book has it.
LEMMA IterateLoop ==
  ASSUME NEW b, NEW o, NEW order, NEW k \in Nat, NEW m, LoopState(m, b, o, order, k),
         ~MatchingDone(m.book, m.c), IsFiniteSet(DOMAIN b.order_index)
  PROVE  LoopState(Iterate(m), b, o, order, k + 1)
<1> DEFINE side  == Opposite(m.c.order.side)
           p     == Best(m.book.levels, side)
           front == Head(m.book.levels[side][p])
           qty   == LesserOf(m.c.remaining, OpenQty(front))
           u     == FillFront(m.book, side, p, qty)
           d     == Traded(m.c, front, p, qty)
           w     == Iterate(m)
<1>1. w = [book |-> u, c |-> d]
  BY DEF Iterate, MatchFront
<1>2. Book!LoopInv(m.book, m.c, order)
  BY DEF LoopState
<1>3. side \in Book!Side /\ Book!IsBook(m.book) /\ Book!Counted(m.book)
  <2>1. order \in Book!Order /\ m.c.order.side = order.side
    BY <1>2 DEF Book!LoopInv, Book!SameRequest
  <2>2. order.side \in Book!Side
    BY <2>1 DEF Book!Order
  <2> QED BY <1>2, <2>1, <2>2 DEF Book!LoopInv, Book!Sound, Opposite, Book!Side
<1>4. DOMAIN m.book.levels[side] # {}
  BY DEF MatchingDone
<1>5. IsBest(m.book.levels, side, p)
  <2> HIDE DEF side
  <2>1. \E q \in DOMAIN m.book.levels[side] : Book!IsBest(m.book.levels, side, q)
    BY <1>3, <1>4, Book!BestExists
  <2>2. \E q \in DOMAIN m.book.levels[side] : IsBest(m.book.levels, side, q)
    BY <2>1, SameTests
  <2> QED BY <2>2 DEF Best
<1> HIDE DEF p, w
<1>6. Book!Iterates(m.book, m.c, p, front, qty, u, d)
  BY <1>5, SameTests, SameWrites DEF Book!Iterates
<1> HIDE DEF front, qty, u, d
<1>7. /\ Book!LoopInv(u, d, order)
      /\ d.order = m.c.order
      /\ DOMAIN u.order_index \subseteq DOMAIN m.book.order_index
      /\ d.remaining = 0 \/ \E x \in DOMAIN m.book.order_index : x \notin DOMAIN u.order_index
  BY <1>2, <1>6, Book!IterationLemma
<1>8. CASE d.remaining = 0
  <2>1. MatchingDone(u, d)
    BY <1>8 DEF MatchingDone
  <2>2. IsFiniteSet(DOMAIN u.order_index)
    BY <1>7, FS_Subset DEF LoopState
  <2> QED BY <1>1, <1>7, <2>1, <2>2 DEF LoopState, w
<1>9. CASE d.remaining # 0
  <2> DEFINE D == DOMAIN m.book.order_index
             E == DOMAIN u.order_index
  <2>1. PICK x \in D : x \notin E
    BY <1>7, <1>9
  <2>2. IsFiniteSet(D) /\ E \subseteq D /\ IsFiniteSet(DOMAIN b.order_index)
    BY <1>7 DEF LoopState
  <2>3. Cardinality(D) + k <= Cardinality(DOMAIN b.order_index)
    BY DEF LoopState
  <2>4. D \subseteq DOMAIN b.order_index
    BY DEF LoopState
  <2> HIDE DEF D
  <2>5. E \subseteq D \ {x} /\ IsFiniteSet(D \ {x}) /\ IsFiniteSet(E)
    BY <2>1, <2>2, FS_Subset
  <2>6. Cardinality(E) <= Cardinality(D \ {x}) /\ Cardinality(D \ {x}) = Cardinality(D) - 1
    BY <2>1, <2>2, <2>5, FS_Subset, FS_RemoveElement
  <2>7. Cardinality(E) \in Nat /\ Cardinality(D) \in Nat /\ Cardinality(DOMAIN b.order_index) \in Nat
    BY <2>2, <2>5, FS_CardinalityType
  <2>8. Cardinality(E) + (k + 1) <= Cardinality(DOMAIN b.order_index)
    BY <2>3, <2>6, <2>7
  <2>9. m.c.order = o
    BY DEF LoopState
  <2> QED BY <1>1, <1>7, <2>2, <2>4, <2>5, <2>8, <2>9 DEF LoopState, w
<1> QED BY <1>8, <1>9

\* There is nothing to match in a book without orders.
LEMMA EmptyDone ==
  ASSUME NEW b, NEW c, NEW order, Book!LoopInv(b, c, order), DOMAIN b.order_index = {}
  PROVE  MatchingDone(b, c)
<1>1. Book!IsBook(b) /\ Book!Linked(b) /\ order \in Book!Order /\ c.order.side = order.side
  BY DEF Book!LoopInv, Book!Sound, Book!SameRequest
<1> DEFINE side == Opposite(c.order.side)
<1>2. side \in Book!Side
  BY <1>1 DEF Book!Order, Opposite, Book!Side
<1> HIDE DEF side
<1>3. ASSUME NEW p \in DOMAIN b.levels[side] PROVE FALSE
  <2>1. 1 \in DOMAIN b.levels[side][p]
    BY <1>1, <1>2, Book!QueueLemma
  <2> QED BY <1>1, <1>2, <2>1 DEF Book!Linked
<1> QED BY <1>3 DEF MatchingDone, side

\* The loop of a whole add_order ends as the stepwise one does.
LEMMA MatchedSound ==
  ASSUME NEW b, Book!Sound(b), IsFiniteSet(DOMAIN b.order_index),
         NEW o, Request(o) \in Book!Order
  PROVE  LET m == Matched(b, o)
         IN  /\ Book!LoopInv(m.book, m.c, Request(o))
             /\ m.c.order = o
             /\ DOMAIN m.book.order_index \subseteq DOMAIN b.order_index
             /\ MatchingDone(m.book, m.c)
<1> DEFINE n == Cardinality(DOMAIN b.order_index)
           order == Request(o)
<1>1. n \in Nat
  BY FS_CardinalityType
<1>2. PICK it : /\ it[0] = [book |-> b, c |-> Activation(b, o)]
                /\ \A k \in Nat : it[k + 1] = Iterate(it[k])
                /\ Matched(b, o) = it[n]
  BY <1>1, MatchedLemma
<1> DEFINE T == {k \in Nat : k <= n => LoopState(it[k], b, o, order, k)}
<1>3. 0 \in T
  <2>1. Book!SameRequest(o, order)
    BY DEF Book!SameRequest, Request
  <2> HIDE DEF order
  <2>2. Book!LoopInv(b, Activation(b, o), order)
    <3>1. order \in Book!Order
      BY DEF order
    <3>2. Book!LoopInv(b, Book!Activation(b, o), order)
      BY <2>1, <3>1, Book!LoopBegins
    <3> QED BY <3>2, SameWrites
  <2>3. Activation(b, o).order = o
    BY DEF Activation
  <2>4. LoopState(it[0], b, o, order, 0)
    BY <1>1, <1>2, <2>2, <2>3 DEF LoopState
  <2> QED BY <2>4
<1>4. ASSUME NEW k \in Nat, k \in T PROVE k + 1 \in T
  <2> SUFFICES ASSUME k + 1 <= n PROVE LoopState(it[k + 1], b, o, order, k + 1)
    OBVIOUS
  <2>1. LoopState(it[k], b, o, order, k)
    BY <1>1, <1>4
  <2>2. it[k + 1] = Iterate(it[k])
    BY <1>2
  <2>3. CASE MatchingDone(it[k].book, it[k].c)
    <3>1. it[k + 1] = it[k]
      BY <2>2, <2>3 DEF Iterate
    <3> QED BY <2>1, <2>3, <3>1 DEF LoopState
  <2>4. CASE ~MatchingDone(it[k].book, it[k].c)
    BY <2>1, <2>2, <2>4, IterateLoop
  <2> QED BY <2>3, <2>4
<1>5. Nat \subseteq T
  <2> HIDE DEF T
  <2> QED BY <1>3, <1>4, NatLemma
<1>6. LoopState(it[n], b, o, order, n)
  <2>1. n \in T
    BY <1>1, <1>5
  <2> QED BY <1>1, <2>1
<1> DEFINE m == it[n]
<1> HIDE DEF n, m, order
<1>7. MatchingDone(m.book, m.c)
  <2> SUFFICES ASSUME ~MatchingDone(m.book, m.c) PROVE FALSE
    OBVIOUS
  <2> DEFINE D == DOMAIN m.book.order_index
  <2>1. IsFiniteSet(D) /\ Cardinality(D) + n <= n
    BY <1>6 DEF LoopState, m, n
  <2>2. Cardinality(D) \in Nat
    BY <2>1, FS_CardinalityType
  <2>3. Cardinality(D) = 0
    BY <1>1, <2>1, <2>2
  <2>4. D = {}
    BY <2>1, <2>3, FS_EmptySet
  <2>5. Book!LoopInv(m.book, m.c, order)
    BY <1>6 DEF LoopState, m
  <2> QED BY <2>4, <2>5, EmptyDone
<1> QED BY <1>2, <1>6, <1>7 DEF LoopState, m, order

\* The book made for a new symbol is the empty one.
LEMMA SameEmpty == Book!EmptyBook = EmptyBook
BY DEF Book!EmptyBook, EmptyBook, Book!Side, Side

\* The quantity of some trades.
Printed(trades) == SumOver([i \in DOMAIN trades |-> trades[i].qty], DOMAIN trades)

\* The quantity printed by the trades of a call is counted alike.
LEMMA SamePrinted == \A trades : Book!Printed(trades) = Printed(trades)
BY SameSums DEF Book!Printed, Printed

\* An add_order leaves a sound book, its trades are its trader's, and the
\* report's filled quantity is the sum of theirs: a fill-or-kill order whose
\* report says that nothing was filled has not traded.
LEMMA AddOrderSound ==
  ASSUME NEW b, Book!Sound(b), IsFiniteSet(DOMAIN b.order_index),
         NEW o, Request(o) \in Book!Order
  PROVE  LET r == AddOrder(b, o)
         IN  /\ Book!Sound(r.book)
             /\ r.trades \in Seq(Book!Trade)
             /\ \A i \in DOMAIN r.trades : r.trades[i].incoming_trader = o.trader_id
             /\ \A i \in DOMAIN r.trades : r.trades[i].qty > 0
             /\ Printed(r.trades) \in Nat
             /\ r.report.filled_qty = Printed(r.trades)
<1> DEFINE m == Matched(b, o)
           c == m.c
           r == AddOrder(b, o)
           order == Request(o)
           left == Rest(m.book, o, c.remaining)
<1>1. Printed(<<>>) = 0
  <2>1. DOMAIN <<>> = {} /\ IsFiniteSet({})
    BY FS_EmptySet
  <2> QED BY <2>1, SumUnfold DEF Printed
<1>2. CASE o.id \in DOMAIN b.order_index
  <2>1. r.book = b /\ r.trades = <<>> /\ r.report.filled_qty = 0
    BY <1>2 DEF AddOrder, DuplicateReport, Rejection
  <2> HIDE DEF r
  <2>2. r.trades \in Seq(Book!Trade) /\ DOMAIN r.trades = {} /\ Printed(r.trades) = 0
    BY <1>1, <2>1
  <2>3. /\ Book!Sound(r.book)
        /\ \A i \in DOMAIN r.trades : r.trades[i].incoming_trader = o.trader_id
        /\ \A i \in DOMAIN r.trades : r.trades[i].qty > 0
        /\ Printed(r.trades) \in Nat
        /\ r.report.filled_qty = Printed(r.trades)
    BY <2>1, <2>2
  <2> QED BY <2>2, <2>3 DEF r
<1>3. CASE o.id \notin DOMAIN b.order_index
  <2>1. /\ Book!LoopInv(m.book, c, order) /\ c.order = o
        /\ DOMAIN m.book.order_index \subseteq DOMAIN b.order_index
        /\ MatchingDone(m.book, c)
    BY MatchedSound
  <2>2. r = [book   |-> IF Rests(c) THEN left ELSE m.book,
             report |-> AddReport(c),
             trades |-> c.trades]
    BY <1>3 DEF AddOrder
  <2>3. /\ o.id = order.id /\ o.quantity = order.quantity /\ o.trader_id = order.trader_id
        /\ o.type = order.type /\ o.tif = order.tif /\ o.side = order.side /\ o.price = order.price
    BY DEF Request
  <2>4. order \in Book!Order
    OBVIOUS
  <2> HIDE DEF m, r, order
  <2>5. /\ Book!Sound(m.book)
        /\ c.trades \in Seq(Book!Trade)
        /\ \A i \in DOMAIN c.trades : c.trades[i].incoming_trader = order.trader_id
        /\ \A i \in DOMAIN c.trades : c.trades[i].qty > 0
        /\ Printed(c.trades) \in Nat /\ c.remaining = order.quantity - Printed(c.trades)
    BY <2>1, SamePrinted DEF Book!LoopInv
  <2>6. order.quantity \in Int
    BY <2>4 DEF Book!Order
  <2>7. r.report.filled_qty = Printed(c.trades)
    <3>1. CASE c.remaining > 0 /\ o.type = "Limit" /\ o.tif = "FOK"
      <4>1. r.report.filled_qty = 0
        BY <2>1, <2>2, <3>1 DEF AddReport
      <4>2. c.trades = <<>>
        <5>1. Book!MatchingDone(m.book, c)
          BY <2>1, SameTests
        <5>2. /\ Book!LoopInv(m.book, c, order)
              /\ order.tif = "FOK" /\ c.remaining > 0
          BY <2>1, <2>3, <3>1
        <5> HIDE DEF c
        <5> QED BY <5>1, <5>2, Book!KilledUntouched
      <4> QED BY <1>1, <4>1, <4>2
    <3>2. CASE ~(c.remaining > 0 /\ o.type = "Limit" /\ o.tif = "FOK")
      <4>1. r.report.filled_qty = o.quantity - c.remaining
        BY <2>1, <2>2, <3>2 DEF AddReport
      <4> QED BY <2>3, <2>5, <2>6, <4>1
    <3> QED BY <3>1, <3>2
  <2>8. ASSUME Rests(c) PROVE Book!Sound(left)
    <3> DEFINE q == c.remaining
    <3>1. q \in Nat \ {0} /\ order.quantity - q \in Nat
      BY <2>5, <2>6, <2>8 DEF Rests
    <3>2. order.id \notin DOMAIN m.book.order_index
      BY <1>3, <2>1, <2>3
    <3> HIDE DEF q
    <3>3. Book!Sound(Book!Rest(m.book, order, q))
      BY <2>4, <2>5, <3>1, <3>2, Book!RestSound
    <3>4. Book!Rest(m.book, order, q) = Rest(m.book, order, q)
      BY SameWrites
    <3>5. Rest(m.book, order, q) = Rest(m.book, o, q)
      BY <2>3 DEF Rest
    <3> QED BY <3>3, <3>4, <3>5 DEF left, q
  <2>9. Book!Sound(r.book)
    <3> HIDE DEF left, c
    <3> QED BY <2>2, <2>5, <2>8
  <2>10. r.trades = c.trades
    BY <2>2
  <2> QED BY <2>3, <2>5, <2>7, <2>9, <2>10 DEF r
<1> QED BY <1>2, <1>3

----------------------------------------------------------------------------
(* What the trades of an operation do to accounts, trade by trade.  The folds  *)
(* over trades are one, with Effect as its step: of the incoming and resting   *)
(* traders' net quantities, of the trade engine's positions, of what a feed    *)
(* records of trades, and of the sums that are made of that.                   *)

Party(account, tr) == IF account = "incoming" THEN tr.incoming_trader ELSE tr.resting_trader

Effect(account, symbol, side, x, tr) ==
  IF account = "positions" THEN process_trade(x, symbol, side, tr)
  ELSE IF account = "ledger"
       THEN Entered(Entered(x, tr.incoming_trader, symbol, side, tr),
                    tr.resting_trader, symbol, Opposite(side), tr)
  ELSE IF account = "feed" THEN record_trade(x, tr.price, tr.qty)
  ELSE IF account = "vwap" THEN <<x[1] + tr.price * tr.quantity, x[2] + tr.quantity>>
  ELSE IF account = "value" THEN x + tr.price * tr.qty
  ELSE IF account = "volume" THEN x + tr.qty
  ELSE IF account = "sum" THEN x + tr
  ELSE [x EXCEPT ![Party(account, tr)][symbol] = @ + Signed(side, tr.qty)]

\* it is a recursive function that folds the trades from the left, on the sets
\* of positions in D.
FoldsOn(it, account, symbol, side, base, trades, D) ==
  it = [s \in D |-> IF s = {} THEN base
                    ELSE Effect(account, symbol, side, it[s \ {Max(s)}], trades[Max(s)])]

\* It does so for all of the trades.
Folds(it, account, symbol, side, base, trades) ==
  FoldsOn(it, account, symbol, side, base, trades, SUBSET (1..Len(trades)))

\* A finite set of positions has a last one.
LEMMA MaxLemma ==
  ASSUME NEW n \in Nat, NEW s \in SUBSET (1..n), s # {}
  PROVE  Max(s) \in s /\ \A i \in s : i <= Max(s)
<1> DEFINE R == {n - i : i \in s}
<1>1. \A i \in s : i \in 1..n /\ i \in Nat /\ n - i \in Nat
  OBVIOUS
<1>2. R \in SUBSET Nat /\ R # {}
  BY <1>1
<1>3. PICK k \in R : \A l \in R : k <= l
  <2> HIDE DEF R
  <2> QED BY <1>2, LeastLemma
<1>4. PICK i \in s : k = n - i
  OBVIOUS
<1>5. \A j \in s : i >= j
  <2> TAKE j \in s
  <2>1. n - j \in R
    OBVIOUS
  <2>2. k <= n - j /\ i \in Nat /\ j \in Nat
    BY <1>1, <1>3, <2>1
  <2> QED BY <1>4, <2>2
<1>6. Max(s) \in s /\ \A j \in s : Max(s) >= j
  BY <1>5 DEF Max
<1>7. ASSUME NEW j \in s PROVE j <= Max(s)
  <2>1. j \in Nat /\ Max(s) \in Nat
    BY <1>1, <1>6
  <2> QED BY <1>6, <2>1
<1> QED BY <1>6, <1>7

\* There is such a function on the sets of any size.
LEMMA FoldsExist ==
  ASSUME NEW account, NEW symbol, NEW side, NEW base, NEW trades, NEW l \in Nat
  PROVE  \E it : FoldsOn(it, account, symbol, side, base, trades, SUBSET (1..l))
<1> DEFINE S == 1..l
           UpTo(n) == {s \in SUBSET S : Cardinality(s) <= n}
           OnSets(it, D) == FoldsOn(it, account, symbol, side, base, trades, D)
           T == {n \in Nat : \E it : OnSets(it, UpTo(n))}
<1>1. IsFiniteSet(S)
  BY FS_Interval
<1>2. \A s \in SUBSET S : s # {} => Max(s) \in s
  BY MaxLemma
<1> HIDE DEF S
<1>3. \A s \in SUBSET S : IsFiniteSet(s) /\ Cardinality(s) \in Nat
                          /\ Cardinality(s) <= Cardinality(S)
  BY <1>1, FS_Subset, FS_CardinalityType
<1>4. \A s \in SUBSET S : Cardinality(s) <= 0 => s = {}
  BY <1>3, FS_EmptySet
<1>5. 0 \in T
  <2> DEFINE it == [s \in UpTo(0) |-> base]
  <2>1. \A s \in UpTo(0) : s = {}
    BY <1>4
  <2>2. it = [s \in UpTo(0) |-> IF s = {} THEN base
                ELSE Effect(account, symbol, side, it[s \ {Max(s)}], trades[Max(s)])]
    BY <2>1
  <2> HIDE DEF it
  <2>3. OnSets(it, UpTo(0))
    BY <2>2 DEF FoldsOn
  <2> HIDE DEF OnSets
  <2> QED BY <2>3
<1>6. ASSUME NEW n \in Nat, n \in T PROVE n + 1 \in T
  <2>1. PICK g : OnSets(g, UpTo(n))
    BY <1>6
  <2> DEFINE Entry(it, s) == IF s = {} THEN base
                ELSE Effect(account, symbol, side, it[s \ {Max(s)}], trades[Max(s)])
             h == [s \in UpTo(n + 1) |-> Entry(g, s)]
  <2>2. \A s \in UpTo(n) : s \in UpTo(n + 1) /\ h[s] = g[s]
    <3> TAKE s \in UpTo(n)
    <3>1. s \in UpTo(n + 1)
      BY <1>3
    <3>2. g[s] = Entry(g, s)
      BY <2>1 DEF FoldsOn
    <3> QED BY <3>1, <3>2
  <2>3. \A s \in UpTo(n + 1) : s # {} => s \ {Max(s)} \in UpTo(n)
    <3> SUFFICES ASSUME NEW s \in UpTo(n + 1), s # {} PROVE s \ {Max(s)} \in UpTo(n)
      OBVIOUS
    <3>1. Max(s) \in s
      BY <1>2
    <3>2. Cardinality(s \ {Max(s)}) = Cardinality(s) - 1
      BY <1>3, <3>1, FS_RemoveElement
    <3> QED BY <1>3, <3>2
  <2>4. \A s \in UpTo(n + 1) : h[s] = Entry(h, s)
    BY <2>2, <2>3
  <2>5. h = [s \in UpTo(n + 1) |-> h[s]]
    OBVIOUS
  <2> HIDE DEF h
  <2>6. OnSets(h, UpTo(n + 1))
    BY <2>4, <2>5 DEF FoldsOn
  <2> HIDE DEF UpTo, OnSets
  <2>7. n + 1 \in Nat /\ \E it : OnSets(it, UpTo(n + 1))
    BY <2>6
  <2> QED BY <2>7
<1>7. Nat \subseteq T
  <2> HIDE DEF T
  <2> QED BY <1>5, <1>6, NatLemma
<1>8. Cardinality(S) \in T
  BY <1>1, <1>7, FS_CardinalityType
<1>9. UpTo(Cardinality(S)) = SUBSET S
  BY <1>3
<1> QED BY <1>8, <1>9 DEF T, S

\* The values of such a function after each of the trades.
Pass(a, account, symbol, side, base, trades) ==
  /\ a[0] = base
  /\ \A k \in 0..(Len(trades) - 1) :
       a[k + 1] = Effect(account, symbol, side, a[k], trades[k + 1])

\* A fold is what passing through the trades one by one ends with.
LEMMA FoldPasses ==
  ASSUME NEW account, NEW symbol, NEW side, NEW base, NEW trades, Len(trades) \in Nat,
         NEW it, Folds(it, account, symbol, side, base, trades)
  PROVE  \E a : /\ Pass(a, account, symbol, side, base, trades)
                /\ it[1..Len(trades)] = a[Len(trades)]
<1> DEFINE n == Len(trades)
           a == [k \in 0..n |-> it[1..k]]
<1>1. a[0] = base
  <2>1. 1..0 = {} /\ 0 \in 0..n
    OBVIOUS
  <2>2. it[{}] = base
    BY DEF Folds, FoldsOn
  <2> QED BY <2>1, <2>2
<1>2. ASSUME NEW k \in 0..(n - 1)
      PROVE  a[k + 1] = Effect(account, symbol, side, a[k], trades[k + 1])
  <2> DEFINE s == 1..(k + 1)
  <2>1. /\ s \in SUBSET (1..n) /\ k + 1 \in s /\ s # {}
        /\ k \in Nat /\ k \in 0..n /\ k + 1 \in 0..n
    <3>1. n \in Nat /\ k \in Nat /\ k + 1 \in Nat /\ k + 1 >= 1 /\ k + 1 <= n
      OBVIOUS
    <3> HIDE DEF n
    <3>2. k + 1 \in s /\ \A i \in s : i \in 1..n
      BY <3>1
    <3>3. s \in SUBSET (1..n) /\ s # {}
      <4> HIDE DEF s
      <4> QED BY <3>2
    <3> QED BY <3>1, <3>2, <3>3
  <2>2. Max(s) = k + 1
    <3>1. Max(s) \in s /\ \A i \in s : i <= Max(s)
      BY <2>1, MaxLemma
    <3> QED BY <2>1, <3>1
  <2>3. s \ {k + 1} = 1..k
    OBVIOUS
  <2>4. it[s] = Effect(account, symbol, side, it[s \ {Max(s)}], trades[Max(s)])
    <3> HIDE DEF s
    <3> QED BY <2>1 DEF Folds, FoldsOn
  <2>5. it[s] = Effect(account, symbol, side, it[1..k], trades[k + 1])
    BY <2>2, <2>3, <2>4
  <2>6. a[k + 1] = it[s] /\ a[k] = it[1..k]
    BY <2>1
  <2> HIDE DEF s, a
  <2> QED BY <2>5, <2>6
<1>3. a[n] = it[1..n]
  OBVIOUS
<1> HIDE DEF a
<1> QED BY <1>1, <1>2, <1>3 DEF Pass

\* Settle and the trade engine's callback are such folds.
LEMMA SettlePasses ==
  ASSUME NEW symbol, NEW side, NEW base, NEW trades, Len(trades) \in Nat,
         DOMAIN trades = 1..Len(trades)
  PROVE  /\ \E a : /\ Pass(a, "incoming", symbol, side, base, trades)
                   /\ Settle(base, symbol, trades, Incoming, side) = a[Len(trades)]
         /\ \E a : /\ Pass(a, "resting", symbol, side, base, trades)
                   /\ Settle(base, symbol, trades, Resting, side) = a[Len(trades)]
<1> DEFINE S == 1..Len(trades)
           OfIncoming(it) ==
             it = [s \in SUBSET S |-> IF s = {} THEN base ELSE
                    [it[s \ {Max(s)}] EXCEPT ![trades[Max(s)].incoming_trader][symbol]
                       = @ + Signed(side, trades[Max(s)].qty)]]
           OfResting(it) ==
             it = [s \in SUBSET S |-> IF s = {} THEN base ELSE
                    [it[s \ {Max(s)}] EXCEPT ![trades[Max(s)].resting_trader][symbol]
                       = @ + Signed(side, trades[Max(s)].qty)]]
<1>1. Settle(base, symbol, trades, Incoming, side) = (CHOOSE it : OfIncoming(it))[S]
  BY DEF Settle, FoldLeft, MapThenFoldSet, Incoming
<1>2. Settle(base, symbol, trades, Resting, side) = (CHOOSE it : OfResting(it))[S]
  BY DEF Settle, FoldLeft, MapThenFoldSet, Resting
<1>3. \A it : OfIncoming(it) <=> Folds(it, "incoming", symbol, side, base, trades)
  BY DEF Folds, FoldsOn, Effect, Party
<1>4. \A it : OfResting(it) <=> Folds(it, "resting", symbol, side, base, trades)
  BY DEF Folds, FoldsOn, Effect, Party
<1> HIDE DEF OfIncoming, OfResting
<1>5. OfIncoming(CHOOSE it : OfIncoming(it)) /\ OfResting(CHOOSE it : OfResting(it))
  BY <1>3, <1>4, FoldsExist DEF Folds
<1>6. \E a : /\ Pass(a, "incoming", symbol, side, base, trades)
             /\ Settle(base, symbol, trades, Incoming, side) = a[Len(trades)]
  <2>1. PICK it : /\ Folds(it, "incoming", symbol, side, base, trades)
                  /\ Settle(base, symbol, trades, Incoming, side) = it[S]
    BY <1>1, <1>3, <1>5
  <2>2. PICK a : Pass(a, "incoming", symbol, side, base, trades) /\ it[S] = a[Len(trades)]
    BY <2>1, FoldPasses
  <2> QED BY <2>1, <2>2
<1>7. \E a : /\ Pass(a, "resting", symbol, side, base, trades)
             /\ Settle(base, symbol, trades, Resting, side) = a[Len(trades)]
  <2>1. PICK it : /\ Folds(it, "resting", symbol, side, base, trades)
                  /\ Settle(base, symbol, trades, Resting, side) = it[S]
    BY <1>2, <1>4, <1>5
  <2>2. PICK a : Pass(a, "resting", symbol, side, base, trades) /\ it[S] = a[Len(trades)]
    BY <2>1, FoldPasses
  <2> QED BY <2>1, <2>2
<1> QED BY <1>6, <1>7

\* The positions after the callbacks of some trades.
AllProcessed(all, symbol, side, trades) ==
  FoldLeft(LAMBDA ps, tr : process_trade(ps, symbol, side, tr), all, trades)

\* They are such a fold, too.
LEMMA PositionsPasses ==
  ASSUME NEW symbol, NEW side, NEW base, NEW trades, Len(trades) \in Nat,
         DOMAIN trades = 1..Len(trades)
  PROVE  \E a : /\ Pass(a, "positions", symbol, side, base, trades)
                /\ AllProcessed(base, symbol, side, trades) = a[Len(trades)]
<1> DEFINE S == 1..Len(trades)
           OfTrades(it) ==
             it = [s \in SUBSET S |-> IF s = {} THEN base ELSE
                    process_trade(it[s \ {Max(s)}], symbol, side, trades[Max(s)])]
           result == AllProcessed(base, symbol, side, trades)
<1>1. result = (CHOOSE it : OfTrades(it))[S]
  BY DEF AllProcessed, FoldLeft, MapThenFoldSet
<1>2. \A it : OfTrades(it) <=> Folds(it, "positions", symbol, side, base, trades)
  BY DEF Folds, FoldsOn, Effect, Party
<1> HIDE DEF OfTrades, result
<1>3. OfTrades(CHOOSE it : OfTrades(it))
  BY <1>2, FoldsExist DEF Folds
<1>4. PICK it : /\ Folds(it, "positions", symbol, side, base, trades)
                /\ result = it[S]
  BY <1>1, <1>2, <1>3
<1>5. PICK a : Pass(a, "positions", symbol, side, base, trades) /\ it[S] = a[Len(trades)]
  BY <1>4, FoldPasses
<1> QED BY <1>4, <1>5 DEF result

\* What trader t has of each of the trades, and of the first k of them.
Shares(account, trades, t) ==
  [i \in DOMAIN trades |-> IF Party(account, trades[i]) = t THEN trades[i].qty ELSE 0]

Got(account, trades, t, k) == SumOver(Shares(account, trades, t), 1..k)

\* An account has got nothing of no trades, and the next trade adds its quantity
\* to what the trader named in it got.
LEMMA GotLemma ==
  ASSUME NEW account, NEW trades \in Seq(Book!Trade), NEW t
  PROVE  /\ Got(account, trades, t, 0) = 0
         /\ \A k \in 0..Len(trades) : Got(account, trades, t, k) \in Int
         /\ \A k \in 0..(Len(trades) - 1) :
              Got(account, trades, t, k + 1) =
                Got(account, trades, t, k)
                  + (IF Party(account, trades[k + 1]) = t THEN trades[k + 1].qty ELSE 0)
<1> DEFINE f == Shares(account, trades, t)
           n == Len(trades)
<1>1. n \in Nat /\ \A i \in 1..n : trades[i] \in Book!Trade /\ i \in DOMAIN trades
  OBVIOUS
<1>2. \A i \in 1..n : trades[i].qty \in Nat
  BY <1>1 DEF Book!Trade
<1>3. \A i \in 1..n : /\ f[i] \in Int
                      /\ f[i] = IF Party(account, trades[i]) = t THEN trades[i].qty ELSE 0
  BY <1>1, <1>2 DEF Shares
<1> HIDE DEF f, n
<1>4. SumOver(f, 1..0) = 0
  <2>1. 1..0 = {} /\ IsFiniteSet({})
    BY FS_EmptySet
  <2> QED BY <2>1, SumUnfold
<1>5. ASSUME NEW k \in 0..n
      PROVE  IsFiniteSet(1..k) /\ SumOver(f, 1..k) \in Int
  <2>1. IsFiniteSet(1..k)
    BY <1>1, FS_Interval
  <2>2. \A i \in 1..k : f[i] \in Int
    BY <1>1, <1>3
  <2> QED BY <2>1, <2>2, SumType
<1>6. ASSUME NEW k \in 0..(n - 1)
      PROVE  SumOver(f, 1..(k + 1)) = SumOver(f, 1..k) + f[k + 1] /\ k + 1 \in 1..n
  <2>1. k \in 0..n /\ k + 1 \in 1..n /\ 1..(k + 1) = (1..k) \cup {k + 1} /\ k + 1 \notin 1..k
    BY <1>1
  <2>2. \A i \in (1..k) \cup {k + 1} : f[i] \in Int
    BY <1>1, <1>3, <2>1
  <2>3. SumOver(f, (1..k) \cup {k + 1}) = f[k + 1] + SumOver(f, 1..k)
    BY <1>5, <2>1, <2>2, SumAdd
  <2>4. SumOver(f, 1..k) \in Int /\ f[k + 1] \in Int
    BY <1>5, <2>1, <2>2
  <2> DEFINE x == SumOver(f, 1..k)
             y == SumOver(f, 1..(k + 1))
  <2>5. y = f[k + 1] + x
    BY <2>1, <2>3
  <2> HIDE DEF x, y
  <2>6. y = x + f[k + 1]
    BY <2>4, <2>5 DEF x
  <2> QED BY <2>1, <2>6 DEF x, y
<1> QED BY <1>3, <1>4, <1>5, <1>6 DEF Got, f, n

\* What the first k trades add to what t has of symbol s.
Share(account, side, symbol, trades, t, s, k) ==
  IF s = symbol THEN Signed(side, Got(account, trades, t, k)) ELSE 0

Totals == [TraderId -> [Symbol -> Int]]

\* u has for every trader what totals has and what it got of the trades.
Adds(u, account, symbol, side, totals, trades) ==
  /\ u \in Totals
  /\ \A t \in TraderId, s \in Symbol :
       u[t][s] = totals[t][s] + Share(account, side, symbol, trades, t, s, Len(trades))

\* Settle adds to what a trader has what it got of the trades, on their side.
LEMMA SettleAdds ==
  ASSUME NEW totals \in Totals, NEW symbol \in Symbol, NEW side,
         NEW trades \in Seq(Book!Trade), NEW account \in {"incoming", "resting"},
         NEW a, Pass(a, account, symbol, side, totals, trades)
  PROVE  Adds(a[Len(trades)], account, symbol, side, totals, trades)
<1> DEFINE n == Len(trades)
           T == {k \in Nat : k <= n =>
                  /\ a[k] \in Totals
                  /\ \A t \in TraderId, s \in Symbol :
                       a[k][t][s] = totals[t][s] + Share(account, side, symbol, trades, t, s, k)}
<1>1. n \in Nat /\ \A i \in 1..n : trades[i] \in Book!Trade
  OBVIOUS
<1>2. \A t \in TraderId, s \in Symbol : totals[t][s] \in Int
  BY DEF Totals
<1>3. 0 \in T
  <2>1. \A t, s : Share(account, side, symbol, trades, t, s, 0) = 0
    BY GotLemma DEF Share, Signed
  <2>2. a[0] = totals
    BY DEF Pass
  <2> QED BY <1>2, <2>1, <2>2
<1>4. ASSUME NEW k \in Nat, k \in T PROVE k + 1 \in T
  <2> SUFFICES ASSUME k + 1 <= n
               PROVE  /\ a[k + 1] \in Totals
                      /\ \A t \in TraderId, s \in Symbol :
                           a[k + 1][t][s] =
                             totals[t][s] + Share(account, side, symbol, trades, t, s, k + 1)
    OBVIOUS
  <2> DEFINE tr == trades[k + 1]
             x == a[k]
             y == a[k + 1]
             who == Party(account, tr)
             q == Signed(side, tr.qty)
  <2>1. /\ x \in Totals
        /\ \A t \in TraderId, s \in Symbol :
             x[t][s] = totals[t][s] + Share(account, side, symbol, trades, t, s, k)
    BY <1>1, <1>4
  <2>2. k \in 0..(n - 1) /\ k \in 0..n /\ k + 1 \in 0..n /\ tr \in Book!Trade
    BY <1>1
  <2>3. who \in TraderId /\ tr.qty \in Nat /\ q \in Int
    BY <2>2 DEF Party, Book!Trade, Signed
  <2>4. y = [x EXCEPT ![who][symbol] = @ + q]
    BY <2>2 DEF Pass, Effect
  <2>5. ASSUME NEW t \in TraderId, NEW s \in Symbol
        PROVE  Share(account, side, symbol, trades, t, s, k + 1) =
                 Share(account, side, symbol, trades, t, s, k)
                   + (IF t = who /\ s = symbol THEN q ELSE 0)
               /\ Share(account, side, symbol, trades, t, s, k) \in Int
    <3> DEFINE g == Got(account, trades, t, k)
               h == Got(account, trades, t, k + 1)
    <3>1. g \in Int /\ h = g + (IF who = t THEN tr.qty ELSE 0)
      <4>1. \A j \in 0..n : Got(account, trades, t, j) \in Int
        BY GotLemma
      <4>2. \A j \in 0..(n - 1) :
              Got(account, trades, t, j + 1) =
                Got(account, trades, t, j)
                  + (IF Party(account, trades[j + 1]) = t THEN trades[j + 1].qty ELSE 0)
        BY GotLemma
      <4> QED BY <2>2, <4>1, <4>2
    <3> HIDE DEF g, h, tr, who
    <3> QED BY <2>3, <3>1 DEF Share, Signed, g, h
  <2> HIDE DEF tr, x, y, who, q
  <2>6. y \in Totals
    BY <2>1, <2>3, <2>4 DEF Totals
  <2>7. \A t \in TraderId, s \in Symbol :
          y[t][s] = x[t][s] + (IF t = who /\ s = symbol THEN q ELSE 0)
    BY <2>1, <2>3, <2>4 DEF Totals
  <2>8. ASSUME NEW t \in TraderId, NEW s \in Symbol
        PROVE  y[t][s] = totals[t][s] + Share(account, side, symbol, trades, t, s, k + 1)
    <3> DEFINE c == Share(account, side, symbol, trades, t, s, k)
               d == Share(account, side, symbol, trades, t, s, k + 1)
               e == IF t = who /\ s = symbol THEN q ELSE 0
    <3>1. /\ x[t][s] = totals[t][s] + c /\ y[t][s] = x[t][s] + e /\ d = c + e
          /\ c \in Int /\ e \in Int /\ totals[t][s] \in Int
      BY <1>2, <2>1, <2>3, <2>5, <2>7
    <3> HIDE DEF c, d, e
    <3>2. y[t][s] = totals[t][s] + d
      BY <3>1
    <3> QED BY <3>2 DEF d
  <2> QED BY <2>6, <2>8 DEF y
<1>5. Nat \subseteq T
  <2> HIDE DEF T
  <2> QED BY <1>3, <1>4, NatLemma
<1>6. n \in T
  BY <1>1, <1>5
<1> QED BY <1>1, <1>6 DEF Adds

----------------------------------------------------------------------------
(* The books of the engine stay sound, whatever requests come. *)

SoundBook(b) == Book!Sound(b) /\ HasIndex(b)

EngineInv ==
  /\ \A o \in checked : o \in NewOrders /\ o.symbol \in DOMAIN books
  /\ DOMAIN books \subseteq Symbol
  /\ \A symbol \in DOMAIN books : SoundBook(books[symbol])

\* A new order asks for what a book can be asked for.
LEMMA NewOrderRequest ==
  ASSUME NEW o \in NewOrders
  PROVE  /\ Request(o) \in Book!Order
         /\ o.trader_id \in TraderId /\ o.symbol \in Symbol /\ o.side \in Side
<1>1. o \in SymbolOrder
  BY RequestsAssumption
<1>2. /\ o.id \in OrderId /\ o.trader_id \in TraderId /\ o.symbol \in Symbol /\ o.side \in Side
      /\ o.type \in OrderType /\ o.tif \in TimeInForce /\ o.price \in Int /\ o.quantity \in Int
  BY <1>1 DEF SymbolOrder
<1> QED BY <1>2 DEF Request, Book!Order, Book!Side, Side, Book!OrderType, OrderType,
               Book!TimeInForce, TimeInForce

\* So does the order of a replace.
LEMMA ReplacementRequest ==
  ASSUME NEW replace \in Replaces, NEW b, Book!Sound(b), replace.order_id \in DOMAIN b.order_index
  PROVE  LET new == ReplacementOrder(b, replace)
         IN  /\ Request(new) \in Book!Order
             /\ new.trader_id \in TraderId /\ new.side \in Side
<1> DEFINE new == ReplacementOrder(b, replace)
<1>1. replace \in SymbolReplace
  BY RequestsAssumption
<1>2. /\ replace.order_id \in OrderId /\ replace.trader_id \in TraderId
      /\ replace.new_price \in Int /\ replace.new_qty \in Int
  BY <1>1 DEF SymbolReplace
<1>3. b.order_index[replace.order_id].side \in Side
  BY SameTests DEF Book!Sound, Book!IsBook, Book!PartialFunction, Book!OrderLocation
<1>4. /\ new.id \in OrderId /\ new.trader_id \in TraderId /\ new.side \in Side
      /\ new.type = "Limit" /\ new.tif = "Day" /\ new.price \in Int /\ new.quantity \in Int
  BY <1>2, <1>3 DEF ReplacementOrder
<1> HIDE DEF new
<1>5. Request(new) \in Book!Order
  BY <1>4 DEF Request, Book!Order, Book!Side, Side, Book!OrderType, Book!TimeInForce
<1> QED BY <1>4, <1>5 DEF new

\* What an add_order on a sound book does.
LEMMA AddOrderResult ==
  ASSUME NEW b, SoundBook(b), NEW o, Request(o) \in Book!Order
  PROVE  LET r == AddOrder(b, o)
         IN  /\ SoundBook(r.book)
             /\ r.trades \in Seq(Book!Trade)
             /\ \A i \in DOMAIN r.trades : r.trades[i].incoming_trader = o.trader_id
             /\ \A i \in DOMAIN r.trades : r.trades[i].qty > 0
             /\ Printed(r.trades) \in Nat
             /\ r.report.filled_qty = Printed(r.trades)
<1>1. Book!Sound(b) /\ IsFiniteSet(DOMAIN b.order_index) /\ HasIndex(b)
  BY DEF SoundBook, HasIndex
<1> QED BY <1>1, AddOrderSound, AddOrderIndex DEF SoundBook

\* What process_cancel does to a book.
LEMMA WithdrawResult ==
  ASSUME NEW b, SoundBook(b), NEW id \in DOMAIN b.order_index
  PROVE  SoundBook(Withdraw(b, id))
<1> DEFINE u == Withdraw(b, id)
<1>1. Book!Sound(u)
  <2>1. Book!Sound(Book!Withdraw(b, id))
    BY Book!WithdrawSound DEF SoundBook
  <2> QED BY <2>1, SameWrites
<1>2. HasIndex(u)
  <2>1. "order_index" \in DOMAIN u /\ DOMAIN u.order_index = DOMAIN b.order_index \ {id}
    BY DEF Withdraw, Unlink
  <2>2. IsFiniteSet(DOMAIN b.order_index)
    BY DEF SoundBook, HasIndex
  <2> QED BY <2>1, <2>2, FS_Subset DEF HasIndex
<1> HIDE DEF u
<1> QED BY <1>1, <1>2 DEF SoundBook, u

\* What process_new_order and process_replace do, with their trades.
LEMMA NewOrderResults ==
  ASSUME EngineInv, NEW order \in checked
  PROVE  LET r == NewOrderResult(order)
         IN  /\ SoundBook(r.book)
             /\ r.trades \in Seq(Book!Trade)
             /\ \A i \in DOMAIN r.trades : r.trades[i].incoming_trader = order.trader_id
             /\ \A i \in DOMAIN r.trades : r.trades[i].qty > 0
             /\ Printed(r.trades) \in Nat
             /\ r.report.filled_qty = Printed(r.trades)
             /\ order.symbol \in DOMAIN books /\ order.symbol \in Symbol
             /\ order.trader_id \in TraderId /\ order.side \in Side
<1>1. order \in NewOrders /\ order.symbol \in DOMAIN books /\ SoundBook(books[order.symbol])
  BY DEF EngineInv
<1> QED BY <1>1, NewOrderRequest, AddOrderResult DEF NewOrderResult

\* What process_replace does to the book and which trades it reports.
LEMMA ReplaceResults ==
  ASSUME EngineInv, NEW replace \in Replaces, Replaceable(replace)
  PROVE  LET r == ReplaceResult(replace)
         IN  /\ SoundBook(r.book)
             /\ r.trades \in Seq(Book!Trade)
             /\ \A i \in DOMAIN r.trades : r.trades[i].qty > 0
             /\ ReplacedSide(replace) \in Side
             /\ replace.symbol \in DOMAIN books /\ replace.symbol \in Symbol
<1> DEFINE b == books[replace.symbol]
           new == ReplacementOrder(b, replace)
<1>1. /\ replace.symbol \in DOMAIN books /\ replace.symbol \in Symbol
      /\ SoundBook(b) /\ Book!Sound(b) /\ replace.order_id \in DOMAIN b.order_index
  BY DEF EngineInv, SoundBook, Replaceable
<1>2. Request(new) \in Book!Order /\ new.side \in Side
  BY <1>1, ReplacementRequest
<1>3. new.side = ReplacedSide(replace)
  BY DEF ReplacementOrder, ReplacedSide
<1>4. SoundBook(Withdraw(b, replace.order_id))
  BY <1>1, WithdrawResult
<1>5. ReplaceResult(replace) = AddOrder(Withdraw(b, replace.order_id), new)
  BY DEF ReplaceResult
<1> HIDE DEF b, new
<1> QED BY <1>1, <1>2, <1>3, <1>4, <1>5, AddOrderResult

\* A sound book put in the place of another.
LEMMA PutSound ==
  ASSUME EngineInv, NEW symbol \in DOMAIN books, NEW b, SoundBook(b), NEW trades,
         PutBook(symbol, b, trades), checked' \subseteq checked
  PROVE  EngineInv'
<1>1. books' = [books EXCEPT ![symbol] = b]
  BY DEF PutBook
<1>2. /\ DOMAIN books' = DOMAIN books
      /\ \A s \in DOMAIN books' : books'[s] = IF s = symbol THEN b ELSE books[s]
  BY <1>1
<1>3. \A s \in DOMAIN books' : SoundBook(books'[s])
  BY <1>2 DEF EngineInv
<1> QED BY <1>2, <1>3 DEF EngineInv

\* Every operation of the engine keeps the books sound and the requests known.
LEMMA NextEngine == EngineInv /\ [Next]_vars => EngineInv'
<1> SUFFICES ASSUME EngineInv, [Next]_vars PROVE EngineInv'
  OBVIOUS
<1>1. ASSUME NEW symbol \in Symbol, AddSymbol(symbol) PROVE EngineInv'
  <2>1. SoundBook(EmptyBook)
    <3>1. Book!Sound(EmptyBook)
      BY SameEmpty, Book!EmptySound
    <3>2. "order_index" \in DOMAIN EmptyBook /\ DOMAIN EmptyBook.order_index = {}
      BY DEF EmptyBook
    <3> QED BY <3>1, <3>2, FS_EmptySet DEF SoundBook, HasIndex
  <2>2. /\ checked = {} /\ checked' = checked
        /\ books' = [s \in DOMAIN books \cup {symbol} |-> IF s = symbol THEN EmptyBook ELSE books[s]]
    BY <1>1 DEF AddSymbol
  <2>3. \A s \in DOMAIN books' : SoundBook(books'[s])
    BY <2>1, <2>2 DEF EngineInv
  <2>4. DOMAIN books' \subseteq Symbol
    BY <2>2 DEF EngineInv
  <2> QED BY <2>2, <2>3, <2>4 DEF EngineInv
<1>2. CASE MatchNewOrder
  <2>1. PICK order \in checked :
          /\ PutBook(order.symbol, NewOrderResult(order).book, NewOrderResult(order).trades)
          /\ checked' = {}
    BY <1>2 DEF MatchNewOrder
  <2> QED BY <2>1, NewOrderResults, PutSound
<1>3. ASSUME NEW cancel \in Cancels, ProcessCancel(cancel) PROVE EngineInv'
  <2>1. checked' = checked
    BY <1>3 DEF ProcessCancel
  <2>2. PICK symbol \in DOMAIN books :
          IF cancel.order_id \in DOMAIN books[symbol].order_index
          THEN PutBook(symbol, Withdraw(books[symbol], cancel.order_id), <<>>)
          ELSE PutBook(symbol, books[symbol], <<>>)
    BY <1>3 DEF ProcessCancel
  <2>3. SoundBook(books[symbol])
    BY DEF EngineInv
  <2> QED BY <2>1, <2>2, <2>3, WithdrawResult, PutSound
<1>4. ASSUME NEW replace \in Replaces, ProcessReplace(replace) PROVE EngineInv'
  <2>1. checked' = checked
    BY <1>4 DEF ProcessReplace
  <2>2. /\ Replaceable(replace)
        /\ PutBook(replace.symbol, ReplaceResult(replace).book, ReplaceResult(replace).trades)
    BY <1>4 DEF ProcessReplace
  <2> QED BY <2>1, <2>2, ReplaceResults, PutSound
<1>5. ASSUME NEW replace \in Replaces, ReplaceUnknown(replace) PROVE EngineInv'
  <2>1. /\ checked' = checked /\ replace.symbol \in DOMAIN books
        /\ PutBook(replace.symbol, books[replace.symbol], <<>>)
    BY <1>5 DEF ReplaceUnknown
  <2>2. SoundBook(books[replace.symbol])
    BY <2>1 DEF EngineInv
  <2> QED BY <2>1, <2>2, PutSound
<1>6. CASE /\ UNCHANGED books /\ checked' \subseteq checked \cup NewOrders
           /\ \A o \in checked' \ checked : o.symbol \in DOMAIN books
  BY <1>6 DEF EngineInv
<1>7. CASE \E order \in NewOrders : CheckNewOrder(order)
  BY <1>6, <1>7 DEF CheckNewOrder
<1>8. CASE (\E t \in TraderId : SwitchTrader(t)) \/ SwitchAll
  BY <1>6, <1>8 DEF SwitchTrader, SwitchAll
<1>9. CASE UNCHANGED vars
  BY <1>6, <1>9 DEF vars
<1> QED BY <1>1, <1>2, <1>3, <1>4, <1>5, <1>7, <1>8, <1>9 DEF Next

----------------------------------------------------------------------------
(* The risk engine's positions. *)

\* The risk engine has a state with positions for every trader.
KnowsTraders(states) ==
  \A t \in TraderId :
    /\ t \in DOMAIN states /\ "positions" \in DOMAIN states[t]
    /\ states[t].positions \in [Symbol -> Int]

RiskInv == EngineInv /\ KnowsTraders(trader_states) /\ taken \in Totals /\ RiskSeesNewOrders

\* No operation but on_fill touches positions.
KeepsPositions ==
  \A t \in TraderId :
    /\ t \in DOMAIN trader_states' /\ "positions" \in DOMAIN trader_states'[t]
    /\ trader_states'[t].positions = trader_states[t].positions

\* Operations that leave positions, books and totals alone keep the accounts.
LEMMA KeptPositions ==
  ASSUME RiskInv, EngineInv', KeepsPositions, taken' = taken
  PROVE  RiskInv'
<1>1. KnowsTraders(trader_states)'
  BY DEF RiskInv, KnowsTraders, KeepsPositions
<1>2. RiskSeesNewOrders'
  BY DEF RiskInv, RiskSeesNewOrders, KeepsPositions
<1> QED BY <1>1, <1>2 DEF RiskInv

\* The first k trades of an operation, if they are all of one incoming trader.
LEMMA OneTaker ==
  ASSUME NEW trades \in Seq(Book!Trade), NEW who,
         \A i \in DOMAIN trades : trades[i].incoming_trader = who, NEW t
  PROVE  Got("incoming", trades, t, Len(trades)) = IF t = who THEN Printed(trades) ELSE 0
<1> DEFINE n == Len(trades)
           f == Shares("incoming", trades, t)
           g == [i \in DOMAIN trades |-> trades[i].qty]
<1>1. n \in Nat /\ DOMAIN trades = 1..n /\ \A i \in 1..n : trades[i] \in Book!Trade
  OBVIOUS
<1>2. IsFiniteSet(1..n)
  BY <1>1, FS_Interval
<1>3. \A i \in 1..n : f[i] = IF t = who THEN g[i] ELSE 0
  BY <1>1 DEF Shares, Party
<1>4. Printed(trades) = SumOver(g, 1..n) /\ Got("incoming", trades, t, n) = SumOver(f, 1..n)
  BY <1>1 DEF Printed, Got
<1> HIDE DEF f, g, n
<1>5. CASE t = who
  <2>1. SumOver(f, 1..n) = SumOver(g, 1..n)
    BY <1>2, <1>3, <1>5, SumSame
  <2> QED BY <1>4, <1>5, <2>1 DEF n
<1>6. CASE t # who
  <2>1. SumOver(f, 1..n) = 0
    BY <1>2, <1>3, <1>6, SumZero
  <2> QED BY <1>4, <1>6, <2>1 DEF n
<1> QED BY <1>5, <1>6

\* What Settle does with the trades of an operation.
LEMMA SettleLemma ==
  ASSUME NEW totals \in Totals, NEW symbol \in Symbol, NEW side, NEW trades \in Seq(Book!Trade)
  PROVE  /\ Adds(Settle(totals, symbol, trades, Incoming, side),
                 "incoming", symbol, side, totals, trades)
         /\ Adds(Settle(totals, symbol, trades, Resting, side),
                 "resting", symbol, side, totals, trades)
<1>1. Len(trades) \in Nat /\ DOMAIN trades = 1..Len(trades)
  OBVIOUS
<1>2. PICK a : /\ Pass(a, "incoming", symbol, side, totals, trades)
               /\ Settle(totals, symbol, trades, Incoming, side) = a[Len(trades)]
  BY <1>1, SettlePasses
<1>3. PICK b : /\ Pass(b, "resting", symbol, side, totals, trades)
               /\ Settle(totals, symbol, trades, Resting, side) = b[Len(trades)]
  BY <1>1, SettlePasses
<1>4. "incoming" \in {"incoming", "resting"} /\ "resting" \in {"incoming", "resting"}
  OBVIOUS
<1>5. Adds(a[Len(trades)], "incoming", symbol, side, totals, trades)
  BY <1>2, <1>4, SettleAdds
<1>6. Adds(b[Len(trades)], "resting", symbol, side, totals, trades)
  BY <1>3, <1>4, SettleAdds
<1> QED BY <1>2, <1>3, <1>5, <1>6

\* Nothing, on either side, is nothing.
LEMMA NoneSigned == \A side : Signed(side, 0) = 0
<1>1. \A k, m \in Int : k + m = 0 => -k = m
  OBVIOUS
<1>2. 0 \in Int /\ 0 + 0 = 0
  OBVIOUS
<1>3. -0 = 0
  BY <1>1, <1>2, Zenon
<1> QED BY <1>3, Zenon DEF Signed

\* process_new_order tells the risk engine the sum of what the trades said.
LEMMA NewOrderRisk ==
  ASSUME RiskInv, MatchNewOrder
  PROVE  RiskInv'
<1>1. EngineInv'
  BY NextEngine DEF RiskInv, Next
<1>2. PICK order \in checked :
        /\ IF NewOrderResult(order).report.filled_qty > 0
           THEN OnFill(order.trader_id, order.symbol, order.side,
                       NewOrderResult(order).report.filled_qty)
           ELSE UNCHANGED risk_vars
        /\ taken' = Settle(taken, order.symbol, NewOrderResult(order).trades, Incoming, order.side)
  BY DEF MatchNewOrder
<1> DEFINE r == NewOrderResult(order)
           who == order.trader_id
           symbol == order.symbol
           side == order.side
           filled == r.report.filled_qty
           trades == r.trades
<1>3. /\ trades \in Seq(Book!Trade)
      /\ \A i \in DOMAIN trades : trades[i].incoming_trader = who
      /\ filled \in Nat /\ filled = Printed(trades)
      /\ symbol \in Symbol /\ who \in TraderId /\ side \in Side
  BY NewOrderResults DEF RiskInv
<1>4. /\ IF filled > 0 THEN OnFill(who, symbol, side, filled) ELSE UNCHANGED risk_vars
      /\ taken' = Settle(taken, symbol, trades, Incoming, side)
  BY <1>2
<1> HIDE DEF r, who, symbol, side, filled, trades
<1> DEFINE q == Signed(side, filled)
           d(t, s) == IF t = who /\ s = symbol THEN q ELSE 0
<1>5. q \in Int /\ (filled = 0 => q = 0)
  BY <1>3 DEF Signed
<1>6. taken' \in Totals /\ \A t \in TraderId, s \in Symbol : taken'[t][s] = taken[t][s] + d(t, s)
  <2>1. ASSUME NEW t \in TraderId, NEW s \in Symbol
        PROVE  Share("incoming", side, symbol, trades, t, s, Len(trades)) = d(t, s)
    <3>1. Got("incoming", trades, t, Len(trades)) = IF t = who THEN filled ELSE 0
      BY <1>3, OneTaker
    <3>2. Signed(side, 0) = 0
      BY NoneSigned
    <3> QED BY <3>1, <3>2 DEF Share
  <2>2. Adds(taken', "incoming", symbol, side, taken, trades)
    BY <1>3, <1>4, SettleLemma DEF RiskInv
  <2> HIDE DEF d
  <2> QED BY <2>1, <2>2 DEF Adds
<1>7. /\ KnowsTraders(trader_states')
      /\ \A t \in TraderId, s \in Symbol :
           trader_states'[t].positions[s] = trader_states[t].positions[s] + d(t, s)
  <2>1. CASE filled > 0
    <3> DEFINE x == trader_states[who].positions[symbol] + q
               z == trader_states[who].net_position + q
    <3>1. trader_states' =
            [trader_states EXCEPT ![who].positions[symbol] = @ + q, ![who].net_position = @ + q]
      BY <1>4, <2>1 DEF OnFill
    <3>2. KnowsTraders(trader_states)
      BY DEF RiskInv
    <3> HIDE DEF q
    <3>3. /\ trader_states[who].positions \in [Symbol -> Int] /\ x \in Int
          /\ who \in DOMAIN trader_states /\ "positions" \in DOMAIN trader_states[who]
      BY <1>3, <1>5, <3>2 DEF KnowsTraders
    <3>4. /\ DOMAIN trader_states' = DOMAIN trader_states
          /\ DOMAIN trader_states'[who] = DOMAIN trader_states[who]
          /\ trader_states'[who].positions = [trader_states[who].positions EXCEPT ![symbol] = x]
          /\ \A t \in TraderId : t # who => trader_states'[t] = trader_states[t]
      <4> HIDE DEF z
      <4>1. trader_states' =
              [trader_states EXCEPT ![who] =
                 [trader_states[who] EXCEPT
                    !.positions = [trader_states[who].positions EXCEPT ![symbol] = x],
                    !.net_position = z]]
        BY <3>1, <3>3 DEF z
      <4> HIDE DEF x
      <4> QED BY <3>2, <3>3, <4>1 DEF KnowsTraders
    <3>5. KnowsTraders(trader_states')
      BY <3>2, <3>3, <3>4 DEF KnowsTraders
    <3>6. ASSUME NEW t \in TraderId, NEW s \in Symbol
          PROVE  trader_states'[t].positions[s] = trader_states[t].positions[s] + d(t, s)
      <4>1. trader_states[t].positions[s] \in Int
        BY <3>2 DEF KnowsTraders
      <4>2. CASE t = who
        BY <1>3, <3>3, <3>4, <4>1, <4>2
      <4>3. CASE t # who
        BY <3>4, <4>1, <4>3
      <4> QED BY <4>2, <4>3
    <3> QED BY <3>5, <3>6
  <2>2. CASE ~(filled > 0)
    <3>1. trader_states' = trader_states /\ q = 0
      BY <1>3, <1>4, <1>5, <2>2 DEF risk_vars
    <3>2. \A t \in TraderId, s \in Symbol : trader_states[t].positions[s] \in Int
      BY DEF RiskInv, KnowsTraders
    <3> HIDE DEF q
    <3> QED BY <3>1, <3>2 DEF RiskInv
  <2> QED BY <2>1, <2>2
<1> HIDE DEF d
<1>8. RiskSeesNewOrders'
  BY <1>6, <1>7 DEF RiskInv, RiskSeesNewOrders
<1> QED BY <1>1, <1>6, <1>7, <1>8 DEF RiskInv

\* Every operation of the session keeps the accounts of the risk engine.
LEMMA NextRisk == RiskInv /\ [Next]_vars => RiskInv'
<1> SUFFICES ASSUME RiskInv, [Next]_vars PROVE RiskInv'
  OBVIOUS
<1>1. EngineInv'
  BY NextEngine DEF RiskInv
<1>2. KnowsTraders(trader_states)
  BY DEF RiskInv
<1>3. CASE UNCHANGED <<trader_states, taken>>
  <2>1. KeepsPositions
    BY <1>2, <1>3 DEF KnowsTraders, KeepsPositions
  <2> QED BY <1>1, <1>3, <2>1, KeptPositions
<1>4. ASSUME NEW order \in NewOrders, CheckNewOrder(order) PROVE RiskInv'
  <2>1. PICK v : trader_states' = trader_states \/
                 trader_states' = [trader_states EXCEPT ![order.trader_id].order_timestamps = v]
    BY <1>4 DEF CheckNewOrder, CheckOrder
  <2>2. KeepsPositions
    BY <1>2, <2>1 DEF KnowsTraders, KeepsPositions
  <2> QED BY <1>1, <1>4, <2>2, KeptPositions DEF CheckNewOrder
<1>5. ASSUME NEW t \in TraderId, SwitchTrader(t) PROVE RiskInv'
  <2>1. PICK v : trader_states' = [trader_states EXCEPT ![t].killed = v]
    BY <1>5 DEF SwitchTrader, KillTrader, UnkillTrader
  <2>2. KeepsPositions
    BY <1>2, <2>1 DEF KnowsTraders, KeepsPositions
  <2> QED BY <1>1, <1>5, <2>2, KeptPositions DEF SwitchTrader
<1>6. CASE SwitchAll
  <2>1. \/ trader_states' = trader_states
        \/ trader_states' = [t \in TraderId |-> [trader_states[t] EXCEPT !.killed = FALSE]]
    BY <1>6 DEF SwitchAll, KillAll, UnkillAll
  <2>2. KeepsPositions
    BY <1>2, <2>1 DEF KnowsTraders, KeepsPositions
  <2> QED BY <1>1, <1>6, <2>2, KeptPositions DEF SwitchAll
<1>7. CASE \E symbol \in Symbol : AddSymbol(symbol)
  BY <1>3, <1>7 DEF AddSymbol, risk_vars
<1>8. CASE \E cancel \in Cancels : ProcessCancel(cancel)
  BY <1>3, <1>8 DEF ProcessCancel, risk_vars
<1>9. CASE \E replace \in Replaces : ProcessReplace(replace) \/ ReplaceUnknown(replace)
  BY <1>3, <1>9 DEF ProcessReplace, ReplaceUnknown, risk_vars
<1>10. CASE UNCHANGED vars
  BY <1>3, <1>10 DEF vars, risk_vars
<1> QED BY <1>4, <1>5, <1>6, <1>7, <1>8, <1>9, <1>10, NewOrderRisk DEF Next

\* What every sequence of orders, requests and switches leaves in the risk
\* engine's positions is the sum of what the trades of new orders said, although
\* the engine hears of reports only and the report of a killed order says zero.
THEOREM RiskHearsOfTrades == SessionSpec => []RiskSeesNewOrders
<1>1. SessionInit => RiskInv
  <2> SUFFICES ASSUME SessionInit PROVE RiskInv
    OBVIOUS
  <2>1. /\ books = <<>> /\ checked = {} /\ taken = Nothing
        /\ trader_states = [t \in TraderId |-> NewTrader]
    BY DEF SessionInit, Init, RiskInit
  <2>2. EngineInv
    BY <2>1 DEF EngineInv
  <2>3. KnowsTraders(trader_states) /\ taken \in Totals /\ RiskSeesNewOrders
    BY <2>1 DEF KnowsTraders, Totals, Nothing, NewTrader, RiskSeesNewOrders
  <2> QED BY <2>2, <2>3 DEF RiskInv
<1>2. RiskInv /\ [SessionNext]_session_vars => RiskInv'
  BY NextRisk, SessionStep
<1>3. RiskInv => RiskSeesNewOrders
  BY DEF RiskInv
<1> QED BY <1>1, <1>2, <1>3, PTL DEF SessionSpec
----------------------------------------------------------------------------
(* The trade engine's positions. *)

\* The map has a net quantity for each of its keys, which are traders with symbols.
HasNets(all) ==
  /\ DOMAIN all \subseteq TraderId \X Symbol
  /\ \A key \in DOMAIN all : "net_qty" \in DOMAIN all[key] /\ all[key].net_qty \in Int

NetOf(all, t, s) == IF <<t, s>> \in DOMAIN all THEN all[<<t, s>>].net_qty ELSE 0

\* What the traders have of a symbol.
Nets(all, s) == [t \in TraderId |-> NetOf(all, t, s)]

\* u has what all has, and for one trader q more of one symbol.
Moved(u, all, who, symbol, q) ==
  /\ HasNets(u)
  /\ \A t \in TraderId, s \in Symbol :
       NetOf(u, t, s) = NetOf(all, t, s) + (IF t = who /\ s = symbol THEN q ELSE 0)
  /\ \A s \in Symbol :
       SumOver(Nets(u, s), TraderId) =
         SumOver(Nets(all, s), TraderId) + (IF s = symbol THEN q ELSE 0)

\* Whatever is opened, closed or realised, a fill moves the net quantity by itself.
LEMMA UpdateNet ==
  ASSUME NEW pos, "net_qty" \in DOMAIN pos, NEW side, NEW qty, NEW price
  PROVE  LET u == update_position(pos, side, qty, price)
         IN  DOMAIN u = DOMAIN pos /\ u.net_qty = pos.net_qty + Signed(side, qty)
<1> DEFINE q == IF side = "Buy" THEN qty ELSE -qty
           held   == Held(pos, side)
           closed == IF held < 0 THEN LesserOf(qty, -held) ELSE 0
           gained == Plus(pos.realized_pnl, Times(closed, Gain(Opposite(side),
                       AveragePrice(pos, Opposite(side)), <<price, 1>>)))
           old    == pos.opened[side]
           opens  == IF held >= 0 THEN [qty |-> old.qty + qty, cost |-> old.cost + qty * price]
                                  ELSE old
<1>1. update_position(pos, side, qty, price) =
        [pos EXCEPT !.net_qty = @ + q, !.realized_pnl = gained, !.opened[side] = opens]
  BY DEF update_position
<1>2. Signed(side, qty) = q
  BY DEF Signed
<1> HIDE DEF q, gained, opens
<1> QED BY <1>1, <1>2

\* The entry that positions_[key] makes has nothing.
LEMMA UpdatedNet ==
  ASSUME NEW all, HasNets(all), NEW who \in TraderId, NEW symbol \in Symbol,
         NEW side, NEW qty \in Int, NEW price, IsFiniteSet(TraderId)
  PROVE  Moved(Updated(all, <<who, symbol>>, side, qty, price), all, who, symbol, Signed(side, qty))
<1> DEFINE key == <<who, symbol>>
           u == Updated(all, key, side, qty, price)
           q == Signed(side, qty)
           pos == IF key \in DOMAIN all THEN all[key] ELSE NoPosition
           new == update_position(pos, side, qty, price)
<1>1. q \in Int
  BY DEF Signed
<1>2. /\ "net_qty" \in DOMAIN pos /\ pos.net_qty = NetOf(all, who, symbol)
      /\ pos.net_qty \in Int
  BY DEF HasNets, NetOf, NoPosition
<1>3. u = [k \in DOMAIN all \cup {key} |-> IF k = key THEN new ELSE all[k]]
  BY DEF Updated
<1> HIDE DEF pos, u
<1>4. "net_qty" \in DOMAIN new /\ new.net_qty = NetOf(all, who, symbol) + q
  BY <1>2, UpdateNet
<1> HIDE DEF new, q
<1>5. /\ key \in TraderId \X Symbol /\ key \in DOMAIN u /\ u[key] = new
      /\ DOMAIN u = DOMAIN all \cup {key}
      /\ \A k \in DOMAIN u : k # key => k \in DOMAIN all /\ u[k] = all[k]
  BY <1>3
<1>6. HasNets(u)
  BY <1>1, <1>2, <1>4, <1>5 DEF HasNets
<1>7. \A t \in TraderId, s \in Symbol : NetOf(all, t, s) \in Int /\ NetOf(u, t, s) \in Int
  BY <1>6 DEF HasNets, NetOf
<1>8. ASSUME NEW t \in TraderId, NEW s \in Symbol
      PROVE  NetOf(u, t, s) = NetOf(all, t, s) + (IF t = who /\ s = symbol THEN q ELSE 0)
  <2>1. CASE t = who /\ s = symbol
    BY <1>4, <1>5, <2>1 DEF NetOf
  <2>2. CASE ~(t = who /\ s = symbol)
    <3>1. <<t, s>> # key
      BY <2>2
    <3>2. NetOf(u, t, s) = NetOf(all, t, s)
      BY <1>5, <3>1 DEF NetOf
    <3> QED BY <1>7, <2>2, <3>2
  <2> QED BY <2>1, <2>2
<1>9. ASSUME NEW s \in Symbol
      PROVE  SumOver(Nets(u, s), TraderId) =
               SumOver(Nets(all, s), TraderId) + (IF s = symbol THEN q ELSE 0)
  <2> DEFINE f == Nets(all, s)
             g == Nets(u, s)
             S == TraderId
  <2>1. \A t \in S : f[t] = NetOf(all, t, s) /\ g[t] = NetOf(u, t, s)
    BY DEF Nets
  <2>2. \A t \in S : f[t] \in Int /\ g[t] \in Int
    BY <1>7, <2>1
  <2>3. \A t \in S : g[t] = f[t] + (IF t = who /\ s = symbol THEN q ELSE 0)
    BY <1>8, <2>1
  <2>4. SumOver(f, S) \in Int
    BY <2>2, SumType
  <2> HIDE DEF f, g
  <2>5. \A t \in S : t # who => f[t] = g[t]
    BY <2>2, <2>3
  <2>6. SumOver(g, S) = SumOver(f, S) + (g[who] - f[who])
    BY <2>2, <2>5, SumUpdate
  <2>7. g[who] - f[who] = IF s = symbol THEN q ELSE 0
    BY <1>1, <2>2, <2>3
  <2> QED BY <2>6, <2>7 DEF f, g
<1> QED BY <1>6, <1>8, <1>9 DEF Moved, u, q

\* What one party of a trade wins of the symbol, the other loses.
LEMMA OppositeSigned ==
  ASSUME NEW side \in Side, NEW qty \in Int
  PROVE  /\ Signed(side, qty) \in Int /\ Signed(Opposite(side), qty) \in Int
         /\ Signed(side, qty) + Signed(Opposite(side), qty) = 0
BY DEF Signed, Opposite, Side

\* A trade moves both parties, and all traders together not at all.
LEMMA TradeNet ==
  ASSUME NEW all, HasNets(all), NEW symbol \in Symbol, NEW side \in Side,
         NEW trade \in Book!Trade, IsFiniteSet(TraderId)
  PROVE  LET u == process_trade(all, symbol, side, trade)
         IN  /\ HasNets(u)
             /\ \A t \in TraderId, s \in Symbol :
                  NetOf(u, t, s) =
                    NetOf(all, t, s)
                      + (IF t = trade.incoming_trader /\ s = symbol
                         THEN Signed(side, trade.qty) ELSE 0)
                      + (IF t = trade.resting_trader /\ s = symbol
                         THEN Signed(Opposite(side), trade.qty) ELSE 0)
             /\ \A s \in Symbol : SumOver(Nets(u, s), TraderId) = SumOver(Nets(all, s), TraderId)
<1> DEFINE in  == trade.incoming_trader
           out == trade.resting_trader
           qty == trade.qty
           mid == Updated(all, <<in, symbol>>, side, qty, trade.price)
           u   == Updated(mid, <<out, symbol>>, Opposite(side), qty, trade.price)
<1>1. in \in TraderId /\ out \in TraderId /\ qty \in Int
  BY DEF Book!Trade
<1>2. u = process_trade(all, symbol, side, trade)
  BY DEF process_trade
<1> HIDE DEF in, out, qty
<1>3. Moved(mid, all, in, symbol, Signed(side, qty))
  BY <1>1, UpdatedNet
<1> HIDE DEF mid
<1>4. Moved(u, mid, out, symbol, Signed(Opposite(side), qty))
  <2>1. HasNets(mid)
    BY <1>3 DEF Moved
  <2> QED BY <1>1, <2>1, UpdatedNet
<1> HIDE DEF u
<1>5. HasNets(u)
  BY <1>4 DEF Moved
<1>6. ASSUME NEW t \in TraderId, NEW s \in Symbol
      PROVE  NetOf(u, t, s) = NetOf(all, t, s)
               + (IF t = in /\ s = symbol THEN Signed(side, qty) ELSE 0)
               + (IF t = out /\ s = symbol THEN Signed(Opposite(side), qty) ELSE 0)
  BY <1>3, <1>4 DEF Moved
<1>7. ASSUME NEW s \in Symbol
      PROVE  SumOver(Nets(u, s), TraderId) = SumOver(Nets(all, s), TraderId)
  <2> DEFINE a == SumOver(Nets(all, s), TraderId)
             b == SumOver(Nets(mid, s), TraderId)
             c == SumOver(Nets(u, s), TraderId)
             d == Signed(side, qty)
             e == Signed(Opposite(side), qty)
  <2>1. a \in Int
    <3>1. \A t \in TraderId : Nets(all, s)[t] \in Int
      BY DEF Nets, NetOf, HasNets
    <3> QED BY <3>1, SumType
  <2>2. b = a + (IF s = symbol THEN d ELSE 0) /\ c = b + (IF s = symbol THEN e ELSE 0)
    BY <1>3, <1>4 DEF Moved
  <2>3. d \in Int /\ e \in Int /\ d + e = 0
    BY <1>1, OppositeSigned
  <2> HIDE DEF a, b, c, d, e
  <2>4. c = a
    BY <2>1, <2>2, <2>3
  <2> QED BY <2>4 DEF a, c
<1> QED BY <1>2, <1>5, <1>6, <1>7 DEF in, out, qty

\* The next trade adds to a trader's share what it says of that trader.
LEMMA ShareStep ==
  ASSUME NEW account, NEW side, NEW symbol, NEW trades \in Seq(Book!Trade),
         NEW k \in 0..(Len(trades) - 1), NEW t, NEW s
  PROVE  /\ Share(account, side, symbol, trades, t, s, k) \in Int
         /\ Share(account, side, symbol, trades, t, s, k + 1) =
              Share(account, side, symbol, trades, t, s, k)
                + (IF t = Party(account, trades[k + 1]) /\ s = symbol
                   THEN Signed(side, trades[k + 1].qty) ELSE 0)
<1> DEFINE tr  == trades[k + 1]
           who == Party(account, tr)
           g   == Got(account, trades, t, k)
           h   == Got(account, trades, t, k + 1)
<1>1. tr.qty \in Nat
  <2>1. tr \in Book!Trade
    OBVIOUS
  <2> QED BY <2>1 DEF Book!Trade
<1>2. g \in Int /\ h = g + (IF who = t THEN tr.qty ELSE 0)
  <2>1. /\ \A j \in 0..Len(trades) : Got(account, trades, t, j) \in Int
        /\ \A j \in 0..(Len(trades) - 1) :
             Got(account, trades, t, j + 1) =
               Got(account, trades, t, j)
                 + (IF Party(account, trades[j + 1]) = t THEN trades[j + 1].qty ELSE 0)
    BY GotLemma
  <2> QED BY <2>1
<1> HIDE DEF g, h, tr, who
<1> QED BY <1>1, <1>2 DEF Share, Signed, g, h, tr, who

\* The positions after the trades of an operation: each trader has its share of
\* them, as aggressor on their side and as the resting party on the other.
TookPart(u, all, symbol, side, trades, k) ==
  /\ HasNets(u)
  /\ \A t \in TraderId, s \in Symbol :
       NetOf(u, t, s) =
         NetOf(all, t, s) + Share("incoming", side, symbol, trades, t, s, k)
           + Share("resting", Opposite(side), symbol, trades, t, s, k)
  /\ \A s \in Symbol : SumOver(Nets(u, s), TraderId) = SumOver(Nets(all, s), TraderId)

LEMMA PositionsAdd ==
  ASSUME NEW all, HasNets(all), NEW symbol \in Symbol, NEW side \in Side,
         NEW trades \in Seq(Book!Trade), IsFiniteSet(TraderId),
         NEW a, Pass(a, "positions", symbol, side, all, trades)
  PROVE  TookPart(a[Len(trades)], all, symbol, side, trades, Len(trades))
<1> DEFINE n == Len(trades)
           T == {k \in Nat : k <= n => TookPart(a[k], all, symbol, side, trades, k)}
<1>1. n \in Nat /\ \A i \in 1..n : trades[i] \in Book!Trade
  OBVIOUS
<1>2. \A t \in TraderId, s \in Symbol : NetOf(all, t, s) \in Int
  BY DEF NetOf, HasNets
<1>3. 0 \in T
  <2>1. \A account, sd, t, s : Share(account, sd, symbol, trades, t, s, 0) = 0
    BY GotLemma, NoneSigned DEF Share
  <2>2. a[0] = all
    BY DEF Pass
  <2> QED BY <1>2, <2>1, <2>2 DEF TookPart
<1>4. ASSUME NEW k \in Nat, k \in T PROVE k + 1 \in T
  <2> SUFFICES ASSUME k + 1 <= n
               PROVE  TookPart(a[k + 1], all, symbol, side, trades, k + 1)
    OBVIOUS
  <2> DEFINE tr == trades[k + 1]
             x == a[k]
             y == a[k + 1]
  <2>1. TookPart(x, all, symbol, side, trades, k)
    BY <1>1, <1>4
  <2>2. k \in 0..(n - 1) /\ tr \in Book!Trade
    BY <1>1
  <2>3. y = process_trade(x, symbol, side, tr)
    BY <2>2 DEF Pass, Effect
  <2>4. HasNets(x)
    BY <2>1 DEF TookPart
  <2> HIDE DEF x, y, tr
  <2>5. /\ HasNets(y)
        /\ \A t \in TraderId, s \in Symbol :
             NetOf(y, t, s) =
               NetOf(x, t, s)
                 + (IF t = tr.incoming_trader /\ s = symbol THEN Signed(side, tr.qty) ELSE 0)
                 + (IF t = tr.resting_trader /\ s = symbol
                    THEN Signed(Opposite(side), tr.qty) ELSE 0)
        /\ \A s \in Symbol : SumOver(Nets(y, s), TraderId) = SumOver(Nets(x, s), TraderId)
    BY <2>2, <2>3, <2>4, TradeNet
  <2>6. ASSUME NEW t \in TraderId, NEW s \in Symbol
        PROVE  NetOf(y, t, s) =
                 NetOf(all, t, s) + Share("incoming", side, symbol, trades, t, s, k + 1)
                   + Share("resting", Opposite(side), symbol, trades, t, s, k + 1)
    <3> DEFINE i == Share("incoming", side, symbol, trades, t, s, k)
               j == Share("incoming", side, symbol, trades, t, s, k + 1)
               v == Share("resting", Opposite(side), symbol, trades, t, s, k)
               w == Share("resting", Opposite(side), symbol, trades, t, s, k + 1)
               d == IF t = tr.incoming_trader /\ s = symbol THEN Signed(side, tr.qty) ELSE 0
               e == IF t = tr.resting_trader /\ s = symbol
                    THEN Signed(Opposite(side), tr.qty) ELSE 0
    <3>1. Party("incoming", tr) = tr.incoming_trader /\ Party("resting", tr) = tr.resting_trader
      BY DEF Party
    <3>2. i \in Int /\ j = i + d
      BY <2>2, <3>1, ShareStep DEF tr
    <3>3. v \in Int /\ w = v + e
      BY <2>2, <3>1, ShareStep DEF tr
    <3>4. d \in Int /\ e \in Int
      <4>1. tr.qty \in Int
        BY <2>2 DEF Book!Trade
      <4>2. Signed(side, tr.qty) \in Int /\ Signed(Opposite(side), tr.qty) \in Int
        BY <4>1, OppositeSigned
      <4> QED BY <4>2
    <3>5. NetOf(x, t, s) = NetOf(all, t, s) + i + v /\ NetOf(y, t, s) = NetOf(x, t, s) + d + e
      BY <2>1, <2>5 DEF TookPart
    <3>6. NetOf(all, t, s) \in Int
      BY <1>2
    <3> HIDE DEF i, j, v, w, d, e
    <3>7. NetOf(y, t, s) = NetOf(all, t, s) + j + w
      BY <3>2, <3>3, <3>4, <3>5, <3>6
    <3> QED BY <3>7 DEF j, w
  <2>7. \A s \in Symbol : SumOver(Nets(y, s), TraderId) = SumOver(Nets(all, s), TraderId)
    BY <2>1, <2>5 DEF TookPart
  <2> QED BY <2>5, <2>6, <2>7 DEF TookPart, y
<1>5. Nat \subseteq T
  <2> HIDE DEF T
  <2> QED BY <1>3, <1>4, NatLemma
<1>6. n \in T
  BY <1>1, <1>5
<1> QED BY <1>1, <1>6

----------------------------------------------------------------------------
(* The accounts of the trade engine, through every operation of a session. *)

\* positions has the trades of new orders and all others, given and taken.
Accounts(all, took, gave) ==
  \A s \in Symbol :
    /\ \A t \in TraderId : NetOf(all, t, s) = took[t][s] + gave[t][s]
    /\ SumOver(Nets(all, s), TraderId) = 0

PositionInv ==
  /\ EngineInv
  /\ \A o, other \in checked : o = other
  /\ HasNets(positions) /\ taken \in Totals /\ given \in Totals
  /\ Accounts(positions, taken, given)

\* The two ways of writing what all traders have of a symbol agree.
LEMMA AllTradersNet ==
  ASSUME IsFiniteSet(TraderId), NEW s
  PROVE  MapThenSumSet(LAMBDA t : NetQty(t, s), TraderId) = SumOver(Nets(positions, s), TraderId)
<1> DEFINE D  == TraderId
           f  == Nets(positions, s)
           ch == AnyChoice(D)
           OfTheSum(it) ==
             it = [r \in SUBSET D |->
                     IF r = {} THEN 0 ELSE NetQty(Chosen(r), s) + it[r \ {Chosen(r)}]]
           total == MapThenSumSet(LAMBDA t : NetQty(t, s), TraderId)
<1>1. total = (CHOOSE it : OfTheSum(it))[D]
  BY DEF MapThenSumSet, MapThenFoldSet, Chosen
<1>2. \A r \in SUBSET D : r # {} =>
        ch[r] = Chosen(r) /\ Chosen(r) \in r /\ f[ch[r]] = NetQty(Chosen(r), s)
  BY DEF AnyChoice, Chosen, Nets, NetOf, NetQty
<1>3. Choice(ch, D) /\ SameChoice(ch, ch, D) /\ IsFiniteSet(D)
  BY <1>2 DEF Choice, SameChoice
<1> HIDE DEF f, D, total
<1>4. PICK jt : SumsOn(jt, f, ch, SUBSET D) /\ SumOver(f, D) = jt[D]
  BY <1>3, SumIsFold
<1> HIDE DEF ch
<1>5. \A it : OfTheSum(it) <=> SumsOn(it, f, ch, SUBSET D)
  BY <1>2 DEF SumsOn
<1> HIDE DEF OfTheSum
<1>6. PICK it : SumsOn(it, f, ch, SUBSET D) /\ total = it[D]
  <2>1. OfTheSum(CHOOSE it : OfTheSum(it))
    BY <1>4, <1>5
  <2> QED BY <1>1, <1>5, <2>1
<1>7. \A r \in SUBSET D : it[r] = jt[r]
  BY <1>3, <1>4, <1>6, SumsUnique
<1> QED BY <1>4, <1>6, <1>7 DEF f, D, total

\* The callbacks add to the positions what Settle adds to the totals.
LEMMA CallbacksAdd ==
  ASSUME PositionInv, NEW symbol \in Symbol, NEW side \in Side, NEW trades \in Seq(Book!Trade),
         IsFiniteSet(TraderId), Callbacks(symbol, side, trades)
  PROVE  TookPart(positions', positions, symbol, side, trades, Len(trades))
<1>1. Len(trades) \in Nat /\ DOMAIN trades = 1..Len(trades)
  OBVIOUS
<1>2. positions' = AllProcessed(positions, symbol, side, trades)
  BY DEF Callbacks, AllProcessed, FoldLeft, MapThenFoldSet
<1>3. PICK a : /\ Pass(a, "positions", symbol, side, positions, trades)
               /\ positions' = a[Len(trades)]
  BY <1>1, <1>2, PositionsPasses
<1> QED BY <1>3, PositionsAdd DEF PositionInv

\* The accounts agree after trades that were given to both sides of them.
LEMMA AccountsAdd ==
  ASSUME PositionInv, NEW symbol \in Symbol, NEW side \in Side, NEW trades \in Seq(Book!Trade),
         IsFiniteSet(TraderId), TookPart(positions', positions, symbol, side, trades, Len(trades)),
         taken' \in Totals, given' \in Totals,
         \A t \in TraderId, s \in Symbol :
           taken'[t][s] + given'[t][s] =
             taken[t][s] + given[t][s]
               + Share("incoming", side, symbol, trades, t, s, Len(trades))
               + Share("resting", Opposite(side), symbol, trades, t, s, Len(trades))
  PROVE  HasNets(positions') /\ Accounts(positions', taken', given')
<1>1. ASSUME NEW t \in TraderId, NEW s \in Symbol
      PROVE  NetOf(positions', t, s) = taken'[t][s] + given'[t][s]
  <2>1. NetOf(positions, t, s) = taken[t][s] + given[t][s]
    BY DEF PositionInv, Accounts
  <2> QED BY <2>1 DEF TookPart
<1>2. \A s \in Symbol : SumOver(Nets(positions', s), TraderId) = 0
  BY DEF TookPart, PositionInv, Accounts
<1>3. HasNets(positions')
  BY DEF TookPart
<1> QED BY <1>1, <1>2, <1>3 DEF Accounts

\* A share is a whole quantity.
LEMMA ShareType ==
  ASSUME NEW account, NEW side, NEW symbol, NEW trades \in Seq(Book!Trade), NEW t, NEW s
  PROVE  Share(account, side, symbol, trades, t, s, Len(trades)) \in Int
<1>1. Len(trades) \in 0..Len(trades)
  OBVIOUS
<1>2. Got(account, trades, t, Len(trades)) \in Int
  BY <1>1, GotLemma
<1> QED BY <1>2 DEF Share, Signed

\* The operation that published trades kept the books and left no order between
\* check and match, or left checked alone.
LEMMA TradeNewOrderKeeps ==
  ASSUME PositionInv, TradeNewOrder, IsFiniteSet(TraderId)
  PROVE  PositionInv'
<1>1. EngineInv'
  BY NextEngine DEF PositionInv, TradeNewOrder, Next
<1>2. PICK order \in checked :
        Callbacks(order.symbol, order.side, NewOrderResult(order).trades)
  BY DEF TradeNewOrder
<1> DEFINE symbol == order.symbol
           side   == order.side
           trades == NewOrderResult(order).trades
<1>3. /\ checked' = {}
      /\ taken' = Settle(taken, symbol, trades, Incoming, side)
      /\ given' = Settle(given, symbol, trades, Resting, Opposite(side))
  BY DEF PositionInv, TradeNewOrder, MatchNewOrder
<1>4. trades \in Seq(Book!Trade) /\ symbol \in Symbol /\ side \in Side
  BY NewOrderResults DEF PositionInv
<1> HIDE DEF symbol, side, trades
<1>5. TookPart(positions', positions, symbol, side, trades, Len(trades))
  BY <1>2, <1>4, CallbacksAdd DEF symbol, side, trades
<1>6. Adds(taken', "incoming", symbol, side, taken, trades)
  BY <1>3, <1>4, SettleLemma DEF PositionInv
<1>7. Adds(given', "resting", symbol, Opposite(side), given, trades)
  BY <1>3, <1>4, SettleLemma DEF PositionInv
<1>8. taken' \in Totals /\ given' \in Totals
  BY <1>6, <1>7 DEF Adds
<1>9. ASSUME NEW t \in TraderId, NEW s \in Symbol
      PROVE  taken'[t][s] + given'[t][s] =
               taken[t][s] + given[t][s]
                 + Share("incoming", side, symbol, trades, t, s, Len(trades))
                 + Share("resting", Opposite(side), symbol, trades, t, s, Len(trades))
  <2> DEFINE i == Share("incoming", side, symbol, trades, t, s, Len(trades))
             v == Share("resting", Opposite(side), symbol, trades, t, s, Len(trades))
  <2>1. i \in Int /\ v \in Int
    BY <1>4, ShareType
  <2>2. taken[t][s] \in Int /\ given[t][s] \in Int
    BY DEF PositionInv, Totals
  <2>3. taken'[t][s] = taken[t][s] + i /\ given'[t][s] = given[t][s] + v
    BY <1>6, <1>7 DEF Adds
  <2> HIDE DEF i, v
  <2>4. taken'[t][s] + given'[t][s] = taken[t][s] + given[t][s] + i + v
    BY <2>1, <2>2, <2>3
  <2> QED BY <2>4 DEF i, v
<1>10. HasNets(positions') /\ Accounts(positions', taken', given')
  BY <1>4, <1>5, <1>8, <1>9, AccountsAdd
<1> QED BY <1>1, <1>3, <1>8, <1>10 DEF PositionInv

\* A replacement is settled with both of its parties under what was given.
LEMMA TradeReplaceKeeps ==
  ASSUME PositionInv, NEW replace \in Replaces, TradeReplace(replace), IsFiniteSet(TraderId)
  PROVE  PositionInv'
<1>1. EngineInv'
  BY NextEngine DEF PositionInv, TradeReplace, Next
<1> DEFINE symbol == replace.symbol
           side   == ReplacedSide(replace)
           trades == ReplaceResult(replace).trades
           half   == Settle(given, symbol, trades, Incoming, side)
<1>2. /\ checked' = checked /\ taken' = taken
      /\ given' = Settle(half, symbol, trades, Resting, Opposite(side))
      /\ Callbacks(symbol, side, trades)
  BY DEF TradeReplace, ProcessReplace
<1>3. trades \in Seq(Book!Trade) /\ symbol \in Symbol /\ side \in Side
  <2>1. EngineInv /\ Replaceable(replace)
    BY DEF PositionInv, TradeReplace, ProcessReplace
  <2> QED BY <2>1, ReplaceResults
<1> HIDE DEF symbol, side, trades, half
<1>4. TookPart(positions', positions, symbol, side, trades, Len(trades))
  BY <1>2, <1>3, CallbacksAdd
<1>5. Adds(half, "incoming", symbol, side, given, trades)
  BY <1>3, SettleLemma DEF PositionInv, half
<1>6. Adds(given', "resting", symbol, Opposite(side), half, trades)
  <2>1. half \in Totals
    BY <1>5 DEF Adds
  <2> QED BY <1>2, <1>3, <2>1, SettleLemma
<1>7. taken' \in Totals /\ given' \in Totals
  BY <1>2, <1>6 DEF Adds, PositionInv
<1>8. ASSUME NEW t \in TraderId, NEW s \in Symbol
      PROVE  taken'[t][s] + given'[t][s] =
               taken[t][s] + given[t][s]
                 + Share("incoming", side, symbol, trades, t, s, Len(trades))
                 + Share("resting", Opposite(side), symbol, trades, t, s, Len(trades))
  <2> DEFINE i == Share("incoming", side, symbol, trades, t, s, Len(trades))
             v == Share("resting", Opposite(side), symbol, trades, t, s, Len(trades))
  <2>1. i \in Int /\ v \in Int
    BY <1>3, ShareType
  <2>2. taken[t][s] \in Int /\ given[t][s] \in Int
    BY DEF PositionInv, Totals
  <2>3. half[t][s] = given[t][s] + i /\ given'[t][s] = half[t][s] + v
    BY <1>5, <1>6 DEF Adds
  <2> HIDE DEF i, v
  <2>4. taken'[t][s] + given'[t][s] = taken[t][s] + given[t][s] + i + v
    BY <1>2, <2>1, <2>2, <2>3
  <2> QED BY <2>4 DEF i, v
<1>9. HasNets(positions') /\ Accounts(positions', taken', given')
  BY <1>3, <1>4, <1>7, <1>8, AccountsAdd
<1> QED BY <1>1, <1>2, <1>7, <1>9 DEF PositionInv

\* Marking to market values positions and leaves what they hold.
LEMMA MarkKeeps ==
  ASSUME PositionInv, NEW mark, MarkToMarket(mark)
  PROVE  PositionInv'
<1> DEFINE new == mark_to_market(positions, mark.symbol, mark.price)
<1>1. EngineInv'
  BY NextEngine DEF PositionInv, MarkToMarket
<1>2. positions' = new /\ UNCHANGED <<checked, taken, given>>
  BY DEF MarkToMarket, vars
<1>3. HasNets(positions)
  BY DEF PositionInv
<1>4. DOMAIN new = DOMAIN positions
  BY DEF mark_to_market
<1>5. ASSUME NEW key \in DOMAIN positions
      PROVE  DOMAIN new[key] = DOMAIN positions[key] /\ new[key].net_qty = positions[key].net_qty
  <2>1. PICK v : new[key] = positions[key] \/ new[key] = [positions[key] EXCEPT !.unrealized_pnl = v]
    BY DEF mark_to_market
  <2>2. "net_qty" \in DOMAIN positions[key]
    BY <1>3 DEF HasNets
  <2> HIDE DEF new
  <2> QED BY <2>1, <2>2
<1> HIDE DEF new
<1>6. HasNets(new)
  BY <1>3, <1>4, <1>5 DEF HasNets
<1>7. \A t, s : NetOf(new, t, s) = NetOf(positions, t, s)
  BY <1>4, <1>5 DEF NetOf
<1>8. \A s : Nets(new, s) = Nets(positions, s)
  BY <1>7 DEF Nets
<1>9. Accounts(new, taken, given)
  BY <1>7, <1>8 DEF Accounts, PositionInv
<1> QED BY <1>1, <1>2, <1>6, <1>9 DEF PositionInv

\* Every operation of a session keeps the accounts of the trade engine.
LEMMA NextPositions ==
  ASSUME IsFiniteSet(TraderId), PositionInv, [SessionNext]_session_vars
  PROVE  PositionInv'
<1>1. EngineInv'
  BY NextEngine, SessionStep DEF PositionInv
<1>2. ASSUME UNCHANGED <<positions, taken, given>>,
             checked' = checked \/ \E order : checked' \subseteq {order}
      PROVE  PositionInv'
  BY <1>1, <1>2 DEF PositionInv
<1>3. CASE WithoutTrade
  <2>1. UNCHANGED positions
    BY <1>3 DEF WithoutTrade
  <2>2. /\ UNCHANGED <<taken, given>>
        /\ checked' = checked \/ \E order : checked' \subseteq {order}
    BY <1>3 DEF WithoutTrade, AddSymbol, CheckNewOrder, ProcessCancel, ReplaceUnknown,
                SwitchTrader, SwitchAll
  <2> QED BY <1>2, <2>1, <2>2
<1>4. CASE UNCHANGED session_vars
  BY <1>2, <1>4 DEF session_vars, vars
<1> QED BY <1>3, <1>4, TradeNewOrderKeeps, TradeReplaceKeeps, MarkKeeps DEF SessionNext

\* Nobody has a position at first.
LEMMA SessionPositions == SessionInit => PositionInv
<1> SUFFICES ASSUME SessionInit PROVE PositionInv
  OBVIOUS
<1>1. books = <<>> /\ checked = {} /\ taken = Nothing /\ given = Nothing /\ positions = <<>>
  BY DEF SessionInit, Init
<1>2. EngineInv
  BY <1>1 DEF EngineInv
<1>3. DOMAIN positions = {}
  BY <1>1
<1>4. taken \in Totals /\ given \in Totals /\ HasNets(positions)
  BY <1>1, <1>3 DEF Totals, Nothing, HasNets
<1>5. ASSUME NEW s \in Symbol PROVE SumOver(Nets(positions, s), TraderId) = 0
  <2>1. \A t \in TraderId : Nets(positions, s)[t] = 0
    BY <1>3 DEF Nets, NetOf
  <2> QED BY <2>1, SumZero, TradersAssumption
<1>6. Accounts(positions, taken, given)
  BY <1>1, <1>3, <1>5 DEF Accounts, NetOf, Nothing
<1> QED BY <1>1, <1>2, <1>4, <1>6 DEF PositionInv

\* Whatever orders, cancels, replacements and marks follow each other, the
\* callbacks have put every trade into the positions of both its parties, and
\* no symbol is made or lost between the traders.
THEOREM TradeEngineHearsOfTrades == SessionSpec => []TradeEngineSeesAllTrades
<1>1. SessionInit => PositionInv
  BY SessionPositions
<1>2. PositionInv /\ [SessionNext]_session_vars => PositionInv'
  BY NextPositions, TradersAssumption
<1>3. PositionInv => TradeEngineSeesAllTrades
  <2> SUFFICES ASSUME PositionInv, NEW s \in Symbol
               PROVE  /\ \A t \in TraderId : NetQty(t, s) = taken[t][s] + given[t][s]
                      /\ MapThenSumSet(LAMBDA t : NetQty(t, s), TraderId) = 0
    BY DEF TradeEngineSeesAllTrades
  <2>1. \A t \in TraderId : NetQty(t, s) = taken[t][s] + given[t][s]
    BY DEF PositionInv, Accounts, NetOf, NetQty
  <2>2. SumOver(Nets(positions, s), TraderId) = 0
    BY DEF PositionInv, Accounts
  <2>3. MapThenSumSet(LAMBDA t : NetQty(t, s), TraderId) = 0
    BY <2>2, AllTradersNet, TradersAssumption
  <2> QED BY <2>1, <2>3
<1> QED BY <1>1, <1>2, <1>3, PTL DEF SessionSpec

----------------------------------------------------------------------------
(* The levels of a side in their order. *)

\* The order of a side has its prices, and a better one comes first.
LEMMA OrderLemma ==
  ASSUME NEW levels, NEW side \in Side,
         DOMAIN levels[side] \subseteq Int, IsFiniteSet(DOMAIN levels[side])
  PROVE  LET prices == InOrder(levels, side)
             D == DOMAIN levels[side]
         IN  /\ Len(prices) = Cardinality(D) /\ DOMAIN prices = 1..Cardinality(D)
             /\ Cardinality(D) \in Nat
             /\ \A i \in DOMAIN prices : prices[i] \in D
             /\ \A i, j \in DOMAIN prices : i < j => Better(side, prices[i], prices[j])
             /\ D # {} => 1 \in DOMAIN prices /\ IsBest(levels, side, prices[1])
<1>1. Book!InOrder(levels, side) = InOrder(levels, side)
  BY DEF Book!InOrder, InOrder, Book!Better, Better, Book!Cardinality, Cardinality
<1>2. \A p, q : Book!Better(side, p, q) <=> Better(side, p, q)
  BY DEF Book!Better, Better
<1>3. Book!Cardinality(DOMAIN levels[side]) = Cardinality(DOMAIN levels[side])
  BY DEF Book!Cardinality, Cardinality
<1>4. Book!IsFiniteSet(DOMAIN levels[side])
  BY DEF Book!IsFiniteSet, IsFiniteSet
<1> QED BY <1>1, <1>2, <1>3, <1>4, SameTests, Book!OrderLemma

\* A depth begins with the best level, if any level is asked for, and goes on in order.
LEMMA DepthLemma ==
  ASSUME NEW b, NEW side \in Side, NEW n \in Nat \ {0},
         DOMAIN b.levels[side] \subseteq Int, IsFiniteSet(DOMAIN b.levels[side])
  PROVE  LET levels == depth(b, side, n)
         IN  /\ BestLevel(b, side) = IF levels = <<>> THEN NoLevel ELSE Head(levels)
             /\ \A i, j \in DOMAIN levels :
                  i < j => Better(side, levels[i].price, levels[j].price)
<1> DEFINE D == DOMAIN b.levels[side]
           prices == InOrder(b.levels, side)
           m == LesserOf(n, Len(prices))
           levels == depth(b, side, n)
<1>1. /\ Len(prices) = Cardinality(D) /\ DOMAIN prices = 1..Cardinality(D)
      /\ Cardinality(D) \in Nat
      /\ \A i, j \in DOMAIN prices : i < j => Better(side, prices[i], prices[j])
      /\ D # {} => 1 \in DOMAIN prices /\ IsBest(b.levels, side, prices[1])
      /\ \A i \in DOMAIN prices : prices[i] \in D
  BY OrderLemma
<1>2. levels = [i \in 1..m |-> LevelAt(b, side, prices[i])]
  BY DEF depth
<1>3. m \in Nat /\ m <= Len(prices) /\ (Len(prices) # 0 => m >= 1)
  BY <1>1 DEF LesserOf
<1> HIDE DEF prices, m, levels
<1>4. Len(levels) = m /\ DOMAIN levels = 1..m
  BY <1>2, <1>3
<1>5. \A i \in 1..m : levels[i].price = prices[i]
  BY <1>2 DEF LevelAt
<1>6. \A i, j \in DOMAIN levels : i < j => Better(side, levels[i].price, levels[j].price)
  BY <1>1, <1>3, <1>4, <1>5
<1>7. CASE D = {}
  <2>1. Cardinality(D) = 0
    BY <1>7, FS_EmptySet
  <2>2. m = 0
    BY <1>1, <1>3, <2>1
  <2>3. levels = <<>>
    BY <1>2, <2>2
  <2>4. BestLevel(b, side) = NoLevel
    BY <1>7 DEF BestLevel
  <2> QED BY <1>6, <2>3, <2>4 DEF levels
<1>8. CASE D # {}
  <2>1. 1 \in 1..m /\ levels # <<>>
    BY <1>1, <1>3, <1>4, <1>8
  <2>2. Head(levels) = LevelAt(b, side, prices[1])
    <3>1. Head(levels) = levels[1]
      BY <2>1 DEF Head
    <3> QED BY <1>2, <2>1, <3>1
  <2>3. ASSUME NEW p \in D, IsBest(b.levels, side, p) PROVE p = prices[1]
    <3>1. prices[1] \in D /\ IsBest(b.levels, side, prices[1])
      BY <1>1, <1>8
    <3>2. p \in Int /\ prices[1] \in Int
      BY <3>1
    <3>3. ~Better(side, p, prices[1]) /\ ~Better(side, prices[1], p)
      BY <2>3, <3>1 DEF IsBest
    <3> QED BY <3>2, <3>3 DEF Better
  <2>4. (CHOOSE p \in D : IsBest(b.levels, side, p)) = prices[1]
    <3>1. prices[1] \in D /\ IsBest(b.levels, side, prices[1])
      BY <1>1, <1>8
    <3> QED BY <2>3, <3>1
  <2>5. BestLevel(b, side) = LevelAt(b, side, prices[1])
    BY <1>8, <2>4 DEF BestLevel
  <2> QED BY <1>6, <2>1, <2>2, <2>5 DEF levels
<1> QED BY <1>7, <1>8
----------------------------------------------------------------------------
(* What a feed remembers. *)

\* A feed passes through the trades it is told of.
LEMMA RecordPasses ==
  ASSUME NEW feed, NEW trades, NEW symbol, NEW side, Len(trades) \in Nat, DOMAIN trades = 1..Len(trades)
  PROVE  \E a : /\ Pass(a, "feed", symbol, side, feed, trades)
                /\ Recorded(feed, trades) = a[Len(trades)]
<1> DEFINE S == 1..Len(trades)
           OfTrades(it) ==
             it = [s \in SUBSET S |-> IF s = {} THEN feed ELSE
                    record_trade(it[s \ {Max(s)}], trades[Max(s)].price, trades[Max(s)].qty)]
           result == Recorded(feed, trades)
<1>1. result = (CHOOSE it : OfTrades(it))[S]
  BY DEF Recorded, FoldLeft, MapThenFoldSet
<1>2. \A it : OfTrades(it) <=> Folds(it, "feed", symbol, side, feed, trades)
  BY DEF Folds, FoldsOn, Effect
<1> HIDE DEF OfTrades, result
<1>3. OfTrades(CHOOSE it : OfTrades(it))
  BY <1>2, FoldsExist DEF Folds
<1>4. PICK it : /\ Folds(it, "feed", symbol, side, feed, trades)
                /\ result = it[S]
  BY <1>1, <1>2, <1>3
<1>5. PICK a : Pass(a, "feed", symbol, side, feed, trades) /\ it[S] = a[Len(trades)]
  BY <1>4, FoldPasses
<1> QED BY <1>4, <1>5 DEF result

\* The value of some trades is summed up trade by trade.
LEMMA ValuePasses ==
  ASSUME NEW trades, NEW symbol, NEW side, Len(trades) \in Nat, DOMAIN trades = 1..Len(trades)
  PROVE  \E a : /\ Pass(a, "value", symbol, side, 0, trades)
                /\ Value(trades) = a[Len(trades)]
<1> DEFINE S == 1..Len(trades)
           OfTrades(it) ==
             it = [s \in SUBSET S |-> IF s = {} THEN 0 ELSE
                    it[s \ {Max(s)}] + trades[Max(s)].price * trades[Max(s)].qty]
           result == Value(trades)
<1>1. result = (CHOOSE it : OfTrades(it))[S]
  BY DEF Value, FoldLeft, MapThenFoldSet
<1>2. \A it : OfTrades(it) <=> Folds(it, "value", symbol, side, 0, trades)
  BY DEF Folds, FoldsOn, Effect
<1> HIDE DEF OfTrades, result
<1>3. OfTrades(CHOOSE it : OfTrades(it))
  BY <1>2, FoldsExist DEF Folds
<1>4. PICK it : /\ Folds(it, "value", symbol, side, 0, trades)
                /\ result = it[S]
  BY <1>1, <1>2, <1>3
<1>5. PICK a : Pass(a, "value", symbol, side, 0, trades) /\ it[S] = a[Len(trades)]
  BY <1>4, FoldPasses
<1> QED BY <1>4, <1>5 DEF result

\* So is their volume.
LEMMA VolumePasses ==
  ASSUME NEW trades, NEW symbol, NEW side, Len(trades) \in Nat, DOMAIN trades = 1..Len(trades)
  PROVE  \E a : /\ Pass(a, "volume", symbol, side, 0, trades)
                /\ Volume(trades) = a[Len(trades)]
<1> DEFINE S == 1..Len(trades)
           OfTrades(it) ==
             it = [s \in SUBSET S |-> IF s = {} THEN 0 ELSE
                    it[s \ {Max(s)}] + trades[Max(s)].qty]
           result == Volume(trades)
<1>1. result = (CHOOSE it : OfTrades(it))[S]
  BY DEF Volume, FoldLeft, MapThenFoldSet
<1>2. \A it : OfTrades(it) <=> Folds(it, "volume", symbol, side, 0, trades)
  BY DEF Folds, FoldsOn, Effect
<1> HIDE DEF OfTrades, result
<1>3. OfTrades(CHOOSE it : OfTrades(it))
  BY <1>2, FoldsExist DEF Folds
<1>4. PICK it : /\ Folds(it, "volume", symbol, side, 0, trades)
                /\ result = it[S]
  BY <1>1, <1>2, <1>3
<1>5. PICK a : Pass(a, "volume", symbol, side, 0, trades) /\ it[S] = a[Len(trades)]
  BY <1>4, FoldPasses
<1> QED BY <1>4, <1>5 DEF result

\* vwap sums up both at once, of what the feed remembers.
LEMMA VwapPasses ==
  ASSUME NEW feed, NEW window, window = feed.recent_trades, NEW symbol, NEW side, Len(window) \in Nat, DOMAIN window = 1..Len(window)
  PROVE  \E a : /\ Pass(a, "vwap", symbol, side, <<0, 0>>, window)
                /\ vwap(feed) = a[Len(window)]
<1> DEFINE S == 1..Len(window)
           OfTrades(it) ==
             it = [s \in SUBSET S |-> IF s = {} THEN <<0, 0>> ELSE
                    <<it[s \ {Max(s)}][1] + window[Max(s)].price * window[Max(s)].quantity, it[s \ {Max(s)}][2] + window[Max(s)].quantity>>]
           result == vwap(feed)
<1>1. result = (CHOOSE it : OfTrades(it))[S]
  BY DEF vwap, FoldLeft, MapThenFoldSet
<1>2. \A it : OfTrades(it) <=> Folds(it, "vwap", symbol, side, <<0, 0>>, window)
  BY DEF Folds, FoldsOn, Effect
<1> HIDE DEF OfTrades, result
<1>3. OfTrades(CHOOSE it : OfTrades(it))
  BY <1>2, FoldsExist DEF Folds
<1>4. PICK it : /\ Folds(it, "vwap", symbol, side, <<0, 0>>, window)
                /\ result = it[S]
  BY <1>1, <1>2, <1>3
<1>5. PICK a : Pass(a, "vwap", symbol, side, <<0, 0>>, window) /\ it[S] = a[Len(window)]
  BY <1>4, FoldPasses
<1> QED BY <1>4, <1>5 DEF result

\* The last spreads of a feed, and rolling_spread, which sums them up.
LastSpreads(feed, n) ==
  SubSeq(feed.spread_history,
         Len(feed.spread_history) - LesserOf(n, Len(feed.spread_history)) + 1,
         Len(feed.spread_history))

SumsSpreads(feed, n) ==
  \E a : /\ Pass(a, "sum", 0, 0, 0, LastSpreads(feed, n))
         /\ rolling_spread(feed, n)[1] = a[Len(LastSpreads(feed, n))]

LEMMA SpreadPasses ==
  ASSUME NEW feed, NEW n,
         Len(LastSpreads(feed, n)) \in Nat,
         DOMAIN LastSpreads(feed, n) = 1..Len(LastSpreads(feed, n))
  PROVE  SumsSpreads(feed, n)
<1> DEFINE last == LastSpreads(feed, n)
           S == 1..Len(last)
           OfTrades(it) ==
             it = [s \in SUBSET S |-> IF s = {} THEN 0 ELSE
                    it[s \ {Max(s)}] + last[Max(s)]]
           result == rolling_spread(feed, n)[1]
<1>1. Len(last) \in Nat /\ DOMAIN last = 1..Len(last)
  OBVIOUS
<1>2. result = (CHOOSE it : OfTrades(it))[S]
  BY <1>1 DEF rolling_spread, FoldLeft, MapThenFoldSet, LastSpreads
<1>3. \A it : OfTrades(it) <=> Folds(it, "sum", 0, 0, 0, last)
  BY DEF Folds, FoldsOn, Effect
<1> HIDE DEF OfTrades, result, last
<1>4. OfTrades(CHOOSE it : OfTrades(it))
  BY ONLY <1>1, <1>3, FoldsExist DEF Folds
<1>5. PICK it : /\ Folds(it, "sum", 0, 0, 0, last)
                /\ result = it[S]
  BY <1>2, <1>3, <1>4
<1>6. PICK a : Pass(a, "sum", 0, 0, 0, last) /\ it[S] = a[Len(last)]
  BY ONLY <1>1, <1>5, FoldPasses
<1> QED BY <1>5, <1>6 DEF result, last, SumsSpreads

\* What a feed keeps of a trade.
Remembered(tr) == [price |-> tr.price, quantity |-> tr.qty]

\* How many of m trades it keeps, and which.
KeptOf(m) == LesserOf(MaxTradeHistory, m)

WindowAt(history, m) ==
  [i \in 1..KeptOf(m) |-> Remembered(history[m - KeptOf(m) + i])]

\* A trade enters the window at the end, and one leaves it if there are too many.
LEMMA WindowStep ==
  ASSUME NEW history, NEW m \in Nat
  PROVE  Kept(Append(WindowAt(history, m), Remembered(history[m + 1])), MaxTradeHistory)
           = WindowAt(history, m + 1)
<1> DEFINE max == MaxTradeHistory
           k == KeptOf(m)
           w == WindowAt(history, m)
           x == Remembered(history[m + 1])
           longer == Append(w, x)
           u == WindowAt(history, m + 1)
           V == {Remembered(history[i]) : i \in Nat}
<1>1. max \in Nat \ {0}
  BY HistoryAssumption
<1>2. k \in Nat /\ k <= max /\ k <= m /\ (k < max => k = m)
  BY <1>1 DEF KeptOf, LesserOf
<1>3. w = [i \in 1..k |-> Remembered(history[m - k + i])]
  BY DEF WindowAt
<1>4. w \in Seq(V) /\ Len(w) = k /\ x \in V
  <2>1. \A i \in 1..k : m - k + i \in Nat
    BY <1>2
  <2>2. \A i \in 1..k : Remembered(history[m - k + i]) \in V
    BY <2>1
  <2> HIDE DEF V, k
  <2>3. w \in [1..k -> V]
    BY <1>3, <2>2
  <2>4. w \in Seq(V)
    BY <1>2, <2>3
  <2>5. Len(w) = k
    BY <1>2, <1>3
  <2>6. x \in V
    BY DEF V
  <2> QED BY <2>4, <2>5, <2>6
<1> HIDE DEF V
<1>5. /\ longer \in Seq(V) /\ Len(longer) = k + 1
      /\ \A i \in 1..k : longer[i] = Remembered(history[m - k + i])
      /\ longer[k + 1] = x
  <2> HIDE DEF w, x, k
  <2>1. /\ longer \in Seq(V) /\ Len(longer) = k + 1 /\ longer[k + 1] = x
        /\ \A i \in 1..k : longer[i] = w[i]
    BY <1>2, <1>4
  <2> QED BY <1>3, <2>1
<1> HIDE DEF w, longer
<1>6. \A i \in 1..(k + 1) : longer[i] = Remembered(history[m - k + i])
  <2> TAKE i \in 1..(k + 1)
  <2>1. CASE i \in 1..k
    BY <1>5, <2>1
  <2>2. CASE i = k + 1
    <3>1. m - k + i = m + 1
      BY <1>2, <2>2
    <3> QED BY <1>5, <2>2, <3>1
  <2> HIDE DEF k
  <2> QED BY <1>2, <2>1, <2>2
<1>7. CASE k < max
  <2>1. KeptOf(m + 1) = k + 1
    BY <1>1, <1>2, <1>7 DEF KeptOf, LesserOf
  <2>2. \A i \in 1..(k + 1) : (m + 1) - (k + 1) + i = m - k + i
    BY <1>2
  <2> HIDE DEF k
  <2>3. u = [i \in 1..(k + 1) |-> Remembered(history[m - k + i])]
    BY <2>1, <2>2 DEF WindowAt
  <2>4. longer = u
    BY <1>2, <1>5, <1>6, <2>3
  <2>5. Kept(longer, max) = longer
    BY <1>1, <1>2, <1>5, <1>7 DEF Kept
  <2> QED BY <2>4, <2>5 DEF longer, w, k
<1>8. CASE k = max
  <2>1. KeptOf(m + 1) = k
    BY <1>1, <1>2, <1>8 DEF KeptOf, LesserOf
  <2>2. \A i \in 1..k : (m + 1) - k + i = m - k + (i + 1) /\ i + 1 \in 1..(k + 1)
    BY <1>2
  <2> HIDE DEF k
  <2>3. u = [i \in 1..k |-> Remembered(history[m - k + (i + 1)])]
    BY <2>1, <2>2 DEF WindowAt
  <2>4. Kept(longer, max) = Tail(longer)
    BY <1>1, <1>2, <1>5, <1>8 DEF Kept
  <2>5. /\ Tail(longer) \in Seq(V) /\ Len(Tail(longer)) = k
        /\ \A i \in 1..k : Tail(longer)[i] = longer[i + 1]
    BY <1>2, <1>5
  <2>6. \A i \in 1..k : Tail(longer)[i] = Remembered(history[m - k + (i + 1)])
    BY <1>6, <2>2, <2>5
  <2>7. Tail(longer) = u
    BY <1>2, <2>3, <2>5, <2>6
  <2> QED BY <2>4, <2>7 DEF longer, w, k
<1> QED BY <1>1, <1>2, <1>7, <1>8

\* Later trades change nothing of an earlier window.
LEMMA WindowOfPrefix ==
  ASSUME NEW h \in Seq(Book!Trade), NEW trades \in Seq(Book!Trade)
  PROVE  WindowAt(h \o trades, Len(h)) = WindowAt(h, Len(h))
<1> DEFINE m == Len(h)
           k == KeptOf(m)
<1>1. m \in Nat /\ k \in Int /\ k <= m
  BY HistoryAssumption DEF KeptOf, LesserOf
<1>2. \A i \in 1..k : m - k + i \in 1..m
  BY <1>1
<1>3. \A i \in 1..m : (h \o trades)[i] = h[i]
  OBVIOUS
<1>4. \A i \in 1..k : (h \o trades)[m - k + i] = h[m - k + i]
  BY <1>2, <1>3
<1> HIDE DEF m, k
<1>5. \A i \in 1..k : Remembered((h \o trades)[m - k + i]) = Remembered(h[m - k + i])
  BY <1>4
<1> QED BY <1>5 DEF WindowAt, m, k

\* What a feed knows: the fields of an L1Feed.
HasFields(feed) ==
  feed = [last_tob       |-> feed.last_tob,
          recent_trades  |-> feed.recent_trades,
          spread_history |-> feed.spread_history]

\* A feed that remembers the last trades, and is told of more, remembers the last of all.
LEMMA RecordedWindow ==
  ASSUME NEW feed, HasFields(feed), NEW h \in Seq(Book!Trade), NEW trades \in Seq(Book!Trade),
         feed.recent_trades = WindowAt(h, Len(h))
  PROVE  LET new == Recorded(feed, trades)
         IN  /\ HasFields(new)
             /\ new.recent_trades = WindowAt(h \o trades, Len(h \o trades))
             /\ new.spread_history = feed.spread_history
<1> DEFINE n == Len(trades)
           m == Len(h)
           all == h \o trades
           Grown(f, k) == /\ HasFields(f)
                          /\ f.recent_trades = WindowAt(all, m + k)
                          /\ f.spread_history = feed.spread_history
<1>1. /\ n \in Nat /\ m \in Nat /\ DOMAIN trades = 1..n /\ Len(all) = m + n
      /\ \A i \in 1..n : all[m + i] = trades[i]
  OBVIOUS
<1>2. PICK a : /\ Pass(a, "feed", 0, 0, feed, trades)
               /\ Recorded(feed, trades) = a[n]
  BY <1>1, RecordPasses
<1> DEFINE T == {k \in Nat : k <= n => Grown(a[k], k)}
<1>3. 0 \in T
  <2>1. a[0] = feed
    BY <1>2 DEF Pass
  <2>2. m + 0 = m
    BY <1>1
  <2>3. WindowAt(all, m) = WindowAt(h, m)
    BY WindowOfPrefix
  <2>4. Grown(a[0], 0)
    BY <2>1, <2>2, <2>3
  <2> QED BY <2>4
<1>4. ASSUME NEW k \in Nat, k \in T PROVE k + 1 \in T
  <2> SUFFICES ASSUME k + 1 <= n PROVE Grown(a[k + 1], k + 1)
    OBVIOUS
  <2> DEFINE x == a[k]
             y == a[k + 1]
             tr == trades[k + 1]
  <2>1. Grown(x, k)
    BY <1>1, <1>4
  <2>2. k \in 0..(n - 1)
    BY <1>1
  <2>3. y = record_trade(x, tr.price, tr.qty)
    BY <1>2, <2>2 DEF Pass, Effect
  <2>4. all[(m + k) + 1] = tr /\ m + k \in Nat /\ (m + k) + 1 = m + (k + 1)
    <3>1. k + 1 \in 1..n /\ m + (k + 1) = (m + k) + 1 /\ m + k \in Nat
      BY <1>1
    <3> HIDE DEF all, n, m
    <3> QED BY <1>1, <3>1
  <2> DEFINE w == Kept(Append(x.recent_trades, Remembered(tr)), MaxTradeHistory)
  <2>5. y = [x EXCEPT !.recent_trades = w]
    BY <2>3 DEF record_trade, Remembered
  <2>6. w = WindowAt(all, m + (k + 1))
    <3> HIDE DEF all, m, x, tr
    <3>1. w = Kept(Append(WindowAt(all, m + k), Remembered(all[(m + k) + 1])), MaxTradeHistory)
      BY <2>1, <2>4
    <3> QED BY <2>4, <3>1, WindowStep
  <2> HIDE DEF w, all, m, x, y, tr
  <2>7. HasFields(y) /\ y.recent_trades = w /\ y.spread_history = x.spread_history
    BY <2>1, <2>5 DEF HasFields
  <2> QED BY <2>1, <2>6, <2>7 DEF y
<1>5. Nat \subseteq T
  <2> HIDE DEF T
  <2> QED BY <1>3, <1>4, NatLemma
<1>6. Grown(a[n], n)
  BY <1>1, <1>5
<1> HIDE DEF all, n, m
<1> QED BY <1>1, <1>2, <1>6 DEF all, n, m

\* The newest spread is that of the book, if it has one.
SpreadKnown(feed) ==
  LET spreads == feed.spread_history
  IN  /\ spreads \in Seq(Int)
      /\ feed.last_tob.spread > 0 =>
           /\ Len(spreads) > 0
           /\ spreads[Len(spreads)] = feed.last_tob.spread

\* A feed that follows its book and the trades of its symbol.
Follows(feed, b, h) ==
  /\ HasFields(feed)
  /\ feed.last_tob = TopOfBook(b)
  /\ feed.recent_trades = WindowAt(h, Len(h))
  /\ SpreadKnown(feed)

\* The levels of a sound book are at finitely many prices.
LEMMA SoundLevels ==
  ASSUME NEW b, SoundBook(b), NEW side \in Side
  PROVE  DOMAIN b.levels[side] \subseteq Int /\ IsFiniteSet(DOMAIN b.levels[side])
<1>1. Book!IsBook(b) /\ Book!Counted(b) /\ side \in Book!Side
  BY DEF SoundBook, Book!Sound, Side, Book!Side
<1>2. DOMAIN b.levels[side] \subseteq Int /\ Book!IsFiniteSet(DOMAIN b.levels[side])
  BY <1>1 DEF Book!IsBook, Book!Counted, Book!PartialFunction
<1>3. \A S : Book!IsFiniteSet(S) <=> IsFiniteSet(S)
  BY DEF Book!IsFiniteSet, IsFiniteSet
<1> QED BY <1>2, <1>3

\* The spread of a book is a number, and there is one only if the book has a top.
LEMMA SpreadType ==
  ASSUME NEW b, SoundBook(b)
  PROVE  LET tob == TopOfBook(b)
         IN  tob.spread \in Int /\ (tob.spread > 0 => tob.valid)
<1> DEFINE bb == BestLevel(b, "Buy")
           ba == BestLevel(b, "Sell")
           tob == TopOfBook(b)
<1>1. ASSUME NEW side \in Side PROVE BestLevel(b, side).price \in Int
  <2> DEFINE D == DOMAIN b.levels[side]
             p == CHOOSE p \in D : IsBest(b.levels, side, p)
  <2>1. D \subseteq Int /\ IsFiniteSet(D)
    BY SoundLevels
  <2>2. D # {} => p \in D
    <3>1. D # {} => \E q \in D : IsBest(b.levels, side, q)
      BY <2>1, OrderLemma
    <3> QED BY <3>1
  <2>3. D # {} => BestLevel(b, side).price = p
    BY DEF BestLevel, LevelAt
  <2>4. D = {} => BestLevel(b, side).price = 0
    BY DEF BestLevel, NoLevel
  <2> HIDE DEF p, D
  <2>5. CASE D = {}
    BY <2>4, <2>5
  <2>6. CASE D # {}
    <3>1. p \in Int
      BY <2>1, <2>2, <2>6
    <3> QED BY <2>3, <2>6, <3>1
  <2> QED BY <2>5, <2>6
<1>2. bb.price \in Int /\ ba.price \in Int
  BY <1>1 DEF Side
<1>3. /\ bb # NoLevel => tob.valid
      /\ tob.spread = IF bb # NoLevel /\ ba # NoLevel THEN ba.price - bb.price ELSE 0
  BY DEF TopOfBook
<1> HIDE DEF bb, ba, tob
<1>4. CASE bb # NoLevel /\ ba # NoLevel
  <2>1. ba.price - bb.price \in Int
    BY <1>2
  <2> QED BY <1>3, <1>4, <2>1 DEF tob
<1>5. CASE ~(bb # NoLevel /\ ba # NoLevel)
  <2>1. tob.spread = 0 /\ 0 \in Int /\ ~(0 > 0)
    BY <1>3, <1>5
  <2> QED BY <2>1 DEF tob
<1> QED BY <1>4, <1>5

\* update, after the trades, makes the feed follow the new book.
LEMMA UpdateFollows ==
  ASSUME NEW feed, NEW old, NEW h \in Seq(Book!Trade), Follows(feed, old, h),
         NEW b, SoundBook(b), NEW trades \in Seq(Book!Trade)
  PROVE  Follows(update(Recorded(feed, trades), b), b, h \o trades)
<1> DEFINE mid == Recorded(feed, trades)
           new == update(mid, b)
           tob == TopOfBook(b)
           spreads == mid.spread_history
           next == IF tob.valid /\ tob.spread > 0
                   THEN Kept(Append(spreads, tob.spread), MaxSpreadHistory) ELSE spreads
<1>1. /\ HasFields(mid) /\ mid.recent_trades = WindowAt(h \o trades, Len(h \o trades))
      /\ spreads = feed.spread_history
  BY RecordedWindow DEF Follows
<1>2. new = [mid EXCEPT !.last_tob = tob, !.spread_history = next]
  BY DEF update
<1>3. tob.spread \in Int /\ (tob.spread > 0 => tob.valid)
  BY SpreadType
<1>4. spreads \in Seq(Int)
  BY <1>1 DEF Follows, SpreadKnown
<1> HIDE DEF mid, tob, spreads
<1>5. /\ next \in Seq(Int)
      /\ tob.spread > 0 => Len(next) > 0 /\ next[Len(next)] = tob.spread
  <2>1. CASE tob.valid /\ tob.spread > 0
    <3> DEFINE longer == Append(spreads, tob.spread)
    <3>1. /\ longer \in Seq(Int) /\ Len(longer) = Len(spreads) + 1 /\ Len(spreads) \in Nat
          /\ longer[Len(longer)] = tob.spread
      BY <1>3, <1>4
    <3>2. next = Kept(longer, MaxSpreadHistory)
      BY <2>1
    <3> HIDE DEF longer
    <3>3. MaxSpreadHistory >= 1 /\ MaxSpreadHistory \in Nat
      BY HistoryAssumption
    <3>4. CASE Len(longer) > MaxSpreadHistory
      <4>1. next = Tail(longer)
        BY <3>2, <3>4 DEF Kept
      <4>2. /\ Tail(longer) \in Seq(Int) /\ Len(Tail(longer)) = Len(longer) - 1
            /\ \A i \in 1..(Len(longer) - 1) : Tail(longer)[i] = longer[i + 1]
        BY <3>1, <3>3, <3>4
      <4>3. Len(longer) - 1 \in 1..(Len(longer) - 1) /\ (Len(longer) - 1) + 1 = Len(longer)
        BY <3>1, <3>3, <3>4
      <4> HIDE DEF next
      <4> QED BY <3>1, <4>1, <4>2, <4>3
    <3>5. CASE ~(Len(longer) > MaxSpreadHistory)
      <4>1. next = longer
        BY <3>2, <3>5 DEF Kept
      <4> HIDE DEF next
      <4> QED BY <3>1, <4>1
    <3> QED BY <3>4, <3>5
  <2>2. CASE ~(tob.valid /\ tob.spread > 0)
    BY <1>3, <1>4, <2>2
  <2> QED BY <2>1, <2>2
<1> HIDE DEF next
<1>6. /\ HasFields(new) /\ new.last_tob = tob /\ new.recent_trades = mid.recent_trades
      /\ new.spread_history = next
  BY <1>1, <1>2 DEF HasFields
<1> HIDE DEF new
<1>7. SpreadKnown(new)
  BY <1>5, <1>6 DEF SpreadKnown
<1> QED BY <1>1, <1>6, <1>7 DEF Follows, tob, new, mid

----------------------------------------------------------------------------
(* Feeds and snapshots follow the books through every operation. *)

\* What subscribers of a symbol were shown last is its book.
Shown(symbol) ==
  /\ Follows(l1[symbol], books[symbol], prints[symbol])
  /\ IF symbol \in DOMAIN l2 THEN l2[symbol] = Snapshot(books[symbol])
     ELSE books[symbol] = EmptyBook

FeedInv ==
  /\ EngineInv
  /\ \A o, other \in checked : o = other
  /\ DOMAIN l1 = DOMAIN books /\ DOMAIN l2 \subseteq DOMAIN books
  /\ prints \in [Symbol -> Seq(Book!Trade)]
  /\ \A symbol \in Symbol \ DOMAIN books : prints[symbol] = <<>>
  /\ \A symbol \in DOMAIN books : Shown(symbol)

\* An operation that puts a book in the place of another and publishes it.
LEMMA PutShown ==
  ASSUME FeedInv, EngineInv', NEW symbol \in DOMAIN books, NEW b, SoundBook(b),
         NEW trades \in Seq(Book!Trade), PutBook(symbol, b, trades),
         prints' = [prints EXCEPT ![symbol] = @ \o trades],
         checked' \subseteq checked
  PROVE  FeedInv'
<1> DEFINE feed == update(Recorded(l1[symbol], trades), b)
<1>1. /\ symbol \in Symbol /\ symbol \in DOMAIN l1 /\ DOMAIN books \subseteq Symbol
      /\ prints[symbol] \in Seq(Book!Trade)
      /\ Follows(l1[symbol], books[symbol], prints[symbol])
  BY DEF FeedInv, EngineInv, Shown
<1>2. Follows(feed, b, prints[symbol] \o trades)
  BY <1>1, UpdateFollows
<1>3. /\ books' = [books EXCEPT ![symbol] = b]
      /\ l1' = [l1 EXCEPT ![symbol] = feed]
      /\ l2' = [s \in DOMAIN l2 \cup {symbol} |-> IF s = symbol THEN Snapshot(b) ELSE l2[s]]
  BY DEF PutBook, Published
<1> HIDE DEF feed
<1>4. /\ DOMAIN books' = DOMAIN books /\ DOMAIN l1' = DOMAIN l1
      /\ DOMAIN l2' = DOMAIN l2 \cup {symbol}
  BY <1>3
<1>5. /\ books'[symbol] = b /\ l1'[symbol] = feed /\ l2'[symbol] = Snapshot(b)
      /\ prints'[symbol] = prints[symbol] \o trades
  BY <1>1, <1>3, <1>4 DEF FeedInv
<1>6. \A s \in Symbol : s # symbol => prints'[s] = prints[s]
  BY DEF FeedInv
<1>7. \A s \in DOMAIN books : s # symbol =>
        /\ books'[s] = books[s] /\ l1'[s] = l1[s]
        /\ (s \in DOMAIN l2' <=> s \in DOMAIN l2) /\ (s \in DOMAIN l2 => l2'[s] = l2[s])
  BY <1>3, <1>4 DEF FeedInv
<1>8. ASSUME NEW s \in DOMAIN books
      PROVE  /\ Follows(l1'[s], books'[s], prints'[s])
             /\ IF s \in DOMAIN l2' THEN l2'[s] = Snapshot(books'[s]) ELSE books'[s] = EmptyBook
  <2>1. CASE s = symbol
    BY <1>2, <1>4, <1>5, <2>1
  <2>2. CASE s # symbol
    <3>1. Shown(s)
      BY DEF FeedInv
    <3> QED BY <1>1, <1>6, <1>7, <2>2, <3>1 DEF Shown
  <2> QED BY <2>1, <2>2
<1>9. prints' \in [Symbol -> Seq(Book!Trade)]
  <2>1. prints[symbol] \o trades \in Seq(Book!Trade)
    BY <1>1
  <2> QED BY <2>1 DEF FeedInv
<1>10. \A s \in DOMAIN books' : Shown(s)'
  BY <1>4, <1>8 DEF Shown
<1>11. /\ DOMAIN l1' = DOMAIN books' /\ DOMAIN l2' \subseteq DOMAIN books'
       /\ \A s \in Symbol \ DOMAIN books' : prints'[s] = <<>>
       /\ \A o, other \in checked' : o = other
  BY <1>4, <1>6 DEF FeedInv
<1> QED BY <1>9, <1>10, <1>11 DEF FeedInv

\* The volume-weighted price of the window is that of the last trades.
LEMMA VwapOfLast ==
  ASSUME NEW feed, NEW h \in Seq(Book!Trade), feed.recent_trades = WindowAt(h, Len(h))
  PROVE  LET last == LastOf(h, MaxTradeHistory)
         IN  vwap(feed) = <<Value(last), Volume(last)>>
<1> DEFINE m == Len(h)
           k == KeptOf(m)
           last == LastOf(h, MaxTradeHistory)
           w == feed.recent_trades
<1>1. MaxTradeHistory \in Nat \ {0} /\ m \in Nat
  BY HistoryAssumption
<1>2. k \in Nat /\ k <= m
  BY <1>1 DEF KeptOf, LesserOf
<1>3. last = SubSeq(h, m - k + 1, m)
  BY DEF LastOf, KeptOf
<1>4. w = [i \in 1..k |-> Remembered(h[m - k + i])]
  BY DEF WindowAt
<1> HIDE DEF k, m, last, w
<1>5. Len(w) = k /\ DOMAIN w = 1..k
  BY <1>2, <1>4
<1>6. Len(last) = k /\ DOMAIN last = 1..k /\ \A i \in 1..k : last[i] = h[m - k + i]
  <2>1. m - k + 1 \in 1..(m + 1) /\ m - (m - k + 1) + 1 = k /\ m = Len(h)
    BY <1>1, <1>2 DEF m
  <2>2. Len(last) = k /\ DOMAIN last = 1..k
    BY <1>1, <1>2, <1>3, <2>1
  <2>3. ASSUME NEW i \in 1..k PROVE last[i] = h[m - k + i]
    <3>1. (m - k + 1) + i - 1 = m - k + i /\ m - k + i \in 1..m
      BY <1>1, <1>2
    <3>2. last[i] = h[(m - k + 1) + i - 1]
      BY <1>1, <1>2, <1>3, <2>1, <2>2
    <3> QED BY <3>1, <3>2
  <2> QED BY <2>2, <2>3
<1>7. \A i \in 1..k : w[i].price = last[i].price /\ w[i].quantity = last[i].qty
  BY <1>4, <1>6 DEF Remembered
<1>8. PICK a : Pass(a, "vwap", 0, 0, <<0, 0>>, w) /\ vwap(feed) = a[k]
  BY <1>2, <1>5, VwapPasses DEF w
<1>9. PICK b : Pass(b, "value", 0, 0, 0, last) /\ Value(last) = b[k]
  BY <1>2, <1>6, ValuePasses
<1>10. PICK c : Pass(c, "volume", 0, 0, 0, last) /\ Volume(last) = c[k]
  BY <1>2, <1>6, VolumePasses
<1> DEFINE T == {i \in Nat : i <= k => a[i] = <<b[i], c[i]>>}
<1>11. 0 \in T
  BY <1>8, <1>9, <1>10 DEF Pass
<1>12. ASSUME NEW i \in Nat, i \in T PROVE i + 1 \in T
  <2> SUFFICES ASSUME i + 1 <= k PROVE a[i + 1] = <<b[i + 1], c[i + 1]>>
    OBVIOUS
  <2> DEFINE x == w[i + 1]
             tr == last[i + 1]
  <2>1. i \in 0..(k - 1) /\ i + 1 \in 1..k /\ a[i] = <<b[i], c[i]>>
    BY <1>2, <1>12
  <2>2. a[i + 1] = <<a[i][1] + x.price * x.quantity, a[i][2] + x.quantity>>
    BY <1>5, <1>8, <2>1 DEF Pass, Effect
  <2>3. b[i + 1] = b[i] + tr.price * tr.qty
    BY <1>6, <1>9, <2>1 DEF Pass, Effect
  <2>4. c[i + 1] = c[i] + tr.qty
    BY <1>6, <1>10, <2>1 DEF Pass, Effect
  <2>5. x.price = tr.price /\ x.quantity = tr.qty
    BY <1>7, <2>1
  <2> HIDE DEF x, tr
  <2> QED BY <2>1, <2>2, <2>3, <2>4, <2>5
<1>13. Nat \subseteq T
  <2> HIDE DEF T
  <2> QED BY <1>11, <1>12, NatLemma
<1>14. a[k] = <<b[k], c[k]>>
  BY <1>2, <1>13
<1> QED BY <1>8, <1>9, <1>10, <1>14 DEF last

\* The newest of the spreads.
LEMMA NewestSpread ==
  ASSUME NEW feed, SpreadKnown(feed), feed.last_tob.spread > 0
  PROVE  rolling_spread(feed, 1) = <<feed.last_tob.spread, 1>>
<1> DEFINE spreads == feed.spread_history
           n == Len(spreads)
           last == LastSpreads(feed, 1)
<1>1. spreads \in Seq(Int) /\ n \in Nat \ {0} /\ spreads[n] = feed.last_tob.spread
  BY DEF SpreadKnown
<1>2. LesserOf(1, n) = 1 /\ n - LesserOf(1, n) + 1 = n
  <2>1. n \in Nat \ {0}
    BY <1>1
  <2> HIDE DEF n
  <2> QED BY <2>1 DEF LesserOf
<1>3. Len(last) = 1 /\ DOMAIN last = 1..1 /\ last[1] = spreads[n]
  <2>1. last = SubSeq(spreads, n, n)
    BY <1>2 DEF LastSpreads
  <2> HIDE DEF last
  <2> QED BY <1>1, <2>1
<1>4. rolling_spread(feed, 1)[1] = feed.last_tob.spread
  <2>1. /\ Len(LastSpreads(feed, 1)) \in Nat
        /\ DOMAIN LastSpreads(feed, 1) = 1..Len(LastSpreads(feed, 1))
    <3> HIDE DEF last
    <3>1. Len(last) \in Nat /\ DOMAIN last = 1..Len(last)
      BY <1>3
    <3> QED BY <3>1 DEF last
  <2>2. SumsSpreads(feed, 1)
    BY <2>1, SpreadPasses
  <2>3. PICK a : Pass(a, "sum", 0, 0, 0, last) /\ rolling_spread(feed, 1)[1] = a[Len(last)]
    BY <2>2 DEF SumsSpreads
  <2> HIDE DEF last
  <2>4. 0 \in 0..(Len(last) - 1) /\ 0 + 1 = 1
    BY <1>3
  <2>5. a[0] = 0 /\ a[0 + 1] = a[0] + last[0 + 1]
    BY <2>3, <2>4 DEF Pass, Effect
  <2>6. spreads[n] \in Int
    BY <1>1
  <2> HIDE DEF spreads, n
  <2>7. a[1] = 0 + spreads[n]
    BY <1>3, <2>4, <2>5
  <2>8. 0 + spreads[n] = spreads[n]
    BY <2>6
  <2> QED BY <1>1, <1>3, <2>3, <2>7, <2>8
<1>5. \E x : rolling_spread(feed, 1) = <<x, 1>>
  BY <1>2 DEF rolling_spread
<1> QED BY <1>4, <1>5

\* Every operation of a session leaves the subscribers with the books.
LEMMA NextFeeds == FeedInv /\ [SessionNext]_session_vars => FeedInv'
<1> SUFFICES ASSUME FeedInv, [SessionNext]_session_vars PROVE FeedInv'
  OBVIOUS
<1>1. EngineInv'
  BY NextEngine, SessionStep DEF FeedInv
<1>2. ASSUME UNCHANGED <<books, l1, l2, prints>>,
             checked' = checked \/ \E order : checked' \subseteq {order}
      PROVE  FeedInv'
  BY <1>1, <1>2 DEF FeedInv, Shown
<1>3. ASSUME TradeNewOrder PROVE FeedInv'
  <2>1. PICK order \in checked :
          Callbacks(order.symbol, order.side, NewOrderResult(order).trades)
    BY <1>3 DEF TradeNewOrder
  <2> DEFINE r == NewOrderResult(order)
  <2>2. PutBook(order.symbol, r.book, r.trades) /\ checked' = {}
    BY <1>3 DEF TradeNewOrder, MatchNewOrder, FeedInv
  <2>3. prints' = [prints EXCEPT ![order.symbol] = @ \o r.trades]
    BY <2>1 DEF Callbacks
  <2>4. SoundBook(r.book) /\ r.trades \in Seq(Book!Trade) /\ order.symbol \in DOMAIN books
    BY NewOrderResults DEF FeedInv
  <2> HIDE DEF r
  <2> QED BY <1>1, <2>2, <2>3, <2>4, PutShown
<1>4. ASSUME NEW replace \in Replaces, TradeReplace(replace) PROVE FeedInv'
  <2> DEFINE r == ReplaceResult(replace)
  <2>1. /\ EngineInv /\ Replaceable(replace) /\ checked' = checked
        /\ PutBook(replace.symbol, r.book, r.trades)
        /\ prints' = [prints EXCEPT ![replace.symbol] = @ \o r.trades]
    BY <1>4 DEF TradeReplace, ProcessReplace, Callbacks, FeedInv
  <2>2. SoundBook(r.book) /\ r.trades \in Seq(Book!Trade) /\ replace.symbol \in DOMAIN books
    BY <2>1, ReplaceResults
  <2> HIDE DEF r
  <2> QED BY <1>1, <2>1, <2>2, PutShown
<1>5. ASSUME NEW symbol \in DOMAIN books, NEW b, SoundBook(b), PutBook(symbol, b, <<>>),
             UNCHANGED <<prints, checked>>
      PROVE  FeedInv'
  <2>1. prints \in [Symbol -> Seq(Book!Trade)] /\ symbol \in Symbol
    BY DEF FeedInv, EngineInv
  <2>2. prints[symbol] \o <<>> = prints[symbol]
    <3>1. prints[symbol] \in Seq(Book!Trade)
      BY <2>1
    <3> QED BY <3>1
  <2>3. prints' = [prints EXCEPT ![symbol] = @ \o <<>>]
    BY <1>5, <2>1, <2>2
  <2>4. <<>> \in Seq(Book!Trade)
    OBVIOUS
  <2> QED BY <1>1, <1>5, <2>3, <2>4, PutShown
<1>6. ASSUME NEW cancel \in Cancels, ProcessCancel(cancel), UNCHANGED prints PROVE FeedInv'
  <2>1. PICK symbol \in Routes(cancel) \cap DOMAIN books :
          \/ /\ cancel.order_id \in DOMAIN books[symbol].order_index
             /\ PutBook(symbol, Withdraw(books[symbol], cancel.order_id), <<>>)
          \/ PutBook(symbol, books[symbol], <<>>)
    BY <1>6 DEF ProcessCancel
  <2>2. SoundBook(books[symbol]) /\ UNCHANGED checked
    BY <1>6 DEF FeedInv, EngineInv, ProcessCancel
  <2>3. cancel.order_id \in DOMAIN books[symbol].order_index
          => SoundBook(Withdraw(books[symbol], cancel.order_id))
    BY <2>2, WithdrawResult
  <2> QED BY <1>5, <1>6, <2>1, <2>2, <2>3
<1>7. ASSUME NEW replace \in Replaces, ReplaceUnknown(replace), UNCHANGED prints PROVE FeedInv'
  <2>1. /\ replace.symbol \in DOMAIN books /\ UNCHANGED checked
        /\ PutBook(replace.symbol, books[replace.symbol], <<>>)
    BY <1>7 DEF ReplaceUnknown
  <2>2. SoundBook(books[replace.symbol])
    BY <2>1 DEF FeedInv, EngineInv
  <2> QED BY <1>5, <1>7, <2>1, <2>2
<1>8. ASSUME NEW symbol \in Symbol, AddSymbol(symbol), UNCHANGED prints PROVE FeedInv'
  <2>1. /\ symbol \notin DOMAIN books /\ UNCHANGED <<l2, checked>>
        /\ books' = [s \in DOMAIN books \cup {symbol} |->
                       IF s = symbol THEN EmptyBook ELSE books[s]]
        /\ l1' = [s \in DOMAIN l1 \cup {symbol} |-> IF s = symbol THEN EmptyFeed ELSE l1[s]]
    BY <1>8 DEF AddSymbol
  <2>2. /\ DOMAIN books' = DOMAIN books \cup {symbol} /\ DOMAIN l1' = DOMAIN books'
        /\ books'[symbol] = EmptyBook /\ l1'[symbol] = EmptyFeed
        /\ \A s \in DOMAIN books : books'[s] = books[s] /\ l1'[s] = l1[s]
    BY <2>1 DEF FeedInv
  <2>3. prints[symbol] = <<>> /\ symbol \notin DOMAIN l2
    BY <2>1 DEF FeedInv
  <2>4. Follows(EmptyFeed, EmptyBook, <<>>)
    <3>1. TopOfBook(EmptyBook).spread = 0
      <4>1. \A side \in Side : DOMAIN EmptyBook.levels[side] = {}
        BY DEF EmptyBook
      <4>2. BestLevel(EmptyBook, "Buy") = NoLevel
        BY <4>1 DEF BestLevel, Side
      <4> QED BY <4>2 DEF TopOfBook
    <3>2. WindowAt(<<>>, Len(<<>>)) = <<>>
      <4>1. KeptOf(0) = 0
        BY HistoryAssumption DEF KeptOf, LesserOf
      <4>2. Len(<<>>) = 0
        OBVIOUS
      <4> QED BY <4>1, <4>2 DEF WindowAt
    <3>3. /\ HasFields(EmptyFeed) /\ EmptyFeed.last_tob = TopOfBook(EmptyBook)
          /\ EmptyFeed.recent_trades = <<>> /\ EmptyFeed.spread_history = <<>>
      BY DEF EmptyFeed, HasFields
    <3>4. SpreadKnown(EmptyFeed)
      BY <3>1, <3>3 DEF SpreadKnown
    <3> QED BY <3>2, <3>3, <3>4 DEF Follows
  <2>5. ASSUME NEW s \in DOMAIN books' PROVE Shown(s)'
    <3>1. CASE s = symbol
      BY <1>8, <2>1, <2>2, <2>3, <2>4, <3>1 DEF Shown
    <3>2. CASE s # symbol
      <4>1. s \in DOMAIN books /\ Shown(s)
        BY <2>2, <3>2 DEF FeedInv
      <4> QED BY <1>8, <2>1, <2>2, <4>1 DEF Shown
    <3> QED BY <3>1, <3>2
  <2> QED BY <1>1, <1>8, <2>1, <2>2, <2>5 DEF FeedInv
<1>9. CASE WithoutTrade
  <2>1. UNCHANGED prints
    BY <1>9 DEF WithoutTrade
  <2>2. CASE (\E order \in NewOrders : CheckNewOrder(order))
               \/ (\E t \in TraderId : SwitchTrader(t)) \/ SwitchAll
    <3>1. /\ UNCHANGED <<books, l1, l2>>
          /\ checked' = checked \/ \E order : checked' \subseteq {order}
      BY <2>2 DEF CheckNewOrder, SwitchTrader, SwitchAll
    <3> QED BY <1>2, <2>1, <3>1
  <2> QED BY <1>6, <1>7, <1>8, <1>9, <2>1, <2>2 DEF WithoutTrade
<1>10. CASE \E mark \in Marks : MarkToMarket(mark)
  BY <1>2, <1>10 DEF MarkToMarket, vars
<1>11. CASE UNCHANGED session_vars
  BY <1>2, <1>11 DEF session_vars, vars
<1> QED BY <1>3, <1>4, <1>9, <1>10, <1>11 DEF SessionNext

\* Whatever orders, cancels and replacements follow each other, subscribers have
\* of each symbol the top and the depth of its book, in order, the volume-weighted
\* price of its last trades and its newest spread; if a depth has any levels.
THEOREM FeedsFollowBooks ==
  ASSUME L2Depth > 0
  PROVE  SessionSpec => []FeedsCurrent
<1>1. SessionInit => FeedInv
  <2> SUFFICES ASSUME SessionInit PROVE FeedInv
    OBVIOUS
  <2>1. /\ books = <<>> /\ checked = {} /\ l1 = <<>> /\ l2 = <<>>
        /\ prints = [s \in Symbol |-> <<>>]
    BY DEF SessionInit, Init
  <2>2. EngineInv
    BY <2>1 DEF EngineInv
  <2>3. DOMAIN books = {} /\ DOMAIN l1 = {} /\ DOMAIN l2 = {}
    BY <2>1
  <2>4. prints \in [Symbol -> Seq(Book!Trade)] /\ \A s \in Symbol : prints[s] = <<>>
    BY <2>1
  <2> QED BY <2>1, <2>2, <2>3, <2>4 DEF FeedInv
<1>2. FeedInv /\ [SessionNext]_session_vars => FeedInv'
  BY NextFeeds
<1>3. FeedInv => FeedsCurrent
  <2> SUFFICES ASSUME FeedInv PROVE FeedsCurrent
    OBVIOUS
  <2>1. ASSUME NEW symbol \in DOMAIN books
        PROVE  LET tob == l1[symbol].last_tob
               IN  /\ tob = TopOfBook(books[symbol])
                   /\ symbol \notin DOMAIN l2 => ~tob.valid
                   /\ symbol \in DOMAIN l2 => \A side \in Side :
                        LET levels == l2[symbol][side]
                            best   == IF side = "Buy" THEN tob.best_bid ELSE tob.best_ask
                        IN  /\ best = IF levels = <<>> THEN NoLevel ELSE Head(levels)
                            /\ \A i, j \in DOMAIN levels :
                                 i < j => Better(side, levels[i].price, levels[j].price)
    <3> DEFINE b == books[symbol]
               tob == l1[symbol].last_tob
    <3>1. Shown(symbol) /\ SoundBook(b)
      BY DEF FeedInv, EngineInv
    <3>2. tob = TopOfBook(b)
      BY <3>1 DEF Shown, Follows
    <3>3. ASSUME symbol \notin DOMAIN l2 PROVE ~tob.valid
      <4>1. b = EmptyBook
        BY <3>1, <3>3 DEF Shown
      <4>2. \A side \in Side : DOMAIN EmptyBook.levels[side] = {}
        BY DEF EmptyBook
      <4>3. BestLevel(EmptyBook, "Buy") = NoLevel /\ BestLevel(EmptyBook, "Sell") = NoLevel
        BY <4>2 DEF BestLevel, Side
      <4>4. ~TopOfBook(EmptyBook).valid
        BY <4>3 DEF TopOfBook
      <4> QED BY <3>2, <4>1, <4>4
    <3>4. ASSUME symbol \in DOMAIN l2, NEW side \in Side
          PROVE  LET levels == l2[symbol][side]
                     best   == IF side = "Buy" THEN tob.best_bid ELSE tob.best_ask
                 IN  /\ best = IF levels = <<>> THEN NoLevel ELSE Head(levels)
                     /\ \A i, j \in DOMAIN levels :
                          i < j => Better(side, levels[i].price, levels[j].price)
      <4> DEFINE levels == l2[symbol][side]
                 best   == IF side = "Buy" THEN tob.best_bid ELSE tob.best_ask
      <4>1. levels = depth(b, side, L2Depth)
        BY <3>1, <3>4 DEF Shown, Snapshot
      <4>2. best = BestLevel(b, side)
        BY <3>2 DEF TopOfBook, Side
      <4>3. L2Depth \in Nat \ {0}
        BY L2DepthAssumption
      <4> HIDE DEF levels, best
      <4>4. /\ BestLevel(b, side) = IF levels = <<>> THEN NoLevel ELSE Head(levels)
            /\ \A i, j \in DOMAIN levels :
                 i < j => Better(side, levels[i].price, levels[j].price)
        BY <3>1, <4>1, <4>3, SoundLevels, DepthLemma
      <4> QED BY <4>2, <4>4 DEF levels, best
    <3> QED BY <3>2, <3>3, <3>4
  <2>2. FeedsAgree
    BY <2>1 DEF FeedsAgree
  <2>3. ASSUME NEW symbol \in DOMAIN books
        PROVE  LET last == LastOf(prints[symbol], MaxTradeHistory)
                   tob  == l1[symbol].last_tob
               IN  /\ vwap(l1[symbol]) = <<Value(last), Volume(last)>>
                   /\ tob.spread > 0 => rolling_spread(l1[symbol], 1) = <<tob.spread, 1>>
    <3>1. Follows(l1[symbol], books[symbol], prints[symbol])
      BY DEF FeedInv, Shown
    <3>2. prints[symbol] \in Seq(Book!Trade)
      BY DEF FeedInv, EngineInv
    <3> QED BY <3>1, <3>2, VwapOfLast, NewestSpread DEF Follows
  <2> QED BY <2>2, <2>3 DEF FeedsCurrent
<1> QED BY <1>1, <1>2, <1>3, PTL DEF SessionSpec

----------------------------------------------------------------------------
(* Fractions, by what they are worth. *)

----------------------------------------------------------------------------
(* Fractions in lowest terms. *)

\* What a factor does to both sides of an equation, and back.
LEMMA CancelLemma ==
  ASSUME NEW a \in Int, NEW b \in Int, NEW d \in Nat \ {0}
  PROVE  a * d = b * d <=> a = b
<1>1. ASSUME NEW x \in Int, NEW y \in Int, x < y PROVE x * d < y * d
  <2>1. y - x \in Nat \ {0} /\ y * d = x * d + (y - x) * d
    BY <1>1
  <2>2. (y - x) * d > 0
    BY <2>1
  <2>3. x * d \in Int /\ y * d \in Int
    OBVIOUS
  <2> QED BY <2>1, <2>2, <2>3
<1>2. a * d \in Int /\ b * d \in Int
  OBVIOUS
<1>3. CASE a < b
  BY <1>1, <1>2, <1>3
<1>4. CASE b < a
  BY <1>1, <1>2, <1>4
<1> QED BY <1>3, <1>4

\* A fraction has the value n / d.
Worth(a, n, d) == IsFraction(a) /\ a[1] * d = n * a[2]

\* What divides has no remainder.
LEMMA DividesLemma ==
  ASSUME NEW n \in Int, NEW c \in Nat \ {0}, n % c = 0
  PROVE  n \div c \in Int /\ n = (n \div c) * c
OBVIOUS

LEMMA WholeLemma ==
  ASSUME NEW k \in Int, NEW c \in Nat \ {0}
  PROVE  (k * c) % c = 0 /\ (k * c) \div c = k /\ c % c = 0 /\ c \div c = 1
OBVIOUS

\* Dividing by the greatest common divisor keeps the value.
LEMMA FractionWorth ==
  ASSUME NEW n \in Int, NEW d \in Nat \ {0}
  PROVE  Worth(Fraction(n, d), n, d)
<1> DEFINE S == {k \in 1..d : n % k = 0 /\ d % k = 0}
           c == Max(S)
           a == n \div c
           b == d \div c
<1>1. n % 1 = 0 /\ d % 1 = 0 /\ 1 \in 1..d
  OBVIOUS
<1>2. c \in S
  <2>1. S \in SUBSET (1..d) /\ S # {}
    BY <1>1
  <2> HIDE DEF S
  <2> QED BY <2>1, MaxLemma
<1>3. c \in Nat \ {0} /\ n % c = 0 /\ d % c = 0
  BY <1>2
<1>4. Fraction(n, d) = <<a, b>>
  BY DEF Fraction
<1> HIDE DEF S, c
<1>5. a \in Int /\ n = a * c /\ b \in Int /\ d = b * c
  BY <1>3, DividesLemma
<1> HIDE DEF a, b
<1>6. b \in Nat \ {0}
  <2>1. b <= 0 => b * c <= 0
    BY <1>3, <1>5
  <2> QED BY <1>5, <2>1
<1>7. a * d = n * b
  BY <1>3, <1>5, <1>6
<1> QED BY <1>4, <1>5, <1>6, <1>7 DEF Worth, IsFraction

\* A fraction that is worth a whole number is that number.
LEMMA FractionWhole ==
  ASSUME NEW k \in Int, NEW d \in Nat \ {0}
  PROVE  Fraction(k * d, d) = <<k, 1>>
<1> DEFINE n == k * d
           S == {i \in 1..d : n % i = 0 /\ d % i = 0}
           c == Max(S)
<1>1. d \in S /\ \A i \in S : i <= d
  BY WholeLemma
<1>2. S \in SUBSET (1..d)
  OBVIOUS
<1>3. Fraction(n, d) = <<n \div c, d \div c>>
  BY DEF Fraction
<1> HIDE DEF S
<1>4. c = d
  <2>1. c \in S /\ \A i \in S : i <= c
    BY <1>1, <1>2, MaxLemma
  <2> HIDE DEF c
  <2>2. c \in Nat /\ d <= c /\ c <= d
    BY <1>1, <1>2, <2>1
  <2> QED BY <2>2
<1> HIDE DEF c
<1> QED BY <1>3, <1>4, WholeLemma

\* The value of a sum.
LEMMA PlusWorth ==
  ASSUME NEW d \in Nat \ {0}, NEW m \in Int, NEW n \in Int,
         NEW a, Worth(a, m, d), NEW b, Worth(b, n, d)
  PROVE  Worth(Plus(a, b), m + n, d)
<1> DEFINE a1 == a[1]
           a2 == a[2]
           b1 == b[1]
           b2 == b[2]
           f == a1 * b2 + b1 * a2
           e == a2 * b2
           s == Fraction(f, e)
<1>1. /\ a1 \in Int /\ a2 \in Nat \ {0} /\ b1 \in Int /\ b2 \in Nat \ {0}
      /\ a1 * d = m * a2 /\ b1 * d = n * b2
  BY DEF Worth, IsFraction
<1>2. Plus(a, b) = s
  BY DEF Plus
<1> HIDE DEF a1, a2, b1, b2
<1>3. f \in Int /\ e \in Nat \ {0}
  <2>1. a2 * b2 > 0
    BY <1>1
  <2> QED BY <1>1, <2>1
<1>4. f * d = (m + n) * e
  <2>1. f * d = (a1 * d) * b2 + (b1 * d) * a2
    BY <1>1
  <2>2. (m + n) * e = (m * a2) * b2 + (n * b2) * a2
    BY <1>1
  <2> QED BY <1>1, <2>1, <2>2
<1> HIDE DEF f, e
<1>5. IsFraction(s) /\ s[1] * e = f * s[2]
  BY <1>3, FractionWorth DEF Worth
<1> DEFINE s1 == s[1]
           s2 == s[2]
<1>6. s1 \in Int /\ s2 \in Nat \ {0} /\ s1 * e = f * s2
  BY <1>5 DEF IsFraction
<1> HIDE DEF s1, s2
<1>7. s1 * d = (m + n) * s2
  <2>1. (s1 * d) * e = ((m + n) * s2) * e
    <3>1. (s1 * d) * e = (s1 * e) * d
      BY <1>3, <1>6
    <3>2. (f * s2) * d = (f * d) * s2
      BY <1>3, <1>6
    <3>3. ((m + n) * e) * s2 = ((m + n) * s2) * e
      BY <1>3, <1>6
    <3> QED BY <1>4, <1>6, <3>1, <3>2, <3>3
  <2>2. s1 * d \in Int /\ (m + n) * s2 \in Int
    BY <1>6
  <2> QED BY <1>3, <2>1, <2>2, CancelLemma
<1> QED BY <1>2, <1>5, <1>7 DEF Worth, s1, s2

\* The value of a multiple.
LEMMA TimesWorth ==
  ASSUME NEW d \in Nat \ {0}, NEW n \in Int, NEW k \in Int, NEW a, Worth(a, n, d)
  PROVE  Worth(Times(k, a), k * n, d)
<1> DEFINE a1 == a[1]
           a2 == a[2]
           f == k * a1
           s == Fraction(f, a2)
           s1 == s[1]
           s2 == s[2]
<1>1. a1 \in Int /\ a2 \in Nat \ {0} /\ a1 * d = n * a2
  BY DEF Worth, IsFraction
<1>2. Times(k, a) = s
  BY DEF Times
<1> HIDE DEF a1, a2
<1>3. f \in Int
  BY <1>1
<1>4. f * d = (k * n) * a2
  <2>1. f * d = k * (a1 * d) /\ (k * n) * a2 = k * (n * a2)
    BY <1>1
  <2> QED BY <1>1, <2>1
<1> HIDE DEF f
<1>5. IsFraction(s) /\ s1 * a2 = f * s2
  BY <1>1, <1>3, FractionWorth DEF Worth
<1>6. s1 \in Int /\ s2 \in Nat \ {0} /\ k * n \in Int
  BY <1>5 DEF IsFraction
<1> DEFINE kn == k * n
<1>7. kn \in Int /\ f * d = kn * a2
  BY <1>4, <1>6
<1> HIDE DEF s1, s2, kn
<1>8. s1 * d = kn * s2
  <2>1. (s1 * d) * a2 = (kn * s2) * a2
    <3>1. (s1 * d) * a2 = (s1 * a2) * d
      BY <1>1, <1>6
    <3>2. (f * s2) * d = (f * d) * s2
      BY <1>3, <1>6
    <3>3. (kn * a2) * s2 = (kn * s2) * a2
      BY <1>1, <1>6, <1>7
    <3> QED BY <1>5, <1>7, <3>1, <3>2, <3>3
  <2>2. s1 * d \in Int /\ kn * s2 \in Int
    BY <1>6, <1>7
  <2> QED BY <1>1, <2>1, <2>2, CancelLemma
<1> QED BY <1>2, <1>5, <1>8 DEF Worth, s1, s2, kn

\* m and n, of d to the one, are k.
Balanced(m, n, k, d) == m + n = k * d

Whole(a, k) == a = <<k, 1>>

\* A sum of fractions that is worth a whole number is that number.
LEMMA PlusWhole ==
  ASSUME NEW d \in Nat \ {0}, NEW m \in Int, NEW n \in Int, NEW k \in Int, Balanced(m, n, k, d),
         NEW a, Worth(a, m, d), NEW b, Worth(b, n, d)
  PROVE  Whole(Plus(a, b), k)
<1> DEFINE a1 == a[1]
           a2 == a[2]
           b1 == b[1]
           b2 == b[2]
           f == a1 * b2 + b1 * a2
           e == a2 * b2
<1>1. /\ a1 \in Int /\ a2 \in Nat \ {0} /\ b1 \in Int /\ b2 \in Nat \ {0}
      /\ a1 * d = m * a2 /\ b1 * d = n * b2
  BY DEF Worth, IsFraction
<1>2. Plus(a, b) = Fraction(f, e)
  BY DEF Plus
<1> HIDE DEF a1, a2, b1, b2
<1>3. f \in Int /\ e \in Nat \ {0}
  <2>1. a2 * b2 > 0
    BY <1>1
  <2> QED BY <1>1, <2>1
<1>4. f * d = (m + n) * e
  <2>1. f * d = (a1 * d) * b2 + (b1 * d) * a2
    BY <1>1
  <2>2. (m + n) * e = (m * a2) * b2 + (n * b2) * a2
    BY <1>1
  <2> QED BY <1>1, <2>1, <2>2
<1> HIDE DEF f, e
<1>5. f = k * e
  <2>1. f * d = (k * e) * d
    <3>1. (k * d) * e = (k * e) * d
      BY <1>3
    <3>2. m + n = k * d
      BY DEF Balanced
    <3> QED BY <1>4, <3>1, <3>2
  <2>2. k * e \in Int
    BY <1>3
  <2> QED BY <1>3, <2>1, <2>2, CancelLemma
<1> QED BY <1>2, <1>3, <1>5, FractionWhole DEF Whole

\* Sums and multiples of fractions are fractions.
LEMMA FractionsLemma ==
  ASSUME NEW a, IsFraction(a)
  PROVE  /\ \A k \in Int : IsFraction(Times(k, a))
         /\ \A b : IsFraction(b) => IsFraction(Plus(a, b))
<1> DEFINE a1 == a[1]
           a2 == a[2]
<1>1. a1 \in Int /\ a2 \in Nat \ {0}
  BY DEF IsFraction
<1>2. ASSUME NEW k \in Int PROVE IsFraction(Times(k, a))
  <2>1. Worth(a, a1, a2)
    BY DEF Worth
  <2> HIDE DEF a1, a2
  <2> QED BY <1>1, <2>1, TimesWorth DEF Worth
<1>3. ASSUME NEW b, IsFraction(b) PROVE IsFraction(Plus(a, b))
  <2> DEFINE b1 == b[1]
             b2 == b[2]
             f == a1 * b2
             g == b1 * a2
             d == a2 * b2
  <2>1. b1 \in Int /\ b2 \in Nat \ {0}
    BY <1>3 DEF IsFraction
  <2>2. f \in Int /\ g \in Int /\ d \in Nat \ {0} /\ a1 * d = f * a2 /\ b1 * d = g * b2
    <3> HIDE DEF a1, a2, b1, b2
    <3>1. a2 * b2 > 0
      BY <1>1, <2>1
    <3> QED BY <1>1, <2>1, <3>1
  <2>3. Worth(a, f, d) /\ Worth(b, g, d)
    <3> HIDE DEF f, g, d
    <3> QED BY <1>3, <2>2 DEF Worth
  <2> HIDE DEF f, g, d
  <2> QED BY <2>2, <2>3, PlusWorth DEF Worth
<1> QED BY <1>2, <1>3

\* A price is worth itself.
LEMMA PriceWorth ==
  ASSUME NEW price \in Int, NEW d \in Nat \ {0}
  PROVE  Worth(<<price, 1>>, price * d, d)
BY DEF Worth, IsFraction

\* A gain is worth the difference of the prices, seen from its side.
LEMMA GainWorth ==
  ASSUME NEW side \in Side, NEW d \in Nat \ {0}, NEW m \in Int, NEW n \in Int,
         NEW from, Worth(from, m, d), NEW to, Worth(to, n, d)
  PROVE  Worth(Gain(side, from, to), Signed(side, n - m), d)
<1> DEFINE rise == Plus(to, Times(-1, from))
<1>1. Worth(Times(-1, from), -1 * m, d)
  BY TimesWorth
<1>2. -1 * m = -m /\ -m \in Int /\ n + -m = n - m /\ n - m \in Int /\ -1 * (n - m) = -(n - m)
  OBVIOUS
<1>3. Worth(rise, n - m, d)
  <2>1. Worth(rise, n + -m, d)
    BY <1>1, <1>2, PlusWorth
  <2> QED BY <1>2, <2>1
<1> HIDE DEF rise
<1>4. Worth(Times(-1, rise), -(n - m), d)
  <2>1. Worth(Times(-1, rise), -1 * (n - m), d)
    BY <1>2, <1>3, TimesWorth
  <2> QED BY <1>2, <2>1
<1> QED BY <1>3, <1>4 DEF Gain, Signed, rise

----------------------------------------------------------------------------
(* Positions and what they are worth. *)

PositionType ==
  [net_qty : Int, opened : [Side -> [qty : Nat, cost : Int]],
   realized_pnl : Int \X (Nat \ {0}), unrealized_pnl : Int \X (Nat \ {0})]

EntryType == [net : Int, cash : Int, phase : {"opening", "closing", "reopened"}]

\* Nothing has been closed yet: what was opened is what is held and was paid.
Building(pos, e) ==
  LET bought == pos.opened["Buy"]
      sold   == pos.opened["Sell"]
  IN  /\ pos.realized_pnl[1] = 0
      /\ bought.qty = 0 => bought.cost = 0
      /\ sold.qty = 0 => sold.cost = 0
      /\ bought.qty = 0 \/ sold.qty = 0
      /\ e.net = bought.qty - sold.qty
      /\ e.cash = sold.cost - bought.cost

\* The realised profit is the cash less what is still held, at the average price
\* of the side on which it was opened.
Valued(pos, e, side) ==
  LET o == pos.opened[side]
  IN  /\ o.qty > 0 /\ Held(pos, side) >= 0
      /\ Worth(pos.realized_pnl, e.cash * o.qty + e.net * o.cost, o.qty)

Agrees(pos, e) ==
  /\ pos \in PositionType /\ e \in EntryType
  /\ pos.net_qty = e.net
  /\ e.phase = "opening" => Building(pos, e)
  /\ e.phase = "closing" => \E side \in Side : Valued(pos, e, side)

LEMMA PositionFields ==
  ASSUME NEW pos \in PositionType, NEW side \in Side
  PROVE  /\ pos.net_qty \in Int /\ IsFraction(pos.realized_pnl) /\ IsFraction(pos.unrealized_pnl)
         /\ pos.opened[side].qty \in Nat /\ pos.opened[side].cost \in Int
         /\ Held(pos, side) \in Int /\ Held(pos, Opposite(side)) = -Held(pos, side)
         /\ Opposite(side) \in Side /\ Opposite(side) # side
<1>1. pos.opened[side] \in [qty : Nat, cost : Int]
  BY DEF PositionType
<1> QED BY <1>1 DEF PositionType, IsFraction, Held, Side, Opposite

\* An average price is worth the cost of what it is the average of.
LEMMA AverageWorth ==
  ASSUME NEW pos \in PositionType, NEW side \in Side
  PROVE  LET o == pos.opened[side]
         IN  /\ IsFraction(AveragePrice(pos, side))
             /\ o.qty > 0 => Worth(AveragePrice(pos, side), o.cost, o.qty)
<1> DEFINE q == pos.opened[side].qty
           c == pos.opened[side].cost
<1>1. q \in Nat /\ c \in Int
  BY PositionFields
<1>2. AveragePrice(pos, side) = IF q = 0 THEN <<0, 1>> ELSE Fraction(c, q)
  BY DEF AveragePrice
<1> HIDE DEF q, c
<1>3. CASE q = 0
  BY <1>1, <1>2, <1>3 DEF IsFraction, q
<1>4. CASE q # 0
  <2>1. Worth(Fraction(c, q), c, q)
    BY <1>1, <1>4, FractionWorth
  <2> QED BY <1>2, <1>4, <2>1 DEF Worth, q, c
<1> QED BY <1>3, <1>4

LEMMA GainFraction ==
  ASSUME NEW side \in Side, NEW from, IsFraction(from), NEW to, IsFraction(to)
  PROVE  IsFraction(Gain(side, from, to))
<1>1. IsFraction(Times(-1, from))
  BY FractionsLemma
<1>2. IsFraction(Plus(to, Times(-1, from)))
  BY <1>1, FractionsLemma
<1>3. IsFraction(Times(-1, Plus(to, Times(-1, from))))
  BY <1>2, FractionsLemma
<1> QED BY <1>2, <1>3 DEF Gain

\* What has been opened and not closed is valued, too.
LEMMA BuildingValued ==
  ASSUME NEW pos, NEW e, Agrees(pos, e), Building(pos, e), NEW side \in Side, Held(pos, side) > 0
  PROVE  Valued(pos, e, side) /\ Held(pos, side) = pos.opened[side].qty
<1> DEFINE q == pos.opened[side].qty
           c == pos.opened[side].cost
           r == pos.realized_pnl
<1>1. /\ pos \in PositionType /\ q \in Nat /\ c \in Int /\ IsFraction(r)
      /\ pos.net_qty = e.net /\ e.net \in Int /\ e.cash \in Int
  BY PositionFields DEF Agrees, EntryType
<1>2. /\ Held(pos, side) = q /\ q > 0 /\ r[1] = 0
      /\ e.net = Signed(side, q) /\ e.cash = -Signed(side, c)
  <2> DEFINE b == pos.opened["Buy"]
             s == pos.opened["Sell"]
  <2>1. b.qty \in Nat /\ b.cost \in Int /\ s.qty \in Nat /\ s.cost \in Int
    BY <1>1, PositionFields DEF Side
  <2> QED BY <1>1, <2>1 DEF Building, Held, Signed, Side
<1> HIDE DEF q, c
<1>3. e.cash * q + e.net * c = 0
  <2>1. CASE side = "Buy"
    <3>1. e.net = q /\ e.cash = -c
      BY <1>2, <2>1 DEF Signed
    <3>2. (-c) * q + q * c = 0
      BY <1>1
    <3> QED BY <3>1, <3>2
  <2>2. CASE side # "Buy"
    <3>1. e.net = -q /\ e.cash = -(-c)
      BY <1>2, <2>2 DEF Signed
    <3>2. (-(-c)) * q + (-q) * c = 0
      BY <1>1
    <3> QED BY <3>1, <3>2
  <2> QED BY <2>1, <2>2
<1>4. Worth(r, 0, q)
  <2>1. r[1] * q = 0 * r[2]
    BY <1>1, <1>2 DEF IsFraction
  <2> QED BY <1>1, <2>1 DEF Worth
<1> DEFINE n == e.cash * q + e.net * c
<1>5. Worth(r, n, q)
  BY <1>3, <1>4
<1>6. Held(pos, side) >= 0
  BY <1>1, <1>2
<1> HIDE DEF r, n
<1>7. Valued(pos, e, side) <=> q > 0 /\ Held(pos, side) >= 0 /\ Worth(r, n, q)
  BY DEF Valued, q, c, r, n
<1> QED BY <1>2, <1>5, <1>6, <1>7 DEF q

----------------------------------------------------------------------------
(* A fill. *)

\* What a fill closes.
Closed(pos, side, qty) ==
  IF Held(pos, side) < 0 THEN LesserOf(qty, -Held(pos, side)) ELSE 0

LEMMA UpdateFields ==
  ASSUME NEW pos \in PositionType, NEW side \in Side, NEW qty \in Nat, NEW price \in Int
  PROVE  LET other == Opposite(side)
             new   == update_position(pos, side, qty, price)
         IN  /\ new \in PositionType
             /\ new.net_qty = pos.net_qty + Signed(side, qty)
             /\ new.unrealized_pnl = pos.unrealized_pnl
             /\ IsFraction(Gain(other, AveragePrice(pos, other), <<price, 1>>))
             /\ new.realized_pnl = Plus(pos.realized_pnl,
                  Times(Closed(pos, side, qty), Gain(other, AveragePrice(pos, other), <<price, 1>>)))
             /\ new.opened[other] = pos.opened[other]
             /\ new.opened[side] =
                  IF Held(pos, side) < 0 THEN pos.opened[side]
                  ELSE [qty  |-> pos.opened[side].qty + qty,
                        cost |-> pos.opened[side].cost + qty * price]
<1> DEFINE other  == Opposite(side)
           held   == Held(pos, side)
           closed == IF held < 0 THEN LesserOf(qty, -held) ELSE 0
           gain   == Gain(other, AveragePrice(pos, other), <<price, 1>>)
           real   == Plus(pos.realized_pnl, Times(closed, gain))
           o      == pos.opened[side]
           more   == IF held >= 0 THEN [qty |-> o.qty + qty, cost |-> o.cost + qty * price] ELSE o
           open   == [pos.opened EXCEPT ![side] = more]
           net    == pos.net_qty + Signed(side, qty)
           new    == update_position(pos, side, qty, price)
<1>1. /\ held \in Int /\ other \in Side /\ other # side /\ o.qty \in Nat /\ o.cost \in Int
      /\ IsFraction(pos.realized_pnl) /\ pos.net_qty \in Int
  BY PositionFields
<1>2. closed \in Nat
  <2> HIDE DEF held
  <2> QED BY <1>1 DEF LesserOf
<1>3. IsFraction(gain)
  <2>1. IsFraction(<<price, 1>>)
    BY DEF IsFraction
  <2> QED BY <1>1, <2>1, AverageWorth, GainFraction
<1>4. IsFraction(real)
  <2>1. IsFraction(Times(closed, gain))
    BY <1>2, <1>3, FractionsLemma
  <2> QED BY <1>1, <2>1, FractionsLemma
<1>5. more \in [qty : Nat, cost : Int]
  <2>1. o \in [qty : Nat, cost : Int] /\ qty * price \in Int
    BY DEF PositionType
  <2> HIDE DEF o
  <2>2. o.qty + qty \in Nat /\ o.cost + qty * price \in Int
    BY <2>1
  <2> HIDE DEF held
  <2> QED BY <2>1, <2>2
<1>6. net \in Int
  BY <1>1 DEF Signed
<1>7. new = [pos EXCEPT !.net_qty = net, !.realized_pnl = real, !.opened = open]
  <2>1. new = [pos EXCEPT !.net_qty = pos.net_qty + (IF side = "Buy" THEN qty ELSE -qty),
                          !.realized_pnl = real, !.opened[side] = more]
    BY DEF update_position
  <2>2. (IF side = "Buy" THEN qty ELSE -qty) = Signed(side, qty)
    BY DEF Signed
  <2> HIDE DEF real, more
  <2> QED BY <2>1, <2>2 DEF PositionType
<1> HIDE DEF new, real, more, net
<1>8. open \in [Side -> [qty : Nat, cost : Int]] /\ open[side] = more
      /\ open[other] = pos.opened[other]
  <2> HIDE DEF other
  <2> QED BY <1>1, <1>5 DEF PositionType
<1> HIDE DEF open
<1>9. new = [net_qty |-> net, opened |-> open, realized_pnl |-> real,
             unrealized_pnl |-> pos.unrealized_pnl]
  BY <1>7 DEF PositionType
<1>10. new \in PositionType
  <2>1. real \in Int \X (Nat \ {0}) /\ pos.unrealized_pnl \in Int \X (Nat \ {0})
    BY <1>4 DEF IsFraction, PositionType
  <2> QED BY <1>6, <1>8, <1>9, <2>1 DEF PositionType
<1>11. /\ new.net_qty = net /\ new.opened = open /\ new.realized_pnl = real
       /\ new.unrealized_pnl = pos.unrealized_pnl
  BY <1>9
<1>12. more = IF held < 0 THEN o ELSE [qty |-> o.qty + qty, cost |-> o.cost + qty * price]
  <2>1. held < 0 <=> ~(held >= 0)
    <3> HIDE DEF held
    <3> QED BY <1>1
  <2> QED BY <2>1 DEF more
<1>13. closed = Closed(pos, side, qty)
  BY DEF Closed
<1> HIDE DEF closed
<1> QED BY <1>13, <1>2, <1>3, <1>8, <1>10, <1>11, <1>12 DEF new, net, real

\* No times a fraction is worth nothing.
LEMMA NoTimesWorth ==
  ASSUME NEW a, IsFraction(a), NEW d \in Nat \ {0}
  PROVE  Worth(Times(0, a), 0, d)
<1> DEFINE t == Times(0, a)
           a1 == a[1]
           a2 == a[2]
<1>1. a1 \in Int /\ a2 \in Nat \ {0} /\ Worth(a, a1, a2)
  BY DEF IsFraction, Worth
<1>2. IsFraction(t)
  BY FractionsLemma
<1> HIDE DEF a1, a2
<1>3. Worth(t, 0 * a1, a2)
  BY <1>1, TimesWorth
<1> HIDE DEF t
<1> DEFINE t1 == t[1]
           t2 == t[2]
<1>4. t1 * a2 = (0 * a1) * t2 /\ t1 \in Int /\ t2 \in Nat
  BY <1>2, <1>3 DEF Worth, IsFraction
<1>5. t1 = 0
  <2> HIDE DEF t1, t2
  <2>1. t1 * a2 = 0
    BY <1>1, <1>4
  <2> QED BY <1>1, <1>4, <2>1
<1>6. t1 * d = 0 * t2
  <2> HIDE DEF t1, t2
  <2> QED BY <1>4, <1>5
<1> QED BY <1>2, <1>6 DEF Worth, t

Filled(e, side, qty, price) ==
  [net   |-> e.net + Signed(side, qty),
   cash  |-> e.cash - Signed(side, qty * price),
   phase |-> Phase(e, side, qty)]

LEMMA FilledType ==
  ASSUME NEW e \in EntryType, NEW side \in Side, NEW qty \in Nat, NEW price \in Int
  PROVE  /\ Filled(e, side, qty, price) \in EntryType
         /\ e.net \in Int /\ e.cash \in Int /\ qty * price \in Int
<1>1. qty * price \in Int /\ e.net \in Int /\ e.cash \in Int
  BY DEF EntryType
<1> DEFINE v == qty * price
           n == e.net + Signed(side, qty)
           c == e.cash - Signed(side, v)
           p == Phase(e, side, qty)
<1>2. n \in Int /\ c \in Int
  <2> HIDE DEF v
  <2> QED BY <1>1 DEF Signed, v
<1>3. p \in {"opening", "closing", "reopened"}
  BY DEF Phase, EntryType
<1>4. Filled(e, side, qty, price) = [net |-> n, cash |-> c, phase |-> p]
  BY DEF Filled
<1> HIDE DEF n, c, p
<1> QED BY <1>1, <1>2, <1>3, <1>4 DEF EntryType, v

\* A fill that closes nothing adds to what is being built.
LEMMA FillBuilds ==
  ASSUME NEW pos, NEW e, Agrees(pos, e), Building(pos, e),
         NEW side \in Side, NEW qty \in Nat, NEW price \in Int, Held(pos, side) >= 0
  PROVE  Building(update_position(pos, side, qty, price), Filled(e, side, qty, price))
<1> DEFINE other == Opposite(side)
           new   == update_position(pos, side, qty, price)
           new_e == Filled(e, side, qty, price)
           gain  == Gain(other, AveragePrice(pos, other), <<price, 1>>)
           q     == pos.opened[side].qty
           c     == pos.opened[side].cost
           p     == pos.opened[other].qty
           d     == pos.opened[other].cost
           r     == pos.realized_pnl
           v     == qty * price
<1>1. /\ pos \in PositionType /\ e \in EntryType /\ pos.net_qty = e.net
      /\ e.net \in Int /\ e.cash \in Int /\ v \in Int
  BY FilledType DEF Agrees
<1>2. /\ q \in Nat /\ c \in Int /\ p \in Nat /\ d \in Int /\ IsFraction(r)
      /\ other \in Side /\ other # side
  BY <1>1, PositionFields
<1>3. /\ IsFraction(gain) /\ new.realized_pnl = Plus(r, Times(0, gain))
      /\ new.opened[other] = pos.opened[other]
      /\ new.opened[side] = [qty |-> q + qty, cost |-> c + v]
  <2>1. ~(Held(pos, side) < 0)
    BY <1>1, PositionFields
  <2>2. Closed(pos, side, qty) = 0
    BY <2>1 DEF Closed
  <2> QED BY <1>1, <2>1, <2>2, UpdateFields
<1>4. /\ r[1] = 0 /\ (q = 0 => c = 0) /\ (p = 0 => d = 0) /\ (p = 0 \/ q = 0)
      /\ e.net = Signed(side, q - p) /\ e.cash = -Signed(side, c - d)
  <2> DEFINE b == pos.opened["Buy"]
             s == pos.opened["Sell"]
  <2>1. b.qty \in Nat /\ b.cost \in Int /\ s.qty \in Nat /\ s.cost \in Int
    BY <1>1, PositionFields DEF Side
  <2>2. CASE side = "Buy"
    <3>1. other = "Sell"
      BY <2>2 DEF Opposite
    <3> QED BY <1>1, <2>1, <2>2, <3>1 DEF Building, Signed
  <2>3. CASE side = "Sell"
    <3>1. other = "Buy"
      BY <2>3 DEF Opposite
    <3> QED BY <1>1, <2>1, <2>3, <3>1 DEF Building, Signed
  <2> QED BY <2>2, <2>3 DEF Side
<1>5. p = 0 /\ d = 0
  <2>1. Held(pos, side) = q - p
    <3> HIDE DEF q, p
    <3> QED BY <1>1, <1>2, <1>4 DEF Held, Signed
  <2> HIDE DEF q, p, c, d
  <2> QED BY <1>2, <1>4, <2>1
<1>6. new.realized_pnl[1] = 0
  <2> HIDE DEF r, gain, new
  <2> DEFINE g2 == gain[2]
             r2 == r[2]
  <2>1. g2 \in Nat \ {0} /\ r2 \in Nat \ {0} /\ gain[1] \in Int
    BY <1>2, <1>3 DEF IsFraction
  <2>2. Worth(r, 0, r2) /\ Worth(<<0, 1>>, 0, r2)
    <3>1. IsFraction(<<0, 1>>)
      BY DEF IsFraction
    <3> HIDE DEF r2
    <3>2. 0 * r2 = 0 /\ 0 * 1 = 0
      BY <2>1
    <3> QED BY <1>2, <1>4, <2>1, <3>1, <3>2 DEF Worth, r2
  <2>3. Worth(Times(0, gain), 0, r2)
    <3> HIDE DEF r2
    <3> QED BY <1>3, <2>1, NoTimesWorth
  <2> HIDE DEF r2
  <2>4. 0 + 0 = 0 * r2
    BY <2>1
  <2>5. Plus(r, Times(0, gain)) = <<0, 1>>
    <3> DEFINE m == 0
               n == 0
               k == 0
               y == Times(0, gain)
    <3>1. /\ m \in Int /\ n \in Int /\ k \in Int /\ Balanced(m, n, k, r2)
          /\ Worth(r, m, r2) /\ Worth(y, n, r2)
      BY <2>1, <2>2, <2>3, <2>4 DEF Balanced
    <3> HIDE DEF m, n, k, y
    <3>2. Whole(Plus(r, y), k)
      BY <2>1, <3>1, PlusWhole
    <3> QED BY <3>2 DEF k, y, Whole
  <2> QED BY <1>3, <2>5
<1>7. new_e.net = e.net + Signed(side, qty) /\ new_e.cash = e.cash - Signed(side, v)
  BY DEF Filled
<1>8. /\ new.opened[other].qty = 0 /\ new.opened[other].cost = 0
      /\ new.opened[side].qty = q + qty /\ new.opened[side].cost = c + v
  BY <1>3, <1>5
<1>9. q + qty = 0 => c + v = 0
  <2>1. qty = 0 => v = 0
    OBVIOUS
  <2> HIDE DEF q, c, v
  <2> QED BY <1>1, <1>2, <1>4, <2>1
<1> HIDE DEF q, c, v, p, d, new, new_e
<1>10. new_e.net = Signed(side, q + qty) /\ new_e.cash = -Signed(side, c + v)
  BY <1>1, <1>2, <1>4, <1>5, <1>7 DEF Signed
<1>11. q + qty \in Nat /\ c + v \in Int
  BY <1>1, <1>2
<1> DEFINE f == q + qty
           w == c + v
<1> HIDE DEF f, w
<1>12. ASSUME side = "Buy" PROVE Building(new, new_e)
  <2>1. other = "Sell"
    BY <1>12 DEF Opposite
  <2> QED BY <1>6, <1>8, <1>9, <1>10, <1>11, <1>12, <2>1 DEF Building, Signed, f, w
<1>13. ASSUME side = "Sell" PROVE Building(new, new_e)
  <2>1. other = "Buy"
    BY <1>13 DEF Opposite
  <2> QED BY <1>6, <1>8, <1>9, <1>10, <1>11, <1>13, <2>1 DEF Building, Signed, f, w
<1> QED BY <1>12, <1>13 DEF Side, new, new_e

\* A fill that closes part of what is held realises what it gains on it.
LEMMA FillCloses ==
  ASSUME NEW pos, NEW e, Agrees(pos, e), e.phase # "reopened",
         NEW side \in Side, NEW qty \in Nat, NEW price \in Int,
         Held(pos, side) < 0, qty <= -Held(pos, side)
  PROVE  Valued(update_position(pos, side, qty, price), Filled(e, side, qty, price),
                Opposite(side))
<1> DEFINE other == Opposite(side)
           new   == update_position(pos, side, qty, price)
           new_e == Filled(e, side, qty, price)
           avg   == AveragePrice(pos, other)
           gain  == Gain(other, avg, <<price, 1>>)
           q     == pos.opened[other].qty
           c     == pos.opened[other].cost
           r     == pos.realized_pnl
           held  == Held(pos, side)
           net   == e.net
           cash  == e.cash
<1>1. /\ pos \in PositionType /\ e \in EntryType /\ pos.net_qty = net
      /\ net \in Int /\ cash \in Int
  BY FilledType DEF Agrees
<1>2. /\ held \in Int /\ held < 0 /\ qty <= -held /\ Held(pos, other) = -held
      /\ other \in Side /\ other # side /\ q \in Nat /\ c \in Int
  BY <1>1, PositionFields
<1>3. Valued(pos, e, other)
  <2>1. Held(pos, other) > 0
    <3> HIDE DEF held, other
    <3> QED BY <1>2
  <2>2. CASE e.phase = "opening"
    <3>1. Building(pos, e)
      BY <2>2 DEF Agrees
    <3> QED BY <1>2, <2>1, <3>1, BuildingValued
  <2>3. CASE e.phase = "closing"
    <3>1. PICK s \in Side : Valued(pos, e, s)
      BY <2>3 DEF Agrees
    <3>2. Held(pos, s) >= 0
      BY <3>1 DEF Valued
    <3>3. s # side
      <4> SUFFICES ASSUME s = side PROVE FALSE
        OBVIOUS
      <4>1. held >= 0
        BY <3>2
      <4> HIDE DEF held
      <4> QED BY <1>2, <4>1
    <3>4. s = other
      BY <3>3 DEF Side, Opposite
    <3> QED BY <3>1, <3>4
  <2> QED BY <1>1, <2>2, <2>3 DEF EntryType
<1>4. q > 0 /\ Worth(r, cash * q + net * c, q)
  BY <1>3 DEF Valued
<1>5. /\ new.opened[other] = pos.opened[other] /\ new.net_qty = net + Signed(side, qty)
      /\ new \in PositionType /\ new.realized_pnl = Plus(r, Times(qty, gain))
  <2>1. Closed(pos, side, qty) = qty
    <3>1. Closed(pos, side, qty) = IF held < 0 THEN LesserOf(qty, -held) ELSE 0
      BY DEF Closed
    <3> HIDE DEF held
    <3> QED BY <1>2, <3>1 DEF LesserOf
  <2>2. /\ new.opened[other] = pos.opened[other] /\ new \in PositionType
        /\ new.net_qty = pos.net_qty + Signed(side, qty)
        /\ new.realized_pnl = Plus(r, Times(Closed(pos, side, qty), gain))
    BY <1>1, UpdateFields
  <2> HIDE DEF new, gain
  <2> QED BY <1>1, <2>1, <2>2
<1>6. Worth(avg, c, q) /\ Worth(<<price, 1>>, price * q, q)
  <2>1. Worth(avg, c, q)
    BY <1>1, <1>2, <1>4, AverageWorth
  <2> HIDE DEF q
  <2> QED BY <1>2, <1>4, <2>1, PriceWorth
<1> HIDE DEF q, c, held, other, new, new_e, avg, net, cash
<1> DEFINE rise == price * q - c
           was  == cash * q + net * c
<1>7. rise \in Int /\ was \in Int /\ q \in Nat \ {0} /\ price * q \in Int
  BY <1>1, <1>2, <1>4
<1>8. Worth(gain, Signed(other, rise), q)
  <2> DEFINE n == price * q
  <2>1. n \in Int /\ Worth(<<price, 1>>, n, q) /\ rise = n - c
    BY <1>6, <1>7
  <2> HIDE DEF n, rise
  <2>2. Worth(gain, Signed(other, n - c), q)
    <3> DEFINE to == <<price, 1>>
    <3>1. Worth(to, n, q)
      BY <2>1
    <3> HIDE DEF to
    <3>2. Worth(Gain(other, avg, to), Signed(other, n - c), q)
      BY <1>2, <1>6, <1>7, <2>1, <3>1, GainWorth
    <3> QED BY <3>2 DEF to
  <2> QED BY <2>1, <2>2
<1> HIDE DEF gain
<1> DEFINE g == Signed(other, rise)
<1>9. g \in Int
  <2> HIDE DEF rise
  <2> QED BY <1>7 DEF Signed
<1>10. Worth(new.realized_pnl, was + qty * g, q)
  <2> DEFINE p == qty * g
             y == Times(qty, gain)
  <2> HIDE DEF g, was, r
  <2>1. p \in Int /\ Worth(y, p, q)
    BY <1>7, <1>8, <1>9, TimesWorth DEF g
  <2>2. Worth(r, was, q)
    BY <1>4 DEF was
  <2> HIDE DEF p, y
  <2>3. Worth(Plus(r, y), was + p, q)
    BY <1>7, <2>1, <2>2, PlusWorth
  <2> QED BY <1>5, <2>3 DEF p, y
<1> DEFINE v  == qty * price
           n1 == net + Signed(side, qty)
           c1 == cash - Signed(side, v)
<1>11. new_e.net = n1 /\ new_e.cash = c1
  BY DEF new_e, Filled, net, cash
<1>12. was + qty * g = c1 * q + n1 * c
  <2>1. CASE side = "Buy"
    <3>1. g = -rise /\ n1 = net + qty /\ c1 = cash - v
      BY <2>1 DEF other, Opposite, Signed
    <3>2. was + qty * (-rise) = (cash - v) * q + (net + qty) * c
      BY <1>1, <1>2
    <3> HIDE DEF g, n1, c1, v, rise, was
    <3> QED BY <3>1, <3>2
  <2>2. CASE side # "Buy"
    <3>1. g = rise /\ n1 = net + -qty /\ c1 = cash - -v
      BY <2>2 DEF other, Opposite, Signed
    <3>2. was + qty * rise = (cash - -v) * q + (net + -qty) * c
      BY <1>1, <1>2
    <3> HIDE DEF g, n1, c1, v, rise, was
    <3> QED BY <3>1, <3>2
  <2> QED BY <2>1, <2>2
<1>13. Held(new, other) >= 0
  <2>1. new.net_qty = net + Signed(side, qty) /\ pos.net_qty = net
    BY <1>1, <1>5
  <2>2. CASE side = "Buy"
    <3>1. /\ Held(new, other) = -new.net_qty /\ held = net /\ new.net_qty = net + qty
      BY <1>1, <2>1, <2>2 DEF Held, other, Opposite, held, Signed
    <3> QED BY <1>1, <1>2, <3>1
  <2>3. CASE side # "Buy"
    <3>1. /\ Held(new, other) = new.net_qty /\ held = -net /\ new.net_qty = net + -qty
      BY <1>1, <2>1, <2>3 DEF Held, other, Opposite, held, Signed
    <3> QED BY <1>1, <1>2, <3>1
  <2> QED BY <2>2, <2>3
<1>14. new.opened[other].qty = q /\ new.opened[other].cost = c
  BY <1>5 DEF q, c
<1>15. Worth(new.realized_pnl, new_e.cash * q + new_e.net * c, q)
  <2> HIDE DEF n1, c1, was, g
  <2> QED BY <1>10, <1>11, <1>12
<1>16. Valued(new, new_e, other)
  BY <1>4, <1>13, <1>14, <1>15 DEF Valued
<1> QED BY <1>16 DEF new, new_e, other

\* A fill keeps a position and what its trader has in agreement.
LEMMA FillAgrees ==
  ASSUME NEW pos, NEW e, Agrees(pos, e),
         NEW side \in Side, NEW qty \in Nat, NEW price \in Int
  PROVE  Agrees(update_position(pos, side, qty, price), Filled(e, side, qty, price))
<1> DEFINE new   == update_position(pos, side, qty, price)
           new_e == Filled(e, side, qty, price)
           held  == Held(pos, side)
<1>1. /\ pos \in PositionType /\ e \in EntryType /\ pos.net_qty = e.net
      /\ e.net \in Int
  BY FilledType DEF Agrees
<1>2. held \in Int
  BY <1>1, PositionFields
<1>3. new \in PositionType /\ new.net_qty = e.net + Signed(side, qty)
  <2>1. new \in PositionType /\ new.net_qty = pos.net_qty + Signed(side, qty)
    BY <1>1, UpdateFields
  <2> HIDE DEF new
  <2> QED BY <1>1, <2>1
<1>4. new_e \in EntryType /\ new_e.net = e.net + Signed(side, qty)
      /\ new_e.phase = Phase(e, side, qty)
  <2>1. new_e \in EntryType
    BY <1>1, FilledType
  <2> QED BY <2>1 DEF Filled
<1>5. Phase(e, side, qty) = CASE held >= 0 -> IF e.phase = "closing" THEN "reopened" ELSE e.phase
                              [] qty > -held -> "reopened"
                              [] OTHER -> IF e.phase = "opening" THEN "closing" ELSE e.phase
  BY <1>1 DEF Phase, Held
<1>6. new_e.phase = "opening" => Building(new, new_e)
  <2> SUFFICES ASSUME new_e.phase = "opening" PROVE Building(new, new_e)
    OBVIOUS
  <2>1. held >= 0 /\ e.phase = "opening"
    <3> HIDE DEF held, new_e
    <3> QED BY <1>2, <1>4, <1>5
  <2>2. Building(pos, e)
    BY <2>1 DEF Agrees
  <2> QED BY <2>1, <2>2, FillBuilds
<1>7. new_e.phase = "closing" => \E s \in Side : Valued(new, new_e, s)
  <2> SUFFICES ASSUME new_e.phase = "closing" PROVE \E s \in Side : Valued(new, new_e, s)
    OBVIOUS
  <2>1. held < 0 /\ qty <= -held /\ e.phase # "reopened"
    <3> HIDE DEF held, new_e
    <3> QED BY <1>2, <1>4, <1>5
  <2>2. Valued(new, new_e, Opposite(side))
    BY <2>1, FillCloses
  <2>3. Opposite(side) \in Side
    BY DEF Side, Opposite
  <2> QED BY <2>2, <2>3
<1> HIDE DEF new, new_e
<1>8. Agrees(new, new_e)
  BY <1>3, <1>4, <1>6, <1>7 DEF Agrees
<1> QED BY <1>8 DEF new, new_e

----------------------------------------------------------------------------
(* What a position is worth at a price. *)

\* The side that holds a position.
LEMMA HoldingSide ==
  ASSUME NEW pos, NEW e, Agrees(pos, e), e.phase # "reopened",
         NEW side \in Side, Held(pos, side) > 0
  PROVE  Valued(pos, e, side)
<1>1. pos \in PositionType /\ e \in EntryType
  BY DEF Agrees
<1>2. CASE e.phase = "opening"
  <2>1. Building(pos, e)
    BY <1>2 DEF Agrees
  <2> QED BY <2>1, BuildingValued
<1>3. CASE e.phase = "closing"
  <2>1. PICK s \in Side : Valued(pos, e, s)
    BY <1>3 DEF Agrees
  <2>2. Held(pos, s) >= 0 /\ Held(pos, side) \in Int
        /\ Held(pos, Opposite(side)) = -Held(pos, side)
    BY <1>1, <2>1, PositionFields DEF Valued
  <2>3. s # Opposite(side)
    <3> SUFFICES ASSUME s = Opposite(side) PROVE FALSE
      OBVIOUS
    <3> DEFINE h == Held(pos, side)
    <3>1. h \in Int /\ h > 0 /\ -h >= 0
      BY <2>2
    <3> HIDE DEF h
    <3> QED BY <3>1
  <2>4. s = side
    BY <2>3 DEF Side, Opposite
  <2> QED BY <2>1, <2>4
<1> QED BY <1>1, <1>2, <1>3 DEF EntryType

\* What is held by nobody is worth nothing; the profit is the cash.
LEMMA FlatWorth ==
  ASSUME NEW pos, NEW e, Agrees(pos, e), e.phase # "reopened", pos.net_qty = 0
  PROVE  \E d \in Nat \ {0} : Worth(pos.realized_pnl, e.cash * d, d)
<1>1. /\ pos \in PositionType /\ e \in EntryType /\ e.net = 0 /\ e.cash \in Int
      /\ IsFraction(pos.realized_pnl)
  BY PositionFields DEF Agrees, EntryType, Side
<1>2. CASE e.phase = "opening"
  <2> DEFINE b == pos.opened["Buy"]
             s == pos.opened["Sell"]
             r == pos.realized_pnl
  <2>1. Building(pos, e)
    BY <1>2 DEF Agrees
  <2>2. b.qty \in Nat /\ b.cost \in Int /\ s.qty \in Nat /\ s.cost \in Int
    BY <1>1, PositionFields DEF Side
  <2>3. e.cash = 0 /\ r[1] = 0
    BY <1>1, <2>1, <2>2 DEF Building
  <2>4. r[1] * 1 = (e.cash * 1) * r[2]
    BY <1>1, <2>3 DEF IsFraction
  <2>5. Worth(r, e.cash * 1, 1) /\ 1 \in Nat \ {0}
    BY <1>1, <2>4 DEF Worth
  <2> HIDE DEF r
  <2> DEFINE d == 1
  <2>6. d \in Nat \ {0} /\ Worth(r, e.cash * d, d)
    BY <2>5
  <2> HIDE DEF d
  <2> QED BY <2>6 DEF r
<1>3. CASE e.phase = "closing"
  <2>1. PICK side \in Side : Valued(pos, e, side)
    BY <1>3 DEF Agrees
  <2> DEFINE q == pos.opened[side].qty
             c == pos.opened[side].cost
             r == pos.realized_pnl
  <2>2. q \in Nat /\ c \in Int
    BY <1>1, PositionFields
  <2>3. q > 0 /\ Worth(r, e.cash * q + e.net * c, q)
    BY <2>1 DEF Valued
  <2> HIDE DEF q, c, r
  <2>4. e.cash * q + e.net * c = e.cash * q /\ q \in Nat \ {0}
    BY <1>1, <2>2, <2>3
  <2>5. Worth(r, e.cash * q, q)
    BY <2>3, <2>4
  <2> QED BY <2>4, <2>5 DEF r
<1> QED BY <1>1, <1>2, <1>3 DEF EntryType

\* What mark_to_market makes the unrealised profit.
Marked(pos, price) ==
  LET side == IF pos.net_qty > 0 THEN "Buy" ELSE "Sell"
  IN  Times(Held(pos, side), Gain(side, AveragePrice(pos, side), <<price, 1>>))

LEMMA MarkedType ==
  ASSUME NEW pos \in PositionType, NEW price \in Int
  PROVE  IsFraction(Marked(pos, price))
<1> DEFINE side == IF pos.net_qty > 0 THEN "Buy" ELSE "Sell"
           gain == Gain(side, AveragePrice(pos, side), <<price, 1>>)
<1>1. side \in Side
  BY DEF Side
<1>2. Marked(pos, price) = Times(Held(pos, side), gain)
  BY DEF Marked
<1> HIDE DEF side
<1>3. Held(pos, side) \in Int
  BY <1>1, PositionFields
<1>4. IsFraction(<<price, 1>>)
  BY DEF IsFraction
<1>5. IsFraction(gain)
  BY <1>1, <1>4, AverageWorth, GainFraction
<1> HIDE DEF gain
<1> QED BY <1>2, <1>3, <1>5, FractionsLemma

\* With it, the profits are the cash and the value of what is held.
LEMMA MarkedWorth ==
  ASSUME NEW pos, NEW e, Agrees(pos, e), e.phase # "reopened", NEW price \in Int
  PROVE  Plus(pos.realized_pnl, Marked(pos, price)) = <<e.cash + e.net * price, 1>>
<1> DEFINE side == IF pos.net_qty > 0 THEN "Buy" ELSE "Sell"
           avg  == AveragePrice(pos, side)
           gain == Gain(side, avg, <<price, 1>>)
           held == Held(pos, side)
           r    == pos.realized_pnl
           net  == e.net
           cash == e.cash
           k    == cash + net * price
           y    == Times(held, gain)
<1>1. /\ pos \in PositionType /\ e \in EntryType /\ pos.net_qty = net
      /\ net \in Int /\ cash \in Int /\ side \in Side
  BY DEF Agrees, EntryType, Side
<1>2. held \in Int /\ net = Signed(side, held) /\ (held = 0 <=> net = 0) /\ held >= 0
  BY <1>1 DEF Held, Signed
<1>3. k \in Int
  <2> HIDE DEF net, cash
  <2> QED BY <1>1
<1>4. IsFraction(gain)
  <2>1. IsFraction(<<price, 1>>)
    BY DEF IsFraction
  <2> HIDE DEF side
  <2> QED BY <1>1, <2>1, AverageWorth, GainFraction
<1> HIDE DEF k
<1>5. ASSUME NEW d \in Nat \ {0}, NEW m \in Int, NEW n \in Int, Balanced(m, n, k, d),
             Worth(r, m, d), Worth(y, n, d)
      PROVE  Whole(Plus(r, y), k)
  <2> HIDE DEF r, y
  <2> QED BY <1>3, <1>5, PlusWhole
<1>6. ASSUME net = 0 PROVE Whole(Plus(r, y), k)
  <2>1. PICK d \in Nat \ {0} : Worth(r, cash * d, d)
    BY <1>1, <1>6, FlatWorth
  <2>2. Worth(y, 0, d)
    <3> HIDE DEF gain, held
    <3> QED BY <1>2, <1>4, <1>6, NoTimesWorth
  <2>3. Balanced(cash * d, 0, k, d)
    <3> HIDE DEF cash, net
    <3> QED BY <1>1, <1>6 DEF Balanced, k
  <2>4. cash * d \in Int
    <3> HIDE DEF cash
    <3> QED BY <1>1
  <2> DEFINE m == cash * d
             n == 0
  <2>5. m \in Int /\ n \in Int /\ Balanced(m, n, k, d) /\ Worth(r, m, d) /\ Worth(y, n, d)
    BY <2>1, <2>2, <2>3, <2>4
  <2> HIDE DEF m, n, r, y
  <2> QED BY <1>5, <2>5
<1>7. ASSUME net # 0 PROVE Whole(Plus(r, y), k)
  <2> DEFINE q == pos.opened[side].qty
             c == pos.opened[side].cost
  <2>1. Valued(pos, e, side)
    <3>1. held > 0
      <4> HIDE DEF held, net
      <4> QED BY <1>2, <1>7
    <3> HIDE DEF side
    <3> QED BY <1>1, <3>1, HoldingSide
  <2>2. q > 0 /\ Worth(r, cash * q + net * c, q)
    BY <2>1 DEF Valued
  <2> HIDE DEF side
  <2>3. q \in Nat /\ c \in Int
    BY <1>1, PositionFields
  <2>4. Worth(avg, c, q)
    BY <1>1, <2>2, AverageWorth
  <2> HIDE DEF q, c, held, net, cash, avg, r
  <2> DEFINE n == price * q
             rise == n - c
             g == Signed(side, rise)
             p == held * g
             was == cash * q + net * c
  <2>5. /\ q \in Nat \ {0} /\ n \in Int /\ rise \in Int /\ was \in Int
        /\ Worth(<<price, 1>>, n, q)
    BY <1>1, <2>2, <2>3, PriceWorth
  <2>6. Worth(gain, g, q)
    <3> DEFINE to == <<price, 1>>
    <3> HIDE DEF to, n
    <3>1. Worth(to, n, q)
      BY <2>5 DEF to
    <3>2. Worth(Gain(side, avg, to), Signed(side, n - c), q)
      BY <1>1, <2>3, <2>4, <2>5, <3>1, GainWorth
    <3> QED BY <3>2 DEF to
  <2>7. g \in Int
    <3> HIDE DEF rise
    <3> QED BY <2>5 DEF Signed
  <2> HIDE DEF gain
  <2>8. p \in Int /\ Worth(y, p, q)
    <3> HIDE DEF g
    <3> QED BY <1>2, <2>5, <2>6, <2>7, TimesWorth
  <2>9. was + p = k * q
    <3>1. p = net * rise
      <4>1. CASE side = "Buy"
        <5>1. g = rise /\ net = held
          BY <1>2, <4>1 DEF Signed
        <5> HIDE DEF g
        <5> QED BY <5>1
      <4>2. CASE side # "Buy"
        <5>1. g = -rise /\ net = -held
          BY <1>2, <4>2 DEF Signed
        <5>2. held * (-rise) = (-held) * rise
          <6> HIDE DEF rise
          <6> QED BY <1>2, <2>5
        <5> HIDE DEF g, rise
        <5> QED BY <5>1, <5>2
      <4> QED BY <4>1, <4>2
    <3>2. net * rise = net * (price * q) - net * c
      BY <1>1, <2>3
    <3>3. (cash * q + net * c) + (net * (price * q) - net * c) = (cash + net * price) * q
      BY <1>1, <2>3
    <3> HIDE DEF p, rise
    <3> QED BY <3>1, <3>2, <3>3 DEF k
  <2> HIDE DEF p, was, y, g
  <2>10. Balanced(was, p, k, q)
    BY <2>9 DEF Balanced
  <2>11. Worth(r, was, q)
    BY <2>2 DEF was
  <2> QED BY <1>5, <2>5, <2>8, <2>10, <2>11
<1>8. Marked(pos, price) = y
  BY DEF Marked
<1> HIDE DEF y, r, net
<1>9. Plus(r, y) = <<k, 1>>
  BY <1>6, <1>7 DEF Whole
<1> QED BY <1>8, <1>9 DEF r, k, net

----------------------------------------------------------------------------
(* The positions of all traders and what they have by their trades. *)

\* The position of a trader in a symbol: none, until there is a trade.
PositionOf(all, t, s) == IF <<t, s>> \in DOMAIN all THEN all[<<t, s>>] ELSE NoPosition

Matches(all, led) ==
  /\ DOMAIN all \subseteq TraderId \X Symbol
  /\ led \in [TraderId -> [Symbol -> EntryType]]
  /\ \A t \in TraderId, s \in Symbol : Agrees(PositionOf(all, t, s), led[t][s])

LEMMA FreshAgrees == Agrees(NoPosition, [net |-> 0, cash |-> 0, phase |-> "opening"])
<1> DEFINE e == [net |-> 0, cash |-> 0, phase |-> "opening"]
           o == [s \in Side |-> [qty |-> 0, cost |-> 0]]
<1>1. NoPosition = [net_qty |-> 0, opened |-> o, realized_pnl |-> <<0, 1>>,
                    unrealized_pnl |-> <<0, 1>>]
  BY DEF NoPosition
<1>2. o \in [Side -> [qty : Nat, cost : Int]]
  OBVIOUS
<1>3. /\ o["Buy"].qty = 0 /\ o["Buy"].cost = 0
      /\ o["Sell"].qty = 0 /\ o["Sell"].cost = 0
  BY DEF Side
<1> HIDE DEF o
<1>4. NoPosition \in PositionType
  BY <1>1, <1>2 DEF PositionType
<1>5. e \in EntryType /\ NoPosition.net_qty = e.net /\ e.phase = "opening"
  BY <1>1 DEF EntryType
<1>6. Building(NoPosition, e)
  BY <1>1, <1>3 DEF Building
<1> HIDE DEF e
<1> QED BY <1>4, <1>5, <1>6 DEF Agrees, e

\* A fill is entered as it updates the position.
LEMMA EnteredMatches ==
  ASSUME NEW all, NEW led, Matches(all, led), NEW who \in TraderId, NEW symbol \in Symbol,
         NEW side \in Side, NEW trade \in Book!Trade
  PROVE  Matches(Updated(all, <<who, symbol>>, side, trade.qty, trade.price),
                 Entered(led, who, symbol, side, trade))
<1> DEFINE key   == <<who, symbol>>
           qty   == trade.qty
           price == trade.price
           pos   == PositionOf(all, who, symbol)
           e     == led[who][symbol]
           new   == update_position(pos, side, qty, price)
           new_e == Filled(e, side, qty, price)
           u     == Updated(all, key, side, qty, price)
           l     == Entered(led, who, symbol, side, trade)
<1>1. qty \in Nat /\ price \in Int
  BY DEF Book!Trade
<1>2. Agrees(pos, e) /\ led \in [TraderId -> [Symbol -> EntryType]]
      /\ DOMAIN all \subseteq TraderId \X Symbol
  BY DEF Matches
<1>3. u = [k \in DOMAIN all \cup {key} |-> IF k = key THEN new ELSE all[k]]
  BY DEF Updated, PositionOf
<1>4. l = [led EXCEPT ![who][symbol] = new_e]
  BY DEF Entered, Filled
<1> HIDE DEF pos, qty, price
<1>5. Agrees(new, new_e)
  <2> HIDE DEF e
  <2> QED BY <1>1, <1>2, FillAgrees
<1> HIDE DEF new, new_e, u, l, e
<1>6. new_e \in EntryType
  BY <1>5 DEF Agrees
<1>7. /\ key \in DOMAIN u /\ u[key] = new /\ DOMAIN u = DOMAIN all \cup {key}
      /\ \A k \in DOMAIN u : k # key => k \in DOMAIN all /\ u[k] = all[k]
  BY <1>3
<1>8. l \in [TraderId -> [Symbol -> EntryType]]
  BY <1>2, <1>4, <1>6
<1>9. ASSUME NEW t \in TraderId, NEW s \in Symbol PROVE Agrees(PositionOf(u, t, s), l[t][s])
  <2>1. CASE t = who /\ s = symbol
    <3>1. l[t][s] = new_e
      BY <1>2, <1>4, <2>1
    <3>2. PositionOf(u, t, s) = new
      BY <1>7, <2>1 DEF PositionOf
    <3> QED BY <1>5, <3>1, <3>2
  <2>2. CASE ~(t = who /\ s = symbol)
    <3>1. <<t, s>> # key
      BY <2>2
    <3>2. l[t][s] = led[t][s]
      BY <1>2, <1>4, <2>2
    <3>3. PositionOf(u, t, s) = PositionOf(all, t, s)
      BY <1>7, <3>1 DEF PositionOf
    <3> QED BY <3>2, <3>3 DEF Matches
  <2> QED BY <2>1, <2>2
<1>10. DOMAIN u \subseteq TraderId \X Symbol
  BY <1>2, <1>7
<1>11. Matches(u, l)
  BY <1>8, <1>9, <1>10 DEF Matches
<1> QED BY <1>11 DEF u, l, qty, price

\* What a trade enters for its two parties.
EnteredForBoth(led, symbol, side, tr) ==
  Entered(Entered(led, tr.incoming_trader, symbol, side, tr),
          tr.resting_trader, symbol, Opposite(side), tr)

LEMMA TradeMatches ==
  ASSUME NEW all, NEW led, Matches(all, led), NEW symbol \in Symbol, NEW side \in Side,
         NEW trade \in Book!Trade
  PROVE  Matches(process_trade(all, symbol, side, trade),
                 EnteredForBoth(led, symbol, side, trade))
<1> DEFINE in    == trade.incoming_trader
           out   == trade.resting_trader
           other == Opposite(side)
           mid   == Updated(all, <<in, symbol>>, side, trade.qty, trade.price)
           mid_l == Entered(led, in, symbol, side, trade)
<1>1. in \in TraderId /\ out \in TraderId /\ other \in Side
  BY DEF Book!Trade, Opposite, Side
<1>2. /\ process_trade(all, symbol, side, trade) =
           Updated(mid, <<out, symbol>>, other, trade.qty, trade.price)
      /\ EnteredForBoth(led, symbol, side, trade) = Entered(mid_l, out, symbol, other, trade)
  BY DEF process_trade, EnteredForBoth
<1> HIDE DEF in, out, other
<1>3. Matches(mid, mid_l)
  BY <1>1, EnteredMatches
<1> HIDE DEF mid, mid_l
<1> QED BY <1>1, <1>2, <1>3, EnteredMatches

\* The ledger after the callbacks of some trades is such a fold, too.
AllEntered(led, symbol, side, trades) ==
  FoldLeft(LAMBDA all, tr : Entered(Entered(all, tr.incoming_trader, symbol, side, tr),
                                    tr.resting_trader, symbol, Opposite(side), tr),
           led, trades)

LEMMA LedgerPasses ==
  ASSUME NEW symbol, NEW side, NEW base, NEW trades, Len(trades) \in Nat,
         DOMAIN trades = 1..Len(trades)
  PROVE  \E a : /\ Pass(a, "ledger", symbol, side, base, trades)
                /\ AllEntered(base, symbol, side, trades) = a[Len(trades)]
<1> DEFINE S == 1..Len(trades)
           Enter(x, tr) == Entered(Entered(x, tr.incoming_trader, symbol, side, tr),
                                   tr.resting_trader, symbol, Opposite(side), tr)
           OfTrades(it) ==
             it = [s \in SUBSET S |-> IF s = {} THEN base
                                      ELSE Enter(it[s \ {Max(s)}], trades[Max(s)])]
           result == AllEntered(base, symbol, side, trades)
<1>1. result = (CHOOSE it : OfTrades(it))[S]
  BY DEF AllEntered, FoldLeft, MapThenFoldSet
<1>2. \A x, tr : Enter(x, tr) = Effect("ledger", symbol, side, x, tr)
  BY DEF Effect, EnteredForBoth
<1> HIDE DEF Enter
<1>3. \A it : OfTrades(it) <=> Folds(it, "ledger", symbol, side, base, trades)
  BY <1>2 DEF Folds, FoldsOn
<1> HIDE DEF OfTrades, result
<1>4. OfTrades(CHOOSE it : OfTrades(it))
  BY <1>3, FoldsExist DEF Folds
<1>5. PICK it : /\ Folds(it, "ledger", symbol, side, base, trades)
                /\ result = it[S]
  BY <1>1, <1>3, <1>4
<1>6. PICK a : Pass(a, "ledger", symbol, side, base, trades) /\ it[S] = a[Len(trades)]
  BY <1>5, FoldPasses
<1> QED BY <1>5, <1>6 DEF result

\* Trade by trade, positions and ledger go together.
LEMMA TradesMatch ==
  ASSUME NEW all, NEW led, Matches(all, led), NEW symbol \in Symbol, NEW side \in Side,
         NEW trades \in Seq(Book!Trade),
         NEW a, Pass(a, "positions", symbol, side, all, trades),
         NEW b, Pass(b, "ledger", symbol, side, led, trades)
  PROVE  Matches(a[Len(trades)], b[Len(trades)])
<1> DEFINE n == Len(trades)
           T == {k \in Nat : k <= n => Matches(a[k], b[k])}
<1>1. n \in Nat /\ \A i \in 1..n : trades[i] \in Book!Trade
  OBVIOUS
<1>2. 0 \in T
  <2>1. a[0] = all /\ b[0] = led
    BY DEF Pass
  <2> QED BY <2>1
<1>3. ASSUME NEW k \in Nat, k \in T PROVE k + 1 \in T
  <2> SUFFICES ASSUME k + 1 <= n PROVE Matches(a[k + 1], b[k + 1])
    OBVIOUS
  <2> DEFINE tr == trades[k + 1]
             x == a[k]
             y == b[k]
  <2>1. Matches(x, y)
    BY <1>1, <1>3
  <2>2. k \in 0..(n - 1) /\ tr \in Book!Trade
    BY <1>1
  <2>3. /\ a[k + 1] = Effect("positions", symbol, side, x, tr)
        /\ b[k + 1] = Effect("ledger", symbol, side, y, tr)
    BY <2>2 DEF Pass
  <2> HIDE DEF x, y, tr
  <2>4. /\ a[k + 1] = process_trade(x, symbol, side, tr)
        /\ b[k + 1] = EnteredForBoth(y, symbol, side, tr)
    BY <2>3 DEF Effect, EnteredForBoth
  <2> QED BY <2>1, <2>2, <2>4, TradeMatches
<1>4. Nat \subseteq T
  <2> HIDE DEF T
  <2> QED BY <1>2, <1>3, NatLemma
<1>5. n \in T
  BY <1>1, <1>4
<1> QED BY <1>1, <1>5

LEMMA CallbacksMatch ==
  ASSUME Matches(positions, ledger), NEW symbol \in Symbol, NEW side \in Side,
         NEW trades \in Seq(Book!Trade), Callbacks(symbol, side, trades)
  PROVE  Matches(positions', ledger')
<1>1. Len(trades) \in Nat /\ DOMAIN trades = 1..Len(trades)
  OBVIOUS
<1>2. positions' = AllProcessed(positions, symbol, side, trades)
  BY DEF Callbacks, AllProcessed, FoldLeft, MapThenFoldSet
<1>3. ledger' = AllEntered(ledger, symbol, side, trades)
  BY DEF Callbacks, AllEntered, FoldLeft, MapThenFoldSet
<1>4. PICK a : /\ Pass(a, "positions", symbol, side, positions, trades)
               /\ positions' = a[Len(trades)]
  BY <1>1, <1>2, PositionsPasses
<1>5. PICK b : /\ Pass(b, "ledger", symbol, side, ledger, trades)
               /\ ledger' = b[Len(trades)]
  BY <1>1, <1>3, LedgerPasses
<1> QED BY <1>4, <1>5, TradesMatch

\* What mark_to_market does to each position.
LEMMA MarkResult ==
  ASSUME NEW all, NEW symbol, NEW price, NEW key \in DOMAIN all
  PROVE  LET new == mark_to_market(all, symbol, price)
         IN  /\ DOMAIN new = DOMAIN all
             /\ new[key] = IF key[2] = symbol
                           THEN [all[key] EXCEPT !.unrealized_pnl = Marked(all[key], price)]
                           ELSE all[key]
BY DEF mark_to_market, Marked

\* Marking touches the unrealised profit, which what was traded says nothing of.
LEMMA MarkAgrees ==
  ASSUME NEW pos, NEW e, Agrees(pos, e), NEW v, IsFraction(v)
  PROVE  LET new == [pos EXCEPT !.unrealized_pnl = v]
         IN  /\ Agrees(new, e)
             /\ new.unrealized_pnl = v /\ new.realized_pnl = pos.realized_pnl
<1> DEFINE new == [pos EXCEPT !.unrealized_pnl = v]
<1>1. pos \in PositionType
  BY DEF Agrees
<1>2. /\ new.net_qty = pos.net_qty /\ new.opened = pos.opened
      /\ new.realized_pnl = pos.realized_pnl /\ new.unrealized_pnl = v
      /\ new \in PositionType
  BY <1>1 DEF PositionType, IsFraction
<1> HIDE DEF new
<1>3. Building(pos, e) => Building(new, e)
  BY <1>2 DEF Building
<1>4. \A side \in Side : Valued(pos, e, side) => Valued(new, e, side)
  BY <1>2 DEF Valued, Held
<1>5. Agrees(new, e)
  BY <1>2, <1>3, <1>4 DEF Agrees
<1> QED BY <1>2, <1>5 DEF new

LEMMA MarkMatches ==
  ASSUME NEW all, NEW led, Matches(all, led), NEW symbol, NEW price \in Int
  PROVE  Matches(mark_to_market(all, symbol, price), led)
<1> DEFINE new == mark_to_market(all, symbol, price)
<1>1. DOMAIN new = DOMAIN all
  BY DEF mark_to_market
<1>2. ASSUME NEW t \in TraderId, NEW s \in Symbol
      PROVE  Agrees(PositionOf(new, t, s), led[t][s])
  <2> DEFINE key == <<t, s>>
             e == led[t][s]
  <2>1. Agrees(PositionOf(all, t, s), e)
    BY DEF Matches
  <2>2. CASE key \notin DOMAIN all
    <3>1. PositionOf(new, t, s) = PositionOf(all, t, s)
      BY <1>1, <2>2 DEF PositionOf
    <3> QED BY <2>1, <3>1
  <2>3. CASE key \in DOMAIN all
    <3> DEFINE pos == all[key]
               v == Marked(pos, price)
    <3>1. PositionOf(all, t, s) = pos /\ PositionOf(new, t, s) = new[key]
      BY <1>1, <2>3 DEF PositionOf
    <3>2. new[key] = [pos EXCEPT !.unrealized_pnl = v] \/ new[key] = pos
      BY <2>3, MarkResult
    <3> HIDE DEF new, pos, e
    <3>3. Agrees(pos, e)
      BY <2>1, <3>1
    <3>4. IsFraction(v)
      BY <3>3, MarkedType DEF Agrees
    <3> HIDE DEF v
    <3>5. Agrees([pos EXCEPT !.unrealized_pnl = v], e)
      BY <3>3, <3>4, MarkAgrees
    <3> QED BY <3>1, <3>2, <3>3, <3>5 DEF e
  <2> QED BY <2>2, <2>3
<1> HIDE DEF new
<1>3. Matches(new, led)
  BY <1>1, <1>2 DEF Matches
<1> QED BY <1>3 DEF new

LedgerInv == EngineInv /\ Matches(positions, ledger)

\* Every operation of a session keeps positions and ledger together.
LEMMA NextLedger == LedgerInv /\ [SessionNext]_session_vars => LedgerInv'
<1> SUFFICES ASSUME LedgerInv, [SessionNext]_session_vars PROVE LedgerInv'
  OBVIOUS
<1>1. EngineInv'
  BY NextEngine, SessionStep DEF LedgerInv
<1>2. Matches(positions, ledger) /\ EngineInv
  BY DEF LedgerInv
<1>3. CASE UNCHANGED <<positions, ledger>>
  BY <1>1, <1>2, <1>3 DEF LedgerInv
<1>4. CASE TradeNewOrder
  <2>1. PICK order \in checked :
          Callbacks(order.symbol, order.side, NewOrderResult(order).trades)
    BY <1>4 DEF TradeNewOrder
  <2>2. /\ NewOrderResult(order).trades \in Seq(Book!Trade)
        /\ order.symbol \in Symbol /\ order.side \in Side
    BY <1>2, NewOrderResults
  <2>3. Matches(positions', ledger')
    BY <1>2, <2>1, <2>2, CallbacksMatch
  <2> QED BY <1>1, <2>3 DEF LedgerInv
<1>5. ASSUME NEW replace \in Replaces, TradeReplace(replace) PROVE LedgerInv'
  <2>1. Callbacks(replace.symbol, ReplacedSide(replace), ReplaceResult(replace).trades)
    BY <1>5 DEF TradeReplace
  <2>2. /\ ReplaceResult(replace).trades \in Seq(Book!Trade)
        /\ replace.symbol \in Symbol /\ ReplacedSide(replace) \in Side
    <3>1. Replaceable(replace)
      BY <1>5 DEF TradeReplace, ProcessReplace
    <3> QED BY <1>2, <3>1, ReplaceResults
  <2>3. Matches(positions', ledger')
    BY <1>2, <2>1, <2>2, CallbacksMatch
  <2> QED BY <1>1, <2>3 DEF LedgerInv
<1>6. ASSUME NEW mark \in Marks, MarkToMarket(mark) PROVE LedgerInv'
  <2>1. positions' = mark_to_market(positions, mark.symbol, mark.price) /\ ledger' = ledger
    BY <1>6 DEF MarkToMarket
  <2>2. Matches(positions', ledger')
    BY <1>2, <2>1, MarkMatches, MarksAssumption
  <2> QED BY <1>1, <2>2 DEF LedgerInv
<1>7. CASE WithoutTrade
  BY <1>3, <1>7 DEF WithoutTrade
<1>8. CASE UNCHANGED session_vars
  BY <1>3, <1>8 DEF session_vars
<1> QED BY <1>4, <1>5, <1>6, <1>7, <1>8 DEF SessionNext

\* Nor has anybody a position that the ledger does not know.
LEMMA SessionLedger == SessionInit => LedgerInv
<1> SUFFICES ASSUME SessionInit PROVE LedgerInv
  OBVIOUS
<1> DEFINE fresh == [net |-> 0, cash |-> 0, phase |-> "opening"]
<1>1. /\ books = <<>> /\ checked = {} /\ positions = <<>>
      /\ ledger = [t \in TraderId |-> [s \in Symbol |-> fresh]]
  BY DEF SessionInit, Init
<1>2. EngineInv
  BY <1>1 DEF EngineInv
<1>3. Agrees(NoPosition, fresh)
  BY FreshAgrees
<1> HIDE DEF fresh
<1>4. fresh \in EntryType
  BY <1>3 DEF Agrees
<1>5. Matches(positions, ledger)
  BY <1>1, <1>3, <1>4 DEF Matches, PositionOf
<1> QED BY <1>2, <1>5 DEF LedgerInv

\* Whatever was traded and marked before, a position that was built up and then
\* reduced (update_position), marked at any price (mark_to_market), has made
\* exactly what closing it at that price would leave its trader with.
THEOREM MarksAreLiquidationValues == SessionSpec => []MarkedAtLiquidationValue
<1>1. SessionInit => LedgerInv
  BY SessionLedger
<1>2. LedgerInv => MarkedAtLiquidationValue
  <2> SUFFICES ASSUME LedgerInv, NEW key \in DOMAIN positions,
                      NEW price \in {0} \cup {m.price : m \in Marks},
                      ledger[key[1]][key[2]].phase # "reopened"
               PROVE  LET pos   == mark_to_market(positions, key[2], price)[key]
                          entry == ledger[key[1]][key[2]]
                      IN  Plus(pos.realized_pnl, pos.unrealized_pnl)
                            = <<entry.cash + entry.net * price, 1>>
    BY DEF MarkedAtLiquidationValue
  <2> DEFINE pos == positions[key]
             e   == ledger[key[1]][key[2]]
             v   == Marked(pos, price)
             new == mark_to_market(positions, key[2], price)[key]
  <2>1. price \in Int
    BY MarksAssumption
  <2>2. key \in TraderId \X Symbol
    BY DEF LedgerInv, Matches
  <2>3. PICK t \in TraderId, s \in Symbol : key = <<t, s>>
    BY <2>2
  <2>4. Agrees(PositionOf(positions, t, s), ledger[t][s])
    BY DEF LedgerInv, Matches
  <2>5. PositionOf(positions, t, s) = pos /\ ledger[t][s] = e
    BY <2>3 DEF PositionOf
  <2>6. new = [pos EXCEPT !.unrealized_pnl = v]
    BY MarkResult
  <2>7. e.phase # "reopened"
    OBVIOUS
  <2> HIDE DEF pos, e, new
  <2>8. Agrees(pos, e)
    BY <2>4, <2>5
  <2>9. IsFraction(v)
    BY <2>1, <2>8, MarkedType DEF Agrees
  <2>10. Plus(pos.realized_pnl, v) = <<e.cash + e.net * price, 1>>
    BY <2>1, <2>7, <2>8, MarkedWorth
  <2> HIDE DEF v
  <2>11. new.realized_pnl = pos.realized_pnl /\ new.unrealized_pnl = v
    BY <2>6, <2>8, <2>9, MarkAgrees
  <2>12. Plus(new.realized_pnl, new.unrealized_pnl) = <<e.cash + e.net * price, 1>>
    BY <2>10, <2>11
  <2> QED BY <2>12 DEF new, e
<1> QED BY <1>1, <1>2, NextLedger, PTL DEF SessionSpec

----------------------------------------------------------------------------
(* The types of a session: first the feeds. *)

FeedTrade == [price : Int, quantity : Nat \ {0}]

\* A feed has fields of these types, and no more of each than it is to keep.
FeedType(feed) ==
  /\ HasFields(feed)
  /\ feed.recent_trades \in Seq(FeedTrade)
  /\ Len(feed.recent_trades) <= MaxTradeHistory
  /\ feed.spread_history \in Seq(Nat \ {0})
  /\ Len(feed.spread_history) <= MaxSpreadHistory

LEMMA FeedTypeLemma ==
  ASSUME NEW feed, FeedType(feed)
  PROVE  IsFeed(feed)
<1>1. ASSUME NEW i \in DOMAIN feed.recent_trades PROVE feed.recent_trades[i].quantity > 0
  <2> DEFINE s == feed.recent_trades
  <2>1. s \in Seq(FeedTrade) /\ i \in DOMAIN s
    BY DEF FeedType
  <2> HIDE DEF s
  <2>2. s[i] \in FeedTrade
    BY <2>1
  <2>3. s[i].quantity \in Nat \ {0}
    BY <2>2 DEF FeedTrade
  <2>4. s[i].quantity > 0
    BY <2>3
  <2> QED BY <2>4 DEF s
<1>2. ASSUME NEW i \in DOMAIN feed.spread_history PROVE feed.spread_history[i] > 0
  <2> DEFINE s == feed.spread_history
  <2>1. s \in Seq(Nat \ {0}) /\ i \in DOMAIN s
    BY DEF FeedType
  <2> HIDE DEF s
  <2>2. s[i] \in Nat \ {0}
    BY <2>1
  <2>3. s[i] > 0
    BY <2>2
  <2> QED BY <2>3 DEF s
<1> QED BY <1>1, <1>2 DEF FeedType, IsFeed

\* A window that was not too long is not too long after an element more.
LEMMA KeptType ==
  ASSUME NEW S, NEW window \in Seq(S), NEW x \in S, NEW max \in Nat \ {0}, Len(window) <= max
  PROVE  /\ Kept(Append(window, x), max) \in Seq(S)
         /\ Len(Kept(Append(window, x), max)) <= max
<1> DEFINE longer == Append(window, x)
<1>1. longer \in Seq(S) /\ Len(longer) = Len(window) + 1 /\ Len(window) \in Nat
  OBVIOUS
<1> HIDE DEF longer
<1>2. CASE Len(longer) > max
  <2>1. Tail(longer) \in Seq(S) /\ Len(Tail(longer)) = Len(longer) - 1
    BY <1>1
  <2> QED BY <1>1, <1>2, <2>1 DEF Kept, longer
<1>3. CASE ~(Len(longer) > max)
  BY <1>1, <1>3 DEF Kept, longer
<1> QED BY <1>2, <1>3

\* A feed that is told of trades keeps its type.
LEMMA RecordedType ==
  ASSUME NEW feed, FeedType(feed), NEW trades \in Seq(Book!Trade),
         \A i \in DOMAIN trades : trades[i].qty > 0
  PROVE  FeedType(Recorded(feed, trades))
<1> DEFINE n == Len(trades)
<1>1. n \in Nat /\ DOMAIN trades = 1..n
  OBVIOUS
<1>2. PICK a : Pass(a, "feed", 0, 0, feed, trades) /\ Recorded(feed, trades) = a[n]
  BY <1>1, RecordPasses
<1> DEFINE T == {k \in Nat : k <= n => FeedType(a[k])}
<1>3. 0 \in T
  BY <1>2 DEF Pass
<1>4. ASSUME NEW k \in Nat, k \in T PROVE k + 1 \in T
  <2> SUFFICES ASSUME k + 1 <= n PROVE FeedType(a[k + 1])
    OBVIOUS
  <2> DEFINE x  == a[k]
             y  == a[k + 1]
             tr == trades[k + 1]
             w  == Kept(Append(x.recent_trades, Remembered(tr)), MaxTradeHistory)
  <2>1. FeedType(x) /\ k \in 0..(n - 1) /\ k + 1 \in DOMAIN trades
    BY <1>1, <1>4
  <2>2. y = record_trade(x, tr.price, tr.qty)
    BY <1>2, <2>1 DEF Pass, Effect
  <2>3. y = [x EXCEPT !.recent_trades = w]
    BY <2>2 DEF record_trade, Remembered
  <2>4. tr \in Book!Trade /\ tr.qty > 0
    BY <1>1, <2>1
  <2> HIDE DEF x, y, tr
  <2>5. tr.price \in Int /\ tr.qty \in Nat \ {0}
    BY <2>4 DEF Book!Trade
  <2>6. Remembered(tr) \in FeedTrade
    BY <2>5 DEF Remembered, FeedTrade
  <2>7. w \in Seq(FeedTrade) /\ Len(w) <= MaxTradeHistory
    BY <2>1, <2>6, KeptType, HistoryAssumption DEF FeedType
  <2> HIDE DEF w
  <2>8. HasFields(y) /\ y.recent_trades = w /\ y.spread_history = x.spread_history
    BY <2>1, <2>3 DEF FeedType, HasFields
  <2>9. FeedType(y)
    BY <2>1, <2>7, <2>8 DEF FeedType
  <2> QED BY <2>9 DEF y
<1>5. Nat \subseteq T
  <2> HIDE DEF T
  <2> QED BY <1>3, <1>4, NatLemma
<1>6. FeedType(a[n])
  BY <1>1, <1>5
<1> QED BY <1>2, <1>6

\* So does one that is updated from a book.
LEMMA UpdateType ==
  ASSUME NEW feed, FeedType(feed), NEW b, SoundBook(b)
  PROVE  FeedType(update(feed, b))
<1> DEFINE new == update(feed, b)
           tob == TopOfBook(b)
           spreads == feed.spread_history
           next == IF tob.valid /\ tob.spread > 0
                   THEN Kept(Append(spreads, tob.spread), MaxSpreadHistory) ELSE spreads
<1>1. new = [feed EXCEPT !.last_tob = tob, !.spread_history = next]
  BY DEF update
<1>2. tob.spread \in Int
  BY SpreadType
<1>3. spreads \in Seq(Nat \ {0}) /\ Len(spreads) <= MaxSpreadHistory /\ HasFields(feed)
  BY DEF FeedType
<1> HIDE DEF new, tob, spreads
<1>4. next \in Seq(Nat \ {0}) /\ Len(next) <= MaxSpreadHistory
  <2>1. CASE tob.valid /\ tob.spread > 0
    <3>1. tob.spread \in Nat \ {0}
      BY <1>2, <2>1
    <3>2. /\ Kept(Append(spreads, tob.spread), MaxSpreadHistory) \in Seq(Nat \ {0})
          /\ Len(Kept(Append(spreads, tob.spread), MaxSpreadHistory)) <= MaxSpreadHistory
      BY <1>3, <3>1, KeptType, HistoryAssumption
    <3> QED BY <2>1, <3>2
  <2>2. CASE ~(tob.valid /\ tob.spread > 0)
    BY <1>3, <2>2
  <2> QED BY <2>1, <2>2
<1> HIDE DEF next
<1>5. HasFields(new) /\ new.recent_trades = feed.recent_trades /\ new.spread_history = next
  BY <1>1, <1>3 DEF HasFields, spreads
<1>6. FeedType(new)
  BY <1>4, <1>5 DEF FeedType
<1> QED BY <1>6 DEF new

LEMMA EmptyFeedType == FeedType(EmptyFeed)
<1>1. <<>> \in Seq(FeedTrade) /\ <<>> \in Seq(Nat \ {0}) /\ Len(<<>>) = 0
  OBVIOUS
<1>2. 0 <= MaxTradeHistory /\ 0 <= MaxSpreadHistory
  BY HistoryAssumption
<1>3. /\ HasFields(EmptyFeed)
      /\ EmptyFeed.recent_trades = <<>> /\ EmptyFeed.spread_history = <<>>
  BY DEF EmptyFeed, HasFields
<1> QED BY <1>1, <1>2, <1>3 DEF FeedType

----------------------------------------------------------------------------
(* The types of the risk engine. *)

\* What is left of the submit times are submit times.
LEMMA FreshType ==
  ASSUME NEW stamps \in Seq(Nat), NEW at, NEW window
  PROVE  Fresh(stamps, at, window) \in Seq(Nat)
<1> DEFINE kept == {i \in DOMAIN stamps : ~Expired(at, stamps[i], window)}
           n == Len(stamps)
<1>1. n \in Nat /\ DOMAIN stamps = 1..n /\ kept \in SUBSET Nat /\ kept \subseteq 1..n
  OBVIOUS
<1> HIDE DEF kept
<1>2. CASE kept = {}
  <2>1. Fresh(stamps, at, window) = <<>>
    BY <1>2 DEF Fresh, kept
  <2> QED BY <2>1
<1>3. CASE kept # {}
  <2> DEFINE k == Min(kept)
  <2>1. \E i \in kept : \A j \in kept : i <= j
    BY <1>1, <1>3, LeastLemma
  <2>2. k \in kept
    BY <2>1 DEF Min
  <2>3. k \in 1..n
    BY <1>1, <2>2
  <2>4. Fresh(stamps, at, window) = SubSeq(stamps, k, n)
    BY <1>3 DEF Fresh, kept
  <2> HIDE DEF k
  <2>5. SubSeq(stamps, k, n) \in Seq(Nat)
    BY <1>1, <2>3
  <2> QED BY <2>4, <2>5
<1> QED BY <1>2, <1>3

\* check_order touches nothing but the times of the trader.
LEMMA CheckOrderType ==
  ASSUME RiskTypeOK, NEW order \in NewOrders, CheckOrder(order, 0)
  PROVE  RiskTypeOK'
<1> DEFINE t == order.trader_id
           fresh == FreshStamps(order, 0)
           left == IF Passes(order, 0) THEN Append(fresh, 0) ELSE fresh
<1>1. t \in TraderId
  BY NewOrderRequest
<1>2. trader_states[t] \in RiskState /\ trader_states[t].order_timestamps \in Seq(Nat)
  BY <1>1 DEF RiskTypeOK, RiskState
<1>3. fresh \in Seq(Nat)
  BY <1>2, FreshType DEF FreshStamps
<1>4. UNCHANGED <<trader_limits, default_limits, global_kill>>
  BY DEF CheckOrder, limit_vars
<1>5. \/ trader_states' = trader_states
      \/ trader_states' = [trader_states EXCEPT ![t].order_timestamps = left]
  BY DEF CheckOrder
<1> HIDE DEF fresh
<1>6. left \in Seq(Nat)
  BY <1>3
<1> HIDE DEF t, left
<1>7. [trader_states[t] EXCEPT !.order_timestamps = left] \in RiskState
  BY <1>2, <1>6 DEF RiskState
<1>8. trader_states' \in [TraderId -> RiskState]
  BY <1>1, <1>5, <1>7 DEF RiskTypeOK
<1> QED BY <1>4, <1>8 DEF RiskTypeOK

\* on_fill adds the same whole quantity to two positions of the trader.
LEMMA OnFillType ==
  ASSUME RiskTypeOK, NEW t \in TraderId, NEW s \in Symbol, NEW side,
         NEW qty \in Nat, OnFill(t, s, side, qty)
  PROVE  RiskTypeOK'
<1> DEFINE q == Signed(side, qty)
           old == trader_states[t]
           x == old.positions[s] + q
           z == old.net_position + q
<1>1. q \in Int
  BY DEF Signed
<1>2. trader_states' =
        [trader_states EXCEPT ![t].positions[s] = @ + q, ![t].net_position = @ + q]
  BY DEF OnFill
<1>3. UNCHANGED <<trader_limits, default_limits, global_kill>>
  BY DEF OnFill, limit_vars
<1>4. /\ old \in RiskState /\ old.positions \in [Symbol -> Int]
      /\ trader_states \in [TraderId -> RiskState]
  BY DEF RiskTypeOK, RiskState
<1> HIDE DEF q
<1>5. x \in Int /\ z \in Int
  BY <1>1, <1>4 DEF RiskState
<1>6. trader_states' =
        [trader_states EXCEPT ![t] =
           [old EXCEPT !.positions = [old.positions EXCEPT ![s] = x], !.net_position = z]]
  BY <1>2, <1>4 DEF RiskState
<1> HIDE DEF x, z, old
<1> DEFINE p == [old.positions EXCEPT ![s] = x]
<1>7. p \in [Symbol -> Int]
  BY <1>4, <1>5
<1> HIDE DEF p
<1>8. [old EXCEPT !.positions = p, !.net_position = z] \in RiskState
  BY <1>4, <1>5, <1>7 DEF RiskState
<1>9. trader_states' = [trader_states EXCEPT ![t] =
                          [old EXCEPT !.positions = p, !.net_position = z]]
  BY <1>6 DEF p
<1>10. trader_states' \in [TraderId -> RiskState]
  BY <1>4, <1>8, <1>9
<1> QED BY <1>3, <1>10 DEF RiskTypeOK

\* The kill switches touch nothing but themselves.
LEMMA SwitchType ==
  ASSUME RiskTypeOK, (\E t \in TraderId : SwitchTrader(t)) \/ SwitchAll
  PROVE  RiskTypeOK'
<1>1. \A st \in RiskState, v \in BOOLEAN : [st EXCEPT !.killed = v] \in RiskState
  BY DEF RiskState
<1>2. ASSUME NEW t \in TraderId, SwitchTrader(t) PROVE RiskTypeOK'
  <2>1. PICK v \in BOOLEAN : trader_states' = [trader_states EXCEPT ![t].killed = v]
    BY <1>2 DEF SwitchTrader, KillTrader, UnkillTrader
  <2>2. UNCHANGED <<trader_limits, default_limits, global_kill>>
    BY <1>2 DEF SwitchTrader, KillTrader, UnkillTrader, limit_vars
  <2>3. trader_states' \in [TraderId -> RiskState]
    BY <1>1, <2>1 DEF RiskTypeOK
  <2> QED BY <2>2, <2>3 DEF RiskTypeOK
<1>3. CASE SwitchAll
  <2>1. /\ UNCHANGED <<trader_limits, default_limits>> /\ global_kill' \in BOOLEAN
        /\ \/ trader_states' = trader_states
           \/ trader_states' = [t \in TraderId |-> [trader_states[t] EXCEPT !.killed = FALSE]]
    BY <1>3 DEF SwitchAll, KillAll, UnkillAll, limit_vars
  <2>2. trader_states' \in [TraderId -> RiskState]
    BY <1>1, <2>1 DEF RiskTypeOK
  <2> QED BY <2>1, <2>2 DEF RiskTypeOK
<1> QED BY <1>2, <1>3

----------------------------------------------------------------------------
(* All types together. *)

\* What EngineInv, PositionInv and LedgerInv do not say of the types.
TypeParts ==
  /\ RiskTypeOK
  /\ DOMAIN l1 = DOMAIN books
  /\ \A s \in DOMAIN l1 : FeedType(l1[s])
  /\ DOMAIN l2 \subseteq DOMAIN books
  /\ DOMAIN order_symbol_index \subseteq OrderId
  /\ \A id \in DOMAIN order_symbol_index : order_symbol_index[id] \in Symbol
  /\ \A o \in checked : o.quantity > 0

\* An operation that puts a book in the place of another and publishes it.
LEMMA PutTypes ==
  ASSUME TypeParts, NEW symbol \in DOMAIN books, NEW b, SoundBook(b),
         NEW trades \in Seq(Book!Trade), \A i \in DOMAIN trades : trades[i].qty > 0,
         PutBook(symbol, b, trades),
         RiskTypeOK', checked' \subseteq checked,
         DOMAIN order_symbol_index' \subseteq OrderId,
         \A id \in DOMAIN order_symbol_index' : order_symbol_index'[id] \in Symbol
  PROVE  TypeParts'
<1> DEFINE feed == update(Recorded(l1[symbol], trades), b)
<1>1. symbol \in DOMAIN l1 /\ FeedType(l1[symbol])
  BY DEF TypeParts
<1>2. FeedType(feed)
  BY <1>1, RecordedType, UpdateType
<1>3. /\ books' = [books EXCEPT ![symbol] = b]
      /\ l1' = [l1 EXCEPT ![symbol] = feed]
      /\ l2' = [s \in DOMAIN l2 \cup {symbol} |-> IF s = symbol THEN Snapshot(b) ELSE l2[s]]
  BY DEF PutBook, Published
<1> HIDE DEF feed
<1>4. /\ DOMAIN books' = DOMAIN books /\ DOMAIN l1' = DOMAIN l1
      /\ DOMAIN l2' = DOMAIN l2 \cup {symbol}
      /\ \A s \in DOMAIN l1 : l1'[s] = IF s = symbol THEN feed ELSE l1[s]
  BY <1>3
<1>5. \A s \in DOMAIN l1' : FeedType(l1'[s])
  BY <1>2, <1>4 DEF TypeParts
<1>6. DOMAIN l1' = DOMAIN books' /\ DOMAIN l2' \subseteq DOMAIN books'
  BY <1>4 DEF TypeParts
<1>7. \A o \in checked' : o.quantity > 0
  BY DEF TypeParts
<1> QED BY <1>5, <1>6, <1>7 DEF TypeParts

\* process_new_order routes the order, and tells the risk engine of a quantity.
LEMMA NewOrderTypes ==
  ASSUME EngineInv, TypeParts, MatchNewOrder
  PROVE  TypeParts'
<1>1. PICK order \in checked :
        /\ PutBook(order.symbol, NewOrderResult(order).book, NewOrderResult(order).trades)
        /\ order_symbol_index' =
             IF Indexes(NewOrderResult(order).report.status)
             THEN [id \in DOMAIN order_symbol_index \cup {order.id} |->
                     IF id = order.id THEN order.symbol ELSE order_symbol_index[id]]
             ELSE order_symbol_index
        /\ IF NewOrderResult(order).report.filled_qty > 0
           THEN OnFill(order.trader_id, order.symbol, order.side,
                       NewOrderResult(order).report.filled_qty)
           ELSE UNCHANGED risk_vars
        /\ checked' = {}
  BY DEF MatchNewOrder
<1> DEFINE r == NewOrderResult(order)
           filled == r.report.filled_qty
<1>2. /\ SoundBook(r.book) /\ r.trades \in Seq(Book!Trade)
      /\ \A i \in DOMAIN r.trades : r.trades[i].qty > 0
      /\ filled \in Nat
      /\ order.symbol \in DOMAIN books /\ order.symbol \in Symbol
      /\ order.trader_id \in TraderId /\ order.side \in Side
  BY NewOrderResults
<1>3. order.id \in OrderId
  <2>1. order \in SymbolOrder
    BY RequestsAssumption DEF EngineInv
  <2> QED BY <2>1 DEF SymbolOrder
<1>4. /\ PutBook(order.symbol, r.book, r.trades)
      /\ IF filled > 0 THEN OnFill(order.trader_id, order.symbol, order.side, filled)
                       ELSE UNCHANGED risk_vars
  BY <1>1
<1>5. /\ DOMAIN order_symbol_index' \subseteq OrderId
      /\ \A id \in DOMAIN order_symbol_index' : order_symbol_index'[id] \in Symbol
  <2>1. CASE Indexes(NewOrderResult(order).report.status)
    <3>1. /\ DOMAIN order_symbol_index' = DOMAIN order_symbol_index \cup {order.id}
          /\ \A id \in DOMAIN order_symbol_index' : order_symbol_index'[id] =
               IF id = order.id THEN order.symbol ELSE order_symbol_index[id]
      BY <1>1, <2>1
    <3> QED BY <1>2, <1>3, <3>1 DEF TypeParts
  <2>2. CASE ~Indexes(NewOrderResult(order).report.status)
    BY <1>1, <2>2 DEF TypeParts
  <2> QED BY <2>1, <2>2
<1> HIDE DEF r, filled
<1>6. RiskTypeOK'
  <2>0. RiskTypeOK
    BY DEF TypeParts
  <2>1. CASE filled > 0
    BY <1>2, <1>4, <2>0, <2>1, OnFillType
  <2>2. CASE ~(filled > 0)
    BY <1>4, <2>0, <2>2 DEF risk_vars, RiskTypeOK
  <2> QED BY <2>1, <2>2
<1> QED BY <1>1, <1>2, <1>4, <1>5, <1>6, PutTypes

\* Every operation of the engine keeps the types.
LEMMA NextTypes == EngineInv /\ TypeParts /\ [Next]_vars => TypeParts'
<1> SUFFICES ASSUME EngineInv, TypeParts, [Next]_vars PROVE TypeParts'
  OBVIOUS
<1>1. <<>> \in Seq(Book!Trade) /\ \A i \in DOMAIN <<>> : <<>>[i].qty > 0
  OBVIOUS
<1>2. RiskTypeOK /\ (UNCHANGED risk_vars => RiskTypeOK')
  BY DEF TypeParts, RiskTypeOK, risk_vars
<1>3. /\ DOMAIN order_symbol_index \subseteq OrderId
      /\ \A id \in DOMAIN order_symbol_index : order_symbol_index[id] \in Symbol
  BY DEF TypeParts
<1>4. ASSUME NEW symbol \in Symbol, AddSymbol(symbol) PROVE TypeParts'
  <2>1. /\ books' = [s \in DOMAIN books \cup {symbol} |->
                       IF s = symbol THEN EmptyBook ELSE books[s]]
        /\ l1' = [s \in DOMAIN l1 \cup {symbol} |-> IF s = symbol THEN EmptyFeed ELSE l1[s]]
        /\ UNCHANGED <<risk_vars, l2, order_symbol_index, checked>>
    BY <1>4 DEF AddSymbol
  <2>2. DOMAIN l1' = DOMAIN books' /\ DOMAIN books \subseteq DOMAIN books'
    BY <2>1 DEF TypeParts
  <2>3. \A s \in DOMAIN l1' : FeedType(l1'[s])
    BY <2>1, EmptyFeedType DEF TypeParts
  <2> QED BY <1>2, <2>1, <2>2, <2>3 DEF TypeParts
<1>5. ASSUME NEW order \in NewOrders, CheckNewOrder(order) PROVE TypeParts'
  <2>1. /\ CheckOrder(order, 0) /\ checked' = {o \in {order} : Passes(o, 0)}
        /\ UNCHANGED <<books, l1, l2, order_symbol_index>>
    BY <1>5 DEF CheckNewOrder
  <2>2. RiskTypeOK'
    BY <1>2, <2>1, CheckOrderType
  <2>3. \A o \in checked' : o.quantity > 0
    <3>1. order.quantity \in Int
      <4>1. order \in SymbolOrder
        BY RequestsAssumption
      <4> QED BY <4>1 DEF SymbolOrder
    <3>2. \A o \in checked' : o = order /\ ~(order.quantity <= 0)
      BY <2>1 DEF Passes, Rejects
    <3> QED BY <3>1, <3>2
  <2> QED BY <2>1, <2>2, <2>3 DEF TypeParts
<1>6. ASSUME NEW cancel \in Cancels, ProcessCancel(cancel) PROVE TypeParts'
  <2>1. UNCHANGED <<risk_vars, checked>>
    BY <1>6 DEF ProcessCancel
  <2>2. PICK symbol \in DOMAIN books :
          IF cancel.order_id \in DOMAIN books[symbol].order_index
          THEN /\ PutBook(symbol, Withdraw(books[symbol], cancel.order_id), <<>>)
               /\ order_symbol_index' =
                    [id \in DOMAIN order_symbol_index \ {cancel.order_id} |->
                       order_symbol_index[id]]
          ELSE PutBook(symbol, books[symbol], <<>>) /\ UNCHANGED order_symbol_index
    BY <1>6 DEF ProcessCancel
  <2>3. SoundBook(books[symbol])
    BY DEF EngineInv
  <2>4. CASE cancel.order_id \in DOMAIN books[symbol].order_index
    <3>1. SoundBook(Withdraw(books[symbol], cancel.order_id))
      BY <2>3, <2>4, WithdrawResult
    <3>2. /\ DOMAIN order_symbol_index' \subseteq OrderId
          /\ \A id \in DOMAIN order_symbol_index' : order_symbol_index'[id] \in Symbol
      BY <1>3, <2>2, <2>4
    <3> QED BY <1>1, <1>2, <2>1, <2>2, <2>4, <3>1, <3>2, PutTypes
  <2>5. CASE cancel.order_id \notin DOMAIN books[symbol].order_index
    BY <1>1, <1>2, <1>3, <2>1, <2>2, <2>3, <2>5, PutTypes
  <2> QED BY <2>4, <2>5
<1>7. ASSUME NEW replace \in Replaces, ProcessReplace(replace) PROVE TypeParts'
  <2> DEFINE r == ReplaceResult(replace)
  <2>1. /\ UNCHANGED <<risk_vars, order_symbol_index, checked>> /\ Replaceable(replace)
        /\ PutBook(replace.symbol, r.book, r.trades)
    BY <1>7 DEF ProcessReplace
  <2>2. /\ SoundBook(r.book) /\ r.trades \in Seq(Book!Trade)
        /\ \A i \in DOMAIN r.trades : r.trades[i].qty > 0
        /\ replace.symbol \in DOMAIN books
    BY <2>1, ReplaceResults
  <2> HIDE DEF r
  <2> QED BY <1>2, <1>3, <2>1, <2>2, PutTypes
<1>8. ASSUME NEW replace \in Replaces, ReplaceUnknown(replace) PROVE TypeParts'
  <2>1. /\ UNCHANGED <<risk_vars, order_symbol_index, checked>>
        /\ replace.symbol \in DOMAIN books
        /\ PutBook(replace.symbol, books[replace.symbol], <<>>)
    BY <1>8 DEF ReplaceUnknown
  <2>2. SoundBook(books[replace.symbol])
    BY <2>1 DEF EngineInv
  <2> QED BY <1>1, <1>2, <1>3, <2>1, <2>2, PutTypes
<1>9. CASE (\E t \in TraderId : SwitchTrader(t)) \/ SwitchAll
  <2>1. UNCHANGED <<books, l1, l2, order_symbol_index, checked>>
    BY <1>9 DEF SwitchTrader, SwitchAll
  <2>2. RiskTypeOK'
    BY <1>2, <1>9, SwitchType
  <2> QED BY <2>1, <2>2 DEF TypeParts
<1>10. CASE UNCHANGED vars
  BY <1>2, <1>10 DEF vars, TypeParts
<1> QED BY <1>4, <1>5, <1>6, <1>7, <1>8, <1>9, <1>10, NewOrderTypes DEF Next

\* The conjuncts of SessionTypeOK are spread over the invariants of above.
LEMMA TypesLemma == PositionInv /\ LedgerInv /\ TypeParts => SessionTypeOK
<1> SUFFICES ASSUME PositionInv, LedgerInv, TypeParts PROVE SessionTypeOK
  OBVIOUS
<1>1. /\ DOMAIN books \subseteq Symbol
      /\ \A o \in checked : o.symbol \in DOMAIN books
  BY DEF PositionInv, EngineInv
<1>2. \A s \in DOMAIN l1 : IsFeed(l1[s])
  BY FeedTypeLemma DEF TypeParts
<1>3. taken \in [TraderId -> [Symbol -> Int]] /\ given \in [TraderId -> [Symbol -> Int]]
  BY DEF PositionInv, Totals
<1>4. TypeOK
  BY <1>1, <1>2, <1>3 DEF TypeOK, TypeParts
<1>5. DOMAIN positions \subseteq TraderId \X Symbol
  BY DEF LedgerInv, Matches
<1>6. ASSUME NEW key \in DOMAIN positions PROVE IsPosition(positions[key])
  <2>1. PICK t \in TraderId, s \in Symbol : key = <<t, s>>
    BY <1>5
  <2>2. PositionOf(positions, t, s) = positions[key]
    BY <2>1 DEF PositionOf
  <2>3. positions[key] \in PositionType
    BY <2>2 DEF LedgerInv, Matches, Agrees
  <2> QED BY <2>3, PositionFields DEF IsPosition, Side
<1> QED BY <1>4, <1>5, <1>6 DEF SessionTypeOK

\* No sequence of operations puts a variable out of its type: not the windows of
\* a feed, which stay as short as they are to be and have neither a trade of
\* nothing nor a spread of nothing, nor a fraction, whose denominator is never 0.
THEOREM SessionTypeCorrect == SessionSpec => []SessionTypeOK
<1>1. SessionInit => PositionInv
  BY SessionPositions
<1>2. SessionInit => LedgerInv
  BY SessionLedger
<1>3. SessionInit => TypeParts
  <2> SUFFICES ASSUME SessionInit PROVE TypeParts
    OBVIOUS
  <2>1. /\ books = <<>> /\ l1 = <<>> /\ l2 = <<>> /\ order_symbol_index = <<>> /\ checked = {}
        /\ RiskInit
    BY DEF SessionInit, Init
  <2>2. /\ DOMAIN l1 = {} /\ DOMAIN l2 = {} /\ DOMAIN books = {}
        /\ DOMAIN order_symbol_index = {}
    BY <2>1
  <2>3. RiskTypeOK
    <3>1. <<>> \in Seq(Nat)
      OBVIOUS
    <3>2. NewTrader \in RiskState
      BY <3>1 DEF NewTrader, RiskState
    <3>3. DOMAIN trader_limits = {}
      BY <2>1 DEF RiskInit
    <3> QED BY <2>1, <3>2, <3>3, LimitsAssumption DEF RiskInit, RiskTypeOK
  <2> QED BY <2>1, <2>2, <2>3 DEF TypeParts
<1>4. PositionInv /\ [SessionNext]_session_vars => PositionInv'
  BY NextPositions, TradersAssumption
<1>5. LedgerInv /\ [SessionNext]_session_vars => LedgerInv'
  BY NextLedger
<1>6. PositionInv /\ TypeParts /\ [SessionNext]_session_vars => TypeParts'
  BY NextTypes, SessionStep DEF PositionInv
<1> QED BY <1>1, <1>2, <1>3, <1>4, <1>5, <1>6, TypesLemma, PTL DEF SessionSpec
=============================================================================
