------------------------- MODULE L3OrderBookProofs -------------------------
(***************************************************************************)
(* L3OrderBook for all sets of orders, traders, prices and requests: the   *)
(* index designates what it should, and the book is never crossed; nothing *)
(* is lost between an order that fills, the order it trades with and the   *)
(* trade; the counts, the reports and the published top of book tell what  *)
(* the book holds; and no resting order is overtaken.  Its steps are those *)
(* of the abstract book with price-time priority, and those of the simple  *)
(* book that the repository keeps beside it.                               *)
(***************************************************************************)
EXTENDS TwoBooks, SequenceTheorems, SumProofs, TLAPS

\* rest holds the orders of queue but the k-th, each once.
QueueWithout(rest, queue, k) ==
  /\ rest \in Seq(L3Order)
  /\ \A i \in DOMAIN rest : \E j \in DOMAIN queue : j # k /\ rest[i].id = queue[j].id
  /\ \A j \in DOMAIN queue : j # k => \E i \in DOMAIN rest : rest[i].id = queue[j].id
  /\ \A i, j \in DOMAIN rest : rest[i].id = rest[j].id => i = j

\* u is well formed and has no level and no order that b has not.
BookWithin(u, b) ==
  /\ IsBook(u)
  /\ Linked(u)
  /\ \A s \in Side : DOMAIN u.levels[s] \subseteq DOMAIN b.levels[s]
  /\ DOMAIN u.order_index \subseteq DOMAIN b.order_index

\* The index says of an order in a queue where it is, and no other order of the
\* queue has its id.
LEMMA LinkedLemma ==
  ASSUME NEW b, Linked(b),
         NEW s \in Side, NEW q \in DOMAIN b.levels[s], NEW i \in DOMAIN b.levels[s][q]
  PROVE  /\ b.levels[s][q][i].id \in DOMAIN b.order_index
         /\ b.order_index[b.levels[s][q][i].id] = [side |-> s, price |-> q]
         /\ \A j \in DOMAIN b.levels[s][q] :
              b.levels[s][q][j].id = b.levels[s][q][i].id => j = i
BY DEF Linked

\* No two orders of a queue have the same id.
LEMMA DistinctLemma ==
  ASSUME NEW b, Linked(b), NEW s \in Side, NEW q \in DOMAIN b.levels[s]
  PROVE  \A i, j \in DOMAIN b.levels[s][q] :
           b.levels[s][q][i].id = b.levels[s][q][j].id => i = j
<1> SUFFICES ASSUME NEW i \in DOMAIN b.levels[s][q], NEW j \in DOMAIN b.levels[s][q],
                    b.levels[s][q][i].id = b.levels[s][q][j].id
             PROVE  i = j
  OBVIOUS
<1>1. \A m \in DOMAIN b.levels[s][q] : b.levels[s][q][m].id = b.levels[s][q][j].id => m = j
  BY Zenon DEF Linked
<1> QED BY <1>1

\* What an order leaving its queue does to the book.
LEMMA UnlinkLemma ==
  ASSUME NEW b, IsBook(b), Linked(b),
         NEW side \in Side, NEW p \in DOMAIN b.levels[side],
         NEW k \in DOMAIN b.levels[side][p],
         NEW rest, QueueWithout(rest, b.levels[side][p], k)
  PROVE  /\ BookWithin(Unlink(b, side, p, b.levels[side][p][k].id, rest), b)
         /\ b.levels[side][p][k].id \notin
              DOMAIN Unlink(b, side, p, b.levels[side][p][k].id, rest).order_index
<1> DEFINE id == b.levels[side][p][k].id
           u  == Unlink(b, side, p, id, rest)
<1>0. /\ rest \in Seq(L3Order)
      /\ \A i \in DOMAIN rest : \E j \in DOMAIN b.levels[side][p] :
           j # k /\ rest[i].id = b.levels[side][p][j].id
      /\ \A j \in DOMAIN b.levels[side][p] : j # k =>
           \E i \in DOMAIN rest : rest[i].id = b.levels[side][p][j].id
      /\ \A i, j \in DOMAIN rest : rest[i].id = rest[j].id => i = j
  BY DEF QueueWithout
<1>1. /\ PartialFunction(b.levels[side], Price, Seq(L3Order))
      /\ p \in Price
  BY DEF IsBook, PartialFunction
<1>2. \A i \in DOMAIN b.levels[side][p] :
        /\ b.levels[side][p][i].id \in DOMAIN b.order_index
        /\ b.order_index[b.levels[side][p][i].id] = [side |-> side, price |-> p]
        /\ b.levels[side][p][i].id = id => i = k
  BY LinkedLemma
<1>3. /\ u.levels = [s \in Side |-> IF s = side THEN SetLevel(b.levels[side], p, rest)
                                                ELSE b.levels[s]]
      /\ u.order_index = [x \in DOMAIN b.order_index \ {id} |-> b.order_index[x]]
      /\ u.order_count = [b.order_count EXCEPT ![side] = @ - 1]
      /\ u = [levels |-> u.levels, order_index |-> u.order_index, order_count |-> u.order_count]
  <2>1. b.levels = [s \in Side |-> b.levels[s]]
    BY DEF IsBook
  <2> QED BY <2>1 DEF Unlink
<1> HIDE DEF u
<1>4. /\ PartialFunction(u.levels[side], Price, Seq(L3Order))
      /\ DOMAIN u.levels[side] = IF rest = <<>> THEN DOMAIN b.levels[side] \ {p}
                                 ELSE DOMAIN b.levels[side]
      /\ \A q \in DOMAIN u.levels[side] :
           u.levels[side][q] = IF q = p THEN rest ELSE b.levels[side][q]
  <2>1. u.levels[side] = SetLevel(b.levels[side], p, rest)
    BY <1>3
  <2>2. DOMAIN b.levels[side] \cup {p} = DOMAIN b.levels[side]
    OBVIOUS
  <2>3. /\ PartialFunction(SetLevel(b.levels[side], p, rest), Price, Seq(L3Order))
        /\ DOMAIN SetLevel(b.levels[side], p, rest) =
             IF rest = <<>> THEN DOMAIN b.levels[side] \ {p} ELSE DOMAIN b.levels[side] \cup {p}
        /\ \A q \in DOMAIN SetLevel(b.levels[side], p, rest) :
             SetLevel(b.levels[side], p, rest)[q] = IF q = p THEN rest ELSE b.levels[side][q]
    BY <1>0, <1>1 DEF SetLevel, PartialFunction
  <2> QED BY <2>1, <2>2, <2>3
<1>5. \A s \in Side : s # side => u.levels[s] = b.levels[s]
  BY <1>3
<1>6. /\ DOMAIN u.order_index = DOMAIN b.order_index \ {id}
      /\ \A x \in DOMAIN u.order_index : u.order_index[x] = b.order_index[x]
  BY <1>3
<1>7. IsBook(u)
  <2>1. PartialFunction(u.order_index, OrderId, OrderLocation)
    BY <1>3 DEF IsBook, PartialFunction
  <2>2. u.order_count \in [Side -> Int]
    BY <1>3 DEF IsBook
  <2>3. ASSUME NEW s \in Side
        PROVE  /\ PartialFunction(u.levels[s], Price, Seq(L3Order))
               /\ \A q \in DOMAIN u.levels[s] : u.levels[s][q] # <<>>
    BY <1>0, <1>4, <1>5 DEF IsBook
  <2>4. u.levels = [s \in Side |-> u.levels[s]]
    BY <1>3
  <2> QED BY <1>3, <2>1, <2>2, <2>3, <2>4 DEF IsBook
<1>8. Linked(u)
  <2>1. ASSUME NEW s \in Side, NEW q \in DOMAIN u.levels[s], NEW i \in DOMAIN u.levels[s][q]
        PROVE  /\ u.levels[s][q][i].id \in DOMAIN u.order_index
               /\ u.order_index[u.levels[s][q][i].id] = [side |-> s, price |-> q]
               /\ \A j \in DOMAIN u.levels[s][q] :
                    u.levels[s][q][j].id = u.levels[s][q][i].id => j = i
    <3>1. CASE s = side /\ q = p
      <4>1. PICK j \in DOMAIN b.levels[side][p] : j # k /\ rest[i].id = b.levels[side][p][j].id
        BY <1>0, <1>4, <3>1
      <4> DEFINE x == rest[i].id
      <4>2. x # id /\ x \in DOMAIN b.order_index
            /\ b.order_index[x] = [side |-> side, price |-> p]
        BY <1>2, <4>1
      <4>3. u.levels[s][q] = rest
        BY <1>4, <3>1
      <4>4. x \in DOMAIN u.order_index /\ u.order_index[x] = b.order_index[x]
        BY <1>6, <4>2
      <4>5. \A m \in DOMAIN rest : rest[m].id = x => m = i
        BY <1>0, <4>3
      <4> HIDE DEF x
      <4> QED BY <3>1, <4>2, <4>3, <4>4, <4>5 DEF x
    <3>2. CASE ~(s = side /\ q = p)
      <4>1. q \in DOMAIN b.levels[s] /\ u.levels[s][q] = b.levels[s][q]
        BY <1>4, <1>5, <3>2
      <4>2. /\ b.levels[s][q][i].id \in DOMAIN b.order_index
            /\ b.order_index[b.levels[s][q][i].id] = [side |-> s, price |-> q]
            /\ \A j \in DOMAIN b.levels[s][q] :
                 b.levels[s][q][j].id = b.levels[s][q][i].id => j = i
        BY <4>1, LinkedLemma
      <4> DEFINE x == b.levels[s][q][i].id
      <4>3. x # id
        <5>1. b.order_index[id] = [side |-> side, price |-> p]
          BY <1>2
        <5>2. [side |-> s, price |-> q] # [side |-> side, price |-> p]
          BY <3>2
        <5> QED BY <4>2, <5>1, <5>2
      <4>4. x \in DOMAIN u.order_index /\ u.order_index[x] = [side |-> s, price |-> q]
        BY <1>6, <4>2, <4>3
      <4>5. /\ u.levels[s][q][i].id = x
            /\ \A j \in DOMAIN u.levels[s][q] : u.levels[s][q][j].id = x => j = i
        BY <4>1, <4>2
      <4> HIDE DEF x
      <4> QED BY <4>4, <4>5
    <3> QED BY <3>1, <3>2
  <2>2. ASSUME NEW x \in DOMAIN u.order_index
        PROVE  LET loc == u.order_index[x]
               IN  /\ loc.price \in DOMAIN u.levels[loc.side]
                   /\ \E i \in DOMAIN u.levels[loc.side][loc.price] :
                        u.levels[loc.side][loc.price][i].id = x
    <3> DEFINE loc == b.order_index[x]
    <3>1. x # id /\ x \in DOMAIN b.order_index /\ u.order_index[x] = loc
      BY <1>6
    <3>2. /\ loc.price \in DOMAIN b.levels[loc.side]
          /\ loc.side \in Side
      BY <3>1 DEF Linked, IsBook, PartialFunction, OrderLocation
    <3>3. PICK i \in DOMAIN b.levels[loc.side][loc.price] :
            b.levels[loc.side][loc.price][i].id = x
      BY <3>1 DEF Linked
    <3> HIDE DEF loc
    <3>4. CASE loc.side = side /\ loc.price = p
      <4>1. i # k
        BY <3>1, <3>3, <3>4
      <4>2. PICK j \in DOMAIN rest : rest[j].id = x
        BY <1>0, <3>3, <3>4, <4>1
      <4>3. rest # <<>>
        BY <1>0, <4>2
      <4> QED BY <1>4, <3>1, <3>4, <4>2, <4>3
    <3>5. CASE ~(loc.side = side /\ loc.price = p)
      <4>1. /\ loc.price \in DOMAIN u.levels[loc.side]
            /\ u.levels[loc.side][loc.price] = b.levels[loc.side][loc.price]
        BY <1>4, <1>5, <3>2, <3>5
      <4> QED BY <3>1, <3>3, <4>1
    <3> QED BY <3>4, <3>5
  <2> QED BY <2>1, <2>2 DEF Linked
<1>9. \A s \in Side : DOMAIN u.levels[s] \subseteq DOMAIN b.levels[s]
  BY <1>4, <1>5
<1> QED BY <1>6, <1>7, <1>8, <1>9 DEF u, BookWithin

\* r is well formed, and has no level that b has not but the one of order.
BookWith(r, b, order) ==
  /\ IsBook(r)
  /\ Linked(r)
  /\ \A s \in Side : DOMAIN r.levels[s] =
       IF s = order.side THEN DOMAIN b.levels[s] \cup {order.price} ELSE DOMAIN b.levels[s]

\* What an order joining the queue of its price does to the book.
LEMMA RestLemma ==
  ASSUME NEW b, IsBook(b), Linked(b),
         NEW order \in Order, order.id \notin DOMAIN b.order_index,
         NEW remaining \in Nat, order.quantity - remaining \in Nat
  PROVE  BookWith(Rest(b, order, remaining), b, order)
<1> DEFINE side  == order.side
           p     == order.price
           id    == order.id
           queue == IF p \in DOMAIN b.levels[side] THEN b.levels[side][p] ELSE <<>>
           l3    == [id |-> id, trader_id |-> order.trader_id, visible_qty |-> remaining,
                     hidden_qty |-> 0, filled_qty |-> order.quantity - remaining,
                     queue_pos |-> Len(queue), is_iceberg |-> FALSE]
           longer == Append(queue, l3)
           r     == Rest(b, order, remaining)
<1>1. side \in Side /\ p \in Price /\ id \in OrderId /\ order.trader_id \in TraderId
  BY DEF Order
<1>2. /\ \A s \in Side : PartialFunction(b.levels[s], Price, Seq(L3Order))
      /\ PartialFunction(b.order_index, OrderId, OrderLocation)
      /\ b.order_count \in [Side -> Int]
      /\ b.levels = [s \in Side |-> b.levels[s]]
  BY DEF IsBook
<1>3. queue \in Seq(L3Order)
  BY <1>1, <1>2 DEF PartialFunction
<1>4. l3 \in L3Order
  BY <1>1, <1>3 DEF L3Order
<1>5. /\ longer \in Seq(L3Order) /\ longer # <<>>
      /\ DOMAIN longer = 1..(Len(queue) + 1)
      /\ DOMAIN queue = 1..Len(queue) /\ Len(queue) \in Nat
      /\ \A i \in 1..Len(queue) : longer[i] = queue[i]
      /\ longer[Len(queue) + 1].id = id
  <2> HIDE DEF queue, id
  <2> QED BY <1>3, <1>4, AppendProperties
<1>6. /\ r.levels = [s \in Side |-> IF s = side THEN SetLevel(b.levels[side], p, longer)
                                                ELSE b.levels[s]]
      /\ r.order_index = [x \in DOMAIN b.order_index \cup {id} |->
                            IF x = id THEN [side |-> side, price |-> p] ELSE b.order_index[x]]
      /\ r.order_count = [b.order_count EXCEPT ![side] = @ + 1]
      /\ r = [levels |-> r.levels, order_index |-> r.order_index, order_count |-> r.order_count]
  BY <1>2 DEF Rest
<1>id. id \notin DOMAIN b.order_index
  OBVIOUS
<1>qu. queue = IF p \in DOMAIN b.levels[side] THEN b.levels[side][p] ELSE <<>>
  OBVIOUS
<1> HIDE DEF r, longer, l3, queue, side, p, id
<1>7. /\ PartialFunction(r.levels[side], Price, Seq(L3Order))
      /\ DOMAIN r.levels[side] = DOMAIN b.levels[side] \cup {p}
      /\ \A q \in DOMAIN r.levels[side] :
           r.levels[side][q] = IF q = p THEN longer ELSE b.levels[side][q]
  <2>1. r.levels[side] = SetLevel(b.levels[side], p, longer)
    BY <1>1, <1>6
  <2>2. PartialFunction(b.levels[side], Price, Seq(L3Order))
    BY <1>1, <1>2
  <2> QED BY <1>1, <1>5, <2>1, <2>2 DEF SetLevel, PartialFunction
<1>8. \A s \in Side : s # side => r.levels[s] = b.levels[s]
  BY <1>6
<1>9. IsBook(r)
  <2>1. PartialFunction(r.order_index, OrderId, OrderLocation)
    BY <1>1, <1>2, <1>6 DEF PartialFunction, OrderLocation
  <2>2. r.order_count \in [Side -> Int]
    BY <1>1, <1>2, <1>6
  <2>3. ASSUME NEW s \in Side
        PROVE  /\ PartialFunction(r.levels[s], Price, Seq(L3Order))
               /\ \A q \in DOMAIN r.levels[s] : r.levels[s][q] # <<>>
    BY <1>5, <1>7, <1>8 DEF IsBook
  <2>4. r.levels = [s \in Side |-> r.levels[s]]
    BY <1>6
  <2> QED BY <1>6, <2>1, <2>2, <2>3, <2>4 DEF IsBook
<1>10. Linked(r)
  <2>1. ASSUME NEW s \in Side, NEW q \in DOMAIN r.levels[s], NEW i \in DOMAIN r.levels[s][q]
        PROVE  /\ r.levels[s][q][i].id \in DOMAIN r.order_index
               /\ r.order_index[r.levels[s][q][i].id] = [side |-> s, price |-> q]
               /\ \A j \in DOMAIN r.levels[s][q] :
                    r.levels[s][q][j].id = r.levels[s][q][i].id => j = i
    <3>1. CASE s = side /\ q = p
      <4>1. \A j \in DOMAIN queue :
              /\ queue[j].id \in DOMAIN b.order_index
              /\ b.order_index[queue[j].id] = [side |-> side, price |-> p]
              /\ queue[j].id # id
              /\ \A m \in DOMAIN queue : queue[m].id = queue[j].id => m = j
        <5>1. CASE p \in DOMAIN b.levels[side]
          <6>1. queue = b.levels[side][p]
            BY <1>qu, <5>1
          <6> QED BY <1>1, <1>id, <5>1, <6>1, LinkedLemma
        <5>2. CASE p \notin DOMAIN b.levels[side]
          <6>1. DOMAIN queue = {}
            BY <1>qu, <5>2
          <6> QED BY <6>1
        <5> QED BY <5>1, <5>2
      <4>2. r.levels[s][q] = longer /\ i \in 1..(Len(queue) + 1)
        BY <1>5, <1>7, <3>1
      <4>3. longer[i].id \in DOMAIN r.order_index
            /\ r.order_index[longer[i].id] = [side |-> side, price |-> p]
        BY <1>5, <1>6, <4>1, <4>2
      <4>4. ASSUME NEW j \in 1..(Len(queue) + 1), longer[j].id = longer[i].id
            PROVE  j = i
        <5>1. CASE i = Len(queue) + 1
          BY <1>5, <4>1, <4>4, <5>1
        <5>2. CASE i # Len(queue) + 1
          <6>1. i \in DOMAIN queue /\ longer[i] = queue[i]
            BY <1>5, <4>2, <5>2
          <6>2. j # Len(queue) + 1
            BY <1>5, <4>1, <4>4, <6>1
          <6> QED BY <1>5, <4>1, <4>4, <6>1, <6>2
        <5> QED BY <5>1, <5>2
      <4> QED BY <1>5, <3>1, <4>2, <4>3, <4>4
    <3>2. CASE ~(s = side /\ q = p)
      <4>1. q \in DOMAIN b.levels[s] /\ r.levels[s][q] = b.levels[s][q]
        BY <1>7, <1>8, <3>2
      <4>2. /\ b.levels[s][q][i].id \in DOMAIN b.order_index
            /\ b.order_index[b.levels[s][q][i].id] = [side |-> s, price |-> q]
            /\ \A j \in DOMAIN b.levels[s][q] :
                 b.levels[s][q][j].id = b.levels[s][q][i].id => j = i
        BY <4>1, LinkedLemma
      <4> DEFINE x == b.levels[s][q][i].id
      <4>3. r.levels[s][q][i].id = x
        BY <4>1
      <4>4. x \in DOMAIN r.order_index /\ r.order_index[x] = [side |-> s, price |-> q]
        BY <1>6, <1>id, <4>2
      <4>5. \A j \in DOMAIN r.levels[s][q] : r.levels[s][q][j].id = x => j = i
        BY <4>1, <4>2
      <4> HIDE DEF x
      <4> QED BY <4>3, <4>4, <4>5
    <3> QED BY <3>1, <3>2
  <2>2. ASSUME NEW x \in DOMAIN r.order_index
        PROVE  LET loc == r.order_index[x]
               IN  /\ loc.price \in DOMAIN r.levels[loc.side]
                   /\ \E i \in DOMAIN r.levels[loc.side][loc.price] :
                        r.levels[loc.side][loc.price][i].id = x
    <3>1. CASE x = id
      <4>1. r.order_index[x] = [side |-> side, price |-> p]
        BY <1>6, <3>1
      <4>2. p \in DOMAIN r.levels[side] /\ r.levels[side][p] = longer
        BY <1>7
      <4>3. Len(queue) + 1 \in DOMAIN longer
        BY <1>5
      <4> QED BY <1>5, <3>1, <4>1, <4>2, <4>3
    <3>2. CASE x # id
      <4> DEFINE loc == b.order_index[x]
      <4>1. x \in DOMAIN b.order_index /\ r.order_index[x] = loc
        BY <1>6, <3>2
      <4>2. loc.side \in Side
        BY <1>2, <4>1 DEF PartialFunction, OrderLocation
      <4>3. loc.price \in DOMAIN b.levels[loc.side]
        BY <4>1 DEF Linked
      <4>4. PICK i \in DOMAIN b.levels[loc.side][loc.price] :
              b.levels[loc.side][loc.price][i].id = x
        BY <4>1 DEF Linked
      <4> HIDE DEF loc
      <4>5. CASE loc.side = side /\ loc.price = p
        <5>1. queue = b.levels[loc.side][loc.price]
          BY <1>qu, <4>3, <4>5
        <5>2. i \in DOMAIN longer /\ longer[i].id = x
          <6>1. i \in DOMAIN queue /\ queue[i].id = x
            BY <4>4, <5>1
          <6>2. i \in 1..Len(queue) /\ i \in 1..(Len(queue) + 1)
            BY <1>5, <6>1
          <6> QED BY <1>5, <6>1, <6>2
        <5> QED BY <1>7, <4>1, <4>5, <5>2
      <4>6. CASE ~(loc.side = side /\ loc.price = p)
        BY <1>7, <1>8, <4>1, <4>2, <4>3, <4>4, <4>6
      <4> QED BY <4>5, <4>6
    <3> QED BY <3>1, <3>2
  <2> QED BY <2>1, <2>2 DEF Linked
<1>11. \A s \in Side : DOMAIN r.levels[s] =
         IF s = side THEN DOMAIN b.levels[s] \cup {p} ELSE DOMAIN b.levels[s]
  BY <1>7, <1>8
<1> QED BY <1>9, <1>10, <1>11 DEF r, side, p, BookWith

\* A fill moves quantity from open to filled, hidden or displayed, iceberg or
\* not, and changes nothing else that the book relies on.
LEMMA FillRestingLemma ==
  ASSUME NEW o \in L3Order, NEW qty \in 0..OpenQty(o)
  PROVE  LET f == FillResting(o, qty)
         IN  /\ f \in L3Order
             /\ f.id = o.id
             /\ OpenQty(f) = OpenQty(o) - qty
             /\ OpenQty(f) + f.filled_qty = OpenQty(o) + o.filled_qty
<1> DEFINE shown  == IF qty <= o.visible_qty THEN o.visible_qty - qty ELSE 0
           hidden == IF qty <= o.visible_qty THEN o.hidden_qty
                     ELSE o.hidden_qty - (qty - o.visible_qty)
           replenish == IF shown = 0 /\ hidden > 0 /\ o.is_iceberg
                        THEN LesserOf(hidden, IcebergSlice) ELSE 0
           f == FillResting(o, qty)
<1>1. /\ o.visible_qty \in Nat /\ o.hidden_qty \in Nat /\ o.filled_qty \in Nat
      /\ OpenQty(o) = o.visible_qty + o.hidden_qty
  BY DEF L3Order, OpenQty
<1>2. shown \in Nat /\ hidden \in Nat /\ shown + hidden = OpenQty(o) - qty
  BY <1>1
<1> HIDE DEF shown, hidden
<1>3. replenish \in 0..hidden
  BY <1>2 DEF LesserOf, IcebergSlice
<1> HIDE DEF replenish
<1>4. f = [o EXCEPT !.visible_qty = shown + replenish,
                    !.hidden_qty  = hidden - replenish,
                    !.filled_qty  = @ + qty]
  BY DEF FillResting, shown, hidden, replenish
<1> HIDE DEF f
<1>5. /\ f \in L3Order /\ f.id = o.id
      /\ f.visible_qty = shown + replenish
      /\ f.hidden_qty = hidden - replenish
      /\ f.filled_qty = o.filled_qty + qty
  <2>1. shown + replenish \in Nat /\ hidden - replenish \in Nat /\ o.filled_qty + qty \in Nat
    BY <1>1, <1>2, <1>3
  <2> QED BY <1>4, <2>1 DEF L3Order
<1> QED BY <1>1, <1>2, <1>3, <1>5 DEF OpenQty, f

\* The queue of a level that exists, and its orders.
LEMMA QueueLemma ==
  ASSUME NEW b, IsBook(b), NEW side \in Side, NEW p \in DOMAIN b.levels[side]
  PROVE  /\ p \in Price
         /\ b.levels[side][p] \in Seq(L3Order)
         /\ b.levels[side][p] # <<>>
         /\ Len(b.levels[side][p]) \in Nat \ {0}
         /\ DOMAIN b.levels[side][p] = 1..Len(b.levels[side][p])
         /\ Head(b.levels[side][p]) = b.levels[side][p][1]
         /\ Head(b.levels[side][p]) \in L3Order
<1> DEFINE queue == b.levels[side][p]
<1>1. p \in Price /\ queue \in Seq(L3Order) /\ queue # <<>>
  BY DEF IsBook, PartialFunction
<1> HIDE DEF queue
<1>2. /\ Len(queue) \in Nat \ {0}
      /\ DOMAIN queue = 1..Len(queue)
      /\ Head(queue) = queue[1]
      /\ Head(queue) \in L3Order
  BY <1>1, EmptySeq, HeadTailProperties
<1> QED BY <1>1, <1>2 DEF queue

\* x and o are the same order, whatever positions they were given.
SameOrder(x, o) == [x EXCEPT !.queue_pos = 0] = [o EXCEPT !.queue_pos = 0]

\* rest is queue without its k-th order: the others keep their order.
Removed(rest, queue, k) ==
  /\ rest \in Seq(L3Order)
  /\ Len(rest) = Len(queue) - 1
  /\ \A i \in DOMAIN rest : SameOrder(rest[i], IF i < k THEN queue[i] ELSE queue[i + 1])

\* Two records of the same order agree in all but the position.
LEMMA SameOrderLemma ==
  ASSUME NEW x \in L3Order, NEW o \in L3Order
  PROVE  SameOrder(x, o) <=> /\ x.id = o.id /\ x.trader_id = o.trader_id
                             /\ x.visible_qty = o.visible_qty /\ x.hidden_qty = o.hidden_qty
                             /\ x.filled_qty = o.filled_qty /\ x.is_iceberg = o.is_iceberg
<1> DEFINE y == [x EXCEPT !.queue_pos = 0]
           n == [o EXCEPT !.queue_pos = 0]
<1>1. /\ y \in L3Order /\ n \in L3Order /\ y.queue_pos = 0 /\ n.queue_pos = 0
      /\ y.id = x.id /\ y.trader_id = x.trader_id
      /\ y.visible_qty = x.visible_qty /\ y.hidden_qty = x.hidden_qty
      /\ y.filled_qty = x.filled_qty /\ y.is_iceberg = x.is_iceberg
      /\ n.id = o.id /\ n.trader_id = o.trader_id
      /\ n.visible_qty = o.visible_qty /\ n.hidden_qty = o.hidden_qty
      /\ n.filled_qty = o.filled_qty /\ n.is_iceberg = o.is_iceberg
  BY DEF L3Order
<1> HIDE DEF y, n
<1>2. y = n <=> /\ y.id = n.id /\ y.trader_id = n.trader_id
                /\ y.visible_qty = n.visible_qty /\ y.hidden_qty = n.hidden_qty
                /\ y.filled_qty = n.filled_qty /\ y.is_iceberg = n.is_iceberg
  BY <1>1 DEF L3Order
<1> QED BY <1>1, <1>2 DEF SameOrder, y, n

\* What is left when the front of a queue goes.
LEMMA TailRemoves ==
  ASSUME NEW queue \in Seq(L3Order), queue # <<>>
  PROVE  Removed(Tail(queue), queue, 1)
<1>1. /\ Tail(queue) \in Seq(L3Order) /\ Len(Tail(queue)) = Len(queue) - 1
      /\ \A i \in 1..Len(Tail(queue)) : Tail(queue)[i] = queue[i + 1]
  BY HeadTailProperties
<1>2. DOMAIN Tail(queue) = 1..Len(Tail(queue))
  BY <1>1
<1> QED BY <1>1, <1>2 DEF Removed, SameOrder

\* A sequence without one of its elements.
LEMMA RemoveAtLemma ==
  ASSUME NEW S, NEW s \in Seq(S), NEW at \in DOMAIN s
  PROVE  /\ RemoveAt(s, at) \in Seq(S) /\ Len(RemoveAt(s, at)) = Len(s) - 1
         /\ \A i \in 1..(Len(s) - 1) : RemoveAt(s, at)[i] = IF i < at THEN s[i] ELSE s[i + 1]
<1> DEFINE short  == RemoveAt(s, at)
           before == SubSeq(s, 1, at - 1)
           after  == SubSeq(s, at + 1, Len(s))
<1>1. at \in 1..Len(s) /\ Len(s) \in Nat
  OBVIOUS
<1>2. /\ before \in Seq(S) /\ Len(before) = at - 1
      /\ \A i \in 1..(at - 1) : before[i] = s[i]
  BY <1>1
<1>3. /\ after \in Seq(S) /\ Len(after) = Len(s) - at
      /\ \A i \in 1..(Len(s) - at) : after[i] = s[at + i]
  BY <1>1
<1>4. short = before \o after
  BY DEF RemoveAt
<1> HIDE DEF short, before, after
<1>5. /\ before \o after \in Seq(S)
      /\ Len(before \o after) = Len(before) + Len(after)
      /\ \A i \in 1..(Len(before) + Len(after)) : (before \o after)[i] =
           IF i <= Len(before) THEN before[i] ELSE after[i - Len(before)]
  BY <1>2, <1>3, ConcatProperties
<1>6. ASSUME NEW i \in 1..(Len(s) - 1)
      PROVE  short[i] = IF i < at THEN s[i] ELSE s[i + 1]
  <2>1. CASE i < at
    <3>1. i \in 1..(Len(before) + Len(after)) /\ i <= Len(before) /\ i \in 1..(at - 1)
      BY <1>1, <1>2, <1>3, <2>1
    <3>2. short[i] = before[i] /\ before[i] = s[i]
      BY <1>2, <1>4, <1>5, <3>1
    <3> QED BY <2>1, <3>2
  <2>2. CASE i >= at
    <3>1. i - Len(before) \in 1..(Len(s) - at) /\ at + (i - Len(before)) = i + 1
      BY <1>1, <1>2, <2>2
    <3>2. after[i - Len(before)] = s[i + 1]
      BY <1>3, <3>1
    <3>3. i \in 1..(Len(before) + Len(after)) /\ ~(i <= Len(before))
      BY <1>1, <1>2, <1>3, <2>2
    <3>4. (before \o after)[i] = after[i - Len(before)]
      BY <1>5, <3>3
    <3> QED BY <1>1, <1>4, <2>2, <3>2, <3>4
  <2> QED BY <1>1, <2>1, <2>2
<1>7. short \in Seq(S) /\ Len(short) = Len(s) - 1
  BY <1>1, <1>2, <1>3, <1>4, <1>5
<1> QED BY <1>6, <1>7 DEF short

\* What is left when an order is cancelled, and the others are renumbered.
LEMMA RemovalLemma ==
  ASSUME NEW queue \in Seq(L3Order), NEW at \in DOMAIN queue
  PROVE  Removed(Renumber(RemoveAt(queue, at)), queue, at)
<1> DEFINE short == RemoveAt(queue, at)
           rest  == Renumber(short)
<1>1. at \in 1..Len(queue) /\ Len(queue) \in Nat
  OBVIOUS
<1>2. /\ short \in Seq(L3Order) /\ Len(short) = Len(queue) - 1
      /\ \A i \in 1..(Len(queue) - 1) : short[i] = IF i < at THEN queue[i] ELSE queue[i + 1]
  BY RemoveAtLemma
<1> HIDE DEF short
<1>3. DOMAIN short = 1..(Len(queue) - 1) /\ Len(queue) - 1 \in Nat
  BY <1>1, <1>2
<1>4. \A i \in 1..(Len(queue) - 1) : short[i] \in L3Order
  BY <1>2, <1>3
<1>5. rest = [i \in 1..(Len(queue) - 1) |-> [short[i] EXCEPT !.queue_pos = i - 1]]
  BY <1>3 DEF Renumber
<1> HIDE DEF rest
<1>6. \A i \in 1..(Len(queue) - 1) : /\ rest[i] = [short[i] EXCEPT !.queue_pos = i - 1]
                                     /\ rest[i] \in L3Order
                                     /\ SameOrder(rest[i], short[i])
  <2> SUFFICES ASSUME NEW i \in 1..(Len(queue) - 1)
               PROVE  /\ rest[i] = [short[i] EXCEPT !.queue_pos = i - 1]
                      /\ rest[i] \in L3Order
                      /\ SameOrder(rest[i], short[i])
    OBVIOUS
  <2>1. rest[i] = [short[i] EXCEPT !.queue_pos = i - 1] /\ short[i] \in L3Order /\ i - 1 \in Nat
    BY <1>3, <1>4, <1>5
  <2>2. rest[i] \in L3Order
    BY <2>1 DEF L3Order
  <2>3. SameOrder(rest[i], short[i])
    BY <2>1, <2>2, SameOrderLemma DEF L3Order
  <2> QED BY <2>1, <2>2, <2>3
<1>7. rest \in Seq(L3Order) /\ Len(rest) = Len(queue) - 1 /\ DOMAIN rest = 1..(Len(queue) - 1)
  <2>1. rest \in [1..(Len(queue) - 1) -> L3Order]
    BY <1>5, <1>6
  <2> QED BY <1>3, <2>1
<1> QED BY <1>2, <1>6, <1>7 DEF Removed, rest, short

\* A queue of distinct orders that loses one has the others, each once.
LEMMA WithoutLemma ==
  ASSUME NEW queue \in Seq(L3Order), NEW k \in DOMAIN queue,
         \A i, j \in DOMAIN queue : queue[i].id = queue[j].id => i = j,
         NEW rest, Removed(rest, queue, k)
  PROVE  QueueWithout(rest, queue, k)
<1> DEFINE from(m) == IF m < k THEN m ELSE m + 1
<1>1. /\ rest \in Seq(L3Order) /\ DOMAIN rest = 1..(Len(queue) - 1)
      /\ DOMAIN queue = 1..Len(queue) /\ Len(queue) \in Nat /\ k \in 1..Len(queue)
  BY DEF Removed
<1>2. ASSUME NEW i \in DOMAIN rest
      PROVE  /\ from(i) \in DOMAIN queue /\ from(i) # k
             /\ rest[i].id = queue[from(i)].id
  <2>1. from(i) \in DOMAIN queue /\ from(i) # k
    BY <1>1
  <2>2. SameOrder(rest[i], queue[from(i)])
    BY DEF Removed
  <2>3. rest[i] \in L3Order /\ queue[from(i)] \in L3Order
    BY <1>1, <2>1
  <2> HIDE DEF from
  <2> QED BY <2>1, <2>2, <2>3, SameOrderLemma
<1>3. ASSUME NEW j \in DOMAIN queue, j # k
      PROVE  \E i \in DOMAIN rest : rest[i].id = queue[j].id
  <2> DEFINE i == IF j < k THEN j ELSE j - 1
  <2>1. i \in DOMAIN rest /\ from(i) = j
    BY <1>1, <1>3
  <2> QED BY <1>2, <2>1
<1>4. ASSUME NEW i \in DOMAIN rest, NEW j \in DOMAIN rest, rest[i].id = rest[j].id
      PROVE  i = j
  <2>1. from(i) = from(j)
    <3> HIDE DEF from
    <3> QED BY <1>2, <1>4
  <2> QED BY <1>1, <2>1
<1> QED BY <1>1, <1>2, <1>3, <1>4 DEF QueueWithout

\* One iteration of match_against keeps the book well formed and adds no level.
LEMMA FillFrontLemma ==
  ASSUME NEW b, IsBook(b), Linked(b),
         NEW side \in Side, NEW p \in DOMAIN b.levels[side],
         NEW qty \in 0..OpenQty(Head(b.levels[side][p]))
  PROVE  BookWithin(FillFront(b, side, p, qty), b)
<1> DEFINE queue == b.levels[side][p]
           front == FillResting(Head(queue), qty)
           f     == FillFront(b, side, p, qty)
<1>1. /\ p \in Price /\ queue \in Seq(L3Order) /\ queue # <<>>
      /\ Len(queue) \in Nat \ {0} /\ DOMAIN queue = 1..Len(queue)
      /\ Head(queue) = queue[1] /\ Head(queue) \in L3Order
  BY QueueLemma
<1>2. front \in L3Order /\ front.id = queue[1].id
  BY <1>1, FillRestingLemma
<1>3. \A i, j \in DOMAIN queue : queue[i].id = queue[j].id => i = j
  BY DEF Linked
<1>4. CASE OpenQty(front) = 0
  <2> DEFINE rest == Tail(queue)
  <2>1. /\ rest \in Seq(L3Order) /\ DOMAIN rest = 1..(Len(queue) - 1)
        /\ \A i \in DOMAIN rest : rest[i] = queue[i + 1]
    <3> HIDE DEF queue
    <3> QED BY <1>1, HeadTailProperties
  <2>2. QueueWithout(rest, queue, 1)
    <3>1. 1 \in DOMAIN queue
      BY <1>1
    <3> HIDE DEF queue, rest
    <3>2. Removed(rest, queue, 1)
      BY <1>1, <2>1, TailRemoves DEF rest
    <3> QED BY <1>1, <1>3, <3>1, <3>2, WithoutLemma
  <2>3. f = Unlink(b, side, p, queue[1].id, rest)
    BY <1>2, <1>4 DEF FillFront
  <2>4. 1 \in DOMAIN queue
    BY <1>1
  <2> HIDE DEF rest
  <2>5. BookWithin(Unlink(b, side, p, queue[1].id, rest), b)
    BY <2>2, <2>4, UnlinkLemma
  <2> QED BY <2>3, <2>5
<1>5. CASE OpenQty(front) # 0
  <2> DEFINE same == <<front>> \o Tail(queue)
  <2>1. /\ same \in Seq(L3Order) /\ same # <<>>
        /\ DOMAIN same = DOMAIN queue
        /\ \A i \in DOMAIN queue : same[i].id = queue[i].id
    <3> HIDE DEF queue, front
    <3>1. /\ Tail(queue) \in Seq(L3Order) /\ Len(Tail(queue)) = Len(queue) - 1
          /\ \A i \in 1..Len(Tail(queue)) : Tail(queue)[i] = queue[i + 1]
      BY <1>1, HeadTailProperties
    <3>2. <<front>> \in Seq(L3Order) /\ Len(<<front>>) = 1 /\ <<front>>[1] = front
      BY <1>2
    <3>3. /\ same \in Seq(L3Order) /\ Len(same) = Len(queue)
          /\ \A i \in 1..Len(queue) : same[i] = IF i = 1 THEN front ELSE queue[i]
      BY <1>1, <3>1, <3>2, ConcatProperties
    <3> HIDE DEF same
    <3> QED BY <1>1, <1>2, <3>3
  <2>2. f = [b EXCEPT !.levels[side][p] = same]
    BY <1>5 DEF FillFront
  <2> HIDE DEF same, f, front
  <2>3. /\ b.levels = [s \in Side |-> b.levels[s]]
        /\ b.levels[side] \in [DOMAIN b.levels[side] -> Seq(L3Order)]
    BY DEF IsBook, PartialFunction
  <2>4. /\ f.levels = [s \in Side |-> IF s = side THEN [b.levels[side] EXCEPT ![p] = same]
                                                  ELSE b.levels[s]]
        /\ f.order_index = b.order_index
        /\ f.order_count = b.order_count
        /\ f = [levels |-> f.levels, order_index |-> f.order_index, order_count |-> f.order_count]
    BY <2>2, <2>3 DEF IsBook
  <2>5. \A s \in Side :
          /\ DOMAIN f.levels[s] = DOMAIN b.levels[s]
          /\ f.levels[s] = [q \in DOMAIN b.levels[s] |->
                              IF s = side /\ q = p THEN same ELSE b.levels[s][q]]
    BY <2>3, <2>4 DEF IsBook, PartialFunction
  <2>6. IsBook(f)
    BY <2>1, <2>4, <2>5 DEF IsBook, PartialFunction
  <2>7. \A s \in Side : \A q \in DOMAIN f.levels[s] :
          /\ DOMAIN f.levels[s][q] = DOMAIN b.levels[s][q]
          /\ \A i \in DOMAIN b.levels[s][q] : f.levels[s][q][i].id = b.levels[s][q][i].id
    <3> TAKE s \in Side
    <3> TAKE q \in DOMAIN f.levels[s]
    <3>1. CASE s = side /\ q = p
      <4>1. f.levels[s][q] = same
        BY <2>5, <3>1
      <4> QED BY <2>1, <3>1, <4>1
    <3>2. CASE ~(s = side /\ q = p)
      BY <2>5, <3>2
    <3> QED BY <3>1, <3>2
  <2>8. Linked(f)
    <3> HIDE DEF queue
    <3>1. ASSUME NEW s \in Side, NEW q \in DOMAIN f.levels[s], NEW i \in DOMAIN f.levels[s][q]
          PROVE  /\ f.levels[s][q][i].id \in DOMAIN f.order_index
                 /\ f.order_index[f.levels[s][q][i].id] = [side |-> s, price |-> q]
                 /\ \A j \in DOMAIN f.levels[s][q] :
                      f.levels[s][q][j].id = f.levels[s][q][i].id => j = i
      <4>1. q \in DOMAIN b.levels[s] /\ i \in DOMAIN b.levels[s][q]
        BY <2>5, <2>7
      <4>2. /\ b.levels[s][q][i].id \in DOMAIN b.order_index
            /\ b.order_index[b.levels[s][q][i].id] = [side |-> s, price |-> q]
            /\ \A j \in DOMAIN b.levels[s][q] :
                 b.levels[s][q][j].id = b.levels[s][q][i].id => j = i
        BY <4>1, LinkedLemma
      <4> DEFINE x == b.levels[s][q][i].id
      <4>3. f.levels[s][q][i].id = x
        BY <2>7, <4>1
      <4>4. x \in DOMAIN f.order_index /\ f.order_index[x] = [side |-> s, price |-> q]
        BY <2>4, <4>2
      <4>5. \A j \in DOMAIN f.levels[s][q] : f.levels[s][q][j].id = x => j = i
        BY <2>7, <4>1, <4>2, SMTT(30)
      <4> HIDE DEF x
      <4> QED BY <4>3, <4>4, <4>5
    <3>2. ASSUME NEW x \in DOMAIN f.order_index
          PROVE  LET loc == f.order_index[x]
                 IN  /\ loc.price \in DOMAIN f.levels[loc.side]
                     /\ \E i \in DOMAIN f.levels[loc.side][loc.price] :
                          f.levels[loc.side][loc.price][i].id = x
      <4> DEFINE loc == b.order_index[x]
      <4>1. loc.side \in Side /\ loc = f.order_index[x]
        BY <2>4 DEF IsBook, PartialFunction, OrderLocation
      <4>2. loc.price \in DOMAIN b.levels[loc.side]
        BY <2>4 DEF Linked
      <4>3. PICK i \in DOMAIN b.levels[loc.side][loc.price] :
              b.levels[loc.side][loc.price][i].id = x
        BY <2>4 DEF Linked
      <4> HIDE DEF loc
      <4> QED BY <2>5, <2>7, <4>1, <4>2, <4>3
    <3> QED BY <3>1, <3>2 DEF Linked
  <2> QED BY <2>4, <2>5, <2>6, <2>8 DEF f, BookWithin
<1> QED BY <1>4, <1>5

\* What cancel_order does to the book: the order leaves, the others stay, each
\* where the index says, however they are renumbered.
LEMMA WithdrawLemma ==
  ASSUME NEW b, IsBook(b), Linked(b), NEW id \in DOMAIN b.order_index
  PROVE  BookWithin(Withdraw(b, id), b) /\ id \notin DOMAIN Withdraw(b, id).order_index
<1> DEFINE side  == b.order_index[id].side
           p     == b.order_index[id].price
           queue == b.levels[side][p]
           at    == CHOOSE i \in DOMAIN queue : queue[i].id = id
           short == RemoveAt(queue, at)
           rest  == Renumber(short)
<1>1. side \in Side /\ p \in DOMAIN b.levels[side] /\ \E i \in DOMAIN queue : queue[i].id = id
  BY DEF IsBook, PartialFunction, OrderLocation, Linked
<1>2. at \in DOMAIN queue /\ queue[at].id = id
  BY <1>1
<1>3. /\ queue \in Seq(L3Order) /\ Len(queue) \in Nat /\ DOMAIN queue = 1..Len(queue)
  <2>1. side \in Side /\ p \in DOMAIN b.levels[side]
    BY <1>1
  <2> HIDE DEF side, p
  <2> QED BY <2>1, QueueLemma
<1>4. Withdraw(b, id) = Unlink(b, side, p, id, rest)
  BY DEF Withdraw
<1> HIDE DEF side, p
<1>distinct. \A i, j \in DOMAIN queue : queue[i].id = queue[j].id => i = j
  <2>1. side \in Side /\ p \in DOMAIN b.levels[side]
    BY <1>1
  <2> QED BY <2>1, DistinctLemma
<1>5. QueueWithout(rest, queue, at)
  <2> HIDE DEF queue, at
  <2>1. Removed(rest, queue, at)
    BY <1>2, <1>3, RemovalLemma
  <2> HIDE DEF rest
  <2> QED BY <1>2, <1>3, <1>distinct, <2>1, WithoutLemma
<1> HIDE DEF rest, at
<1>6. /\ BookWithin(Unlink(b, side, p, queue[at].id, rest), b)
      /\ queue[at].id \notin DOMAIN Unlink(b, side, p, queue[at].id, rest).order_index
  BY <1>1, <1>2, <1>5, UnlinkLemma
<1> QED BY <1>2, <1>4, <1>6

----------------------------------------------------------------------------
(* The invariant.  NotCrossed is kept by the step that rests an order because *)
(* matching is done by then; to conclude that the order crosses nothing, the  *)
(* step needs to know why matching is done, and Rest needs an id that is new. *)

CallSane ==
  \A c \in call :
    /\ c.order.id \notin DOMAIN book.order_index
    /\ c.remaining <= c.order.quantity
    /\ c.fillable \/ c.order.tif = "FOK"

IInv == TypeOK /\ IndexMatchesBook /\ NotCrossed /\ CallSane

\* The empty book satisfies the invariant.
LEMMA InitIInv == Init => IInv
<1> SUFFICES ASSUME Init PROVE IInv
  OBVIOUS
<1>1. /\ \A s \in Side : EmptyBook.levels[s] = <<>>
      /\ EmptyBook.order_index = <<>>
      /\ DOMAIN EmptyBook.order_index = {}
      /\ \A s \in Side : DOMAIN EmptyBook.levels[s] = {}
  BY DEF EmptyBook
<1>2. IsBook(EmptyBook)
  BY <1>1 DEF EmptyBook, IsBook, PartialFunction
<1>3. TopOfBook(EmptyBook).valid \in BOOLEAN
  BY DEF TopOfBook
<1>4. NotCrossed
  BY <1>1 DEF Init, NotCrossed, Side
<1>5. Linked(EmptyBook)
  BY <1>1 DEF Linked
<1> QED BY <1>2, <1>3, <1>4, <1>5 DEF Init, IInv, TypeOK, IndexMatchesBook, CallSane

\* A top of book has a validity flag, whatever the book is.
LEMMA TopOfBookLemma == ASSUME NEW b PROVE TopOfBook(b).valid \in BOOLEAN
BY DEF TopOfBook

\* What add_order remembers when it begins is of its type and sane.
LEMMA ActivationLemma ==
  ASSUME NEW b, NEW order \in Order
  PROVE  LET c == Activation(b, order)
         IN  /\ c \in [order : Order, remaining : Int, trades : Seq(Trade), fillable : BOOLEAN]
             /\ c.order = order
             /\ c.remaining = order.quantity
             /\ c.fillable \/ c.order.tif = "FOK"
<1>1. order.quantity \in Int
  BY DEF Order
<1>2. <<>> \in Seq(Trade)
  OBVIOUS
<1>3. (order.tif # "FOK" \/ CanFill(b, order)) \in BOOLEAN
  OBVIOUS
<1> QED BY <1>1, <1>2, <1>3 DEF Activation

\* A book with no level the crossed-free book did not have is not crossed.
LEMMA WithinNotCrossed ==
  ASSUME NotCrossed, BookWithin(book', book)
  PROVE  NotCrossed'
BY DEF NotCrossed, BookWithin, Side

\* A report of add_order is of its type.
LEMMA AddReportLemma ==
  ASSUME NEW c, c.order \in Order
  PROVE  /\ AddReport(c).order_id \in OrderId
         /\ AddReport(c).status \in OrderStatus
BY DEF AddReport, Order, OrderStatus

\* add_order begins.
LEMMA BeginAddStep ==
  ASSUME IInv, NEW order \in Submissions, BeginAdd(order)
  PROVE  IInv'
<1>1. order \in Order
  BY InputAssumption
<1> DEFINE a == Activation(book, order)
<1>2. /\ a \in [order : Order, remaining : Int, trades : Seq(Trade), fillable : BOOLEAN]
      /\ a.order = order /\ a.remaining = order.quantity
      /\ a.fillable \/ a.order.tif = "FOK"
  BY <1>1, ActivationLemma
<1>3. /\ call' = {a} /\ report' = {} /\ book' = book /\ tob' = tob
      /\ order.id \notin DOMAIN book.order_index
  BY DEF BeginAdd
<1> HIDE DEF a
<1>4. TypeOK'
  BY <1>2, <1>3 DEF IInv, TypeOK
<1>5. CallSane'
  BY <1>1, <1>2, <1>3 DEF CallSane, Order
<1>6. IndexMatchesBook' /\ NotCrossed'
  BY <1>3 DEF IInv, IndexMatchesBook, NotCrossed
<1> QED BY <1>4, <1>5, <1>6 DEF IInv

\* One iteration of the matching loop.
LEMMA MatchOneStep == IInv /\ MatchOne => IInv'
<1> SUFFICES ASSUME IInv, MatchOne PROVE IInv'
  OBVIOUS
<1>1. PICK c \in call :
        LET side == Opposite(c.order.side)
        IN  /\ ~MatchingDone(book, c)
            /\ \E p \in DOMAIN book.levels[side] :
                 LET front == Head(book.levels[side][p])
                     qty   == LesserOf(c.remaining, OpenQty(front))
                 IN  /\ IsBest(book.levels, side, p)
                     /\ book' = FillFront(book, side, p, qty)
                     /\ call' = {Traded(c, front, p, qty)}
            /\ UNCHANGED <<report, tob>>
  BY DEF MatchOne
<1> DEFINE side == Opposite(c.order.side)
<1>2. /\ c \in [order : Order, remaining : Int, trades : Seq(Trade), fillable : BOOLEAN]
      /\ IsBook(book) /\ Linked(book) /\ NotCrossed
      /\ c.order.id \notin DOMAIN book.order_index
      /\ c.remaining <= c.order.quantity
      /\ c.fillable \/ c.order.tif = "FOK"
  BY DEF IInv, TypeOK, IndexMatchesBook, CallSane
<1>3. side \in Side
  BY DEF Opposite, Side
<1>4. c.remaining > 0
  BY <1>1, <1>2 DEF MatchingDone
<1>5. PICK p \in DOMAIN book.levels[side] :
        LET front == Head(book.levels[side][p])
            qty   == LesserOf(c.remaining, OpenQty(front))
        IN  /\ book' = FillFront(book, side, p, qty)
            /\ call' = {Traded(c, front, p, qty)}
  BY <1>1
<1> DEFINE front == Head(book.levels[side][p])
           qty   == LesserOf(c.remaining, OpenQty(front))
           trade == [resting_id |-> front.id, resting_trader |-> front.trader_id,
                     incoming_trader |-> c.order.trader_id, price |-> p, qty |-> qty]
           d     == Traded(c, front, p, qty)
<1>6. /\ book' = FillFront(book, side, p, qty) /\ call' = {d}
      /\ report' = report /\ tob' = tob
  BY <1>1, <1>5
<1> HIDE DEF side
<1>7. front \in L3Order /\ p \in Price
  BY <1>2, <1>3, QueueLemma
<1> HIDE DEF front
<1>8. OpenQty(front) \in Nat
  BY <1>7 DEF L3Order, OpenQty
<1>9. qty \in 0..OpenQty(front)
  BY <1>2, <1>4, <1>8 DEF LesserOf
<1> HIDE DEF qty
<1>10. BookWithin(FillFront(book, side, p, qty), book)
  BY <1>2, <1>3, <1>9, FillFrontLemma DEF front
<1>11. BookWithin(book', book)
  BY <1>6, <1>10
<1>12. trade \in Trade
  BY <1>2, <1>7, <1>8, <1>9 DEF Trade, L3Order, Order
<1> HIDE DEF trade
<1>13. Append(c.trades, trade) \in Seq(Trade) /\ c.remaining - qty \in Int
  BY <1>2, <1>8, <1>9, <1>12
<1>14. /\ d \in [order : Order, remaining : Int, trades : Seq(Trade), fillable : BOOLEAN]
       /\ d.order = c.order /\ d.fillable = c.fillable /\ d.remaining = c.remaining - qty
  <2>1. d = [c EXCEPT !.remaining = @ - qty, !.trades = Append(@, trade)]
    BY DEF Traded, trade
  <2> QED BY <1>2, <1>13, <2>1
<1> HIDE DEF d
<1>15. TypeOK'
  BY <1>6, <1>11, <1>14 DEF IInv, TypeOK, BookWithin
<1>16. IndexMatchesBook'
  BY <1>11 DEF IndexMatchesBook, BookWithin
<1>17. NotCrossed'
  BY <1>2, <1>11, WithinNotCrossed
<1>18. CallSane'
  <2>1. d.order.id \notin DOMAIN book'.order_index
    BY <1>2, <1>11, <1>14 DEF BookWithin
  <2>2. d.remaining <= d.order.quantity
    BY <1>2, <1>8, <1>9, <1>14 DEF Order
  <2>3. d.fillable \/ d.order.tif = "FOK"
    BY <1>2, <1>14
  <2> QED BY <1>6, <2>1, <2>2, <2>3 DEF CallSane
<1> QED BY <1>15, <1>16, <1>17, <1>18 DEF IInv

\* add_order rests what is left, if anything, and returns: no level of the
\* other side crosses a limit order that matching has finished with.
LEMMA FinishAddStep == IInv /\ FinishAdd => IInv'
<1> SUFFICES ASSUME IInv, FinishAdd PROVE IInv'
  OBVIOUS
<1>1. PICK c \in call :
        /\ MatchingDone(book, c)
        /\ call' = {}
        /\ report' = {AddReport(c)}
        /\ book' = IF Rests(c) THEN Rest(book, c.order, c.remaining) ELSE book
        /\ tob' = IF Publishes(c) THEN TopOfBook(book') ELSE tob
  BY DEF FinishAdd
<1>2. /\ c \in [order : Order, remaining : Int, trades : Seq(Trade), fillable : BOOLEAN]
      /\ IsBook(book) /\ Linked(book) /\ NotCrossed
      /\ c.order.id \notin DOMAIN book.order_index
      /\ c.remaining <= c.order.quantity
      /\ c.fillable \/ c.order.tif = "FOK"
      /\ tob.valid \in BOOLEAN
  BY DEF IInv, TypeOK, IndexMatchesBook, CallSane
<1>3. IsBook(book') /\ Linked(book') /\ NotCrossed'
  <2>1. CASE ~Rests(c)
    BY <1>1, <1>2, <2>1 DEF NotCrossed
  <2>2. CASE Rests(c)
    <3> DEFINE r == Rest(book, c.order, c.remaining)
    <3>1. /\ c.remaining > 0 /\ c.order.type = "Limit" /\ c.order.tif # "FOK"
          /\ c.order.side \in Side /\ c.order.price \in Int /\ c.order.quantity \in Int
          /\ c.order \in Order
      BY <1>2, <2>2, PriceAssumption DEF Rests, Order
    <3>2. c.remaining \in Nat /\ c.order.quantity - c.remaining \in Nat
      BY <1>2, <3>1
    <3>3. BookWith(r, book, c.order)
      BY <1>2, <3>1, <3>2, RestLemma
    <3>4. \A p \in DOMAIN book.levels[Opposite(c.order.side)] :
            Better(c.order.side, p, c.order.price)
      BY <1>1, <1>2, <3>1 DEF MatchingDone, Crosses
    <3>5. book' = r
      BY <1>1, <2>2
    <3> HIDE DEF r
    <3>6. NotCrossed'
      <4>1. CASE c.order.side = "Buy"
        BY <1>2, <3>3, <3>4, <3>5, <4>1 DEF NotCrossed, Better, Opposite, Side, BookWith
      <4>2. CASE c.order.side = "Sell"
        BY <1>2, <3>3, <3>4, <3>5, <4>2 DEF NotCrossed, Better, Opposite, Side, BookWith
      <4> QED BY <3>1, <4>1, <4>2 DEF Side
    <3> QED BY <3>3, <3>5, <3>6 DEF BookWith
  <2> QED BY <2>1, <2>2
<1>4. TypeOK'
  <2>1. tob'.valid \in BOOLEAN
    BY <1>1, <1>2, TopOfBookLemma
  <2>2. \A r \in report' : r.order_id \in OrderId /\ r.status \in OrderStatus
    BY <1>1, <1>2, AddReportLemma
  <2> QED BY <1>1, <1>3, <2>1, <2>2 DEF TypeOK
<1>5. CallSane'
  BY <1>1 DEF CallSane
<1> QED BY <1>3, <1>4, <1>5 DEF IInv, IndexMatchesBook

\* A rejected cancel, replace or duplicate changes the report only.
LEMMA RejectStep ==
  ASSUME IInv,
         \/ \E order \in Submissions : RejectDuplicate(order)
         \/ \E id \in OrderId : RejectUnknown(id)
  PROVE  IInv'
<1>1. /\ book' = book /\ call' = call /\ tob' = tob
      /\ \E id \in OrderId : \E type, qty, reason : report' = {Rejection(id, type, qty, reason)}
  BY InputAssumption DEF RejectDuplicate, RejectUnknown, DuplicateReport, UnknownReport, Order
<1>2. \A r \in report' : r.order_id \in OrderId /\ r.status \in OrderStatus
  BY <1>1 DEF Rejection, OrderStatus
<1> QED BY <1>1, <1>2 DEF IInv, TypeOK, IndexMatchesBook, NotCrossed, CallSane

\* A cancel takes the order from the queue and from the index.
LEMMA CancelOrderStep ==
  ASSUME IInv, NEW id \in OrderId, CancelOrder(id)
  PROVE  IInv'
<1>1. /\ call = {} /\ call' = call /\ id \in DOMAIN book.order_index
      /\ report' = {CancelReport(book, id)}
      /\ book' = Withdraw(book, id)
      /\ tob' = TopOfBook(book')
  BY DEF CancelOrder
<1>2. IsBook(book) /\ Linked(book) /\ NotCrossed
  BY DEF IInv, TypeOK, IndexMatchesBook
<1>3. BookWithin(book', book)
  BY <1>1, <1>2, WithdrawLemma
<1>4. NotCrossed'
  BY <1>2, <1>3, WithinNotCrossed
<1>5. CancelReport(book, id).order_id \in OrderId /\ CancelReport(book, id).status \in OrderStatus
  BY DEF CancelReport, OrderStatus
<1>6. tob'.valid \in BOOLEAN
  BY <1>1, TopOfBookLemma
<1>7. TypeOK' /\ IndexMatchesBook'
  BY <1>1, <1>3, <1>5, <1>6 DEF TypeOK, IndexMatchesBook, BookWithin
<1>8. CallSane'
  BY <1>1 DEF CallSane
<1> QED BY <1>4, <1>7, <1>8 DEF IInv

\* A replace takes the order out and begins an add_order with the same id.
LEMMA ReplaceOrderStep ==
  ASSUME IInv, NEW req \in Replacements, ReplaceOrder(req)
  PROVE  IInv'
<1> DEFINE id == req.order_id
           order == ReplacementOrder(book, req)
           a == Activation(book', order)
<1>1. /\ id \in DOMAIN book.order_index
      /\ book' = Withdraw(book, id)
      /\ tob' = TopOfBook(book')
      /\ call' = {a}
      /\ report' = {}
  BY DEF ReplaceOrder
<1>2. IsBook(book) /\ Linked(book) /\ NotCrossed
  BY DEF IInv, TypeOK, IndexMatchesBook
<1>3. BookWithin(book', book) /\ id \notin DOMAIN book'.order_index
  BY <1>1, <1>2, WithdrawLemma
<1>4. NotCrossed'
  BY <1>2, <1>3, WithinNotCrossed
<1>5. order \in Order /\ order.id = id
  <2>1. book.order_index[id].side \in Side
    BY <1>1, <1>2 DEF IsBook, PartialFunction, OrderLocation
  <2>2. /\ req.order_id \in OrderId /\ req.trader_id \in TraderId
        /\ req.new_price \in Price /\ req.new_qty \in Int
    BY InputAssumption DEF ReplaceRequest
  <2> QED BY <2>1, <2>2 DEF ReplacementOrder, Order, OrderType, TimeInForce
<1>6. /\ a \in [order : Order, remaining : Int, trades : Seq(Trade), fillable : BOOLEAN]
      /\ a.order = order /\ a.remaining = order.quantity
      /\ a.fillable \/ a.order.tif = "FOK"
  BY <1>5, ActivationLemma
<1>7. tob'.valid \in BOOLEAN
  BY <1>1, TopOfBookLemma
<1> HIDE DEF a, order
<1>8. TypeOK' /\ IndexMatchesBook'
  BY <1>1, <1>3, <1>6, <1>7 DEF TypeOK, IndexMatchesBook, BookWithin
<1>9. CallSane'
  <2>1. order.quantity \in Int
    BY <1>5 DEF Order
  <2> QED BY <1>1, <1>3, <1>5, <1>6, <2>1 DEF CallSane
<1> QED BY <1>4, <1>8, <1>9 DEF IInv

\* Every step keeps the invariant.
LEMMA NextIInv == IInv /\ [Next]_vars => IInv'
<1> SUFFICES ASSUME IInv, [Next]_vars PROVE IInv'
  OBVIOUS
<1>1. CASE UNCHANGED vars
  BY <1>1 DEF vars, IInv, TypeOK, IndexMatchesBook, NotCrossed, CallSane
<1>2. ASSUME NEW order \in Submissions, BeginAdd(order) PROVE IInv'
  BY <1>2, BeginAddStep
<1>3. CASE MatchOne
  BY <1>3, MatchOneStep
<1>4. CASE FinishAdd
  BY <1>4, FinishAddStep
<1>5. CASE \/ \E order \in Submissions : RejectDuplicate(order)
           \/ \E id \in OrderId : RejectUnknown(id)
  BY <1>5, RejectStep
<1>6. ASSUME NEW id \in OrderId, CancelOrder(id) PROVE IInv'
  BY <1>6, CancelOrderStep
<1>7. ASSUME NEW req \in Replacements, ReplaceOrder(req) PROVE IInv'
  BY <1>7, ReplaceOrderStep
<1> QED BY <1>1, <1>2, <1>3, <1>4, <1>5, <1>6, <1>7 DEF Next

\* The invariant holds in every reachable state.
THEOREM Invariance == Spec => []IInv
<1>1. Init => IInv
  BY InitIInv
<1>2. IInv /\ [Next]_vars => IInv'
  BY NextIInv
<1> QED BY <1>1, <1>2, PTL DEF Spec

\* Every variable has its type, and no level of a map has an empty queue, so
\* that front() in match_against and best_bid is never called on nothing.
THEOREM TypeCorrect == Spec => []TypeOK
<1>1. IInv => TypeOK
  BY DEF IInv
<1> QED BY <1>1, Invariance, PTL

\* The book is never crossed, for any orders, prices, cancels and replaces.
THEOREM BookNeverCrossed == Spec => []NotCrossed
<1>1. IInv => NotCrossed
  BY DEF IInv
<1> QED BY <1>1, Invariance, PTL

\* The iterators of order_index_ designate the resting orders and nothing else.
THEOREM IndexIsExact == Spec => []IndexMatchesBook
<1>1. IInv => IndexMatchesBook
  BY DEF IInv
<1> QED BY <1>1, Invariance, PTL

----------------------------------------------------------------------------
(* Displayed quantity, as a sum over positions. *)

\* What the orders of a queue display, by position.
Shown(queue) == [i \in DOMAIN queue |-> queue[i].visible_qty]

\* What is displayed before position i.
Ahead(queue, i) == SumOver(Shown(queue), 1..(i - 1))

\* A nonempty set of positions has a last one.
LEMMA LastPosition ==
  ASSUME NEW n \in Nat, NEW s \in SUBSET (1..n), s # {}
  PROVE  Max(s) \in s
<1> DEFINE gaps == {n - x : x \in s}
<1>1. gaps \in SUBSET Nat /\ gaps # {}
  <2>1. \A x \in s : x \in 1..n
    OBVIOUS
  <2>2. \A x \in s : n - x \in Nat
    BY <2>1
  <2> QED BY <2>2
<1>2. PICK g \in gaps : \A h \in gaps : g <= h
  BY <1>1, LeastLemma
<1>3. PICK x \in s : g = n - x
  OBVIOUS
<1>4. \A y \in s : x >= y
  <2> TAKE y \in s
  <2>1. n - y \in gaps
    OBVIOUS
  <2>2. n - x <= n - y
    BY <1>2, <1>3, <2>1
  <2>3. x \in 1..n /\ y \in 1..n
    OBVIOUS
  <2> QED BY <2>2, <2>3
<1> QED BY <1>3, <1>4 DEF Max

\* it adds up f over the positions 1 to n, the last one first, as FoldLeft does.
BackSumsOn(it, f, n) ==
  it = [s \in SUBSET (1..n) |-> IF s = {} THEN 0 ELSE it[s \ {Max(s)}] + f[Max(s)]]

\* What a fold from the left over a sequence of n adds up.
LEMMA BackSumsLemma ==
  ASSUME NEW n \in Nat, NEW f, \A x \in 1..n : f[x] \in Int
  PROVE  /\ \E it : BackSumsOn(it, f, n)
         /\ \A it : BackSumsOn(it, f, n) => it[1..n] = SumOver(f, 1..n)
<1> DEFINE D  == 1..n
           ch == [s \in SUBSET D |-> Max(s)]
<1>1. \A s \in SUBSET D : s # {} => Max(s) \in s
  BY LastPosition
<1>2. IsFiniteSet(D) /\ \A x \in D : f[x] \in Int
  BY FS_Interval
<1>3. \A it : BackSumsOn(it, f, n) <=>
        it = [s \in SUBSET D |-> IF s = {} THEN 0 ELSE it[s \ {Max(s)}] + f[Max(s)]]
  BY DEF BackSumsOn
<1> HIDE DEF D
<1>4. \A s \in SUBSET D : s # {} => ch[s] \in s /\ ch[s] = Max(s)
  BY <1>1
<1> HIDE DEF ch
<1>5. Choice(ch, D)
  BY <1>4 DEF Choice
<1>6. \A it : BackSumsOn(it, f, n) <=> LeftSumsOn(it, f, ch, SUBSET D)
  <2> TAKE it
  <2>1. \A s \in SUBSET D :
          (IF s = {} THEN 0 ELSE it[s \ {Max(s)}] + f[Max(s)])
            = IF s = {} THEN 0 ELSE it[s \ {ch[s]}] + f[ch[s]]
    BY <1>4
  <2>2. [s \in SUBSET D |-> IF s = {} THEN 0 ELSE it[s \ {Max(s)}] + f[Max(s)]]
          = [s \in SUBSET D |-> IF s = {} THEN 0 ELSE it[s \ {ch[s]}] + f[ch[s]]]
    BY <2>1
  <2> QED BY <1>3, <2>2 DEF LeftSumsOn
<1>7. /\ \E it : LeftSumsOn(it, f, ch, SUBSET D)
      /\ \A it : LeftSumsOn(it, f, ch, SUBSET D) => it[D] = SumOver(f, D)
  BY <1>2, <1>5, LeftSumsLemma
<1> QED BY <1>6, <1>7 DEF D

\* VisibleQty adds up what the queue displays.
LEMMA VisibleQtyLemma ==
  ASSUME NEW queue \in Seq(L3Order)
  PROVE  VisibleQty(queue) = SumOver(Shown(queue), DOMAIN queue)
<1> DEFINE D  == DOMAIN queue
           f  == Shown(queue)
           OfTheFold(it) ==
             it = [s \in SUBSET D |->
                     IF s = {} THEN 0 ELSE it[s \ {Max(s)}] + queue[Max(s)].visible_qty]
<1>1. VisibleQty(queue) = (CHOOSE it : OfTheFold(it))[D]
  BY DEF VisibleQty, FoldLeft, MapThenFoldSet
<1>2. D = 1..Len(queue) /\ Len(queue) \in Nat
  OBVIOUS
<1>3. \A x \in D : f[x] = queue[x].visible_qty /\ f[x] \in Int
  <2>1. \A x \in D : queue[x] \in L3Order
    OBVIOUS
  <2>2. \A x \in D : f[x] = queue[x].visible_qty
    BY DEF Shown
  <2> QED BY <2>1, <2>2 DEF L3Order
<1> HIDE DEF D, f
<1>4. \A s \in SUBSET D : s # {} => Max(s) \in s
  BY <1>2, LastPosition
<1>5. \A it : OfTheFold(it) <=> BackSumsOn(it, f, Len(queue))
  BY <1>2, <1>3, <1>4 DEF BackSumsOn
<1>6. /\ \E it : BackSumsOn(it, f, Len(queue))
      /\ \A it : BackSumsOn(it, f, Len(queue)) => it[D] = SumOver(f, D)
  BY <1>2, <1>3, BackSumsLemma
<1> HIDE DEF OfTheFold
<1>7. OfTheFold(CHOOSE it : OfTheFold(it))
  BY <1>5, <1>6
<1> QED BY <1>1, <1>5, <1>6, <1>7 DEF D, f

\* A sum over the first positions, and one position more.
LEMMA PrefixLemma ==
  ASSUME NEW f, NEW n \in Nat, \A x \in 1..(n + 1) : f[x] \in Int
  PROVE  /\ SumOver(f, 1..0) = 0
         /\ SumOver(f, 1..n) \in Int
         /\ SumOver(f, 1..(n + 1)) = SumOver(f, 1..n) + f[n + 1]
<1>1. IsFiniteSet(1..n) /\ IsFiniteSet(1..0)
  BY FS_Interval
<1>2. 1..0 = {}
  OBVIOUS
<1>3. SumOver(f, 1..0) = 0
  BY <1>1, <1>2, SumUnfold
<1>4. (1..n) \cup {n + 1} = 1..(n + 1) /\ n + 1 \notin 1..n
  OBVIOUS
<1>5. (\A x \in 1..n : f[x] \in Int) /\ f[n + 1] \in Int
  BY <1>4
<1>6. SumOver(f, 1..n) \in Int
  BY <1>1, <1>5, SumType
<1>7. SumOver(f, (1..n) \cup {n + 1}) = f[n + 1] + SumOver(f, 1..n)
  <2> DEFINE S == 1..n
             a == n + 1
  <2>1. IsFiniteSet(S) /\ a \notin S /\ \A x \in S \cup {a} : f[x] \in Int
    BY <1>1, <1>4, <1>5
  <2> HIDE DEF S, a
  <2>2. SumOver(f, S \cup {a}) = f[a] + SumOver(f, S)
    BY <2>1, SumAdd
  <2> QED BY <2>2 DEF S, a
<1>8. SumOver(f, 1..(n + 1)) = f[n + 1] + SumOver(f, 1..n)
  <2> DEFINE S == (1..n) \cup {n + 1}
             R == 1..(n + 1)
  <2>1. S = R
    BY <1>4
  <2>2. SumOver(f, S) = f[n + 1] + SumOver(f, 1..n)
    BY <1>7
  <2> HIDE DEF S, R
  <2>3. SumOver(f, R) = f[n + 1] + SumOver(f, 1..n)
    BY <2>1, <2>2
  <2> QED BY <2>3 DEF R
<1> QED BY <1>3, <1>5, <1>6, <1>8

\* What is displayed at a position is a natural number.
LEMMA ShownLemma ==
  ASSUME NEW queue \in Seq(L3Order)
  PROVE  /\ DOMAIN queue = 1..Len(queue)
         /\ Len(queue) \in Nat
         /\ \A i \in 1..Len(queue) : /\ queue[i] \in L3Order
                                     /\ Shown(queue)[i] = queue[i].visible_qty
                                     /\ Shown(queue)[i] \in Nat
<1>1. DOMAIN queue = 1..Len(queue) /\ Len(queue) \in Nat
  OBVIOUS
<1>2. \A i \in 1..Len(queue) : queue[i] \in L3Order
  BY <1>1
<1>3. \A i \in 1..Len(queue) : Shown(queue)[i] = queue[i].visible_qty
  BY <1>1 DEF Shown
<1> QED BY <1>1, <1>2, <1>3 DEF L3Order

\* quantity_ahead adds up the queue before the order's position.
LEMMA AheadLemma ==
  ASSUME NEW queue \in Seq(L3Order), NEW i \in DOMAIN queue
  PROVE  VisibleQty(SubSeq(queue, 1, i - 1)) = Ahead(queue, i)
<1> DEFINE front == SubSeq(queue, 1, i - 1)
<1>1. i \in 1..Len(queue) /\ Len(queue) \in Nat
  OBVIOUS
<1>2. /\ front \in Seq(L3Order) /\ DOMAIN front = 1..(i - 1)
      /\ \A j \in 1..(i - 1) : front[j] = queue[j]
  BY <1>1
<1> HIDE DEF front
<1>3. VisibleQty(front) = SumOver(Shown(front), 1..(i - 1))
  BY <1>2, VisibleQtyLemma
<1>4. \A j \in 1..(i - 1) : Shown(front)[j] = Shown(queue)[j]
  <2>1. \A j \in 1..(i - 1) : j \in 1..Len(queue)
    BY <1>1
  <2> QED BY <1>1, <1>2, <2>1 DEF Shown
<1>5. IsFiniteSet(1..(i - 1))
  BY <1>1, FS_Interval
<1>6. SumOver(Shown(front), 1..(i - 1)) = SumOver(Shown(queue), 1..(i - 1))
  <2> DEFINE S == 1..(i - 1)
             f == Shown(front)
             g == Shown(queue)
  <2>1. IsFiniteSet(S) /\ \A x \in S : f[x] = g[x]
    BY <1>4, <1>5
  <2> HIDE DEF S, f, g
  <2>2. SumOver(f, S) = SumOver(g, S)
    BY <2>1, SumSame
  <2> QED BY <2>2 DEF S, f, g
<1> QED BY <1>3, <1>6 DEF front, Ahead

\* Less before a position in each order is not more in all.
LEMMA AheadMonotone ==
  ASSUME NEW queue \in Seq(L3Order), NEW i \in DOMAIN queue
  PROVE  /\ Ahead(queue, i) \in Int
         /\ \A other \in Seq(L3Order) :
              /\ i \in DOMAIN other
              /\ \A j \in 1..(i - 1) : other[j].visible_qty <= queue[j].visible_qty
              => Ahead(other, i) <= Ahead(queue, i)
<1> DEFINE S == 1..(i - 1)
<1>1. i \in 1..Len(queue) /\ Len(queue) \in Nat
  OBVIOUS
<1>2. IsFiniteSet(S) /\ \A j \in S : j \in 1..Len(queue)
  <2>1. i - 1 \in Nat
    BY <1>1
  <2>2. IsFiniteSet(S)
    BY <2>1, FS_Interval
  <2> QED BY <1>1, <2>2
<1>3. \A j \in S : Shown(queue)[j] = queue[j].visible_qty /\ Shown(queue)[j] \in Int
  BY <1>2, ShownLemma
<1>4. SumOver(Shown(queue), S) \in Int
  <2> HIDE DEF S
  <2> QED BY <1>2, <1>3, SumType
<1>5. ASSUME NEW other \in Seq(L3Order), i \in DOMAIN other,
             \A j \in 1..(i - 1) : other[j].visible_qty <= queue[j].visible_qty
      PROVE  SumOver(Shown(other), S) <= SumOver(Shown(queue), S)
  <2>1. i \in 1..Len(other) /\ Len(other) \in Nat
    BY <1>5
  <2>2. \A j \in S : j \in 1..Len(other)
    BY <1>1, <2>1
  <2>3. \A j \in S : Shown(other)[j] = other[j].visible_qty /\ Shown(other)[j] \in Int
    BY <2>2, ShownLemma
  <2>4. \A j \in S : Shown(other)[j] <= Shown(queue)[j]
    BY <1>3, <1>5, <2>3
  <2> DEFINE f == Shown(other)
             g == Shown(queue)
  <2>5. \A j \in S : f[j] \in Int /\ g[j] \in Int /\ f[j] <= g[j]
    BY <1>3, <2>3, <2>4
  <2> HIDE DEF S, f, g
  <2>6. SumOver(f, S) <= SumOver(g, S)
    BY <1>2, <2>5, SumMonotone
  <2> QED BY <2>6 DEF f, g
<1> QED BY <1>4, <1>5 DEF Ahead

\* When an order leaves a queue, the others have no more before them.
LEMMA RemovedAhead ==
  ASSUME NEW queue \in Seq(L3Order), NEW k \in DOMAIN queue,
         NEW rest, Removed(rest, queue, k), NEW i \in DOMAIN rest
  PROVE  Ahead(rest, i) <= Ahead(queue, IF i < k THEN i ELSE i + 1)
<1> DEFINE f == Shown(queue)
           g == Shown(rest)
           n == Len(queue)
           T == {m \in Nat : m + 1 \in 1..(n - 1) =>
                   SumOver(g, 1..m) <= SumOver(f, 1..(IF m + 1 < k THEN m ELSE m + 1))}
<1>1. /\ rest \in Seq(L3Order) /\ Len(rest) = n - 1 /\ n \in Nat /\ k \in 1..n
      /\ DOMAIN rest = 1..(n - 1)
      /\ \A j \in 1..n : f[j] \in Nat /\ queue[j] \in L3Order /\ f[j] = queue[j].visible_qty
      /\ \A j \in 1..(n - 1) : g[j] \in Nat /\ rest[j] \in L3Order /\ g[j] = rest[j].visible_qty
  BY ShownLemma DEF Removed
<1>2. \A j \in 1..(n - 1) : g[j] = IF j < k THEN f[j] ELSE f[j + 1]
  <2> SUFFICES ASSUME NEW j \in 1..(n - 1)
               PROVE  g[j] = IF j < k THEN f[j] ELSE f[j + 1]
    OBVIOUS
  <2> DEFINE h == IF j < k THEN j ELSE j + 1
  <2>1. h \in 1..n /\ SameOrder(rest[j], queue[h])
    <3>1. h \in 1..n /\ j \in DOMAIN rest
      BY <1>1
    <3>2. SameOrder(rest[j], IF j < k THEN queue[j] ELSE queue[j + 1])
      BY <3>1 DEF Removed
    <3>3. queue[h] = IF j < k THEN queue[j] ELSE queue[j + 1]
      OBVIOUS
    <3> QED BY <3>1, <3>2, <3>3
  <2> HIDE DEF h
  <2>2. rest[j].visible_qty = queue[h].visible_qty
    BY <1>1, <2>1, SameOrderLemma
  <2>3. g[j] = f[h]
    BY <1>1, <2>1, <2>2
  <2> QED BY <2>3 DEF h
<1> HIDE DEF f, g, n
<1>3. ASSUME NEW m \in Nat, m + 1 \in 1..n
      PROVE  /\ SumOver(f, 1..0) = 0 /\ SumOver(f, 1..m) \in Int
             /\ SumOver(f, 1..(m + 1)) = SumOver(f, 1..m) + f[m + 1]
  <2>1. \A x \in 1..(m + 1) : f[x] \in Int
    BY <1>1, <1>3
  <2> QED BY <2>1, PrefixLemma
<1>4. ASSUME NEW m \in Nat, m + 1 \in 1..(n - 1)
      PROVE  /\ SumOver(g, 1..0) = 0 /\ SumOver(g, 1..m) \in Int
             /\ SumOver(g, 1..(m + 1)) = SumOver(g, 1..m) + g[m + 1]
  <2>1. \A x \in 1..(m + 1) : g[x] \in Int
    BY <1>1, <1>4
  <2> QED BY <2>1, PrefixLemma
<1>5. 0 \in T
  <2> SUFFICES ASSUME 1 \in 1..(n - 1)
               PROVE  SumOver(g, 1..0) <= SumOver(f, 1..(IF 1 < k THEN 0 ELSE 1))
    OBVIOUS
  <2> DEFINE G(x) == SumOver(g, 1..x)
             F(x) == SumOver(f, 1..x)
  <2>1. 0 \in Nat /\ 0 + 1 = 1 /\ 1 \in 1..n /\ k \in Nat
    BY <1>1
  <2>2. G(0) = 0
    BY <1>4, <2>1
  <2>3. F(0) = 0 /\ F(1) = F(0) + f[1] /\ f[1] \in Nat
    BY <1>1, <1>3, <2>1
  <2> HIDE DEF F, G
  <2>4. G(0) <= F(IF 1 < k THEN 0 ELSE 1)
    BY <2>1, <2>2, <2>3
  <2> QED BY <2>4 DEF F, G
<1>6. ASSUME NEW m \in Nat, m \in T PROVE m + 1 \in T
  <2> SUFFICES ASSUME m + 2 \in 1..(n - 1)
               PROVE  SumOver(g, 1..(m + 1)) <=
                        SumOver(f, 1..(IF m + 2 < k THEN m + 1 ELSE m + 2))
    OBVIOUS
  <2> DEFINE G(x) == SumOver(g, 1..x)
             F(x) == SumOver(f, 1..x)
  <2>1. /\ m + 1 \in 1..(n - 1) /\ m + 1 \in 1..n /\ m + 2 \in 1..n
        /\ m + 1 \in Nat /\ (m + 1) + 1 = m + 2
    BY <1>1
  <2>2. G(m) \in Int /\ G(m + 1) = G(m) + g[m + 1]
    BY <1>4, <2>1
  <2>3. F(m) \in Int /\ F(m + 1) = F(m) + f[m + 1]
    BY <1>3, <2>1
  <2>4. F(m + 2) = F(m + 1) + f[m + 2]
    BY <1>3, <2>1
  <2>5. G(m) <= F(IF m + 1 < k THEN m ELSE m + 1)
    BY <1>6, <2>1
  <2>6. /\ g[m + 1] = IF m + 1 < k THEN f[m + 1] ELSE f[m + 2]
        /\ f[m + 1] \in Nat /\ f[m + 2] \in Nat /\ k \in Nat
    BY <1>1, <1>2, <2>1
  <2> HIDE DEF F, G
  <2>7. G(m + 1) <= F(IF m + 2 < k THEN m + 1 ELSE m + 2)
    <3>1. CASE m + 2 < k
      BY <2>2, <2>3, <2>5, <2>6, <3>1
    <3>2. CASE m + 2 >= k /\ m + 1 < k
      BY <2>2, <2>3, <2>4, <2>5, <2>6, <3>2
    <3>3. CASE m + 1 >= k
      BY <2>2, <2>3, <2>4, <2>5, <2>6, <3>3
    <3> QED BY <2>6, <3>1, <3>2, <3>3
  <2> QED BY <2>7 DEF F, G
<1> HIDE DEF T
<1>7. Nat \subseteq T
  BY <1>5, <1>6, NatLemma
<1>8. i - 1 \in Nat /\ (i - 1) + 1 \in 1..(n - 1) /\ (i - 1) + 1 = i
  BY <1>1
<1>9. i - 1 \in T
  BY <1>7, <1>8
<1>10. SumOver(g, 1..(i - 1)) <= SumOver(f, 1..(IF i < k THEN i - 1 ELSE i))
  BY <1>8, <1>9 DEF T
<1>11. (IF i < k THEN i ELSE i + 1) - 1 = IF i < k THEN i - 1 ELSE i
  BY <1>1
<1> QED BY <1>10, <1>11 DEF Ahead, f, g

----------------------------------------------------------------------------
(* What the three writes do to the queues, the index and the counts. *)

\* u is b but for the queue at (side, p), which is queue.
Changed(u, b, side, p, queue) ==
  /\ \A s \in Side : s # side => u.levels[s] = b.levels[s]
  /\ DOMAIN u.levels[side] =
       IF queue = <<>> THEN DOMAIN b.levels[side] \ {p} ELSE DOMAIN b.levels[side] \cup {p}
  /\ \A q \in DOMAIN u.levels[side] :
       u.levels[side][q] = IF q = p THEN queue ELSE b.levels[side][q]

\* The k-th order of the queue at (side, p) leaves, and rest stays.
Loses(u, b, side, p, k, rest) ==
  /\ p \in DOMAIN b.levels[side]
  /\ k \in DOMAIN b.levels[side][p]
  /\ Removed(rest, b.levels[side][p], k)
  /\ Changed(u, b, side, p, rest)
  /\ DOMAIN u.order_index = DOMAIN b.order_index \ {b.levels[side][p][k].id}
  /\ u.order_count = [b.order_count EXCEPT ![side] = @ - 1]

QueueAt(b, side, p) == IF p \in DOMAIN b.levels[side] THEN b.levels[side][p] ELSE <<>>

\* Order o joins the queue at (side, p).
Gains(u, b, side, p, o) ==
  /\ o \in L3Order
  /\ o.id \notin DOMAIN b.order_index
  /\ Changed(u, b, side, p, Append(QueueAt(b, side, p), o))
  /\ DOMAIN u.order_index = DOMAIN b.order_index \cup {o.id}
  /\ u.order_count = [b.order_count EXCEPT ![side] = @ + 1]

\* The front of the queue at (side, p) becomes o, the same order after a fill.
Fills(u, b, side, p, o) ==
  /\ p \in DOMAIN b.levels[side]
  /\ o \in L3Order
  /\ o.id = b.levels[side][p][1].id
  /\ Changed(u, b, side, p, <<o>> \o Tail(b.levels[side][p]))
  /\ u.order_index = b.order_index
  /\ u.order_count = b.order_count

\* Unlink takes an order out of its queue.
LEMMA UnlinkLoses ==
  ASSUME NEW b, IsBook(b), NEW side \in Side, NEW p \in DOMAIN b.levels[side],
         NEW k \in DOMAIN b.levels[side][p],
         NEW rest, Removed(rest, b.levels[side][p], k)
  PROVE  Loses(Unlink(b, side, p, b.levels[side][p][k].id, rest), b, side, p, k, rest)
<1> DEFINE id == b.levels[side][p][k].id
           u  == Unlink(b, side, p, id, rest)
<1>1. b.levels = [s \in Side |-> b.levels[s]]
  BY DEF IsBook
<1>2. /\ u.levels = [s \in Side |-> IF s = side THEN SetLevel(b.levels[side], p, rest)
                                                ELSE b.levels[s]]
      /\ u.order_index = [x \in DOMAIN b.order_index \ {id} |-> b.order_index[x]]
      /\ u.order_count = [b.order_count EXCEPT ![side] = @ - 1]
  BY <1>1 DEF Unlink
<1> HIDE DEF u, id
<1>3. u.levels[side] = SetLevel(b.levels[side], p, rest)
      /\ \A s \in Side : s # side => u.levels[s] = b.levels[s]
  BY <1>2
<1>4. Changed(u, b, side, p, rest)
  BY <1>3 DEF Changed, SetLevel
<1> QED BY <1>2, <1>4 DEF Loses, u, id

\* Cancelling an order takes it out of its queue.
LEMMA WithdrawLoses ==
  ASSUME NEW b, IsBook(b), Linked(b), NEW id \in DOMAIN b.order_index
  PROVE  \E side \in Side : \E p \in DOMAIN b.levels[side] :
         \E k \in DOMAIN b.levels[side][p] : \E rest :
           /\ Loses(Withdraw(b, id), b, side, p, k, rest)
           /\ b.levels[side][p][k].id = id
<1> DEFINE side  == b.order_index[id].side
           p     == b.order_index[id].price
           queue == b.levels[side][p]
           at    == CHOOSE i \in DOMAIN queue : queue[i].id = id
           rest  == Renumber(RemoveAt(queue, at))
<1>1. side \in Side /\ p \in DOMAIN b.levels[side] /\ \E i \in DOMAIN queue : queue[i].id = id
  BY DEF IsBook, PartialFunction, OrderLocation, Linked
<1>2. at \in DOMAIN queue /\ queue[at].id = id
  BY <1>1
<1>3. Withdraw(b, id) = Unlink(b, side, p, id, rest)
  BY DEF Withdraw
<1> HIDE DEF side, p, at
<1>4. queue \in Seq(L3Order)
  BY <1>1, QueueLemma
<1>5. Removed(rest, queue, at)
  <2> HIDE DEF queue
  <2> QED BY <1>2, <1>4, RemovalLemma
<1> HIDE DEF rest
<1>6. Loses(Unlink(b, side, p, queue[at].id, rest), b, side, p, at, rest)
  BY <1>1, <1>2, <1>5, UnlinkLoses
<1> QED BY <1>1, <1>2, <1>3, <1>6

\* The record add_resting_order makes.
NewResting(b, order, remaining) ==
  [id          |-> order.id,
   trader_id   |-> order.trader_id,
   visible_qty |-> remaining,
   hidden_qty  |-> 0,
   filled_qty  |-> order.quantity - remaining,
   queue_pos   |-> Len(QueueAt(b, order.side, order.price)),
   is_iceberg  |-> FALSE]

\* Resting an order puts it at the back of its queue.
LEMMA RestGains ==
  ASSUME NEW b, IsBook(b),
         NEW order \in Order, order.id \notin DOMAIN b.order_index,
         NEW remaining \in Nat, order.quantity - remaining \in Nat
  PROVE  Gains(Rest(b, order, remaining), b, order.side, order.price,
               NewResting(b, order, remaining))
<1> DEFINE side   == order.side
           p      == order.price
           queue  == QueueAt(b, side, p)
           o      == NewResting(b, order, remaining)
           longer == Append(queue, o)
           r      == Rest(b, order, remaining)
<1>1. side \in Side /\ p \in Price /\ order.id \in OrderId /\ order.trader_id \in TraderId
  BY DEF Order
<1>2. b.levels = [s \in Side |-> b.levels[s]]
  BY DEF IsBook
<1>3. queue \in Seq(L3Order)
  BY <1>1 DEF IsBook, PartialFunction, QueueAt
<1>4. o \in L3Order /\ o.id = order.id
  <2>1. Len(queue) \in Nat
    BY <1>3
  <2> QED BY <1>1, <2>1 DEF L3Order, NewResting
<1>5. longer # <<>>
  <2> HIDE DEF queue, o
  <2> QED BY <1>3, <1>4, AppendProperties
<1>6. /\ r.levels = [s \in Side |-> IF s = side THEN SetLevel(b.levels[side], p, longer)
                                                ELSE b.levels[s]]
      /\ DOMAIN r.order_index = DOMAIN b.order_index \cup {order.id}
      /\ r.order_count = [b.order_count EXCEPT ![side] = @ + 1]
  BY <1>2 DEF Rest, NewResting, QueueAt
<1> HIDE DEF r, longer
<1>7. r.levels[side] = SetLevel(b.levels[side], p, longer)
      /\ \A s \in Side : s # side => r.levels[s] = b.levels[s]
  BY <1>1, <1>6
<1>8. Changed(r, b, side, p, longer)
  BY <1>5, <1>7 DEF Changed, SetLevel
<1> QED BY <1>4, <1>6, <1>8 DEF Gains, r, longer

\* An iteration of match_against takes the front out or reduces it.
LEMMA FillFrontEdits ==
  ASSUME NEW b, IsBook(b), NEW side \in Side, NEW p \in DOMAIN b.levels[side],
         NEW qty \in 0..OpenQty(Head(b.levels[side][p]))
  PROVE  LET queue == b.levels[side][p]
             front == FillResting(queue[1], qty)
         IN  IF OpenQty(queue[1]) = qty
             THEN Loses(FillFront(b, side, p, qty), b, side, p, 1, Tail(queue))
             ELSE Fills(FillFront(b, side, p, qty), b, side, p, front)
<1> DEFINE queue == b.levels[side][p]
           front == FillResting(queue[1], qty)
           f     == FillFront(b, side, p, qty)
<1>1. /\ queue \in Seq(L3Order) /\ queue # <<>>
      /\ Len(queue) \in Nat \ {0} /\ DOMAIN queue = 1..Len(queue)
      /\ Head(queue) = queue[1] /\ queue[1] \in L3Order
  BY QueueLemma
<1>2. /\ front \in L3Order /\ front.id = queue[1].id
      /\ OpenQty(front) = OpenQty(queue[1]) - qty
  BY <1>1, FillRestingLemma
<1>3. OpenQty(queue[1]) \in Nat /\ qty \in Nat
  <2>1. queue[1].visible_qty \in Nat /\ queue[1].hidden_qty \in Nat
    BY <1>1 DEF L3Order
  <2>2. OpenQty(queue[1]) \in Nat
    BY <2>1 DEF OpenQty
  <2>3. qty \in 0..OpenQty(queue[1])
    BY <1>1
  <2> QED BY <2>2, <2>3
<1>4. CASE OpenQty(queue[1]) = qty
  <2> DEFINE rest == Tail(queue)
  <2>1. OpenQty(front) = 0
    BY <1>2, <1>3, <1>4
  <2>2. f = Unlink(b, side, p, queue[1].id, rest)
    BY <1>1, <1>2, <2>1 DEF FillFront
  <2>3. Removed(rest, queue, 1) /\ 1 \in DOMAIN queue
    <3> HIDE DEF queue
    <3> QED BY <1>1, TailRemoves
  <2> HIDE DEF rest
  <2>4. Loses(Unlink(b, side, p, queue[1].id, rest), b, side, p, 1, rest)
    BY <2>3, UnlinkLoses
  <2> QED BY <1>4, <2>2, <2>4 DEF rest
<1>5. CASE OpenQty(queue[1]) # qty
  <2> DEFINE same == <<front>> \o Tail(queue)
  <2>1. OpenQty(front) # 0
    BY <1>2, <1>3, <1>5
  <2>2. f = [b EXCEPT !.levels[side][p] = same]
    BY <1>1, <2>1 DEF FillFront
  <2>3. same # <<>>
    <3> HIDE DEF queue, front
    <3>1. /\ Tail(queue) \in Seq(L3Order) /\ <<front>> \in Seq(L3Order) /\ Len(<<front>>) = 1
          /\ Len(Tail(queue)) \in Nat
      BY <1>1, <1>2, HeadTailProperties
    <3>2. Len(same) = 1 + Len(Tail(queue))
      BY <3>1, ConcatProperties
    <3> HIDE DEF same
    <3> QED BY <3>1, <3>2
  <2> HIDE DEF same, f
  <2>4. /\ b.levels = [s \in Side |-> b.levels[s]]
        /\ b.levels[side] \in [DOMAIN b.levels[side] -> Seq(L3Order)]
    BY DEF IsBook, PartialFunction
  <2>5. /\ f.levels = [s \in Side |-> IF s = side THEN [b.levels[side] EXCEPT ![p] = same]
                                                  ELSE b.levels[s]]
        /\ f.order_index = b.order_index
        /\ f.order_count = b.order_count
    BY <2>2, <2>4 DEF IsBook
  <2>6. f.levels[side] = [b.levels[side] EXCEPT ![p] = same]
        /\ \A s \in Side : s # side => f.levels[s] = b.levels[s]
    BY <2>5
  <2>7. DOMAIN b.levels[side] \cup {p} = DOMAIN b.levels[side]
    OBVIOUS
  <2>8. Changed(f, b, side, p, same)
    BY <2>3, <2>4, <2>6, <2>7 DEF Changed
  <2>9. Fills(f, b, side, p, front)
    <3> HIDE DEF front
    <3> QED BY <1>2, <2>5, <2>8 DEF Fills, same
  <2> QED BY <1>5, <2>9 DEF f
<1> QED BY <1>4, <1>5

----------------------------------------------------------------------------
(* What the writes do to each resting order. *)

\* The index leads to the order, and quantity_ahead adds up what is before it.
LEMMA WhereLemma ==
  ASSUME NEW b, IsBook(b), Linked(b),
         NEW s \in Side, NEW q \in DOMAIN b.levels[s], NEW i \in DOMAIN b.levels[s][q]
  PROVE  /\ RestingOrder(b, b.levels[s][q][i].id) = b.levels[s][q][i]
         /\ b.levels[s][q][i] \in L3Order
         /\ quantity_ahead(b, b.levels[s][q][i].id) = Ahead(b.levels[s][q], i)
<1> DEFINE queue == b.levels[s][q]
           x     == queue[i].id
           at    == CHOOSE j \in DOMAIN queue : queue[j].id = x
<1>1. /\ x \in DOMAIN b.order_index
      /\ b.order_index[x] = [side |-> s, price |-> q]
      /\ \A j \in DOMAIN queue : queue[j].id = x => j = i
  BY LinkedLemma
<1>2. at = i
  <2>1. at \in DOMAIN queue /\ queue[at].id = x
    OBVIOUS
  <2> HIDE DEF at
  <2> QED BY <1>1, <2>1
<1>3. RestingOrder(b, x) = queue[at]
  BY <1>1 DEF RestingOrder
<1>4. quantity_ahead(b, x) = VisibleQty(SubSeq(queue, 1, at - 1))
  BY <1>1 DEF quantity_ahead
<1>5. queue \in Seq(L3Order)
  BY QueueLemma
<1> HIDE DEF at
<1>6. queue[i] \in L3Order /\ i \in DOMAIN queue
  <2>1. i \in DOMAIN queue
    OBVIOUS
  <2> HIDE DEF queue
  <2> QED BY <1>5, <2>1
<1>7. VisibleQty(SubSeq(queue, 1, i - 1)) = Ahead(queue, i)
  <2> HIDE DEF queue
  <2> QED BY <1>5, <1>6, AheadLemma
<1> QED BY <1>2, <1>3, <1>4, <1>6, <1>7

\* An order of the index is in a queue.
LEMMA FoundLemma ==
  ASSUME NEW b, IsBook(b), Linked(b), NEW x \in DOMAIN b.order_index
  PROVE  \E s \in Side : \E q \in DOMAIN b.levels[s] : \E i \in DOMAIN b.levels[s][q] :
           b.levels[s][q][i].id = x
<1> DEFINE loc == b.order_index[x]
<1>1. loc.side \in Side
  BY DEF IsBook, PartialFunction, OrderLocation
<1>2. /\ loc.price \in DOMAIN b.levels[loc.side]
      /\ \E i \in DOMAIN b.levels[loc.side][loc.price] :
           b.levels[loc.side][loc.price][i].id = x
  BY DEF Linked
<1> HIDE DEF loc
<1> QED BY <1>1, <1>2

\* The orders that stay when one leaves are unchanged, and none of them moves back.
LEMMA LosesOthers ==
  ASSUME NEW b, IsBook(b), Linked(b), NEW u, IsBook(u), Linked(u),
         NEW side \in Side, NEW p, NEW k, NEW rest, Loses(u, b, side, p, k, rest),
         NEW x \in DOMAIN u.order_index
  PROVE  /\ SameOrder(RestingOrder(u, x), RestingOrder(b, x))
         /\ RestingOrder(u, x) \in L3Order /\ RestingOrder(b, x) \in L3Order
         /\ quantity_ahead(u, x) <= quantity_ahead(b, x)
<1>1. PICK s \in Side : \E q \in DOMAIN u.levels[s] : \E j \in DOMAIN u.levels[s][q] :
        u.levels[s][q][j].id = x
  BY FoundLemma
<1>2. PICK q \in DOMAIN u.levels[s] : \E j \in DOMAIN u.levels[s][q] : u.levels[s][q][j].id = x
  BY <1>1
<1>3. PICK j \in DOMAIN u.levels[s][q] : u.levels[s][q][j].id = x
  BY <1>2
<1>4. /\ RestingOrder(u, x) = u.levels[s][q][j]
      /\ u.levels[s][q][j] \in L3Order
      /\ quantity_ahead(u, x) = Ahead(u.levels[s][q], j)
  BY <1>3, WhereLemma
<1>5. CASE s = side /\ q = p
  <2> DEFINE queue == b.levels[side][p]
             i     == IF j < k THEN j ELSE j + 1
  <2>1. u.levels[s][q] = rest
    BY <1>5 DEF Loses, Changed
  <2>2. /\ p \in DOMAIN b.levels[side] /\ k \in DOMAIN queue /\ Removed(rest, queue, k)
        /\ j \in DOMAIN rest
    BY <2>1 DEF Loses
  <2>3. queue \in Seq(L3Order)
    BY <2>2, QueueLemma
  <2> HIDE DEF queue
  <2>4. i \in DOMAIN queue /\ SameOrder(rest[j], queue[i])
    <3>1. DOMAIN rest = 1..(Len(queue) - 1) /\ DOMAIN queue = 1..Len(queue)
          /\ Len(queue) \in Nat /\ k \in 1..Len(queue)
      BY <2>2, <2>3 DEF Removed
    <3>2. i \in DOMAIN queue
      BY <2>2, <3>1
    <3>3. SameOrder(rest[j], IF j < k THEN queue[j] ELSE queue[j + 1])
      BY <2>2 DEF Removed
    <3>4. queue[i] = IF j < k THEN queue[j] ELSE queue[j + 1]
      OBVIOUS
    <3> QED BY <3>2, <3>3, <3>4
  <2>5. queue[i] \in L3Order /\ rest[j] \in L3Order
    BY <1>4, <2>1, <2>3, <2>4
  <2>6. queue[i].id = x
    BY <1>3, <2>1, <2>4, <2>5, SameOrderLemma
  <2>7. Ahead(rest, j) <= Ahead(queue, i)
    BY <2>2, <2>3, RemovedAhead
  <2> HIDE DEF i
  <2>8. RestingOrder(b, x) = queue[i] /\ quantity_ahead(b, x) = Ahead(queue, i)
    BY <2>2, <2>4, <2>6, WhereLemma DEF queue
  <2> QED BY <1>4, <2>1, <2>4, <2>5, <2>7, <2>8
<1>6. CASE ~(s = side /\ q = p)
  <2>1. q \in DOMAIN b.levels[s] /\ u.levels[s][q] = b.levels[s][q]
    BY <1>6 DEF Loses, Changed
  <2>2. /\ RestingOrder(b, x) = b.levels[s][q][j]
        /\ quantity_ahead(b, x) = Ahead(b.levels[s][q], j)
    BY <1>3, <2>1, WhereLemma
  <2>3. Ahead(b.levels[s][q], j) \in Int
    <3> DEFINE queue == b.levels[s][q]
    <3>1. queue \in Seq(L3Order) /\ j \in DOMAIN queue
      BY <2>1, QueueLemma
    <3> HIDE DEF queue
    <3>2. Ahead(queue, j) \in Int
      BY <3>1, AheadMonotone
    <3> QED BY <3>2 DEF queue
  <2> QED BY <1>4, <2>1, <2>2, <2>3 DEF SameOrder
<1> QED BY <1>5, <1>6

\* The orders in a book that gains one are where and what they were.
LEMMA GainsOthers ==
  ASSUME NEW b, IsBook(b), Linked(b), NEW u, IsBook(u), Linked(u),
         NEW side \in Side, NEW p, NEW o, Gains(u, b, side, p, o)
  PROVE  /\ RestingOrder(u, o.id) = o
         /\ \A x \in DOMAIN b.order_index :
              /\ RestingOrder(u, x) = RestingOrder(b, x)
              /\ RestingOrder(b, x) \in L3Order
              /\ quantity_ahead(u, x) <= quantity_ahead(b, x)
<1> DEFINE queue  == QueueAt(b, side, p)
           longer == Append(queue, o)
<1>1. queue \in Seq(L3Order)
  BY QueueLemma DEF QueueAt
<1>2. /\ longer \in Seq(L3Order) /\ longer # <<>>
      /\ DOMAIN queue = 1..Len(queue) /\ Len(queue) \in Nat
      /\ DOMAIN longer = 1..(Len(queue) + 1)
      /\ \A i \in 1..Len(queue) : longer[i] = queue[i]
      /\ longer[Len(queue) + 1] = o
  <2>1. o \in L3Order
    BY DEF Gains
  <2> HIDE DEF queue
  <2> QED BY <1>1, <2>1, AppendProperties
<1>3. Changed(u, b, side, p, longer)
  BY DEF Gains
<1> HIDE DEF longer
<1>4. p \in DOMAIN u.levels[side] /\ u.levels[side][p] = longer
  BY <1>2, <1>3 DEF Changed
<1>5. RestingOrder(u, o.id) = o
  <2>1. Len(queue) + 1 \in DOMAIN u.levels[side][p]
        /\ u.levels[side][p][Len(queue) + 1] = o
    BY <1>2, <1>4
  <2> HIDE DEF queue
  <2> QED BY <1>4, <2>1, WhereLemma
<1>6. ASSUME NEW x \in DOMAIN b.order_index
      PROVE  /\ RestingOrder(u, x) = RestingOrder(b, x)
             /\ RestingOrder(b, x) \in L3Order
             /\ quantity_ahead(u, x) <= quantity_ahead(b, x)
  <2>1. PICK s \in Side : \E q \in DOMAIN b.levels[s] : \E i \in DOMAIN b.levels[s][q] :
          b.levels[s][q][i].id = x
    BY FoundLemma
  <2>2. PICK q \in DOMAIN b.levels[s] : \E i \in DOMAIN b.levels[s][q] : b.levels[s][q][i].id = x
    BY <2>1
  <2>3. PICK i \in DOMAIN b.levels[s][q] : b.levels[s][q][i].id = x
    BY <2>2
  <2>4. /\ RestingOrder(b, x) = b.levels[s][q][i]
        /\ b.levels[s][q][i] \in L3Order
        /\ quantity_ahead(b, x) = Ahead(b.levels[s][q], i)
        /\ b.levels[s][q] \in Seq(L3Order)
    BY <2>3, WhereLemma, QueueLemma
  <2>5. /\ q \in DOMAIN u.levels[s]
        /\ i \in DOMAIN u.levels[s][q]
        /\ \A j \in 1..i : u.levels[s][q][j] = b.levels[s][q][j]
    <3>1. CASE s = side /\ q = p
      <4>1. queue = b.levels[s][q]
        BY <3>1 DEF QueueAt
      <4>2. i \in 1..Len(queue)
        BY <1>2, <4>1
      <4> HIDE DEF queue
      <4> QED BY <1>2, <1>4, <3>1, <4>1, <4>2, SMTT(30)
    <3>2. CASE ~(s = side /\ q = p)
      <4>1. q \in DOMAIN u.levels[s] /\ u.levels[s][q] = b.levels[s][q]
        BY <1>2, <1>3, <3>2 DEF Changed
      <4> QED BY <4>1
    <3> QED BY <3>1, <3>2
  <2>6. i \in 1..i /\ \A j \in 1..(i - 1) : j \in 1..i
    BY <2>4
  <2>7. u.levels[s][q][i] = b.levels[s][q][i]
    BY <2>5, <2>6
  <2>8. /\ RestingOrder(u, x) = u.levels[s][q][i]
        /\ quantity_ahead(u, x) = Ahead(u.levels[s][q], i)
        /\ u.levels[s][q] \in Seq(L3Order)
    BY <2>3, <2>5, <2>7, WhereLemma, QueueLemma
  <2>9. Ahead(u.levels[s][q], i) <= Ahead(b.levels[s][q], i)
    <3> DEFINE old == b.levels[s][q]
               new == u.levels[s][q]
    <3>1. old \in Seq(L3Order) /\ new \in Seq(L3Order) /\ i \in DOMAIN old /\ i \in DOMAIN new
      BY <2>4, <2>5, <2>8
    <3>2. \A j \in 1..(i - 1) : new[j] = old[j]
      BY <2>5, <2>6
    <3> HIDE DEF old, new
    <3>3. \A j \in 1..(i - 1) : new[j].visible_qty <= old[j].visible_qty
      <4>1. \A j \in 1..(i - 1) : j \in 1..Len(old) /\ old[j] \in L3Order
        BY <3>1
      <4> QED BY <3>2, <4>1 DEF L3Order
    <3>4. Ahead(new, i) <= Ahead(old, i)
      BY <3>1, <3>3, AheadMonotone
    <3> QED BY <3>4 DEF old, new
  <2> QED BY <2>4, <2>7, <2>8, <2>9
<1> QED BY <1>5, <1>6

\* A fill changes the front of one queue, and nobody has more before it then.
LEMMA FillsOthers ==
  ASSUME NEW b, IsBook(b), Linked(b), NEW u, IsBook(u), Linked(u),
         NEW side \in Side, NEW p, NEW o, Fills(u, b, side, p, o),
         o.visible_qty <= b.levels[side][p][1].visible_qty
  PROVE  /\ RestingOrder(b, o.id) = b.levels[side][p][1]
         /\ \A x \in DOMAIN b.order_index :
              /\ RestingOrder(u, x) = IF x = o.id THEN o ELSE RestingOrder(b, x)
              /\ RestingOrder(b, x) \in L3Order
              /\ quantity_ahead(u, x) <= quantity_ahead(b, x)
<1> DEFINE queue == b.levels[side][p]
           same  == <<o>> \o Tail(queue)
<1>1. /\ p \in DOMAIN b.levels[side] /\ o \in L3Order
      /\ o.id = queue[1].id /\ Changed(u, b, side, p, same)
  BY DEF Fills
<1>2. /\ queue \in Seq(L3Order) /\ queue # <<>>
      /\ Len(queue) \in Nat \ {0} /\ DOMAIN queue = 1..Len(queue)
      /\ 1 \in DOMAIN queue
  BY <1>1, QueueLemma
<1>3. o.visible_qty <= queue[1].visible_qty
  OBVIOUS
<1>4. /\ same \in Seq(L3Order) /\ same # <<>>
      /\ DOMAIN same = DOMAIN queue
      /\ \A i \in DOMAIN queue : same[i] = IF i = 1 THEN o ELSE queue[i]
  <2> HIDE DEF queue
  <2>1. /\ Tail(queue) \in Seq(L3Order) /\ Len(Tail(queue)) = Len(queue) - 1
        /\ \A i \in 1..Len(Tail(queue)) : Tail(queue)[i] = queue[i + 1]
    BY <1>2, HeadTailProperties
  <2>2. <<o>> \in Seq(L3Order) /\ Len(<<o>>) = 1 /\ <<o>>[1] = o
    BY <1>1
  <2>3. /\ same \in Seq(L3Order) /\ Len(same) = Len(queue)
        /\ \A i \in 1..Len(queue) : same[i] = IF i = 1 THEN o ELSE queue[i]
    BY <1>2, <2>1, <2>2, ConcatProperties
  <2> HIDE DEF same
  <2> QED BY <1>2, <2>3
<1> HIDE DEF same
<1>5. p \in DOMAIN u.levels[side] /\ u.levels[side][p] = same
  BY <1>1, <1>4 DEF Changed
<1>6. RestingOrder(b, o.id) = queue[1]
  BY <1>1, <1>2, WhereLemma
<1>7. ASSUME NEW x \in DOMAIN b.order_index
      PROVE  /\ RestingOrder(u, x) = IF x = o.id THEN o ELSE RestingOrder(b, x)
             /\ RestingOrder(b, x) \in L3Order
             /\ quantity_ahead(u, x) <= quantity_ahead(b, x)
  <2>1. PICK s \in Side : \E q \in DOMAIN b.levels[s] : \E i \in DOMAIN b.levels[s][q] :
          b.levels[s][q][i].id = x
    BY FoundLemma
  <2>2. PICK q \in DOMAIN b.levels[s] : \E i \in DOMAIN b.levels[s][q] : b.levels[s][q][i].id = x
    BY <2>1
  <2>3. PICK i \in DOMAIN b.levels[s][q] : b.levels[s][q][i].id = x
    BY <2>2
  <2> DEFINE old == b.levels[s][q]
             new == u.levels[s][q]
  <2>4. /\ RestingOrder(b, x) = old[i] /\ old[i] \in L3Order
        /\ quantity_ahead(b, x) = Ahead(old, i)
        /\ old \in Seq(L3Order)
    BY <2>3, WhereLemma, QueueLemma
  <2>5. /\ q \in DOMAIN u.levels[s]
        /\ DOMAIN new = DOMAIN old
        /\ \A j \in DOMAIN old :
             new[j] = IF s = side /\ q = p /\ j = 1 THEN o ELSE old[j]
    <3>1. CASE s = side /\ q = p
      BY <1>4, <1>5, <3>1
    <3>2. CASE ~(s = side /\ q = p)
      BY <1>1, <1>4, <3>2 DEF Changed
    <3> QED BY <3>1, <3>2
  <2>6. x = o.id <=> s = side /\ q = p /\ i = 1
    <3>1. x = o.id => s = side /\ q = p /\ i = 1
      <4> SUFFICES ASSUME x = o.id PROVE s = side /\ q = p /\ i = 1
        OBVIOUS
      <4> HIDE DEF same
      <4>0. /\ b.order_index[old[i].id] = [side |-> s, price |-> q]
            /\ \A j \in DOMAIN old : old[j].id = old[i].id => j = i
        BY LinkedLemma, SMTT(30)
      <4>1. b.order_index[x] = [side |-> s, price |-> q]
            /\ \A j \in DOMAIN old : old[j].id = x => j = i
        BY <2>3, <4>0
      <4>2. b.order_index[queue[1].id] = [side |-> side, price |-> p]
        <5>1. p \in DOMAIN b.levels[side] /\ 1 \in DOMAIN b.levels[side][p]
          BY <1>1, <1>2
        <5> QED BY <5>1, LinkedLemma, SMTT(30)
      <4>3. s = side /\ q = p
        <5>1. [side |-> s, price |-> q] = [side |-> side, price |-> p]
          BY <1>1, <4>1, <4>2
        <5> QED BY <5>1
      <4> QED BY <1>1, <1>2, <4>1, <4>3
    <3>2. s = side /\ q = p /\ i = 1 => x = o.id
      BY <1>1, <2>3
    <3> QED BY <3>1, <3>2
  <2>7. new[i].id = x
    BY <2>3, <2>5, <2>6
  <2>8. /\ RestingOrder(u, x) = new[i]
        /\ quantity_ahead(u, x) = Ahead(new, i)
        /\ new \in Seq(L3Order)
    BY <2>3, <2>5, <2>7, WhereLemma, QueueLemma
  <2>9. Ahead(new, i) <= Ahead(old, i)
    <3>1. \A j \in DOMAIN old : new[j].visible_qty <= old[j].visible_qty
      <4>1. \A j \in DOMAIN old : old[j].visible_qty \in Int
        <5> HIDE DEF old
        <5>1. \A j \in DOMAIN old : old[j] \in L3Order
          BY <2>4
        <5> QED BY <5>1 DEF L3Order
      <4>2. o.visible_qty <= queue[1].visible_qty
        BY <1>3
      <4> QED BY <2>5, <4>1, <4>2
    <3>2. i \in DOMAIN old /\ i \in DOMAIN new
      BY <2>3, <2>5
    <3> HIDE DEF old, new
    <3>3. \A j \in 1..(i - 1) : j \in DOMAIN old
      BY <2>4, <3>2
    <3> QED BY <2>4, <2>8, <3>1, <3>2, <3>3, AheadMonotone
  <2> QED BY <2>3, <2>4, <2>5, <2>6, <2>8, <2>9
<1> QED BY <1>6, <1>7

----------------------------------------------------------------------------
(* The counts, and what every resting order has. *)

\* The lengths of the queues of a side, by price.
Lens(levels) == [p \in DOMAIN levels |-> Len(levels[p])]

\* The number of orders in the queues of a side, as CountsMatchBook writes it.
QueueTotal(levels) == MapThenSumSet(LAMBDA p : Len(levels[p]), DOMAIN levels)

\* A side has finitely many levels, and as many orders as are counted.
Counted(b) ==
  \A s \in Side :
    /\ IsFiniteSet(DOMAIN b.levels[s])
    /\ b.order_count[s] = SumOver(Lens(b.levels[s]), DOMAIN b.levels[s])

\* What rests has quantity left, and none of it is an iceberg.
Solid(b) ==
  \A s \in Side : \A q \in DOMAIN b.levels[s] : \A i \in DOMAIN b.levels[s][q] :
    OpenQty(b.levels[s][q][i]) > 0 /\ ~b.levels[s][q][i].is_iceberg

\* The two ways of writing the number of orders of a side agree.
LEMMA QueueTotalLemma ==
  ASSUME NEW levels, IsFiniteSet(DOMAIN levels)
  PROVE  QueueTotal(levels) = SumOver(Lens(levels), DOMAIN levels)
<1> DEFINE D  == DOMAIN levels
           f  == Lens(levels)
           ch == AnyChoice(D)
           OfTheSum(it) ==
             it = [s \in SUBSET D |->
                     IF s = {} THEN 0 ELSE Len(levels[Chosen(s)]) + it[s \ {Chosen(s)}]]
<1>1. QueueTotal(levels) = (CHOOSE it : OfTheSum(it))[D]
  BY DEF QueueTotal, MapThenSumSet, MapThenFoldSet, Chosen
<1>2. \A s \in SUBSET D : s # {} =>
        ch[s] = Chosen(s) /\ Chosen(s) \in s /\ f[ch[s]] = Len(levels[Chosen(s)])
  BY DEF AnyChoice, Chosen, Lens
<1>3. Choice(ch, D) /\ SameChoice(ch, ch, D) /\ IsFiniteSet(D)
  BY <1>2 DEF Choice, SameChoice
<1> HIDE DEF f, D
<1>4. PICK jt : SumsOn(jt, f, ch, SUBSET D) /\ SumOver(f, D) = jt[D]
  BY <1>3, SumIsFold
<1> HIDE DEF ch
<1>5. \A it : OfTheSum(it) <=> SumsOn(it, f, ch, SUBSET D)
  BY <1>2 DEF SumsOn
<1> HIDE DEF OfTheSum
<1>6. PICK it : SumsOn(it, f, ch, SUBSET D) /\ QueueTotal(levels) = it[D]
  <2>1. OfTheSum(CHOOSE it : OfTheSum(it))
    BY <1>4, <1>5
  <2> QED BY <1>1, <1>5, <2>1
<1>7. \A s \in SUBSET D : it[s] = jt[s]
  BY <1>3, <1>4, <1>6, SumsUnique
<1> QED BY <1>4, <1>6, <1>7 DEF f, D

\* A count that moves by the change of length of one queue stays right.
LEMMA CountsChanged ==
  ASSUME NEW b, IsBook(b), Counted(b), NEW u, IsBook(u),
         NEW side \in Side, NEW p, NEW queue \in Seq(L3Order),
         Changed(u, b, side, p, queue),
         \A s \in Side : u.order_count[s] =
           IF s = side THEN b.order_count[s] + Len(queue) - Len(QueueAt(b, side, p))
                       ELSE b.order_count[s]
  PROVE  Counted(u)
<1> DEFINE D == DOMAIN b.levels[side]
           E == DOMAIN u.levels[side]
           f == Lens(b.levels[side])
           g == Lens(u.levels[side])
           d == Len(queue) - Len(QueueAt(b, side, p))
<1>1. /\ IsFiniteSet(D) /\ b.order_count[side] = SumOver(f, D)
      /\ u.order_count[side] = b.order_count[side] + Len(queue) - Len(QueueAt(b, side, p))
  BY DEF Counted
<1>2. \A q \in D : f[q] = Len(b.levels[side][q]) /\ f[q] \in Int
  BY QueueLemma DEF Lens
<1>3. \A q \in E : g[q] = Len(u.levels[side][q]) /\ g[q] \in Int
  BY QueueLemma DEF Lens
<1>4. E = IF queue = <<>> THEN D \ {p} ELSE D \cup {p}
  BY DEF Changed
<1>5. \A q \in E : g[q] = IF q = p THEN Len(queue) ELSE f[q]
  <2>1. \A q \in E : u.levels[side][q] = IF q = p THEN queue ELSE b.levels[side][q]
    BY DEF Changed
  <2>2. \A q \in E : q # p => q \in D
    BY <1>4
  <2> QED BY <1>2, <1>3, <2>1, <2>2
<1>6. /\ Len(queue) \in Nat /\ queue = <<>> => Len(queue) = 0
      /\ p \in D => Len(QueueAt(b, side, p)) = f[p]
      /\ p \notin D => Len(QueueAt(b, side, p)) = 0
  BY <1>2 DEF QueueAt
<1> HIDE DEF D, E, f, g
<1>7. IsFiniteSet(E) /\ SumOver(f, D) \in Int
  BY <1>1, <1>2, <1>4, SumType, FS_AddElement, FS_RemoveElement
<1>8. SumOver(g, E) = SumOver(f, D) + Len(queue) - Len(QueueAt(b, side, p))
  <2>1. CASE p \in D /\ queue # <<>>
    <3>1. E = D
      BY <1>4, <2>1
    <3>2. (\A q \in D : f[q] \in Int /\ g[q] \in Int) /\ \A q \in D : q # p => f[q] = g[q]
      BY <1>2, <1>3, <1>5, <3>1
    <3>3. SumOver(g, D) = SumOver(f, D) + (g[p] - f[p])
      BY <1>1, <2>1, <3>2, SumUpdate
    <3>4. g[p] = Len(queue) /\ f[p] \in Int
      BY <1>2, <1>5, <2>1, <3>1
    <3> QED BY <1>6, <1>7, <2>1, <3>1, <3>3, <3>4
  <2>2. CASE p \in D /\ queue = <<>>
    <3>1. E = D \ {p}
      BY <1>4, <2>2
    <3>2. SumOver(f, D) = f[p] + SumOver(f, E)
      BY <1>1, <1>2, <2>2, <3>1, SumRemove
    <3>3. SumOver(f, E) = SumOver(g, E)
      <4>1. \A q \in E : f[q] = g[q]
        BY <1>5, <3>1
      <4> QED BY <1>7, <4>1, SumSame
    <3>4. SumOver(g, E) \in Int /\ f[p] \in Int
      BY <1>2, <1>3, <1>7, <2>2, SumType
    <3> QED BY <1>6, <2>2, <3>2, <3>3, <3>4
  <2>3. CASE p \notin D /\ queue # <<>>
    <3>1. E = D \cup {p}
      BY <1>4, <2>3
    <3>2. SumOver(g, E) = g[p] + SumOver(g, D)
      BY <1>1, <1>3, <2>3, <3>1, SumAdd
    <3>3. SumOver(f, D) = SumOver(g, D)
      <4>1. \A q \in D : f[q] = g[q]
        BY <1>5, <2>3, <3>1
      <4> QED BY <1>1, <4>1, SumSame
    <3>4. g[p] = Len(queue)
      BY <1>5, <3>1
    <3> QED BY <1>6, <1>7, <2>3, <3>2, <3>3, <3>4
  <2>4. CASE p \notin D /\ queue = <<>>
    <3>1. E = D
      BY <1>4, <2>4
    <3>2. SumOver(f, D) = SumOver(g, D)
      <4>1. \A q \in D : f[q] = g[q]
        BY <1>5, <2>4, <3>1
      <4> QED BY <1>1, <4>1, SumSame
    <3> QED BY <1>6, <1>7, <2>4, <3>1, <3>2
  <2> QED BY <2>1, <2>2, <2>3, <2>4
<1>9. IsFiniteSet(E) /\ u.order_count[side] = SumOver(g, E)
  BY <1>1, <1>7, <1>8
<1>10. ASSUME NEW s \in Side, s # side
       PROVE  /\ IsFiniteSet(DOMAIN u.levels[s])
              /\ u.order_count[s] = SumOver(Lens(u.levels[s]), DOMAIN u.levels[s])
  <2>1. u.levels[s] = b.levels[s] /\ u.order_count[s] = b.order_count[s]
    BY <1>10 DEF Changed
  <2> QED BY <2>1 DEF Counted
<1> QED BY <1>9, <1>10 DEF Counted, E, g

\* A queue of solid orders put in a solid book.
LEMMA SolidChanged ==
  ASSUME NEW b, Solid(b), NEW u, NEW side \in Side, NEW p, NEW queue,
         Changed(u, b, side, p, queue),
         \A i \in DOMAIN queue : OpenQty(queue[i]) > 0 /\ ~queue[i].is_iceberg
  PROVE  Solid(u)
<1> SUFFICES ASSUME NEW s \in Side, NEW q \in DOMAIN u.levels[s],
                    NEW i \in DOMAIN u.levels[s][q]
             PROVE  OpenQty(u.levels[s][q][i]) > 0 /\ ~u.levels[s][q][i].is_iceberg
  BY DEF Solid
<1>1. CASE s = side /\ q = p
  <2>1. u.levels[s][q] = queue
    BY <1>1 DEF Changed
  <2> QED BY <2>1
<1>2. CASE ~(s = side /\ q = p)
  <2>1. q \in DOMAIN b.levels[s] /\ u.levels[s][q] = b.levels[s][q]
    BY <1>2 DEF Changed
  <2> QED BY <2>1 DEF Solid
<1> QED BY <1>1, <1>2

----------------------------------------------------------------------------
(* The three writes keep the counts right and the orders solid. *)

Sound(b) == IsBook(b) /\ Linked(b) /\ Solid(b) /\ Counted(b)

\* An order leaving a sound book.
LEMMA LosesSound ==
  ASSUME NEW b, Sound(b), NEW u, IsBook(u), Linked(u),
         NEW side \in Side, NEW p, NEW k, NEW rest, Loses(u, b, side, p, k, rest)
  PROVE  Sound(u)
<1> DEFINE queue == b.levels[side][p]
<1>1. /\ IsBook(b) /\ Solid(b) /\ Counted(b)
      /\ p \in DOMAIN b.levels[side] /\ k \in DOMAIN queue /\ Removed(rest, queue, k)
      /\ Changed(u, b, side, p, rest)
      /\ u.order_count = [b.order_count EXCEPT ![side] = @ - 1]
  BY DEF Sound, Loses
<1>2. /\ queue \in Seq(L3Order) /\ Len(queue) \in Nat /\ DOMAIN queue = 1..Len(queue)
  BY <1>1, QueueLemma
<1>3. \A i \in DOMAIN queue : OpenQty(queue[i]) > 0 /\ ~queue[i].is_iceberg
  BY <1>1 DEF Solid
<1>4. QueueAt(b, side, p) = queue
  BY <1>1 DEF QueueAt
<1>5. b.order_count \in [Side -> Int]
  BY <1>1 DEF IsBook
<1> HIDE DEF queue
<1>6. rest \in Seq(L3Order) /\ Len(rest) = Len(queue) - 1 /\ DOMAIN rest = 1..(Len(queue) - 1)
  BY <1>1 DEF Removed
<1>7. \A i \in DOMAIN rest : OpenQty(rest[i]) > 0 /\ ~rest[i].is_iceberg
  <2> SUFFICES ASSUME NEW i \in DOMAIN rest
               PROVE  OpenQty(rest[i]) > 0 /\ ~rest[i].is_iceberg
    OBVIOUS
  <2> DEFINE j == IF i < k THEN i ELSE i + 1
  <2>1. j \in DOMAIN queue /\ SameOrder(rest[i], queue[j])
    <3>1. j \in DOMAIN queue
      BY <1>1, <1>2, <1>6
    <3>2. SameOrder(rest[i], IF i < k THEN queue[i] ELSE queue[i + 1])
      BY <1>1 DEF Removed
    <3>3. queue[j] = IF i < k THEN queue[i] ELSE queue[i + 1]
      OBVIOUS
    <3> QED BY <3>1, <3>2, <3>3
  <2> HIDE DEF j
  <2>2. rest[i] \in L3Order /\ queue[j] \in L3Order
    BY <1>2, <1>6, <2>1
  <2>3. /\ rest[i].visible_qty = queue[j].visible_qty
        /\ rest[i].hidden_qty = queue[j].hidden_qty
        /\ rest[i].is_iceberg = queue[j].is_iceberg
    BY <2>1, <2>2, SameOrderLemma
  <2> QED BY <1>3, <2>1, <2>3 DEF OpenQty
<1>8. Solid(u)
  BY <1>1, <1>7, SolidChanged
<1>9. Counted(u)
  <2>1. \A s \in Side : u.order_count[s] =
          IF s = side THEN b.order_count[s] + Len(rest) - Len(QueueAt(b, side, p))
                      ELSE b.order_count[s]
    BY <1>1, <1>2, <1>4, <1>5, <1>6
  <2>2. IsBook(b) /\ Counted(b) /\ rest \in Seq(L3Order) /\ Changed(u, b, side, p, rest)
    BY <1>1, <1>6
  <2> QED BY <2>1, <2>2, CountsChanged
<1> QED BY <1>8, <1>9 DEF Sound

\* A solid order joining a sound book.
LEMMA GainsSound ==
  ASSUME NEW b, Sound(b), NEW u, IsBook(u), Linked(u),
         NEW side \in Side, NEW p, NEW o, Gains(u, b, side, p, o),
         OpenQty(o) > 0, ~o.is_iceberg
  PROVE  Sound(u)
<1> DEFINE queue  == QueueAt(b, side, p)
           longer == Append(queue, o)
<1>1. /\ IsBook(b) /\ Solid(b) /\ Counted(b)
      /\ o \in L3Order /\ Changed(u, b, side, p, longer)
      /\ u.order_count = [b.order_count EXCEPT ![side] = @ + 1]
  BY DEF Sound, Gains
<1>2. queue \in Seq(L3Order)
  BY <1>1, QueueLemma DEF QueueAt
<1>3. \A i \in DOMAIN queue : OpenQty(queue[i]) > 0 /\ ~queue[i].is_iceberg
  <2>1. CASE p \in DOMAIN b.levels[side]
    BY <1>1, <2>1 DEF Solid, QueueAt
  <2>2. CASE p \notin DOMAIN b.levels[side]
    <3>1. queue = <<>>
      BY <2>2 DEF QueueAt
    <3>2. DOMAIN <<>> = {}
      OBVIOUS
    <3> QED BY <3>1, <3>2
  <2> QED BY <2>1, <2>2
<1>4. b.order_count \in [Side -> Int]
  BY <1>1 DEF IsBook
<1>5. /\ longer \in Seq(L3Order) /\ Len(longer) = Len(queue) + 1 /\ Len(queue) \in Nat
      /\ DOMAIN longer = 1..(Len(queue) + 1) /\ DOMAIN queue = 1..Len(queue)
      /\ \A i \in 1..Len(queue) : longer[i] = queue[i]
      /\ longer[Len(queue) + 1] = o
  <2> HIDE DEF queue
  <2> QED BY <1>1, <1>2, AppendProperties
<1> HIDE DEF queue, longer
<1>6. \A i \in DOMAIN longer : OpenQty(longer[i]) > 0 /\ ~longer[i].is_iceberg
  BY <1>3, <1>5
<1>7. Solid(u)
  BY <1>1, <1>6, SolidChanged
<1>8. Counted(u)
  <2>1. \A s \in Side : u.order_count[s] =
          IF s = side THEN b.order_count[s] + Len(longer) - Len(QueueAt(b, side, p))
                      ELSE b.order_count[s]
    BY <1>1, <1>4, <1>5 DEF queue
  <2>2. IsBook(b) /\ Counted(b) /\ longer \in Seq(L3Order) /\ Changed(u, b, side, p, longer)
    BY <1>1, <1>5
  <2> QED BY <2>1, <2>2, CountsChanged
<1> QED BY <1>7, <1>8 DEF Sound

\* A fill that leaves quantity in the front of a queue of a sound book.
LEMMA FillsSound ==
  ASSUME NEW b, Sound(b), NEW u, IsBook(u), Linked(u),
         NEW side \in Side, NEW p, NEW o, Fills(u, b, side, p, o),
         OpenQty(o) > 0, ~o.is_iceberg
  PROVE  Sound(u)
<1> DEFINE queue == b.levels[side][p]
           same  == <<o>> \o Tail(queue)
<1>1. /\ IsBook(b) /\ Solid(b) /\ Counted(b)
      /\ p \in DOMAIN b.levels[side] /\ o \in L3Order /\ Changed(u, b, side, p, same)
      /\ u.order_count = b.order_count
  BY DEF Sound, Fills
<1>2. /\ queue \in Seq(L3Order) /\ queue # <<>>
      /\ Len(queue) \in Nat \ {0} /\ DOMAIN queue = 1..Len(queue)
  BY <1>1, QueueLemma
<1>3. \A i \in DOMAIN queue : OpenQty(queue[i]) > 0 /\ ~queue[i].is_iceberg
  BY <1>1 DEF Solid
<1>4. QueueAt(b, side, p) = queue /\ b.order_count \in [Side -> Int]
  BY <1>1 DEF QueueAt, IsBook
<1> HIDE DEF queue
<1>5. /\ same \in Seq(L3Order) /\ Len(same) = Len(queue)
      /\ \A i \in 1..Len(queue) : same[i] = IF i = 1 THEN o ELSE queue[i]
  <2>1. /\ Tail(queue) \in Seq(L3Order) /\ Len(Tail(queue)) = Len(queue) - 1
        /\ \A i \in 1..Len(Tail(queue)) : Tail(queue)[i] = queue[i + 1]
    BY <1>2, HeadTailProperties
  <2>2. <<o>> \in Seq(L3Order) /\ Len(<<o>>) = 1 /\ <<o>>[1] = o
    BY <1>1
  <2> QED BY <1>2, <2>1, <2>2, ConcatProperties
<1> HIDE DEF same
<1>6. \A i \in DOMAIN same : OpenQty(same[i]) > 0 /\ ~same[i].is_iceberg
  BY <1>2, <1>3, <1>5
<1>7. Solid(u)
  BY <1>1, <1>6, SolidChanged
<1>8. Counted(u)
  <2>1. \A s \in Side : u.order_count[s] =
          IF s = side THEN b.order_count[s] + Len(same) - Len(QueueAt(b, side, p))
                      ELSE b.order_count[s]
    BY <1>1, <1>2, <1>4, <1>5
  <2>2. IsBook(b) /\ Counted(b) /\ same \in Seq(L3Order) /\ Changed(u, b, side, p, same)
    BY <1>1, <1>5
  <2> QED BY <2>1, <2>2, CountsChanged
<1> QED BY <1>7, <1>8 DEF Sound

\* What a fill shows of an order that is no iceberg.
LEMMA FillShown ==
  ASSUME NEW o \in L3Order, ~o.is_iceberg, NEW qty \in 0..OpenQty(o)
  PROVE  /\ ~FillResting(o, qty).is_iceberg
         /\ FillResting(o, qty).visible_qty <= o.visible_qty
<1>1. o.visible_qty \in Nat /\ o.hidden_qty \in Nat
  BY DEF L3Order
<1>2. qty \in Nat
  BY <1>1 DEF OpenQty
<1> DEFINE f == FillResting(o, qty)
<1>3. /\ f.is_iceberg = o.is_iceberg
      /\ f.visible_qty = (IF qty <= o.visible_qty THEN o.visible_qty - qty ELSE 0) + 0
  BY DEF FillResting, L3Order
<1> QED BY <1>1, <1>2, <1>3

----------------------------------------------------------------------------
(* The invariant: besides that of L3OrderBookProofs, the counts and the      *)
(* orders of the book are right; the report is cleared while add_order runs; *)
(* and until add_order has traded, it has its whole quantity left and the    *)
(* top of book published last is the present one.                            *)

\* One thread: there is at most one add_order running.
OneCall == \A c, d \in call : c = d

CallFresh == \A c \in call : report = {} /\ (c.trades = <<>> => c.remaining = c.order.quantity)

TobTold == (\A c \in call : c.trades = <<>>) => tob = TopOfBook(book)

AInv == IInv /\ Sound(book) /\ OneCall /\ CallFresh /\ TobTold /\ ReportMatchesBook

\* The empty book is sound.
LEMMA EmptySound == Sound(EmptyBook)
<1>1. /\ \A s \in Side : EmptyBook.levels[s] = <<>>
      /\ \A s \in Side : DOMAIN EmptyBook.levels[s] = {}
      /\ \A s \in Side : EmptyBook.order_count[s] = 0
      /\ EmptyBook.order_index = <<>>
      /\ DOMAIN EmptyBook.order_index = {}
  BY DEF EmptyBook
<1>2. IsBook(EmptyBook)
  BY <1>1 DEF EmptyBook, IsBook, PartialFunction
<1>3. Linked(EmptyBook) /\ Solid(EmptyBook)
  BY <1>1 DEF Linked, Solid
<1>4. Counted(EmptyBook)
  <2>1. IsFiniteSet({})
    BY FS_EmptySet
  <2>2. \A f : SumOver(f, {}) = 0
    BY <2>1, SumUnfold
  <2>3. \A s \in Side : SumOver(Lens(EmptyBook.levels[s]), DOMAIN EmptyBook.levels[s]) = 0
    BY <1>1, <2>2
  <2> QED BY <1>1, <2>1, <2>3 DEF Counted
<1> QED BY <1>2, <1>3, <1>4 DEF Sound

\* The empty book satisfies the invariant.
LEMMA InitAInv == Init => AInv
BY InitIInv, EmptySound DEF Init, AInv, OneCall, CallFresh, TobTold, ReportMatchesBook

\* One iteration of the matching loop, as an edit of the book: add_order c goes
\* on as d after it has taken qty from the front of (side, p).
MatchEdit(c, d, side, p, qty) ==
  /\ c \in call /\ side \in Side /\ p \in DOMAIN book.levels[side]
  /\ call' = {d} /\ report' = report
  /\ d.trades # <<>>
  /\ c.remaining - d.remaining = qty
  /\ LET front == book.levels[side][p][1]
     IN  /\ front \in L3Order /\ ~front.is_iceberg
         /\ qty \in 0..OpenQty(front)
         /\ Last(d.trades).qty = qty
         /\ Last(d.trades).resting_id = front.id
         /\ IF OpenQty(front) = qty
            THEN Loses(book', book, side, p, 1, Tail(book.levels[side][p]))
            ELSE Fills(book', book, side, p, FillResting(front, qty))

\* What is taken, and where.
Matches(c, d, side, p, qty) ==
  /\ side = Opposite(c.order.side)
  /\ IsBest(book.levels, side, p)
  /\ ~MatchingDone(book, c)
  /\ qty = LesserOf(c.remaining, OpenQty(book.levels[side][p][1]))
  /\ d = Traded(c, book.levels[side][p][1], p, qty)
  /\ book' = FillFront(book, side, p, qty)

\* The end of add_order c, as an edit of the book.
FinishEdit(c) ==
  /\ c \in call /\ call' = {} /\ report' = {AddReport(c)}
  /\ tob' = IF Publishes(c) THEN TopOfBook(book') ELSE tob
  /\ c \in [order : Order, remaining : Int, trades : Seq(Trade), fillable : BOOLEAN]
  /\ c.order.id \notin DOMAIN book.order_index
  /\ c.trades = <<>> => c.remaining = c.order.quantity
  /\ IF Rests(c)
     THEN LET o == NewResting(book, c.order, c.remaining)
          IN  /\ Gains(book', book, c.order.side, c.order.price, o)
              /\ c.order.side \in Side
              /\ o.id = c.order.id /\ ~o.is_iceberg
              /\ OpenQty(o) = c.remaining /\ c.remaining > 0
              /\ o.filled_qty = c.order.quantity - c.remaining
     ELSE book' = book

\* An iteration of match_against is such an edit.
LEMMA MatchOneEdits ==
  ASSUME AInv, MatchOne
  PROVE  \E c, d, side, p, qty : MatchEdit(c, d, side, p, qty) /\ Matches(c, d, side, p, qty)
<1>1. PICK c \in call :
        LET side == Opposite(c.order.side)
        IN  /\ ~MatchingDone(book, c)
            /\ \E p \in DOMAIN book.levels[side] :
                 LET front == Head(book.levels[side][p])
                     qty   == LesserOf(c.remaining, OpenQty(front))
                 IN  /\ IsBest(book.levels, side, p)
                     /\ book' = FillFront(book, side, p, qty)
                     /\ call' = {Traded(c, front, p, qty)}
            /\ UNCHANGED <<report, tob>>
  BY DEF MatchOne
<1> DEFINE side == Opposite(c.order.side)
<1>2. /\ c \in [order : Order, remaining : Int, trades : Seq(Trade), fillable : BOOLEAN]
      /\ IsBook(book) /\ Solid(book)
  BY DEF AInv, IInv, TypeOK, Sound
<1>3. side \in Side /\ c.remaining \in Int /\ c.remaining > 0
  BY <1>1, <1>2 DEF Opposite, Side, MatchingDone
<1>4. PICK p \in DOMAIN book.levels[side] :
        LET front == Head(book.levels[side][p])
            qty   == LesserOf(c.remaining, OpenQty(front))
        IN  /\ IsBest(book.levels, side, p)
            /\ book' = FillFront(book, side, p, qty) /\ call' = {Traded(c, front, p, qty)}
  BY <1>1
<1> DEFINE front == book.levels[side][p][1]
           qty   == LesserOf(c.remaining, OpenQty(front))
           trade == [resting_id |-> front.id, resting_trader |-> front.trader_id,
                     incoming_trader |-> c.order.trader_id, price |-> p, qty |-> qty]
           d     == Traded(c, front, p, qty)
<1> HIDE DEF side
<1>5. /\ front \in L3Order /\ Head(book.levels[side][p]) = front
      /\ 1 \in DOMAIN book.levels[side][p]
  BY <1>2, <1>3, QueueLemma
<1>6. book' = FillFront(book, side, p, qty) /\ call' = {d} /\ report' = report
  BY <1>1, <1>4, <1>5
<1>0. Matches(c, d, side, p, qty)
  <2>1. ~MatchingDone(book, c)
    BY <1>1
  <2>2. IsBest(book.levels, side, p)
    BY <1>4
  <2> HIDE DEF qty, d
  <2> QED BY <1>6, <2>1, <2>2 DEF Matches, side, qty, d, front
<1>7. ~front.is_iceberg
  BY <1>2, <1>3, <1>5 DEF Solid
<1>8. OpenQty(front) \in Nat
  BY <1>5 DEF L3Order, OpenQty
<1>9. qty \in 0..OpenQty(front)
  BY <1>3, <1>8 DEF LesserOf
<1>10. IF OpenQty(front) = qty
       THEN Loses(book', book, side, p, 1, Tail(book.levels[side][p]))
       ELSE Fills(book', book, side, p, FillResting(front, qty))
  <2>1. qty \in 0..OpenQty(Head(book.levels[side][p]))
    BY <1>5, <1>9
  <2> HIDE DEF qty
  <2> QED BY <1>2, <1>3, <1>6, <2>1, FillFrontEdits
<1> HIDE DEF qty
<1>11. /\ d.remaining = c.remaining - qty /\ qty \in Int
       /\ d.trades = Append(c.trades, trade)
  <2>1. d = [c EXCEPT !.remaining = @ - qty, !.trades = Append(@, trade)]
    BY DEF Traded
  <2> QED BY <1>2, <1>8, <1>9, <2>1
<1> HIDE DEF d
<1>12. d.trades # <<>> /\ Last(d.trades) = trade
  <2> DEFINE ts == c.trades
  <2>1. ts \in Seq(Trade)
    BY <1>2
  <2> HIDE DEF ts, trade
  <2>2. Append(ts, trade) # <<>> /\ Last(Append(ts, trade)) = trade
    BY <2>1 DEF Last
  <2> QED BY <1>11, <2>2 DEF ts
<1>13. Last(d.trades).qty = qty /\ Last(d.trades).resting_id = front.id
  BY <1>12
<1>14. c.remaining - d.remaining = qty
  BY <1>3, <1>11
<1> HIDE DEF front, trade
<1>15. MatchEdit(c, d, side, p, qty)
  BY <1>3, <1>5, <1>6, <1>7, <1>9, <1>10, <1>12, <1>13, <1>14 DEF MatchEdit, front
<1> QED BY <1>0, <1>15

\* The last step of add_order is such an edit.
LEMMA FinishAddEdits ==
  ASSUME AInv, FinishAdd
  PROVE  \E c : FinishEdit(c)
<1>1. PICK c \in call :
        /\ call' = {}
        /\ report' = {AddReport(c)}
        /\ book' = IF Rests(c) THEN Rest(book, c.order, c.remaining) ELSE book
        /\ tob' = IF Publishes(c) THEN TopOfBook(book') ELSE tob
  BY DEF FinishAdd
<1>2. /\ c \in [order : Order, remaining : Int, trades : Seq(Trade), fillable : BOOLEAN]
      /\ IsBook(book) /\ c.order.id \notin DOMAIN book.order_index
      /\ c.remaining <= c.order.quantity
      /\ c.trades = <<>> => c.remaining = c.order.quantity
  BY DEF AInv, IInv, TypeOK, CallSane, CallFresh
<1>3. ASSUME Rests(c)
      PROVE  LET o == NewResting(book, c.order, c.remaining)
             IN  /\ Gains(book', book, c.order.side, c.order.price, o)
                 /\ c.order.side \in Side
                 /\ o.id = c.order.id /\ ~o.is_iceberg
                 /\ OpenQty(o) = c.remaining /\ c.remaining > 0
                 /\ o.filled_qty = c.order.quantity - c.remaining
  <2> DEFINE o == NewResting(book, c.order, c.remaining)
  <2>1. /\ c.order \in Order /\ c.order.side \in Side /\ c.order.quantity \in Int
        /\ c.remaining \in Int /\ c.remaining > 0
    BY <1>2, <1>3 DEF Order, Rests
  <2>2. c.remaining \in Nat /\ c.order.quantity - c.remaining \in Nat
    BY <1>2, <2>1
  <2>3. book' = Rest(book, c.order, c.remaining)
    BY <1>1, <1>3
  <2>4. Gains(book', book, c.order.side, c.order.price, o)
    BY <1>2, <2>1, <2>2, <2>3, RestGains
  <2>5. /\ o.id = c.order.id /\ ~o.is_iceberg
        /\ OpenQty(o) = c.remaining
        /\ o.filled_qty = c.order.quantity - c.remaining
    BY <2>1 DEF NewResting, OpenQty
  <2> HIDE DEF o
  <2> QED BY <2>1, <2>4, <2>5 DEF o
<1> QED BY <1>1, <1>2, <1>3 DEF FinishEdit

\* The book stays sound in every step.
LEMMA SoundStep == AInv /\ [Next]_vars => Sound(book')
<1> SUFFICES ASSUME AInv, [Next]_vars PROVE Sound(book')
  OBVIOUS
<1>1. IsBook(book') /\ Linked(book')
  BY NextIInv DEF AInv, IInv, TypeOK, IndexMatchesBook
<1>2. Sound(book) /\ IsBook(book) /\ Linked(book)
  BY DEF AInv, Sound
<1>3. CASE book' = book
  BY <1>2, <1>3
<1>4. CASE MatchOne
  <2>1. PICK c, d, side, p, qty : MatchEdit(c, d, side, p, qty)
    BY <1>4, MatchOneEdits
  <2> DEFINE front == book.levels[side][p][1]
             o     == FillResting(front, qty)
  <2>2. CASE OpenQty(front) = qty
    <3>1. side \in Side /\ Loses(book', book, side, p, 1, Tail(book.levels[side][p]))
      BY <2>1, <2>2 DEF MatchEdit
    <3> QED BY <1>1, <1>2, <3>1, LosesSound
  <2>3. CASE OpenQty(front) # qty
    <3>1. Fills(book', book, side, p, o) /\ front \in L3Order /\ ~front.is_iceberg
          /\ qty \in 0..OpenQty(front) /\ side \in Side
      BY <2>1, <2>3 DEF MatchEdit
    <3> HIDE DEF front
    <3>2. OpenQty(front) \in Nat
      BY <3>1 DEF L3Order, OpenQty
    <3>3. OpenQty(o) > 0
      BY <2>3, <3>1, <3>2, FillRestingLemma
    <3>4. ~o.is_iceberg
      BY <3>1, FillShown
    <3> HIDE DEF o
    <3> QED BY <1>1, <1>2, <3>1, <3>3, <3>4, FillsSound
  <2> QED BY <2>2, <2>3
<1>5. CASE FinishAdd
  <2>1. PICK c : FinishEdit(c)
    BY <1>5, FinishAddEdits
  <2>2. CASE Rests(c)
    <3> DEFINE o == NewResting(book, c.order, c.remaining)
    <3>1. /\ Gains(book', book, c.order.side, c.order.price, o)
          /\ c.order.side \in Side /\ ~o.is_iceberg /\ OpenQty(o) > 0
      BY <2>1, <2>2 DEF FinishEdit
    <3> HIDE DEF o
    <3> QED BY <1>1, <1>2, <3>1, GainsSound
  <2>3. CASE ~Rests(c)
    BY <1>2, <2>1, <2>3 DEF FinishEdit
  <2> QED BY <2>2, <2>3
<1>6. ASSUME NEW id \in DOMAIN book.order_index, book' = Withdraw(book, id)
      PROVE  Sound(book')
  <2>1. PICK side \in Side : \E p \in DOMAIN book.levels[side] :
          \E k \in DOMAIN book.levels[side][p] : \E rest :
            Loses(book', book, side, p, k, rest)
    BY <1>2, <1>6, WithdrawLoses
  <2>2. PICK p, k, rest : Loses(book', book, side, p, k, rest)
    BY <2>1
  <2> QED BY <1>1, <1>2, <2>2, LosesSound
<1>7. \/ book' = book \/ MatchOne \/ FinishAdd
      \/ \E id \in DOMAIN book.order_index : book' = Withdraw(book, id)
  BY DEF Next, vars, RejectDuplicate, BeginAdd, RejectUnknown, CancelOrder, ReplaceOrder
<1> QED BY <1>3, <1>4, <1>5, <1>6, <1>7

\* add_order trades before it has less left than it was given.
LEMMA CallFreshStep == AInv /\ [Next]_vars => CallFresh'
<1> SUFFICES ASSUME AInv, [Next]_vars PROVE CallFresh'
  OBVIOUS
<1>1. CallFresh
  BY DEF AInv
<1>2. CASE MatchOne
  <2>1. PICK c, d, side, p, qty : MatchEdit(c, d, side, p, qty)
    BY <1>2, MatchOneEdits
  <2>2. report = {}
    BY <1>1, <2>1 DEF CallFresh, MatchEdit
  <2> QED BY <2>1, <2>2 DEF CallFresh, MatchEdit
<1>3. ASSUME NEW order \in Submissions, BeginAdd(order) PROVE CallFresh'
  <2>1. call' = {Activation(book, order)} /\ report' = {}
    BY <1>3 DEF BeginAdd
  <2>2. Activation(book, order).remaining = Activation(book, order).order.quantity
    BY DEF Activation
  <2> QED BY <2>1, <2>2 DEF CallFresh
<1>4. ASSUME NEW req \in Replacements, ReplaceOrder(req) PROVE CallFresh'
  <2> DEFINE a == Activation(book', ReplacementOrder(book, req))
  <2>1. call' = {a} /\ report' = {}
    BY <1>4 DEF ReplaceOrder
  <2>2. a.remaining = a.order.quantity
    BY DEF Activation
  <2> QED BY <2>1, <2>2 DEF CallFresh
<1>5. CASE call' = {}
  BY <1>5 DEF CallFresh
<1>6. CASE UNCHANGED vars
  BY <1>1, <1>6 DEF vars, CallFresh
<1>7. \/ MatchOne \/ call' = {} \/ UNCHANGED vars
      \/ \E order \in Submissions : BeginAdd(order)
      \/ \E req \in Replacements : ReplaceOrder(req)
  BY DEF Next, FinishAdd, RejectDuplicate, RejectUnknown, CancelOrder
<1> QED BY <1>2, <1>3, <1>4, <1>5, <1>6, <1>7

\* An add_order that publishes nothing has changed nothing.
LEMMA QuietAddLemma ==
  ASSUME NEW c, c \in [order : Order, remaining : Int, trades : Seq(Trade), fillable : BOOLEAN],
         c.trades = <<>> => c.remaining = c.order.quantity, Rests(c)
  PROVE  Publishes(c)
<1> SUFFICES ASSUME c.trades = <<>> PROVE AddReport(c).status = "New"
  BY DEF Publishes
<1>1. /\ c.remaining = c.order.quantity /\ c.remaining \in Int /\ c.remaining > 0
      /\ c.order.type = "Limit" /\ c.order.tif # "IOC" /\ c.order.tif # "FOK"
  BY DEF Rests
<1> QED BY <1>1 DEF AddReport

\* What was published stays the top of the book, or is published again.
LEMMA TobStep == AInv /\ [Next]_vars => TobTold'
<1> SUFFICES ASSUME AInv, [Next]_vars PROVE TobTold'
  OBVIOUS
<1>1. TobTold
  BY DEF AInv
<1>2. CASE MatchOne
  <2>1. PICK c, d, side, p, qty : MatchEdit(c, d, side, p, qty)
    BY <1>2, MatchOneEdits
  <2> QED BY <2>1 DEF TobTold, MatchEdit
<1>3. CASE FinishAdd
  <2>1. PICK c : FinishEdit(c)
    BY <1>3, FinishAddEdits
  <2>2. /\ c \in [order : Order, remaining : Int, trades : Seq(Trade), fillable : BOOLEAN]
        /\ c.trades = <<>> => c.remaining = c.order.quantity
        /\ tob' = IF Publishes(c) THEN TopOfBook(book') ELSE tob
        /\ ~Rests(c) => book' = book
    BY <2>1 DEF FinishEdit
  <2>3. CASE Publishes(c)
    BY <2>2, <2>3 DEF TobTold
  <2>4. CASE ~Publishes(c)
    <3>1. ~Rests(c)
      BY <2>2, <2>4, QuietAddLemma
    <3>2. c.trades = <<>>
      BY <2>4 DEF Publishes
    <3>3. \A e \in call : e = c
      BY <2>1 DEF FinishEdit, AInv, OneCall
    <3> QED BY <1>1, <2>2, <2>4, <3>1, <3>2, <3>3 DEF TobTold
  <2> QED BY <2>3, <2>4
<1>4. CASE tob' = TopOfBook(book')
  BY <1>4 DEF TobTold
<1>5. CASE call = {} /\ UNCHANGED <<book, tob>>
  <2>1. tob = TopOfBook(book)
    BY <1>1, <1>5 DEF TobTold
  <2> QED BY <1>5, <2>1 DEF TobTold
<1>6. CASE UNCHANGED vars
  BY <1>1, <1>6 DEF vars, TobTold
<1>7. \/ MatchOne \/ FinishAdd \/ tob' = TopOfBook(book')
      \/ (call = {} /\ UNCHANGED <<book, tob>>) \/ UNCHANGED vars
  BY DEF Next, RejectDuplicate, BeginAdd, RejectUnknown, CancelOrder, ReplaceOrder
<1> QED BY <1>2, <1>3, <1>4, <1>5, <1>6, <1>7

\* Each report tells what the book holds, until the next call.
LEMMA ReportStep == AInv /\ [Next]_vars => ReportMatchesBook'
<1> SUFFICES ASSUME AInv, [Next]_vars PROVE ReportMatchesBook'
  OBVIOUS
<1>1. /\ IsBook(book) /\ Linked(book) /\ ReportMatchesBook
      /\ IsBook(book') /\ Linked(book')
  BY NextIInv DEF AInv, IInv, TypeOK, IndexMatchesBook
<1>2. CASE MatchOne
  <2>1. PICK c, d, side, p, qty : MatchEdit(c, d, side, p, qty)
    BY <1>2, MatchOneEdits
  <2>2. report' = {}
    BY <2>1 DEF MatchEdit, AInv, CallFresh
  <2> QED BY <2>2 DEF ReportMatchesBook
<1>3. CASE FinishAdd
  <2>1. PICK c : FinishEdit(c)
    BY <1>3, FinishAddEdits
  <2> DEFINE r == AddReport(c)
  <2>2. /\ report' = {r}
        /\ c \in [order : Order, remaining : Int, trades : Seq(Trade), fillable : BOOLEAN]
        /\ c.order.id \notin DOMAIN book.order_index
    BY <2>1 DEF FinishEdit
  <2>3. /\ c.order \in Order /\ c.remaining \in Int /\ c.order.quantity \in Int
        /\ c.order.tif \in {"Day", "GTC", "IOC", "FOK"}
    BY <2>2 DEF Order, TimeInForce
  <2>4. ASSUME r.type = "Limit"
        PROVE  IF r.leaves_qty > 0
               THEN /\ r.order_id \in DOMAIN book'.order_index
                    /\ OpenQty(RestingOrder(book', r.order_id)) = r.leaves_qty
                    /\ RestingOrder(book', r.order_id).filled_qty = r.filled_qty
               ELSE r.order_id \notin DOMAIN book'.order_index
    <3>1. /\ r.order_id = c.order.id /\ c.order.type = "Limit"
          /\ Rests(c) => /\ r.leaves_qty = c.remaining
                         /\ r.filled_qty = c.order.quantity - c.remaining
          /\ ~Rests(c) => ~(r.leaves_qty > 0)
      BY <2>3, <2>4 DEF AddReport, Rests
    <3> HIDE DEF r
    <3>2. CASE Rests(c)
      <4> DEFINE o == NewResting(book, c.order, c.remaining)
      <4>1. /\ Gains(book', book, c.order.side, c.order.price, o)
            /\ c.order.side \in Side /\ o.id = c.order.id
            /\ OpenQty(o) = c.remaining /\ c.remaining > 0
            /\ o.filled_qty = c.order.quantity - c.remaining
        BY <2>1, <3>2 DEF FinishEdit
      <4> HIDE DEF o
      <4>2. RestingOrder(book', o.id) = o
        BY <1>1, <4>1, GainsOthers
      <4>3. o.id \in DOMAIN book'.order_index
        BY <4>1 DEF Gains
      <4> QED BY <3>1, <3>2, <4>1, <4>2, <4>3
    <3>3. CASE ~Rests(c)
      <4>1. book' = book
        BY <2>1, <3>3 DEF FinishEdit
      <4> QED BY <2>2, <3>1, <3>3, <4>1
    <3> QED BY <3>2, <3>3
  <2> HIDE DEF r
  <2> QED BY <2>2, <2>4 DEF ReportMatchesBook
<1>4. ASSUME NEW id \in OrderId, CancelOrder(id) PROVE ReportMatchesBook'
  <2>1. /\ report' = {CancelReport(book, id)} /\ id \in DOMAIN book.order_index
        /\ book' = Withdraw(book, id)
    BY <1>4 DEF CancelOrder
  <2>2. id \notin DOMAIN book'.order_index
    BY <1>1, <2>1, WithdrawLemma
  <2>3. CancelReport(book, id).leaves_qty = 0 /\ CancelReport(book, id).order_id = id
    BY DEF CancelReport
  <2> DEFINE r == CancelReport(book, id)
  <2>4. report' = {r} /\ ~(r.leaves_qty > 0) /\ r.order_id = id
    BY <2>1, <2>3
  <2> HIDE DEF r
  <2> QED BY <2>2, <2>4 DEF ReportMatchesBook
<1>5. ASSUME NEW id \in OrderId, RejectUnknown(id) PROVE ReportMatchesBook'
  BY <1>5 DEF RejectUnknown, UnknownReport, Rejection, ReportMatchesBook
<1>6. ASSUME NEW order \in Submissions, RejectDuplicate(order) PROVE ReportMatchesBook'
  BY <1>6 DEF RejectDuplicate, DuplicateReport, Rejection, ReportMatchesBook
<1>7. CASE report' = {}
  BY <1>7 DEF ReportMatchesBook
<1>8. CASE UNCHANGED vars
  BY <1>1, <1>8 DEF vars, ReportMatchesBook
<1>9. \/ MatchOne \/ FinishAdd \/ report' = {} \/ UNCHANGED vars
      \/ \E order \in Submissions : RejectDuplicate(order)
      \/ \E id \in OrderId : RejectUnknown(id) \/ CancelOrder(id)
  BY DEF Next, BeginAdd, ReplaceOrder
<1> QED BY <1>2, <1>3, <1>4, <1>5, <1>6, <1>7, <1>8, <1>9

\* Every step keeps the invariant.
LEMMA NextAInv == AInv /\ [Next]_vars => AInv'
<1> SUFFICES ASSUME AInv, [Next]_vars PROVE AInv'
  OBVIOUS
<1>1. IInv'
  BY NextIInv DEF AInv
<1>2. OneCall'
  <2>1. call' = call \/ \E d : call' = {d}  \/ call' = {}
    BY DEF Next, vars, RejectDuplicate, BeginAdd, MatchOne, FinishAdd, RejectUnknown,
           CancelOrder, ReplaceOrder
  <2> QED BY <2>1 DEF AInv, OneCall
<1> QED BY <1>1, <1>2, SoundStep, CallFreshStep, TobStep, ReportStep DEF AInv

\* What a step does to an order that rests before and after it.
LEMMA StaysLemma ==
  ASSUME AInv, [Next]_vars,
         NEW id \in DOMAIN book.order_index \cap DOMAIN book'.order_index
  PROVE  LET before == RestingOrder(book, id)
             after  == RestingOrder(book', id)
             taken  == after.filled_qty - before.filled_qty
         IN  /\ quantity_ahead(book', id) <= quantity_ahead(book, id)
             /\ OpenQty(before) - OpenQty(after) = taken
             /\ taken # 0 => \E c \in call, d \in call' :
                               /\ c.remaining - d.remaining = taken
                               /\ Last(d.trades).qty = taken
                               /\ Last(d.trades).resting_id = id
<1> DEFINE before == RestingOrder(book, id)
           after  == RestingOrder(book', id)
           taken  == after.filled_qty - before.filled_qty
<1>1. /\ IsBook(book) /\ Linked(book) /\ Sound(book)
      /\ IsBook(book') /\ Linked(book')
  BY NextIInv DEF AInv, IInv, TypeOK, IndexMatchesBook
<1>2. ASSUME SameOrder(after, before), before \in L3Order, after \in L3Order
      PROVE  OpenQty(before) - OpenQty(after) = taken /\ taken = 0
  <2> HIDE DEF before, after
  <2>1. /\ before.visible_qty = after.visible_qty
        /\ before.hidden_qty = after.hidden_qty
        /\ before.filled_qty = after.filled_qty
        /\ before.visible_qty \in Nat /\ before.hidden_qty \in Nat /\ before.filled_qty \in Nat
    BY <1>2, SameOrderLemma DEF L3Order
  <2> QED BY <2>1 DEF OpenQty
<1>3. ASSUME NEW side \in Side, NEW p, NEW k, NEW rest, Loses(book', book, side, p, k, rest)
      PROVE  /\ quantity_ahead(book', id) <= quantity_ahead(book, id)
             /\ OpenQty(before) - OpenQty(after) = taken /\ taken = 0
  <2>1. /\ SameOrder(after, before) /\ after \in L3Order /\ before \in L3Order
        /\ quantity_ahead(book', id) <= quantity_ahead(book, id)
    BY <1>1, <1>3, LosesOthers
  <2> HIDE DEF before, after, taken
  <2> QED BY <1>2, <2>1
<1>4. CASE book' = book
  <2>1. PICK s \in Side : \E q \in DOMAIN book.levels[s] : \E i \in DOMAIN book.levels[s][q] :
          book.levels[s][q][i].id = id
    BY <1>1, FoundLemma
  <2>2. PICK q \in DOMAIN book.levels[s] : \E i \in DOMAIN book.levels[s][q] :
          book.levels[s][q][i].id = id
    BY <2>1
  <2>3. PICK i \in DOMAIN book.levels[s][q] : book.levels[s][q][i].id = id
    BY <2>2
  <2> DEFINE queue == book.levels[s][q]
  <2>4. /\ before \in L3Order /\ quantity_ahead(book, id) = Ahead(queue, i)
        /\ queue \in Seq(L3Order) /\ i \in DOMAIN queue
    BY <1>1, <2>3, WhereLemma, QueueLemma
  <2> HIDE DEF queue
  <2>5. quantity_ahead(book, id) \in Int
    BY <2>4, AheadMonotone
  <2>6. after = before /\ quantity_ahead(book', id) = quantity_ahead(book, id)
    BY <1>4
  <2> HIDE DEF before, after, taken
  <2>7. OpenQty(before) - OpenQty(after) = taken /\ taken = 0
    BY <1>2, <2>4, <2>6 DEF SameOrder
  <2> QED BY <2>5, <2>6, <2>7 DEF before, after, taken
<1>5. CASE MatchOne
  <2>1. PICK c, d, side, p, qty : MatchEdit(c, d, side, p, qty)
    BY <1>5, MatchOneEdits
  <2> DEFINE front == book.levels[side][p][1]
             o     == FillResting(front, qty)
  <2>2. /\ c \in call /\ d \in call' /\ side \in Side
        /\ c.remaining - d.remaining = qty
        /\ front \in L3Order /\ ~front.is_iceberg
        /\ qty \in 0..OpenQty(front)
        /\ Last(d.trades).qty = qty /\ Last(d.trades).resting_id = front.id
    BY <2>1 DEF MatchEdit
  <2>3. CASE OpenQty(front) = qty
    <3>1. Loses(book', book, side, p, 1, Tail(book.levels[side][p]))
      BY <2>1, <2>3 DEF MatchEdit
    <3>2. /\ quantity_ahead(book', id) <= quantity_ahead(book, id)
          /\ OpenQty(before) - OpenQty(after) = taken /\ taken = 0
      BY <1>3, <2>2, <3>1
    <3> QED BY <3>2
  <2>4. CASE OpenQty(front) # qty
    <3>1. Fills(book', book, side, p, o)
      BY <2>1, <2>4 DEF MatchEdit
    <3>2. o.visible_qty <= front.visible_qty
      <4> HIDE DEF front
      <4> QED BY <2>2, FillShown
    <3>3. /\ o \in L3Order /\ o.id = front.id /\ OpenQty(o) = OpenQty(front) - qty
          /\ OpenQty(o) + o.filled_qty = OpenQty(front) + front.filled_qty
      <4> HIDE DEF front
      <4> QED BY <2>2, FillRestingLemma
    <3>4. /\ RestingOrder(book, o.id) = front
          /\ after = IF id = o.id THEN o ELSE before
          /\ before \in L3Order
          /\ quantity_ahead(book', id) <= quantity_ahead(book, id)
      <4> HIDE DEF o
      <4> QED BY <1>1, <2>2, <3>1, <3>2, FillsOthers
    <3>5. CASE id = o.id
      <4>1. before = front /\ after = o
        BY <3>4, <3>5
      <4> HIDE DEF front, o, before, after
      <4>2. /\ OpenQty(front) \in Nat /\ OpenQty(o) \in Nat
            /\ o.filled_qty \in Nat /\ front.filled_qty \in Nat
        BY <2>2, <3>3 DEF OpenQty, L3Order
      <4>3. taken = qty /\ OpenQty(before) - OpenQty(after) = taken
        BY <2>2, <3>3, <4>1, <4>2
      <4> HIDE DEF taken
      <4> QED BY <2>2, <3>3, <3>4, <3>5, <4>3 DEF before, after, taken
    <3>6. CASE id # o.id
      <4>1. after = before
        BY <3>4, <3>6
      <4>2. SameOrder(after, before)
        BY <4>1 DEF SameOrder
      <4>3. OpenQty(before) - OpenQty(after) = taken /\ taken = 0
        BY <1>2, <3>4, <4>1, <4>2
      <4> QED BY <3>4, <4>3
    <3> QED BY <3>5, <3>6
  <2> QED BY <2>3, <2>4
<1>6. CASE FinishAdd
  <2>1. PICK c : FinishEdit(c)
    BY <1>6, FinishAddEdits
  <2>2. CASE Rests(c)
    <3> DEFINE o == NewResting(book, c.order, c.remaining)
    <3>1. Gains(book', book, c.order.side, c.order.price, o) /\ c.order.side \in Side
      BY <2>1, <2>2 DEF FinishEdit
    <3> HIDE DEF o
    <3>2. /\ after = before /\ before \in L3Order
          /\ quantity_ahead(book', id) <= quantity_ahead(book, id)
      BY <1>1, <3>1, GainsOthers
    <3>3. OpenQty(before) - OpenQty(after) = taken /\ taken = 0
      BY <1>2, <3>2 DEF SameOrder
    <3> QED BY <3>2, <3>3
  <2>3. CASE ~Rests(c)
    BY <1>4, <2>1, <2>3 DEF FinishEdit
  <2> QED BY <2>2, <2>3
<1>7. ASSUME NEW x \in DOMAIN book.order_index, book' = Withdraw(book, x)
      PROVE  /\ quantity_ahead(book', id) <= quantity_ahead(book, id)
             /\ OpenQty(before) - OpenQty(after) = taken /\ taken = 0
  <2>1. PICK side \in Side : \E p \in DOMAIN book.levels[side] :
          \E k \in DOMAIN book.levels[side][p] : \E rest :
            Loses(book', book, side, p, k, rest)
    BY <1>1, <1>7, WithdrawLoses
  <2>2. PICK p, k, rest : Loses(book', book, side, p, k, rest)
    BY <2>1
  <2> QED BY <1>3, <2>2
<1>8. \/ book' = book \/ MatchOne \/ FinishAdd
      \/ \E x \in DOMAIN book.order_index : book' = Withdraw(book, x)
  BY DEF Next, vars, RejectDuplicate, BeginAdd, RejectUnknown, CancelOrder, ReplaceOrder
<1> HIDE DEF before, after, taken
<1> QED BY <1>4, <1>5, <1>6, <1>7, <1>8 DEF before, after, taken

----------------------------------------------------------------------------
(* Theorems. *)

\* The invariant holds in every reachable state.
THEOREM AccountsInvariance == Spec => []AInv
<1> QED BY InitAInv, NextAInv, PTL DEF Spec

\* The two order counts, which every path maintains by hand, are the numbers of
\* orders in the queues, and whatever rests has something left to trade.
THEOREM CountsAreRight == Spec => []CountsMatchBook
<1>1. AInv => CountsMatchBook
  <2> SUFFICES ASSUME AInv, NEW s \in Side
               PROVE  /\ book.order_count[s] =
                           MapThenSumSet(LAMBDA p : Len(book.levels[s][p]), DOMAIN book.levels[s])
                      /\ \A p \in DOMAIN book.levels[s] : \A i \in DOMAIN book.levels[s][p] :
                           OpenQty(book.levels[s][p][i]) > 0
    BY DEF CountsMatchBook
  <2>1. /\ IsFiniteSet(DOMAIN book.levels[s])
        /\ book.order_count[s] = SumOver(Lens(book.levels[s]), DOMAIN book.levels[s])
    BY DEF AInv, Sound, Counted
  <2>2. book.order_count[s] = QueueTotal(book.levels[s])
    BY <2>1, QueueTotalLemma
  <2>3. \A p \in DOMAIN book.levels[s] : \A i \in DOMAIN book.levels[s][p] :
          OpenQty(book.levels[s][p][i]) > 0
    BY DEF AInv, Sound, Solid
  <2> QED BY <2>2, <2>3 DEF QueueTotal
<1> QED BY <1>1, AccountsInvariance, PTL

\* Between calls the subscriber has the top of the book, although add_order
\* publishes only after a trade or for an order that is new: the orders it does
\* not publish are those that changed nothing.
THEOREM TopOfBookIsCurrent == Spec => []TobCurrent
<1>1. AInv => TobCurrent
  BY DEF AInv, TobTold, TobCurrent
<1> QED BY <1>1, AccountsInvariance, PTL

\* An execution report of a limit order and the book never disagree.
THEOREM ReportsAreTrue == Spec => []ReportMatchesBook
<1>1. AInv => ReportMatchesBook
  BY DEF AInv
<1> QED BY <1>1, AccountsInvariance, PTL

\* No quantity is lost or made between a resting order, the order it trades
\* with and the trade, for any quantities and prices.
THEOREM QuantityIsConserved == Spec => QuantityConserved
<1>1. AInv /\ [Next]_vars =>
        [\A id \in DOMAIN book.order_index \cap DOMAIN book'.order_index :
           LET before == RestingOrder(book, id)
               after  == RestingOrder(book', id)
               taken  == after.filled_qty - before.filled_qty
           IN  /\ OpenQty(before) - OpenQty(after) = taken
               /\ taken # 0 => \E c \in call, d \in call' :
                                 /\ c.remaining - d.remaining = taken
                                 /\ Last(d.trades).qty = taken
                                 /\ Last(d.trades).resting_id = id]_vars
  BY StaysLemma
<1> QED BY <1>1, AccountsInvariance, PTL DEF Spec, QuantityConserved

\* No order is ever overtaken: what is displayed before it does not grow.
THEOREM PlaceIsKept == Spec => PriorityKept
<1>1. AInv /\ [Next]_vars =>
        [\A id \in DOMAIN book.order_index \cap DOMAIN book'.order_index :
           quantity_ahead(book', id) <= quantity_ahead(book, id)]_vars
  BY StaysLemma
<1> QED BY <1>1, AccountsInvariance, PTL DEF Spec, PriorityKept

----------------------------------------------------------------------------
(***************************************************************************)
(* L3OrderBook implements PriceTimeBook.  The abstract book is a set of    *)
(* records, one for each id of the index (View); each write of the code    *)
(* changes the records as the abstract step does, and what a fill-or-kill  *)
(* order can get is the sum of the records it may trade with.              *)
(***************************************************************************)
----------------------------------------------------------------------------
(* The abstract book, id by id. *)

\* The abstract record of the i-th order at (s, q).
Record(b, s, q, i) ==
  [id    |-> b.levels[s][q][i].id,
   side  |-> s,
   price |-> q,
   qty   |-> OpenQty(b.levels[s][q][i]),
   ahead |-> {b.levels[s][q][j].id : j \in 1..(i - 1)}]

\* The abstract record of order x.
View(b, x) ==
  LET loc   == b.order_index[x]
      queue == b.levels[loc.side][loc.price]
  IN  Record(b, loc.side, loc.price, CHOOSE i \in DOMAIN queue : queue[i].id = x)

Views(b) == {View(b, x) : x \in DOMAIN b.order_index}

\* AbstractResting, of any book.
RestingIn(b) ==
  UNION {UNION {{Record(b, s, q, i) : i \in DOMAIN b.levels[s][q]} : q \in DOMAIN b.levels[s]} :
           s \in Side}

\* The index leads to the order's record.
LEMMA ViewLemma ==
  ASSUME NEW b, IsBook(b), Linked(b),
         NEW s \in Side, NEW q \in DOMAIN b.levels[s], NEW i \in DOMAIN b.levels[s][q]
  PROVE  /\ View(b, b.levels[s][q][i].id) = Record(b, s, q, i)
         /\ b.levels[s][q][i].id \in DOMAIN b.order_index
<1> DEFINE queue == b.levels[s][q]
           x     == queue[i].id
           at    == CHOOSE j \in DOMAIN queue : queue[j].id = x
<1>1. /\ x \in DOMAIN b.order_index
      /\ b.order_index[x] = [side |-> s, price |-> q]
      /\ \A j \in DOMAIN queue : queue[j].id = x => j = i
  BY LinkedLemma
<1>2. at = i
  <2>1. at \in DOMAIN queue /\ queue[at].id = x
    OBVIOUS
  <2> HIDE DEF at
  <2> QED BY <1>1, <2>1
<1>3. View(b, x) = Record(b, s, q, at)
  <2>1. b.order_index[x].side = s /\ b.order_index[x].price = q
    BY <1>1
  <2> QED BY <2>1 DEF View
<1> HIDE DEF at
<1> QED BY <1>1, <1>2, <1>3

\* The records of the orders in the queues are those of the ids in the index.
LEMMA ViewsLemma ==
  ASSUME NEW b, IsBook(b), Linked(b)
  PROVE  RestingIn(b) = Views(b)
<1>1. ASSUME NEW r \in RestingIn(b) PROVE r \in Views(b)
  <2>1. PICK s \in Side : \E q \in DOMAIN b.levels[s] : \E i \in DOMAIN b.levels[s][q] :
          r = Record(b, s, q, i)
    BY DEF RestingIn
  <2>2. PICK q \in DOMAIN b.levels[s] : \E i \in DOMAIN b.levels[s][q] : r = Record(b, s, q, i)
    BY <2>1
  <2>3. PICK i \in DOMAIN b.levels[s][q] : r = Record(b, s, q, i)
    BY <2>2
  <2> QED BY <2>3, ViewLemma DEF Views
<1>2. ASSUME NEW x \in DOMAIN b.order_index PROVE View(b, x) \in RestingIn(b)
  <2>1. PICK s \in Side : \E q \in DOMAIN b.levels[s] : \E i \in DOMAIN b.levels[s][q] :
          b.levels[s][q][i].id = x
    BY FoundLemma
  <2>2. PICK q \in DOMAIN b.levels[s] : \E i \in DOMAIN b.levels[s][q] : b.levels[s][q][i].id = x
    BY <2>1
  <2>3. PICK i \in DOMAIN b.levels[s][q] : b.levels[s][q][i].id = x
    BY <2>2
  <2>4. View(b, x) = Record(b, s, q, i)
    BY <2>3, ViewLemma
  <2> HIDE DEF Record
  <2> QED BY <2>4 DEF RestingIn
<1> QED BY <1>1, <1>2 DEF Views

\* What a record says of its order and of its place.
LEMMA ViewFields ==
  ASSUME NEW b, IsBook(b), Linked(b), NEW x \in DOMAIN b.order_index
  PROVE  /\ View(b, x).id = x
         /\ View(b, x).side = b.order_index[x].side
         /\ View(b, x).price = b.order_index[x].price
         /\ View(b, x).qty = OpenQty(RestingOrder(b, x))
         /\ View(b, x).qty \in Nat
         /\ View(b, x).side \in Side
         /\ View(b, x).price \in DOMAIN b.levels[View(b, x).side]
         /\ View(b, x) = [id |-> x, side |-> View(b, x).side, price |-> View(b, x).price,
                          qty |-> View(b, x).qty, ahead |-> View(b, x).ahead]
<1>1. PICK s \in Side : \E q \in DOMAIN b.levels[s] : \E i \in DOMAIN b.levels[s][q] :
        b.levels[s][q][i].id = x
  BY FoundLemma
<1>2. PICK q \in DOMAIN b.levels[s] : \E i \in DOMAIN b.levels[s][q] : b.levels[s][q][i].id = x
  BY <1>1
<1>3. PICK i \in DOMAIN b.levels[s][q] : b.levels[s][q][i].id = x
  BY <1>2
<1> DEFINE o == b.levels[s][q][i]
<1>4. View(b, x) = Record(b, s, q, i)
  BY <1>3, ViewLemma
<1>5. RestingOrder(b, x) = o /\ o \in L3Order
  BY <1>3, WhereLemma
<1>6. b.order_index[x].side = s /\ b.order_index[x].price = q
  <2>1. b.order_index[x] = [side |-> s, price |-> q]
    BY <1>3, LinkedLemma
  <2> QED BY <2>1
<1>7. OpenQty(o) \in Nat
  <2> HIDE DEF o
  <2> QED BY <1>5 DEF L3Order, OpenQty
<1> QED BY <1>3, <1>4, <1>5, <1>6, <1>7 DEF Record

----------------------------------------------------------------------------
(* What the three writes do to the records. *)

\* When an order leaves, nobody waits behind it any more.
LEMMA LosesViews ==
  ASSUME NEW b, IsBook(b), Linked(b), NEW u, IsBook(u), Linked(u),
         NEW side \in Side, NEW p, NEW k, NEW rest, Loses(u, b, side, p, k, rest),
         NEW x \in DOMAIN u.order_index
  PROVE  View(u, x) = [View(b, x) EXCEPT !.ahead = @ \ {b.levels[side][p][k].id}]
<1> DEFINE gone == b.levels[side][p][k].id
<1>0. p \in DOMAIN b.levels[side] /\ k \in DOMAIN b.levels[side][p]
  BY DEF Loses
<1>1. PICK s \in Side : \E q \in DOMAIN u.levels[s] : \E j \in DOMAIN u.levels[s][q] :
        u.levels[s][q][j].id = x
  BY FoundLemma
<1>2. PICK q \in DOMAIN u.levels[s] : \E j \in DOMAIN u.levels[s][q] : u.levels[s][q][j].id = x
  BY <1>1
<1>3. PICK j \in DOMAIN u.levels[s][q] : u.levels[s][q][j].id = x
  BY <1>2
<1>4. View(u, x) = Record(u, s, q, j)
  BY <1>3, ViewLemma
<1>5. CASE s = side /\ q = p
  <2> DEFINE queue == b.levels[side][p]
             i     == IF j < k THEN j ELSE j + 1
  <2>1. u.levels[s][q] = rest
    BY <1>5 DEF Loses, Changed
  <2>2. /\ k \in DOMAIN queue /\ Removed(rest, queue, k) /\ j \in DOMAIN rest
    BY <2>1 DEF Loses
  <2>3. queue \in Seq(L3Order)
    BY <1>0, QueueLemma
  <2> HIDE DEF queue
  <2>4. /\ DOMAIN rest = 1..(Len(queue) - 1) /\ DOMAIN queue = 1..Len(queue)
        /\ Len(queue) \in Nat /\ k \in 1..Len(queue) /\ j \in 1..(Len(queue) - 1)
    BY <2>2, <2>3 DEF Removed
  <2>5. ASSUME NEW m \in DOMAIN rest
        PROVE  LET n == IF m < k THEN m ELSE m + 1
               IN  n \in DOMAIN queue /\ rest[m].id = queue[n].id
                   /\ OpenQty(rest[m]) = OpenQty(queue[n])
    <3> DEFINE n == IF m < k THEN m ELSE m + 1
    <3>1. n \in DOMAIN queue
      BY <2>4
    <3>2. SameOrder(rest[m], queue[n])
      BY <2>2 DEF Removed
    <3>3. rest[m] \in L3Order /\ queue[n] \in L3Order
      BY <2>2, <2>3, <3>1 DEF Removed
    <3> HIDE DEF n
    <3>4. rest[m].id = queue[n].id /\ OpenQty(rest[m]) = OpenQty(queue[n])
      BY <3>2, <3>3, SameOrderLemma DEF OpenQty
    <3> QED BY <3>1, <3>4 DEF n
  <2>6. i \in DOMAIN queue /\ rest[j].id = queue[i].id /\ OpenQty(rest[j]) = OpenQty(queue[i])
    BY <2>2, <2>5
  <2>7. queue[i].id = x
    BY <1>3, <2>1, <2>6
  <2>8. View(b, x) = Record(b, side, p, i)
    <3> HIDE DEF i
    <3>1. b.levels[side][p][i].id = x /\ i \in DOMAIN b.levels[side][p]
      BY <2>6, <2>7 DEF queue
    <3> QED BY <1>0, <3>1, ViewLemma
  <2>9. \A m, n \in DOMAIN queue : queue[m].id = queue[n].id => m = n
    BY <1>0, DistinctLemma DEF queue
  <2>10. {rest[m].id : m \in 1..(j - 1)} = {queue[n].id : n \in 1..(i - 1)} \ {queue[k].id}
    <3>1. ASSUME NEW m \in 1..(j - 1)
          PROVE  rest[m].id \in {queue[n].id : n \in 1..(i - 1)} \ {queue[k].id}
      <4> DEFINE n == IF m < k THEN m ELSE m + 1
      <4>1. m \in DOMAIN rest
        BY <2>4
      <4>2. n \in DOMAIN queue /\ rest[m].id = queue[n].id
        BY <2>5, <4>1
      <4>3. n \in 1..(i - 1) /\ n # k
        BY <2>4
      <4> HIDE DEF n, i
      <4> QED BY <2>2, <2>9, <4>2, <4>3
    <3>2. ASSUME NEW n \in 1..(i - 1), queue[n].id # queue[k].id
          PROVE  \E m \in 1..(j - 1) : queue[n].id = rest[m].id
      <4> DEFINE m == IF n < k THEN n ELSE n - 1
      <4>1. n # k
        BY <3>2
      <4>2. m \in 1..(j - 1) /\ m \in DOMAIN rest /\ n = IF m < k THEN m ELSE m + 1
        BY <2>4, <4>1
      <4> HIDE DEF m, i
      <4>3. rest[m].id = queue[n].id
        BY <2>5, <4>2
      <4> QED BY <4>2, <4>3
    <3> HIDE DEF i
    <3> QED BY <3>1, <3>2
  <2> HIDE DEF i
  <2>11. /\ Record(u, s, q, j) =
              [id |-> x, side |-> side, price |-> p, qty |-> OpenQty(rest[j]),
               ahead |-> {rest[m].id : m \in 1..(j - 1)}]
         /\ Record(b, side, p, i) =
              [id |-> x, side |-> side, price |-> p, qty |-> OpenQty(queue[i]),
               ahead |-> {queue[n].id : n \in 1..(i - 1)}]
    BY <1>3, <1>5, <2>1, <2>7 DEF Record, queue
  <2>12. Record(u, s, q, j) = [Record(b, side, p, i) EXCEPT !.ahead = @ \ {queue[k].id}]
    <3> DEFINE now == {rest[m].id : m \in 1..(j - 1)}
               old == {queue[n].id : n \in 1..(i - 1)}
    <3>1. /\ now = old \ {queue[k].id}
          /\ Record(u, s, q, j) = [id |-> x, side |-> side, price |-> p,
                                   qty |-> OpenQty(rest[j]), ahead |-> now]
          /\ Record(b, side, p, i) = [id |-> x, side |-> side, price |-> p,
                                      qty |-> OpenQty(queue[i]), ahead |-> old]
      BY <2>10, <2>11
    <3> HIDE DEF now, old
    <3> QED BY <2>6, <3>1
  <2> QED BY <1>4, <2>8, <2>12 DEF queue
<1>6. CASE ~(s = side /\ q = p)
  <2> DEFINE queue == b.levels[s][q]
  <2>1. q \in DOMAIN b.levels[s] /\ u.levels[s][q] = queue
    BY <1>6 DEF Loses, Changed
  <2>2. View(b, x) = Record(b, s, q, j)
    BY <1>3, <2>1, ViewLemma
  <2>3. \A m \in DOMAIN queue : b.order_index[queue[m].id] = [side |-> s, price |-> q]
    BY <2>1, LinkedLemma
  <2>4. b.order_index[gone] = [side |-> side, price |-> p]
    BY <1>0, LinkedLemma
  <2>5. [side |-> s, price |-> q] # [side |-> side, price |-> p]
    BY <1>6
  <2>6. \A m \in DOMAIN queue : queue[m].id # gone
    BY <2>3, <2>4, <2>5
  <2>7. DOMAIN queue = 1..Len(queue) /\ Len(queue) \in Nat /\ j \in DOMAIN queue
    BY <1>3, <2>1, QueueLemma
  <2> HIDE DEF gone
  <2>8. Record(u, s, q, j) = Record(b, s, q, j)
    BY <2>1 DEF Record
  <2> HIDE DEF queue
  <2>9. \A m \in 1..(j - 1) : m \in DOMAIN queue
    BY <2>7
  <2> DEFINE waits == {queue[m].id : m \in 1..(j - 1)}
  <2>10. waits \ {gone} = waits
    BY <2>6, <2>9
  <2>11. Record(b, s, q, j) = [id |-> queue[j].id, side |-> s, price |-> q,
                               qty |-> OpenQty(queue[j]), ahead |-> waits]
    BY DEF Record, queue
  <2> HIDE DEF waits
  <2>12. Record(b, s, q, j) = [Record(b, s, q, j) EXCEPT !.ahead = @ \ {gone}]
    BY <2>10, <2>11
  <2> QED BY <1>4, <2>2, <2>8, <2>12 DEF gone
<1> QED BY <1>5, <1>6

\* An order that joins waits for all that are at its price; the others do not
\* notice.
LEMMA GainsViews ==
  ASSUME NEW b, IsBook(b), Linked(b), NEW u, IsBook(u), Linked(u),
         NEW side \in Side, NEW p, NEW o, Gains(u, b, side, p, o)
  PROVE  /\ \A x \in DOMAIN b.order_index : View(u, x) = View(b, x)
         /\ View(u, o.id) =
              [id |-> o.id, side |-> side, price |-> p, qty |-> OpenQty(o),
               ahead |-> {r.id : r \in {v \in Views(b) : v.side = side /\ v.price = p}}]
<1> DEFINE queue  == QueueAt(b, side, p)
           longer == Append(queue, o)
<1>1. queue \in Seq(L3Order)
  BY QueueLemma DEF QueueAt
<1>2. /\ longer # <<>>
      /\ DOMAIN queue = 1..Len(queue) /\ Len(queue) \in Nat
      /\ DOMAIN longer = 1..(Len(queue) + 1)
      /\ \A i \in 1..Len(queue) : longer[i] = queue[i]
      /\ longer[Len(queue) + 1] = o
  <2>1. o \in L3Order
    BY DEF Gains
  <2> HIDE DEF queue
  <2> QED BY <1>1, <2>1, AppendProperties
<1>3. Changed(u, b, side, p, longer)
  BY DEF Gains
<1> HIDE DEF longer
<1>4. p \in DOMAIN u.levels[side] /\ u.levels[side][p] = longer
  BY <1>2, <1>3 DEF Changed
<1>5. ASSUME NEW x \in DOMAIN b.order_index
      PROVE  View(u, x) = View(b, x)
  <2>1. PICK s \in Side : \E q \in DOMAIN b.levels[s] : \E i \in DOMAIN b.levels[s][q] :
          b.levels[s][q][i].id = x
    BY FoundLemma
  <2>2. PICK q \in DOMAIN b.levels[s] : \E i \in DOMAIN b.levels[s][q] : b.levels[s][q][i].id = x
    BY <2>1
  <2>3. PICK i \in DOMAIN b.levels[s][q] : b.levels[s][q][i].id = x
    BY <2>2
  <2>4. b.levels[s][q] \in Seq(L3Order) /\ i \in 1..Len(b.levels[s][q])
    BY <2>3, QueueLemma
  <2>5. /\ q \in DOMAIN u.levels[s]
        /\ i \in DOMAIN u.levels[s][q]
        /\ \A j \in 1..i : u.levels[s][q][j] = b.levels[s][q][j]
    <3>1. CASE s = side /\ q = p
      <4>1. queue = b.levels[s][q]
        BY <3>1 DEF QueueAt
      <4>2. i \in 1..Len(queue)
        BY <2>4, <4>1
      <4> HIDE DEF queue
      <4> QED BY <1>2, <1>4, <3>1, <4>1, <4>2
    <3>2. CASE ~(s = side /\ q = p)
      <4>1. q \in DOMAIN u.levels[s] /\ u.levels[s][q] = b.levels[s][q]
        BY <1>2, <1>3, <3>2 DEF Changed
      <4> QED BY <4>1
    <3> QED BY <3>1, <3>2
  <2>6. i \in 1..i /\ \A j \in 1..(i - 1) : j \in 1..i
    BY <2>4
  <2>7. View(b, x) = Record(b, s, q, i)
    BY <2>3, ViewLemma
  <2>8. View(u, x) = Record(u, s, q, i)
    BY <2>3, <2>5, <2>6, ViewLemma
  <2>9. {u.levels[s][q][j].id : j \in 1..(i - 1)} = {b.levels[s][q][j].id : j \in 1..(i - 1)}
    BY <2>5, <2>6
  <2> QED BY <2>5, <2>6, <2>7, <2>8, <2>9 DEF Record
<1>6. View(u, o.id) = Record(u, side, p, Len(queue) + 1)
  <2>1. Len(queue) + 1 \in DOMAIN u.levels[side][p]
        /\ u.levels[side][p][Len(queue) + 1] = o
    BY <1>2, <1>4
  <2> HIDE DEF queue
  <2> QED BY <1>4, <2>1, ViewLemma
<1> DEFINE before == {u.levels[side][p][j].id : j \in 1..((Len(queue) + 1) - 1)}
           peers  == {r.id : r \in {v \in Views(b) : v.side = side /\ v.price = p}}
<1>7. before = {queue[j].id : j \in 1..Len(queue)}
  <2> HIDE DEF queue
  <2> QED BY <1>2, <1>4
<1>8. ASSUME NEW j \in 1..Len(queue) PROVE queue[j].id \in peers
  <2>1. p \in DOMAIN b.levels[side] /\ queue = b.levels[side][p]
    <3>1. CASE p \notin DOMAIN b.levels[side]
      <4>1. queue = <<>>
        BY <3>1 DEF QueueAt
      <4>2. Len(queue) = 0
        BY <4>1
      <4> HIDE DEF queue
      <4> QED BY <4>2
    <3> QED BY <3>1 DEF QueueAt
  <2> HIDE DEF queue
  <2>2. j \in DOMAIN b.levels[side][p]
    BY <1>2, <2>1
  <2> DEFINE r == View(b, queue[j].id)
  <2>3. r = Record(b, side, p, j) /\ queue[j].id \in DOMAIN b.order_index
    BY <2>1, <2>2, ViewLemma
  <2>4. r \in Views(b) /\ r.side = side /\ r.price = p /\ r.id = queue[j].id
    BY <2>1, <2>3 DEF Views, Record
  <2> HIDE DEF r
  <2> QED BY <2>4
<1>9. ASSUME NEW x \in peers PROVE \E j \in 1..Len(queue) : queue[j].id = x
  <2>1. PICK y \in DOMAIN b.order_index :
          View(b, y).side = side /\ View(b, y).price = p /\ View(b, y).id = x
    BY DEF Views
  <2>2. y = x /\ b.order_index[x].side = side /\ b.order_index[x].price = p
    BY <2>1, ViewFields
  <2>3. p \in DOMAIN b.levels[side] /\ \E j \in DOMAIN b.levels[side][p] : b.levels[side][p][j].id = x
    <3> DEFINE loc == b.order_index[x]
    <3>1. x \in DOMAIN b.order_index
      BY <2>1, <2>2
    <3>2. /\ loc.price \in DOMAIN b.levels[loc.side]
          /\ \E j \in DOMAIN b.levels[loc.side][loc.price] : b.levels[loc.side][loc.price][j].id = x
      BY <3>1 DEF Linked
    <3>3. loc.side = side /\ loc.price = p
      BY <2>2
    <3> HIDE DEF loc
    <3> QED BY <3>2, <3>3
  <2>4. queue = b.levels[side][p]
    BY <2>3 DEF QueueAt
  <2> HIDE DEF queue
  <2> QED BY <1>2, <2>3, <2>4
<1>10. before = peers
  <2> HIDE DEF before, peers, queue
  <2> QED BY <1>7, <1>8, <1>9
<1>11. Record(u, side, p, Len(queue) + 1) =
         [id |-> o.id, side |-> side, price |-> p, qty |-> OpenQty(o), ahead |-> before]
  <2> HIDE DEF queue
  <2> QED BY <1>2, <1>4 DEF Record
<1> HIDE DEF before, peers, queue
<1> QED BY <1>5, <1>6, <1>10, <1>11 DEF peers

\* A fill changes the quantity of one record.
LEMMA FillsViews ==
  ASSUME NEW b, IsBook(b), Linked(b), NEW u, IsBook(u), Linked(u),
         NEW side \in Side, NEW p, NEW o, Fills(u, b, side, p, o),
         NEW x \in DOMAIN b.order_index
  PROVE  View(u, x) = IF x = o.id THEN [View(b, x) EXCEPT !.qty = OpenQty(o)] ELSE View(b, x)
<1> DEFINE queue == b.levels[side][p]
           same  == <<o>> \o Tail(queue)
<1>1. /\ p \in DOMAIN b.levels[side] /\ o \in L3Order
      /\ o.id = queue[1].id /\ Changed(u, b, side, p, same)
  BY DEF Fills
<1>2. /\ queue \in Seq(L3Order) /\ queue # <<>>
      /\ Len(queue) \in Nat \ {0} /\ DOMAIN queue = 1..Len(queue)
      /\ 1 \in DOMAIN queue
  BY <1>1, QueueLemma
<1>4. /\ same # <<>>
      /\ DOMAIN same = DOMAIN queue
      /\ \A i \in DOMAIN queue : same[i] = IF i = 1 THEN o ELSE queue[i]
  <2> HIDE DEF queue
  <2>1. /\ Tail(queue) \in Seq(L3Order) /\ Len(Tail(queue)) = Len(queue) - 1
        /\ \A i \in 1..Len(Tail(queue)) : Tail(queue)[i] = queue[i + 1]
    BY <1>2, HeadTailProperties
  <2>2. <<o>> \in Seq(L3Order) /\ Len(<<o>>) = 1 /\ <<o>>[1] = o
    BY <1>1
  <2>3. /\ same \in Seq(L3Order) /\ Len(same) = Len(queue)
        /\ \A i \in 1..Len(queue) : same[i] = IF i = 1 THEN o ELSE queue[i]
    BY <1>2, <2>1, <2>2, ConcatProperties
  <2> HIDE DEF same
  <2> QED BY <1>2, <2>3
<1> HIDE DEF same
<1>5. p \in DOMAIN u.levels[side] /\ u.levels[side][p] = same
  BY <1>1, <1>4 DEF Changed
<1>6. PICK s \in Side : \E q \in DOMAIN b.levels[s] : \E i \in DOMAIN b.levels[s][q] :
        b.levels[s][q][i].id = x
  BY FoundLemma
<1>7. PICK q \in DOMAIN b.levels[s] : \E i \in DOMAIN b.levels[s][q] : b.levels[s][q][i].id = x
  BY <1>6
<1>8. PICK i \in DOMAIN b.levels[s][q] : b.levels[s][q][i].id = x
  BY <1>7
<1> DEFINE old == b.levels[s][q]
           new == u.levels[s][q]
<1>9. old \in Seq(L3Order) /\ DOMAIN old = 1..Len(old) /\ Len(old) \in Nat
  BY QueueLemma
<1>10. /\ q \in DOMAIN u.levels[s]
       /\ DOMAIN new = DOMAIN old
       /\ \A j \in DOMAIN old : new[j] = IF s = side /\ q = p /\ j = 1 THEN o ELSE old[j]
  <2>1. CASE s = side /\ q = p
    BY <1>4, <1>5, <2>1
  <2>2. CASE ~(s = side /\ q = p)
    BY <1>1, <1>4, <2>2 DEF Changed
  <2> QED BY <2>1, <2>2
<1>11. x = o.id <=> s = side /\ q = p /\ i = 1
  <2>1. x = o.id => s = side /\ q = p /\ i = 1
    <3> SUFFICES ASSUME x = o.id PROVE s = side /\ q = p /\ i = 1
      OBVIOUS
    <3>0. /\ b.order_index[old[i].id] = [side |-> s, price |-> q]
          /\ \A j \in DOMAIN old : old[j].id = old[i].id => j = i
      BY LinkedLemma
    <3>1. b.order_index[x] = [side |-> s, price |-> q]
          /\ \A j \in DOMAIN old : old[j].id = x => j = i
      BY <1>8, <3>0
    <3>2. b.order_index[queue[1].id] = [side |-> side, price |-> p]
      <4>1. p \in DOMAIN b.levels[side] /\ 1 \in DOMAIN b.levels[side][p]
        BY <1>1, <1>2
      <4> QED BY <4>1, LinkedLemma
    <3>3. s = side /\ q = p
      <4>1. [side |-> s, price |-> q] = [side |-> side, price |-> p]
        BY <1>1, <3>1, <3>2
      <4> QED BY <4>1
    <3> QED BY <1>1, <1>2, <3>1, <3>3
  <2>2. s = side /\ q = p /\ i = 1 => x = o.id
    BY <1>1, <1>8
  <2> QED BY <2>1, <2>2
<1>12. \A j \in DOMAIN old : new[j].id = old[j].id
  BY <1>1, <1>10
<1>13. View(b, x) = Record(b, s, q, i) /\ View(u, x) = Record(u, s, q, i)
  <2>1. new[i].id = x
    BY <1>8, <1>12
  <2> QED BY <1>8, <1>10, <2>1, ViewLemma
<1>14. Record(u, s, q, i) = [Record(b, s, q, i) EXCEPT !.qty = OpenQty(new[i])]
  <2> DEFINE before == {old[j].id : j \in 1..(i - 1)}
  <2>1. i \in 1..Len(old) /\ \A j \in 1..(i - 1) : j \in DOMAIN old
    BY <1>9
  <2>2. {new[j].id : j \in 1..(i - 1)} = before
    <3> HIDE DEF new, old
    <3> QED BY <1>12, <2>1
  <2>3. Record(u, s, q, i) = [id |-> new[i].id, side |-> s, price |-> q,
                              qty |-> OpenQty(new[i]), ahead |-> before]
    BY <2>2 DEF Record
  <2>4. Record(b, s, q, i) = [id |-> old[i].id, side |-> s, price |-> q,
                              qty |-> OpenQty(old[i]), ahead |-> before]
    BY DEF Record
  <2>5. new[i].id = old[i].id
    BY <1>12
  <2> HIDE DEF before, new, old
  <2> QED BY <2>3, <2>4, <2>5
<1>15. CASE x = o.id
  <2>1. new[i] = o
    BY <1>10, <1>11, <1>15
  <2> QED BY <1>13, <1>14, <1>15, <2>1
<1>16. CASE x # o.id
  <2>1. new[i] = old[i]
    BY <1>10, <1>11, <1>16
  <2>2. Record(b, s, q, i).qty = OpenQty(old[i])
    BY DEF Record
  <2>3. Record(b, s, q, i) = [Record(b, s, q, i) EXCEPT !.qty = OpenQty(old[i])]
    BY <2>2 DEF Record
  <2> HIDE DEF new, old
  <2> QED BY <1>13, <1>14, <1>16, <2>1, <2>3
<1> QED BY <1>15, <1>16

\* All of that for the sets of records.
LEMMA LosesSet ==
  ASSUME NEW b, IsBook(b), Linked(b), NEW u, IsBook(u), Linked(u),
         NEW side \in Side, NEW p, NEW k, NEW rest, Loses(u, b, side, p, k, rest),
         NEW gone, gone = b.levels[side][p][k].id
  PROVE  /\ gone \in DOMAIN b.order_index
         /\ Views(u) = {[r EXCEPT !.ahead = @ \ {gone}] : r \in Views(b) \ {View(b, gone)}}
<1>1. /\ p \in DOMAIN b.levels[side] /\ k \in DOMAIN b.levels[side][p]
      /\ DOMAIN u.order_index = DOMAIN b.order_index \ {gone}
  BY DEF Loses
<1>2. gone \in DOMAIN b.order_index
  BY <1>1, LinkedLemma
<1>3. \A x \in DOMAIN u.order_index : View(u, x) = [View(b, x) EXCEPT !.ahead = @ \ {gone}]
  BY LosesViews
<1>4. \A x \in DOMAIN b.order_index : View(b, x) = View(b, gone) => x = gone
  BY <1>2, ViewFields
<1>5. Views(b) \ {View(b, gone)} = {View(b, x) : x \in DOMAIN u.order_index}
  BY <1>1, <1>4 DEF Views
<1> DEFINE Left(r) == [r EXCEPT !.ahead = @ \ {gone}]
<1>6. \A x \in DOMAIN u.order_index : View(u, x) = Left(View(b, x))
  BY <1>3
<1> HIDE DEF Left
<1>7. Views(u) = {Left(r) : r \in Views(b) \ {View(b, gone)}}
  <2>1. Views(u) = {Left(View(b, x)) : x \in DOMAIN u.order_index}
    BY <1>6 DEF Views
  <2> QED BY <1>5, <2>1
<1> QED BY <1>2, <1>7 DEF Left

\* The set of records gains the new order's.
LEMMA GainsSet ==
  ASSUME NEW b, IsBook(b), Linked(b), NEW u, IsBook(u), Linked(u),
         NEW side \in Side, NEW p, NEW o, Gains(u, b, side, p, o)
  PROVE  Views(u) = Views(b) \cup
           {[id |-> o.id, side |-> side, price |-> p, qty |-> OpenQty(o),
             ahead |-> {r.id : r \in {v \in Views(b) : v.side = side /\ v.price = p}}]}
<1>1. DOMAIN u.order_index = DOMAIN b.order_index \cup {o.id}
  BY DEF Gains
<1>2. /\ \A x \in DOMAIN b.order_index : View(u, x) = View(b, x)
      /\ View(u, o.id) =
           [id |-> o.id, side |-> side, price |-> p, qty |-> OpenQty(o),
            ahead |-> {r.id : r \in {v \in Views(b) : v.side = side /\ v.price = p}}]
  BY GainsViews
<1>3. Views(u) = Views(b) \cup {View(u, o.id)}
  BY <1>1, <1>2 DEF Views
<1> QED BY <1>2, <1>3

\* One record of the set changes.
LEMMA FillsSet ==
  ASSUME NEW b, IsBook(b), Linked(b), NEW u, IsBook(u), Linked(u),
         NEW side \in Side, NEW p, NEW o, Fills(u, b, side, p, o)
  PROVE  /\ o.id \in DOMAIN b.order_index
         /\ Views(u) = (Views(b) \ {View(b, o.id)})
                         \cup {[View(b, o.id) EXCEPT !.qty = OpenQty(o)]}
<1>1. /\ p \in DOMAIN b.levels[side] /\ o.id = b.levels[side][p][1].id
      /\ DOMAIN u.order_index = DOMAIN b.order_index
  BY DEF Fills
<1>2. 1 \in DOMAIN b.levels[side][p]
  BY <1>1, QueueLemma
<1>3. o.id \in DOMAIN b.order_index
  BY <1>1, <1>2, LinkedLemma
<1>4. \A x \in DOMAIN b.order_index :
        View(u, x) = IF x = o.id THEN [View(b, x) EXCEPT !.qty = OpenQty(o)] ELSE View(b, x)
  BY FillsViews
<1>5. \A x \in DOMAIN b.order_index : View(b, x) = View(b, o.id) => x = o.id
  BY <1>3, ViewFields
<1>6. Views(b) \ {View(b, o.id)} = {View(b, x) : x \in DOMAIN b.order_index \ {o.id}}
  BY <1>5 DEF Views
<1>7. Views(u) = {View(b, x) : x \in DOMAIN b.order_index \ {o.id}}
                   \cup {[View(b, o.id) EXCEPT !.qty = OpenQty(o)]}
  BY <1>1, <1>3, <1>4 DEF Views
<1> QED BY <1>3, <1>6, <1>7

----------------------------------------------------------------------------
(* What an order can get from the other side. *)

\* The open quantity of each resting order.
Open(b) == [x \in DOMAIN b.order_index |-> View(b, x).qty]

\* The orders that rest on a side at one of these prices.
At(b, side, prices) ==
  {x \in DOMAIN b.order_index : View(b, x).side = side /\ View(b, x).price \in prices}

\* The prices of the other side that an order may trade at.
Crossed(b, order) ==
  {p \in DOMAIN b.levels[Opposite(order.side)] : Crosses(order, p)}

Reach(b, order) == At(b, Opposite(order.side), Crossed(b, order))

Available(b, order) == SumOver(Open(b), Reach(b, order))

\* The open quantities of a queue, by position.
Opens(queue) == [i \in DOMAIN queue |-> OpenQty(queue[i])]

\* TotalQty adds up the open quantities of the queue.
LEMMA TotalQtyLemma ==
  ASSUME NEW queue \in Seq(L3Order)
  PROVE  /\ IsFiniteSet(DOMAIN queue)
         /\ \A x \in DOMAIN queue : Opens(queue)[x] \in Nat
         /\ TotalQty(queue) = SumOver(Opens(queue), DOMAIN queue)
<1> DEFINE D  == DOMAIN queue
           f  == Opens(queue)
           OfTheFold(it) ==
             it = [s \in SUBSET D |->
                     IF s = {} THEN 0 ELSE it[s \ {Max(s)}] + OpenQty(queue[Max(s)])]
<1>1. TotalQty(queue) = (CHOOSE it : OfTheFold(it))[D]
  BY DEF TotalQty, FoldLeft, MapThenFoldSet
<1>2. D = 1..Len(queue) /\ Len(queue) \in Nat /\ IsFiniteSet(D)
  BY FS_Interval
<1>3. \A x \in D : f[x] = OpenQty(queue[x]) /\ f[x] \in Nat
  <2>1. \A x \in D : queue[x] \in L3Order
    OBVIOUS
  <2>2. \A x \in D : f[x] = OpenQty(queue[x])
    BY DEF Opens
  <2> QED BY <2>1, <2>2 DEF L3Order, OpenQty
<1> HIDE DEF D, f
<1>4. \A s \in SUBSET D : s # {} => Max(s) \in s
  BY <1>2, LastPosition
<1>5. \A it : OfTheFold(it) <=> BackSumsOn(it, f, Len(queue))
  BY <1>2, <1>3, <1>4 DEF BackSumsOn
<1>6. /\ \E it : BackSumsOn(it, f, Len(queue))
      /\ \A it : BackSumsOn(it, f, Len(queue)) => it[D] = SumOver(f, D)
  BY <1>2, <1>3, BackSumsLemma
<1> HIDE DEF OfTheFold
<1>7. OfTheFold(CHOOSE it : OfTheFold(it))
  BY <1>5, <1>6
<1> QED BY <1>1, <1>2, <1>3, <1>5, <1>6, <1>7 DEF D, f

\* The open quantity of a level is that of the orders that rest there.
LEMMA LevelLemma ==
  ASSUME NEW b, IsBook(b), Linked(b), NEW side \in Side, NEW p \in DOMAIN b.levels[side]
  PROVE  /\ IsFiniteSet(At(b, side, {p}))
         /\ TotalQty(b.levels[side][p]) = SumOver(Open(b), At(b, side, {p}))
<1> DEFINE queue == b.levels[side][p]
           f     == Opens(queue)
           h     == [i \in DOMAIN queue |-> queue[i].id]
           g     == Open(b)
<1>1. queue \in Seq(L3Order)
  BY QueueLemma
<1>2. \A i, j \in DOMAIN queue : queue[i].id = queue[j].id => i = j
  BY DistinctLemma
<1>3. ASSUME NEW i \in DOMAIN queue
      PROVE  /\ h[i] \in DOMAIN b.order_index /\ h[i] = queue[i].id
             /\ View(b, h[i]).side = side /\ View(b, h[i]).price = p
             /\ g[h[i]] = f[i]
  <2>1. View(b, queue[i].id) = Record(b, side, p, i) /\ queue[i].id \in DOMAIN b.order_index
    BY ViewLemma
  <2>2. h[i] = queue[i].id
    OBVIOUS
  <2>3. /\ Record(b, side, p, i).side = side /\ Record(b, side, p, i).price = p
        /\ Record(b, side, p, i).qty = OpenQty(queue[i])
    BY DEF Record
  <2> HIDE DEF h
  <2>4. f[i] = OpenQty(queue[i]) /\ g[queue[i].id] = View(b, queue[i].id).qty
    BY <2>1 DEF Open, Opens
  <2> QED BY <2>1, <2>2, <2>3, <2>4
<1>4. Image(h, DOMAIN queue) = At(b, side, {p})
  <2>1. ASSUME NEW x \in At(b, side, {p}) PROVE \E i \in DOMAIN queue : x = h[i]
    <3>1. /\ x \in DOMAIN b.order_index
          /\ View(b, x).side = side /\ View(b, x).price = p
      BY DEF At
    <3> DEFINE loc == b.order_index[x]
    <3>2. \E j \in DOMAIN b.levels[loc.side][loc.price] : b.levels[loc.side][loc.price][j].id = x
      BY <3>1 DEF Linked
    <3>3. loc.side = side /\ loc.price = p
      BY <3>1, ViewFields
    <3> HIDE DEF loc
    <3> QED BY <3>2, <3>3
  <2> HIDE DEF h, queue
  <2> QED BY <1>3, <2>1 DEF Image, At
<1>5. /\ IsFiniteSet(DOMAIN queue) /\ \A i \in DOMAIN queue : f[i] \in Int
      /\ TotalQty(queue) = SumOver(f, DOMAIN queue)
  <2> HIDE DEF queue
  <2> QED BY <1>1, TotalQtyLemma
<1>6. Renames(h, DOMAIN queue) /\ \A i \in DOMAIN queue : g[h[i]] = f[i]
  BY <1>2, <1>3 DEF Renames
<1> HIDE DEF queue, f, g, h
<1>7. IsFiniteSet(Image(h, DOMAIN queue)) /\ SumOver(g, Image(h, DOMAIN queue)) = SumOver(f, DOMAIN queue)
  BY <1>5, <1>6, SumImage
<1> QED BY <1>4, <1>5, <1>7 DEF queue, g

\* The open quantity of each level of a side.
Totals(levels) == [p \in DOMAIN levels |-> TotalQty(levels[p])]

\* The open quantity of some levels is that of the orders that rest there.
LEMMA LevelsLemma ==
  ASSUME NEW b, IsBook(b), Linked(b), NEW side \in Side,
         NEW prices, prices \subseteq DOMAIN b.levels[side], IsFiniteSet(prices)
  PROVE  /\ IsFiniteSet(At(b, side, prices))
         /\ SumOver(Totals(b.levels[side]), prices) = SumOver(Open(b), At(b, side, prices))
<1> DEFINE f == Totals(b.levels[side])
           g == Open(b)
           T == {s \in SUBSET prices : /\ IsFiniteSet(At(b, side, s))
                                       /\ SumOver(f, s) = SumOver(g, At(b, side, s))}
<1>1. \A x \in DOMAIN b.order_index : g[x] \in Int
  BY ViewFields DEF Open
<1>2. ASSUME NEW p \in prices
      PROVE  IsFiniteSet(At(b, side, {p})) /\ f[p] = SumOver(g, At(b, side, {p}))
  BY LevelLemma DEF Totals
<1> HIDE DEF f, g
<1>3. \A p \in prices : f[p] \in Int
  <2>1. \A p \in prices : \A x \in At(b, side, {p}) : g[x] \in Int
    BY <1>1 DEF At
  <2> QED BY <1>2, <2>1, SumType
<1>4. ASSUME NEW s \in SUBSET prices, \A p \in s : s \ {p} \in T
      PROVE  s \in T
  <2>1. IsFiniteSet(s) /\ \A p \in s : f[p] \in Int
    BY <1>3, FS_Subset
  <2>2. CASE s = {}
    <3>1. At(b, side, s) = {} /\ IsFiniteSet({})
      BY <2>2, FS_EmptySet DEF At
    <3> QED BY <2>1, <2>2, <3>1, SumUnfold
  <2>3. CASE s # {}
    <3>1. PICK p \in s : TRUE
      BY <2>3
    <3> DEFINE S == At(b, side, s \ {p})
               R == At(b, side, {p})
    <3>2. IsFiniteSet(S) /\ SumOver(f, s \ {p}) = SumOver(g, S)
      BY <1>4
    <3>3. IsFiniteSet(R) /\ f[p] = SumOver(g, R) /\ f[p] \in Int
      BY <1>2, <1>3
    <3>4. S \cup R = At(b, side, s) /\ S \cap R = {}
      BY DEF At
    <3>5. \A x \in S \cup R : g[x] \in Int
      BY <1>1 DEF At
    <3> HIDE DEF S, R
    <3>6. SumOver(g, S \cup R) = SumOver(g, S) + SumOver(g, R) /\ SumOver(g, S) \in Int
      BY <3>2, <3>3, <3>4, <3>5, SumUnion, SumType
    <3>7. SumOver(f, s) = f[p] + SumOver(f, s \ {p})
      BY <2>1, SumRemove
    <3>8. IsFiniteSet(S \cup R)
      BY <3>2, <3>3, FS_Union
    <3>9. SumOver(f, s) = SumOver(g, S \cup R)
      BY <3>2, <3>3, <3>6, <3>7
    <3> QED BY <3>4, <3>8, <3>9
  <2> QED BY <2>2, <2>3
<1> HIDE DEF T
<1>5. SUBSET prices \subseteq T
  BY <1>4, SubsetLemma
<1> QED BY <1>5 DEF T, f, g

\* Reach, said of the records alone.
LEMMA ReachLemma ==
  ASSUME NEW b, IsBook(b), Linked(b), NEW order, order.side \in Side
  PROVE  Reach(b, order) =
           {x \in DOMAIN b.order_index : /\ View(b, x).side = Opposite(order.side)
                                         /\ Crosses(order, View(b, x).price)}
<1>1. \A x \in DOMAIN b.order_index : View(b, x).price \in DOMAIN b.levels[View(b, x).side]
  BY ViewFields
<1> QED BY <1>1 DEF Reach, At, Crossed

\* The sum of the fill-or-kill check.
CrossedTotal(b, order) ==
  LET levels  == b.levels[Opposite(order.side)]
      crossed == {p \in DOMAIN levels : Crosses(order, p)}
  IN  MapThenSumSet(LAMBDA p : TotalQty(levels[p]), crossed)

\* The two ways of writing the open quantity of some levels agree.
LEMMA CrossedTotalLemma ==
  ASSUME NEW b, NEW order, IsFiniteSet(Crossed(b, order))
  PROVE  CrossedTotal(b, order) = SumOver(Totals(b.levels[Opposite(order.side)]), Crossed(b, order))
<1> DEFINE levels == b.levels[Opposite(order.side)]
           D  == Crossed(b, order)
           f  == Totals(levels)
           ch == AnyChoice(D)
           OfTheSum(it) ==
             it = [s \in SUBSET D |->
                     IF s = {} THEN 0 ELSE TotalQty(levels[Chosen(s)]) + it[s \ {Chosen(s)}]]
<1>1. CrossedTotal(b, order) = (CHOOSE it : OfTheSum(it))[D]
  BY DEF CrossedTotal, Crossed, MapThenSumSet, MapThenFoldSet, Chosen
<1>2. \A s \in SUBSET D : s # {} =>
        ch[s] = Chosen(s) /\ Chosen(s) \in s /\ f[ch[s]] = TotalQty(levels[Chosen(s)])
  BY DEF AnyChoice, Chosen, Totals, Crossed
<1>3. Choice(ch, D) /\ SameChoice(ch, ch, D) /\ IsFiniteSet(D)
  BY <1>2 DEF Choice, SameChoice
<1> HIDE DEF f, D, levels
<1>4. PICK jt : SumsOn(jt, f, ch, SUBSET D) /\ SumOver(f, D) = jt[D]
  BY <1>3, SumIsFold
<1> HIDE DEF ch
<1>5. \A it : OfTheSum(it) <=> SumsOn(it, f, ch, SUBSET D)
  BY <1>2 DEF SumsOn
<1> HIDE DEF OfTheSum
<1>6. PICK it : SumsOn(it, f, ch, SUBSET D) /\ CrossedTotal(b, order) = it[D]
  <2>1. OfTheSum(CHOOSE it : OfTheSum(it))
    BY <1>4, <1>5
  <2> QED BY <1>1, <1>5, <2>1
<1>7. \A s \in SUBSET D : it[s] = jt[s]
  BY <1>3, <1>4, <1>6, SumsUnique
<1> QED BY <1>4, <1>6, <1>7 DEF f, D, levels

\* The check compares what the order can get with what it needs.
LEMMA CanFillLemma ==
  ASSUME NEW b, IsBook(b), Linked(b), Counted(b), NEW order \in Order
  PROVE  /\ IsFiniteSet(Reach(b, order))
         /\ Available(b, order) \in Int
         /\ CanFill(b, order) <=> Available(b, order) >= order.quantity
<1> DEFINE side   == Opposite(order.side)
           prices == Crossed(b, order)
<1>1. side \in Side
  BY DEF Opposite, Side
<1>2. prices \subseteq DOMAIN b.levels[side] /\ IsFiniteSet(prices)
  <2>1. prices \subseteq DOMAIN b.levels[side]
    BY DEF Crossed
  <2>2. IsFiniteSet(DOMAIN b.levels[side])
    BY <1>1 DEF Counted
  <2> HIDE DEF prices, side
  <2> QED BY <2>1, <2>2, FS_Subset
<1>3. CanFill(b, order) <=> CrossedTotal(b, order) >= order.quantity
  BY DEF CanFill, CrossedTotal
<1>4. CrossedTotal(b, order) = SumOver(Totals(b.levels[side]), prices)
  BY <1>2, CrossedTotalLemma
<1> HIDE DEF side, prices
<1>5. /\ IsFiniteSet(At(b, side, prices))
      /\ SumOver(Totals(b.levels[side]), prices) = SumOver(Open(b), At(b, side, prices))
  BY <1>1, <1>2, LevelsLemma
<1>6. At(b, side, prices) = Reach(b, order)
  BY DEF Reach, side, prices
<1>7. \A x \in Reach(b, order) : Open(b)[x] \in Int
  <2>1. Reach(b, order) \subseteq DOMAIN b.order_index
    BY DEF Reach, At
  <2> QED BY <2>1, ViewFields DEF Open
<1>8. SumOver(Open(b), Reach(b, order)) \in Int
  BY <1>5, <1>6, <1>7, SumType
<1> QED BY <1>3, <1>4, <1>5, <1>6, <1>8 DEF Available

\* The sum of the abstract fill-or-kill check.
QtySum(S) == MapThenSumSet(LAMBDA r : r.qty, S)

Qtys(S) == [r \in S |-> r.qty]

\* The two ways of writing the quantity of some records agree.
LEMMA QtySumLemma ==
  ASSUME NEW S, IsFiniteSet(S)
  PROVE  QtySum(S) = SumOver(Qtys(S), S)
<1> DEFINE f  == Qtys(S)
           ch == AnyChoice(S)
           OfTheSum(it) ==
             it = [s \in SUBSET S |->
                     IF s = {} THEN 0 ELSE Chosen(s).qty + it[s \ {Chosen(s)}]]
<1>1. QtySum(S) = (CHOOSE it : OfTheSum(it))[S]
  BY DEF QtySum, MapThenSumSet, MapThenFoldSet, Chosen
<1>2. \A s \in SUBSET S : s # {} =>
        ch[s] = Chosen(s) /\ Chosen(s) \in s /\ f[ch[s]] = Chosen(s).qty
  BY DEF AnyChoice, Chosen, Qtys
<1>3. Choice(ch, S) /\ SameChoice(ch, ch, S)
  BY <1>2 DEF Choice, SameChoice
<1> HIDE DEF f
<1>4. PICK jt : SumsOn(jt, f, ch, SUBSET S) /\ SumOver(f, S) = jt[S]
  BY <1>3, SumIsFold
<1> HIDE DEF ch
<1>5. \A it : OfTheSum(it) <=> SumsOn(it, f, ch, SUBSET S)
  BY <1>2 DEF SumsOn
<1> HIDE DEF OfTheSum
<1>6. PICK it : SumsOn(it, f, ch, SUBSET S) /\ QtySum(S) = it[S]
  <2>1. OfTheSum(CHOOSE it : OfTheSum(it))
    BY <1>4, <1>5
  <2> QED BY <1>1, <1>5, <2>1
<1>7. \A s \in SUBSET S : it[s] = jt[s]
  BY <1>3, <1>4, <1>6, SumsUnique
<1> QED BY <1>4, <1>6, <1>7 DEF f

\* The records an order may trade with, and what they add up to.
LEMMA ReachRecords ==
  ASSUME NEW b, IsBook(b), Linked(b), Counted(b), NEW order \in Order
  PROVE  QtySum({View(b, x) : x \in Reach(b, order)}) = Available(b, order)
<1> DEFINE S == Reach(b, order)
           h == [x \in S |-> View(b, x)]
           R == {View(b, x) : x \in S}
           f == Open(b)
           g == Qtys(R)
<1>1. S \subseteq DOMAIN b.order_index /\ IsFiniteSet(S)
  BY CanFillLemma DEF Reach, At
<1> HIDE DEF S
<1>2. ASSUME NEW x \in S
      PROVE  h[x] = View(b, x) /\ h[x] \in R /\ g[h[x]] = f[x] /\ f[x] \in Int
  BY <1>1, ViewFields DEF Open, Qtys
<1>3. Renames(h, S)
  BY <1>1, ViewFields DEF Renames
<1>4. Image(h, S) = R
  BY DEF Image
<1> HIDE DEF h, g, f, R
<1>5. IsFiniteSet(Image(h, S)) /\ SumOver(g, Image(h, S)) = SumOver(f, S)
  BY <1>1, <1>2, <1>3, SumImage
<1>6. QtySum(R) = SumOver(g, R)
  BY <1>4, <1>5, QtySumLemma DEF g
<1> QED BY <1>4, <1>5, <1>6 DEF Available, R, S, f

\* An order within reach that leaves takes its open quantity along.
LEMMA LosesAvailable ==
  ASSUME NEW b, IsBook(b), Linked(b), Counted(b), NEW u, IsBook(u), Linked(u),
         NEW order \in Order, NEW p, NEW k, NEW rest, NEW x,
         Loses(u, b, Opposite(order.side), p, k, rest),
         x = b.levels[Opposite(order.side)][p][k].id, Crosses(order, p)
  PROVE  Available(u, order) = Available(b, order) - View(b, x).qty
<1> DEFINE side == Opposite(order.side)
           S == Reach(b, order)
           f == Open(b)
           g == Open(u)
<1>1. side \in Side /\ order.side \in Side
  BY DEF Opposite, Side, Order
<1>2. /\ p \in DOMAIN b.levels[side] /\ k \in DOMAIN b.levels[side][p]
      /\ DOMAIN u.order_index = DOMAIN b.order_index \ {x}
  BY DEF Loses
<1>3. View(b, x) = Record(b, side, p, k) /\ x \in DOMAIN b.order_index
  BY <1>1, <1>2, ViewLemma
<1>4. x \in S
  <2>1. View(b, x).side = side /\ View(b, x).price = p
    BY <1>3, SMTT(30) DEF Record
  <2> QED BY <1>1, <1>3, <2>1, ReachLemma
<1>5. ASSUME NEW y \in DOMAIN u.order_index
      PROVE  /\ View(u, y).side = View(b, y).side
             /\ View(u, y).price = View(b, y).price
             /\ View(u, y).qty = View(b, y).qty
  <2>1. View(u, y) = [View(b, y) EXCEPT !.ahead = @ \ {x}]
    BY <1>1, LosesViews
  <2>2. y \in DOMAIN b.order_index
    BY <1>2
  <2>3. View(b, y) = [id |-> y, side |-> View(b, y).side, price |-> View(b, y).price,
                      qty |-> View(b, y).qty, ahead |-> View(b, y).ahead]
    BY <2>2, ViewFields
  <2> QED BY <2>1, <2>3
<1>6. Reach(u, order) = S \ {x}
  BY <1>1, <1>2, <1>5, ReachLemma
<1>7. IsFiniteSet(S) /\ S \subseteq DOMAIN b.order_index
  BY CanFillLemma DEF Reach, At
<1>8. \A y \in S : f[y] = View(b, y).qty /\ f[y] \in Int
  BY <1>7, ViewFields DEF Open
<1>9. \A y \in S \ {x} : g[y] = f[y]
  BY <1>2, <1>5, <1>7, <1>8 DEF Open
<1>10. Available(b, order) = SumOver(f, S) /\ Available(u, order) = SumOver(g, S \ {x})
  BY <1>6 DEF Available
<1> HIDE DEF S, f, g
<1>11. SumOver(f, S) = f[x] + SumOver(f, S \ {x})
  BY <1>4, <1>7, <1>8, SumRemove
<1>12. /\ IsFiniteSet(S \ {x})
       /\ \A y \in S \ {x} : f[y] \in Int
  BY <1>7, <1>8, FS_RemoveElement
<1>13. SumOver(g, S \ {x}) = SumOver(f, S \ {x}) /\ SumOver(f, S \ {x}) \in Int
  BY <1>9, <1>12, SumSame, SumType
<1>14. f[x] = View(b, x).qty /\ f[x] \in Int
  BY <1>4, <1>8
<1> DEFINE qty  == View(b, x).qty
           kept == SumOver(f, S \ {x})
<1>15. /\ Available(b, order) = qty + kept /\ Available(u, order) = kept
       /\ qty \in Int /\ kept \in Int
  BY <1>10, <1>11, <1>13, <1>14
<1> HIDE DEF qty, kept
<1> QED BY <1>15 DEF qty

\* A fill within reach takes what it takes.
LEMMA FillsAvailable ==
  ASSUME NEW b, IsBook(b), Linked(b), Counted(b), NEW u, IsBook(u), Linked(u),
         NEW order \in Order, NEW p, NEW o,
         Fills(u, b, Opposite(order.side), p, o), Crosses(order, p)
  PROVE  Available(u, order) = Available(b, order) - (View(b, o.id).qty - OpenQty(o))
<1> DEFINE side == Opposite(order.side)
           x == o.id
           S == Reach(b, order)
           f == Open(b)
           g == Open(u)
<1>1. side \in Side /\ order.side \in Side
  BY DEF Opposite, Side, Order
<1>2. /\ p \in DOMAIN b.levels[side] /\ x = b.levels[side][p][1].id
      /\ DOMAIN u.order_index = DOMAIN b.order_index /\ o \in L3Order
  BY DEF Fills
<1>3. View(b, x) = Record(b, side, p, 1) /\ x \in DOMAIN b.order_index
  <2>1. 1 \in DOMAIN b.levels[side][p]
    BY <1>1, <1>2, QueueLemma
  <2> QED BY <1>1, <1>2, <2>1, ViewLemma
<1>4. x \in S
  <2>1. View(b, x).side = side /\ View(b, x).price = p
    BY <1>3 DEF Record
  <2> QED BY <1>1, <1>3, <2>1, ReachLemma
<1>5. ASSUME NEW y \in DOMAIN u.order_index
      PROVE  /\ View(u, y).side = View(b, y).side
             /\ View(u, y).price = View(b, y).price
             /\ View(u, y).qty = IF y = x THEN OpenQty(o) ELSE View(b, y).qty
  <2>1. View(u, y) = IF y = x THEN [View(b, y) EXCEPT !.qty = OpenQty(o)] ELSE View(b, y)
    BY <1>1, <1>2, FillsViews
  <2>2. View(b, y) = [id |-> y, side |-> View(b, y).side, price |-> View(b, y).price,
                      qty |-> View(b, y).qty, ahead |-> View(b, y).ahead]
    BY <1>2, ViewFields
  <2> QED BY <2>1, <2>2
<1>6. Reach(u, order) = S
  <2>1. Reach(u, order) =
          {y \in DOMAIN u.order_index : /\ View(u, y).side = Opposite(order.side)
                                        /\ Crosses(order, View(u, y).price)}
    BY <1>1, ReachLemma
  <2>2. S = {y \in DOMAIN b.order_index : /\ View(b, y).side = Opposite(order.side)
                                          /\ Crosses(order, View(b, y).price)}
    BY <1>1, ReachLemma
  <2> HIDE DEF S, x
  <2> QED BY <1>2, <1>5, <2>1, <2>2
<1>7. IsFiniteSet(S) /\ S \subseteq DOMAIN b.order_index
  BY CanFillLemma DEF Reach, At
<1>8. OpenQty(o) \in Int
  BY <1>2 DEF L3Order, OpenQty
<1>9. ASSUME NEW y \in S
      PROVE  /\ f[y] = View(b, y).qty /\ f[y] \in Int
             /\ g[y] = (IF y = x THEN OpenQty(o) ELSE f[y]) /\ g[y] \in Int
  BY <1>2, <1>5, <1>7, <1>8, ViewFields DEF Open
<1>10. Available(b, order) = SumOver(f, S) /\ Available(u, order) = SumOver(g, S)
  BY <1>6 DEF Available
<1> HIDE DEF S, f, g, x
<1>11. SumOver(g, S) = SumOver(f, S) + (g[x] - f[x]) /\ SumOver(f, S) \in Int
  BY <1>4, <1>7, <1>9, SumUpdate, SumType
<1>12. g[x] = OpenQty(o) /\ f[x] = View(b, x).qty /\ g[x] \in Int /\ f[x] \in Int
  BY <1>4, <1>9
<1> QED BY <1>10, <1>11, <1>12 DEF x

----------------------------------------------------------------------------
(* The steps. *)

AddOrderCall == [order : Order, remaining : Int, trades : Seq(Trade), fillable : BOOLEAN]

\* Order x trades qty with add_order c, which goes on as d.
Executes(c, d, side, p, qty, x) ==
  /\ c \in call /\ c \in AddOrderCall /\ call' = {d}
  /\ c.fillable /\ c.remaining > 0
  /\ side = Opposite(c.order.side)
  /\ x \in DOMAIN book.order_index
  /\ View(book, x) = [id |-> x, side |-> side, price |-> p, qty |-> View(book, x).qty, ahead |-> {}]
  /\ qty = LesserOf(c.remaining, View(book, x).qty) /\ qty \in Int
  /\ Crosses(c.order, p)
  /\ \A y \in DOMAIN book.order_index :
       View(book, y).side = side => ~Better(side, View(book, y).price, p)
  /\ d.order = c.order /\ d.fillable = c.fillable /\ d.remaining = c.remaining - qty
  /\ \E t \in Trade : /\ d.trades = Append(c.trades, t)
                      /\ t.resting_id = x /\ t.price = p /\ t.qty = qty
  /\ Views(book') =
       IF qty = View(book, x).qty
       THEN {[r EXCEPT !.ahead = @ \ {x}] : r \in Views(book) \ {View(book, x)}}
       ELSE (Views(book) \ {View(book, x)}) \cup {[View(book, x) EXCEPT !.qty = @ - qty]}
  /\ Available(book', c.order) = Available(book, c.order) - qty

\* When an order may trade with a level, it may trade with the best one.
LEMMA BestCrosses ==
  ASSUME NEW b, IsBook(b), NEW order \in Order, NEW p,
         IsBest(b.levels, Opposite(order.side), p),
         NEW q \in DOMAIN b.levels[Opposite(order.side)], Crosses(order, q)
  PROVE  p \in DOMAIN b.levels[Opposite(order.side)] /\ Crosses(order, p)
<1>1. order.side \in Side /\ Opposite(order.side) \in Side /\ order.price \in Int
  BY PriceAssumption DEF Order, Opposite, Side
<1>2. p \in DOMAIN b.levels[Opposite(order.side)] /\ ~Better(Opposite(order.side), q, p)
  BY DEF IsBest
<1>3. p \in Int /\ q \in Int
  BY <1>1, <1>2, QueueLemma, PriceAssumption
<1> QED BY <1>1, <1>2, <1>3 DEF Crosses, Better, Opposite, Side

\* An iteration of the matching loop is such a trade.
LEMMA MatchOneExecutes ==
  ASSUME AInv, MatchOne
  PROVE  \E c, d, side, p, qty, x : Executes(c, d, side, p, qty, x)
<1>1. PICK c, d, side, p, qty : MatchEdit(c, d, side, p, qty) /\ Matches(c, d, side, p, qty)
  BY MatchOneEdits
<1> DEFINE front == book.levels[side][p][1]
           x     == front.id
           o     == FillResting(front, qty)
           trade == [resting_id |-> front.id, resting_trader |-> front.trader_id,
                     incoming_trader |-> c.order.trader_id, price |-> p, qty |-> qty]
<1>2. /\ Sound(book) /\ IsBook(book) /\ Linked(book) /\ Counted(book) /\ c \in AddOrderCall
      /\ call' = {d} /\ c \in call
  BY <1>1 DEF AInv, Sound, IInv, TypeOK, MatchEdit, AddOrderCall
<1>3. IsBook(book') /\ Linked(book')
  BY NextAInv DEF Next, AInv, Sound
<1>4. /\ side \in Side /\ p \in DOMAIN book.levels[side] /\ front \in L3Order
      /\ qty \in 0..OpenQty(front)
      /\ side = Opposite(c.order.side) /\ IsBest(book.levels, side, p)
      /\ qty = LesserOf(c.remaining, OpenQty(front))
      /\ d = Traded(c, front, p, qty)
  BY <1>1 DEF MatchEdit, Matches
<1>5. c.fillable /\ c.remaining > 0 /\ \E q \in DOMAIN book.levels[side] : Crosses(c.order, q)
  <2> HIDE DEF front, x, o, trade
  <2>1. ~MatchingDone(book, c) /\ c.remaining \in Int /\ side = Opposite(c.order.side)
    BY <1>1, <1>2 DEF Matches, AddOrderCall
  <2> QED BY <2>1 DEF MatchingDone
<1>6. c.order \in Order /\ c.remaining \in Int /\ c.trades \in Seq(Trade)
  BY <1>2 DEF AddOrderCall
<1>7. Crosses(c.order, p)
  BY <1>2, <1>4, <1>5, <1>6, BestCrosses
<1>8. 1 \in DOMAIN book.levels[side][p]
  <2>1. IsBook(book) /\ side \in Side /\ p \in DOMAIN book.levels[side]
    BY <1>2, <1>4
  <2> HIDE DEF front, x, o, trade
  <2> QED BY <2>1, QueueLemma
<1>9. OpenQty(front) \in Nat /\ qty \in Nat
  <2>1. front \in L3Order /\ qty \in 0..OpenQty(front)
    BY <1>4
  <2> HIDE DEF front, o
  <2>2. OpenQty(front) \in Nat
    BY <2>1 DEF L3Order, OpenQty
  <2> QED BY <2>1, <2>2
<1>10. /\ x \in DOMAIN book.order_index
       /\ View(book, x) = [id |-> x, side |-> side, price |-> p, qty |-> OpenQty(front), ahead |-> {}]
  <2>1. View(book, x) = Record(book, side, p, 1) /\ x \in DOMAIN book.order_index
    BY <1>2, <1>4, <1>8, ViewLemma
  <2>2. {book.levels[side][p][j].id : j \in 1..(1 - 1)} = {}
    OBVIOUS
  <2> QED BY <2>1, <2>2 DEF Record
<1>11. View(book, x).qty = OpenQty(front)
  BY <1>10
<1>12. ASSUME NEW y \in DOMAIN book.order_index, View(book, y).side = side
       PROVE  ~Better(side, View(book, y).price, p)
  <2>1. View(book, y).price \in DOMAIN book.levels[side]
    BY <1>2, <1>12, ViewFields
  <2> QED BY <1>4, <2>1 DEF IsBest
<1>13. trade \in Trade /\ trade.resting_id = x /\ trade.price = p /\ trade.qty = qty
  <2>1. front.id \in OrderId /\ front.trader_id \in TraderId /\ c.order.trader_id \in TraderId
    BY <1>4, <1>6 DEF L3Order, Order
  <2>2. p \in Price
    BY <1>2, <1>4, QueueLemma
  <2> QED BY <1>9, <2>1, <2>2 DEF Trade
<1>14. /\ d.order = c.order /\ d.fillable = c.fillable /\ d.remaining = c.remaining - qty
       /\ d.trades = Append(c.trades, trade)
  <2>1. d = [c EXCEPT !.remaining = @ - qty, !.trades = Append(@, trade)]
    BY <1>4 DEF Traded
  <2>2. c = [order |-> c.order, remaining |-> c.remaining, trades |-> c.trades,
             fillable |-> c.fillable]
    BY <1>2 DEF AddOrderCall
  <2> HIDE DEF trade
  <2> QED BY <2>1, <2>2
<1>15. x = book.levels[side][p][1].id /\ o.id = x /\ OpenQty(o) = OpenQty(front) - qty
  <2>1. front \in L3Order /\ qty \in 0..OpenQty(front)
    BY <1>4
  <2>2. x = book.levels[side][p][1].id
    OBVIOUS
  <2> HIDE DEF front
  <2> QED BY <2>1, <2>2, FillRestingLemma
<1> DEFINE rest == Tail(book.levels[side][p])
<1>16. IF qty = OpenQty(front) THEN Loses(book', book, side, p, 1, rest)
                               ELSE Fills(book', book, side, p, o)
  BY <1>1 DEF MatchEdit
<1> HIDE DEF front, x, o, trade, rest
<1>17. Views(book') =
         IF qty = View(book, x).qty
         THEN {[r EXCEPT !.ahead = @ \ {x}] : r \in Views(book) \ {View(book, x)}}
         ELSE (Views(book) \ {View(book, x)}) \cup {[View(book, x) EXCEPT !.qty = @ - qty]}
  <2>1. CASE qty = OpenQty(front)
    <3>1. Loses(book', book, side, p, 1, rest)
      BY <1>16, <2>1
    <3>2. Views(book') = {[r EXCEPT !.ahead = @ \ {x}] : r \in Views(book) \ {View(book, x)}}
      <4> DEFINE u == book'
      <4>1. /\ IsBook(book) /\ Linked(book) /\ IsBook(u) /\ Linked(u) /\ side \in Side
            /\ Loses(u, book, side, p, 1, rest) /\ x = book.levels[side][p][1].id
        BY <1>2, <1>3, <1>4, <1>15, <3>1
      <4> HIDE DEF u
      <4>2. Views(u) = {[r EXCEPT !.ahead = @ \ {x}] : r \in Views(book) \ {View(book, x)}}
        BY <4>1, LosesSet
      <4> QED BY <4>2 DEF u
    <3> QED BY <1>11, <2>1, <3>2
  <2>2. CASE qty # OpenQty(front)
    <3>1. Fills(book', book, side, p, o)
      BY <1>16, <2>2
    <3>2. Views(book') = (Views(book) \ {View(book, o.id)})
                           \cup {[View(book, o.id) EXCEPT !.qty = OpenQty(o)]}
      BY <1>2, <1>3, <1>4, <3>1, FillsSet
    <3>3. OpenQty(o) = View(book, x).qty - qty
      BY <1>11, <1>15
    <3> QED BY <1>11, <1>15, <2>2, <3>2, <3>3
  <2> QED BY <2>1, <2>2
<1>18. Available(book', c.order) = Available(book, c.order) - qty
  <2>1. CASE qty = OpenQty(front)
    <3>1. Loses(book', book, Opposite(c.order.side), p, 1, rest)
          /\ x = book.levels[Opposite(c.order.side)][p][1].id
      BY <1>4, <1>15, <1>16, <2>1
    <3>2. Available(book', c.order) = Available(book, c.order) - View(book, x).qty
      <4> DEFINE order == c.order
                 u     == book'
      <4>1. /\ order \in Order /\ IsBook(u) /\ Linked(u) /\ Crosses(order, p)
            /\ Loses(u, book, Opposite(order.side), p, 1, rest)
            /\ x = book.levels[Opposite(order.side)][p][1].id
        BY <1>3, <1>6, <1>7, <3>1
      <4> HIDE DEF order, u
      <4>2. Available(u, order) = Available(book, order) - View(book, x).qty
        BY <1>2, <4>1, LosesAvailable
      <4> QED BY <4>2 DEF order, u
    <3> QED BY <1>11, <2>1, <3>2
  <2>2. CASE qty # OpenQty(front)
    <3>1. Fills(book', book, Opposite(c.order.side), p, o)
      BY <1>4, <1>16, <2>2
    <3>2. Available(book', c.order) =
            Available(book, c.order) - (View(book, o.id).qty - OpenQty(o))
      BY <1>2, <1>3, <1>6, <1>7, <3>1, FillsAvailable
    <3>3. View(book, o.id).qty - OpenQty(o) = qty
      BY <1>9, <1>11, <1>15
    <3> QED BY <3>2, <3>3
  <2> QED BY <2>1, <2>2
<1>19. qty \in Int /\ qty = LesserOf(c.remaining, View(book, x).qty)
  BY <1>4, <1>9, <1>11
<1>20. View(book, x) = [id |-> x, side |-> side, price |-> p, qty |-> View(book, x).qty, ahead |-> {}]
  BY <1>10, <1>11
<1>21. \E t \in Trade : /\ d.trades = Append(c.trades, t)
                       /\ t.resting_id = x /\ t.price = p /\ t.qty = qty
  BY <1>13, <1>14
<1>22. Executes(c, d, side, p, qty, x)
  BY <1>2, <1>4, <1>5, <1>7, <1>10, <1>12, <1>14, <1>17, <1>18, <1>19, <1>20, <1>21 DEF Executes
<1> QED BY <1>22

\* While add_order runs, a fill-or-kill order that may match can get what it
\* has left; one that may not has got nothing, and there is too little.
EnoughLeft ==
  \A c \in call :
    IF c.fillable
    THEN c.order.tif = "FOK" => c.remaining <= Available(book, c.order)
    ELSE /\ c.trades = <<>> /\ c.remaining = c.order.quantity
         /\ Available(book, c.order) < c.order.quantity

RInv == AInv /\ EnoughLeft

\* The check is right for the order that begins.
LEMMA ActivationEnough ==
  ASSUME NEW b, IsBook(b), Linked(b), Counted(b), NEW order \in Order, NEW c, c = Activation(b, order)
  PROVE  /\ c.order = order /\ c.remaining = order.quantity /\ c.trades = <<>>
         /\ IF c.fillable
            THEN c.order.tif = "FOK" => c.remaining <= Available(b, c.order)
            ELSE Available(b, c.order) < c.order.quantity
<1>1. /\ c.order = order /\ c.remaining = order.quantity /\ c.trades = <<>>
      /\ c.fillable <=> order.tif # "FOK" \/ CanFill(b, order)
  BY DEF Activation
<1>2. CanFill(b, order) <=> Available(b, order) >= order.quantity
  BY CanFillLemma
<1>3. Available(b, order) \in Int /\ order.quantity \in Int
  BY CanFillLemma DEF Order
<1> QED BY <1>1, <1>2, <1>3

\* What replace_order submits is an order on the side of the one it replaces.
LEMMA ReplacementLemma ==
  ASSUME NEW b, IsBook(b), NEW req \in Replacements, req.order_id \in DOMAIN b.order_index
  PROVE  LET order == ReplacementOrder(b, req)
         IN  /\ order \in Order /\ order \in AnyOrder
             /\ order.id = req.order_id /\ order.side = b.order_index[req.order_id].side
             /\ order.type = "Limit" /\ order.tif = "Day"
<1> DEFINE s == b.order_index[req.order_id].side
<1>1. s \in Side
  BY DEF IsBook, PartialFunction, OrderLocation
<1>2. /\ req.order_id \in OrderId /\ req.trader_id \in TraderId
      /\ req.new_price \in Price /\ req.new_qty \in Int
  BY InputAssumption DEF ReplaceRequest
<1>3. ReplacementOrder(b, req) =
        [id |-> req.order_id, trader_id |-> req.trader_id, side |-> s, type |-> "Limit",
         tif |-> "Day", price |-> req.new_price, quantity |-> req.new_qty]
  BY DEF ReplacementOrder
<1> HIDE DEF s
<1>4. ReplacementOrder(b, req) \in Order
  BY <1>1, <1>2, <1>3 DEF Order, OrderType, TimeInForce
<1>5. ReplacementOrder(b, req) \in AnyOrder
  BY <1>1, <1>3 DEF AnyOrder
<1> QED BY <1>3, <1>4, <1>5 DEF s

\* Every step keeps it: an iteration takes as much from the book as from what
\* the order has left.
LEMMA EnoughStep == RInv /\ [Next]_vars => EnoughLeft'
<1> SUFFICES ASSUME RInv, [Next]_vars PROVE EnoughLeft'
  OBVIOUS
<1>1. /\ AInv /\ EnoughLeft /\ IsBook(book) /\ Linked(book) /\ Counted(book)
      /\ IsBook(book') /\ Linked(book') /\ Counted(book')
  BY NextAInv DEF RInv, AInv, Sound
<1>2. CASE UNCHANGED vars
  BY <1>1, <1>2 DEF vars, EnoughLeft
<1>3. ASSUME NEW order \in Submissions, BeginAdd(order) PROVE EnoughLeft'
  <2> DEFINE c == Activation(book, order)
  <2>1. call' = {c} /\ book' = book
    BY <1>3 DEF BeginAdd
  <2>2. order \in Order
    BY InputAssumption
  <2> HIDE DEF c
  <2>3. /\ c.order = order /\ c.remaining = order.quantity /\ c.trades = <<>>
        /\ IF c.fillable
           THEN c.order.tif = "FOK" => c.remaining <= Available(book, c.order)
           ELSE Available(book, c.order) < c.order.quantity
    BY <1>1, <2>2, ActivationEnough DEF c
  <2> QED BY <2>1, <2>3 DEF EnoughLeft
<1>4. CASE MatchOne
  <2>1. PICK c, d, side, p, qty, x : Executes(c, d, side, p, qty, x)
    BY <1>1, <1>4, MatchOneExecutes
  <2>2. /\ c \in call /\ call' = {d} /\ c.fillable /\ qty \in Int
        /\ d.order = c.order /\ d.fillable = c.fillable /\ d.remaining = c.remaining - qty
        /\ Available(book', c.order) = Available(book, c.order) - qty
        /\ c.remaining \in Int /\ c.order \in Order
    BY <2>1 DEF Executes, AddOrderCall
  <2>3. Available(book, c.order) \in Int
    BY <1>1, <2>2, CanFillLemma
  <2>4. d.order.tif = "FOK" => d.remaining <= Available(book', d.order)
    BY <1>1, <2>2, <2>3 DEF EnoughLeft
  <2> QED BY <2>2, <2>4 DEF EnoughLeft
<1>5. CASE call' = {}
  BY <1>5 DEF EnoughLeft
<1>6. ASSUME NEW req \in Replacements, ReplaceOrder(req) PROVE EnoughLeft'
  <2> DEFINE order == ReplacementOrder(book, req)
             c == Activation(book', order)
  <2>1. call' = {c} /\ req.order_id \in DOMAIN book.order_index
    BY <1>6 DEF ReplaceOrder
  <2>2. order \in Order
    BY <1>1, <2>1, ReplacementLemma
  <2> HIDE DEF order
  <2> DEFINE u == book'
  <2>3. IsBook(u) /\ Linked(u) /\ Counted(u) /\ c = Activation(u, order)
    BY <1>1
  <2> HIDE DEF c, u
  <2>4. /\ c.order = order /\ c.remaining = order.quantity /\ c.trades = <<>>
        /\ IF c.fillable
           THEN c.order.tif = "FOK" => c.remaining <= Available(u, c.order)
           ELSE Available(u, c.order) < c.order.quantity
    BY <2>2, <2>3, ActivationEnough
  <2> QED BY <2>1, <2>4 DEF EnoughLeft, u
<1>7. CASE FinishAdd
  BY <1>5, <1>7 DEF FinishAdd
<1>8. ASSUME NEW order \in Submissions, RejectDuplicate(order) PROVE call' = {}
  BY <1>8 DEF RejectDuplicate
<1>9. ASSUME NEW id \in OrderId, RejectUnknown(id) \/ CancelOrder(id) PROVE call' = {}
  BY <1>9 DEF RejectUnknown, CancelOrder
<1> QED BY <1>2, <1>3, <1>4, <1>5, <1>6, <1>7, <1>8, <1>9 DEF Next

----------------------------------------------------------------------------
(* The refinement. *)

\* The abstract fills of some trades, and the abstract order of an add_order.
FillsOf(trades) ==
  [i \in DOMAIN trades |-> [resting_id |-> trades[i].resting_id,
                            price      |-> trades[i].price,
                            qty        |-> trades[i].qty]]

Abstract(c) == [order |-> c.order, left |-> c.remaining, fills |-> FillsOf(c.trades)]

\* A trade more is a fill more.
LEMMA FillsOfLemma ==
  /\ FillsOf(<<>>) = <<>>
  /\ \A trades \in Seq(Trade), t \in Trade :
       FillsOf(Append(trades, t)) =
         Append(FillsOf(trades), [resting_id |-> t.resting_id, price |-> t.price, qty |-> t.qty])
<1>1. FillsOf(<<>>) = <<>>
  BY DEF FillsOf
<1>2. ASSUME NEW trades \in Seq(Trade), NEW t \in Trade
      PROVE  FillsOf(Append(trades, t)) =
               Append(FillsOf(trades), [resting_id |-> t.resting_id, price |-> t.price, qty |-> t.qty])
  <2> DEFINE Fill(u) == [resting_id |-> u.resting_id, price |-> u.price, qty |-> u.qty]
             F == [resting_id : OrderId, price : Price, qty : Nat]
             long == Append(trades, t)
             n == Len(trades)
  <2>1. \A u \in Trade : Fill(u) \in F
    BY DEF Trade
  <2>2. /\ long \in Seq(Trade) /\ DOMAIN long = 1..(n + 1) /\ n \in Nat /\ DOMAIN trades = 1..n
        /\ \A i \in 1..n : long[i] = trades[i] /\ trades[i] \in Trade
        /\ long[n + 1] = t
    BY AppendProperties
  <2>3. FillsOf(trades) = [i \in 1..n |-> Fill(trades[i])]
    BY <2>2 DEF FillsOf
  <2>4. FillsOf(long) = [i \in 1..(n + 1) |-> Fill(long[i])]
    BY <2>2 DEF FillsOf
  <2> HIDE DEF long, Fill, F
  <2>5. FillsOf(trades) \in Seq(F) /\ Len(FillsOf(trades)) = n
    <3>1. \A i \in 1..n : Fill(trades[i]) \in F
      BY <2>1, <2>2
    <3> HIDE DEF n
    <3> QED BY <2>2, <2>3, <3>1
  <2>6. Append(FillsOf(trades), Fill(t)) = [i \in 1..(n + 1) |-> Fill(long[i])]
    <3> DEFINE fs == FillsOf(trades)
    <3>1. /\ Append(fs, Fill(t)) \in Seq(F)
          /\ DOMAIN Append(fs, Fill(t)) = 1..(n + 1)
          /\ \A i \in 1..n : Append(fs, Fill(t))[i] = fs[i]
          /\ Append(fs, Fill(t))[n + 1] = Fill(t)
      <4> HIDE DEF fs, n
      <4> QED BY <2>1, <2>2, <2>5, AppendProperties DEF fs
    <3>2. \A i \in 1..n : fs[i] = Fill(long[i])
      BY <2>2, <2>3
    <3> HIDE DEF fs, n
    <3>3. \A i \in 1..(n + 1) : Append(fs, Fill(t))[i] = Fill(long[i])
      BY <2>2, <3>1, <3>2
    <3> DEFINE more == Append(fs, Fill(t))
    <3>4. /\ more \in Seq(F) /\ DOMAIN more = 1..(n + 1)
          /\ \A i \in 1..(n + 1) : more[i] = Fill(long[i])
      BY <3>1, <3>3
    <3> HIDE DEF more
    <3>5. more = [i \in DOMAIN more |-> more[i]]
      BY <3>4
    <3>6. more = [i \in 1..(n + 1) |-> Fill(long[i])]
      BY <3>4, <3>5
    <3> QED BY <3>6 DEF more, fs
  <2> QED BY <2>4, <2>6 DEF long, Fill
<1> QED BY <1>1, <1>2

\* The abstract book is the set of records of the book.
LEMMA AbstractLemma ==
  ASSUME AInv
  PROVE  AbstractResting = Views(book) /\ AbstractActive = {Abstract(c) : c \in call}
<1>1. IsBook(book) /\ Linked(book)
  BY DEF AInv, Sound
<1>2. AbstractResting = RestingIn(book)
  BY DEF AbstractResting, RestingAt, RestingIn, Record
<1>3. RestingIn(book) = Views(book)
  BY <1>1, ViewsLemma
<1>4. AbstractActive = {Abstract(c) : c \in call}
  BY DEF AbstractActive, Abstract, FillsOf
<1> QED BY <1>2, <1>3, <1>4

\* The empty book is the abstract book's initial state.
LEMMA InitRefines == Init => PriceTime!Init
<1> SUFFICES ASSUME Init PROVE PriceTime!Init
  OBVIOUS
<1>1. AInv
  BY InitAInv
<1>2. Views(book) = {}
  BY DEF Init, EmptyBook, Views
<1>3. call = {}
  BY DEF Init
<1>4. AbstractActive = {}
  BY <1>1, <1>3, AbstractLemma
<1> QED BY <1>1, <1>2, <1>4, AbstractLemma DEF PriceTime!Init

\* The same for the next state.
LEMMA AbstractNext ==
  ASSUME AInv'
  PROVE  AbstractResting' = Views(book') /\ AbstractActive' = {Abstract(c) : c \in call'}
<1>1. IsBook(book') /\ Linked(book')
  BY DEF AInv, Sound
<1>2. AbstractResting' = RestingIn(book')
  BY DEF AbstractResting, RestingAt, RestingIn, Record
<1>3. RestingIn(book') = Views(book')
  <2> DEFINE u == book'
  <2> HIDE DEF u
  <2>1. IsBook(u) /\ Linked(u) => RestingIn(u) = Views(u)
    BY ViewsLemma
  <2> QED BY <1>1, <2>1 DEF u
<1>4. AbstractActive' = {Abstract(c) : c \in call'}
  BY DEF AbstractActive, Abstract, FillsOf
<1> QED BY <1>2, <1>3, <1>4

\* The orders an abstract order may trade with are those within reach.
LEMMA CounterpartiesLemma ==
  ASSUME AInv, NEW order \in Order
  PROVE  PriceTime!Counterparties(order) = {View(book, x) : x \in Reach(book, order)}
<1>1. IsBook(book) /\ Linked(book)
  BY DEF AInv, Sound
<1>2. order.side \in Side /\ order.price \in Int
  BY PriceAssumption DEF Order
<1>3. PriceTime!Counterparties(order) =
        {r \in Views(book) : r.side # order.side /\ PriceTime!Acceptable(order, r.price)}
  BY AbstractLemma DEF PriceTime!Counterparties
<1>4. ASSUME NEW x \in DOMAIN book.order_index
      PROVE  View(book, x).side # order.side /\ PriceTime!Acceptable(order, View(book, x).price)
               <=> View(book, x).side = Opposite(order.side) /\ Crosses(order, View(book, x).price)
  <2> DEFINE q == View(book, x).price
             s == View(book, x).side
  <2>1. s \in Side /\ q \in Int
    BY <1>1, ViewFields, QueueLemma, PriceAssumption
  <2> HIDE DEF q, s
  <2>2. s # order.side <=> s = Opposite(order.side)
    BY <1>2, <2>1 DEF Side, Opposite
  <2>3. PriceTime!Acceptable(order, q) <=> Crosses(order, q)
    BY <1>2, <2>1 DEF Side, PriceTime!Acceptable, Crosses, Better
  <2> QED BY <2>2, <2>3 DEF q, s
<1>5. Reach(book, order) =
        {x \in DOMAIN book.order_index : /\ View(book, x).side = Opposite(order.side)
                                         /\ Crosses(order, View(book, x).price)}
  BY <1>1, <1>2, ReachLemma
<1> QED BY <1>3, <1>4, <1>5 DEF Views

\* The sum in the abstract kill is what the order can get.
LEMMA KillSumLemma ==
  ASSUME AInv, NEW order \in Order
  PROVE  PriceTime!MapThenSumSet(LAMBDA r : r.qty, PriceTime!Counterparties(order)) =
           Available(book, order)
<1> DEFINE S == PriceTime!Counterparties(order)
<1>1. PriceTime!MapThenSumSet(LAMBDA r : r.qty, S) = QtySum(S)
  BY DEF QtySum, MapThenSumSet, MapThenFoldSet, PriceTime!MapThenSumSet, PriceTime!MapThenFoldSet
<1>2. IsBook(book) /\ Linked(book) /\ Counted(book)
  BY DEF AInv, Sound
<1> QED BY <1>1, <1>2, CounterpartiesLemma, ReachRecords

\* add_order begins: the abstract order is submitted.
LEMMA BeginRefines ==
  ASSUME AInv, AInv', NEW order \in Submissions, BeginAdd(order)
  PROVE  PriceTime!Submit
<1>1. /\ call = {} /\ book' = book /\ call' = {Activation(book, order)}
      /\ order.id \notin DOMAIN book.order_index
  BY DEF BeginAdd
<1>2. /\ AbstractActive = {}
      /\ AbstractActive' = {Abstract(Activation(book, order))}
      /\ AbstractResting = Views(book) /\ AbstractResting' = AbstractResting
  BY <1>1, AbstractLemma, AbstractNext
<1>3. Abstract(Activation(book, order)) =
        [order |-> order, left |-> order.quantity, fills |-> <<>>]
  BY FillsOfLemma DEF Abstract, Activation
<1>4. \A r \in Views(book) : r.id # order.id
  BY <1>1, ViewFields DEF Views, AInv, Sound
<1>5. order \in AnyOrder
  BY DEF AnyOrder
<1> QED BY <1>2, <1>3, <1>4, <1>5 DEF PriceTime!Submit, PriceTime!Begin

\* An iteration of the matching loop executes against the first order.
LEMMA MatchOneRefines ==
  ASSUME AInv, AInv', MatchOne
  PROVE  PriceTime!Execute
<1>1. PICK c, d, side, p, qty, x : Executes(c, d, side, p, qty, x)
  BY MatchOneExecutes
<1> DEFINE a == Abstract(c)
           r == View(book, x)
<1>2. /\ AbstractResting = Views(book) /\ AbstractResting' = Views(book')
      /\ AbstractActive = {Abstract(e) : e \in call} /\ AbstractActive' = {Abstract(d)}
  BY <1>1, AbstractLemma, AbstractNext DEF Executes
<1>3. /\ c \in call /\ c.order \in Order /\ c.remaining \in Int /\ c.trades \in Seq(Trade)
      /\ IsBook(book) /\ Linked(book)
  BY <1>1 DEF Executes, AddOrderCall, AInv, Sound
<1>4. a \in AbstractActive /\ a.order = c.order /\ a.left = c.remaining /\ a.left > 0
  BY <1>1, <1>2, <1>3 DEF Abstract, Executes
<1>5. /\ x \in DOMAIN book.order_index
      /\ r = [id |-> x, side |-> side, price |-> p, qty |-> r.qty, ahead |-> {}]
      /\ r.side = side /\ r.price = p /\ r.ahead = {} /\ r.id = x /\ r.qty \in Nat
  BY <1>1, <1>3, ViewFields DEF Executes
<1>6. r \in PriceTime!Counterparties(a.order)
  <2>1. Crosses(c.order, r.price) /\ r.side = Opposite(c.order.side) /\ c.order.side \in Side
    BY <1>1, <1>3, <1>5 DEF Executes, Order
  <2>2. x \in Reach(book, c.order)
    BY <1>3, <1>5, <2>1, ReachLemma
  <2> QED BY <1>3, <1>4, <2>2, CounterpartiesLemma
<1>7. PriceTime!First(r)
  <2>1. ASSUME NEW s \in Views(book), s.side = r.side
        PROVE  IF r.side = "Buy" THEN s.price <= r.price ELSE s.price >= r.price
    <3>1. PICK y \in DOMAIN book.order_index : s = View(book, y)
      BY DEF Views
    <3>2. ~Better(side, s.price, p)
      BY <1>1, <1>5, <2>1, <3>1 DEF Executes
    <3>3. s.price \in Int /\ p \in Int
      BY <1>3, <1>5, <3>1, ViewFields, QueueLemma, PriceAssumption
    <3> QED BY <1>5, <3>2, <3>3 DEF Better
  <2> QED BY <1>2, <1>5, <2>1 DEF PriceTime!First
<1>8. PriceTime!Min({a.left, r.qty}) = qty
  <2> DEFINE n == r.qty
  <2>1. qty = LesserOf(a.left, n) /\ a.left \in Int /\ n \in Int
    BY <1>1, <1>3, <1>4, <1>5 DEF Executes
  <2> HIDE DEF n, a
  <2>2. qty \in {a.left, n} /\ \A y \in {a.left, n} : qty <= y
    BY <2>1 DEF LesserOf
  <2>3. \A z \in {a.left, n} : (\A y \in {a.left, n} : z <= y) => z = qty
    BY <2>1, <2>2
  <2> QED BY <2>2, <2>3 DEF PriceTime!Min, n
<1>9. Abstract(d) = [a EXCEPT !.left  = @ - qty,
                              !.fills = Append(@, [resting_id |-> r.id, price |-> r.price, qty |-> qty])]
  <2>1. PICK t \in Trade : /\ d.trades = Append(c.trades, t)
                           /\ t.resting_id = x /\ t.price = p /\ t.qty = qty
    BY <1>1 DEF Executes
  <2> DEFINE fill == [resting_id |-> r.id, price |-> r.price, qty |-> qty]
             fs   == FillsOf(c.trades)
  <2>2. FillsOf(d.trades) = Append(fs, fill)
    BY <1>3, <1>5, <2>1, FillsOfLemma
  <2>3. Abstract(d) = [order |-> c.order, left |-> c.remaining - qty, fills |-> Append(fs, fill)]
    BY <1>1, <2>2 DEF Abstract, Executes
  <2>4. a = [order |-> c.order, left |-> c.remaining, fills |-> fs]
    BY DEF Abstract
  <2> HIDE DEF a, fill, fs
  <2> DEFINE left  == c.remaining - qty
             fills == Append(fs, fill)
  <2>5. a.left - qty = left /\ Append(a.fills, fill) = fills
    BY <2>4
  <2> HIDE DEF left, fills, r
  <2> DEFINE e == [a EXCEPT !.left = left, !.fills = fills]
  <2>6. e.order = c.order /\ e.left = left /\ e.fills = fills
    BY <2>4
  <2>7. e = [order |-> e.order, left |-> e.left, fills |-> e.fills]
    <3>1. a \in [order : {c.order}, left : {c.remaining}, fills : {fs}]
      BY <2>4
    <3>2. e \in [order : {c.order}, left : {left}, fills : {fills}]
      BY <3>1
    <3> HIDE DEF e
    <3> QED BY <3>2
  <2> HIDE DEF e
  <2>8. e = Abstract(d)
    BY <2>3, <2>6, <2>7 DEF left, fills
  <2> QED BY <2>5, <2>8 DEF e, fill
<1>10. AbstractResting' = IF qty = r.qty THEN PriceTime!LeftWithout(r)
                          ELSE (AbstractResting \ {r}) \cup {[r EXCEPT !.qty = @ - qty]}
  <2>1. Views(book') =
          IF qty = r.qty THEN {[s EXCEPT !.ahead = @ \ {x}] : s \in Views(book) \ {r}}
          ELSE (Views(book) \ {r}) \cup {[r EXCEPT !.qty = @ - qty]}
    BY <1>1 DEF Executes
  <2>2. PriceTime!LeftWithout(r) = {[s EXCEPT !.ahead = @ \ {x}] : s \in Views(book) \ {r}}
    BY <1>2, <1>5 DEF PriceTime!LeftWithout
  <2> HIDE DEF r
  <2> QED BY <1>2, <2>1, <2>2
<1> HIDE DEF a, r
<1> QED BY <1>2, <1>4, <1>6, <1>7, <1>8, <1>9, <1>10 DEF PriceTime!Execute

\* The end of add_order: a killed order goes, any other settles.
LEMMA FinishRefines ==
  ASSUME RInv, AInv', FinishAdd
  PROVE  PriceTime!Kill \/ PriceTime!Settle
<1>1. AInv /\ EnoughLeft /\ IsBook(book) /\ Linked(book) /\ Counted(book)
      /\ IsBook(book') /\ Linked(book')
  BY DEF RInv, AInv, Sound
<1>2. PICK c : FinishEdit(c)
  BY <1>1, FinishAddEdits
<1>3. c \in call /\ MatchingDone(book, c)
  <2>1. PICK d \in call : MatchingDone(book, d)
    BY DEF FinishAdd
  <2> QED BY <1>1, <1>2, <2>1 DEF AInv, OneCall, FinishEdit
<1> DEFINE a == Abstract(c)
<1>4. /\ AbstractResting = Views(book) /\ AbstractResting' = Views(book')
      /\ a \in AbstractActive /\ AbstractActive' = {}
  <2>1. call' = {}
    BY <1>2 DEF FinishEdit
  <2> QED BY <1>1, <1>3, <2>1, AbstractLemma, AbstractNext
<1>5. /\ c.order \in Order /\ c.remaining \in Int /\ c.order.quantity \in Int
      /\ Available(book, c.order) \in Int
  <2>1. c.order \in Order /\ c.remaining \in Int
    BY <1>2 DEF FinishEdit
  <2> QED BY <1>1, <2>1, CanFillLemma DEF Order
<1>6. a.order = c.order /\ a.left = c.remaining /\ a.fills = FillsOf(c.trades)
  BY DEF Abstract
<1> HIDE DEF a
<1>7. CASE ~c.fillable
  <2>1. c.order.tif = "FOK"
    BY <1>1, <1>3, <1>7 DEF AInv, IInv, CallSane
  <2>2. c.trades = <<>> /\ Available(book, c.order) < c.order.quantity
    BY <1>1, <1>3, <1>7 DEF EnoughLeft
  <2>3. book' = book
    BY <1>2, <2>1 DEF FinishEdit, Rests
  <2>4. PriceTime!MapThenSumSet(LAMBDA r : r.qty, PriceTime!Counterparties(a.order))
          < a.order.quantity
    BY <1>1, <1>5, <1>6, <2>2, KillSumLemma
  <2>5. a.fills = <<>>
    BY <1>6, <2>2, FillsOfLemma
  <2>6. AbstractResting' = AbstractResting
    BY <1>4, <2>3
  <2>7. PriceTime!Kill
    BY <1>4, <1>6, <2>1, <2>4, <2>5, <2>6 DEF PriceTime!Kill
  <2> QED BY <2>7
<1>8. CASE c.fillable
  <2>1. c.remaining <= 0 \/ Reach(book, c.order) = {}
    BY <1>3, <1>8 DEF MatchingDone, Reach, At, Crossed
  <2>2. a.left <= 0 \/ PriceTime!Counterparties(a.order) = {}
    BY <1>1, <1>5, <1>6, <2>1, CounterpartiesLemma
  <2>3. ASSUME a.order.tif = "FOK" PROVE a.left <= 0
    <3>1. c.remaining <= Available(book, c.order)
      BY <1>1, <1>3, <1>6, <1>8, <2>3 DEF EnoughLeft
    <3>2. CASE Reach(book, c.order) = {}
      <4>1. IsFiniteSet({}) /\ Available(book, c.order) = SumOver(Open(book), {})
        BY <3>2, FS_EmptySet DEF Available
      <4>2. Available(book, c.order) = 0
        BY <4>1, SumUnfold
      <4> QED BY <1>6, <3>1, <4>2
    <3> QED BY <1>6, <2>1, <3>2
  <2>4. AbstractResting' =
          IF a.left > 0 /\ a.order.type = "Limit" /\ a.order.tif \in {"Day", "GTC"}
          THEN AbstractResting \cup
                 {[id    |-> a.order.id,
                   side  |-> a.order.side,
                   price |-> a.order.price,
                   qty   |-> a.left,
                   ahead |-> {r.id : r \in {s \in AbstractResting :
                                 s.side = a.order.side /\ s.price = a.order.price}}]}
          ELSE AbstractResting
    <3>1. Rests(c) <=> a.left > 0 /\ a.order.type = "Limit" /\ a.order.tif \in {"Day", "GTC"}
      BY <1>6 DEF Rests
    <3>2. CASE Rests(c)
      <4> DEFINE o    == NewResting(book, c.order, c.remaining)
                 side == c.order.side
                 p    == c.order.price
      <4>1. /\ Gains(book', book, side, p, o) /\ side \in Side
            /\ o.id = c.order.id /\ OpenQty(o) = c.remaining
        BY <1>2, <3>2 DEF FinishEdit
      <4> HIDE DEF o, side, p
      <4>2. Views(book') = Views(book) \cup
              {[id |-> o.id, side |-> side, price |-> p, qty |-> OpenQty(o),
                ahead |-> {r.id : r \in {v \in Views(book) : v.side = side /\ v.price = p}}]}
        BY <1>1, <4>1, GainsSet
      <4>3. o.id = a.order.id /\ side = a.order.side /\ p = a.order.price /\ OpenQty(o) = a.left
        BY <1>6, <4>1 DEF side, p
      <4> QED BY <1>4, <3>1, <3>2, <4>2, <4>3
    <3>3. CASE ~Rests(c)
      <4>1. book' = book
        BY <1>2, <3>3 DEF FinishEdit
      <4> QED BY <1>4, <3>1, <3>3, <4>1
    <3> QED BY <3>2, <3>3
  <2>5. PriceTime!Settle
    BY <1>4, <2>2, <2>3, <2>4 DEF PriceTime!Settle
  <2> QED BY <2>5
<1> QED BY <1>7, <1>8

\* A withdrawal leaves the abstract book without the order's record.
LEMMA WithdrawRefines ==
  ASSUME AInv, AInv', NEW id \in DOMAIN book.order_index, book' = Withdraw(book, id)
  PROVE  \E r \in AbstractResting : /\ r = View(book, id) /\ r.id = id
                                    /\ AbstractResting' = PriceTime!LeftWithout(r)
<1>1. IsBook(book) /\ Linked(book) /\ IsBook(book') /\ Linked(book')
  BY DEF AInv, Sound
<1>2. PICK side \in Side : \E p \in DOMAIN book.levels[side] :
        \E k \in DOMAIN book.levels[side][p] : \E rest :
          Loses(book', book, side, p, k, rest) /\ book.levels[side][p][k].id = id
  BY <1>1, WithdrawLoses
<1>3. PICK p, k, rest : Loses(book', book, side, p, k, rest) /\ id = book.levels[side][p][k].id
  BY <1>2
<1> DEFINE r == View(book, id)
<1>4. Views(book') = {[s EXCEPT !.ahead = @ \ {id}] : s \in Views(book) \ {r}}
  <2> DEFINE u == book'
  <2>1. IsBook(u) /\ Linked(u) /\ Loses(u, book, side, p, k, rest)
    BY <1>1, <1>3
  <2> HIDE DEF u
  <2>2. Views(u) = {[s EXCEPT !.ahead = @ \ {id}] : s \in Views(book) \ {View(book, id)}}
    BY <1>1, <1>3, <2>1, LosesSet
  <2> QED BY <2>2 DEF u
<1>5. r.id = id
  BY <1>1, ViewFields
<1>6. AbstractResting = Views(book) /\ AbstractResting' = Views(book')
  BY AbstractLemma, AbstractNext
<1>7. r \in AbstractResting
  BY <1>6 DEF Views
<1> HIDE DEF r
<1>8. AbstractResting' = PriceTime!LeftWithout(r)
  BY <1>4, <1>5, <1>6 DEF PriceTime!LeftWithout
<1> QED BY <1>5, <1>7, <1>8 DEF r

\* cancel_order cancels.
LEMMA CancelRefines ==
  ASSUME AInv, AInv', NEW id \in OrderId, CancelOrder(id)
  PROVE  PriceTime!Cancel
<1>1. /\ call = {} /\ call' = {} /\ id \in DOMAIN book.order_index
      /\ book' = Withdraw(book, id)
  BY DEF CancelOrder
<1>2. AbstractActive = {} /\ AbstractActive' = {}
  BY <1>1, AbstractLemma, AbstractNext
<1>3. \E r \in AbstractResting : AbstractResting' = PriceTime!LeftWithout(r)
  BY <1>1, WithdrawRefines
<1> QED BY <1>2, <1>3 DEF PriceTime!Cancel

\* replace_order takes the old version out and submits the new one.
LEMMA ReplaceRefines ==
  ASSUME AInv, AInv', NEW req \in Replacements, ReplaceOrder(req)
  PROVE  PriceTime!Replace
<1> DEFINE id    == req.order_id
           order == ReplacementOrder(book, req)
<1>1. /\ call = {} /\ id \in DOMAIN book.order_index /\ book' = Withdraw(book, id)
      /\ call' = {Activation(book', order)}
  BY DEF ReplaceOrder
<1>2. IsBook(book) /\ Linked(book) /\ IsBook(book') /\ Linked(book')
  BY DEF AInv, Sound
<1>3. /\ order \in AnyOrder /\ order.id = id /\ order.side = book.order_index[id].side
      /\ order.type = "Limit" /\ order.tif = "Day"
  BY <1>1, <1>2, ReplacementLemma
<1>4. PICK r \in AbstractResting : /\ r = View(book, id) /\ r.id = id
                                  /\ AbstractResting' = PriceTime!LeftWithout(r)
  BY <1>1, WithdrawRefines
<1>5. r.side = order.side
  BY <1>1, <1>2, <1>3, <1>4, ViewFields
<1> HIDE DEF order, id
<1>6. /\ AbstractActive = {}
      /\ AbstractActive' = {[order |-> order, left |-> order.quantity, fills |-> <<>>]}
  <2>1. Abstract(Activation(book', order)) =
          [order |-> order, left |-> order.quantity, fills |-> <<>>]
    BY FillsOfLemma DEF Abstract, Activation
  <2> QED BY <1>1, <2>1, AbstractLemma, AbstractNext
<1>7. \A s \in PriceTime!LeftWithout(r) : s.id # order.id
  <2>1. id \notin DOMAIN book'.order_index
    BY <1>1, <1>2, WithdrawLemma
  <2>2. PriceTime!LeftWithout(r) = Views(book')
    BY <1>4, AbstractNext
  <2>3. \A s \in Views(book') : s.id # id
    <3> DEFINE u == book'
    <3> HIDE DEF u
    <3>1. IsBook(u) /\ Linked(u) => \A x \in DOMAIN u.order_index : View(u, x).id = x
      BY ViewFields
    <3> QED BY <1>2, <2>1, <3>1 DEF u, Views
  <2> QED BY <1>3, <2>2, <2>3
<1> QED BY <1>3, <1>4, <1>5, <1>6, <1>7 DEF PriceTime!Replace, PriceTime!Begin

\* Every step of the book is a step of the abstract book, or changes nothing
\* that it shows.
LEMMA StepRefines == RInv /\ RInv' /\ [Next]_vars => [PriceTime!Next]_(PriceTime!vars)
<1> SUFFICES ASSUME RInv, RInv', [Next]_vars PROVE PriceTime!Next \/ UNCHANGED PriceTime!vars
  OBVIOUS
<1>1. AInv /\ AInv'
  BY DEF RInv
<1>2. ASSUME book' = book, call' = call PROVE UNCHANGED PriceTime!vars
  BY <1>1, <1>2, AbstractLemma, AbstractNext DEF PriceTime!vars
<1>3. CASE UNCHANGED vars
  BY <1>2, <1>3 DEF vars
<1>4. ASSUME NEW order \in Submissions, RejectDuplicate(order) PROVE UNCHANGED PriceTime!vars
  BY <1>2, <1>4 DEF RejectDuplicate
<1>5. ASSUME NEW order \in Submissions, BeginAdd(order) PROVE PriceTime!Next
  BY <1>1, <1>5, BeginRefines DEF PriceTime!Next
<1>6. CASE MatchOne
  BY <1>1, <1>6, MatchOneRefines DEF PriceTime!Next
<1>7. CASE FinishAdd
  BY <1>1, <1>7, FinishRefines DEF PriceTime!Next
<1>8. ASSUME NEW id \in OrderId, RejectUnknown(id) PROVE UNCHANGED PriceTime!vars
  BY <1>2, <1>8 DEF RejectUnknown
<1>9. ASSUME NEW id \in OrderId, CancelOrder(id) PROVE PriceTime!Next
  BY <1>1, <1>9, CancelRefines DEF PriceTime!Next
<1>10. ASSUME NEW req \in Replacements, ReplaceOrder(req) PROVE PriceTime!Next
  BY <1>1, <1>10, ReplaceRefines DEF PriceTime!Next
<1> QED BY <1>3, <1>4, <1>5, <1>6, <1>7, <1>8, <1>9, <1>10 DEF Next

\* A fill-or-kill order that runs can get what it has left, one that may not
\* run has got nothing: what add_order checked once stays true while it matches.
THEOREM FillOrKillIsDecidedOnce == Spec => []RInv
<1>1. Init => RInv
  BY InitAInv DEF RInv, EnoughLeft, Init
<1>2. RInv /\ [Next]_vars => RInv'
  BY NextAInv, EnoughStep DEF RInv
<1> QED BY <1>1, <1>2, PTL DEF Spec

\* The book keeps price-time priority, for all orders and requests.
THEOREM BookKeepsPriceTimePriority == Spec => ImplementsPriceTimeBook
BY InitRefines, StepRefines, FillOrKillIsDecidedOnce, PTL DEF Spec, ImplementsPriceTimeBook, PriceTime!Spec

----------------------------------------------------------------------------
(* The writes without the steps: what a user of whole operations needs. *)

\* A side that has a level has a best one.
LEMMA BestExists ==
  ASSUME NEW b, IsBook(b), Counted(b), NEW side \in Side, DOMAIN b.levels[side] # {}
  PROVE  \E p \in DOMAIN b.levels[side] : IsBest(b.levels, side, p)
<1> DEFINE D == DOMAIN b.levels[side]
           T == {s \in SUBSET D : s # {} => \E p \in s : \A q \in s : ~Better(side, q, p)}
<1>1. IsFiniteSet(D) /\ D # {}
  BY DEF Counted
<1>2. \A p \in D : p \in Int
  BY QueueLemma, PriceAssumption
<1>3. ASSUME NEW s \in SUBSET D, \A x \in s : s \ {x} \in T
      PROVE  s \in T
  <2> SUFFICES ASSUME s # {} PROVE \E p \in s : \A q \in s : ~Better(side, q, p)
    OBVIOUS
  <2>1. PICK x \in s : TRUE
    OBVIOUS
  <2>2. CASE s \ {x} = {}
    <3>1. \A q \in s : q = x /\ x \in Int
      BY <1>2, <2>1, <2>2
    <3> QED BY <2>1, <3>1 DEF Better
  <2>3. CASE s \ {x} # {}
    <3>1. PICK p \in s \ {x} : \A q \in s \ {x} : ~Better(side, q, p)
      BY <1>3, <2>1, <2>3
    <3>2. p \in Int /\ x \in Int /\ \A q \in s : q \in Int
      BY <1>2, <2>1, <3>1
    <3>3. CASE Better(side, x, p)
      <4>1. \A q \in s : ~Better(side, q, x)
        BY <3>1, <3>2, <3>3 DEF Better
      <4> QED BY <2>1, <4>1
    <3>4. CASE ~Better(side, x, p)
      <4>1. \A q \in s : ~Better(side, q, p)
        BY <3>1, <3>4
      <4> QED BY <3>1, <4>1
    <3> QED BY <3>3, <3>4
  <2> QED BY <2>2, <2>3
<1>4. SUBSET D \subseteq T
  <2> HIDE DEF T, D
  <2> QED BY <1>1, <1>3, SubsetLemma
<1>5. PICK p \in D : \A q \in D : ~Better(side, q, p)
  <2>1. D \in T
    BY <1>4
  <2> QED BY <1>1, <2>1
<1> QED BY <1>5 DEF IsBest

\* The removal in cancel_order keeps a book sound.
LEMMA WithdrawSound ==
  ASSUME NEW b, Sound(b), NEW id \in DOMAIN b.order_index
  PROVE  Sound(Withdraw(b, id)) /\ id \notin DOMAIN Withdraw(b, id).order_index
<1> DEFINE u == Withdraw(b, id)
<1>1. IsBook(b) /\ Linked(b)
  BY DEF Sound
<1>2. IsBook(u) /\ Linked(u) /\ id \notin DOMAIN u.order_index
  BY <1>1, WithdrawLemma DEF BookWithin
<1>3. PICK side \in Side : \E p \in DOMAIN b.levels[side] :
        \E k \in DOMAIN b.levels[side][p] : \E rest : Loses(u, b, side, p, k, rest)
  BY <1>1, WithdrawLoses
<1>4. PICK p, k, rest : Loses(u, b, side, p, k, rest)
  BY <1>3
<1> HIDE DEF u
<1>5. Sound(u)
  BY <1>2, <1>4, LosesSound
<1> QED BY <1>2, <1>5 DEF u

\* So does add_resting_order.
LEMMA RestSound ==
  ASSUME NEW b, Sound(b), NEW order \in Order, order.id \notin DOMAIN b.order_index,
         NEW remaining \in Nat \ {0}, order.quantity - remaining \in Nat
  PROVE  Sound(Rest(b, order, remaining))
<1> DEFINE u == Rest(b, order, remaining)
           o == NewResting(b, order, remaining)
<1>1. IsBook(b) /\ Linked(b) /\ remaining \in Nat
  BY DEF Sound
<1>2. IsBook(u) /\ Linked(u)
  <2>1. BookWith(u, b, order)
    BY <1>1, RestLemma
  <2> HIDE DEF u
  <2> QED BY <2>1 DEF BookWith
<1>3. Gains(u, b, order.side, order.price, o)
  BY <1>1, RestGains
<1>4. OpenQty(o) > 0 /\ ~o.is_iceberg /\ order.side \in Side
  BY DEF NewResting, OpenQty, Order
<1> HIDE DEF u, o
<1>5. Sound(u)
  BY <1>2, <1>3, <1>4, GainsSound
<1> QED BY <1>5 DEF u

\* A fill of the front order leaves a sound book, with that much less to get.
LEMMA FrontFillSound ==
  ASSUME NEW b, Sound(b), NEW order \in Order,
         NEW p, IsBest(b.levels, Opposite(order.side), p), Crosses(order, p),
         NEW qty \in 0..OpenQty(Head(b.levels[Opposite(order.side)][p])),
         NEW u, u = FillFront(b, Opposite(order.side), p, qty)
  PROVE  /\ Sound(u)
         /\ Available(u, order) = Available(b, order) - qty
         /\ DOMAIN u.order_index \subseteq DOMAIN b.order_index
         /\ qty = OpenQty(Head(b.levels[Opposite(order.side)][p]))
              => \E x \in DOMAIN b.order_index : x \notin DOMAIN u.order_index
<1> DEFINE side == Opposite(order.side)
           front == b.levels[side][p][1]
<1>1. /\ IsBook(b) /\ Linked(b) /\ Solid(b) /\ Counted(b)
      /\ side \in Side /\ p \in DOMAIN b.levels[side]
  BY DEF Sound, IsBest, Order, Opposite, Side
<1>2. /\ front \in L3Order /\ 1 \in DOMAIN b.levels[side][p]
      /\ Head(b.levels[side][p]) = front
  BY <1>1, QueueLemma
<1>3. /\ qty \in 0..OpenQty(Head(b.levels[side][p])) /\ u = FillFront(b, side, p, qty)
      /\ qty \in 0..OpenQty(front)
  BY <1>2
<1> HIDE DEF side
<1>4. OpenQty(front) \in Nat /\ OpenQty(front) > 0 /\ ~front.is_iceberg
  BY <1>1, <1>2 DEF Solid, L3Order, OpenQty
<1>5. IsBook(u) /\ Linked(u) /\ DOMAIN u.order_index \subseteq DOMAIN b.order_index
  <2>1. BookWithin(FillFront(b, side, p, qty), b)
    BY <1>1, <1>3, FillFrontLemma
  <2> QED BY <1>3, <2>1 DEF BookWithin
<1>6. IF OpenQty(front) = qty THEN Loses(u, b, side, p, 1, Tail(b.levels[side][p]))
      ELSE Fills(u, b, side, p, FillResting(front, qty))
  BY <1>1, <1>3, FillFrontEdits
<1>7. /\ View(b, front.id).qty = OpenQty(front) /\ front.id \in DOMAIN b.order_index
  <2>1. View(b, b.levels[side][p][1].id) = Record(b, side, p, 1)
        /\ b.levels[side][p][1].id \in DOMAIN b.order_index
    BY <1>1, <1>2, ViewLemma
  <2> QED BY <2>1 DEF Record
<1> HIDE DEF front
<1>8. CASE OpenQty(front) = qty
  <2> DEFINE rest == Tail(b.levels[side][p])
  <2>1. Loses(u, b, side, p, 1, rest)
    BY <1>6, <1>8
  <2> HIDE DEF rest
  <2>2. Sound(u)
    BY <1>1, <1>5, <2>1, LosesSound
  <2>3. Available(u, order) = Available(b, order) - View(b, front.id).qty
    <3>1. Loses(u, b, Opposite(order.side), p, 1, rest)
          /\ front.id = b.levels[Opposite(order.side)][p][1].id
      BY <2>1 DEF side, front
    <3> QED BY <1>1, <1>5, <3>1, LosesAvailable
  <2>4. front.id \notin DOMAIN u.order_index
    BY <2>1 DEF Loses, front
  <2> QED BY <1>5, <1>7, <1>8, <2>2, <2>3, <2>4
<1>9. CASE OpenQty(front) # qty
  <2> DEFINE o == FillResting(front, qty)
  <2>1. Fills(u, b, side, p, o)
    BY <1>6, <1>9
  <2>2. o.id = front.id /\ OpenQty(o) = OpenQty(front) - qty /\ ~o.is_iceberg
    BY <1>2, <1>3, <1>4, FillRestingLemma, FillShown
  <2> HIDE DEF o
  <2>3. OpenQty(o) > 0
    BY <1>3, <1>4, <1>9, <2>2
  <2>4. Sound(u)
    BY <1>1, <1>5, <2>1, <2>2, <2>3, FillsSound
  <2>5. Available(u, order) = Available(b, order) - (View(b, o.id).qty - OpenQty(o))
    <3>1. Fills(u, b, Opposite(order.side), p, o)
      BY <2>1 DEF side
    <3> QED BY <1>1, <1>5, <3>1, FillsAvailable
  <2>6. View(b, o.id).qty - OpenQty(o) = qty
    BY <1>3, <1>4, <1>7, <2>2
  <2>7. Head(b.levels[Opposite(order.side)][p]) = front
    BY <1>2 DEF side
  <2> QED BY <1>5, <1>9, <2>4, <2>5, <2>6, <2>7
<1> QED BY <1>8, <1>9

----------------------------------------------------------------------------
(* The loop of add_order, one iteration after the other.  An order may have   *)
(* fields that the book does not look at.                                     *)

SameRequest(o, order) ==
  /\ o.id = order.id /\ o.trader_id = order.trader_id /\ o.side = order.side
  /\ o.type = order.type /\ o.tif = order.tif /\ o.price = order.price
  /\ o.quantity = order.quantity

\* The quantity of some trades.
Printed(trades) == SumOver([i \in DOMAIN trades |-> trades[i].qty], DOMAIN trades)

\* What the loop keeps: the order has what its trades left it, the trades are
\* those of its trader, a fill-or-kill order that may match can still get what
\* it has left, and one that may not has got nothing.
LoopInv(b, c, order) ==
  /\ Sound(b)
  /\ order \in Order /\ SameRequest(c.order, order)
  /\ c = [order |-> c.order, remaining |-> c.remaining, trades |-> c.trades,
          fillable |-> c.fillable]
  /\ c.fillable \in BOOLEAN
  /\ c.trades \in Seq(Trade)
  /\ \A i \in DOMAIN c.trades : c.trades[i].incoming_trader = order.trader_id
  /\ \A i \in DOMAIN c.trades : c.trades[i].qty > 0
  /\ Printed(c.trades) \in Nat /\ c.remaining = order.quantity - Printed(c.trades)
  /\ c.trades # <<>> => c.remaining >= 0
  /\ IF c.fillable THEN order.tif = "FOK" => c.remaining <= Available(b, order)
                   ELSE c.trades = <<>>

\* A trade more.
LEMMA PrintedAppend ==
  ASSUME NEW trades \in Seq(Trade), Printed(trades) \in Nat, NEW trade \in Trade
  PROVE  /\ Append(trades, trade) \in Seq(Trade)
         /\ Printed(Append(trades, trade)) = Printed(trades) + trade.qty
<1> DEFINE n == Len(trades)
           longer == Append(trades, trade)
           f == [i \in DOMAIN trades |-> trades[i].qty]
           g == [i \in DOMAIN longer |-> longer[i].qty]
<1>1. /\ n \in Nat /\ DOMAIN trades = 1..n /\ longer \in Seq(Trade)
      /\ DOMAIN longer = 1..(n + 1) /\ longer[n + 1] = trade
      /\ \A i \in 1..n : longer[i] = trades[i]
  OBVIOUS
<1>2. /\ 1..(n + 1) = (1..n) \cup {n + 1} /\ n + 1 \notin 1..n
  BY <1>1
<1>3. IsFiniteSet(1..n)
  BY <1>1, FS_Interval
<1> HIDE DEF n, longer
<1>4. \A i \in 1..n : f[i] = g[i]
  BY <1>1, <1>2
<1>5. \A i \in (1..n) \cup {n + 1} : g[i] \in Int
  <2>1. \A i \in 1..(n + 1) : longer[i] \in Trade
    BY <1>1
  <2> QED BY <1>1, <1>2, <2>1 DEF Trade
<1>6. g[n + 1] = trade.qty
  BY <1>1, <1>2
<1>7. Printed(trades) = SumOver(f, 1..n) /\ Printed(longer) = SumOver(g, 1..(n + 1))
  BY <1>1 DEF Printed
<1> HIDE DEF f, g
<1>8. SumOver(g, (1..n) \cup {n + 1}) = g[n + 1] + SumOver(g, 1..n)
  BY <1>2, <1>3, <1>5, SumAdd
<1>9. SumOver(f, 1..n) = SumOver(g, 1..n)
  BY <1>3, <1>4, SumSame
<1>10. Printed(longer) = trade.qty + Printed(trades)
  BY <1>2, <1>6, <1>7, <1>8, <1>9
<1>11. trade.qty \in Nat
  BY DEF Trade
<1> QED BY <1>1, <1>10, <1>11 DEF longer

\* An iteration, which takes qty from front, at price p of book b, for call c.
Iterates(b, c, p, front, qty, u, d) ==
  /\ ~MatchingDone(b, c)
  /\ IsBest(b.levels, Opposite(c.order.side), p)
  /\ front = Head(b.levels[Opposite(c.order.side)][p])
  /\ qty = LesserOf(c.remaining, OpenQty(front))
  /\ u = FillFront(b, Opposite(c.order.side), p, qty)
  /\ d = Traded(c, front, p, qty)

\* An iteration keeps it, and removes an order from the book or leaves nothing
\* of the one that trades.
LEMMA IterationLemma ==
  ASSUME NEW b, NEW c, NEW order, LoopInv(b, c, order),
         NEW p, NEW front, NEW qty, NEW u, NEW d, Iterates(b, c, p, front, qty, u, d)
  PROVE  /\ LoopInv(u, d, order)
         /\ d.order = c.order
         /\ DOMAIN u.order_index \subseteq DOMAIN b.order_index
         /\ d.remaining = 0 \/ \E x \in DOMAIN b.order_index : x \notin DOMAIN u.order_index
<1> DEFINE trade == [resting_id |-> front.id, resting_trader |-> front.trader_id,
                     incoming_trader |-> c.order.trader_id, price |-> p, qty |-> qty]
<1>1. /\ Sound(b) /\ order \in Order /\ c.order.side = order.side
      /\ c.order.trader_id = order.trader_id
      /\ \A q : Crosses(c.order, q) <=> Crosses(order, q)
  BY DEF LoopInv, SameRequest, Crosses
<1>2. IsBook(b) /\ Linked(b) /\ Solid(b) /\ Counted(b)
  BY <1>1 DEF Sound
<1>3. /\ IsBest(b.levels, Opposite(order.side), p)
      /\ front = Head(b.levels[Opposite(order.side)][p])
      /\ u = FillFront(b, Opposite(order.side), p, qty)
  BY <1>1 DEF Iterates
<1>4. order.quantity \in Int /\ c.remaining \in Int
  BY <1>1 DEF LoopInv, Order
<1>5. /\ c.fillable /\ c.remaining > 0
      /\ \E q \in DOMAIN b.levels[Opposite(order.side)] : Crosses(order, q)
  BY <1>1, <1>4 DEF Iterates, MatchingDone
<1>6. Crosses(order, p) /\ p \in DOMAIN b.levels[Opposite(order.side)]
  BY <1>1, <1>2, <1>3, <1>5, BestCrosses
<1>7. front \in L3Order /\ p \in Price /\ OpenQty(front) \in Nat /\ OpenQty(front) > 0
  <2> DEFINE side == Opposite(order.side)
  <2>1. side \in Side /\ p \in DOMAIN b.levels[side] /\ front = Head(b.levels[side][p])
    BY <1>1, <1>3, <1>6 DEF Opposite, Side
  <2> HIDE DEF side
  <2>2. /\ front = b.levels[side][p][1] /\ front \in L3Order /\ p \in Price
        /\ 1 \in DOMAIN b.levels[side][p]
    BY <1>2, <2>1, QueueLemma
  <2> QED BY <1>2, <2>1, <2>2 DEF Solid, L3Order, OpenQty
<1>8. qty \in Nat /\ qty > 0 /\ qty \in 0..OpenQty(front) /\ c.remaining >= qty
      /\ (qty = c.remaining \/ qty = OpenQty(front))
  <2>1. qty = LesserOf(c.remaining, OpenQty(front))
    BY DEF Iterates
  <2> QED BY <1>4, <1>5, <1>7, <2>1 DEF LesserOf
<1>9. /\ Sound(u) /\ Available(u, order) = Available(b, order) - qty
      /\ DOMAIN u.order_index \subseteq DOMAIN b.order_index
      /\ qty = OpenQty(front) => \E x \in DOMAIN b.order_index : x \notin DOMAIN u.order_index
  <2>1. qty \in 0..OpenQty(Head(b.levels[Opposite(order.side)][p]))
    BY <1>3, <1>8
  <2> QED BY <1>1, <1>3, <1>6, <2>1, FrontFillSound
<1>10. /\ d.order = c.order /\ d.fillable = c.fillable /\ d.remaining = c.remaining - qty
       /\ d.trades = Append(c.trades, trade)
       /\ d = [order |-> d.order, remaining |-> d.remaining, trades |-> d.trades,
               fillable |-> d.fillable]
  <2>1. d = [c EXCEPT !.remaining = @ - qty, !.trades = Append(@, trade)]
    BY DEF Iterates, Traded
  <2>2. c = [order |-> c.order, remaining |-> c.remaining, trades |-> c.trades,
             fillable |-> c.fillable]
    BY DEF LoopInv
  <2> HIDE DEF trade
  <2> QED BY <2>1, <2>2
<1>11. trade \in Trade /\ trade.qty = qty /\ trade.incoming_trader = order.trader_id
  <2>1. front.id \in OrderId /\ front.trader_id \in TraderId /\ c.order.trader_id \in TraderId
    BY <1>1, <1>7 DEF L3Order, Order
  <2> QED BY <1>1, <1>7, <1>8, <2>1 DEF Trade
<1> HIDE DEF trade
<1>12. /\ d.trades \in Seq(Trade) /\ d.trades # <<>>
       /\ \A i \in DOMAIN d.trades : d.trades[i].incoming_trader = order.trader_id
       /\ \A i \in DOMAIN d.trades : d.trades[i].qty > 0
       /\ Printed(d.trades) = Printed(c.trades) + qty
  <2> DEFINE ts == c.trades
             longer == d.trades
  <2>1. /\ ts \in Seq(Trade) /\ longer = Append(ts, trade) /\ Printed(ts) \in Nat
        /\ \A i \in DOMAIN ts : ts[i].incoming_trader = order.trader_id
        /\ \A i \in DOMAIN ts : ts[i].qty > 0
    BY <1>10 DEF LoopInv
  <2> HIDE DEF ts, longer
  <2>2. Printed(longer) = Printed(ts) + trade.qty /\ longer \in Seq(Trade)
    BY <1>11, <2>1, PrintedAppend
  <2>3. longer # <<>> /\ \A i \in DOMAIN longer : longer[i].incoming_trader = order.trader_id
    BY <1>11, <2>1
  <2>4. \A i \in DOMAIN longer : longer[i].qty > 0
    BY <1>8, <1>11, <2>1
  <2> QED BY <1>11, <2>2, <2>3, <2>4 DEF ts, longer
<1>13. d.remaining = order.quantity - Printed(d.trades) /\ Printed(d.trades) \in Nat
  <2>1. c.remaining = order.quantity - Printed(c.trades) /\ Printed(c.trades) \in Nat
    BY DEF LoopInv
  <2> QED BY <1>4, <1>8, <1>10, <1>12, <2>1
<1>14. d.remaining >= 0 /\ (qty = c.remaining => d.remaining = 0)
  BY <1>4, <1>8, <1>10
<1>15. order.tif = "FOK" => d.remaining <= Available(u, order)
  <2>1. Available(b, order) \in Int
    BY <1>1, <1>2, CanFillLemma
  <2>2. order.tif = "FOK" => c.remaining <= Available(b, order)
    BY <1>5 DEF LoopInv
  <2> QED BY <1>4, <1>8, <1>9, <1>10, <2>1, <2>2
<1>16. LoopInv(u, d, order)
  <2>1. SameRequest(d.order, order) /\ c.fillable \in BOOLEAN
    BY <1>10 DEF LoopInv
  <2> QED BY <1>1, <1>5, <1>9, <1>10, <1>12, <1>13, <1>14, <1>15, <2>1 DEF LoopInv
<1> QED BY <1>8, <1>9, <1>10, <1>14, <1>16

\* What add_order begins with.
LEMMA LoopBegins ==
  ASSUME NEW b, Sound(b), NEW order \in Order, NEW o, SameRequest(o, order)
  PROVE  LoopInv(b, Activation(b, o), order)
<1> DEFINE c == Activation(b, o)
<1>1. /\ c.order = o /\ c.remaining = o.quantity /\ c.trades = <<>>
      /\ c.fillable = (o.tif # "FOK" \/ CanFill(b, o))
      /\ c = [order |-> c.order, remaining |-> c.remaining, trades |-> c.trades,
              fillable |-> c.fillable]
  BY DEF Activation
<1> HIDE DEF c
<1>2. o.quantity = order.quantity /\ o.tif = order.tif /\ order.quantity \in Int
  BY DEF SameRequest, Order
<1>3. CanFill(b, o) <=> CanFill(b, order)
  BY DEF CanFill, Crosses, SameRequest
<1>4. CanFill(b, order) <=> Available(b, order) >= order.quantity
  BY CanFillLemma DEF Sound
<1>5. Printed(<<>>) = 0
  <2>1. DOMAIN <<>> = {} /\ IsFiniteSet({})
    BY FS_EmptySet
  <2> QED BY <2>1, SumUnfold DEF Printed
<1>6. c.fillable \in BOOLEAN
  BY <1>1 DEF CanFill
<1>7. order.tif = "FOK" /\ c.fillable => c.remaining <= Available(b, order)
  <2>1. Available(b, order) \in Int
    BY CanFillLemma DEF Sound
  <2> QED BY <1>1, <1>2, <1>3, <1>4, <2>1
<1>8. c.remaining = order.quantity - Printed(c.trades) /\ Printed(c.trades) \in Nat
  BY <1>1, <1>2, <1>5
<1>9. c.trades \in Seq(Trade) /\ DOMAIN c.trades = {}
  BY <1>1
<1>10. LoopInv(b, c, order)
  BY <1>1, <1>6, <1>7, <1>8, <1>9 DEF LoopInv
<1> QED BY <1>10 DEF c

\* When the loop is over, a fill-or-kill order that has something left has
\* traded nothing.
LEMMA KilledUntouched ==
  ASSUME NEW b, NEW c, NEW order, LoopInv(b, c, order), MatchingDone(b, c),
         order.tif = "FOK", c.remaining > 0
  PROVE  c.trades = <<>>
<1> SUFFICES ASSUME c.fillable PROVE FALSE
  BY DEF LoopInv
<1>1. c.remaining \in Int
  BY DEF LoopInv, Order
<1>2. \A p \in DOMAIN b.levels[Opposite(order.side)] : ~Crosses(order, p)
  BY <1>1 DEF MatchingDone, LoopInv, SameRequest, Crosses
<1>3. Reach(b, order) = {}
  BY <1>2 DEF Reach, At, Crossed
<1>4. Available(b, order) = 0
  <2>1. IsFiniteSet({})
    BY FS_EmptySet
  <2>2. Available(b, order) = SumOver(Open(b), {})
    BY <1>3 DEF Available
  <2> QED BY <2>1, <2>2, SumUnfold
<1> QED BY <1>1, <1>4 DEF LoopInv

----------------------------------------------------------------------------
(* The simple book.  Its operators are those of the order-level book. *)

LEMMA SimpleOperators ==
  /\ \A side : Simple!Opposite(side) = Opposite(side)
  /\ \A side, p, q : Simple!Better(side, p, q) <=> Better(side, p, q)
  /\ \A m, n : Simple!LesserOf(m, n) = LesserOf(m, n)
  /\ \A side_levels, p, queue :
       Simple!SetLevel(side_levels, p, queue) = SetLevel(side_levels, p, queue)
  /\ \A s, i : Simple!RemoveAt(s, i) = RemoveAt(s, i)
  /\ \A levels, side : Simple!InOrder(levels, side) = InOrder(levels, side)
BY DEF Simple!Opposite, Opposite, Simple!Better, Better, Simple!LesserOf, LesserOf,
       Simple!SetLevel, SetLevel, Simple!RemoveAt, RemoveAt, Simple!InOrder, InOrder,
       Simple!Cardinality, Cardinality

----------------------------------------------------------------------------
(* What the simple book has of a queue. *)

SmallOrder == [id : OrderId, qty : Nat]

Small(o) == [id |-> o.id, qty |-> OpenQty(o)]

Smalls(queue) == [i \in DOMAIN queue |-> Small(queue[i])]

\* The ids and the open quantities of a queue are a queue.
LEMMA SmallsLemma ==
  ASSUME NEW queue \in Seq(L3Order)
  PROVE  /\ Smalls(queue) \in Seq(SmallOrder)
         /\ Len(Smalls(queue)) = Len(queue) /\ DOMAIN Smalls(queue) = 1..Len(queue)
         /\ Len(queue) \in Nat
         /\ \A i \in 1..Len(queue) : Smalls(queue)[i] = Small(queue[i])
         /\ Smalls(queue) = <<>> <=> queue = <<>>
<1>1. Len(queue) \in Nat /\ DOMAIN queue = 1..Len(queue)
  OBVIOUS
<1>2. \A o \in L3Order : Small(o) \in SmallOrder
  BY DEF L3Order, Small, SmallOrder, OpenQty
<1>3. Smalls(queue) = [i \in 1..Len(queue) |-> Small(queue[i])]
  BY <1>1 DEF Smalls
<1>4. \A i \in 1..Len(queue) : Small(queue[i]) \in SmallOrder
  BY <1>1, <1>2
<1> DEFINE n == Len(queue)
           small == Smalls(queue)
<1> HIDE DEF n, small
<1>5. small \in [1..n -> SmallOrder] /\ n \in Nat
  BY <1>1, <1>3, <1>4 DEF small, n
<1>6. small \in Seq(SmallOrder) /\ Len(small) = n /\ DOMAIN small = 1..n
  BY <1>5
<1>7. small = <<>> <=> n = 0
  BY <1>5, <1>6, EmptySeq
<1>8. queue = <<>> <=> n = 0
  BY <1>1, EmptySeq DEF n
<1> QED BY <1>1, <1>3, <1>6, <1>7, <1>8 DEF small, n

\* An order of an order-level queue is one of a simple queue.
LEMMA SmallLemma ==
  ASSUME NEW o \in L3Order
  PROVE  Small(o) \in SmallOrder /\ Small(o).id = o.id /\ Small(o).qty = OpenQty(o)
BY DEF L3Order, Small, SmallOrder, OpenQty

\* An order at the back.
LEMMA SmallsAppend ==
  ASSUME NEW queue \in Seq(L3Order), NEW o \in L3Order
  PROVE  Smalls(Append(queue, o)) = Append(Smalls(queue), Small(o))
<1> DEFINE long  == Append(queue, o)
           n     == Len(queue)
           small == Smalls(queue)
           left  == Smalls(long)
           right == Append(small, Small(o))
<1>1. /\ long \in Seq(L3Order) /\ Len(long) = n + 1 /\ n \in Nat
      /\ \A i \in 1..n : long[i] = queue[i]
      /\ long[n + 1] = o
  BY AppendProperties
<1>2. /\ small \in Seq(SmallOrder) /\ Len(small) = n /\ Small(o) \in SmallOrder
      /\ \A i \in 1..n : small[i] = Small(queue[i])
  BY SmallsLemma, SmallLemma
<1>3. /\ left \in Seq(SmallOrder) /\ Len(left) = n + 1
      /\ \A i \in 1..(n + 1) : left[i] = Small(long[i])
  <2> HIDE DEF long
  <2> QED BY <1>1, SmallsLemma
<1> HIDE DEF long, left, small, n
<1>4. /\ right \in Seq(SmallOrder) /\ Len(right) = n + 1
      /\ \A i \in 1..n : right[i] = small[i]
      /\ right[n + 1] = Small(o)
  BY <1>2, AppendProperties
<1> HIDE DEF right
<1>5. \A i \in 1..(n + 1) : left[i] = right[i]
  BY <1>1, <1>2, <1>3, <1>4
<1>6. left = right
  BY <1>3, <1>4, <1>5, SeqEqual
<1> QED BY <1>6 DEF left, right, long, small

\* The front goes.
LEMMA SmallsTail ==
  ASSUME NEW queue \in Seq(L3Order), queue # <<>>
  PROVE  /\ Smalls(Tail(queue)) = Tail(Smalls(queue))
         /\ Head(Smalls(queue)) = Small(queue[1])
<1> DEFINE rest  == Tail(queue)
           n     == Len(queue)
           small == Smalls(queue)
           left  == Smalls(rest)
           right == Tail(small)
<1>1. /\ rest \in Seq(L3Order) /\ Len(rest) = n - 1 /\ n \in Nat \ {0}
      /\ \A i \in 1..(n - 1) : rest[i] = queue[i + 1]
  BY EmptySeq, HeadTailProperties
<1>2. /\ small \in Seq(SmallOrder) /\ Len(small) = n /\ small # <<>>
      /\ \A i \in 1..n : small[i] = Small(queue[i])
  BY SmallsLemma
<1>3. /\ left \in Seq(SmallOrder) /\ Len(left) = n - 1
      /\ \A i \in 1..(n - 1) : left[i] = Small(rest[i])
  <2> HIDE DEF rest
  <2> QED BY <1>1, SmallsLemma
<1> HIDE DEF rest, left, small, n
<1>4. /\ right \in Seq(SmallOrder) /\ Len(right) = n - 1
      /\ \A i \in 1..(n - 1) : right[i] = small[i + 1]
      /\ Head(small) = small[1]
  BY <1>2, HeadTailProperties
<1> HIDE DEF right
<1>5. \A i \in 1..(n - 1) : left[i] = right[i]
  <2> TAKE i \in 1..(n - 1)
  <2>1. i + 1 \in 1..n
    BY <1>1
  <2> QED BY <1>1, <1>2, <1>3, <1>4, <2>1
<1>6. left = right
  BY <1>3, <1>4, <1>5, SeqEqual
<1>7. Head(small) = Small(queue[1])
  BY <1>1, <1>2, <1>4
<1> QED BY <1>6, <1>7 DEF left, right, rest, small

\* The front becomes another order.
LEMMA SmallsFront ==
  ASSUME NEW queue \in Seq(L3Order), queue # <<>>, NEW o \in L3Order
  PROVE  Smalls(<<o>> \o Tail(queue)) = <<Small(o)>> \o Tail(Smalls(queue))
<1> DEFINE rest  == Tail(queue)
           n     == Len(rest)
           same  == <<o>> \o rest
           small == Smalls(rest)
           left  == Smalls(same)
           right == <<Small(o)>> \o small
<1>1. rest \in Seq(L3Order) /\ small = Tail(Smalls(queue))
  BY HeadTailProperties, SmallsTail
<1>2. <<o>> \in Seq(L3Order) /\ Len(<<o>>) = 1 /\ <<o>>[1] = o
  OBVIOUS
<1>3. /\ Small(o) \in SmallOrder
      /\ <<Small(o)>> \in Seq(SmallOrder) /\ Len(<<Small(o)>>) = 1 /\ <<Small(o)>>[1] = Small(o)
  BY SmallLemma
<1> HIDE DEF rest
<1>4. /\ small \in Seq(SmallOrder) /\ Len(small) = n /\ n \in Nat
      /\ \A i \in 1..n : small[i] = Small(rest[i])
  BY <1>1, SmallsLemma
<1>5. /\ same \in Seq(L3Order) /\ Len(same) = 1 + n
      /\ \A i \in 1..(1 + n) : same[i] = IF i <= 1 THEN <<o>>[i] ELSE rest[i - 1]
  BY <1>1, <1>2, ConcatProperties
<1> HIDE DEF same, small, n
<1>6. /\ left \in Seq(SmallOrder) /\ Len(left) = 1 + n
      /\ \A i \in 1..(1 + n) : left[i] = Small(same[i])
  BY <1>5, SmallsLemma
<1>7. /\ right \in Seq(SmallOrder) /\ Len(right) = 1 + n
      /\ \A i \in 1..(1 + n) : right[i] = IF i <= 1 THEN <<Small(o)>>[i] ELSE small[i - 1]
  BY <1>3, <1>4, ConcatProperties
<1> HIDE DEF left, right
<1>8. \A i \in 1..(1 + n) : left[i] = right[i]
  <2> TAKE i \in 1..(1 + n)
  <2>1. CASE i = 1
    <3>1. same[1] = o /\ right[1] = Small(o)
      BY <1>2, <1>3, <1>4, <1>5, <1>7, <2>1
    <3> QED BY <1>6, <2>1, <3>1
  <2>2. CASE i # 1
    <3>1. i - 1 \in 1..n /\ ~(i <= 1)
      BY <1>4, <2>2
    <3>2. same[i] = rest[i - 1] /\ right[i] = small[i - 1] /\ small[i - 1] = Small(rest[i - 1])
      BY <1>4, <1>5, <1>7, <3>1
    <3> QED BY <1>6, <3>2
  <2> QED BY <2>1, <2>2
<1>9. left = right
  BY <1>6, <1>7, <1>8, SeqEqual
<1> QED BY <1>1, <1>9 DEF left, right, same, small, rest

\* A cancelled order goes; that the others are renumbered does not show.
LEMMA SmallsRemoved ==
  ASSUME NEW queue \in Seq(L3Order), NEW k \in DOMAIN queue,
         NEW rest, Removed(rest, queue, k)
  PROVE  Smalls(rest) = RemoveAt(Smalls(queue), k)
<1> DEFINE n     == Len(queue)
           small == Smalls(queue)
           left  == Smalls(rest)
           right == RemoveAt(small, k)
<1>1. /\ rest \in Seq(L3Order) /\ Len(rest) = n - 1 /\ n \in Nat /\ k \in 1..n
      /\ \A i \in 1..(n - 1) : SameOrder(rest[i], IF i < k THEN queue[i] ELSE queue[i + 1])
  BY DEF Removed
<1>2. /\ small \in Seq(SmallOrder) /\ Len(small) = n /\ k \in DOMAIN small
      /\ \A i \in 1..n : small[i] = Small(queue[i])
  BY <1>1, SmallsLemma
<1>3. /\ left \in Seq(SmallOrder) /\ Len(left) = n - 1
      /\ \A i \in 1..(n - 1) : left[i] = Small(rest[i])
  BY <1>1, SmallsLemma
<1> HIDE DEF left, small
<1>4. /\ right \in Seq(SmallOrder) /\ Len(right) = n - 1
      /\ \A i \in 1..(n - 1) : right[i] = IF i < k THEN small[i] ELSE small[i + 1]
  BY <1>2, RemoveAtLemma
<1> HIDE DEF right
<1>5. \A i \in 1..(n - 1) : left[i] = right[i]
  <2> TAKE i \in 1..(n - 1)
  <2> DEFINE j == IF i < k THEN i ELSE i + 1
  <2>1. j \in 1..n
    BY <1>1
  <2>2. right[i] = small[j] /\ SameOrder(rest[i], queue[j])
    BY <1>1, <1>4
  <2> HIDE DEF j
  <2>3. queue[j] \in L3Order /\ rest[i] \in L3Order
    BY <1>1, <2>1
  <2>4. Small(rest[i]) = Small(queue[j])
    BY <2>2, <2>3, SameOrderLemma DEF Small, OpenQty
  <2> QED BY <1>2, <1>3, <2>1, <2>2, <2>4
<1>6. left = right
  BY <1>3, <1>4, <1>5, SeqEqual
<1> QED BY <1>6 DEF left, right, small

----------------------------------------------------------------------------
(* What the simple book has of a book, and the writes of the two. *)

Flat(b) == [s \in Side |-> [p \in DOMAIN b.levels[s] |-> Smalls(b.levels[s][p])]]

\* A queue put at a price of one side.
Put(levels, side, p, queue) == [levels EXCEPT ![side] = SetLevel(@, p, queue)]

\* A queue that is put in its place is put in its place in the simple book.
LEMMA FlatChanged ==
  ASSUME NEW b, NEW u, NEW side \in Side, NEW p, NEW queue \in Seq(L3Order),
         Changed(u, b, side, p, queue)
  PROVE  Flat(u) = Put(Flat(b), side, p, Smalls(queue))
<1> DEFINE small == Smalls(queue)
           D     == DOMAIN b.levels[side]
           E     == DOMAIN u.levels[side]
           new   == [q \in E |-> Smalls(u.levels[side][q])]
           old   == [q \in D |-> Smalls(b.levels[side][q])]
<1>1. small = <<>> <=> queue = <<>>
  BY SmallsLemma
<1>2. /\ \A s \in Side : s # side => u.levels[s] = b.levels[s]
      /\ E = IF queue = <<>> THEN D \ {p} ELSE D \cup {p}
      /\ \A q \in E : u.levels[side][q] = IF q = p THEN queue ELSE b.levels[side][q]
  BY DEF Changed
<1>3. E = (D \cup {p}) \ {x \in {p} : small = <<>>}
  BY <1>1, <1>2
<1>4. \A q \in E : new[q] = IF q = p THEN small ELSE old[q]
  <2> TAKE q \in E
  <2>1. q # p => q \in D
    BY <1>2
  <2> QED BY <1>2, <2>1
<1>5. new = SetLevel(old, p, small)
  <2>1. DOMAIN old = D /\ new = [q \in E |-> new[q]]
    OBVIOUS
  <2> HIDE DEF new, old, small, D, E
  <2> QED BY <1>3, <1>4, <2>1 DEF SetLevel
<1>6. Flat(b)[side] = old /\ Flat(u)[side] = new
  BY DEF Flat
<1>7. \A s \in Side : s # side => Flat(u)[s] = Flat(b)[s]
  BY <1>2 DEF Flat
<1>8. /\ Flat(u) = [s \in Side |-> Flat(u)[s]]
      /\ Flat(b) = [s \in Side |-> Flat(b)[s]]
  BY DEF Flat
<1> HIDE DEF new, old, small
<1> QED BY <1>5, <1>6, <1>7, <1>8 DEF small, Put

\* A queue of the book, and the absence of one.
LEMMA FlatQueue ==
  ASSUME NEW b, NEW side \in Side, NEW p
  PROVE  /\ DOMAIN Flat(b)[side] = DOMAIN b.levels[side]
         /\ p \in DOMAIN b.levels[side] => Flat(b)[side][p] = Smalls(b.levels[side][p])
         /\ Smalls(QueueAt(b, side, p)) =
              IF p \in DOMAIN Flat(b)[side] THEN Flat(b)[side][p] ELSE <<>>
BY DEF Flat, QueueAt, Smalls

\* What cancelOrder leaves.
TakenOut(levels, loc, id) ==
  LET queue == levels[loc.side][loc.price]
      it    == CHOOSE i \in DOMAIN queue : queue[i].id = id
  IN  Put(levels, loc.side, loc.price, RemoveAt(queue, it))

\* An order that is withdrawn.
LEMMA FlatWithdraw ==
  ASSUME NEW b, IsBook(b), Linked(b), NEW id \in DOMAIN b.order_index
  PROVE  LET u == Withdraw(b, id)
         IN  /\ Flat(u) = TakenOut(Flat(b), b.order_index[id], id)
             /\ u.order_index = [x \in DOMAIN b.order_index \ {id} |-> b.order_index[x]]
<1> DEFINE u == Withdraw(b, id)
<1>1. u.order_index = [x \in DOMAIN b.order_index \ {id} |-> b.order_index[x]]
  BY DEF Withdraw, Unlink
<1>2. PICK side \in Side : \E p \in DOMAIN b.levels[side] :
        \E k \in DOMAIN b.levels[side][p] : \E rest :
          Loses(Withdraw(b, id), b, side, p, k, rest) /\ b.levels[side][p][k].id = id
  BY WithdrawLoses
<1>3. PICK p \in DOMAIN b.levels[side] : \E k \in DOMAIN b.levels[side][p] : \E rest :
        Loses(Withdraw(b, id), b, side, p, k, rest) /\ b.levels[side][p][k].id = id
  BY <1>2
<1>4. PICK k \in DOMAIN b.levels[side][p] : \E rest :
        Loses(u, b, side, p, k, rest) /\ b.levels[side][p][k].id = id
  BY <1>3
<1>5. PICK rest : Loses(u, b, side, p, k, rest)
  BY <1>4
<1> HIDE DEF u
<1> DEFINE queue == b.levels[side][p]
           small == Smalls(queue)
           it    == CHOOSE i \in DOMAIN small : small[i].id = id
<1>6. b.order_index[id].side = side /\ b.order_index[id].price = p
  <2>1. b.order_index[id] = [side |-> side, price |-> p]
    BY <1>4, LinkedLemma
  <2> QED BY <2>1
<1>7. queue \in Seq(L3Order) /\ \A i \in DOMAIN queue : queue[i].id = id => i = k
  <2>1. \A i, j \in DOMAIN queue : queue[i].id = queue[j].id => i = j
    BY DistinctLemma
  <2> QED BY <1>4, <2>1, QueueLemma
<1>8. /\ DOMAIN small = DOMAIN queue /\ k \in DOMAIN small
      /\ \A i \in DOMAIN small : small[i].id = queue[i].id
  BY DEF Smalls, Small
<1>9. it = k
  <2>1. small[k].id = id
    BY <1>4, <1>8
  <2> HIDE DEF small, queue
  <2>2. it \in DOMAIN small /\ small[it].id = id
    BY <1>8, <2>1
  <2> HIDE DEF it
  <2> QED BY <1>7, <1>8, <2>2
<1>10. Changed(u, b, side, p, rest) /\ Removed(rest, queue, k)
  BY <1>5 DEF Loses
<1>11. rest \in Seq(L3Order) /\ Smalls(rest) = RemoveAt(small, k)
  <2>1. rest \in Seq(L3Order)
    BY <1>10 DEF Removed
  <2> HIDE DEF queue
  <2> QED BY <1>7, <1>8, <1>10, <2>1, SmallsRemoved
<1>12. Flat(u) = Put(Flat(b), side, p, Smalls(rest))
  BY <1>10, <1>11, FlatChanged
<1>13. Flat(b)[side][p] = small
  BY FlatQueue
<1> HIDE DEF small, it
<1>14. /\ Flat(u) = Put(Flat(b), side, p, RemoveAt(small, it))
       /\ it = CHOOSE i \in DOMAIN small : small[i].id = id
  BY <1>9, <1>11, <1>12 DEF it
<1>15. Flat(u) = TakenOut(Flat(b), b.order_index[id], id)
  BY <1>6, <1>13, <1>14 DEF TakenOut
<1> QED BY <1>1, <1>15 DEF u

----------------------------------------------------------------------------
(* The calls of the simple book that withdrawals and iterations are. *)

\* What the simple book prints for some trades.
PrintsOf(trades) ==
  [i \in DOMAIN trades |-> Simple!Printed(trades[i].resting_id, trades[i].price, trades[i].qty)]

\* The matchIncoming that runs while an add_order does that may match.
Running(c) == [order |-> c.order, remaining |-> c.remaining, trades |-> PrintsOf(c.trades)]

\* A trade more is a print more.
LEMMA PrintsOfLemma ==
  /\ PrintsOf(<<>>) = <<>>
  /\ \A trades \in Seq(Trade), t \in Trade :
       PrintsOf(Append(trades, t)) =
         Append(PrintsOf(trades), Simple!Printed(t.resting_id, t.price, t.qty))
<1>1. PrintsOf(<<>>) = <<>>
  BY DEF PrintsOf
<1>2. ASSUME NEW trades \in Seq(Trade), NEW t \in Trade
      PROVE  PrintsOf(Append(trades, t)) =
               Append(PrintsOf(trades), Simple!Printed(t.resting_id, t.price, t.qty))
  <2> DEFINE AsPrinted(u) == Simple!Printed(u.resting_id, u.price, u.qty)
             F == {AsPrinted(u) : u \in Trade}
             long == Append(trades, t)
             n == Len(trades)
  <2>1. \A u \in Trade : AsPrinted(u) \in F
    OBVIOUS
  <2>2. /\ long \in Seq(Trade) /\ DOMAIN long = 1..(n + 1) /\ n \in Nat /\ DOMAIN trades = 1..n
        /\ \A i \in 1..n : long[i] = trades[i] /\ trades[i] \in Trade
        /\ long[n + 1] = t
    BY AppendProperties
  <2>3. PrintsOf(trades) = [i \in 1..n |-> AsPrinted(trades[i])]
    BY <2>2 DEF PrintsOf
  <2>4. PrintsOf(long) = [i \in 1..(n + 1) |-> AsPrinted(long[i])]
    BY <2>2 DEF PrintsOf
  <2> HIDE DEF long, AsPrinted, F
  <2>5. PrintsOf(trades) \in Seq(F) /\ Len(PrintsOf(trades)) = n
    <3>1. \A i \in 1..n : AsPrinted(trades[i]) \in F
      BY <2>1, <2>2
    <3> HIDE DEF n
    <3> QED BY <2>2, <2>3, <3>1
  <2>6. Append(PrintsOf(trades), AsPrinted(t)) = [i \in 1..(n + 1) |-> AsPrinted(long[i])]
    <3> DEFINE ps == PrintsOf(trades)
    <3>1. /\ Append(ps, AsPrinted(t)) \in Seq(F)
          /\ DOMAIN Append(ps, AsPrinted(t)) = 1..(n + 1)
          /\ \A i \in 1..n : Append(ps, AsPrinted(t))[i] = ps[i]
          /\ Append(ps, AsPrinted(t))[n + 1] = AsPrinted(t)
      <4> HIDE DEF ps, n
      <4> QED BY <2>1, <2>2, <2>5, AppendProperties DEF ps
    <3>2. \A i \in 1..n : ps[i] = AsPrinted(long[i])
      BY <2>2, <2>3
    <3> HIDE DEF ps, n
    <3>3. \A i \in 1..(n + 1) : Append(ps, AsPrinted(t))[i] = AsPrinted(long[i])
      BY <2>2, <3>1, <3>2
    <3> DEFINE more == Append(ps, AsPrinted(t))
    <3>4. /\ more \in Seq(F) /\ DOMAIN more = 1..(n + 1)
          /\ \A i \in 1..(n + 1) : more[i] = AsPrinted(long[i])
      BY <3>1, <3>3
    <3> HIDE DEF more
    <3>5. more = [i \in DOMAIN more |-> more[i]]
      BY <3>4
    <3>6. more = [i \in 1..(n + 1) |-> AsPrinted(long[i])]
      BY <3>4, <3>5
    <3> QED BY <3>6 DEF more, ps
  <2> QED BY <2>4, <2>6 DEF long, AsPrinted
<1> QED BY <1>1, <1>2

LEMMA SimpleState ==
  /\ SimpleLevels = Flat(book) /\ SimpleLevels' = Flat(book')
  /\ SimpleIncoming = {Running(c) : c \in {d \in call : d.fillable}}
  /\ SimpleIncoming' = {Running(c) : c \in {d \in call' : d.fillable}}
<1>1. SimpleLevels = Flat(book) /\ SimpleLevels' = Flat(book')
  BY DEF SimpleLevels, Flat, Smalls, Small
<1>2. /\ SimpleIncoming = {Running(c) : c \in {d \in call : d.fillable}}
      /\ SimpleIncoming' = {Running(c) : c \in {d \in call' : d.fillable}}
  BY DEF SimpleIncoming, Running, PrintsOf, Simple!Printed
<1> QED BY <1>1, <1>2

\* The two tests of a price are one.
LEMMA SameMatches ==
  ASSUME NEW order \in Order, NEW p
  PROVE  Simple!Matches(order, p) <=> Crosses(order, p)
BY SimpleOperators DEF Simple!Matches, Crosses, Order, OrderType

\* cancel_order takes out what cancelOrder does.
LEMMA CancelsSimply ==
  ASSUME AInv, NEW id \in DOMAIN book.order_index, book' = Withdraw(book, id)
  PROVE  Simple!cancelOrder(id)
<1> DEFINE loc   == book.order_index[id]
           queue == SimpleLevels[loc.side][loc.price]
           it    == CHOOSE i \in DOMAIN queue : queue[i].id = id
<1>1. IsBook(book) /\ Linked(book)
  BY DEF AInv, Sound
<1>2. /\ SimpleLevels' = TakenOut(SimpleLevels, loc, id)
      /\ book'.order_index = [x \in DOMAIN book.order_index \ {id} |-> book.order_index[x]]
  BY <1>1, SimpleState, FlatWithdraw
<1>3. SimpleLevels' = [SimpleLevels EXCEPT ![loc.side] =
                         Simple!SetLevel(@, loc.price, Simple!RemoveAt(queue, it))]
  <2>1. SimpleLevels' = [SimpleLevels EXCEPT ![loc.side] =
                           SetLevel(@, loc.price, RemoveAt(queue, it))]
    BY <1>2 DEF TakenOut, Put
  <2> HIDE DEF it, queue, loc
  <2> QED BY <2>1, SimpleOperators
<1> QED BY <1>2, <1>3 DEF Simple!cancelOrder

\* An iteration of match_against is one of matchIncoming.
LEMMA MatchesSimply ==
  ASSUME AInv, MatchOne
  PROVE  Simple!MatchFront
<1>1. PICK c, d, side, p, qty : MatchEdit(c, d, side, p, qty) /\ Matches(c, d, side, p, qty)
  BY MatchOneEdits
<1> DEFINE queue == book.levels[side][p]
           front == queue[1]
           small == Smalls(queue)
           r     == Small(front)
           o     == FillResting(front, qty)
           m     == Running(c)
           trade == [resting_id |-> front.id, resting_trader |-> front.trader_id,
                     incoming_trader |-> c.order.trader_id, price |-> p, qty |-> qty]
<1>2. /\ Sound(book) /\ IsBook(book) /\ Linked(book)
      /\ c \in call /\ c \in AddOrderCall /\ call' = {d}
      /\ c.order \in Order /\ c.remaining \in Int /\ c.trades \in Seq(Trade)
  BY <1>1 DEF AInv, Sound, IInv, TypeOK, MatchEdit, AddOrderCall
<1>3. /\ side \in Side /\ p \in DOMAIN book.levels[side] /\ front \in L3Order
      /\ qty \in 0..OpenQty(front)
      /\ side = Opposite(c.order.side) /\ IsBest(book.levels, side, p)
      /\ qty = LesserOf(c.remaining, OpenQty(front))
      /\ d = Traded(c, front, p, qty)
      /\ book' = FillFront(book, side, p, qty)
  BY <1>1 DEF MatchEdit, Matches
<1>4. c.fillable /\ c.remaining > 0 /\ \E q \in DOMAIN book.levels[side] : Crosses(c.order, q)
  <2> HIDE DEF queue, front, small, r, o, trade, m
  <2>1. ~MatchingDone(book, c) /\ side = Opposite(c.order.side)
    BY <1>1 DEF Matches
  <2> QED BY <1>2, <2>1 DEF MatchingDone
<1>5. Crosses(c.order, p)
  BY <1>2, <1>3, <1>4, BestCrosses
<1>6. queue \in Seq(L3Order) /\ queue # <<>> /\ p \in Price /\ Head(queue) = front
  <2>1. IsBook(book) /\ side \in Side /\ p \in DOMAIN book.levels[side]
    BY <1>2, <1>3
  <2> HIDE DEF small, r, o, trade, m
  <2> QED BY <2>1, QueueLemma
<1>7. OpenQty(front) \in Nat /\ qty \in Nat
  <2>1. front \in L3Order /\ qty \in 0..OpenQty(front)
    BY <1>3
  <2> HIDE DEF front, o
  <2>2. OpenQty(front) \in Nat
    BY <2>1 DEF L3Order, OpenQty
  <2> QED BY <2>1, <2>2
<1>8. o \in L3Order /\ o.id = front.id /\ OpenQty(o) = OpenQty(front) - qty
  <2>1. front \in L3Order /\ qty \in 0..OpenQty(front)
    BY <1>3
  <2> HIDE DEF front
  <2> QED BY <2>1, FillRestingLemma
<1>9. trade \in Trade
  <2>1. front.id \in OrderId /\ front.trader_id \in TraderId /\ c.order.trader_id \in TraderId
    BY <1>2, <1>3 DEF L3Order, Order
  <2> QED BY <1>6, <1>7, <2>1 DEF Trade
<1>10. r.id = front.id /\ r.qty = OpenQty(front)
  BY DEF Small
<1>11. /\ small = SimpleLevels[side][p] /\ p \in DOMAIN SimpleLevels[side]
       /\ DOMAIN SimpleLevels[side] = DOMAIN book.levels[side]
       /\ Head(small) = r /\ Smalls(Tail(queue)) = Tail(small)
  <2>1. /\ DOMAIN SimpleLevels[side] = DOMAIN book.levels[side]
        /\ SimpleLevels[side][p] = Smalls(book.levels[side][p])
    BY <1>3, SimpleState, FlatQueue
  <2>2. Head(Smalls(queue)) = Small(queue[1]) /\ Smalls(Tail(queue)) = Tail(Smalls(queue))
    <3> HIDE DEF queue
    <3> QED BY <1>6, SmallsTail
  <2> QED BY <1>3, <2>1, <2>2
<1>12. /\ d = [c EXCEPT !.remaining = @ - qty, !.trades = Append(@, trade)]
       /\ d.order = c.order /\ d.fillable = c.fillable /\ d.remaining = c.remaining - qty
       /\ d.trades = Append(c.trades, trade)
  <2>1. d = [c EXCEPT !.remaining = @ - qty, !.trades = Append(@, trade)]
    BY <1>3 DEF Traded
  <2>2. c = [order |-> c.order, remaining |-> c.remaining, trades |-> c.trades,
             fillable |-> c.fillable]
    BY <1>2 DEF AddOrderCall
  <2> HIDE DEF trade
  <2> QED BY <2>1, <2>2
<1>13. trade.resting_id = r.id /\ trade.price = p /\ trade.qty = qty
  BY <1>10
<1>14. IF qty = r.qty
       THEN Changed(book', book, side, p, Tail(queue))
       ELSE Changed(book', book, side, p, <<o>> \o Tail(queue))
  <2>1. IF qty = OpenQty(front) THEN Loses(book', book, side, p, 1, Tail(queue))
                                ELSE Fills(book', book, side, p, o)
    BY <1>1 DEF MatchEdit
  <2> QED BY <1>10, <2>1 DEF Loses, Fills
<1>15. book'.order_index =
         [x \in DOMAIN book.order_index \ {y \in {r.id} : r.qty = qty} |-> book.order_index[x]]
  <2>1. book' = IF OpenQty(o) = 0 THEN Unlink(book, side, p, o.id, Tail(queue))
                ELSE [book EXCEPT !.levels[side][p] = <<o>> \o Tail(queue)]
    BY <1>3, <1>6 DEF FillFront
  <2>2. OpenQty(o) = 0 <=> r.qty = qty
    <3> HIDE DEF o, r, front
    <3> QED BY <1>7, <1>8, <1>10
  <2>3. /\ book = [levels |-> book.levels, order_index |-> book.order_index,
                   order_count |-> book.order_count]
        /\ book.order_index = [x \in DOMAIN book.order_index |-> book.order_index[x]]
    BY <1>2 DEF IsBook, PartialFunction
  <2>4. CASE r.qty = qty
    <3>1. book'.order_index = [x \in DOMAIN book.order_index \ {o.id} |-> book.order_index[x]]
      <4> HIDE DEF o, r, queue
      <4> QED BY <2>1, <2>2, <2>4 DEF Unlink
    <3>2. {y \in {r.id} : r.qty = qty} = {o.id}
      <4> HIDE DEF o, r, front
      <4> QED BY <1>8, <1>10, <2>4
    <3> QED BY <3>1, <3>2
  <2>5. CASE r.qty # qty
    <3> HIDE DEF o, r, queue
    <3>1. book'.order_index = book.order_index
      BY <2>1, <2>2, <2>3, <2>5
    <3>2. DOMAIN book.order_index \ {y \in {r.id} : r.qty = qty} = DOMAIN book.order_index
      BY <2>5
    <3> QED BY <2>3, <3>1, <3>2
  <2> QED BY <2>4, <2>5
<1>16. m \in SimpleIncoming /\ SimpleIncoming' = {Running(d)}
  <2>1. {e \in call' : e.fillable} = {d}
    BY <1>2, <1>4, <1>12
  <2> HIDE DEF small, r, o, trade
  <2> QED BY <1>2, <1>4, <2>1, SimpleState
<1>17. Running(d) = [m EXCEPT !.remaining = @ - qty,
                              !.trades = Append(@, Simple!Printed(r.id, p, qty))]
  <2>1. PrintsOf(d.trades) = Append(PrintsOf(c.trades), Simple!Printed(r.id, p, qty))
    <3> HIDE DEF trade, r
    <3> QED BY <1>2, <1>9, <1>12, <1>13, PrintsOfLemma
  <2> DEFINE prints == PrintsOf(c.trades)
             t      == Simple!Printed(r.id, p, qty)
             more   == Append(prints, t)
  <2>2. Running(d) = [order |-> c.order, remaining |-> c.remaining - qty, trades |-> more]
    BY <1>12, <2>1 DEF Running
  <2>3. m = [order |-> c.order, remaining |-> c.remaining, trades |-> prints]
    BY DEF Running
  <2> HIDE DEF m, prints, t
  <2>4. m.order = c.order /\ m.remaining = c.remaining /\ m.trades = prints
    BY <2>3
  <2> DEFINE after == c.remaining - qty
  <2>5. [m EXCEPT !.remaining = @ - qty, !.trades = Append(@, t)] =
          [m EXCEPT !.remaining = after, !.trades = more]
    BY <2>4
  <2> HIDE DEF after, more
  <2>6. [m EXCEPT !.remaining = after, !.trades = more] =
          [order |-> c.order, remaining |-> after, trades |-> more]
    <3> DEFINE e == [m EXCEPT !.remaining = after, !.trades = more]
    <3>1. e.order = c.order /\ e.remaining = after /\ e.trades = more
      BY <2>3
    <3>2. m \in [order : {c.order}, remaining : {c.remaining}, trades : {prints}]
      BY <2>3
    <3>3. e \in [order : {c.order}, remaining : {after}, trades : {more}]
      BY <3>2
    <3> HIDE DEF e
    <3>4. e = [order |-> e.order, remaining |-> e.remaining, trades |-> e.trades]
      BY <3>3
    <3>5. e = [order |-> c.order, remaining |-> after, trades |-> more]
      BY <3>1, <3>4
    <3> QED BY <3>5 DEF e
  <2> QED BY <2>2, <2>5, <2>6 DEF t, after, more
<1>18. m.remaining = c.remaining /\ m.order = c.order
  BY DEF Running
<1> DEFINE left == IF r.qty = qty THEN Tail(small)
                   ELSE <<[r EXCEPT !.qty = @ - qty]>> \o Tail(small)
<1>19. SimpleLevels' = Put(SimpleLevels, side, p, left)
  <2>1. CASE r.qty = qty
    <3>1. Changed(book', book, side, p, Tail(queue))
      BY <1>14, <2>1
    <3>2. Tail(queue) \in Seq(L3Order)
      <4> HIDE DEF queue
      <4> QED BY <1>6, HeadTailProperties
    <3> HIDE DEF queue
    <3>3. Flat(book') = Put(Flat(book), side, p, Smalls(Tail(queue)))
      <4> DEFINE u    == book'
                 rest == Tail(queue)
      <4>1. side \in Side /\ rest \in Seq(L3Order) /\ Changed(u, book, side, p, rest)
        BY <1>3, <3>1, <3>2
      <4> HIDE DEF u, rest
      <4>2. Flat(u) = Put(Flat(book), side, p, Smalls(rest))
        BY <4>1, FlatChanged
      <4> QED BY <4>2 DEF u, rest
    <3>4. left = Smalls(Tail(queue))
      <4> HIDE DEF r, small
      <4> QED BY <1>11, <2>1
    <3> QED BY <3>3, <3>4, SimpleState
  <2>2. CASE r.qty # qty
    <3> DEFINE same == <<o>> \o Tail(queue)
    <3>1. Changed(book', book, side, p, same)
      BY <1>14, <2>2
    <3>2. same \in Seq(L3Order) /\ Smalls(same) = <<Small(o)>> \o Tail(small)
      <4> HIDE DEF queue, o
      <4>1. Tail(queue) \in Seq(L3Order) /\ <<o>> \in Seq(L3Order)
        BY <1>6, <1>8, HeadTailProperties
      <4> QED BY <1>6, <1>8, <4>1, ConcatProperties, SmallsFront
    <3>3. Small(o) = [r EXCEPT !.qty = @ - qty]
      <4> HIDE DEF o, front
      <4> QED BY <1>8 DEF Small
    <3> HIDE DEF same
    <3>4. Flat(book') = Put(Flat(book), side, p, Smalls(same))
      <4> DEFINE u == book'
      <4>1. side \in Side /\ same \in Seq(L3Order) /\ Changed(u, book, side, p, same)
        BY <1>3, <3>1, <3>2
      <4> HIDE DEF u
      <4>2. Flat(u) = Put(Flat(book), side, p, Smalls(same))
        BY <4>1, FlatChanged
      <4> QED BY <4>2 DEF u
    <3>5. left = Smalls(same)
      <4> HIDE DEF r, small, o
      <4> QED BY <2>2, <3>2, <3>3
    <3> QED BY <3>4, <3>5, SimpleState
  <2> QED BY <2>1, <2>2
<1>20. /\ Simple!Opposite(m.order.side) = side /\ Simple!LesserOf(m.remaining, r.qty) = qty
       /\ Simple!IsBest(SimpleLevels, side, p) /\ Simple!Matches(m.order, p)
  <2>1. Simple!Opposite(m.order.side) = side /\ Simple!LesserOf(m.remaining, r.qty) = qty
    <3> HIDE DEF m, r
    <3> QED BY <1>3, <1>10, <1>18, SimpleOperators
  <2>2. Simple!IsBest(SimpleLevels, side, p)
    BY <1>3, <1>11, SimpleOperators DEF Simple!IsBest, IsBest
  <2>3. Simple!Matches(m.order, p)
    BY <1>2, <1>5, <1>18, SameMatches
  <2> QED BY <2>1, <2>2, <2>3
<1> HIDE DEF m, r, small, trade, o, front, queue
<1>21. SimpleLevels' = [SimpleLevels EXCEPT ![side] = Simple!SetLevel(@, p, left)]
  BY <1>19, SimpleOperators DEF Put
<1>22. m.remaining > 0
  BY <1>4, <1>18
<1> DEFINE Iteration(e, q) ==
             LET s           == Simple!Opposite(e.order.side)
                 line        == SimpleLevels[s][q]
                 resting     == Head(line)
                 matched_qty == Simple!LesserOf(e.remaining, resting.qty)
                 gone        == resting.qty = matched_qty
             IN  /\ Simple!IsBest(SimpleLevels, s, q)
                 /\ Simple!Matches(e.order, q)
                 /\ SimpleIncoming' =
                      {[e EXCEPT !.remaining = @ - matched_qty,
                                 !.trades = Append(@, Simple!Printed(resting.id, q, matched_qty))]}
                 /\ SimpleLevels' = [SimpleLevels EXCEPT ![s] =
                      Simple!SetLevel(@, q, IF gone THEN Tail(line)
                                            ELSE <<[resting EXCEPT !.qty = @ - matched_qty]>>
                                                   \o Tail(line))]
                 /\ book'.order_index =
                      [id \in DOMAIN book.order_index \ {x \in {resting.id} : gone} |->
                         book.order_index[id]]
<1>23. Iteration(m, p)
  BY <1>11, <1>15, <1>16, <1>17, <1>20, <1>21
<1>24. p \in DOMAIN SimpleLevels[Simple!Opposite(m.order.side)]
  BY <1>11, <1>20
<1> QED BY <1>16, <1>22, <1>23, <1>24, Zenon DEF Simple!MatchFront

----------------------------------------------------------------------------
(* The levels of a side in their order. *)

\* The prices that are better than one.
BetterThan(D, side, p) == {q \in D : Better(side, q, p)}

\* Of two prices, fewer are better than the better one.
LEMMA BetterThanLemma ==
  ASSUME NEW D, D \subseteq Int, IsFiniteSet(D), NEW side \in Side,
         NEW p \in D, NEW q \in D, Better(side, p, q)
  PROVE  Cardinality(BetterThan(D, side, p)) < Cardinality(BetterThan(D, side, q))
<1> DEFINE A == BetterThan(D, side, p)
           B == BetterThan(D, side, q)
<1>1. p \in Int /\ q \in Int
  OBVIOUS
<1>2. p \in B /\ p \notin A
  BY <1>1 DEF BetterThan, Better, Side
<1>3. A \subseteq B
  <2> SUFFICES ASSUME NEW x \in D, Better(side, x, p) PROVE Better(side, x, q)
    BY DEF BetterThan
  <2>1. x \in Int
    OBVIOUS
  <2> QED BY <1>1, <2>1 DEF Better
<1>4. IsFiniteSet(B) /\ IsFiniteSet(A)
  BY FS_Subset DEF BetterThan
<1>5. Cardinality(A) <= Cardinality(B) /\ Cardinality(A) # Cardinality(B)
  BY <1>2, <1>3, <1>4, FS_Subset
<1>6. Cardinality(A) \in Int /\ Cardinality(B) \in Int
  BY <1>4, FS_CardinalityType
<1> HIDE DEF A, B
<1> QED BY <1>5, <1>6 DEF A, B

\* Each place of the order has one price, of which so many are better.
LEMMA RankLemma ==
  ASSUME NEW D, D \subseteq Int, IsFiniteSet(D), NEW side \in Side
  PROVE  \A k \in 0..(Cardinality(D) - 1) : \E p \in D : Cardinality(BetterThan(D, side, p)) = k
<1> DEFINE n == Cardinality(D)
           S == 0..(n - 1)
           rank == [p \in D |-> Cardinality(BetterThan(D, side, p))]
<1>1. n \in Nat
  BY FS_CardinalityType
<1>2. \A p \in D : rank[p] \in S
  <2> TAKE p \in D
  <2> DEFINE A == BetterThan(D, side, p)
  <2>1. p \notin A /\ A \subseteq D
    <3>1. p \in Int
      OBVIOUS
    <3> QED BY <3>1 DEF BetterThan, Better, Side
  <2>2. IsFiniteSet(A) /\ Cardinality(A) <= n /\ (Cardinality(A) = n => A = D)
    BY <2>1, FS_Subset
  <2>3. Cardinality(A) \in Nat
    BY <2>2, FS_CardinalityType
  <2>4. Cardinality(A) # n
    BY <2>1, <2>2
  <2> HIDE DEF A
  <2>5. Cardinality(A) \in S
    BY <1>1, <2>2, <2>3, <2>4
  <2> QED BY <2>5 DEF A
<1>3. \A p, q \in D : rank[p] = rank[q] => p = q
  <2> SUFFICES ASSUME NEW p \in D, NEW q \in D, p # q PROVE rank[p] # rank[q]
    OBVIOUS
  <2>1. Better(side, p, q) \/ Better(side, q, p)
    BY DEF Better
  <2>2. rank[p] < rank[q] \/ rank[q] < rank[p]
    BY <2>1, BetterThanLemma
  <2>3. rank[p] \in Int /\ rank[q] \in Int
    BY <1>1, <1>2
  <2> HIDE DEF rank
  <2> QED BY <2>2, <2>3
<1>4. IsFiniteSet(S) /\ Cardinality(S) = n
  BY <1>1, FS_Interval
<1>5. rank \in Injection(D, S)
  <2>1. rank \in [D -> S]
    BY <1>2
  <2> QED BY <1>3, <2>1 DEF Injection, IsInjective
<1>6. rank \in Surjection(D, S)
  <2> HIDE DEF rank, S
  <2> QED BY <1>4, <1>5, FS_Injection
<1>7. \A k \in S : \E p \in D : rank[p] = k
  BY <1>6 DEF Surjection
<1> QED BY <1>7

\* The order of a side has its prices, and a better one comes first.
LEMMA OrderLemma ==
  ASSUME NEW levels, NEW side \in Side,
         DOMAIN levels[side] \subseteq Int, IsFiniteSet(DOMAIN levels[side])
  PROVE  LET prices == InOrder(levels, side)
             D == DOMAIN levels[side]
         IN  /\ Len(prices) = Cardinality(D) /\ DOMAIN prices = 1..Cardinality(D)
             /\ Cardinality(D) \in Nat
             /\ \A i \in DOMAIN prices : prices[i] \in D
             /\ \A i, j \in DOMAIN prices : i < j => Better(side, prices[i], prices[j])
             /\ D # {} => 1 \in DOMAIN prices /\ IsBest(levels, side, prices[1])
<1> DEFINE D == DOMAIN levels[side]
           n == Cardinality(D)
           prices == InOrder(levels, side)
           Rank(p) == Cardinality(BetterThan(D, side, p))
<1>1. n \in Nat /\ (n = 0 => D = {})
  BY FS_CardinalityType, FS_EmptySet
<1>2. prices = [i \in 1..n |-> CHOOSE p \in D : Rank(p) = i - 1]
  BY DEF InOrder, BetterThan
<1>3. \A i \in 1..n : prices[i] \in D /\ Rank(prices[i]) = i - 1
  <2> TAKE i \in 1..n
  <2>1. i - 1 \in 0..(n - 1)
    BY <1>1
  <2>2. \E p \in D : Rank(p) = i - 1
    BY <2>1, RankLemma
  <2> HIDE DEF Rank, prices
  <2> QED BY <1>2, <2>2
<1>4. Len(prices) = n /\ DOMAIN prices = 1..n
  <2> HIDE DEF n
  <2> QED BY <1>1, <1>2
<1>5. ASSUME NEW i \in 1..n, NEW j \in 1..n, i < j
      PROVE  Better(side, prices[i], prices[j])
  <2> DEFINE p == prices[i]
             q == prices[j]
  <2>1. p \in D /\ q \in D /\ Rank(p) < Rank(q)
    <3> HIDE DEF Rank, prices
    <3> QED BY <1>3, <1>5
  <2>2. Rank(p) \in Int /\ Rank(q) \in Int
    <3>1. Rank(p) = i - 1 /\ Rank(q) = j - 1
      BY <1>3
    <3> QED BY <3>1
  <2>3. ~Better(side, q, p)
    <3> SUFFICES ASSUME Better(side, q, p) PROVE FALSE
      OBVIOUS
    <3>1. Rank(q) < Rank(p)
      BY <2>1, BetterThanLemma
    <3> HIDE DEF Rank
    <3> QED BY <2>1, <2>2, <3>1
  <2>4. p # q
    <3> HIDE DEF Rank
    <3> QED BY <2>1, <2>2
  <2>5. p \in Int /\ q \in Int
    BY <2>1
  <2> HIDE DEF p, q
  <2>6. Better(side, p, q)
    BY <2>3, <2>4, <2>5 DEF Better
  <2> QED BY <2>6 DEF p, q
<1>6. ASSUME D # {} PROVE 1 \in 1..n /\ IsBest(levels, side, prices[1])
  <2>1. 1 \in 1..n
    BY <1>1, <1>6
  <2>2. prices[1] \in D /\ Cardinality(BetterThan(D, side, prices[1])) = 0
    BY <1>3, <2>1
  <2>3. IsFiniteSet(BetterThan(D, side, prices[1]))
    BY FS_Subset DEF BetterThan
  <2>4. BetterThan(D, side, prices[1]) = {}
    BY <2>2, <2>3, FS_EmptySet
  <2> HIDE DEF prices
  <2> QED BY <2>1, <2>2, <2>4 DEF IsBest, BetterThan
<1> HIDE DEF prices, n
<1> QED BY <1>1, <1>3, <1>4, <1>5, <1>6 DEF prices, n

\* Every level of a side has one place in the order.
LEMMA OrderIsComplete ==
  ASSUME NEW levels, NEW side \in Side,
         DOMAIN levels[side] \subseteq Int, IsFiniteSet(DOMAIN levels[side])
  PROVE  LET prices == InOrder(levels, side)
         IN  Renames(prices, DOMAIN prices) /\ Image(prices, DOMAIN prices) = DOMAIN levels[side]
<1> DEFINE D == DOMAIN levels[side]
           n == Cardinality(D)
           prices == InOrder(levels, side)
<1>1. /\ DOMAIN prices = 1..n /\ n \in Nat
      /\ \A i \in DOMAIN prices : prices[i] \in D
      /\ \A i, j \in DOMAIN prices : i < j => Better(side, prices[i], prices[j])
  BY OrderLemma
<1>2. prices = [i \in 1..n |-> prices[i]]
  <2> DEFINE Nth(i) == CHOOSE p \in D : Cardinality({q \in D : Better(side, q, p)}) = i - 1
  <2>1. prices = [i \in 1..n |-> Nth(i)]
    BY DEF InOrder
  <2> HIDE DEF prices, Nth, n
  <2> QED BY <2>1
<1> HIDE DEF prices
<1>3. \A i, j \in 1..n : prices[i] = prices[j] => i = j
  <2> SUFFICES ASSUME NEW i \in 1..n, NEW j \in 1..n, i # j PROVE prices[i] # prices[j]
    OBVIOUS
  <2>1. i < j \/ j < i
    BY <1>1
  <2>2. Better(side, prices[i], prices[j]) \/ Better(side, prices[j], prices[i])
    BY <1>1, <2>1
  <2>3. prices[i] \in Int /\ prices[j] \in Int
    BY <1>1
  <2> QED BY <2>2, <2>3 DEF Better
<1>4. IsFiniteSet(1..n) /\ Cardinality(1..n) = n
  BY <1>1, FS_Interval
<1> HIDE DEF n
<1>5. prices \in Injection(1..n, D)
  <2>1. prices \in [1..n -> D]
    BY <1>1, <1>2
  <2> QED BY <1>3, <2>1 DEF Injection, IsInjective
<1>6. prices \in Surjection(1..n, D)
  <2>1. Cardinality(D) = n /\ IsFiniteSet(D)
    BY DEF n
  <2> HIDE DEF D
  <2> QED BY <1>4, <1>5, <2>1, FS_Injection
<1>7. \A p \in D : \E i \in 1..n : prices[i] = p
  BY <1>6 DEF Surjection
<1>8. Renames(prices, DOMAIN prices)
  BY <1>1, <1>3 DEF Renames
<1>9. Image(prices, DOMAIN prices) = D
  <2> HIDE DEF D
  <2> QED BY <1>1, <1>7 DEF Image
<1> QED BY <1>8, <1>9 DEF prices

----------------------------------------------------------------------------
(* The depth and the fill-or-kill checks of the two books. *)

\* The sum of a BookLevel of the simple book is that of the level.
LEMMA SimpleQtyLemma ==
  ASSUME NEW queue \in Seq(L3Order)
  PROVE  Simple!LevelQty(Smalls(queue)) = TotalQty(queue)
<1> DEFINE small == Smalls(queue)
           D     == DOMAIN queue
           f     == Opens(queue)
           OfTheFold(it) ==
             it = [s \in SUBSET D |->
                     IF s = {} THEN 0
                     ELSE it[s \ {Simple!Max(s)}] + small[Simple!Max(s)].qty]
<1>1. Simple!LevelQty(small) = (CHOOSE it : OfTheFold(it))[D]
  <2>1. DOMAIN small = D
    BY DEF Smalls
  <2> HIDE DEF small, D
  <2> QED BY <2>1 DEF Simple!LevelQty, Simple!FoldLeft, Simple!MapThenFoldSet
<1>2. D = 1..Len(queue) /\ Len(queue) \in Nat
  OBVIOUS
<1>3. \A x \in D : f[x] = small[x].qty /\ f[x] \in Int
  <2> TAKE x \in D
  <2>1. f[x] = OpenQty(queue[x]) /\ small[x].qty = OpenQty(queue[x])
    BY DEF Opens, Smalls, Small
  <2>2. \A y \in DOMAIN queue : Opens(queue)[y] \in Nat
    BY TotalQtyLemma
  <2> QED BY <2>1, <2>2
<1>4. \A s : Simple!Max(s) = Max(s)
  BY DEF Simple!Max, Max
<1>5. TotalQty(queue) = SumOver(f, D)
  BY TotalQtyLemma
<1> HIDE DEF D, f, small
<1>6. \A s \in SUBSET D : s # {} => Max(s) \in s
  BY <1>2, LastPosition
<1>7. \A it : OfTheFold(it) <=> BackSumsOn(it, f, Len(queue))
  BY <1>2, <1>3, <1>4, <1>6 DEF BackSumsOn
<1>8. /\ \E it : BackSumsOn(it, f, Len(queue))
      /\ \A it : BackSumsOn(it, f, Len(queue)) => it[D] = SumOver(f, D)
  BY <1>2, <1>3, BackSumsLemma
<1> HIDE DEF OfTheFold
<1>9. OfTheFold(CHOOSE it : OfTheFold(it))
  BY <1>7, <1>8
<1> QED BY <1>1, <1>5, <1>7, <1>8, <1>9 DEF small

\* The levels of the simple book have the prices of the book, in the same order,
\* and all that is open there.
LEMMA SimpleLevelsLemma ==
  ASSUME IsBook(book), NEW side \in Side, NEW n \in Nat,
         IsFiniteSet(DOMAIN book.levels[side])
  PROVE  LET prices == InOrder(book.levels, side)
         IN  Simple!Levels(side, n) =
               [i \in 1..LesserOf(n, Len(prices)) |->
                  [price |-> prices[i], qty |-> TotalQty(book.levels[side][prices[i]]),
                   order_count |-> 0]]
<1> DEFINE prices == InOrder(book.levels, side)
           m      == LesserOf(n, Len(prices))
<1>1. SimpleLevels = Flat(book) /\ DOMAIN Flat(book)[side] = DOMAIN book.levels[side]
  BY SimpleState, FlatQueue
<1>2. Simple!InOrder(SimpleLevels, side) = prices
  <2>1. InOrder(SimpleLevels, side) = InOrder(book.levels, side)
    BY <1>1 DEF InOrder
  <2> QED BY <2>1, SimpleOperators
<1>3. /\ DOMAIN book.levels[side] \subseteq Int
      /\ \A q \in DOMAIN book.levels[side] : book.levels[side][q] \in Seq(L3Order)
  BY PriceAssumption, QueueLemma DEF IsBook, PartialFunction
<1>4. /\ DOMAIN prices = 1..Len(prices) /\ Len(prices) \in Nat
      /\ \A i \in DOMAIN prices : prices[i] \in DOMAIN book.levels[side]
  BY <1>3, OrderLemma
<1> HIDE DEF prices
<1>5. \A i \in 1..m : i \in DOMAIN prices
  BY <1>4 DEF LesserOf
<1>6. Simple!LesserOf(n, Len(prices)) = m
  BY SimpleOperators
<1> HIDE DEF m
<1>7. ASSUME NEW i \in 1..m
      PROVE  Simple!LevelQty(SimpleLevels[side][prices[i]]) = TotalQty(book.levels[side][prices[i]])
  <2>1. prices[i] \in DOMAIN book.levels[side]
    BY <1>4, <1>5
  <2>2. SimpleLevels[side][prices[i]] = Smalls(book.levels[side][prices[i]])
    BY <1>1, <2>1, FlatQueue
  <2> QED BY <1>3, <2>1, <2>2, SimpleQtyLemma
<1>8. Simple!Levels(side, n) =
        [i \in 1..m |-> [price       |-> prices[i],
                         qty         |-> Simple!LevelQty(SimpleLevels[side][prices[i]]),
                         order_count |-> 0]]
  BY <1>2, <1>6 DEF Simple!Levels
<1> QED BY <1>7, <1>8 DEF m, prices

\* What the levels that an order may trade with add up to.
Worth(order, all) ==
  Simple!FoldLeft(LAMBDA sum, level :
                    sum + (IF Simple!Matches(order, level.price) THEN level.qty ELSE 0), 0, all)

\* That is a sum over the levels.
LEMMA WorthLemma ==
  ASSUME NEW order, NEW n \in Nat, NEW all, DOMAIN all = 1..n,
         NEW f, \A x \in 1..n :
           /\ f[x] = (IF Simple!Matches(order, all[x].price) THEN all[x].qty ELSE 0)
           /\ f[x] \in Int
  PROVE  Worth(order, all) = SumOver(f, 1..n)
<1> DEFINE Value(x) == IF Simple!Matches(order, all[x].price) THEN all[x].qty ELSE 0
           D == 1..n
           OfTheFold(it) ==
             it = [s \in SUBSET D |->
                     IF s = {} THEN 0 ELSE it[s \ {Simple!Max(s)}] + Value(Simple!Max(s))]
<1>1. Worth(order, all) = (CHOOSE it : OfTheFold(it))[D]
  BY DEF Worth, Simple!FoldLeft, Simple!MapThenFoldSet
<1>2. \A x \in D : f[x] = Value(x) /\ f[x] \in Int
  OBVIOUS
<1>3. \A s : Simple!Max(s) = Max(s)
  BY DEF Simple!Max, Max
<1> HIDE DEF Value
<1>4. \A s \in SUBSET D : s # {} => Max(s) \in s
  BY LastPosition
<1>5. \A it : OfTheFold(it) <=> BackSumsOn(it, f, n)
  <2> TAKE it
  <2> DEFINE Here(s)  == IF s = {} THEN 0 ELSE it[s \ {Simple!Max(s)}] + Value(Simple!Max(s))
             There(s) == IF s = {} THEN 0 ELSE it[s \ {Max(s)}] + f[Max(s)]
  <2>1. \A s \in SUBSET D : Here(s) = There(s)
    <3> TAKE s \in SUBSET D
    <3> HIDE DEF D
    <3>1. s # {} => Simple!Max(s) = Max(s) /\ Max(s) \in D
      BY <1>3, <1>4
    <3>2. s # {} => Value(Max(s)) = f[Max(s)]
      BY <1>2, <3>1
    <3> QED BY <3>1, <3>2
  <2>2. OfTheFold(it) <=> it = [s \in SUBSET D |-> Here(s)]
    OBVIOUS
  <2>3. BackSumsOn(it, f, n) <=> it = [s \in SUBSET D |-> There(s)]
    BY DEF BackSumsOn
  <2> HIDE DEF Here, There, OfTheFold, D
  <2>4. [s \in SUBSET D |-> Here(s)] = [s \in SUBSET D |-> There(s)]
    BY <2>1
  <2> QED BY <2>2, <2>3, <2>4
<1>6. /\ \E it : BackSumsOn(it, f, n)
      /\ \A it : BackSumsOn(it, f, n) => it[D] = SumOver(f, D)
  BY <1>2, BackSumsLemma
<1> HIDE DEF OfTheFold
<1>7. OfTheFold(CHOOSE it : OfTheFold(it))
  BY <1>5, <1>6
<1> QED BY <1>1, <1>5, <1>6, <1>7

\* What the levels of a side are worth to an order, and nothing at the others.
Reached(b, order) ==
  LET side_levels == b.levels[Opposite(order.side)]
  IN  [p \in DOMAIN side_levels |-> IF Crosses(order, p) THEN TotalQty(side_levels[p]) ELSE 0]

\* The sum over the levels that cross is the sum over all levels.
LEMMA ReachedLemma ==
  ASSUME IsBook(book), Counted(book), NEW order \in Order
  PROVE  LET D == DOMAIN book.levels[Opposite(order.side)]
         IN  /\ \A p \in D : Reached(book, order)[p] \in Int
             /\ CrossedTotal(book, order) = SumOver(Reached(book, order), D)
<1> DEFINE side == Opposite(order.side)
           D    == DOMAIN book.levels[side]
           C    == Crossed(book, order)
           f    == Totals(book.levels[side])
           g    == Reached(book, order)
<1>1. side \in Side
  BY DEF Opposite, Side
<1>2. IsFiniteSet(D)
  BY <1>1 DEF Counted
<1>3. C \subseteq D /\ \A p \in D : p \in C <=> Crosses(order, p)
  BY DEF Crossed
<1>4. \A p \in D : f[p] \in Int
  <2> TAKE p \in D
  <2>1. book.levels[side][p] \in Seq(L3Order)
    BY <1>1, QueueLemma
  <2> DEFINE queue == book.levels[side][p]
  <2> HIDE DEF queue
  <2>2. queue \in Seq(L3Order)
    BY <2>1 DEF queue
  <2>3. SumOver(Opens(queue), DOMAIN queue) \in Int
    BY <2>2, TotalQtyLemma, SumType
  <2>4. TotalQty(queue) \in Int
    BY <2>2, <2>3, TotalQtyLemma
  <2> QED BY <2>4 DEF queue, Totals
<1>5. \A p \in D : g[p] = IF p \in C THEN f[p] ELSE 0
  BY DEF Reached, Crossed, Totals
<1> HIDE DEF side, D, C, f, g
<1>6. IsFiniteSet(C) /\ IsFiniteSet(D \ C) /\ C \cup (D \ C) = D /\ C \cap (D \ C) = {}
  BY <1>2, <1>3, FS_Subset
<1>7. \A p \in D : g[p] \in Int
  BY <1>4, <1>5
<1>8. SumOver(g, D) = SumOver(g, C) + SumOver(g, D \ C)
  <2> DEFINE R == D \ C
  <2> HIDE DEF R
  <2>1. /\ IsFiniteSet(C) /\ IsFiniteSet(R) /\ C \cap R = {} /\ C \cup R = D
        /\ \A p \in C \cup R : g[p] \in Int
    BY <1>6, <1>7 DEF R
  <2>2. SumOver(g, C \cup R) = SumOver(g, C) + SumOver(g, R)
    BY <2>1, SumUnion
  <2> QED BY <2>1, <2>2 DEF R
<1>9. SumOver(g, D \ C) = 0
  <2>1. \A p \in D \ C : g[p] = 0
    BY <1>5
  <2> QED BY <1>6, <2>1, SumZero
<1>10. SumOver(g, C) = SumOver(f, C) /\ SumOver(g, C) \in Int
  <2>1. \A p \in C : g[p] = f[p] /\ g[p] \in Int
    BY <1>3, <1>5, <1>7
  <2> QED BY <1>6, <2>1, SumSame, SumType
<1>11. CrossedTotal(book, order) = SumOver(f, C)
  BY <1>6, CrossedTotalLemma DEF f, C, side
<1>12. CrossedTotal(book, order) = SumOver(g, D)
  BY <1>8, <1>9, <1>10, <1>11
<1> QED BY <1>7, <1>12 DEF g, D, side

\* The simple book's client and the fill-or-kill check of match_incoming let the
\* same orders through: the one adds up a depth, the other the levels that cross.
LEMMA SufficesLemma ==
  ASSUME IsBook(book), Counted(book), NEW order \in Order
  PROVE  Simple!Suffices(order) <=> CanFill(book, order)
<1> DEFINE side   == Opposite(order.side)
           D      == DOMAIN book.levels[side]
           n      == Cardinality(D)
           prices == InOrder(book.levels, side)
           all    == Simple!Levels(side, n)
           g      == Reached(book, order)
           f      == [i \in 1..n |-> g[prices[i]]]
<1>1. side \in Side
  BY DEF Opposite, Side
<1>2. IsFiniteSet(D) /\ D \subseteq Int
  BY <1>1, PriceAssumption DEF Counted, IsBook, PartialFunction
<1>3. /\ Len(prices) = n /\ DOMAIN prices = 1..n /\ n \in Nat
      /\ \A i \in DOMAIN prices : prices[i] \in D
  BY <1>1, <1>2, OrderLemma
<1>4. Renames(prices, DOMAIN prices) /\ Image(prices, DOMAIN prices) = D
  BY <1>1, <1>2, OrderIsComplete
<1>5. all = [i \in 1..LesserOf(n, Len(prices)) |->
               [price |-> prices[i], qty |-> TotalQty(book.levels[side][prices[i]]),
                order_count |-> 0]]
  <2> HIDE DEF side, all, n
  <2>1. n \in Nat /\ IsFiniteSet(DOMAIN book.levels[side])
    BY <1>2, <1>3
  <2> QED BY <1>1, <2>1, SimpleLevelsLemma DEF all
<1>6. /\ \A p \in D : g[p] \in Int
      /\ CrossedTotal(book, order) = SumOver(g, D)
  BY ReachedLemma
<1>7. \A p \in D : g[p] = IF Crosses(order, p) THEN TotalQty(book.levels[side][p]) ELSE 0
  BY DEF Reached
<1>8. Simple!Suffices(order) <=> Worth(order, all) >= order.quantity
  <2>1. Simple!Opposite(order.side) = side
    BY SimpleOperators
  <2>2. Simple!Cardinality(DOMAIN SimpleLevels[side]) = n
    <3>1. DOMAIN SimpleLevels[side] = D
      BY <1>1, SimpleState, FlatQueue
    <3>2. Simple!Cardinality(D) = Cardinality(D)
      BY DEF Simple!Cardinality, Cardinality
    <3> QED BY <3>1, <3>2
  <2> HIDE DEF side, n
  <2> QED BY <2>1, <2>2 DEF Simple!Suffices, Worth
<1> HIDE DEF n, prices, all, g
<1>9. LesserOf(n, Len(prices)) = n
  BY <1>3 DEF LesserOf
<1>10. /\ DOMAIN all = 1..n
       /\ \A i \in 1..n : /\ all[i].price = prices[i]
                          /\ all[i].qty = TotalQty(book.levels[side][prices[i]])
  <2> HIDE DEF side
  <2> QED BY <1>5, <1>9
<1>11. \A i \in 1..n :
         /\ f[i] = (IF Simple!Matches(order, all[i].price) THEN all[i].qty ELSE 0)
         /\ f[i] \in Int
  <2> TAKE i \in 1..n
  <2>1. prices[i] \in D /\ f[i] = g[prices[i]]
    BY <1>3
  <2>2. Simple!Matches(order, prices[i]) <=> Crosses(order, prices[i])
    BY SameMatches
  <2> HIDE DEF f, side
  <2> QED BY <1>6, <1>7, <1>10, <2>1, <2>2
<1>12. \A i \in 1..n : g[prices[i]] = f[i] /\ f[i] \in Int
  <2>1. \A i \in 1..n : g[prices[i]] = f[i]
    OBVIOUS
  <2> HIDE DEF f
  <2> QED BY <1>11, <2>1
<1> HIDE DEF f, D, side
<1>13. Worth(order, all) = SumOver(f, 1..n)
  BY <1>3, <1>10, <1>11, WorthLemma
<1>14. SumOver(g, D) = SumOver(f, 1..n)
  <2>1. IsFiniteSet(1..n) /\ Renames(prices, 1..n) /\ Image(prices, 1..n) = D
    BY <1>3, <1>4, FS_Interval
  <2>2. SumOver(g, Image(prices, 1..n)) = SumOver(f, 1..n)
    BY <1>12, <2>1, SumImage
  <2> QED BY <2>1, <2>2
<1>15. CanFill(book, order) <=> CrossedTotal(book, order) >= order.quantity
  BY DEF CanFill, CrossedTotal
<1> QED BY <1>6, <1>8, <1>13, <1>14, <1>15

----------------------------------------------------------------------------
(* Every step of the order-level book is one of the simple book, or none. *)

\* The empty books.
LEMMA InitSimply == Init => Simple!Init
<1> SUFFICES ASSUME Init PROVE Simple!Init
  OBVIOUS
<1>1. book = EmptyBook /\ call = {}
  BY DEF Init
<1>2. book.levels = [s \in Side |-> <<>>] /\ book.order_index = <<>>
  BY <1>1 DEF EmptyBook
<1>3. \A s \in Side : [p \in DOMAIN book.levels[s] |-> Smalls(book.levels[s][p])] = <<>>
  BY <1>2
<1>4. SimpleLevels = [s \in Side |-> <<>>]
  BY <1>3, SimpleState DEF Flat
<1>5. SimpleIncoming = {}
  BY <1>1, SimpleState
<1> QED BY <1>2, <1>4, <1>5 DEF Simple!Init, Simple!Side, Side

\* An add_order that begins is submitted if it may match; the simple book's
\* client does not submit the others.
LEMMA BeginSimply ==
  ASSUME AInv, NEW order \in Submissions, BeginAdd(order)
  PROVE  Simple!Submit(order) \/ UNCHANGED Simple!vars
<1> DEFINE c == Activation(book, order)
<1>1. /\ call = {} /\ book' = book /\ call' = {c} /\ order.id \notin DOMAIN book.order_index
  BY DEF BeginAdd
<1>2. /\ IsBook(book) /\ Counted(book) /\ order \in Order
  BY InputAssumption DEF AInv, Sound
<1>3. Simple!Suffices(order) <=> CanFill(book, order)
  BY <1>2, SufficesLemma
<1>4. c.fillable <=> (order.tif = "FOK" => Simple!Suffices(order))
  BY <1>3 DEF Activation
<1>5. Running(c) = [order |-> order, remaining |-> order.quantity, trades |-> <<>>]
  BY PrintsOfLemma DEF Activation, Running
<1> HIDE DEF c
<1>6. SimpleLevels' = SimpleLevels /\ SimpleIncoming = {}
  BY <1>1, SimpleState
<1>7. CASE c.fillable
  <2>1. {d \in call' : d.fillable} = {c}
    BY <1>1, <1>7
  <2>2. SimpleIncoming' = {Running(c)}
    BY <2>1, SimpleState
  <2> QED BY <1>1, <1>4, <1>5, <1>6, <1>7, <2>2 DEF Simple!Submit
<1>8. CASE ~c.fillable
  <2>1. {d \in call' : d.fillable} = {}
    BY <1>1, <1>8
  <2>2. SimpleIncoming' = {}
    BY <2>1, SimpleState
  <2> QED BY <1>1, <1>6, <2>2 DEF Simple!vars
<1> QED BY <1>7, <1>8

\* An order that rests is added at the same place of the simple book.
LEMMA RestsSimply ==
  ASSUME AInv, NEW c, FinishEdit(c), Rests(c), book' = Rest(book, c.order, c.remaining)
  PROVE  Simple!addOrder(c.order, c.remaining)
<1> DEFINE order == c.order
           side  == order.side
           p     == order.price
           o     == NewResting(book, order, c.remaining)
           queue == QueueAt(book, side, p)
           small == [id |-> order.id, qty |-> c.remaining]
<1>1. /\ Gains(book', book, side, p, o) /\ side \in Side
      /\ o.id = order.id /\ OpenQty(o) = c.remaining
  BY DEF FinishEdit
<1>2. IsBook(book)
  BY DEF AInv, Sound
<1>3. Changed(book', book, side, p, Append(queue, o)) /\ o \in L3Order
  BY <1>1 DEF Gains
<1> HIDE DEF o, side, p
<1>4. queue \in Seq(L3Order)
  BY <1>1, <1>2, QueueLemma DEF QueueAt
<1>5. Small(o) = small
  BY <1>1 DEF Small
<1>6. Smalls(Append(queue, o)) = Append(Smalls(queue), small) /\ Append(queue, o) \in Seq(L3Order)
  <2> HIDE DEF queue, small
  <2> QED BY <1>3, <1>4, <1>5, SmallsAppend, AppendProperties
<1>7. Smalls(queue) = IF p \in DOMAIN SimpleLevels[side] THEN SimpleLevels[side][p] ELSE <<>>
  BY <1>1, SimpleState, FlatQueue
<1>8. SimpleLevels' = Put(SimpleLevels, side, p, Append(Smalls(queue), small))
  <2> DEFINE long == Append(queue, o)
             u    == book'
  <2> HIDE DEF long, u
  <2>1. Changed(u, book, side, p, long) /\ long \in Seq(L3Order)
    BY <1>3, <1>6 DEF long, u
  <2>2. Flat(u) = Put(Flat(book), side, p, Smalls(long))
    BY <1>1, <2>1, FlatChanged
  <2> QED BY <1>6, <2>2, SimpleState DEF long, u
<1> HIDE DEF queue
<1>9. SimpleLevels' = [SimpleLevels EXCEPT ![side] =
        Simple!SetLevel(@, p, Append(IF p \in DOMAIN @ THEN @[p] ELSE <<>>, small))]
  BY <1>7, <1>8, SimpleOperators DEF Put
<1>10. book'.order_index = [id \in DOMAIN book.order_index \cup {order.id} |->
         IF id = order.id THEN [side |-> side, price |-> p] ELSE book.order_index[id]]
  BY DEF Rest, side, p
<1> QED BY <1>9, <1>10 DEF Simple!addOrder, side, p

\* The end of add_order is the return of matchIncoming, with the order that is
\* rested, if there was a call.
LEMMA FinishSimply ==
  ASSUME AInv, FinishAdd
  PROVE  Simple!Return \/ UNCHANGED Simple!vars
<1>1. PICK c \in call :
        /\ MatchingDone(book, c) /\ call' = {}
        /\ book' = IF Rests(c) THEN Rest(book, c.order, c.remaining) ELSE book
  BY DEF FinishAdd
<1>2. FinishEdit(c)
  <2>1. PICK d : FinishEdit(d)
    BY FinishAddEdits
  <2>2. d = c
    BY <1>1, <2>1 DEF FinishEdit, AInv, OneCall
  <2> QED BY <2>1, <2>2
<1>3. SimpleIncoming' = {} /\ c.order \in Order /\ c.remaining \in Int
  BY <1>1, <1>2, SimpleState DEF FinishEdit
<1>4. call = {c}
  BY <1>1 DEF AInv, OneCall
<1> DEFINE m == Running(c)
<1>5. m.order = c.order /\ m.remaining = c.remaining
  BY DEF Running
<1> HIDE DEF m
<1>6. CASE ~c.fillable
  <2>1. c.order.tif = "FOK"
    BY <1>1, <1>6 DEF AInv, IInv, CallSane
  <2>2. book' = book
    BY <1>1, <2>1 DEF Rests
  <2>3. SimpleIncoming = {}
    <3>1. {d \in call : d.fillable} = {}
      BY <1>4, <1>6
    <3> QED BY <3>1, SimpleState
  <2>4. SimpleLevels' = SimpleLevels
    BY <2>2, SimpleState
  <2> QED BY <1>3, <2>2, <2>3, <2>4 DEF Simple!vars
<1>7. CASE c.fillable
  <2>1. m \in SimpleIncoming
    BY <1>1, <1>7, SimpleState DEF m
  <2>2. \/ m.remaining <= 0
        \/ \A p \in DOMAIN SimpleLevels[Simple!Opposite(m.order.side)] :
             ~Simple!Matches(m.order, p)
    <3> DEFINE side == Opposite(c.order.side)
    <3>1. c.remaining <= 0 \/ \A p \in DOMAIN book.levels[side] : ~Crosses(c.order, p)
      BY <1>1, <1>7 DEF MatchingDone
    <3>2. side \in Side /\ Simple!Opposite(m.order.side) = side
      BY <1>5, SimpleOperators DEF Opposite, Side
    <3>3. DOMAIN SimpleLevels[side] = DOMAIN book.levels[side]
      BY <3>2, SimpleState, FlatQueue
    <3>4. \A p : Simple!Matches(m.order, p) <=> Crosses(c.order, p)
      BY <1>3, <1>5, SameMatches
    <3> HIDE DEF side
    <3> QED BY <1>5, <3>1, <3>2, <3>3, <3>4
  <2>3. IF m.remaining > 0 /\ m.order.type = "Limit" /\ m.order.tif \in {"Day", "GTC"}
        THEN Simple!addOrder(m.order, m.remaining)
        ELSE UNCHANGED <<SimpleLevels, book.order_index>>
    <3>1. Rests(c) <=> m.remaining > 0 /\ m.order.type = "Limit" /\ m.order.tif \in {"Day", "GTC"}
      BY <1>5 DEF Rests
    <3>2. CASE Rests(c)
      <4>1. Simple!addOrder(c.order, c.remaining)
        BY <1>1, <1>2, <3>2, RestsSimply
      <4> QED BY <1>5, <3>1, <3>2, <4>1
    <3>3. CASE ~Rests(c)
      <4>1. book' = book
        BY <1>1, <3>3
      <4>2. SimpleLevels' = SimpleLevels
        BY <4>1, SimpleState
      <4> QED BY <3>1, <3>3, <4>1, <4>2
    <3> QED BY <3>2, <3>3
  <2>4. Simple!Return
    BY <1>3, <2>1, <2>2, <2>3, Zenon DEF Simple!Return
  <2> QED BY <2>4
<1> QED BY <1>6, <1>7

\* replace_order takes the old version out and submits the new one.
LEMMA ReplacesSimply ==
  ASSUME AInv, NEW req \in Replacements, ReplaceOrder(req)
  PROVE  \E order \in Replacing : Simple!Replace(order)
<1> DEFINE id    == req.order_id
           order == ReplacementOrder(book, req)
           c     == Activation(book', order)
<1>1. /\ call = {} /\ id \in DOMAIN book.order_index /\ book' = Withdraw(book, id)
      /\ call' = {c}
  BY DEF ReplaceOrder
<1>2. IsBook(book)
  BY DEF AInv, Sound
<1>3. Simple!cancelOrder(id)
  BY <1>1, CancelsSimply
<1>4. /\ order.id = id /\ order.side = book.order_index[id].side /\ order.tif = "Day"
  BY <1>1, <1>2, ReplacementLemma
<1>5. order \in Replacing
  <2>1. book.order_index[id].side \in Side
    BY <1>1, <1>2 DEF IsBook, PartialFunction, OrderLocation
  <2> QED BY <2>1 DEF ReplacementOrder, Replacing
<1> HIDE DEF order
<1>6. Running(c) = [order |-> order, remaining |-> order.quantity, trades |-> <<>>] /\ c.fillable
  BY <1>4, PrintsOfLemma DEF Activation, Running
<1> HIDE DEF c
<1>7. SimpleIncoming' = {[order |-> order, remaining |-> order.quantity, trades |-> <<>>]}
  <2>1. {d \in call' : d.fillable} = {c}
    BY <1>1, <1>6
  <2> QED BY <1>6, <2>1, SimpleState
<1>8. SimpleIncoming = {}
  BY <1>1, SimpleState
<1> HIDE DEF id
<1>9. Simple!Replace(order)
  BY <1>3, <1>4, <1>7, <1>8 DEF Simple!Replace
<1> QED BY <1>5, <1>9

\* Every step.
LEMMA StepSimply == AInv /\ [Next]_vars => [Simple!Next]_(Simple!vars)
<1> SUFFICES ASSUME AInv, [Next]_vars PROVE Simple!Next \/ UNCHANGED Simple!vars
  OBVIOUS
<1>1. ASSUME book' = book, call' = call PROVE UNCHANGED Simple!vars
  BY <1>1, SimpleState DEF Simple!vars
<1>2. CASE UNCHANGED vars
  BY <1>1, <1>2 DEF vars
<1>3. ASSUME NEW order \in Submissions, RejectDuplicate(order) PROVE UNCHANGED Simple!vars
  BY <1>1, <1>3 DEF RejectDuplicate
<1>4. ASSUME NEW order \in Submissions, BeginAdd(order)
      PROVE  Simple!Next \/ UNCHANGED Simple!vars
  BY <1>4, BeginSimply DEF Simple!Next
<1>5. CASE MatchOne
  BY <1>5, MatchesSimply DEF Simple!Next
<1>6. CASE FinishAdd
  BY <1>6, FinishSimply DEF Simple!Next
<1>7. ASSUME NEW id \in OrderId, RejectUnknown(id) PROVE UNCHANGED Simple!vars
  BY <1>1, <1>7 DEF RejectUnknown
<1>8. ASSUME NEW id \in OrderId, CancelOrder(id) PROVE Simple!Next
  <2>1. /\ call = {} /\ call' = {} /\ id \in DOMAIN book.order_index
        /\ book' = Withdraw(book, id)
    BY <1>8 DEF CancelOrder
  <2>2. Simple!cancelOrder(id)
    BY <2>1, CancelsSimply
  <2>3. SimpleIncoming = {} /\ SimpleIncoming' = {}
    BY <2>1, SimpleState
  <2> QED BY <2>1, <2>2, <2>3 DEF Simple!Next, Simple!Cancel
<1>9. ASSUME NEW req \in Replacements, ReplaceOrder(req) PROVE Simple!Next
  BY <1>9, ReplacesSimply DEF Simple!Next
<1> QED BY <1>2, <1>3, <1>4, <1>5, <1>6, <1>7, <1>8, <1>9 DEF Next

----------------------------------------------------------------------------
(* No order hides quantity: add_resting_order displays all it rests, and a fill *)
(* takes what is displayed.  So bid_depth and ask_depth, which add up what is   *)
(* displayed, show all there is, as the simple book does.                       *)

Plain(b) ==
  \A s \in Side : \A p \in DOMAIN b.levels[s] : \A i \in DOMAIN b.levels[s][p] :
    b.levels[s][p][i].hidden_qty = 0

\* A queue of plain orders put in a plain book.
LEMMA PlainChanged ==
  ASSUME NEW b, Plain(b), NEW u, NEW side \in Side, NEW p, NEW queue,
         Changed(u, b, side, p, queue), \A i \in DOMAIN queue : queue[i].hidden_qty = 0
  PROVE  Plain(u)
<1> SUFFICES ASSUME NEW s \in Side, NEW q \in DOMAIN u.levels[s],
                    NEW i \in DOMAIN u.levels[s][q]
             PROVE  u.levels[s][q][i].hidden_qty = 0
  BY DEF Plain
<1>1. CASE s = side /\ q = p
  <2>1. u.levels[s][q] = queue
    BY <1>1 DEF Changed
  <2> QED BY <2>1
<1>2. CASE ~(s = side /\ q = p)
  <2>1. q \in DOMAIN b.levels[s] /\ u.levels[s][q] = b.levels[s][q]
    BY <1>2 DEF Changed
  <2> QED BY <2>1 DEF Plain
<1> QED BY <1>1, <1>2

\* An order leaving a plain book.
LEMMA LosesPlain ==
  ASSUME NEW b, IsBook(b), Plain(b), NEW u,
         NEW side \in Side, NEW p, NEW k, NEW rest, Loses(u, b, side, p, k, rest)
  PROVE  Plain(u)
<1> DEFINE queue == b.levels[side][p]
<1>1. /\ p \in DOMAIN b.levels[side] /\ k \in DOMAIN queue /\ Removed(rest, queue, k)
      /\ Changed(u, b, side, p, rest)
  BY DEF Loses
<1>2. queue \in Seq(L3Order) /\ \A i \in DOMAIN queue : queue[i].hidden_qty = 0
  BY <1>1, QueueLemma DEF Plain
<1> HIDE DEF queue
<1>3. /\ rest \in Seq(L3Order) /\ DOMAIN rest = 1..(Len(queue) - 1)
      /\ Len(queue) \in Nat /\ DOMAIN queue = 1..Len(queue)
  BY <1>1, <1>2 DEF Removed
<1>4. ASSUME NEW i \in DOMAIN rest PROVE rest[i].hidden_qty = 0
  <2> DEFINE j == IF i < k THEN i ELSE i + 1
  <2>1. j \in DOMAIN queue
    BY <1>1, <1>3
  <2>2. SameOrder(rest[i], queue[j])
    <3>1. SameOrder(rest[i], IF i < k THEN queue[i] ELSE queue[i + 1])
      BY <1>1 DEF Removed
    <3>2. queue[j] = IF i < k THEN queue[i] ELSE queue[i + 1]
      OBVIOUS
    <3> QED BY <3>1, <3>2
  <2> HIDE DEF j
  <2>3. rest[i] \in L3Order /\ queue[j] \in L3Order
    BY <1>2, <1>3, <2>1
  <2>4. rest[i].hidden_qty = queue[j].hidden_qty
    BY <2>2, <2>3, SameOrderLemma
  <2> QED BY <1>2, <2>1, <2>4
<1> QED BY <1>1, <1>4, PlainChanged

\* A plain order joining a plain book.
LEMMA GainsPlain ==
  ASSUME NEW b, IsBook(b), Plain(b), NEW u,
         NEW side \in Side, NEW p, NEW o, Gains(u, b, side, p, o), o.hidden_qty = 0
  PROVE  Plain(u)
<1> DEFINE queue  == QueueAt(b, side, p)
           longer == Append(queue, o)
<1>1. o \in L3Order /\ Changed(u, b, side, p, longer)
  BY DEF Gains
<1>2. queue \in Seq(L3Order)
  BY QueueLemma DEF QueueAt
<1>3. \A i \in DOMAIN queue : queue[i].hidden_qty = 0
  <2>1. CASE p \in DOMAIN b.levels[side]
    BY <2>1 DEF Plain, QueueAt
  <2>2. CASE p \notin DOMAIN b.levels[side]
    <3>1. queue = <<>> /\ DOMAIN <<>> = {}
      BY <2>2 DEF QueueAt
    <3> QED BY <3>1
  <2> QED BY <2>1, <2>2
<1> HIDE DEF queue
<1>4. /\ DOMAIN longer = 1..(Len(queue) + 1) /\ DOMAIN queue = 1..Len(queue)
      /\ \A i \in 1..Len(queue) : longer[i] = queue[i]
      /\ longer[Len(queue) + 1] = o /\ Len(queue) \in Nat
  BY <1>1, <1>2, AppendProperties
<1> HIDE DEF longer
<1>5. \A i \in DOMAIN longer : longer[i].hidden_qty = 0
  BY <1>3, <1>4
<1> QED BY <1>1, <1>5, PlainChanged

\* A fill of the front of a queue of a plain book.
LEMMA FillsPlain ==
  ASSUME NEW b, IsBook(b), Plain(b), NEW u,
         NEW side \in Side, NEW p, NEW o, Fills(u, b, side, p, o), o.hidden_qty = 0
  PROVE  Plain(u)
<1> DEFINE queue == b.levels[side][p]
           same  == <<o>> \o Tail(queue)
<1>1. p \in DOMAIN b.levels[side] /\ o \in L3Order /\ Changed(u, b, side, p, same)
  BY DEF Fills
<1>2. /\ queue \in Seq(L3Order) /\ queue # <<>>
      /\ Len(queue) \in Nat \ {0} /\ DOMAIN queue = 1..Len(queue)
  BY <1>1, QueueLemma
<1>3. \A i \in DOMAIN queue : queue[i].hidden_qty = 0
  BY <1>1 DEF Plain
<1> HIDE DEF queue
<1>4. /\ DOMAIN same = 1..Len(queue)
      /\ \A i \in 1..Len(queue) : same[i] = IF i = 1 THEN o ELSE queue[i]
  <2>1. /\ Tail(queue) \in Seq(L3Order) /\ Len(Tail(queue)) = Len(queue) - 1
        /\ \A i \in 1..Len(Tail(queue)) : Tail(queue)[i] = queue[i + 1]
    BY <1>2, HeadTailProperties
  <2>2. <<o>> \in Seq(L3Order) /\ Len(<<o>>) = 1 /\ <<o>>[1] = o
    BY <1>1
  <2>3. same \in Seq(L3Order) /\ Len(same) = Len(queue)
        /\ \A i \in 1..Len(queue) : same[i] = IF i = 1 THEN o ELSE queue[i]
    BY <1>2, <2>1, <2>2, ConcatProperties
  <2> HIDE DEF same
  <2> QED BY <2>3
<1> HIDE DEF same
<1>5. \A i \in DOMAIN same : same[i].hidden_qty = 0
  BY <1>2, <1>3, <1>4
<1> QED BY <1>1, <1>5, PlainChanged

\* A fill of an order that hides nothing hides nothing.
LEMMA FillPlain ==
  ASSUME NEW o \in L3Order, o.hidden_qty = 0, NEW qty \in 0..OpenQty(o)
  PROVE  FillResting(o, qty).hidden_qty = 0
<1>1. o.visible_qty \in Nat /\ qty <= o.visible_qty
  BY DEF L3Order, OpenQty
<1> DEFINE f == FillResting(o, qty)
<1>2. f.hidden_qty = (IF qty <= o.visible_qty THEN o.hidden_qty
                      ELSE o.hidden_qty - (qty - o.visible_qty)) - 0
  BY <1>1 DEF FillResting, L3Order
<1> QED BY <1>1, <1>2

\* Every step keeps the book plain.
LEMMA PlainStep == AInv /\ Plain(book) /\ [Next]_vars => Plain(book')
<1> SUFFICES ASSUME AInv, Plain(book), [Next]_vars PROVE Plain(book')
  OBVIOUS
<1>1. IsBook(book) /\ Linked(book)
  BY DEF AInv, Sound
<1> DEFINE u == book'
<1>2. CASE book' = book
  BY <1>2
<1>3. CASE MatchOne
  <2>1. PICK c, d, side, p, qty : MatchEdit(c, d, side, p, qty)
    BY <1>3, MatchOneEdits
  <2> DEFINE queue == book.levels[side][p]
             front == queue[1]
             o     == FillResting(front, qty)
  <2>2. /\ side \in Side /\ p \in DOMAIN book.levels[side]
        /\ front \in L3Order /\ qty \in 0..OpenQty(front)
        /\ IF OpenQty(front) = qty THEN Loses(u, book, side, p, 1, Tail(queue))
                                   ELSE Fills(u, book, side, p, o)
    BY <2>1 DEF MatchEdit
  <2>3. front.hidden_qty = 0
    <3>1. 1 \in DOMAIN queue
      BY <1>1, <2>2, QueueLemma
    <3> QED BY <2>2, <3>1 DEF Plain
  <2>4. o.hidden_qty = 0
    <3> HIDE DEF front
    <3> QED BY <2>2, <2>3, FillPlain
  <2> HIDE DEF u, o, front, queue
  <2>5. Plain(u)
    BY <1>1, <2>2, <2>4, LosesPlain, FillsPlain
  <2> QED BY <2>5 DEF u
<1>4. CASE FinishAdd
  <2>1. PICK c : FinishEdit(c)
    BY <1>4, FinishAddEdits
  <2>2. CASE Rests(c)
    <3> DEFINE o == NewResting(book, c.order, c.remaining)
    <3>1. Gains(u, book, c.order.side, c.order.price, o) /\ c.order.side \in Side
      BY <2>1, <2>2 DEF FinishEdit
    <3>2. o.hidden_qty = 0
      BY DEF NewResting
    <3> HIDE DEF u, o
    <3>3. Plain(u)
      BY <1>1, <3>1, <3>2, GainsPlain
    <3> QED BY <3>3 DEF u
  <2>3. CASE ~Rests(c)
    BY <1>2, <2>1, <2>3 DEF FinishEdit
  <2> QED BY <2>2, <2>3
<1>5. ASSUME NEW id \in DOMAIN book.order_index, book' = Withdraw(book, id) PROVE Plain(book')
  <2>1. PICK side \in Side : \E p \in DOMAIN book.levels[side] :
          \E k \in DOMAIN book.levels[side][p] : \E rest :
            Loses(Withdraw(book, id), book, side, p, k, rest)
            /\ book.levels[side][p][k].id = id
    BY <1>1, WithdrawLoses
  <2>2. PICK p, k, rest : Loses(Withdraw(book, id), book, side, p, k, rest)
    BY <2>1
  <2>3. Plain(Withdraw(book, id))
    BY <1>1, <2>2, LosesPlain
  <2> QED BY <1>5, <2>3
<1>6. ASSUME NEW order \in Submissions, RejectDuplicate(order) \/ BeginAdd(order)
      PROVE  book' = book
  BY <1>6 DEF RejectDuplicate, BeginAdd
<1>7. ASSUME NEW id \in OrderId, RejectUnknown(id) \/ CancelOrder(id) PROVE Plain(book')
  BY <1>2, <1>5, <1>7 DEF RejectUnknown, CancelOrder
<1>8. ASSUME NEW req \in Replacements, ReplaceOrder(req) PROVE Plain(book')
  BY <1>5, <1>8 DEF ReplaceOrder
<1>9. CASE UNCHANGED vars
  BY <1>2, <1>9 DEF vars
<1> QED BY <1>2, <1>3, <1>4, <1>6, <1>7, <1>8, <1>9 DEF Next

\* The prices and quantities of the two depths, and their counts.
LEMMA DepthsCompared == AInv /\ Plain(book) => SamePricesAndQuantities
<1> SUFFICES ASSUME AInv, Plain(book), NEW side \in Side,
                    NEW n \in 0..(Cardinality(DOMAIN book.order_index) + 1)
             PROVE  LET l3 == depth(book, side, n)
                    IN  /\ Simple!Levels(side, n) =
                             [i \in DOMAIN l3 |-> [price |-> l3[i].price, qty |-> l3[i].qty,
                                                   order_count |-> 0]]
                        /\ \A i \in DOMAIN l3 : l3[i].order_count > 0
  BY DEF SamePricesAndQuantities
<1> DEFINE prices == InOrder(book.levels, side)
           m      == LesserOf(n, Len(prices))
           l3     == depth(book, side, n)
<1>1. IsBook(book) /\ IsFiniteSet(DOMAIN book.levels[side]) /\ n \in Nat
  BY DEF AInv, Sound, Counted
<1>2. DOMAIN book.levels[side] \subseteq Int
  BY <1>1, PriceAssumption DEF IsBook, PartialFunction
<1>3. /\ Len(prices) \in Nat /\ DOMAIN prices = 1..Len(prices)
      /\ \A i \in DOMAIN prices : prices[i] \in DOMAIN book.levels[side]
  BY <1>1, <1>2, OrderLemma
<1>4. l3 = [i \in 1..m |-> LevelAt(book, side, prices[i])]
  BY DEF depth
<1>5. Simple!Levels(side, n) =
        [i \in 1..m |-> [price |-> prices[i], qty |-> TotalQty(book.levels[side][prices[i]]),
                         order_count |-> 0]]
  BY <1>1, SimpleLevelsLemma
<1> HIDE DEF prices
<1>6. \A i \in 1..m : i \in DOMAIN prices
  BY <1>1, <1>3 DEF LesserOf
<1> HIDE DEF m
<1>7. ASSUME NEW i \in 1..m
      PROVE  /\ LevelAt(book, side, prices[i]).price = prices[i]
             /\ LevelAt(book, side, prices[i]).qty = TotalQty(book.levels[side][prices[i]])
             /\ LevelAt(book, side, prices[i]).order_count > 0
  <2> DEFINE p     == prices[i]
             queue == book.levels[side][p]
  <2>1. p \in DOMAIN book.levels[side]
    BY <1>3, <1>6
  <2>2. queue \in Seq(L3Order) /\ queue # <<>> /\ \A j \in DOMAIN queue : queue[j].hidden_qty = 0
    BY <1>1, <2>1, QueueLemma DEF Plain
  <2>3. /\ LevelAt(book, side, p).price = p /\ LevelAt(book, side, p).qty = VisibleQty(queue)
        /\ LevelAt(book, side, p).order_count = Len(queue)
    BY DEF LevelAt
  <2> HIDE DEF queue, p
  <2>4. \A j \in DOMAIN queue : Shown(queue)[j] = Opens(queue)[j]
    <3> TAKE j \in DOMAIN queue
    <3>1. queue[j] \in L3Order /\ queue[j].hidden_qty = 0
      BY <2>2
    <3> QED BY <3>1 DEF Shown, Opens, OpenQty, L3Order
  <2>5. VisibleQty(queue) = TotalQty(queue)
    BY <2>2, <2>4, SumSame, VisibleQtyLemma, TotalQtyLemma
  <2>6. Len(queue) > 0
    BY <2>2, EmptySeq
  <2> QED BY <2>3, <2>5, <2>6 DEF queue, p
<1>8. DOMAIN l3 = 1..m /\ \A i \in 1..m : l3[i] = LevelAt(book, side, prices[i])
  BY <1>4
<1> HIDE DEF l3
<1>9. \A i \in 1..m :
        /\ l3[i].price = prices[i] /\ l3[i].qty = TotalQty(book.levels[side][prices[i]])
        /\ l3[i].order_count > 0
  BY <1>7, <1>8
<1> QED BY <1>5, <1>8, <1>9 DEF l3

\* The invariant that the depths can be compared by.
PInv == AInv /\ Plain(book)

\* The simple book matches like the order-level book: whatever orders are sent,
\* cancelled and replaced, it trades with the same resting orders, at the same
\* prices, for the same quantities, in the same order, rests the same ids with
\* the same open quantities, and its depth has the same prices and quantities.
\* Its trades name no traders and have no id, and its levels count no orders.
THEOREM BooksAlwaysMatchAlike == Spec => BooksMatchAlike
<1>1. Init => PInv
  <2>1. Plain(EmptyBook)
    BY DEF Plain, EmptyBook
  <2> QED BY <2>1, InitAInv DEF PInv, Init
<1>2. PInv /\ [Next]_vars => PInv'
  BY NextAInv, PlainStep DEF PInv
<1>3. PInv => SamePricesAndQuantities
  BY DepthsCompared DEF PInv
<1>4. Init => Simple!Init
  BY InitSimply
<1>5. PInv /\ [Next]_vars => [Simple!Next]_(Simple!vars)
  BY StepSimply DEF PInv
<1> QED BY <1>1, <1>2, <1>3, <1>4, <1>5, PTL DEF Spec, BooksMatchAlike, Simple!Spec
=============================================================================
