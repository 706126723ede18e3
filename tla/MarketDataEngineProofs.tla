----------------------- MODULE MarketDataEngineProofs -----------------------
(***************************************************************************)
(* MarketDataEngine for all sets of symbols and intervals, and a ring of   *)
(* any capacity: the types, the order of delivery and the throttling.      *)
(***************************************************************************)
EXTENDS MarketDataEngine, SequenceTheorems, TLAPS

\* Every call is counted once.
CallsBounded ==
  messages_throttled + Len(received) + Len(md_queue) + Len(lost) <= MaxUpdates

\* A book update that was sent while there was an interval.
Counted(m) == m.type # "TradeReport" /\ m.interval > 0

\* The times are not behind any update among the messages that counts.
RecordedIn(messages, times) ==
  \A i \in DOMAIN messages : Counted(messages[i]) =>
    /\ messages[i].symbol \in DOMAIN times
    /\ messages[i].timestamp <= times[messages[i].symbol]

\* Each of the times is the time of an update that was given to the ring.
PublishedIn(messages, times) ==
  \A s \in DOMAIN times :
    \E m \in messages : IsBookUpdate(m, s) /\ m.timestamp = times[s]

\* ThrottleSpacing, of any messages.
SpacedIn(messages) ==
  \A i, j \in DOMAIN messages :
    /\ i < j
    /\ Counted(messages[i]) /\ Counted(messages[j])
    /\ messages[i].symbol = messages[j].symbol
    => messages[j].timestamp - messages[i].timestamp >= messages[j].interval

\* What was given to the ring.
Offered == ToSet(Accepted) \cup ToSet(lost)

IInv ==
  /\ TypeOK
  /\ CallsBounded
  /\ RecordedIn(Accepted, last_publish_time)
  /\ PublishedIn(Offered, last_publish_time)
  /\ SpacedIn(Accepted)

----------------------------------------------------------------------------
(* Sequences of messages. *)

\* The numbers of a message.
LEMMA MessageLemma ==
  \A m \in Message : m.timestamp \in Int /\ m.interval \in Int
<1> TAKE m \in Message
<1>1. m.timestamp \in 0..MaxTime /\ m.interval \in Intervals
  BY DEF Message
<1>2. m.timestamp \in Int
  BY <1>1, BoundsAssumption
<1>3. \A n \in Intervals : n \in Nat
  BY IntervalsAssumption
<1>4. m.interval \in Nat
  BY <1>1, <1>3
<1> QED BY <1>2, <1>4

\* What appending a message adds.
LEMMA AppendLemma ==
  ASSUME NEW q \in Seq(Message), NEW m \in Message
  PROVE  /\ Append(q, m) \in Seq(Message)
         /\ Len(Append(q, m)) = Len(q) + 1
         /\ DOMAIN q = 1..Len(q) /\ DOMAIN Append(q, m) = 1..(Len(q) + 1)
         /\ Len(q) \in Nat
         /\ \A i \in DOMAIN q : Append(q, m)[i] = q[i] /\ q[i] \in Message
         /\ Append(q, m)[Len(q) + 1] = m
         /\ ToSet(Append(q, m)) = ToSet(q) \cup {m}
<1>1. /\ Append(q, m) \in Seq(Message)
      /\ Len(Append(q, m)) = Len(q) + 1
      /\ DOMAIN q = 1..Len(q) /\ DOMAIN Append(q, m) = 1..(Len(q) + 1)
      /\ Len(q) \in Nat
      /\ \A i \in DOMAIN q : Append(q, m)[i] = q[i] /\ q[i] \in Message
      /\ Append(q, m)[Len(q) + 1] = m
  BY AppendProperties, LenProperties, ElementOfSeq
<1>2. ToSet(Append(q, m)) \subseteq ToSet(q) \cup {m}
  <2> SUFFICES ASSUME NEW i \in 1..(Len(q) + 1) PROVE Append(q, m)[i] \in ToSet(q) \cup {m}
    BY <1>1 DEF ToSet
  <2>1. CASE i = Len(q) + 1
    BY <1>1, <2>1
  <2>2. CASE i # Len(q) + 1
    <3>1. i \in DOMAIN q
      BY <1>1, <2>2
    <3> QED BY <1>1, <3>1 DEF ToSet
  <2> QED BY <2>1, <2>2
<1>3. ToSet(q) \cup {m} \subseteq ToSet(Append(q, m))
  <2>1. \A i \in DOMAIN q : i \in DOMAIN Append(q, m)
    BY <1>1
  <2>2. Len(q) + 1 \in DOMAIN Append(q, m)
    BY <1>1
  <2> QED BY <1>1, <2>1, <2>2 DEF ToSet
<1> QED BY <1>1, <1>2, <1>3

\* A push appends to what the ring accepted.
LEMMA PushedLemma ==
  ASSUME NEW r \in Seq(Message), NEW q \in Seq(Message), NEW m \in Message
  PROVE  r \o Append(q, m) = Append(r \o q, m) /\ r \o q \in Seq(Message)
<1>1. <<m>> \in Seq(Message)
  OBVIOUS
<1>2. r \o q \in Seq(Message)
  BY ConcatProperties
<1>3. /\ Append(q, m) = q \o <<m>>
      /\ Append(r \o q, m) = (r \o q) \o <<m>>
  BY <1>2, AppendIsConcat
<1>4. (r \o q) \o <<m>> = r \o (q \o <<m>>)
  BY <1>1, ConcatAssociative
<1> QED BY <1>2, <1>3, <1>4

\* A delivery moves the border between what was received and what waits.
LEMMA DeliveredLemma ==
  ASSUME NEW r \in Seq(Message), NEW q \in Seq(Message), q # <<>>
  PROVE  /\ Append(r, Head(q)) \o Tail(q) = r \o q
         /\ Append(r, Head(q)) \in Seq(Message) /\ Tail(q) \in Seq(Message)
         /\ Len(Append(r, Head(q))) = Len(r) + 1 /\ Len(Tail(q)) = Len(q) - 1
         /\ Len(q) \in Nat \ {0} /\ Len(r) \in Nat
<1>1. /\ Head(q) \in Message /\ Tail(q) \in Seq(Message) /\ Len(Tail(q)) = Len(q) - 1
      /\ Len(q) \in Nat \ {0} /\ Len(r) \in Nat
  BY HeadTailProperties, EmptySeq, LenProperties
<1>2. Append(r, Head(q)) = r \o <<Head(q)>> /\ <<Head(q)>> \in Seq(Message)
  BY <1>1, AppendIsConcat
<1>3. (r \o <<Head(q)>>) \o Tail(q) = r \o (<<Head(q)>> \o Tail(q))
  BY <1>1, <1>2, ConcatAssociative
<1>4. <<Head(q)>> \o Tail(q) = q
  <2>1. /\ SubSeq(q, 1, Len(q)) = q
        /\ SubSeq(q, 1, Len(q)) = <<q[1]>> \o SubSeq(q, 2, Len(q))
    BY <1>1, SubSeqFull, SubSeqRecursiveFirst
  <2>2. Head(q) = q[1] /\ Tail(q) = SubSeq(q, 2, Len(q))
    BY TailIsSubSeq
  <2> QED BY <2>1, <2>2
<1>5. Append(r, Head(q)) \in Seq(Message) /\ Len(Append(r, Head(q))) = Len(r) + 1
  BY <1>1, AppendProperties
<1> QED BY <1>1, <1>2, <1>3, <1>4, <1>5

\* The messages of two sequences are those of their concatenation.
LEMMA BothLemma ==
  ASSUME NEW a \in Seq(Message), NEW b \in Seq(Message), NEW m \in ToSet(a) \cup ToSet(b)
  PROVE  m \in ToSet(a \o b)
<1>1. /\ DOMAIN a = 1..Len(a) /\ DOMAIN b = 1..Len(b) /\ Len(a) \in Nat /\ Len(b) \in Nat
      /\ DOMAIN (a \o b) = 1..(Len(a) + Len(b))
      /\ \A i \in 1..(Len(a) + Len(b)) :
           (a \o b)[i] = IF i <= Len(a) THEN a[i] ELSE b[i - Len(a)]
  BY ConcatProperties, LenProperties
<1>2. CASE m \in ToSet(a)
  <2>1. PICK i \in 1..Len(a) : m = a[i]
    BY <1>1, <1>2 DEF ToSet
  <2>2. i \in DOMAIN (a \o b) /\ (a \o b)[i] = m
    BY <1>1, <2>1
  <2> QED BY <2>2 DEF ToSet
<1>3. CASE m \in ToSet(b)
  <2>1. PICK i \in 1..Len(b) : m = b[i]
    BY <1>1, <1>3 DEF ToSet
  <2>2. Len(a) + i \in DOMAIN (a \o b) /\ (a \o b)[Len(a) + i] = m
    BY <1>1, <2>1
  <2> QED BY <2>2 DEF ToSet
<1> QED BY <1>2, <1>3

\* A sequence is a prefix of itself, and of itself with a message more.
LEMMA PrefixLemma ==
  ASSUME NEW a \in Seq(Message)
  PROVE  IsPrefix(a, a) /\ \A m \in Message : IsPrefix(a, Append(a, m))
<1>1. Len(a) \in Nat /\ SubSeq(a, 1, Len(a)) = a
  BY LenProperties, SubSeqFull
<1>2. ASSUME NEW m \in Message PROVE IsPrefix(a, Append(a, m))
  <2> DEFINE b == Append(a, m)
             c == SubSeq(b, 1, Len(a))
  <2>1. /\ Len(b) = Len(a) + 1 /\ DOMAIN a = 1..Len(a)
        /\ \A i \in DOMAIN a : b[i] = a[i] /\ a[i] \in Message
    BY AppendLemma
  <2> HIDE DEF b
  <2>2. \A i \in 1..Len(a) : b[i] \in Message
    BY <2>1
  <2>3. /\ c \in Seq(Message)
        /\ Len(c) = IF 1 <= Len(a) THEN Len(a) - 1 + 1 ELSE 0
        /\ \A i \in 1..(Len(a) - 1 + 1) : c[i] = b[1 + i - 1]
    BY <1>1, <2>2, SubSeqProperties
  <2>4. Len(c) = Len(a) /\ \A i \in 1..Len(a) : c[i] = a[i]
    BY <1>1, <2>1, <2>3
  <2>5. c = a
    BY <2>3, <2>4, SeqEqual
  <2> QED BY <1>1, <2>1, <2>5 DEF IsPrefix, b
<1> QED BY <1>1, <1>2 DEF IsPrefix

----------------------------------------------------------------------------
(* The feed thread. *)

\* The message that a push sends.
Sent(type, s) ==
  [type |-> type, symbol |-> s, timestamp |-> now, interval |-> throttle_ns]

\* A push puts its message into the ring, or loses it.
LEMMA PushLemma ==
  ASSUME TypeOK, NEW type \in MDUpdateType, NEW s \in Symbol,
         Push(type, s), UNCHANGED received
  PROVE  /\ Sent(type, s) \in Message /\ Accepted \in Seq(Message)
         /\ md_queue' \in Seq(Message) /\ lost' \in Seq(Message)
         /\ unseen' \in 0..(Capacity - Len(md_queue'))
         /\ Len(md_queue') + Len(lost') = Len(md_queue) + Len(lost) + 1
         /\ Accepted' = Accepted \/ Accepted' = Append(Accepted, Sent(type, s))
         /\ Offered' = Offered \cup {Sent(type, s)}
<1> DEFINE m == Sent(type, s)
<1>1. /\ m \in Message
      /\ md_queue \in Seq(Message) /\ lost \in Seq(Message) /\ received \in Seq(Message)
      /\ Len(md_queue) \in Nat /\ Len(lost) \in Nat
      /\ unseen \in 0..(Capacity - Len(md_queue))
  BY LenProperties DEF TypeOK, Message, Sent
<1>2. /\ Accepted = received \o md_queue /\ Accepted' = received \o md_queue'
      /\ Accepted \in Seq(Message)
      /\ received \o Append(md_queue, m) = Append(Accepted, m)
  BY <1>1, PushedLemma DEF Accepted
<1>3. PICK u \in 0..unseen :
        /\ unseen' = u
        /\ \/ /\ Len(md_queue) + u < Capacity
              /\ md_queue' = Append(md_queue, m)
              /\ UNCHANGED lost
           \/ /\ Len(md_queue) + u = Capacity
              /\ lost' = Append(lost, m)
              /\ UNCHANGED md_queue
  BY DEF Push, Sent
<1> HIDE DEF m
<1>4. CASE /\ Len(md_queue) + u < Capacity
           /\ md_queue' = Append(md_queue, m)
           /\ UNCHANGED lost
  <2>1. md_queue' \in Seq(Message) /\ Len(md_queue') = Len(md_queue) + 1
    BY <1>1, <1>4, AppendLemma
  <2>2. unseen' \in 0..(Capacity - Len(md_queue'))
    BY <1>1, <1>3, <1>4, <2>1, CapacityAssumption
  <2>3. Accepted' = Append(Accepted, m)
    BY <1>2, <1>4
  <2>4. ToSet(Accepted') = ToSet(Accepted) \cup {m}
    BY <1>1, <1>2, <2>3, AppendLemma
  <2>5. Offered' = ToSet(Accepted') \cup ToSet(lost')
    BY DEF Offered
  <2>6. Offered' = Offered \cup {m}
    BY <1>4, <2>4, <2>5 DEF Offered
  <2>7. /\ lost' \in Seq(Message)
        /\ Len(md_queue') + Len(lost') = Len(md_queue) + Len(lost) + 1
    BY <1>1, <1>4, <2>1
  <2> QED BY <1>1, <1>2, <2>1, <2>2, <2>3, <2>6, <2>7 DEF m
<1>5. CASE /\ Len(md_queue) + u = Capacity
           /\ lost' = Append(lost, m)
           /\ UNCHANGED md_queue
  <2>1. /\ lost' \in Seq(Message) /\ Len(lost') = Len(lost) + 1
        /\ ToSet(lost') = ToSet(lost) \cup {m}
    BY <1>1, <1>5, AppendLemma
  <2>2. unseen' \in 0..(Capacity - Len(md_queue'))
    BY <1>1, <1>3, <1>5, CapacityAssumption
  <2>3. Accepted' = Accepted
    BY <1>2, <1>5
  <2>4. Offered' = ToSet(Accepted') \cup ToSet(lost')
    BY DEF Offered
  <2>5. Offered' = Offered \cup {m}
    BY <2>1, <2>3, <2>4 DEF Offered
  <2> QED BY <1>1, <1>2, <1>5, <2>1, <2>2, <2>3, <2>5 DEF m
<1> QED BY <1>3, <1>4, <1>5

\* What should_throttle does to the times.
LEMMA PublishTimesLemma ==
  ASSUME TypeOK, NEW s \in Symbol
  PROVE  LET times == PublishTimes(s)
         IN  /\ DOMAIN times \subseteq Symbol
             /\ DOMAIN last_publish_time \subseteq DOMAIN times
             /\ \A x \in DOMAIN times : times[x] \in 0..now
             /\ \A x \in DOMAIN last_publish_time : last_publish_time[x] <= times[x]
             /\ \A x \in DOMAIN times :
                  \/ x \in DOMAIN last_publish_time /\ times[x] = last_publish_time[x]
                  \/ x = s /\ times[x] = now /\ ~TooSoon(s)
             /\ ~TooSoon(s) /\ throttle_ns # 0 => s \in DOMAIN times /\ times[s] = now
             /\ TooSoon(s) => times = last_publish_time
<1>1. /\ DOMAIN last_publish_time \subseteq Symbol
      /\ now \in Nat
      /\ \A x \in DOMAIN last_publish_time : last_publish_time[x] \in 0..now
  BY DEF TypeOK
<1>2. CASE throttle_ns = 0 \/ TooSoon(s)
  <2>1. PublishTimes(s) = last_publish_time
    BY <1>2 DEF PublishTimes
  <2> QED BY <1>1, <1>2, <2>1
<1>3. CASE ~(throttle_ns = 0 \/ TooSoon(s))
  <2>1. PublishTimes(s) = [x \in DOMAIN last_publish_time \cup {s} |->
                             IF x = s THEN now ELSE last_publish_time[x]]
    BY <1>3 DEF PublishTimes
  <2> QED BY <1>1, <1>3, <2>1
<1> QED BY <1>2, <1>3

\* A message more, which counts only if the times say it is no earlier than due.
LEMMA AppendKeeps ==
  ASSUME NEW a \in Seq(Message), NEW m \in Message, NEW times,
         RecordedIn(a, times), SpacedIn(a), \A x \in DOMAIN times : times[x] \in Nat,
         Counted(m) /\ m.symbol \in DOMAIN times =>
           m.timestamp - times[m.symbol] >= m.interval
  PROVE  SpacedIn(Append(a, m))
<1> DEFINE b == Append(a, m)
<1>1. /\ DOMAIN a = 1..Len(a) /\ DOMAIN b = 1..(Len(a) + 1) /\ Len(a) \in Nat
      /\ \A i \in DOMAIN a : b[i] = a[i] /\ a[i] \in Message
      /\ b[Len(a) + 1] = m
  BY AppendLemma
<1> HIDE DEF b
<1> SUFFICES ASSUME NEW i \in DOMAIN b, NEW j \in DOMAIN b, i < j,
                    Counted(b[i]), Counted(b[j]), b[i].symbol = b[j].symbol
             PROVE  b[j].timestamp - b[i].timestamp >= b[j].interval
  BY DEF SpacedIn, b
<1>2. i \in DOMAIN a
  BY <1>1
<1>3. CASE j \in DOMAIN a
  BY <1>1, <1>2, <1>3 DEF SpacedIn
<1>4. CASE j = Len(a) + 1
  <2>1. /\ b[j] = m /\ b[i] = a[i] /\ a[i] \in Message
        /\ m.symbol \in DOMAIN times
        /\ a[i].timestamp <= times[m.symbol]
    BY <1>1, <1>2, <1>4 DEF RecordedIn
  <2>2. \A x \in Message : x.timestamp \in Int /\ x.interval \in Int
    BY MessageLemma
  <2>3. m.timestamp - times[m.symbol] >= m.interval
    BY <2>1
  <2>4. times[m.symbol] \in Int
    BY <2>1
  <2>5. m.timestamp - a[i].timestamp >= m.interval
    BY <2>1, <2>2, <2>3, <2>4
  <2> QED BY <2>1, <2>5
<1> QED BY <1>1, <1>3, <1>4

\* Times that move forward, and have an entry for a new message that counts.
LEMMA RecordedKeeps ==
  ASSUME NEW a \in Seq(Message), NEW m \in Message, NEW old, NEW new,
         RecordedIn(a, old), DOMAIN old \subseteq DOMAIN new,
         \A x \in DOMAIN new : new[x] \in Nat,
         \A x \in DOMAIN old : old[x] \in Nat /\ old[x] <= new[x]
  PROVE  /\ RecordedIn(a, new)
         /\ (Counted(m) => m.symbol \in DOMAIN new /\ m.timestamp <= new[m.symbol])
               => RecordedIn(Append(a, m), new)
<1>1. /\ DOMAIN a = 1..Len(a) /\ DOMAIN Append(a, m) = 1..(Len(a) + 1) /\ Len(a) \in Nat
      /\ \A i \in DOMAIN a : Append(a, m)[i] = a[i] /\ a[i] \in Message
      /\ Append(a, m)[Len(a) + 1] = m
  BY AppendLemma
<1>2. ASSUME NEW i \in DOMAIN a, Counted(a[i])
      PROVE  a[i].symbol \in DOMAIN new /\ a[i].timestamp <= new[a[i].symbol]
  <2>1. a[i].symbol \in DOMAIN old /\ a[i].timestamp <= old[a[i].symbol]
    BY <1>2 DEF RecordedIn
  <2>2. a[i].timestamp \in Int
    BY <1>1, BoundsAssumption DEF Message
  <2> QED BY <2>1, <2>2
<1>3. RecordedIn(a, new)
  BY <1>2 DEF RecordedIn
<1>4. ASSUME Counted(m) => m.symbol \in DOMAIN new /\ m.timestamp <= new[m.symbol]
      PROVE  RecordedIn(Append(a, m), new)
  <2> SUFFICES ASSUME NEW i \in 1..(Len(a) + 1), Counted(Append(a, m)[i])
               PROVE  /\ Append(a, m)[i].symbol \in DOMAIN new
                      /\ Append(a, m)[i].timestamp <= new[Append(a, m)[i].symbol]
    BY <1>1 DEF RecordedIn
  <2>1. CASE i \in DOMAIN a
    BY <1>1, <1>2, <2>1
  <2>2. CASE i = Len(a) + 1
    BY <1>1, <1>4, <2>2
  <2> QED BY <1>1, <2>1, <2>2
<1> QED BY <1>3, <1>4

\* The feed may give an update of s to the ring once its interval is over.
LEMMA DueLemma ==
  ASSUME TypeOK, NEW s \in Symbol, ~TooSoon(s), s \in DOMAIN last_publish_time
  PROVE  now - last_publish_time[s] >= throttle_ns
BY IntervalsAssumption DEF TypeOK, TooSoon

\* A top of book or depth update.
LEMMA BookUpdateStep ==
  ASSUME IInv, NEW type \in MDUpdateType, type # "TradeReport", NEW s \in Symbol,
         BookUpdate(type, s)
  PROVE  /\ IInv'
         /\ Accepted' = Accepted \/ \E m \in Message : Accepted' = Append(Accepted, m)
         /\ \E m \in Offered' :
              IsBookUpdate(m, s) /\ (m.timestamp = now \/ now - m.timestamp < throttle_ns)
<1> USE BoundsAssumption, IntervalsAssumption
<1> DEFINE m == Sent(type, s)
           times == PublishTimes(s)
<1>1. /\ TypeOK /\ CallsBounded /\ RecordedIn(Accepted, last_publish_time)
      /\ PublishedIn(Offered, last_publish_time) /\ SpacedIn(Accepted)
  BY DEF IInv
<1>2. /\ now' = now /\ throttle_ns' = throttle_ns /\ received' = received
      /\ last_publish_time' = times
      /\ MayCall
  BY DEF BookUpdate
<1>3. /\ now \in Nat /\ throttle_ns \in Nat /\ received \in Seq(Message)
      /\ md_queue \in Seq(Message) /\ lost \in Seq(Message)
      /\ messages_throttled \in Nat /\ Len(received) \in Nat /\ Len(md_queue) \in Nat
      /\ Len(lost) \in Nat /\ DOMAIN last_publish_time \subseteq Symbol
      /\ \A x \in DOMAIN last_publish_time : last_publish_time[x] \in Nat
  BY <1>1, LenProperties DEF TypeOK
<1>4. /\ DOMAIN times \subseteq Symbol
      /\ DOMAIN last_publish_time \subseteq DOMAIN times
      /\ \A x \in DOMAIN times : times[x] \in 0..now
      /\ \A x \in DOMAIN last_publish_time : last_publish_time[x] <= times[x]
      /\ \A x \in DOMAIN times :
           \/ x \in DOMAIN last_publish_time /\ times[x] = last_publish_time[x]
           \/ x = s /\ times[x] = now /\ ~TooSoon(s)
      /\ ~TooSoon(s) /\ throttle_ns # 0 => s \in DOMAIN times /\ times[s] = now
      /\ TooSoon(s) => times = last_publish_time
  BY <1>1, PublishTimesLemma
<1> HIDE DEF times
<1>5. CASE TooSoon(s)
  <2>1. /\ messages_throttled' = messages_throttled + 1
        /\ UNCHANGED <<md_queue, unseen, lost, last_publish_time>>
    BY <1>2, <1>4, <1>5 DEF BookUpdate
  <2>2. Accepted' = Accepted /\ Offered' = Offered
    BY <1>2, <2>1 DEF Accepted, Offered
  <2>3. TypeOK' /\ CallsBounded'
    BY <1>1, <1>2, <1>3, <2>1 DEF TypeOK, CallsBounded, MayCall
  <2>4. /\ RecordedIn(Accepted', last_publish_time') /\ PublishedIn(Offered', last_publish_time')
        /\ SpacedIn(Accepted')
    BY <1>1, <2>1, <2>2
  <2>5. PICK o \in Offered : IsBookUpdate(o, s) /\ o.timestamp = last_publish_time[s]
    BY <1>1, <1>5 DEF PublishedIn, TooSoon
  <2>6. now - o.timestamp < throttle_ns
    BY <1>5, <2>5 DEF TooSoon
  <2> QED BY <2>2, <2>3, <2>4, <2>5, <2>6 DEF IInv
<1>6. CASE ~TooSoon(s)
  <2>1. Push(type, s) /\ messages_throttled' = messages_throttled
    BY <1>6 DEF BookUpdate
  <2>2. /\ m \in Message /\ Accepted \in Seq(Message)
        /\ md_queue' \in Seq(Message) /\ lost' \in Seq(Message)
        /\ unseen' \in 0..(Capacity - Len(md_queue'))
        /\ Len(md_queue') + Len(lost') = Len(md_queue) + Len(lost) + 1
        /\ Accepted' = Accepted \/ Accepted' = Append(Accepted, m)
        /\ Offered' = Offered \cup {m}
    BY <1>1, <1>2, <2>1, PushLemma
  <2>3. /\ m.type = type /\ m.symbol = s /\ m.timestamp = now /\ m.interval = throttle_ns
    BY DEF Sent
  <2> HIDE DEF m
  <2>4. Len(md_queue') \in Nat /\ Len(lost') \in Nat
    BY <2>2, LenProperties
  <2>5. CallsBounded'
    BY <1>1, <1>2, <1>3, <2>1, <2>2, <2>4 DEF CallsBounded, MayCall
  <2>6. TypeOK'
    BY <1>1, <1>2, <1>4, <2>1, <2>2 DEF TypeOK
  <2>7. RecordedIn(Accepted, times)
        /\ ((Counted(m) => m.symbol \in DOMAIN times /\ m.timestamp <= times[m.symbol])
             => RecordedIn(Append(Accepted, m), times))
    <3> DEFINE a == Accepted
    <3>1. a \in Seq(Message) /\ RecordedIn(a, last_publish_time)
      BY <1>1, <2>2
    <3>2. /\ \A x \in DOMAIN times : times[x] \in Nat
          /\ \A x \in DOMAIN last_publish_time :
               last_publish_time[x] \in Nat /\ last_publish_time[x] <= times[x]
      BY <1>3, <1>4
    <3> HIDE DEF a
    <3>3. /\ RecordedIn(a, times)
          /\ (Counted(m) => m.symbol \in DOMAIN times /\ m.timestamp <= times[m.symbol])
               => RecordedIn(Append(a, m), times)
      BY <1>4, <2>2, <3>1, <3>2, RecordedKeeps
    <3> QED BY <3>3 DEF a
  <2>8. Counted(m) => m.symbol \in DOMAIN times /\ m.timestamp <= times[m.symbol]
    BY <1>3, <1>4, <1>6, <2>3 DEF Counted
  <2>9. RecordedIn(Accepted', times)
    BY <2>2, <2>7, <2>8
  <2>10. SpacedIn(Append(Accepted, m))
    <3>1. Counted(m) /\ m.symbol \in DOMAIN last_publish_time =>
            m.timestamp - last_publish_time[m.symbol] >= m.interval
      BY <1>1, <1>6, <2>3, DueLemma
    <3> QED BY <1>1, <1>3, <2>2, <3>1, AppendKeeps
  <2>11. SpacedIn(Accepted')
    BY <1>1, <2>2, <2>10
  <2>12. m \in Offered' /\ IsBookUpdate(m, s) /\ m.timestamp = now
    BY <2>2, <2>3 DEF IsBookUpdate
  <2>13. PublishedIn(Offered', times)
    <3> SUFFICES ASSUME NEW x \in DOMAIN times
                 PROVE  \E o \in Offered' : IsBookUpdate(o, x) /\ o.timestamp = times[x]
      BY DEF PublishedIn
    <3>1. CASE x \in DOMAIN last_publish_time /\ times[x] = last_publish_time[x]
      BY <1>1, <2>2, <3>1 DEF PublishedIn
    <3>2. CASE x = s /\ times[x] = now
      BY <2>12, <3>2
    <3> QED BY <1>4, <3>1, <3>2
  <2> QED BY <1>2, <2>2, <2>5, <2>6, <2>9, <2>11, <2>12, <2>13 DEF IInv
<1> QED BY <1>5, <1>6

\* A trade is never held back, and never counts.
LEMMA TradeStep ==
  ASSUME IInv, NEW s \in Symbol, on_trade(s)
  PROVE  /\ IInv'
         /\ Accepted' = Accepted \/ \E m \in Message : Accepted' = Append(Accepted, m)
<1> USE BoundsAssumption, IntervalsAssumption
<1> DEFINE m == Sent("TradeReport", s)
<1>1. /\ TypeOK /\ CallsBounded /\ RecordedIn(Accepted, last_publish_time)
      /\ PublishedIn(Offered, last_publish_time) /\ SpacedIn(Accepted)
  BY DEF IInv
<1>2. /\ UNCHANGED <<now, throttle_ns, last_publish_time, messages_throttled, received>>
      /\ MayCall /\ Push("TradeReport", s)
  BY DEF on_trade
<1>3. /\ m \in Message /\ Accepted \in Seq(Message)
      /\ md_queue' \in Seq(Message) /\ lost' \in Seq(Message)
      /\ unseen' \in 0..(Capacity - Len(md_queue'))
      /\ Len(md_queue') + Len(lost') = Len(md_queue) + Len(lost) + 1
      /\ Accepted' = Accepted \/ Accepted' = Append(Accepted, m)
      /\ Offered' = Offered \cup {m}
  <2>1. "TradeReport" \in MDUpdateType
    BY DEF MDUpdateType
  <2> QED BY <1>1, <1>2, <2>1, PushLemma
<1>4. ~Counted(m)
  BY DEF Sent, Counted
<1> HIDE DEF m
<1>5. /\ Len(md_queue') \in Nat /\ Len(lost') \in Nat /\ Len(received) \in Nat
      /\ Len(md_queue) \in Nat /\ Len(lost) \in Nat
  BY <1>1, <1>3, LenProperties DEF TypeOK
<1>6. TypeOK' /\ CallsBounded'
  BY <1>1, <1>2, <1>3, <1>5 DEF TypeOK, CallsBounded, MayCall
<1>7. \A x \in DOMAIN last_publish_time :
        last_publish_time[x] \in Nat /\ last_publish_time[x] <= last_publish_time[x]
  BY <1>1 DEF TypeOK
<1>8. RecordedIn(Accepted', last_publish_time')
  <2>1. RecordedIn(Append(Accepted, m), last_publish_time)
    BY <1>1, <1>3, <1>4, <1>7, RecordedKeeps
  <2> QED BY <1>1, <1>2, <1>3, <2>1
<1>9. SpacedIn(Accepted')
  <2>1. SpacedIn(Append(Accepted, m))
    BY <1>1, <1>3, <1>4, <1>7, AppendKeeps
  <2> QED BY <1>1, <1>3, <2>1
<1>10. PublishedIn(Offered', last_publish_time')
  BY <1>1, <1>2, <1>3 DEF PublishedIn
<1> QED BY <1>3, <1>6, <1>8, <1>9, <1>10 DEF IInv

----------------------------------------------------------------------------
(* The other steps. *)

\* A delivery leaves what the ring accepted, in its order.
LEMMA DeliverStep ==
  ASSUME IInv, Deliver
  PROVE  IInv' /\ Accepted' = Accepted
<1>1. /\ TypeOK /\ CallsBounded /\ RecordedIn(Accepted, last_publish_time)
      /\ PublishedIn(Offered, last_publish_time) /\ SpacedIn(Accepted)
  BY DEF IInv
<1>2. /\ md_queue # <<>> /\ md_queue' = Tail(md_queue) /\ unseen' = unseen + 1
      /\ received' = Append(received, Head(md_queue))
      /\ UNCHANGED <<now, throttle_ns, last_publish_time, messages_throttled, lost>>
  BY DEF Deliver
<1>3. received \in Seq(Message) /\ md_queue \in Seq(Message)
  BY <1>1 DEF TypeOK
<1>4. /\ received' \o md_queue' = received \o md_queue
      /\ received' \in Seq(Message) /\ md_queue' \in Seq(Message)
      /\ Len(received') = Len(received) + 1 /\ Len(md_queue') = Len(md_queue) - 1
      /\ Len(md_queue) \in Nat \ {0} /\ Len(received) \in Nat
  BY <1>2, <1>3, DeliveredLemma
<1>5. Accepted' = Accepted /\ Offered' = Offered
  BY <1>2, <1>4 DEF Accepted, Offered
<1>6. Len(lost) \in Nat
  BY <1>1, LenProperties DEF TypeOK
<1>7. CallsBounded'
  BY <1>1, <1>2, <1>4, <1>6, BoundsAssumption DEF CallsBounded, TypeOK
<1>8. TypeOK'
  <2>1. unseen' \in 0..(Capacity - Len(md_queue'))
    BY <1>1, <1>2, <1>4, CapacityAssumption DEF TypeOK
  <2> QED BY <1>1, <1>2, <1>4, <2>1 DEF TypeOK
<1> QED BY <1>1, <1>2, <1>5, <1>7, <1>8 DEF IInv

\* Neither a new interval nor the clock touches a message.
LEMMA IdleStep ==
  ASSUME IInv, set_throttle_interval_ns \/ advance \/ UNCHANGED vars
  PROVE  IInv' /\ Accepted' = Accepted
<1> USE BoundsAssumption, IntervalsAssumption
<1>1. UNCHANGED <<last_publish_time, messages_throttled, md_queue, unseen, received, lost>>
  BY DEF set_throttle_interval_ns, advance, vars
<1>2. now' \in 0..MaxTime /\ now <= now' /\ throttle_ns' \in Intervals /\ now \in Nat
  BY DEF set_throttle_interval_ns, advance, vars, IInv, TypeOK
<1>3. TypeOK' /\ CallsBounded'
  BY <1>1, <1>2 DEF IInv, TypeOK, CallsBounded
<1>4. Accepted' = Accepted /\ Offered' = Offered
  BY <1>1 DEF Accepted, Offered
<1> QED BY <1>1, <1>3, <1>4 DEF IInv

\* Initially the ring is empty, and nothing was sent.
LEMMA InitIInv == Init => IInv
<1> SUFFICES ASSUME Init PROVE IInv
  OBVIOUS
<1>1. Accepted = <<>>
  BY ConcatEmptySeq, EmptySeq DEF Init, Accepted
<1>2. DOMAIN Accepted = {} /\ DOMAIN last_publish_time = {}
  BY <1>1 DEF Init
<1>3. TypeOK /\ CallsBounded
  <2>1. <<>> \in Seq(Message) /\ Len(<<>>) = 0
    BY EmptySeq
  <2> QED BY <1>2, <2>1, CapacityAssumption, IntervalsAssumption, BoundsAssumption
          DEF Init, TypeOK, CallsBounded
<1> QED BY <1>2, <1>3 DEF IInv, RecordedIn, PublishedIn, SpacedIn

\* What any step does to what the ring accepted.
LEMMA NextIInv ==
  ASSUME IInv, [Next]_vars
  PROVE  /\ IInv'
         /\ Accepted' = Accepted \/ \E m \in Message : Accepted' = Append(Accepted, m)
<1>1. ASSUME NEW s \in Symbol, on_tob_update(s) \/ on_depth_update(s)
      PROVE  /\ IInv'
             /\ Accepted' = Accepted \/ \E m \in Message : Accepted' = Append(Accepted, m)
  <2>1. PICK type \in MDUpdateType : type # "TradeReport" /\ BookUpdate(type, s)
    BY <1>1 DEF on_tob_update, on_depth_update, MDUpdateType
  <2> QED BY <2>1, BookUpdateStep
<1> QED BY <1>1, TradeStep, DeliverStep, IdleStep DEF Next

----------------------------------------------------------------------------
(* The theorems. *)

\* Types, and times that are not behind what they are to keep apart.
THEOREM Invariance == Spec => []IInv
<1>1. IInv /\ [Next]_vars => IInv'
  BY NextIInv
<1> QED BY <1>1, InitIInv, PTL DEF Spec

\* Every variable has its type; the ring never holds more than its capacity,
\* the items whose removal the producer has not seen counted with the others.
THEOREM TypeCorrect == Spec => []TypeOK
<1>1. IInv => TypeOK
  BY DEF IInv
<1> QED BY <1>1, Invariance, PTL

\* Book updates of a symbol are an interval apart, for any number of symbols,
\* any intervals and any order of calls: last_publish_time_ is not behind any
\* update that got into the ring.
THEOREM UpdatesAreSpaced == Spec => []ThrottleSpacing
<1>1. IInv => ThrottleSpacing
  BY DEF IInv, SpacedIn, ThrottleSpacing, Counted, IsBookUpdate
<1> QED BY <1>1, Invariance, PTL

\* Throttling holds an update back only if one less than an interval old has
\* been given to the ring: an update that is held back leaves the time alone.
THEOREM NoSymbolIsStarved == Spec => NotStarved
<1>1. IInv /\ [Next]_vars =>
        [\A s \in Symbol : on_tob_update(s) \/ on_depth_update(s) =>
           \E m \in ToSet((Accepted \o lost)') :
             /\ IsBookUpdate(m, s)
             /\ m.timestamp = now \/ now - m.timestamp < throttle_ns]_vars
  <2> SUFFICES ASSUME IInv, [Next]_vars, NEW s \in Symbol, on_tob_update(s) \/ on_depth_update(s)
               PROVE  \E m \in ToSet((Accepted \o lost)') :
                        /\ IsBookUpdate(m, s)
                        /\ m.timestamp = now \/ now - m.timestamp < throttle_ns
    OBVIOUS
  <2>1. PICK type \in MDUpdateType : type # "TradeReport" /\ BookUpdate(type, s)
    BY DEF on_tob_update, on_depth_update, MDUpdateType
  <2>2. PICK m \in Offered' :
          IsBookUpdate(m, s) /\ (m.timestamp = now \/ now - m.timestamp < throttle_ns)
    BY <2>1, BookUpdateStep
  <2>3. Accepted' \in Seq(Message) /\ lost' \in Seq(Message)
    <3>1. IInv'
      BY NextIInv
    <3>2. received' \in Seq(Message) /\ md_queue' \in Seq(Message) /\ lost' \in Seq(Message)
      BY <3>1 DEF IInv, TypeOK
    <3>3. Accepted' = received' \o md_queue'
      BY DEF Accepted
    <3> QED BY <3>2, <3>3, ConcatProperties
  <2>4. m \in ToSet(Accepted' \o lost')
    BY <2>2, <2>3, BothLemma DEF Offered
  <2>5. (Accepted \o lost)' = Accepted' \o lost'
    OBVIOUS
  <2> QED BY <2>2, <2>4, <2>5
<1> QED BY <1>1, Invariance, PTL DEF Spec, NotStarved

\* Between ring and handlers nothing is dropped, repeated or overtaken.
THEOREM DeliveryInOrder == Spec => DeliveredInOrder
<1>1. IInv /\ [Next]_vars => [IsPrefix(Accepted, Accepted')]_vars
  <2> SUFFICES ASSUME IInv, [Next]_vars PROVE IsPrefix(Accepted, Accepted')
    OBVIOUS
  <2>1. Accepted' = Accepted \/ \E m \in Message : Accepted' = Append(Accepted, m)
    BY NextIInv
  <2>2. Accepted \in Seq(Message)
    BY ConcatProperties DEF IInv, TypeOK, Accepted
  <2> QED BY <2>1, <2>2, PrefixLemma
<1> QED BY <1>1, Invariance, PTL DEF Spec, DeliveredInOrder
=============================================================================
