-------------------------- MODULE MarketDataEngine --------------------------
(***************************************************************************)
(* MarketDataEngine (src/src/market/market_data_engine.cpp) between the    *)
(* feed thread, which calls the on_ functions, and the publisher thread,   *)
(* which polls process_pending.  They share md_queue_ only, an HPRingBuffer *)
(* taken here for what HPRingBuffer.tla shows it to be: a bounded FIFO     *)
(* queue whose producer may not have seen yet that items were taken.       *)
(*                                                                         *)
(* A message is its kind, symbol and timestamp; `interval`, the throttle   *)
(* interval when it was sent, is history.  So are `received`, all that the *)
(* handlers were called with (its length is messages_published_), and      *)
(* `lost`, the messages whose push failed, a result the code discards.     *)
(* The clock is the steady clock, or the simulated one moved by advance.   *)
(***************************************************************************)
EXTENDS Integers, SequencesExt

CONSTANTS
  Symbol,
  Capacity,       \* what md_queue_ can hold
  Intervals,      \* arguments of set_throttle_interval_ns, 0 for none
  MaxTime,        \* bound: the clock stops here
  MaxUpdates      \* bound: calls of the on_ functions

ASSUME CapacityAssumption == Capacity \in Nat \ {0}
ASSUME IntervalsAssumption == Intervals \subseteq Nat /\ 0 \in Intervals
ASSUME BoundsAssumption == MaxTime \in Nat /\ MaxUpdates \in Nat

MDUpdateType == {"SnapshotFull", "IncrementalRefresh", "TradeReport"}

VARIABLES
  now,                  \* what clock_.now() returns
  throttle_ns,
  last_publish_time,    \* by symbol, for the symbols that have an entry
  messages_throttled,
  md_queue,
  unseen,               \* items taken since the producer's last load of tail_
  received,
  lost

vars == <<now, throttle_ns, last_publish_time, messages_throttled,
          md_queue, unseen, received, lost>>

Message ==
  [type : MDUpdateType, symbol : Symbol, timestamp : 0..MaxTime, interval : Intervals]

\* Mutant: off by one.
TooSoonByLess(s) ==
  /\ s \in DOMAIN last_publish_time
  /\ now - last_publish_time[s] < throttle_ns - 1

\* What should_throttle answers.  Without an interval it is false.
TooSoon(s) ==
  /\ s \in DOMAIN last_publish_time
  /\ now - last_publish_time[s] < throttle_ns

\* Mutant: an update that is held back counts as published.
PublishTimesSliding(s) ==
  IF throttle_ns = 0 THEN last_publish_time
  ELSE [x \in DOMAIN last_publish_time \cup {s} |->
          IF x = s THEN now ELSE last_publish_time[x]]

\* What should_throttle leaves in last_publish_time_.
PublishTimes(s) ==
  IF throttle_ns = 0 \/ TooSoon(s) THEN last_publish_time
  ELSE [x \in DOMAIN last_publish_time \cup {s} |->
          IF x = s THEN now ELSE last_publish_time[x]]

Init ==
  /\ now = 0
  /\ throttle_ns = 0
  /\ last_publish_time = <<>>
  /\ messages_throttled = 0
  /\ md_queue = <<>> /\ unseen = 0
  /\ received = <<>> /\ lost = <<>>

----------------------------------------------------------------------------
(* The feed thread. *)

\* The bound on the calls.
MayCall ==
  messages_throttled + Len(received) + Len(md_queue) + Len(lost) < MaxUpdates

\* Mutant: without the test for a full ring.
PushUntested(type, s) ==
  LET msg == [type |-> type, symbol |-> s, timestamp |-> now, interval |-> throttle_ns]
  IN  \E u \in 0..unseen :
        /\ unseen' = u
        /\ md_queue' = Append(md_queue, msg)
        /\ UNCHANGED lost

\* A push whose load of tail_ leaves u of the items taken unseen.
Push(type, s) ==
  LET msg == [type |-> type, symbol |-> s, timestamp |-> now, interval |-> throttle_ns]
  IN  \E u \in 0..unseen :
        /\ unseen' = u
        /\ \/ /\ Len(md_queue) + u < Capacity
              /\ md_queue' = Append(md_queue, msg)
              /\ UNCHANGED lost
           \/ /\ Len(md_queue) + u = Capacity
              /\ lost' = Append(lost, msg)
              /\ UNCHANGED md_queue

BookUpdate(type, s) ==
  /\ MayCall
  /\ last_publish_time' = PublishTimes(s)
  /\ \/ /\ TooSoon(s)
        /\ messages_throttled' = messages_throttled + 1
        /\ UNCHANGED <<md_queue, unseen, lost>>
     \/ /\ ~TooSoon(s)
        /\ Push(type, s)
        /\ UNCHANGED messages_throttled
  /\ UNCHANGED <<now, throttle_ns, received>>

on_tob_update(s) == BookUpdate("IncrementalRefresh", s)

on_depth_update(s) == BookUpdate("SnapshotFull", s)

on_trade(s) ==
  /\ MayCall
  /\ Push("TradeReport", s)
  /\ UNCHANGED <<now, throttle_ns, last_publish_time, messages_throttled, received>>

set_throttle_interval_ns ==
  /\ throttle_ns' \in Intervals
  /\ UNCHANGED <<now, last_publish_time, messages_throttled, md_queue, unseen,
                 received, lost>>

----------------------------------------------------------------------------
(* The publisher thread. *)

\* Mutant: a case of the switch is missing.
DeliverButTrades ==
  /\ md_queue # <<>>
  /\ md_queue' = Tail(md_queue)
  /\ unseen' = unseen + 1
  /\ received' = IF Head(md_queue).type = "TradeReport" THEN received
                 ELSE Append(received, Head(md_queue))
  /\ UNCHANGED <<now, throttle_ns, last_publish_time, messages_throttled, lost>>

\* Mutant: the loop stops one message early.
DeliverButLast ==
  /\ Len(md_queue) > 1
  /\ md_queue' = Tail(md_queue)
  /\ unseen' = unseen + 1
  /\ received' = Append(received, Head(md_queue))
  /\ UNCHANGED <<now, throttle_ns, last_publish_time, messages_throttled, lost>>

\* One iteration of process_pending: pop, and the handlers of the message's type.
Deliver ==
  /\ md_queue # <<>>
  /\ md_queue' = Tail(md_queue)
  /\ unseen' = unseen + 1
  /\ received' = Append(received, Head(md_queue))
  /\ UNCHANGED <<now, throttle_ns, last_publish_time, messages_throttled, lost>>

----------------------------------------------------------------------------
advance ==
  /\ now < MaxTime
  /\ now' = now + 1
  /\ UNCHANGED <<throttle_ns, last_publish_time, messages_throttled, md_queue,
                 unseen, received, lost>>

Next ==
  \/ \E s \in Symbol : on_tob_update(s)
  \/ \E s \in Symbol : on_depth_update(s)
  \/ \E s \in Symbol : on_trade(s)
  \/ set_throttle_interval_ns
  \/ Deliver
  \/ advance

\* The publisher thread keeps polling; nothing is due from the feed.
Fairness == WF_vars(Deliver)

Spec == Init /\ [][Next]_vars /\ Fairness

----------------------------------------------------------------------------
\* The type of every variable.  An item not yet seen to be taken still has its
\* slot, so that with those in the queue it makes no more than Capacity.
TypeOK ==
  /\ now \in 0..MaxTime
  /\ throttle_ns \in Intervals
  /\ DOMAIN last_publish_time \subseteq Symbol
  /\ \A s \in DOMAIN last_publish_time : last_publish_time[s] \in 0..now
  /\ messages_throttled \in 0..MaxUpdates
  /\ md_queue \in Seq(Message) /\ received \in Seq(Message) /\ lost \in Seq(Message)
  /\ unseen \in 0..(Capacity - Len(md_queue))

\* Messages that reached the ring, oldest first.
Accepted == received \o md_queue

\* A top of book or depth update of symbol s.
IsBookUpdate(m, s) == m.symbol = s /\ m.type # "TradeReport"

\* Book updates of one symbol, of either type, reach subscribers no faster than
\* one per interval, whatever the ring refused, the interval was meanwhile and
\* however many trades went out in between (README: per-symbol throttling).
\* Only updates sent while there was no interval are not counted.
ThrottleSpacing ==
  \A s \in Symbol :
    LET Counted(m) == IsBookUpdate(m, s) /\ m.interval > 0
    IN  \A i, j \in DOMAIN Accepted :
          i < j /\ Counted(Accepted[i]) /\ Counted(Accepted[j]) =>
            Accepted[j].timestamp - Accepted[i].timestamp >= Accepted[j].interval

\* Throttling does not silence a symbol: when a book update has been handled, an
\* update of its symbol less than an interval old has been handed to the ring,
\* however fast the feed calls.  (That the ring had room for it is not promised.)
NotStarved ==
  [][\A s \in Symbol : on_tob_update(s) \/ on_depth_update(s) =>
       \E m \in ToSet((Accepted \o lost)') :
         /\ IsBookUpdate(m, s)
         /\ m.timestamp = now \/ now - m.timestamp < throttle_ns]_vars

\* Between ring and handlers nothing is dropped, repeated or overtaken, so the
\* trade that explains a book update is seen before that update.
DeliveredInOrder ==
  [][IsPrefix(Accepted, Accepted')]_vars

\* Whatever the ring accepted reaches the subscribers.
EverythingArrives ==
  \A n \in 1..MaxUpdates : Len(Accepted) >= n ~> Len(received) >= n
=============================================================================
