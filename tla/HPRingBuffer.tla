---------------------------- MODULE HPRingBuffer ----------------------------
(***************************************************************************)
(* HPRingBuffer (src/src/HPRingBuffer.hpp): the lock-free ring between one *)
(* producer thread and one consumer thread.  Every access to shared memory *)
(* is a step: the acquire load of the other thread's index, the access to  *)
(* the slot, the release store of the own index.  A relaxed load of the    *)
(* own index reads what the thread stored itself, so it needs no step.     *)
(*                                                                         *)
(* An acquire load may return a value that is no longer the newest one,    *)
(* but never one older than a value the same thread has read: the model    *)
(* remembers the last value read and lets a load return anything stored    *)
(* since.  Size is a power of two in the code, where the bit mask of       *)
(* increment is the remainder by Size.                                     *)
(***************************************************************************)
EXTENDS Integers, Sequences

CONSTANTS
  Size,           \* slots of the array
  Item,           \* what can be pushed
  Junk            \* what a slot holds before a push and after a move out of it

ASSUME SizeAssumption == Size \in Nat \ {0}
ASSUME JunkAssumption == Junk \notin Item

Index == 0..(Size - 1)

VARIABLES
  buffer,         \* buffer_
  head,           \* head_, stored by the producer only
  tail,           \* tail_, stored by the consumer only
  producer,       \* where push is: idle, write, publish
  item,           \* the argument of push
  tail_seen,      \* what the producer's last load of tail_ returned
  consumer,       \* where pop is: idle, read, release
  value,          \* pop's local, and its result
  head_seen       \* what the consumer's last load of head_ returned

vars == <<buffer, head, tail, producer, item, tail_seen, consumer, value, head_seen>>

\* Mutant: without the mask.
increment_unmasked(i) == i + 1

increment(i) == (i + 1) % Size

\* Stores of increment it takes to get from one index value to another.
Steps(from, to) == IF to >= from THEN to - from ELSE to - from + Size

\* What a load may return, given the value read last and the newest one.
Loadable(seen, newest) == {i \in Index : Steps(seen, i) <= Steps(seen, newest)}

\* Mutant: the wrap is forgotten.
size_unwrapped(h, t) == IF h >= t THEN h - t ELSE t - h

\* size(), from the values its two loads returned.
size(h, t) == IF h >= t THEN h - t ELSE Size - (t - h)

Init ==
  /\ buffer = [i \in Index |-> Junk]
  /\ head = 0 /\ tail = 0
  /\ producer = "idle" /\ item = Junk  /\ tail_seen = 0
  /\ consumer = "idle" /\ value = Junk /\ head_seen = 0

----------------------------------------------------------------------------
(* push *)

\* Mutant: without the test for a full ring.
PushLoadUntested(x, t) ==
  /\ producer = "idle"
  /\ item' = x
  /\ tail_seen' = t
  /\ producer' = "write"
  /\ UNCHANGED <<buffer, head, tail, consumer, value, head_seen>>

\* The load of tail_ and the test for a full ring, which makes push return.
PushLoad(x, t) ==
  /\ producer = "idle"
  /\ item' = x
  /\ tail_seen' = t
  /\ producer' = IF increment(head) = t THEN "idle" ELSE "write"
  /\ UNCHANGED <<buffer, head, tail, consumer, value, head_seen>>

PushWrite ==
  /\ producer = "write"
  /\ buffer' = [buffer EXCEPT ![head] = item]
  /\ producer' = "publish"
  /\ UNCHANGED <<head, tail, item, tail_seen, consumer, value, head_seen>>

PushPublish ==
  /\ producer = "publish"
  /\ head' = increment(head)
  /\ producer' = "idle"
  /\ UNCHANGED <<buffer, tail, item, tail_seen, consumer, value, head_seen>>

----------------------------------------------------------------------------
(* pop *)

\* Mutant: without the test for an empty ring.
PopLoadUntested(h) ==
  /\ consumer = "idle"
  /\ head_seen' = h
  /\ consumer' = "read"
  /\ UNCHANGED <<buffer, head, tail, producer, item, tail_seen, value>>

\* The load of head_ and the test for an empty ring, which makes pop return.
PopLoad(h) ==
  /\ consumer = "idle"
  /\ head_seen' = h
  /\ consumer' = IF tail = h THEN "idle" ELSE "read"
  /\ UNCHANGED <<buffer, head, tail, producer, item, tail_seen, value>>

\* The move out of the slot, which changes the slot too.
PopRead ==
  /\ consumer = "read"
  /\ value' = buffer[tail]
  /\ buffer' = [buffer EXCEPT ![tail] = Junk]
  /\ consumer' = "release"
  /\ UNCHANGED <<head, tail, producer, item, tail_seen, head_seen>>

\* Mutant: the slot is never released.
PopReleaseNothing ==
  /\ consumer = "release"
  /\ consumer' = "idle"
  /\ UNCHANGED <<buffer, head, tail, producer, item, tail_seen, value, head_seen>>

PopRelease ==
  /\ consumer = "release"
  /\ tail' = increment(tail)
  /\ consumer' = "idle"
  /\ UNCHANGED <<buffer, head, producer, item, tail_seen, value, head_seen>>

----------------------------------------------------------------------------
Producer ==
  \/ \E x \in Item, t \in Loadable(tail_seen, tail) : PushLoad(x, t)
  \/ PushWrite
  \/ PushPublish

Consumer ==
  \/ \E h \in Loadable(head_seen, head) : PopLoad(h)
  \/ PopRead
  \/ PopRelease

Next == Producer \/ Consumer

\* The consumer polls, and an index store becomes visible to it in the end; the
\* producer finishes a push it began, and need not begin another.
Fairness ==
  /\ WF_vars(PushWrite) /\ WF_vars(PushPublish)
  /\ WF_vars(PopLoad(head)) /\ WF_vars(PopRead) /\ WF_vars(PopRelease)

Spec == Init /\ [][Next]_vars /\ Fairness

----------------------------------------------------------------------------
\* The type of every variable.
TypeOK ==
  /\ buffer \in [Index -> Item \cup {Junk}]
  /\ head \in Index /\ tail \in Index
  /\ producer \in {"idle", "write", "publish"}
  /\ consumer \in {"idle", "read", "release"}
  /\ item \in Item \cup {Junk} /\ value \in Item \cup {Junk}
  /\ tail_seen \in Index /\ head_seen \in Index

\* The two threads are never at the same slot, however old the index values
\* they act upon: the plain accesses to buffer_ do not race.
NoSlotRace ==
  ~(producer = "write" /\ consumer = "read" /\ head = tail)

\* A thread that asks for the size is right in the direction it relies on: the
\* producer is never told of more room, and the consumer never of more items,
\* than there is; neither is told of more than capacity() items.
SizeIsSafe ==
  /\ \A t \in Loadable(tail_seen, tail) :
       Steps(tail, head) <= size(head, t) /\ size(head, t) <= Size - 1
  /\ \A h \in Loadable(head_seen, head) : size(h, tail) <= Steps(tail, head)

\* What is pushed is popped: a consumer that polls does not leave an item in
\* the ring, whatever the producer does meanwhile.
ItemsAreConsumed ==
  \A i \in Index : (tail = i /\ head # i) ~> tail # i

----------------------------------------------------------------------------
(* The ring is a bounded FIFO queue: its items are in the slots from tail_ to  *)
(* head_, without the one that pop has moved out and not yet released.         *)

Wrap(k) == IF k < Size THEN k ELSE k - Size

Taken == IF consumer = "release" THEN 1 ELSE 0

Queue == [i \in 1..(Steps(tail, head) - Taken) |-> buffer[Wrap(tail + Taken + (i - 1))]]

Fifo == INSTANCE BoundedFifo WITH Capacity <- Size - 1, queue <- Queue, out <- value

\* Every item is delivered once, in order, complete and never beyond capacity.
ImplementsBoundedFifo == Fifo!Spec
=============================================================================
