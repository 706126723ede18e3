------------------------- MODULE HPRingBufferProofs -------------------------
(***************************************************************************)
(* HPRingBuffer for every Size: its two threads never meet at a slot, the  *)
(* sizes they are told are safe, and the ring is a bounded FIFO queue.     *)
(***************************************************************************)
EXTENDS HPRingBuffer, SequenceTheorems, TLAPS

(***************************************************************************)
(* The inductive invariant.  NoSlotRace by itself is not inductive: why    *)
(* the producer may write is the value of tail_ it read, which may be old. *)
(* Going round the ring from that value one meets tail_ before head_, and  *)
(* one meets the head_ the consumer read between tail_ and head_.          *)
(***************************************************************************)
IndexOrder ==
  /\ Steps(tail_seen, tail) <= Steps(tail_seen, head)
  /\ Steps(tail, head_seen) <= Steps(tail, head)

PushHasRoom ==
  producer # "idle" => /\ increment(head) # tail_seen
                       /\ item \in Item

PushHasWritten == producer = "publish" => buffer[head] = item

PopHasItem == consumer # "idle" => head_seen # tail

IInv == TypeOK /\ IndexOrder /\ PushHasRoom /\ PushHasWritten /\ PopHasItem

----------------------------------------------------------------------------
\* increment is the successor in a cycle of Size values.
LEMMA IncrementLemma ==
  ASSUME NEW i \in Index
  PROVE  /\ increment(i) \in Index
         /\ increment(i) = IF i + 1 = Size THEN 0 ELSE i + 1
<1>1. CASE i + 1 = Size
  BY <1>1, SizeAssumption DEF increment, Index
<1>2. CASE i + 1 # Size
  BY <1>2, SizeAssumption DEF increment, Index
<1> QED BY <1>1, <1>2

\* Going round from one index to another takes fewer than Size steps.
LEMMA StepsLemma ==
  ASSUME NEW i \in Index, NEW j \in Index
  PROVE  /\ Steps(i, j) \in 0..(Size - 1)
         /\ Steps(i, j) = 0 <=> i = j
BY SizeAssumption DEF Steps, Index

----------------------------------------------------------------------------
\* The ring starts in the invariant.
LEMMA InitIInv == Init => IInv
<1> SUFFICES ASSUME Init PROVE IInv
  OBVIOUS
<1>1. 0 \in Index
  BY SizeAssumption DEF Index
<1> QED BY <1>1, SizeAssumption
     DEF Init, IInv, TypeOK, IndexOrder, PushHasRoom, PushHasWritten, PopHasItem, Steps

\* Every step of either thread preserves the invariant.
LEMMA NextIInv == IInv /\ [Next]_vars => IInv'
<1> SUFFICES ASSUME IInv, [Next]_vars PROVE IInv'
  OBVIOUS
<1> USE SizeAssumption DEF IInv
<1>1. /\ increment(head) \in Index
      /\ increment(head) = IF head + 1 = Size THEN 0 ELSE head + 1
      /\ increment(tail) \in Index
      /\ increment(tail) = IF tail + 1 = Size THEN 0 ELSE tail + 1
  BY IncrementLemma DEF TypeOK
<1>2. ASSUME NEW x \in Item, NEW t \in Loadable(tail_seen, tail), PushLoad(x, t)
      PROVE  IInv'
  <2>1. t \in Index /\ Steps(tail_seen, t) <= Steps(tail_seen, tail)
    BY <1>2 DEF Loadable
  <2>2. TypeOK'
    BY <1>2, <2>1 DEF PushLoad, TypeOK
  <2>3. IndexOrder'
    BY <1>2, <2>1 DEF PushLoad, TypeOK, IndexOrder, Steps, Index
  <2>4. PushHasRoom' /\ PushHasWritten' /\ PopHasItem'
    BY <1>2 DEF PushLoad, PushHasRoom, PushHasWritten, PopHasItem, increment
  <2> QED BY <2>2, <2>3, <2>4
<1>3. ASSUME PushWrite
      PROVE  IInv'
  <2>1. TypeOK'
    BY <1>3 DEF PushWrite, TypeOK
  <2>2. IndexOrder' /\ PushHasRoom' /\ PopHasItem'
    BY <1>3 DEF PushWrite, IndexOrder, PushHasRoom, PopHasItem, Steps, increment
  <2>3. PushHasWritten'
    BY <1>3 DEF PushWrite, PushHasWritten, TypeOK
  <2> QED BY <2>1, <2>2, <2>3
<1>4. ASSUME PushPublish
      PROVE  IInv'
  <2>1. TypeOK'
    BY <1>1, <1>4 DEF PushPublish, TypeOK
  <2>2. head' = IF head + 1 = Size THEN 0 ELSE head + 1
    BY <1>1, <1>4 DEF PushPublish
  <2>3. head' # tail_seen
    BY <1>4 DEF PushPublish, PushHasRoom
  <2>4. IndexOrder'
    BY <1>4, <2>2, <2>3 DEF PushPublish, TypeOK, IndexOrder, Steps, Index
  <2>5. PushHasRoom' /\ PushHasWritten' /\ PopHasItem'
    BY <1>4 DEF PushPublish, PushHasRoom, PushHasWritten, PopHasItem
  <2> QED BY <2>1, <2>4, <2>5
<1>5. ASSUME NEW h \in Loadable(head_seen, head), PopLoad(h)
      PROVE  IInv'
  <2>1. h \in Index /\ Steps(head_seen, h) <= Steps(head_seen, head)
    BY <1>5 DEF Loadable
  <2>2. TypeOK'
    BY <1>5, <2>1 DEF PopLoad, TypeOK
  <2>3. IndexOrder'
    BY <1>5, <2>1 DEF PopLoad, TypeOK, IndexOrder, Steps, Index
  <2>4. PushHasRoom' /\ PushHasWritten' /\ PopHasItem'
    BY <1>5 DEF PopLoad, PushHasRoom, PushHasWritten, PopHasItem, increment
  <2> QED BY <2>2, <2>3, <2>4
<1>6. ASSUME PopRead
      PROVE  IInv'
  <2>1. TypeOK'
    BY <1>6 DEF PopRead, TypeOK
  <2>2. IndexOrder' /\ PushHasRoom' /\ PopHasItem'
    BY <1>6 DEF PopRead, IndexOrder, PushHasRoom, PopHasItem, Steps, increment
  <2>3. head # tail
    BY <1>6 DEF PopRead, PopHasItem, TypeOK, IndexOrder, Steps, Index
  <2>4. PushHasWritten'
    BY <1>6, <2>3 DEF PopRead, PushHasWritten, TypeOK
  <2> QED BY <2>1, <2>2, <2>4
<1>7. ASSUME PopRelease
      PROVE  IInv'
  <2>1. TypeOK'
    BY <1>1, <1>7 DEF PopRelease, TypeOK
  <2>2. tail' = IF tail + 1 = Size THEN 0 ELSE tail + 1
    BY <1>1, <1>7 DEF PopRelease
  <2>3. head_seen # tail
    BY <1>7 DEF PopRelease, PopHasItem
  <2>4. IndexOrder'
    BY <1>7, <2>2, <2>3 DEF PopRelease, TypeOK, IndexOrder, Steps, Index
  <2>5. PushHasRoom' /\ PushHasWritten' /\ PopHasItem'
    BY <1>7 DEF PopRelease, PushHasRoom, PushHasWritten, PopHasItem, increment
  <2> QED BY <2>1, <2>4, <2>5
<1>8. ASSUME UNCHANGED vars
      PROVE  IInv'
  BY <1>8 DEF vars, TypeOK, IndexOrder, PushHasRoom, PushHasWritten, PopHasItem, Steps, increment
<1> QED BY <1>2, <1>3, <1>4, <1>5, <1>6, <1>7, <1>8 DEF Next, Producer, Consumer

\* The invariant holds throughout.
THEOREM Invariance == Spec => []IInv
BY InitIInv, NextIInv, PTL DEF Spec

----------------------------------------------------------------------------
\* Every variable has its type, for every Size: in particular the indices
\* never leave the array.
THEOREM TypeCorrect == Spec => []TypeOK
<1>1. IInv => TypeOK
  BY DEF IInv
<1> QED BY <1>1, Invariance, PTL

\* The producer never writes the slot the consumer moves out of, for every
\* Size and with index values as old as the memory model allows.
THEOREM SlotsDoNotRace == Spec => []NoSlotRace
<1>1. IInv => NoSlotRace
  BY SizeAssumption DEF IInv, NoSlotRace, PopHasItem, TypeOK, IndexOrder, Steps, Index
<1> QED BY <1>1, Invariance, PTL

\* size() errs only towards less room for the producer and fewer items for the
\* consumer, and never exceeds the capacity.
THEOREM SizesAreSafe == Spec => []SizeIsSafe
<1>1. IInv => SizeIsSafe
  BY SizeAssumption DEF IInv, SizeIsSafe, Loadable, size, TypeOK, IndexOrder, Steps, Index
<1> QED BY <1>1, Invariance, PTL

----------------------------------------------------------------------------
(* The refinement.  The slots of the queue are the Count slots from First on,  *)
(* going round; head_ is the slot after them.                                  *)

Count == Steps(tail, head) - Taken

Slot(i) == Wrap(tail + Taken + (i - 1))

Cell == Item \cup {Junk}

QueueShape ==
  /\ Count \in 0..(Size - 1)
  /\ Queue \in Seq(Cell)
  /\ Len(Queue) = Count
  /\ \A i \in 1..Count : /\ Slot(i) \in Index
                         /\ Slot(i) # head
                         /\ Taken = 0 /\ i > 1 => Slot(i) # tail
                         /\ Queue[i] = buffer[Slot(i)]

\* The queue is a sequence of Count cells, and none of them is in the slot the
\* producer writes.
LEMMA QueueLemma == IInv => QueueShape
<1> SUFFICES ASSUME IInv PROVE QueueShape
  OBVIOUS
<1> USE SizeAssumption DEF IInv
<1>1. Taken \in {0, 1} /\ (Taken = 1 => head # tail)
  BY DEF Taken, PopHasItem, TypeOK, IndexOrder, Steps, Index
<1>2. Count \in 0..(Size - 1)
  BY <1>1 DEF Count, TypeOK, Steps, Index
<1>3. ASSUME NEW i \in 1..Count
      PROVE  /\ Slot(i) \in Index
             /\ Slot(i) # head
             /\ Taken = 0 /\ i > 1 => Slot(i) # tail
  BY <1>1, <1>2 DEF Count, Slot, Wrap, TypeOK, Steps, Index
<1>4. Queue = [i \in 1..Count |-> buffer[Slot(i)]]
  BY DEF Queue, Count, Slot
<1>5. \A i \in 1..Count : buffer[Slot(i)] \in Cell
  BY <1>3 DEF TypeOK, Cell
<1>6. Queue \in [1..Count -> Cell]
  BY <1>4, <1>5
<1>7. Queue \in Seq(Cell) /\ Len(Queue) = Count
  BY <1>2, <1>6
<1> QED BY <1>2, <1>3, <1>4, <1>7 DEF QueueShape

\* The ring starts as an empty queue.
LEMMA InitRefines == Init => Fifo!Init
<1> SUFFICES ASSUME Init PROVE Fifo!Init
  OBVIOUS
<1>1. Count = 0
  BY DEF Init, Count, Taken, Steps
<1>2. Queue = <<>>
  BY <1>1 DEF Queue, Count
<1> QED BY <1>2, JunkAssumption DEF Fifo!Init, Init

\* A push appends its item when it publishes head_, a pop takes the head of the
\* queue when it moves out of the slot; every other step leaves the queue alone.
LEMMA StepRefines == IInv /\ IInv' /\ [Next]_vars => [Fifo!Next]_Fifo!vars
<1>a. IInv' => QueueShape'
  BY QueueLemma, PTL
<1> SUFFICES ASSUME IInv, IInv', [Next]_vars
             PROVE  Fifo!Next \/ UNCHANGED <<Queue, value>>
  BY DEF Fifo!vars
<1>b. QueueShape /\ QueueShape'
  BY <1>a, QueueLemma
<1> USE SizeAssumption DEF IInv
<1>c. ASSUME Count' = Count, \A i \in 1..Count : buffer'[Slot(i)'] = buffer[Slot(i)]
      PROVE  Queue' = Queue
  <2>1. \A i \in 1..Count : Queue'[i] = Queue[i]
    BY <1>b, <1>c DEF QueueShape
  <2> QED BY <1>b, <1>c, <2>1, SeqEqual DEF QueueShape
<1>1. ASSUME NEW x \in Item, NEW t \in Loadable(tail_seen, tail), PushLoad(x, t)
      PROVE  UNCHANGED <<Queue, value>>
  BY <1>1 DEF PushLoad, Queue, Steps, Taken, Wrap
<1>2. ASSUME PushWrite
      PROVE  UNCHANGED <<Queue, value>>
  <2>1. Count' = Count /\ \A i \in 1..Count : Slot(i)' = Slot(i)
    BY <1>2 DEF PushWrite, Count, Slot, Steps, Taken, Wrap
  <2>2. \A i \in 1..Count : buffer'[Slot(i)'] = buffer[Slot(i)]
    BY <1>2, <1>b, <2>1 DEF PushWrite, TypeOK, QueueShape
  <2> QED BY <1>2, <1>c, <2>1, <2>2 DEF PushWrite
<1>3. ASSUME PushPublish
      PROVE  Fifo!Put
  <2>1. head' = IF head + 1 = Size THEN 0 ELSE head + 1
    BY <1>3, IncrementLemma DEF PushPublish, TypeOK
  <2>2. head' # tail
    <3>1. head' # tail_seen
      BY <1>3 DEF PushPublish, PushHasRoom
    <3> QED BY <2>1, <3>1 DEF TypeOK, IndexOrder, Steps, Index
  <2>3. Taken \in {0, 1} /\ (Taken = 1 => head # tail) /\ Taken' = Taken
    BY <1>3 DEF PushPublish, Taken, PopHasItem, TypeOK, IndexOrder, Steps, Index
  <2>4. Count' = Count + 1 /\ Count < Size - 1
    BY <1>3, <2>1, <2>2, <2>3 DEF PushPublish, Count, TypeOK, Steps, Index
  <2>5. \A i \in 1..(Count + 1) : Slot(i)' = Slot(i)
    BY <1>3, <2>3 DEF PushPublish, Slot, Wrap
  <2>6. Slot(Count + 1) = head
    BY <2>3 DEF Count, Slot, Wrap, TypeOK, Steps, Index
  <2>7. buffer[head] = item /\ item \in Item /\ item \in Cell
    BY <1>3 DEF PushPublish, PushHasWritten, PushHasRoom, Cell
  <2>8. /\ Append(Queue, item) \in Seq(Cell)
        /\ Len(Append(Queue, item)) = Count + 1
        /\ \A i \in 1..Count : Append(Queue, item)[i] = Queue[i]
        /\ Append(Queue, item)[Count + 1] = item
    BY <1>b, <2>7, AppendProperties DEF QueueShape
  <2>9. \A i \in 1..(Count + 1) : Queue'[i] = Append(Queue, item)[i]
    <3>1. ASSUME NEW i \in 1..Count
          PROVE  Queue'[i] = Append(Queue, item)[i]
      BY <1>b, <1>3, <2>4, <2>5, <2>8 DEF QueueShape, PushPublish
    <3>2. Queue'[Count + 1] = item
      BY <1>b, <1>3, <2>4, <2>5, <2>6, <2>7 DEF QueueShape, PushPublish
    <3> QED BY <1>b, <2>8, <3>1, <3>2 DEF QueueShape
  <2>10. Queue' = Append(Queue, item)
    BY <1>b, <2>4, <2>8, <2>9, SeqEqual DEF QueueShape
  <2> QED BY <1>3, <1>b, <2>4, <2>7, <2>10 DEF Fifo!Put, QueueShape, PushPublish
<1>4. ASSUME NEW h \in Loadable(head_seen, head), PopLoad(h)
      PROVE  UNCHANGED <<Queue, value>>
  BY <1>4 DEF PopLoad, Queue, Steps, Taken, Wrap
<1>5. ASSUME PopRead
      PROVE  Fifo!Take
  <2>1. Taken = 0 /\ Taken' = 1 /\ head # tail
    BY <1>5 DEF PopRead, Taken, PopHasItem, TypeOK, IndexOrder, Steps, Index
  <2>2. Count' = Count - 1 /\ Count >= 1
    BY <1>5, <2>1 DEF PopRead, Count, TypeOK, Steps, Index
  <2>3. \A i \in 1..(Count - 1) : Slot(i)' = Slot(i + 1)
    BY <1>5, <1>b, <2>1 DEF PopRead, Slot, Wrap, TypeOK, Index, QueueShape
  <2>4. Slot(1) = tail
    BY <2>1 DEF Slot, Wrap, TypeOK, Index
  <2>5. Queue # <<>> /\ Head(Queue) = buffer[tail]
    BY <1>b, <2>2, <2>4 DEF QueueShape
  <2>6. /\ Tail(Queue) \in Seq(Cell)
        /\ Len(Tail(Queue)) = Count - 1
        /\ \A i \in 1..(Count - 1) : Tail(Queue)[i] = Queue[i + 1]
    BY <1>b, <2>5, HeadTailProperties DEF QueueShape
  <2>7. ASSUME NEW i \in 1..(Count - 1)
        PROVE  Queue'[i] = Tail(Queue)[i]
    <3>1. i + 1 \in 1..Count /\ i + 1 > 1
      BY <1>b DEF QueueShape
    <3>2. Slot(i + 1) \in Index /\ Slot(i + 1) # tail /\ Queue[i + 1] = buffer[Slot(i + 1)]
      BY <1>b, <2>1, <3>1 DEF QueueShape
    <3>3. Queue'[i] = buffer'[Slot(i + 1)]
      BY <1>b, <2>2, <2>3 DEF QueueShape
    <3> QED BY <1>5, <2>6, <3>2, <3>3 DEF PopRead, TypeOK
  <2>8. Queue' = Tail(Queue)
    BY <1>b, <2>2, <2>6, <2>7, SeqEqual DEF QueueShape
  <2> QED BY <1>5, <2>5, <2>8 DEF Fifo!Take, PopRead
<1>6. ASSUME PopRelease
      PROVE  UNCHANGED <<Queue, value>>
  <2>1. tail' = IF tail + 1 = Size THEN 0 ELSE tail + 1
    BY <1>6, IncrementLemma DEF PopRelease, TypeOK
  <2>2. Taken = 1 /\ Taken' = 0 /\ head # tail
    BY <1>6 DEF PopRelease, Taken, PopHasItem, TypeOK, IndexOrder, Steps, Index
  <2>3. Count' = Count
    BY <1>6, <2>1, <2>2 DEF PopRelease, Count, TypeOK, Steps, Index
  <2>4. \A i \in 1..Count : Slot(i)' = Slot(i)
    BY <1>6, <1>b, <2>1, <2>2 DEF PopRelease, Slot, Wrap, TypeOK, Index, QueueShape
  <2>5. \A i \in 1..Count : buffer'[Slot(i)'] = buffer[Slot(i)]
    BY <1>6, <2>4 DEF PopRelease
  <2> QED BY <1>6, <1>c, <2>3, <2>5 DEF PopRelease
<1>7. ASSUME UNCHANGED vars
      PROVE  UNCHANGED <<Queue, value>>
  BY <1>7 DEF vars, Queue, Steps, Taken, Wrap
<1> QED BY <1>1, <1>2, <1>3, <1>4, <1>5, <1>6, <1>7 DEF Next, Producer, Consumer, Fifo!Next

\* The ring implements a FIFO queue of capacity Size - 1, for every Size.
THEOREM RingIsBoundedFifo == Spec => ImplementsBoundedFifo
BY InitRefines, StepRefines, Invariance, PTL DEF Spec, ImplementsBoundedFifo, Fifo!Spec
=============================================================================
