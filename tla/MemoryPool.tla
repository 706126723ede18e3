----------------------------- MODULE MemoryPool -----------------------------
(***************************************************************************)
(* MemoryPool (src/src/common/memory_pool.h): a free list of slots through *)
(* next_free, with an atomic free_head_ that threads change by compare and *)
(* exchange.  Every access to shared memory is a step of a thread.         *)
(*                                                                         *)
(* A stale load of free_head_ is a load taken earlier: a thread takes it   *)
(* first in a call, which it may begin at any time.  The weak compare and  *)
(* exchange may fail with the expected value in place, and a failure loads *)
(* the value it found.  What is constructed in a slot is left out.         *)
(***************************************************************************)
EXTENDS Integers, FiniteSets

CONSTANTS
  Thread,
  Allocator,      \* the threads that call allocate; all call deallocate
  Capacity        \* slots; the index that ends the free list

ASSUME CapacityAssumption == Capacity \in Nat \ {0}
ASSUME ThreadAssumption == IsFiniteSet(Thread)
ASSUME AllocatorAssumption == Allocator \subseteq Thread

Slot == 0..(Capacity - 1)

VARIABLES
  next_free,      \* slots_[i].next_free
  in_use,         \* slots_[i].in_use
  free_head,      \* free_head_
  allocated,      \* allocated_
  pc,             \* where each thread is in allocate or deallocate
  idx,            \* the slot a thread is about: allocate's head, deallocate's idx
  seen,           \* allocate's next, deallocate's head
  held,           \* how many pointers to each slot the clients have
  refused         \* an allocate returned nullptr since a slot was taken or freed

vars == <<next_free, in_use, free_head, allocated, pc, idx, seen, held, refused>>

Init ==
  /\ next_free = [i \in Slot |-> i + 1]
  /\ in_use = [i \in Slot |-> FALSE]
  /\ free_head = 0
  /\ allocated = 0
  /\ pc = [t \in Thread |-> "idle"]
  /\ idx = [t \in Thread |-> 0]
  /\ seen = [t \in Thread |-> 0]
  /\ held = [i \in Slot |-> 0]
  /\ refused = FALSE

Goto(t, from, to) == pc[t] = from /\ pc' = [pc EXCEPT ![t] = to]

----------------------------------------------------------------------------
(* allocate *)

\* The load of free_head_, first or by a failed exchange, and the test for an
\* exhausted pool, which makes allocate return nullptr.
AllocateSees(t, from) ==
  /\ Goto(t, from, IF free_head >= Capacity THEN "idle" ELSE "read")
  /\ idx' = [idx EXCEPT ![t] = free_head]
  /\ refused' = (refused \/ free_head >= Capacity)
  /\ UNCHANGED <<next_free, in_use, free_head, allocated, seen, held>>

AllocateLoad(t) == t \in Allocator /\ AllocateSees(t, "idle")

AllocateRead(t) ==
  /\ Goto(t, "read", "exchange")
  /\ seen' = [seen EXCEPT ![t] = next_free[idx[t]]]
  /\ UNCHANGED <<next_free, in_use, free_head, allocated, idx, held, refused>>

\* Mutant: a plain store in the place of the exchange.
AllocateStore(t) ==
  /\ Goto(t, "exchange", "mark")
  /\ free_head' = seen[t]
  /\ refused' = FALSE
  /\ UNCHANGED <<next_free, in_use, allocated, idx, seen, held>>

AllocateExchange(t) ==
  /\ free_head = idx[t]
  /\ Goto(t, "exchange", "mark")
  /\ free_head' = seen[t]
  /\ refused' = FALSE
  /\ UNCHANGED <<next_free, in_use, allocated, idx, seen, held>>

AllocateRetry(t) == AllocateSees(t, "exchange")

\* Mutant: the flag is forgotten.
AllocateUnmarked(t) ==
  /\ Goto(t, "mark", "count")
  /\ UNCHANGED <<next_free, in_use, free_head, allocated, idx, seen, held, refused>>

AllocateMark(t) ==
  /\ Goto(t, "mark", "count")
  /\ in_use' = [in_use EXCEPT ![idx[t]] = TRUE]
  /\ UNCHANGED <<next_free, free_head, allocated, idx, seen, held, refused>>

\* Mutant: the count is forgotten.
AllocateUncounted(t) ==
  /\ Goto(t, "count", "idle")
  /\ held' = [held EXCEPT ![idx[t]] = @ + 1]
  /\ UNCHANGED <<next_free, in_use, free_head, allocated, idx, seen, refused>>

\* The count, and the return of the pointer.
AllocateCount(t) ==
  /\ Goto(t, "count", "idle")
  /\ allocated' = allocated + 1
  /\ held' = [held EXCEPT ![idx[t]] = @ + 1]
  /\ UNCHANGED <<next_free, in_use, free_head, idx, seen, refused>>

----------------------------------------------------------------------------
(* deallocate *)

\* A client gives up a pointer it has; the flag is cleared.
DeallocateUnmark(t, i) ==
  /\ held[i] > 0
  /\ Goto(t, "idle", "load")
  /\ held' = [held EXCEPT ![i] = @ - 1]
  /\ idx' = [idx EXCEPT ![t] = i]
  /\ in_use' = [in_use EXCEPT ![i] = FALSE]
  /\ UNCHANGED <<next_free, free_head, allocated, seen, refused>>

\* The load of free_head_, first or by a failed exchange.
DeallocateSees(t, from) ==
  /\ Goto(t, from, "link")
  /\ seen' = [seen EXCEPT ![t] = free_head]
  /\ UNCHANGED <<next_free, in_use, free_head, allocated, idx, held, refused>>

DeallocateLoad(t) == DeallocateSees(t, "load")

DeallocateLink(t) ==
  /\ Goto(t, "link", "push")
  /\ next_free' = [next_free EXCEPT ![idx[t]] = seen[t]]
  /\ UNCHANGED <<in_use, free_head, allocated, idx, seen, held, refused>>

\* Mutant: a plain store in the place of the exchange.
DeallocatePushAnyway(t) ==
  /\ Goto(t, "push", "uncount")
  /\ free_head' = idx[t]
  /\ refused' = FALSE
  /\ UNCHANGED <<next_free, in_use, allocated, idx, seen, held>>

DeallocateExchange(t) ==
  /\ free_head = seen[t]
  /\ Goto(t, "push", "uncount")
  /\ free_head' = idx[t]
  /\ refused' = FALSE
  /\ UNCHANGED <<next_free, in_use, allocated, idx, seen, held>>

DeallocateRetry(t) == DeallocateSees(t, "push")

\* Mutant: the count stays.
DeallocateStaysCounted(t) ==
  /\ Goto(t, "uncount", "idle")
  /\ UNCHANGED <<next_free, in_use, free_head, allocated, idx, seen, held, refused>>

DeallocateUncount(t) ==
  /\ Goto(t, "uncount", "idle")
  /\ allocated' = allocated - 1
  /\ UNCHANGED <<next_free, in_use, free_head, idx, seen, held, refused>>

----------------------------------------------------------------------------
Allocate(t) ==
  \/ AllocateLoad(t) \/ AllocateRead(t)
  \/ AllocateExchange(t) \/ AllocateRetry(t)
  \/ AllocateMark(t) \/ AllocateCount(t)

Deallocate(t) ==
  \/ \E i \in Slot : DeallocateUnmark(t, i)
  \/ DeallocateLoad(t) \/ DeallocateLink(t)
  \/ DeallocateExchange(t) \/ DeallocateRetry(t)
  \/ DeallocateUncount(t)

Next == \E t \in Thread : Allocate(t) \/ Deallocate(t)

Spec == Init /\ [][Next]_vars

----------------------------------------------------------------------------
\* The type of every variable; allocated_, a size_t, never goes below zero.
TypeOK ==
  /\ next_free \in [Slot -> 0..Capacity]
  /\ in_use \in [Slot -> BOOLEAN]
  /\ free_head \in 0..Capacity
  /\ allocated \in 0..(Capacity + Cardinality(Thread))
  /\ pc \in [Thread -> {"idle", "read", "exchange", "mark", "count",
                        "load", "link", "push", "uncount"}]
  /\ idx \in [Thread -> 0..Capacity] /\ seen \in [Thread -> 0..Capacity]
  /\ held \in [Slot -> Nat]
  /\ refused \in BOOLEAN

\* The slots a walk of n links from free_head_ meets; a walk of Capacity links
\* meets all of them.
Reached[n \in 0..Capacity] ==
  IF n = 0 THEN {free_head} \cap Slot
  ELSE Reached[n - 1] \cup ({next_free[i] : i \in Reached[n - 1]} \cap Slot)

FreeList == Reached[Capacity]

\* Threads in whose hands a slot is, between the list and the client.
InHand(i) ==
  {t \in Thread : idx[t] = i /\ pc[t] \in {"mark", "count", "load", "link", "push"}}

\* Every slot is in one place: on the free list, in the hands of one call, or
\* with one client.  None is lost and none is given to two clients, whatever
\* calls interleave and whatever exchanges fail.
OnePlace ==
  \A i \in Slot :
    Cardinality(InHand(i)) + held[i] + (IF i \in FreeList THEN 1 ELSE 0) = 1

\* allocated_ lags behind the list by the calls that have moved a slot and not
\* counted it.  A slot that is taken again before the call that freed it has
\* counted makes allocated_ larger than Capacity, and available() wrap around.
CountsSlots ==
  allocated = Cardinality(Slot \ FreeList)
              - Cardinality({t \in Thread : pc[t] \in {"mark", "count"}})
              + Cardinality({t \in Thread : pc[t] = "uncount"})

\* The assertion of deallocate, "double-free detected", which a client that
\* gives back what it was given, once, never fails.
NoDoubleFree == \A i \in Slot : held[i] > 0 => in_use[i]

----------------------------------------------------------------------------
Pool == INSTANCE SlotPool WITH free <- FreeList

\* Allocations and deallocations take effect one at a time, at their exchange,
\* and an allocation is refused only when every slot is taken.
ImplementsSlotPool == Pool!Spec
=============================================================================
