----------------------------- MODULE ScopeTimer -----------------------------
(***************************************************************************)
(* ScopeTimerManagement (src/src/ScopeTimer.hpp): a table of timers by     *)
(* label.  The table is thread_local, so this is the table of one thread.  *)
(* Timers that are objects of their own, and what the destructors log when *)
(* a thread ends, are left out.                                            *)
(***************************************************************************)
EXTENDS Integers, FiniteSetsExt

CONSTANTS
  Label,
  NoLabel,        \* the label of a slot that was never used
  MaxSlots,       \* SCOPE_TIMER_MAX_SLOTS
  MaxTime         \* bound of the steady clock

VARIABLES
  now,            \* the steady clock
  slots,          \* slots_
  logged,         \* {} or what endAndLog logged last: [label, elapsed]
  started         \* history: when each label was started last

vars == <<now, slots, logged, started>>

Slots == 1..MaxSlots

Init ==
  /\ now = 0
  /\ slots = [i \in Slots |-> [label |-> NoLabel, used |-> FALSE, beginTime |-> 0]]
  /\ logged = {}
  /\ started = <<>>

Tick == now < MaxTime /\ now' = now + 1 /\ logged' = {} /\ UNCHANGED <<slots, started>>

\* The first of these slots, as the loops find it; none, if there is none.
First(found) == {i \in found : \A j \in found : i <= j}

\* start takes the first slot that is not used, without looking for the label,
\* and does nothing if all are used.
start(label) ==
  /\ slots' = [i \in Slots |->
       IF i \in First({j \in Slots : ~slots[j].used})
       THEN [label |-> label, used |-> TRUE, beginTime |-> now] ELSE slots[i]]
  /\ started' = [l \in DOMAIN started \cup {label} |-> IF l = label THEN now ELSE started[l]]
  /\ logged' = {}
  /\ UNCHANGED now

\* end frees the first used slot of the label.  It returns no value at all if
\* there is none, so the client calls it for a label that is timed.
end(label) ==
  /\ \E i \in First({j \in Slots : slots[j].used /\ slots[j].label = label}) :
       slots' = [slots EXCEPT ![i].used = FALSE]
  /\ logged' = {}
  /\ UNCHANGED <<now, started>>

\* endAndLog takes the first slot of the label, used or not, and leaves it so.
endAndLog(label) ==
  /\ logged' = {[label |-> label, elapsed |-> now - slots[i].beginTime] :
                  i \in First({j \in Slots : slots[j].label = label})}
  /\ UNCHANGED <<now, slots, started>>

Next == Tick \/ \E label \in Label : start(label) \/ end(label) \/ endAndLog(label)

Spec == Init /\ [][Next]_vars

----------------------------------------------------------------------------
(* What a comment says and the code does not do. *)

\* A start overwrites any timer of its label in this thread, so what endAndLog
\* logs is the time since the last start of the label.
LogsLatestStart ==
  \A entry \in logged :
    entry.label \in DOMAIN started => entry.elapsed = now - started[entry.label]
=============================================================================
