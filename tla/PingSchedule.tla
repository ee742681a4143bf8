---------------------------- MODULE PingSchedule ----------------------------
(***************************************************************************)
(* The schedule of one ping loop (internal/pinger/pinger.go, loop): the    *)
(* deadline advances by whole intervals from the time the loop started,    *)
(* however late the timer fires and however long a ping takes.  Times are  *)
(* measured from the start of the loop.                                    *)
(***************************************************************************)
EXTENDS Integers

CONSTANTS Interval,  \* the target's interval_ms, or the global one
          MaxDelay,  \* bound: the longest a step is held up
          MaxTime    \* bound: no step begins after this time

\* normalize and the API keep intervals positive.
ASSUME IntervalAssumption == Interval \in Nat \ {0} /\ MaxDelay \in Nat /\ MaxTime \in Nat

VARIABLES pc,       \* waiting for the timer, pinging, or setting the timer
          now,      \* the monotonic clock
          next,     \* the deadline
          timer,    \* when the timer fires
          lastSlot  \* the deadline of the ping before

pvars == <<pc, now, next, timer, lastSlot>>

NoSlot == -1

TypeOK ==
    /\ pc \in {"timer", "ping", "reset"}
    /\ now \in Nat /\ next \in Nat /\ timer \in Nat
    /\ lastSlot \in Nat \union {NoSlot}

\* next := time.Now(), timer := NewTimer(0)
Init == pc = "timer" /\ now = 0 /\ next = 0 /\ timer = 0 /\ lastSlot = NoSlot

\* The timer is never early, and may be late.
TimerFires(late) ==
    /\ pc = "timer" /\ now <= MaxTime
    /\ now' = (IF timer > now THEN timer ELSE now) + late
    /\ pc' = "ping"
    /\ UNCHANGED <<next, timer, lastSlot>>

PingReturns(took) ==
    /\ pc = "ping"
    /\ now' = now + took
    /\ pc' = "reset"
    /\ UNCHANGED <<next, timer, lastSlot>>

\* Mutated form: the deadline is counted from the end of the ping.
AdvanceFromNow(deadline, at) == at + Interval

\* next.Add(interval), and past the slots missed if that is not in the future.
Advance(deadline, at) ==
    LET slot == deadline + Interval
        behind == at - slot
    IN IF behind < 0 THEN slot ELSE slot + ((behind \div Interval) + 1) * Interval

\* time.Until(next) is taken again for the Reset, "late" after the first time.
ResetTimer(late) ==
    /\ pc = "reset"
    /\ lastSlot' = next
    /\ next' = Advance(next, now)
    /\ now' = now + late
    /\ timer' = next'
    /\ pc' = "timer"

Next ==
    \E delay \in 0..MaxDelay : TimerFires(delay) \/ PingReturns(delay) \/ ResetTimer(delay)

Spec == Init /\ [][Next]_pvars

-----------------------------------------------------------------------------
(***************************************************************************)
(* Properties.                                                             *)
(***************************************************************************)

\* Drift-free (SPEC.md:69): every deadline lies a whole number of intervals
\* after the start of the loop.
OnGrid == \E slot \in 0..next : next = slot * Interval

\* Missed slots are skipped, not made up for in a burst, and no slot still
\* ahead is skipped: when the deadline is chosen it is the first slot after
\* that moment, unless the next slot in turn is itself still ahead.
FirstSlotAhead ==
    [][next' # next =>
         /\ next' > now
         /\ next' - Interval <= now \/ next' = next + Interval]_pvars

\* No slot is used twice, and no ping starts before its slot.
SlotsAdvance == lastSlot < next /\ (pc # "timer" => next <= now)
=============================================================================
