---------------------------- MODULE SpeedRunner ----------------------------
(***************************************************************************)
(* The speed-test runner (internal/speedtest/runner.go): the scheduler     *)
(* loop with its one-slot trigger channel, the requests of handleRunSpeed- *)
(* test, the shared duringSpeedtest flag and a ping loop reading it, the   *)
(* results table, panics recovered by the supervisor, and shutdown.        *)
(***************************************************************************)
EXTENDS Integers

CONSTANTS Client,      \* requests for a manual run that can be in progress at once
          MaxUnsaved,  \* bound: outcomes lost before the loop may wake up again
          MaxPanics    \* bound: panics of an engine

VARIABLES pc,          \* where the loop of Run / runOnce is
          scheduled,   \* the timer, not a trigger, woke the loop
          running,     \* r.running
          trigger,     \* tokens in r.trigger, a channel of capacity 1
          flag,        \* duringSpeedtest
          enabled,     \* speedtest_enabled
          checked,     \* requests past the check of r.running
          owed,        \* requests TriggerNow accepted whose run has not begun
          unsaved,     \* runs begun and skips decided that have no row (yet)
          cancelled,   \* the root context is done
          panics,
          ping         \* a ping loop: the ping in flight or the last sample

rvars == <<pc, scheduled, running, trigger, flag, enabled, checked, owed, unsaved,
           cancelled, panics, ping>>

\* A sample is unflagged until its ping returns; overlapped says whether an
\* engine was running at any moment of the ping.
NoPing == [pc |-> "idle", overlapped |-> FALSE, flagged |-> FALSE]

TypeOK ==
    /\ pc \in {"select", "decide", "begin", "raise", "engine", "store", "finish", "rearm",
               "panicked", "stopped"}
    /\ {scheduled, running, flag, enabled, cancelled} \subseteq BOOLEAN
    /\ trigger \in 0..1
    /\ checked \subseteq Client
    /\ owed \in 0..2 /\ unsaved \in 0..(MaxUnsaved + 1) /\ panics \in 0..MaxPanics
    /\ ping \in [pc : {"idle", "flying", "done"}, overlapped : BOOLEAN, flagged : BOOLEAN]

Init ==
    /\ pc = "select" /\ scheduled = FALSE /\ running = FALSE /\ trigger = 0
    /\ flag = FALSE /\ enabled \in BOOLEAN /\ checked = {}
    /\ owed = 0 /\ unsaved = 0 /\ cancelled = FALSE /\ panics = 0 /\ ping = NoPing

-----------------------------------------------------------------------------
(* TriggerNow: the check of r.running and the send are two steps. *)
RequestKeeps == UNCHANGED <<pc, scheduled, running, flag, enabled, unsaved, cancelled,
                            panics, ping>>

CheckRunning(c) ==
    /\ c \notin checked /\ ~running
    /\ checked' = checked \union {c}
    /\ RequestKeeps /\ UNCHANGED <<trigger, owed>>

\* A full channel turns the request away.
SendTrigger(c) ==
    /\ c \in checked
    /\ checked' = checked \ {c}
    /\ trigger' = 1
    /\ owed' = IF trigger = 0 THEN owed + 1 ELSE owed
    /\ RequestKeeps

-----------------------------------------------------------------------------
(* The scheduler loop.  Its select may take any channel that is ready.     *)
LoopKeeps == UNCHANGED <<enabled, checked, cancelled>>

TimerFires ==
    /\ pc = "select" /\ unsaved < MaxUnsaved
    /\ pc' = "decide" /\ scheduled' = TRUE
    /\ LoopKeeps /\ UNCHANGED <<running, trigger, flag, owed, unsaved, panics, ping>>

TakeTrigger ==
    /\ pc = "select" /\ unsaved < MaxUnsaved /\ trigger = 1
    /\ pc' = "decide" /\ scheduled' = FALSE /\ trigger' = 0
    /\ LoopKeeps /\ UNCHANGED <<running, flag, owed, unsaved, panics, ping>>

SeesDone ==
    /\ pc \in {"select", "panicked"} /\ cancelled
    /\ pc' = "stopped"
    /\ LoopKeeps
    /\ UNCHANGED <<scheduled, running, trigger, flag, owed, unsaved, panics, ping>>

\* A scheduled run while speed tests are off: keep ticking.
Disabled ==
    /\ pc = "decide" /\ scheduled /\ ~enabled
    /\ pc' = "rearm"
    /\ LoopKeeps
    /\ UNCHANGED <<scheduled, running, trigger, flag, owed, unsaved, panics, ping>>

\* A scheduled run during an internet outage leaves a skipped_outage row; the
\* insert fails once its context is done, and the error is dropped.
SkipOutage ==
    /\ pc = "decide" /\ scheduled /\ enabled
    /\ unsaved' = IF cancelled THEN unsaved + 1 ELSE unsaved
    /\ pc' = "rearm"
    /\ LoopKeeps /\ UNCHANGED <<scheduled, running, trigger, flag, owed, panics, ping>>

Decide ==
    /\ pc = "decide" /\ (scheduled => enabled)
    /\ pc' = "begin"
    /\ LoopKeeps
    /\ UNCHANGED <<scheduled, running, trigger, flag, owed, unsaved, panics, ping>>

\* runOnce: CompareAndSwap, which finds a run in progress only if another
\* loop could have begun one.
Begin ==
    /\ pc = "begin"
    /\ IF running
       THEN pc' = "rearm" /\ UNCHANGED <<running, owed, unsaved>>
       ELSE /\ pc' = "raise" /\ running' = TRUE
            /\ unsaved' = unsaved + 1
            /\ owed' = IF scheduled THEN owed ELSE owed - 1
    /\ LoopKeeps /\ UNCHANGED <<scheduled, trigger, flag, panics, ping>>

RaiseFlag ==
    /\ pc = "raise"
    /\ pc' = "engine" /\ flag' = TRUE
    /\ ping' = [ping EXCEPT !.overlapped = @ \/ ping.pc = "flying"]
    /\ LoopKeeps
    /\ UNCHANGED <<scheduled, running, trigger, owed, unsaved, panics>>

\* Mutated form: the flag stays up until the next test ends.
EngineReturnsFlagUp ==
    /\ pc = "engine"
    /\ pc' = "store"
    /\ LoopKeeps
    /\ UNCHANGED <<scheduled, running, trigger, flag, owed, unsaved, panics, ping>>

\* engine.Run returns, with a result or an error (at the latest after the
\* three minutes of its context), and the flag is lowered.
EngineReturns ==
    /\ pc = "engine"
    /\ pc' = "store" /\ flag' = FALSE
    /\ LoopKeeps
    /\ UNCHANGED <<scheduled, running, trigger, owed, unsaved, panics, ping>>

\* Mutated form: the reset of running is not deferred.
EnginePanicsLocked ==
    /\ pc = "engine" /\ panics < MaxPanics
    /\ pc' = "panicked" /\ panics' = panics + 1
    /\ LoopKeeps /\ UNCHANGED <<scheduled, running, trigger, flag, owed, unsaved, ping>>

\* A panic unwinds runOnce: the deferred Store resets running, but the flag
\* is lowered by a plain statement that is skipped.
EnginePanics ==
    /\ pc = "engine" /\ panics < MaxPanics
    /\ pc' = "panicked" /\ running' = FALSE /\ panics' = panics + 1
    /\ LoopKeeps /\ UNCHANGED <<scheduled, trigger, flag, owed, unsaved, ping>>

\* The supervisor runs the loop again after its backoff.
Restart ==
    /\ pc = "panicked" /\ ~cancelled
    /\ pc' = "select"
    /\ LoopKeeps
    /\ UNCHANGED <<scheduled, running, trigger, flag, owed, unsaved, panics, ping>>

\* Mutated form: a failed test leaves no row.
StoreResultIfGood ==
    /\ pc = "store"
    /\ unsaved' \in {unsaved, unsaved - 1}
    /\ pc' = "finish"
    /\ LoopKeeps
    /\ UNCHANGED <<scheduled, running, trigger, flag, owed, panics, ping>>

\* InsertSpeedTest runs under the root context too.
StoreResult ==
    /\ pc = "store"
    /\ unsaved' = IF cancelled THEN unsaved ELSE unsaved - 1
    /\ pc' = "finish"
    /\ LoopKeeps
    /\ UNCHANGED <<scheduled, running, trigger, flag, owed, panics, ping>>

\* The two broadcasts, then the deferred reset of running.
Finish ==
    /\ pc = "finish"
    /\ pc' = "rearm" /\ running' = FALSE
    /\ LoopKeeps
    /\ UNCHANGED <<scheduled, trigger, flag, owed, unsaved, panics, ping>>

\* Mutated form: rearming drains the trigger channel instead of the timer's.
RearmDrains ==
    /\ pc = "rearm"
    /\ pc' = "select" /\ trigger' = 0
    /\ LoopKeeps
    /\ UNCHANGED <<scheduled, running, flag, owed, unsaved, panics, ping>>

\* Mutated form: the drain of the stopped timer has no default branch, and
\* waits for a tick that the scheduled wake-up has consumed.
RearmBlocks ==
    /\ pc = "rearm" /\ ~scheduled
    /\ pc' = "select"
    /\ LoopKeeps
    /\ UNCHANGED <<scheduled, running, trigger, flag, owed, unsaved, panics, ping>>

\* The timer is stopped, drained and reset.
Rearm ==
    /\ pc = "rearm"
    /\ pc' = "select"
    /\ LoopKeeps
    /\ UNCHANGED <<scheduled, running, trigger, flag, owed, unsaved, panics, ping>>

LoopStep ==
    \/ TimerFires \/ TakeTrigger \/ SeesDone \/ Disabled \/ SkipOutage \/ Decide
    \/ Begin \/ RaiseFlag \/ EngineReturns \/ EnginePanics \/ Restart
    \/ StoreResult \/ Finish \/ Rearm

-----------------------------------------------------------------------------
(* The rest of the process. *)
OutsideKeeps == UNCHANGED <<pc, scheduled, running, trigger, flag, checked, owed, unsaved,
                            panics>>

Toggle ==
    /\ enabled' = ~enabled
    /\ OutsideKeeps /\ UNCHANGED <<cancelled, ping>>

Shutdown ==
    /\ ~cancelled
    /\ cancelled' = TRUE
    /\ OutsideKeeps /\ UNCHANGED <<enabled, ping>>

\* A ping loop (pinger.go loop) reads the flag when the ping has returned.
PingStarts ==
    /\ ping.pc # "flying"
    /\ ping' = [pc |-> "flying", overlapped |-> pc = "engine", flagged |-> FALSE]
    /\ OutsideKeeps /\ UNCHANGED <<enabled, cancelled>>

PingReturns ==
    /\ ping.pc = "flying"
    /\ ping' = [ping EXCEPT !.pc = "done", !.flagged = flag]
    /\ OutsideKeeps /\ UNCHANGED <<enabled, cancelled>>

Next ==
    \/ LoopStep
    \/ \E c \in Client : CheckRunning(c) \/ SendTrigger(c)
    \/ Toggle \/ Shutdown \/ PingStarts \/ PingReturns

Spec == Init /\ [][Next]_rvars

\* The loop is scheduled by the runtime; an engine returns within its timeout;
\* a trigger that is ready again and again is taken in the end.
Fairness ==
    /\ WF_rvars(Disabled \/ SkipOutage \/ Decide \/ Begin \/ RaiseFlag \/ EngineReturns
                \/ Restart \/ StoreResult \/ Finish \/ Rearm)
    /\ SF_rvars(TakeTrigger)

LiveSpec == Spec /\ Fairness

-----------------------------------------------------------------------------
(***************************************************************************)
(* Properties.                                                             *)
(***************************************************************************)

\* Every request that was told its run starts gets exactly one run of its own,
\* also when it was accepted while the loop was waking up for another run.
AcceptedAccounted ==
    owed = trigger + (IF pc \in {"decide", "begin"} /\ ~scheduled THEN 1 ELSE 0)

\* Only a ping that was in flight while an engine ran is discounted as
\* self-inflicted: no sample outside a test is hidden from the detector, as
\* long as no engine has panicked (a panic leaves the flag up, see EnginePanics).
FlaggedOnlyUnderTest == panics = 0 /\ ping.flagged => ping.overlapped

\* While the process keeps running, every run and every skip leaves its row,
\* except a run whose engine panicked.
OutcomesSaved ==
    pc \in {"select", "decide", "begin"} /\ ~cancelled => unsaved = panics

\* A trigger the channel holds is taken: no run, skip or panic wedges the loop.
TriggerTaken == (trigger = 1) ~> (trigger = 0 \/ cancelled)

\* A run ends, after a panic too: manual runs are not refused for ever.
RunEnds == running ~> ~running
=============================================================================
