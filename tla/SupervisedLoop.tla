---------------------------- MODULE SupervisedLoop ----------------------------
(***************************************************************************)
(* One ping loop under its supervisor (internal/supervise/supervise.go, Go)*)
(* and the cancellation of its context: a panic in the probe or in what is *)
(* done with its sample ends the run, and another one begins after a       *)
(* backoff, with a schedule of its own.  PingSchedule measures the times of*)
(* a run from its start, so now is also how long the run has lasted.       *)
(***************************************************************************)
EXTENDS PingSchedule, Sequences, FiniteSets

CONSTANTS Base,        \* 250 ms
          MaxBackoff,  \* 30 s
          Healthy,     \* one minute
          MaxExits     \* bound: panics

\* The first wait is a wait, and no longer than the longest.
ASSUME BackoffAssumption == Base \in Nat \ {0} /\ MaxBackoff \in Nat /\ Base <= MaxBackoff

VARIABLES sup,        \* whether a run is under way, or the supervisor waits, or is done
          cancelled,  \* the context is cancelled
          backoff,    \* the next wait
          exits       \* of each run that panicked, whether it was a healthy one

svars == <<pvars, sup, cancelled, backoff, exits>>

LesserOf(a, b) == IF a < b THEN a ELSE b

TypeOKSupervised ==
    /\ TypeOK
    /\ sup \in {"running", "backoff", "ended"}
    /\ cancelled \in BOOLEAN
    /\ backoff \in Base..MaxBackoff
    /\ exits \in Seq(BOOLEAN)

SInit == Init /\ sup = "running" /\ cancelled = FALSE /\ backoff = Base /\ exits = <<>>

-----------------------------------------------------------------------------
(* The run. *)

Keeps == UNCHANGED <<cancelled, backoff, exits>>

\* The select at the top of the loop may take the timer although the context
\* is cancelled.
RunFires(late) ==
    /\ sup = "running" /\ TimerFires(late)
    /\ UNCHANGED sup /\ Keeps

\* The context is looked at again after the ping, before the sample is passed on.
RunPings(took) ==
    /\ sup = "running" /\ PingReturns(took)
    /\ sup' = IF cancelled THEN "ended" ELSE "running"
    /\ Keeps

RunResets(late) ==
    /\ sup = "running" /\ ResetTimer(late)
    /\ UNCHANGED sup /\ Keeps

RunDone ==
    /\ sup = "running" /\ pc = "timer" /\ cancelled
    /\ sup' = "ended"
    /\ UNCHANGED pvars /\ Keeps

\* Mutated form: a healthy run resets the wait after the next one.
RunPanicsLate(took) ==
    /\ sup = "running" /\ pc = "ping" /\ Len(exits) < MaxExits
    /\ IF cancelled THEN sup' = "ended" /\ UNCHANGED <<backoff, exits>>
       ELSE /\ sup' = "backoff"
            /\ exits' = Append(exits, now + took > Healthy)
            /\ backoff' = IF exits # <<>> /\ exits[Len(exits)] THEN Base ELSE backoff
    /\ UNCHANGED <<pvars, cancelled>>

\* runOnce recovers the panic; a run of more than a minute resets the wait.
RunPanics(took) ==
    /\ sup = "running" /\ pc = "ping" /\ Len(exits) < MaxExits
    /\ IF cancelled THEN sup' = "ended" /\ UNCHANGED <<backoff, exits>>
       ELSE /\ sup' = "backoff"
            /\ exits' = Append(exits, now + took > Healthy)
            /\ backoff' = IF now + took > Healthy THEN Base ELSE backoff
    /\ UNCHANGED <<pvars, cancelled>>

-----------------------------------------------------------------------------
(* The supervisor. *)

\* Mutated form: the supervisor gives up once it waits for as long as it may.
RestartUnlessCapped ==
    /\ sup = "backoff" /\ backoff < MaxBackoff
    /\ sup' = "running"
    /\ backoff' = LesserOf(2 * backoff, MaxBackoff)
    /\ pc' = "timer" /\ now' = 0 /\ next' = 0 /\ timer' = 0 /\ lastSlot' = NoSlot
    /\ UNCHANGED <<cancelled, exits>>

\* The wait is over (the select may prefer this to a cancellation): a new run.
Restart ==
    /\ sup = "backoff"
    /\ sup' = "running"
    /\ backoff' = LesserOf(2 * backoff, MaxBackoff)
    /\ pc' = "timer" /\ now' = 0 /\ next' = 0 /\ timer' = 0 /\ lastSlot' = NoSlot
    /\ UNCHANGED <<cancelled, exits>>

CancelledInBackoff ==
    /\ sup = "backoff" /\ cancelled
    /\ sup' = "ended"
    /\ UNCHANGED pvars /\ Keeps

\* Reconcile, or the shutdown of the program.
Cancel ==
    /\ ~cancelled
    /\ cancelled' = TRUE
    /\ UNCHANGED <<pvars, sup, backoff, exits>>

GoOn ==
    \/ \E delay \in 0..MaxDelay : RunFires(delay) \/ RunPings(delay) \/ RunResets(delay)
    \/ RunDone \/ Restart \/ CancelledInBackoff

SNext == GoOn \/ Cancel \/ \E took \in 0..MaxDelay : RunPanics(took)

SSafe == SInit /\ [][SNext]_svars

\* A goroutine that can take a step takes one; a select whose channels are both
\* ready does not avoid one of them for ever.
SSpec == SSafe /\ WF_svars(GoOn) /\ SF_svars(RunDone)

-----------------------------------------------------------------------------
(***************************************************************************)
(* Properties.                                                             *)
(***************************************************************************)

\* The panics since, and including, the last of a healthy run.
Streak(n) ==
    {i \in 1..n : \A j \in (i + 1)..n : ~exits[j]}

\* "Exponential backoff (250ms..30s), resetting after a minute of healthy
\* runtime" (supervise.go:28-29): the wait doubles with every panic after the
\* first of such a streak, up to the cap.
BackoffExact ==
    sup = "backoff" =>
        backoff = LesserOf(Base * 2^(Cardinality(Streak(Len(exits))) - 1), MaxBackoff)

\* The loop is not silently dead (SPEC.md:71): after every panic it pings again,
\* unless it is cancelled, and once cancelled its supervision ends, so that
\* Wait returns.
RestartsUntilCancelled ==
    /\ sup = "backoff" ~> (sup = "running" /\ pc = "ping") \/ cancelled
    /\ cancelled ~> sup = "ended"
=============================================================================
