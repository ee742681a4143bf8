--------------------------- MODULE OutageMachine ---------------------------
(***************************************************************************)
(* The per-target hysteresis of internal/outage/detector.go as operators:  *)
(* a target goes DOWN after FailN consecutive failed samples, and UP again *)
(* after OkN consecutive good ones.  A machine is a record with the fields *)
(* of the Go struct; MachineFed is Machine.Feed, and the transition it     *)
(* returns is read off the machine before and after.                       *)
(***************************************************************************)
EXTENDS Integers

CONSTANTS FailN,     \* failN: consecutive failures to go DOWN
          OkN,       \* okN: consecutive successes to go UP
          MaxCount   \* bound: the run counters saturate here

\* config.normalize raises both thresholds to at least 1.  The counters are
\* only compared with 0 and with the thresholds, so saturating them at or
\* above both thresholds loses nothing.
ASSUME ThresholdAssumption ==
    /\ FailN \in Nat \ {0}
    /\ OkN \in Nat \ {0}
    /\ MaxCount \in Nat
    /\ FailN <= MaxCount
    /\ OkN <= MaxCount

MachineState == {"unknown", "up", "down"}

Machine == [state : MachineState, failCount : 0..MaxCount, okCount : 0..MaxCount,
            firstFailTS : Nat, firstOkTS : Nat]

NewMachine(initial) ==
    [state |-> initial, failCount |-> 0, okCount |-> 0,
     firstFailTS |-> 0, firstOkTS |-> 0]

Bump(n) == IF n < MaxCount THEN n + 1 ELSE n

\* A success: an unknown target settles as UP, a DOWN one recovers once the
\* run of successes is OkN long.
AfterSuccess(state, okCount) == IF state = "down" /\ okCount < OkN THEN "down" ELSE "up"

\* Mutated form: a success does not reset the failure run.
OkFedKeepsFailures(m, ts) ==
    [state |-> AfterSuccess(m.state, Bump(m.okCount)),
     failCount |-> m.failCount, okCount |-> Bump(m.okCount),
     firstFailTS |-> m.firstFailTS,
     firstOkTS |-> IF m.okCount = 0 THEN ts ELSE m.firstOkTS]

\* Mutated form: a success pays back one failure.
OkFedPaysBack(m, ts) ==
    [state |-> AfterSuccess(m.state, Bump(m.okCount)),
     failCount |-> m.failCount - 1, okCount |-> Bump(m.okCount),
     firstFailTS |-> 0,
     firstOkTS |-> IF m.okCount = 0 THEN ts ELSE m.firstOkTS]

OkFed(m, ts) ==
    [state |-> AfterSuccess(m.state, Bump(m.okCount)),
     failCount |-> 0, okCount |-> Bump(m.okCount),
     firstFailTS |-> 0,
     firstOkTS |-> IF m.okCount = 0 THEN ts ELSE m.firstOkTS]

\* A failure: an unknown or UP target goes DOWN once the run is FailN long.
AfterFailure(state, failCount) == IF failCount >= FailN THEN "down" ELSE state

\* Mutated form: the run of failures is dated at its last failure.
FailFedDatedLate(m, ts) ==
    [state |-> AfterFailure(m.state, Bump(m.failCount)),
     failCount |-> Bump(m.failCount), okCount |-> 0,
     firstFailTS |-> ts, firstOkTS |-> 0]

FailFed(m, ts) ==
    [state |-> AfterFailure(m.state, Bump(m.failCount)),
     failCount |-> Bump(m.failCount), okCount |-> 0,
     firstFailTS |-> IF m.failCount = 0 THEN ts ELSE m.firstFailTS,
     firstOkTS |-> 0]

\* Samples taken during a speed test leave the machine alone.
MachineFed(m, s) ==
    IF s.duringSpeedtest THEN m
    ELSE IF s.success THEN OkFed(m, s.ts) ELSE FailFed(m, s.ts)

\* The transition Feed returns, from the machine before (m) and after (n).
GoesDown(m, n) == m.state # "down" /\ n.state = "down"
GoesUp(m, n)   == m.state = "down" /\ n.state = "up"
=============================================================================
