---------------------------- MODULE DetectorLive ----------------------------
(***************************************************************************)
(* The detector fed by ping loops that keep running: a sample of a target  *)
(* succeeds exactly when the target answers.  Deleting a target ends its   *)
(* loop (its id is never used again).                                      *)
(***************************************************************************)
EXTENDS Detector

CONSTANT MaxFlips   \* bound: changes of the network

VARIABLES answers,  \* whether a target answers
          deleted,  \* targets the DELETE handler has removed
          flips     \* changes of the network so far

lvars == <<vars, answers, deleted, flips>>

LInit == Init /\ answers = [t \in Target |-> TRUE] /\ deleted = {} /\ flips = 0

\* One pass of t's loop (pinger.go loop, main.go onSample).
Ping(t, flagged, ok) ==
    /\ t \notin deleted
    /\ Feed(SampleNow(t, answers[t], flagged), ok)
    /\ UNCHANGED <<answers, deleted, flips>>

Delete(t, ok) ==
    /\ t \notin deleted
    /\ Forget(t, ok)
    /\ deleted' = deleted \union {t}
    /\ UNCHANGED <<answers, flips>>

Flip(t) ==
    /\ flips < MaxFlips
    /\ flips' = flips + 1
    /\ answers' = [answers EXCEPT ![t] = ~@]
    /\ UNCHANGED <<vars, deleted>>

Process ==
    /\ Crash \/ Tick \/ \E failed \in SUBSET Stale : Resume(failed)
    /\ UNCHANGED <<answers, deleted, flips>>

LNext ==
    \/ \E t \in Target, flagged, ok \in BOOLEAN : Ping(t, flagged, ok)
    \/ \E t \in Target, ok \in BOOLEAN : Delete(t, ok)
    \/ \E t \in Target : Flip(t)
    \/ Process

\* A crashed process is started again (the container restarts it) and runs
\* Resume.  The timer of a loop fires again after every ping, and a speed
\* test lasts at most minutes, so samples that count keep coming.
LFairness ==
    /\ WF_lvars(Process /\ running' /\ ~running)
    /\ \A t \in Target : WF_lvars(\E ok \in BOOLEAN : Ping(t, FALSE, ok))

LSpec == LInit /\ [][LNext]_lvars /\ LFairness

-----------------------------------------------------------------------------
\* An outage does not outlive its cause: once a target answers for good, none
\* of its events stays open, also when the process crashed in between.
RecoveryEndsOutage ==
    \A t \in Target : (<>[]answers[t]) => <>[](OpenOf(t) = {})

\* An outage is not missed: a target that stays silent, and is not deleted,
\* ends up with one open event, whatever was crashed or restarted.
SilenceIsRecorded ==
    \A t \in Target :
        (<>[](~answers[t] /\ t \notin deleted)) => <>[](Cardinality(OpenOf(t)) = 1)
=============================================================================
