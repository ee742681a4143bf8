----------------------------- MODULE Detector -----------------------------
(***************************************************************************)
(* The outage detector (internal/outage/coordinator.go) with the table it  *)
(* writes (outage_events, internal/store/store.go) across store failures,  *)
(* crashes and restarts.  Feed and Forget hold d.mu from their first to    *)
(* their last access of the maps and the table, so each is one action.  A  *)
(* crash between a write and the assignment after it is a crash after the  *)
(* whole action: the maps die with the process, the row stays.             *)
(***************************************************************************)
EXTENDS OutageMachine, Sequences, FiniteSets

CONSTANTS Target,      \* target ids
          NoMachine,   \* marks a target that has no entry in d.machines
          MaxTime,     \* bound: the clock stops here
          MaxEvents,   \* bound: rows of outage_events
          MaxFaults,   \* bound: failed writes of outage_events
          MaxCrashes   \* bound: process crashes

ASSUME DetectorAssumption ==
    /\ NoMachine \notin Machine
    /\ MaxTime \in Nat \ {0}
    /\ MaxEvents \in Nat
    /\ MaxFaults \in Nat
    /\ MaxCrashes \in Nat

VARIABLES machines,  \* d.machines
          openIDs,   \* d.openIDs; NoID where the map has no entry
          outages,   \* the rows of outage_events; a row's id is its index
          running,   \* the process is up and has run Resume
          now,       \* wall clock
          faults,    \* writes that have failed
          crashes    \* crashes so far

vars == <<machines, openIDs, outages, running, now, faults, crashes>>

NoID == 0   \* AUTOINCREMENT ids start at 1
Null == -1  \* ended_at IS NULL

Outage == [target : Target, started : Nat, ended : Nat \union {Null}]
Sample == [target : Target, ts : Nat, success : BOOLEAN, duringSpeedtest : BOOLEAN]

TypeOK ==
    /\ machines \in [Target -> Machine \union {NoMachine}]
    /\ openIDs \in [Target -> Nat]
    /\ outages \in Seq(Outage)
    /\ running \in BOOLEAN
    /\ now \in Nat \ {0}
    /\ faults \in Nat
    /\ crashes \in Nat

Init ==
    /\ machines = [t \in Target |-> NoMachine]
    /\ openIDs = [t \in Target |-> NoID]
    /\ outages = <<>>
    /\ running = TRUE
    /\ now = 1
    /\ faults = 0
    /\ crashes = 0

-----------------------------------------------------------------------------
IsOpen(i)  == outages[i].ended = Null
OpenOf(t)  == {i \in DOMAIN outages : outages[i].target = t /\ IsOpen(i)}
Closed(i, ts) == [outages EXCEPT ![i].ended = ts]

\* A write of outage_events succeeds (ok) or fails; the code logs a failure
\* and carries on.
Write(ok) ==
    /\ ok \/ faults < MaxFaults
    /\ faults' = IF ok THEN faults ELSE faults + 1

MachineOf(t) ==
    IF machines[t] = NoMachine THEN NewMachine("unknown") ELSE machines[t]

\* Mutated form: a sample of a target without a machine is dropped.
FeedMachineKnown(s) ==
    machines' = IF machines[s.target] = NoMachine THEN machines
                ELSE [machines EXCEPT ![s.target] = MachineFed(machines[s.target], s)]

FeedMachine(s) ==
    machines' = [machines EXCEPT ![s.target] = MachineFed(MachineOf(s.target), s)]

\* Feed without a transition.
FeedQuiet(s) ==
    /\ LET m == MachineOf(s.target) IN
         ~GoesDown(m, MachineFed(m, s)) /\ ~GoesUp(m, MachineFed(m, s))
    /\ FeedMachine(s)
    /\ UNCHANGED <<openIDs, outages, faults>>

\* Feed with a DOWN transition: the event is opened at the first failure of
\* the run; its id is remembered only when the insert succeeded.
FeedDown(s, ok) ==
    /\ GoesDown(MachineOf(s.target), MachineFed(MachineOf(s.target), s))
    /\ FeedMachine(s)
    /\ Write(ok)
    /\ IF ok
       THEN /\ Len(outages) < MaxEvents
            /\ outages' = Append(outages,
                  [target |-> s.target, ended |-> Null,
                   started |-> MachineFed(MachineOf(s.target), s).firstFailTS])
            /\ openIDs' = [openIDs EXCEPT ![s.target] = Len(outages) + 1]
       ELSE UNCHANGED <<outages, openIDs>>

\* CloseOutage of t's remembered event, if there is one, at ts.  The id is
\* forgotten whether or not the update succeeded.
CloseTracked(t, ts, ok) ==
    IF openIDs[t] = NoID
    THEN UNCHANGED <<outages, openIDs, faults>>
    ELSE /\ Write(ok)
         /\ outages' = IF ok THEN Closed(openIDs[t], ts) ELSE outages
         /\ openIDs' = [openIDs EXCEPT ![t] = NoID]

\* Mutated form: the event ends at the start of the run of failures, which the
\* success has reset.
FeedUpFirstFail(s, ok) ==
    /\ GoesUp(MachineOf(s.target), MachineFed(MachineOf(s.target), s))
    /\ FeedMachine(s)
    /\ CloseTracked(s.target, MachineFed(MachineOf(s.target), s).firstFailTS, ok)

\* Mutated form: the event's id is kept after the event was closed.
FeedUpKeepsID(s, ok) ==
    /\ GoesUp(MachineOf(s.target), MachineFed(MachineOf(s.target), s))
    /\ FeedMachine(s)
    /\ IF openIDs[s.target] = NoID
       THEN UNCHANGED <<outages, openIDs, faults>>
       ELSE /\ Write(ok)
            /\ outages' = IF ok THEN Closed(openIDs[s.target], s.ts) ELSE outages
            /\ UNCHANGED openIDs

\* Feed with an UP transition: the event ends at the first success of the run.
FeedUp(s, ok) ==
    /\ GoesUp(MachineOf(s.target), MachineFed(MachineOf(s.target), s))
    /\ FeedMachine(s)
    /\ CloseTracked(s.target, MachineFed(MachineOf(s.target), s).firstOkTS, ok)

Feed(s, ok) ==
    /\ running
    /\ FeedQuiet(s) \/ FeedDown(s, ok) \/ FeedUp(s, ok)
    /\ UNCHANGED <<running, now, crashes>>

\* Mutated form: the machine of a deleted target goes, its event stays.
ForgetLeavesEvent(t, ok) ==
    /\ running
    /\ machines' = [machines EXCEPT ![t] = NoMachine]
    /\ openIDs' = [openIDs EXCEPT ![t] = NoID]
    /\ UNCHANGED <<outages, faults, running, now, crashes>>

\* Forget, called by the DELETE handler with the current time.
Forget(t, ok) ==
    /\ running
    /\ CloseTracked(t, now, ok)
    /\ machines' = [machines EXCEPT ![t] = NoMachine]
    /\ UNCHANGED <<running, now, crashes>>

Crash ==
    /\ running
    /\ crashes < MaxCrashes
    /\ running' = FALSE
    /\ crashes' = crashes + 1
    /\ machines' = [t \in Target |-> NoMachine]
    /\ openIDs' = [t \in Target |-> NoID]
    /\ UNCHANGED <<outages, now, faults>>

\* OpenOutages scans the table in id order, so of several open rows of one
\* target the last is kept and each other one meets the next open row.
Newest(S) == CHOOSE i \in S : \A j \in S : j <= i
Stale     == {i \in DOMAIN outages : IsOpen(i) /\ i # Newest(OpenOf(outages[i].target))}
NextOpen(i) ==
    CHOOSE k \in OpenOf(outages[i].target) :
        k > i /\ \A j \in OpenOf(outages[i].target) : j > i => k <= j

\* Mutated form: the machines of interrupted outages start as unknown.
ResumeUnknown(failed) ==
    /\ ~running
    /\ faults + Cardinality(failed) <= MaxFaults
    /\ openIDs' = [t \in Target |-> IF OpenOf(t) = {} THEN NoID ELSE Newest(OpenOf(t))]
    /\ machines' = [t \in Target |-> NoMachine]
    /\ running' = TRUE
    /\ UNCHANGED <<outages, faults, now, crashes>>

\* Resume at startup: the newest open event of each target is taken up with a
\* DOWN machine; a stale one is closed at the start of the open event that
\* follows it.  The closes in "failed" fail.
Resume(failed) ==
    /\ ~running
    /\ faults + Cardinality(failed) <= MaxFaults
    /\ outages' = [i \in DOMAIN outages |->
                     IF i \in Stale \ failed
                     THEN [outages[i] EXCEPT !.ended = outages[NextOpen(i)].started]
                     ELSE outages[i]]
    /\ openIDs' = [t \in Target |-> IF OpenOf(t) = {} THEN NoID ELSE Newest(OpenOf(t))]
    /\ machines' = [t \in Target |->
                      IF OpenOf(t) = {} THEN NoMachine ELSE NewMachine("down")]
    /\ faults' = faults + Cardinality(failed)
    /\ running' = TRUE
    /\ UNCHANGED <<now, crashes>>

Tick ==
    /\ now < MaxTime
    /\ now' = now + 1
    /\ UNCHANGED <<machines, openIDs, outages, running, faults, crashes>>

-----------------------------------------------------------------------------
\* One loop per target feeds in order, so a sample carries the current time.
SampleNow(t, success, flagged) ==
    [target |-> t, ts |-> now, success |-> success, duringSpeedtest |-> flagged]

Next ==
    \/ \E t \in Target, success, flagged, ok \in BOOLEAN :
          Feed(SampleNow(t, success, flagged), ok)
    \/ \E t \in Target, ok \in BOOLEAN : Forget(t, ok)
    \/ Crash
    \/ \E failed \in SUBSET Stale : Resume(failed)
    \/ Tick

Spec == Init /\ [][Next]_vars

-----------------------------------------------------------------------------
(***************************************************************************)
(* Properties.                                                             *)
(***************************************************************************)

\* An id in openIDs is always a row of that target which is still open, and
\* its machine is DOWN: so the recovery that deletes the id (Feed, Forget)
\* closes the right row, and a row is never closed twice.
OpenIDsTracked ==
    \A t \in Target : openIDs[t] # NoID =>
        /\ openIDs[t] \in OpenOf(t)
        /\ machines[t] # NoMachine
        /\ machines[t].state = "down"

\* As long as no write has failed, the table and the machines tell the same
\* story: a DOWN target has exactly one open event, the one its id names, and
\* any other target has none.  After a crash there is still at most one, so
\* Resume has nothing to repair.
TableAgrees ==
    faults = 0 =>
        \A t \in Target :
            IF running
            THEN OpenOf(t) = IF machines[t] # NoMachine /\ machines[t].state = "down"
                             THEN {openIDs[t]} ELSE {}
            ELSE \A i, j \in OpenOf(t) : i = j

\* duration_ms is ended_at - started_at: no closed row has a negative one, and
\* none ends in the future, whatever fails and whenever the process restarts.
DurationsSane ==
    \A i \in DOMAIN outages :
        /\ outages[i].started <= now
        /\ ~IsOpen(i) => outages[i].started <= outages[i].ended /\ outages[i].ended <= now

\* Why DurationsSane holds (the inductive part): the events of a target start
\* in id order, the runs a machine remembers lie in the past, a run of
\* successes that may close the tracked event began after it, and a run of
\* failures that may open the next one began after all earlier ones.
RunsDated ==
    /\ \A i, j \in DOMAIN outages :
          i < j /\ outages[i].target = outages[j].target =>
             outages[i].started <= outages[j].started
    /\ \A t \in Target : machines[t] # NoMachine =>
          /\ machines[t].firstFailTS <= now
          /\ machines[t].firstOkTS <= now
          /\ machines[t].okCount > 0 /\ openIDs[t] # NoID =>
                outages[openIDs[t]].started <= machines[t].firstOkTS
          /\ machines[t].failCount > 0 /\ machines[t].state # "down" =>
                \A i \in DOMAIN outages :
                   outages[i].target = t => outages[i].started <= machines[t].firstFailTS

\* History is final: a closed row never changes and no row disappears.
HistoryIsFinal ==
    [][/\ Len(outages') >= Len(outages)
       /\ \A i \in DOMAIN outages :
            /\ outages'[i].target = outages[i].target
            /\ outages'[i].started = outages[i].started
            /\ ~IsOpen(i) => outages'[i].ended = outages[i].ended]_vars

\* While no write fails, the table is the log OutageLog promises: every step
\* of the detector, crashes, restarts and deletions among them, begins or ends
\* one outage of that log or leaves it alone.
Log == INSTANCE OutageLog WITH log <- outages, Clock <- 1..MaxTime
ImplementsLog ==
    Log!Init /\ [][faults' = 0 => Log!Next \/ UNCHANGED outages]_vars
=============================================================================
