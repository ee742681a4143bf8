---------------------------- MODULE TargetLoops ----------------------------
(***************************************************************************)
(* The ping loops of internal/pinger/pinger.go under target changes made   *)
(* through the API (internal/api/targets.go), with the tracker             *)
(* (internal/live/live.go) and the detector their samples reach.  A request*)
(* handler holds no lock across its steps: it writes the targets table,    *)
(* drops a deleted target's state, reads the table back and hands the list *)
(* to Reconcile; other handlers and the loops run between any two of them. *)
(***************************************************************************)
EXTENDS Detector

CONSTANTS SpecKey,      \* host, probe and interval of a target, as specKey joins them
          Handler,      \* API requests that can be in progress at once
          NoRow,        \* marks a target id with no row in the table
          Keep,         \* an update that does not say whether the target is enabled
          MaxRequests,  \* bound: requests served, the last of which begins alone
          MaxLoops      \* bound: loops ever started per target

ASSUME SpecKeyAssumption == SpecKey # {}

VARIABLES rows,      \* the targets table
          used,      \* ids the table has ever given out (AUTOINCREMENT)
          loopOf,    \* Manager.running: the index of a target's loop, 0 if none
          loops,     \* the loops ever started for each target
          window,    \* the targets the tracker has a window of
          handlers,  \* the requests in progress
          requests,  \* requests accepted so far
          misled     \* Reconcile may have gone by an old list, or not at all

netVars == <<rows, used, loopOf, loops, window, handlers, requests, misled>>
tvars == <<vars, netVars>>

NoTS == 0
NoLoop == 0
Row == [enabled : BOOLEAN, spec : SpecKey]

\* A mark is not a value.
ASSUME NoRowAssumption == NoRow \notin Row \union SpecKey

Want == [Target -> SpecKey \union {NoRow}]
Loop == [spec : SpecKey, cancelled : BOOLEAN, pc : {"timer", "ping", "add", "feed", "gone"},
         ts : Nat, success : BOOLEAN]
Idle == [pc |-> "idle"]

NewLoop(spec) ==
    [spec |-> spec, cancelled |-> FALSE, pc |-> "timer", ts |-> NoTS, success |-> FALSE]
Gone(l) == [l EXCEPT !.pc = "gone", !.ts = NoTS, !.success = FALSE]

Request ==
    {Idle} \union [pc : {"list"}]
    \union [pc : {"write"}, target : Target, row : Row]
    \union [pc : {"forget", "window"}, target : Target]
    \union [pc : {"apply"}, want : Want]

TypeOKLoops ==
    /\ now \in Nat
    /\ rows \in [Target -> Row \union {NoRow}]
    /\ loopOf \in [Target -> Nat]
    /\ loops \in [Target -> Seq(Loop)]
    /\ handlers \in [Handler -> Request]

\* Of the targets followed one at most was configured at boot, and main's first
\* reconcile started its loop.  Its fields are as good as any.
TInit ==
    /\ Init
    /\ \E boot \in {{}} \union {{t} : t \in Target}, spec \in {CHOOSE s \in SpecKey : TRUE} :
         /\ rows = [u \in Target |-> IF u \in boot THEN [enabled |-> TRUE, spec |-> spec] ELSE NoRow]
         /\ used = boot
         /\ loopOf = [u \in Target |-> IF u \in boot THEN 1 ELSE NoLoop]
         /\ loops = [u \in Target |-> IF u \in boot THEN <<NewLoop(spec)>> ELSE <<>>]
    /\ window = {}
    /\ handlers = [h \in Handler |-> Idle]
    /\ requests = 0 /\ misled = FALSE

-----------------------------------------------------------------------------
(* Request handlers. *)

Quiet == \A h \in Handler : handlers[h] = Idle

\* Which of the idle handlers takes a request makes no difference.
FreeHandler == CHOOSE h \in Handler : handlers[h] = Idle

\* A request that begins alone reads and applies the whole table, so it makes
\* good what earlier ones got wrong.
Accept(h, next) ==
    /\ handlers[h] = Idle /\ h = FreeHandler
    /\ requests < MaxRequests
    /\ requests + 1 = MaxRequests => Quiet
    /\ requests' = requests + 1
    /\ misled' = ~Quiet
    /\ handlers' = [handlers EXCEPT ![h] = next]

Goto(h, next) == handlers' = [handlers EXCEPT ![h] = next]

\* handleCreateTarget up to the insert.
CreateTarget(h, t, enabled, spec) ==
    /\ t \notin used
    /\ Accept(h, [pc |-> "list"])
    /\ rows' = [rows EXCEPT ![t] = [enabled |-> enabled, spec |-> spec]]
    /\ used' = used \union {t}
    /\ UNCHANGED <<vars, loopOf, loops, window>>

\* handleUpdateTarget up to GetTarget; the row it read decides Enabled when
\* the payload leaves it out.
UpdateRead(h, t, enabled, spec) ==
    /\ rows[t] # NoRow
    /\ Accept(h, [pc |-> "write", target |-> t,
                  row |-> [enabled |-> IF enabled = Keep THEN rows[t].enabled ELSE enabled,
                           spec |-> spec]])
    /\ UNCHANGED <<vars, rows, used, loopOf, loops, window>>

\* UpdateTarget touches no row when the target was deleted meanwhile.
UpdateWrite(h) ==
    /\ handlers[h].pc = "write"
    /\ LET t == handlers[h].target IN
         rows' = [rows EXCEPT ![t] = IF @ = NoRow THEN NoRow ELSE handlers[h].row]
    /\ Goto(h, [pc |-> "list"])
    /\ UNCHANGED <<vars, used, loopOf, loops, window, requests, misled>>

\* handleDeleteTarget: the row, the detector's state, the tracker's window.
DeleteTarget(h, t) ==
    /\ t \in used
    /\ Accept(h, [pc |-> "forget", target |-> t])
    /\ rows' = [rows EXCEPT ![t] = NoRow]
    /\ UNCHANGED <<vars, used, loopOf, loops, window>>

ForgetOutage(h) ==
    /\ handlers[h].pc = "forget"
    /\ Forget(handlers[h].target, TRUE)
    /\ Goto(h, [pc |-> "window", target |-> handlers[h].target])
    /\ UNCHANGED <<rows, used, loopOf, loops, window, requests, misled>>

ForgetWindow(h) ==
    /\ handlers[h].pc = "window"
    /\ window' = window \ {handlers[h].target}
    /\ Goto(h, [pc |-> "list"])
    /\ UNCHANGED <<vars, rows, used, loopOf, loops, requests, misled>>

\* reconcile in main.go: the table is read first ...
ListTargets(h) ==
    /\ handlers[h].pc = "list"
    /\ Goto(h, [pc |-> "apply",
                want |-> [t \in Target |-> IF rows[t] # NoRow /\ rows[t].enabled
                                           THEN rows[t].spec ELSE NoRow]])
    /\ UNCHANGED <<vars, rows, used, loopOf, loops, window, requests, misled>>

\* ... a failed read is logged and reconciles nothing ...
ListFails(h) ==
    /\ handlers[h].pc = "list"
    /\ Write(FALSE)
    /\ Goto(h, Idle)
    /\ misled' = TRUE
    /\ UNCHANGED <<machines, openIDs, outages, running, now, crashes>>
    /\ UNCHANGED <<rows, used, loopOf, loops, window, requests>>

\* Whether t's running loop is the wanted one.
Current(t, want) == loopOf[t] # NoLoop /\ loops[t][loopOf[t]].spec = want[t]

\* Mutated form: an edited target's old loop is replaced, not cancelled.
ReconcileLeavesOld(want) ==
    /\ \A t \in Target : Len(loops[t]) < MaxLoops
    /\ loops' = [t \in Target |->
                   IF ~Current(t, want) /\ want[t] # NoRow
                   THEN Append(loops[t], NewLoop(want[t])) ELSE loops[t]]
    /\ loopOf' = [t \in Target |->
                    IF Current(t, want) THEN loopOf[t]
                    ELSE IF want[t] = NoRow THEN NoLoop ELSE Len(loops[t]) + 1]

\* Mutated form: loops of targets no longer wanted keep running.
ReconcileNeverStops(want) ==
    /\ \A t \in Target : Len(loops[t]) < MaxLoops
    /\ LET start(t) == want[t] # NoRow /\ loopOf[t] = NoLoop IN
         /\ loops' = [t \in Target |->
                        IF start(t) THEN Append(loops[t], NewLoop(want[t])) ELSE loops[t]]
         /\ loopOf' = [t \in Target |-> IF start(t) THEN Len(loops[t]) + 1 ELSE loopOf[t]]

\* Mutated form: an edited target's loop is stopped and not started again.
ReconcileNeverRestarts(want) ==
    LET stop(t)  == loopOf[t] # NoLoop /\ ~Current(t, want)
        start(t) == want[t] # NoRow /\ loopOf[t] = NoLoop
    IN /\ \A t \in Target : start(t) => Len(loops[t]) < MaxLoops
       /\ loops' = [t \in Target |->
                      LET kept == IF stop(t) THEN [loops[t] EXCEPT ![loopOf[t]].cancelled = TRUE]
                                  ELSE loops[t]
                      IN IF start(t) THEN Append(kept, NewLoop(want[t])) ELSE kept]
       /\ loopOf' = [t \in Target |-> IF stop(t) THEN NoLoop
                                      ELSE IF start(t) THEN Len(loops[t]) + 1 ELSE loopOf[t]]

\* Reconcile, under m.mu: cancel the loops that are not wanted as they are,
\* start the wanted ones that are missing.
Reconcile(want) ==
    LET stop(t)  == loopOf[t] # NoLoop /\ ~Current(t, want)
        start(t) == want[t] # NoRow /\ ~Current(t, want)
    IN /\ \A t \in Target : start(t) => Len(loops[t]) < MaxLoops
       /\ loops' = [t \in Target |->
                      LET kept == IF stop(t) THEN [loops[t] EXCEPT ![loopOf[t]].cancelled = TRUE]
                                  ELSE loops[t]
                      IN IF start(t) THEN Append(kept, NewLoop(want[t])) ELSE kept]
       /\ loopOf' = [t \in Target |-> IF start(t) THEN Len(loops[t]) + 1
                                      ELSE IF stop(t) THEN NoLoop ELSE loopOf[t]]

\* ... and the list is applied, however old it is by now.
ApplyList(h) ==
    /\ handlers[h].pc = "apply"
    /\ Reconcile(handlers[h].want)
    /\ Goto(h, Idle)
    /\ UNCHANGED <<vars, rows, used, window, requests, misled>>

HandlerStep(h) ==
    \/ UpdateWrite(h) \/ ForgetOutage(h) \/ ForgetWindow(h)
    \/ ListTargets(h) \/ ListFails(h) \/ ApplyList(h)

-----------------------------------------------------------------------------
(* A ping loop.  Its select may take the timer although the context is     *)
(* already cancelled; the check after the ping is what stops a sample.     *)

SetLoop(t, g, l) == loops' = [loops EXCEPT ![t][g] = l]
LoopKeeps == UNCHANGED <<rows, used, loopOf, handlers, requests, misled>>

StartPing(t, g) ==
    /\ loops[t][g].pc = "timer"
    /\ SetLoop(t, g, [loops[t][g] EXCEPT !.pc = "ping", !.ts = now])
    /\ LoopKeeps /\ UNCHANGED <<vars, window>>

LoopExits(t, g) ==
    /\ loops[t][g].pc = "timer" /\ loops[t][g].cancelled
    /\ SetLoop(t, g, Gone(loops[t][g]))
    /\ LoopKeeps /\ UNCHANGED <<vars, window>>

\* The bound on events is a bound on the failures that may still open one.
Failing == {p \in Target \X (1..MaxLoops) :
              /\ p[2] \in DOMAIN loops[p[1]]
              /\ loops[p[1]][p[2]].pc \in {"add", "feed"}
              /\ ~loops[p[1]][p[2]].success}

PingReturns(t, g, success) ==
    /\ loops[t][g].pc = "ping"
    /\ success \/ Len(outages) + Cardinality(Failing) < MaxEvents
    /\ SetLoop(t, g, IF loops[t][g].cancelled THEN Gone(loops[t][g])
                     ELSE [loops[t][g] EXCEPT !.pc = "add", !.success = success])
    /\ LoopKeeps /\ UNCHANGED <<vars, window>>

\* onSample: tracker.Add ...
AddToTracker(t, g) ==
    /\ loops[t][g].pc = "add"
    /\ window' = window \union {t}
    /\ SetLoop(t, g, [loops[t][g] EXCEPT !.pc = "feed"])
    /\ LoopKeeps /\ UNCHANGED vars

\* ... then detector.Feed, then the loop waits for its next slot.
FeedDetector(t, g) ==
    /\ loops[t][g].pc = "feed"
    /\ Feed([target |-> t, ts |-> loops[t][g].ts, success |-> loops[t][g].success,
             duringSpeedtest |-> FALSE], TRUE)
    /\ SetLoop(t, g, [loops[t][g] EXCEPT !.pc = "timer", !.ts = NoTS, !.success = FALSE])
    /\ LoopKeeps /\ UNCHANGED window

LoopStep(t, g) ==
    \/ StartPing(t, g) \/ LoopExits(t, g)
    \/ \E success \in BOOLEAN : PingReturns(t, g, success)
    \/ AddToTracker(t, g) \/ FeedDetector(t, g)

-----------------------------------------------------------------------------
TNext ==
    \/ \E h \in Handler, t \in Target, spec \in SpecKey :
         \/ \E enabled \in BOOLEAN : CreateTarget(h, t, enabled, spec)
         \/ \E enabled \in {TRUE, FALSE, Keep} : UpdateRead(h, t, enabled, spec)
    \/ \E h \in Handler, t \in Target : DeleteTarget(h, t)
    \/ \E h \in Handler : HandlerStep(h)
    \/ \E t \in Target : \E g \in DOMAIN loops[t] : LoopStep(t, g)
    \/ Tick /\ UNCHANGED netVars

TSpec == TInit /\ [][TNext]_tvars

\* Handlers run to completion; a loop's timer fires, its ping returns within
\* the timeout, and a cancelled loop whose select sees both channels ready
\* again and again takes Done in the end.
TFairness ==
    /\ \A h \in Handler : WF_tvars(HandlerStep(h))
    /\ \A t \in Target : \A g \in 1..MaxLoops :
         /\ WF_tvars(g \in DOMAIN loops[t] /\ LoopStep(t, g))
         /\ SF_tvars(g \in DOMAIN loops[t] /\ LoopExits(t, g))

TLiveSpec == TSpec /\ TFairness

-----------------------------------------------------------------------------
(***************************************************************************)
(* Properties.                                                             *)
(***************************************************************************)
DeletedTarget(t) == t \in used /\ rows[t] = NoRow

\* Per target at most one loop is not cancelled, and it is the one the manager
\* can still cancel: however requests overlap, no loop is orphaned.
OneLiveLoop ==
    \A t \in Target :
        {g \in DOMAIN loops[t] : ~loops[t][g].cancelled} =
            IF loopOf[t] = NoLoop THEN {} ELSE {loopOf[t]}

\* Once a request that began alone is served, the running loops are those of the
\* enabled rows, with the fields of the rows (the comment on Reconcile,
\* pinger.go:61-63, and SPEC.md:124): it also makes good what requests that
\* overlapped, or whose read of the table failed, have left behind.
RunningMatchesRows ==
    Quiet /\ ~misled =>
        \A t \in Target :
            IF rows[t] # NoRow /\ rows[t].enabled
            THEN loopOf[t] # NoLoop /\ loops[t][loopOf[t]].spec = rows[t].spec
            ELSE loopOf[t] = NoLoop

\* A deleted target's loops end: from some point on it is never pinged again.
DeletedGoesQuiet ==
    \A t \in Target :
        <>[](DeletedTarget(t) /\ ~misled) =>
            <>[](\A g \in DOMAIN loops[t] : loops[t][g].pc = "gone")

\* A target that stays enabled keeps being sampled (SPEC.md:71 calls a silently
\* dead pinger the worst failure mode the program can have).
EnabledIsSampled ==
    \A t \in Target :
        <>[](rows[t] # NoRow /\ rows[t].enabled /\ ~misled) =>
            []<>(\E g \in DOMAIN loops[t] : loops[t][g].pc = "feed")
=============================================================================
