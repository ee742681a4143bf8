------------------------------ MODULE Settings ------------------------------
(***************************************************************************)
(* The settings manager (internal/settings/settings.go): the copy in       *)
(* memory, the row app_settings, concurrent PUT requests, crashes, and     *)
(* restarts with another boot configuration or CONFIG_LOCK.  Update holds  *)
(* m.mu while it assigns m.cur, persist while it encodes it; the write of  *)
(* the row is outside the lock.                                            *)
(***************************************************************************)
EXTENDS Glance

CONSTANTS Value,        \* what an operator can choose, thresholds apart
          Handler,      \* PUT requests in progress at once
          NoValue,      \* no row, no edit
          MaxUpdates,   \* bound: updates accepted
          MaxFaults,    \* bound: failed writes
          MaxRestarts   \* bound: restarts

VARIABLES cur,      \* m.cur
          row,      \* the row app_settings
          lock,     \* m.lock
          boot,     \* the value env and YAML gave at this boot
          up,       \* the process is running
          put,      \* the requests in progress
          edited,   \* the last edit a request was told has been saved
          raced,    \* requests have overlapped since one last wrote the row alone
          updates, faults, restarts

mvars == <<cur, row, lock, boot, up, put, edited, raced, updates, faults, restarts>>

\* A PUT that leaves the thresholds out, one as lenient as they may be, and one
\* with a blank field; a row from before they existed has none either.
Loosest ==
    [lanDownLoss |-> 100, lanMs |-> 60000, lanLoss |-> 99, netDownLoss |-> 100,
     netDownMs |-> 60000, netLoss |-> 99, netMs |-> 59999, netJitter |-> 60000, staleAfter |-> 600]
Offered == {Zeros, Loosest, [Defaults EXCEPT !.netDownLoss = 0]}

App == [value : Value, limits : Thresholds, ui : BOOLEAN]
ASSUME NoValueAssumption == NoValue \notin App

Booted(v) == [value |-> v, limits |-> Defaults, ui |-> FALSE]
Settled(limits) == IF limits = Zeros THEN Defaults ELSE limits
Filled(a) == [a EXCEPT !.limits = Settled(@)]
Idle == [pc |-> "idle", alone |-> FALSE]

\* h takes its turn with a; it is alone until another request joins it.
Accepted(h, a) ==
    [g \in Handler |->
        IF g = h THEN [pc |-> "marshal", edit |-> a,
                       alone |-> \A k \in Handler : put[k] = Idle]
        ELSE [put[g] EXCEPT !.alone = FALSE]]

TypeOK ==
    /\ cur \in App /\ row \in App \union {NoValue}
    /\ lock \in BOOLEAN /\ up \in BOOLEAN /\ boot \in Value
    /\ \A h \in Handler : put[h].pc \in {"idle", "marshal", "write"}
    /\ raced \in BOOLEAN
    /\ edited \in App \union {NoValue}

\* NewManager: an edited row wins over the boot configuration unless locked.
Loaded(v, locked) ==
    IF ~locked /\ row # NoValue /\ row.ui THEN Filled(row) ELSE Booted(v)

\* A first boot, or an upgrade of an installation edited before the thresholds
\* existed.
Init ==
    /\ \E v \in Value, locked \in BOOLEAN :
         /\ row \in {NoValue} \union [value : Value, limits : {Zeros}, ui : {TRUE}]
         /\ boot = v /\ lock = locked
         /\ cur = Booted(v)
         /\ edited = IF row = NoValue THEN NoValue ELSE Filled(row)
    /\ up = FALSE
    /\ put = [h \in Handler |-> Idle]
    /\ raced = FALSE
    /\ updates = 0 /\ faults = 0 /\ restarts = 0

-----------------------------------------------------------------------------
\* The edit in the row, whichever of some overlapping requests left it there.
Kept == IF row # NoValue /\ row.ui THEN row ELSE NoValue

\* NewManager persists what it loaded; if that fails the program does not
\* start.  A locked boot replaces the edits by the boot configuration.
Start(v, locked) ==
    /\ ~up /\ restarts < MaxRestarts
    /\ restarts' = restarts + 1
    /\ boot' = v /\ lock' = locked
    /\ cur' = Loaded(v, locked) /\ row' = Loaded(v, locked)
    /\ edited' = IF locked THEN NoValue ELSE IF raced THEN Kept ELSE edited
    /\ raced' = FALSE
    /\ up' = TRUE
    /\ UNCHANGED <<put, updates, faults>>

Crash ==
    /\ up
    /\ up' = FALSE /\ put' = [h \in Handler |-> Idle]
    /\ UNCHANGED <<cur, row, lock, boot, edited, raced, updates, faults, restarts>>

PutKeeps == UNCHANGED <<lock, boot, up, restarts>>

\* Mutated form: the copy in memory is not marked as edited.
ApplyUnmarked(h, v, limits) ==
    /\ up /\ ~lock /\ put[h] = Idle /\ updates < MaxUpdates
    /\ limits = Zeros \/ Valid(limits)
    /\ updates' = updates + 1
    /\ raced' = (raced \/ \E g \in Handler : put[g] # Idle)
    /\ cur' = [value |-> v, limits |-> Settled(limits), ui |-> FALSE]
    /\ put' = Accepted(h, [cur' EXCEPT !.ui = TRUE])
    /\ PutKeeps /\ UNCHANGED <<row, edited, faults>>

\* Update up to the assignment of m.cur: without thresholds a PUT gets the
\* defaults, with thresholds out of range it is refused.
Apply(h, v, limits) ==
    /\ up /\ ~lock /\ put[h] = Idle /\ updates < MaxUpdates
    /\ limits = Zeros \/ Valid(limits)
    /\ updates' = updates + 1
    /\ raced' = (raced \/ \E g \in Handler : put[g] # Idle)
    /\ cur' = [value |-> v, limits |-> Settled(limits), ui |-> TRUE]
    /\ put' = Accepted(h, cur')
    /\ PutKeeps /\ UNCHANGED <<row, edited, faults>>

\* persist encodes m.cur, whoever assigned it last.
Marshal(h) ==
    /\ put[h].pc = "marshal"
    /\ put' = [put EXCEPT ![h] = [pc |-> "write", edit |-> put[h].edit,
                               alone |-> put[h].alone, app |-> cur]]
    /\ PutKeeps /\ UNCHANGED <<cur, row, edited, raced, updates, faults>>

\* SetSetting; the answer to the request is its error.
Write(h, ok) ==
    /\ put[h].pc = "write"
    /\ ok \/ faults < MaxFaults
    /\ faults' = IF ok THEN faults ELSE faults + 1
    /\ row' = IF ok THEN put[h].app ELSE row
    /\ edited' = IF ok THEN put[h].edit ELSE edited
    /\ put' = [put EXCEPT ![h] = Idle]
    /\ raced' = (raced /\ ~(ok /\ put[h].alone))
    /\ PutKeeps /\ UNCHANGED <<cur, updates>>

Next ==
    \/ \E v \in Value, locked \in BOOLEAN : Start(v, locked)
    \/ Crash
    \/ \E h \in Handler :
         \/ \E v \in Value, limits \in Offered : Apply(h, v, limits)
         \/ Marshal(h)
         \/ \E ok \in BOOLEAN : Write(h, ok)

Spec == Init /\ [][Next]_mvars

-----------------------------------------------------------------------------
(***************************************************************************)
(* Properties.                                                             *)
(***************************************************************************)
Quiet == up /\ \A h \in Handler : put[h] = Idle

\* An edit that was answered with success, by a request that began alone, is
\* the one in force, also after crashes and restarts with another configuration,
\* until a locked boot replaces it (README.md:82).  A crash before the write
\* keeps the edit before.
EditsWin == Quiet /\ ~raced /\ faults = 0 /\ edited # NoValue => cur = edited

\* Scenes: a gateway, a router beyond it and two anchors, in good and bad minutes.
Minute(loss, med, jitter) == [loss |-> loss, med |-> med, jitter |-> jitter]
Good    == Minute(0, 0, 0)
Silent  == Minute(100, Nil, Nil)
Unknown == Minute(Nil, Nil, Nil)
Lossy   == Minute(50, 400, 90)
Hop(id, tier, down, minute) ==
    [id |-> id, tier |-> tier, sort |-> 0, enabled |-> TRUE, down |-> down, minute |-> minute]
Scene(lan, quiet, near, far) ==
    {Hop(1, 1, FALSE, lan), Hop(2, 2, quiet, Silent), Hop(3, 3, FALSE, near), Hop(4, 3, FALSE, far)}
Scenes ==
    {Scene(s[1], s[2], s[3], s[4]) :
        s \in {Good, Unknown} \X BOOLEAN \X {Good, Silent, Unknown, Lossy} \X {Good, Silent, Unknown, Lossy}}

\* "An upgrade must not turn a healthy network red" (settings.go:72-74): whatever
\* the row held and whatever requests arrive, the glance is fair under whatever
\* thresholds are in force, so it neither finds fault with a perfect network nor
\* anything but an outage in a dead one; and under CONFIG_LOCK it is the boot
\* configuration that is in force.
SafeInForce ==
    up => /\ \A targets \in Scenes : Fair(targets, cur.limits)
          /\ lock => cur = Booted(boot)
=============================================================================
