---------------------------- MODULE OutageReport ----------------------------
(***************************************************************************)
(* What the summary of a range says of outages (internal/api/history.go):  *)
(* the downtime of each target, and the "internet outages" during which    *)
(* every tier-3 target was down, computed by a sweep over the boundaries   *)
(* of the events the detector wrote.  The queries run whenever a client    *)
(* asks, so they are checked in every state of the detector.               *)
(***************************************************************************)
EXTENDS Detector, TLC, SequencesExt

\* Store.ListOutages: the events that overlap the range.
ListOutages(tier3, from, to) ==
    SelectSeq(outages, LAMBDA e : /\ e.target \in tier3
                                  /\ e.started < to
                                  /\ e.ended = Null \/ e.ended > from)

\* An event clipped to the range; one still open reaches to its end.
Start(e, from) == IF e.started > from THEN e.started ELSE from
End(e, to) == IF e.ended = Null \/ e.ended > to THEN to ELSE e.ended

clampedOutageMs(e, from, to) ==
    IF End(e, to) < Start(e, from) THEN 0 ELSE End(e, to) - Start(e, from)

\* The downtime of one target: the sum over its events.
OutageMs(t, from, to) ==
    FoldLeft(LAMBDA sum, e : sum + clampedOutageMs(e, from, to), 0, ListOutages({t}, from, to))

\* Mutated form: starts come before ends at the same instant.
StartsFirst(a, b) == a.ts < b.ts \/ (a.ts = b.ts /\ a.delta > b.delta)

\* "Process ends before starts at the same instant."
Before(a, b) == a.ts < b.ts \/ (a.ts = b.ts /\ a.delta < b.delta)

Boundaries(tier3, from, to) ==
    LET events == SelectSeq(ListOutages(tier3, from, to),
                            LAMBDA e : Start(e, from) < End(e, to))
        starts == [i \in DOMAIN events |-> [ts |-> Start(events[i], from), delta |-> 1]]
        ends   == [i \in DOMAIN events |-> [ts |-> End(events[i], to), delta |-> -1]]
    IN SortSeq(starts \o ends, LAMBDA a, b : Before(a, b))

\* One boundary of the sweep: it counts events that are under way and takes
\* as many as there are targets for all of the targets being down.
Sweep(n, acc, b) ==
    LET down == acc.down + b.delta
    IN IF ~acc.allDown /\ down = n
       THEN [acc EXCEPT !.down = down, !.allDown = TRUE, !.since = b.ts]
       ELSE IF acc.allDown /\ down < n
       THEN [acc EXCEPT !.down = down, !.allDown = FALSE, !.count = @ + 1,
                        !.total = @ + b.ts - acc.since]
       ELSE [acc EXCEPT !.down = down]

\* The internet outages of a range: how many, and how long in all.
internetOutageStats(tier3, from, to) ==
    LET n == Cardinality(tier3)
        swept == FoldLeft(LAMBDA acc, b : Sweep(n, acc, b),
                          [down |-> 0, allDown |-> FALSE, since |-> 0, count |-> 0, total |-> 0],
                          Boundaries(tier3, from, to))
    IN IF swept.allDown
       THEN [count |-> swept.count + 1, total |-> swept.total + to - swept.since]
       ELSE [count |-> swept.count, total |-> swept.total]

-----------------------------------------------------------------------------
\* The same by instants: t was down at x, everything was, an outage began at x.
DownAt(t, x) ==
    \E i \in DOMAIN outages :
        /\ outages[i].target = t /\ outages[i].started <= x
        /\ IsOpen(i) \/ x < outages[i].ended
AllDownAt(tier3, x) == \A t \in tier3 : DownAt(t, x)
BeginsAt(tier3, x, from) ==
    /\ AllDownAt(tier3, x)
    /\ \/ x = from \/ ~AllDownAt(tier3, x - 1)
       \/ \E i \in DOMAIN outages :
            outages[i].target \in tier3 /\ outages[i].started = x /\ outages[i].ended # x

\* "Intervals where every tier-3 target was simultaneously down"
\* (history.go:385-386): for every range that has passed, the downtimes
\* reported are the numbers of instants at which the target, or all of them,
\* were down.  The sweep counts events and not targets, and a target's own
\* downtime is a plain sum: both are right only because the detector never
\* leaves two overlapping events of one target, through crashes and deletions.
DowntimeExact ==
    faults = 0 =>
        \A to \in 2..now : \A from \in 1..(to - 1) :
            LET report == internetOutageStats(Target, from, to)
            IN /\ report.total = Cardinality({x \in from..(to - 1) : AllDownAt(Target, x)})
               /\ report.count = Cardinality({x \in from..(to - 1) : BeginsAt(Target, x, from)})
               /\ \A t \in Target :
                    OutageMs(t, from, to) = Cardinality({x \in from..(to - 1) : DownAt(t, x)})
=============================================================================
