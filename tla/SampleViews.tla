----------------------------- MODULE SampleViews -----------------------------
(***************************************************************************)
(* What the program says of a target's samples, each by code of its own:   *)
(* the tracker's rolling window and its statistics (internal/live/live.go),*)
(* the glance's reduction of it (internal/api/glance.go), the buckets of   *)
(* the rollup tables (internal/store/rollup.go), and the summary of a range*)
(* from raw samples or from rollup rows (internal/api/history.go).  Times  *)
(* and round trips are integers; a percentage is kept as lost and sent.    *)
(***************************************************************************)
EXTENDS Integers, Sequences, SequencesExt, Arranged

CONSTANTS Window,   \* windowMs of the tracker
          Glance,   \* health.WindowSeconds
          Bucket,   \* the width of a rollup bucket
          Percent   \* the percentile of a bucket: 95

ASSUME ViewsAssumption ==
    /\ {Window, Glance, Bucket} \subseteq Nat \ {0}
    /\ Glance <= Window
    /\ Percent \in 1..100

NoRTT == -1

Counted(samples) == Only(samples, {i \in DOMAIN samples : ~samples[i].duringSpeedtest})
Failed(samples)  == Only(samples, {i \in DOMAIN samples : ~samples[i].success})
Good(samples)    == Only(samples, {i \in DOMAIN samples : samples[i].success})
RTTs(samples)    == LET good == Good(samples) IN [i \in DOMAIN good |-> good[i].rtt]
Total(values)    == FoldLeft(LAMBDA sum, v : sum + v, 0, values)
Distance(a, b)   == IF a < b THEN b - a ELSE a - b

-----------------------------------------------------------------------------
(* live.go *)

\* From the first sample that is not too old: a window is pruned at its front.
From(samples, cutoff) ==
    LET young == {i \in DOMAIN samples : samples[i].ts >= cutoff}
    IN IF young = {} THEN <<>>
       ELSE SubSeq(samples, CHOOSE i \in young : \A j \in young : i <= j, Len(samples))

\* Mutated form: the window is pruned before the sample is appended to it.
TrackerAddStale(window, s) ==
    Append(IF window = <<>> THEN window ELSE From(window, Last(window).ts - Window), s)

\* Tracker.Add.
TrackerAdd(window, s) == From(Append(window, s), s.ts - Window)

\* Tracker.Stats: flagged samples do not count, but the last round trip may be one's.
TrackerStats(window) ==
    [sent |-> Len(Counted(window)), lost |-> Len(Failed(Counted(window))),
     last |-> IF Good(window) = <<>> THEN NoRTT ELSE Last(Good(window)).rtt]

\* Tracker.SamplesSince, for the glance at the time now.
SamplesSince(window, now) == From(window, now - Glance)

-----------------------------------------------------------------------------
(* glance.go *)

\* windowStats: the upper median and the round trips in arrival order.
windowStats(samples) ==
    LET counted == Counted(samples)
        rtts    == RTTs(counted)
    IN [sent |-> Len(counted), lost |-> Len(Failed(counted)), rtts |-> rtts,
        med |-> IF rtts = <<>> THEN NoRTT ELSE Sorted(rtts)[(Len(rtts) \div 2) + 1]]

\* jitter: the mean distance of neighbours, as its sum and its count.
jitter(rtts) ==
    [sum |-> Total([i \in 1..(Len(rtts) - 1) |-> Distance(rtts[i], rtts[i + 1])]),
     n   |-> IF rtts = <<>> THEN 0 ELSE Len(rtts) - 1]

-----------------------------------------------------------------------------
(* rollup.go and aggregator.go *)

\* One pass over the samples of a bucket, as the loop of ComputeBucket does it.
BucketStep(acc, s) ==
    IF ~s.success THEN [acc EXCEPT !.lost = acc.lost + 1]
    ELSE LET first == acc.prev = NoRTT
         IN [lost |-> acc.lost, rtts |-> Append(acc.rtts, s.rtt), prev |-> s.rtt,
             jitterSum |-> acc.jitterSum + (IF first THEN 0 ELSE Distance(acc.prev, s.rtt)),
             jitterN |-> acc.jitterN + (IF first THEN 0 ELSE 1)]

\* ComputeBucket, with the sums its averages are taken of.
ComputeBucket(samples) ==
    LET acc == FoldLeft(LAMBDA a, s : BucketStep(a, s),
                        [lost |-> 0, rtts |-> <<>>, prev |-> NoRTT, jitterSum |-> 0, jitterN |-> 0], samples)
        n   == Len(acc.rtts)
    IN [sent |-> Len(samples), lost |-> acc.lost,
        avg  |-> IF n = 0 THEN NoRTT ELSE Total(acc.rtts) \div n,
        p95  |-> IF n = 0 THEN NoRTT ELSE Sorted(acc.rtts)[(Percent * n + 99) \div 100],
        jitter |-> [sum |-> acc.jitterSum, n |-> acc.jitterN]]

BucketOf(s) == s.ts - (s.ts % Bucket)
Rows(samples) ==
    {[ts |-> b, stats |-> ComputeBucket(Only(samples, {i \in DOMAIN samples : BucketOf(samples[i]) = b}))] :
        b \in {BucketOf(samples[i]) : i \in DOMAIN samples}}

\* Mutated form: samples taken during a speed test are rolled up as well.
RollupFlagged(samples) == Rows(samples)

\* The rows rollupTarget writes for some samples: one per bucket with any that
\* count.
Rollup(samples) == Rows(Counted(samples))

-----------------------------------------------------------------------------
(* history.go *)

\* handleSummary on raw samples.
SummaryOfSamples(samples) ==
    LET counted == Counted(samples)
        rtts    == RTTs(counted)
    IN [sent |-> Len(counted), lost |-> Len(Failed(counted)),
        avg |-> IF rtts = <<>> THEN NoRTT ELSE Total(rtts) \div Len(rtts)]

\* handleSummary on rollup rows: averages weighted by the samples they are of.
SummaryOfRows(rows) ==
    LET sent == SumFunction([r \in rows |-> r.stats.sent])
        lost == SumFunction([r \in rows |-> r.stats.lost])
        sum  == SumFunction([r \in rows |-> r.stats.avg * (r.stats.sent - r.stats.lost)])
    IN [sent |-> sent, lost |-> lost,
        avg |-> IF sent = lost THEN NoRTT ELSE sum \div (sent - lost)]
=============================================================================
