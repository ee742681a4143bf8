--------------------------- MODULE MachineHistory ---------------------------
(***************************************************************************)
(* One target's samples, an arbitrary sequence of them, as every part of   *)
(* the program that condenses them sees them: the outage machine, which    *)
(* keeps counters, the tracker, which keeps a window, the loss bursts, the *)
(* glance and the summaries.  Each is held against a definition that looks *)
(* at the whole sequence.  A sample's ts is its position in the sequence.  *)
(***************************************************************************)
EXTENDS OutageMachine, Sequences, FiniteSets, LossBursts, SampleViews

CONSTANTS RTT,         \* round trips a probe may take
          LoadedRTT,   \* the round trip during a speed test
          MaxSamples   \* bound: length of the sequence

ASSUME HistoryAssumption == RTT \subseteq Nat /\ LoadedRTT \in Nat

VARIABLES hist,   \* the samples fed so far
          window, \* the tracker's window
          m,      \* the machine
          prev    \* the machine before the last sample

hvars == <<hist, window, m, prev>>

HInit ==
    /\ hist = <<>> /\ window = <<>>
    /\ m = NewMachine("unknown") /\ prev = NewMachine("unknown")

\* onSample: the tracker, then the detector.
HFeed(success, rtt, flagged) ==
    /\ Len(hist) < MaxSamples
    /\ LET s == [ts |-> Len(hist) + 1, success |-> success, rtt |-> rtt, duringSpeedtest |-> flagged]
       IN /\ hist' = Append(hist, s)
          /\ window' = TrackerAdd(window, s)
          /\ m' = MachineFed(m, s) /\ prev' = m

\* The bound on the sequence, not the program, ends a behaviour.
HDone == Len(hist) = MaxSamples /\ UNCHANGED hvars

HNext ==
    \/ \E flagged \in BOOLEAN : HFeed(FALSE, NoRTT, flagged)
    \/ \E rtt \in RTT : HFeed(TRUE, rtt, FALSE)
    \/ HFeed(TRUE, LoadedRTT, TRUE)
    \/ HDone

HSpec == HInit /\ [][HNext]_hvars

-----------------------------------------------------------------------------
CountedAt == {i \in DOMAIN hist : ~hist[i].duringSpeedtest}

\* The run of counted samples with one outcome that ends at i.
RunAt(i) ==
    {j \in CountedAt : j <= i /\ \A k \in CountedAt : j <= k /\ k <= i => hist[k].success = hist[i].success}
DownMarks == {i \in CountedAt : ~hist[i].success /\ Cardinality(RunAt(i)) >= FailN}
UpMarks   == {i \in CountedAt : hist[i].success /\ Cardinality(RunAt(i)) >= OkN}
SettlesUp == {i \in CountedAt : hist[i].success /\ \A j \in DownMarks : j > i}

\* The state is the one the last mark says; before any mark, one success is
\* enough to settle a new target.
VerdictByHistory ==
    LET last(S) == CHOOSE i \in S \union {0} : \A j \in S : j <= i
    IN IF last(DownMarks) > last(UpMarks \union SettlesUp) THEN "down"
       ELSE IF UpMarks \union SettlesUp # {} THEN "up" ELSE "unknown"

\* The machine's state is the verdict on the whole history: the counters of
\* Feed, never reset on a transition and blind to speed-test samples, lose
\* nothing (detector.go:63-111).
MatchesHistory == m.state = VerdictByHistory

\* A transition is dated at the first sample of the unbroken run of counted
\* samples that caused it, also when flagged samples lie inside the run.
DatedAtRunStart ==
    hist # <<>> =>
        LET first == CHOOSE i \in RunAt(Len(hist)) : \A j \in RunAt(Len(hist)) : i <= j
        IN /\ GoesDown(prev, m) => m.firstFailTS = first
           /\ GoesUp(prev, m) => m.firstOkTS = first

\* The loss bursts of the history (bursts.go:9-10): the maximal runs of counted
\* failures, each once and in order, with the distance to the burst before; the
\* median is one of the gaps, with no more than half of them beyond it on either
\* side; and a target is DOWN only if a burst has been long enough for it.
BurstsExact ==
    LET bursts == Bursts(hist)
        gaps   == 2..Len(bursts)
        median == MedianGap(bursts)
        runs   == {RunAt(i) : i \in {j \in CountedAt : ~hist[j].success}}
        whole  == {r \in runs : \A q \in runs : r \subseteq q => q = r}
    IN /\ Len(bursts) = Cardinality(whole)
       /\ \A k \in DOMAIN bursts :
            \E r \in whole : /\ bursts[k].startedAt \in r /\ bursts[k].endedAt \in r
                             /\ \A i \in r : bursts[k].startedAt <= i /\ i <= bursts[k].endedAt
                             /\ bursts[k].lost = Cardinality(r)
       /\ \A k \in gaps : bursts[k].gap = bursts[k].startedAt - bursts[k - 1].endedAt
                          /\ bursts[k].gap > 0
       /\ gaps # {} =>
            /\ \E k \in gaps : bursts[k].gap = median
            /\ 2 * Cardinality({k \in gaps : bursts[k].gap < median}) <= Cardinality(gaps)
            /\ 2 * Cardinality({k \in gaps : bursts[k].gap > median}) < Cardinality(gaps)
       /\ m.state = "down" => \E k \in DOMAIN bursts : bursts[k].lost >= FailN

\* The lower bounds of the ranges below, and the counted samples in one.
Since(from) == {i \in CountedAt : i >= from}
GoodSince(from) == {i \in Since(from) : hist[i].success}

\* Tracker and glance speak of exactly the last samples: the window has been
\* pruned step by step, but holds the last five minutes of the whole sequence
\* (live.go:28-54); its loss is that of the counted samples in it, its round trip
\* the last one measured; the glance's median is of the minute it asks for, a
\* value with no more than half of the others beyond it on either side.
WindowExact ==
    hist # <<>> =>
        LET now    == Len(hist)
            stats  == TrackerStats(window)
            glance == windowStats(SamplesSince(window, now))
            start  == now - Glance
            good   == GoodSince(start)
        IN /\ window = Only(hist, {i \in DOMAIN hist : hist[i].ts >= now - Window})
           /\ stats.sent = Cardinality(Since(now - Window))
           /\ stats.sent - stats.lost = Cardinality(GoodSince(now - Window))
           /\ IF stats.last = NoRTT THEN \A i \in DOMAIN window : ~window[i].success
              ELSE \E i \in DOMAIN hist : /\ hist[i].rtt = stats.last /\ i >= now - Window
                                          /\ \A j \in (i + 1)..now : ~hist[j].success
           /\ glance.sent = Cardinality(Since(start))
           /\ glance.sent - glance.lost = Cardinality(good)
           /\ IF good = {} THEN glance.med = NoRTT
              ELSE /\ \E i \in good : hist[i].rtt = glance.med
                   /\ 2 * Cardinality({i \in good : hist[i].rtt < glance.med}) <= Cardinality(good)
                   /\ 2 * Cardinality({i \in good : hist[i].rtt > glance.med}) < Cardinality(good)

\* The same range tells the same story at every resolution: the summary of the
\* rollup rows counts the samples and losses that the raw one counts, and its
\* average differs by less than the microsecond the rows were rounded to; the
\* percentile of a row is the least round trip that enough others do not exceed
\* (rollup.go:17-19); and over samples that all count the jitter of a row is that of the glance.
SummariesAgree ==
    LET rows == Rollup(hist)
        raw  == SummaryOfSamples(hist)
        long == SummaryOfRows(rows)
    IN /\ long.sent = raw.sent /\ long.lost = raw.lost
       /\ long.avg <= raw.avg /\ raw.avg <= long.avg + 1
       /\ \A r \in rows :
            LET good == {i \in GoodSince(r.ts) : i < r.ts + Bucket}
                atMost(v) == Cardinality({i \in good : hist[i].rtt <= v})
            IN IF good = {} THEN r.stats.p95 = NoRTT
               ELSE /\ \E i \in good : hist[i].rtt = r.stats.p95
                    /\ 100 * atMost(r.stats.p95) >= Percent * Cardinality(good)
                    /\ 100 * atMost(r.stats.p95 - 1) < Percent * Cardinality(good)
       /\ ComputeBucket(Counted(hist)).jitter = jitter(windowStats(hist).rtts)
=============================================================================
