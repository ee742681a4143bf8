----------------------------- MODULE LossBursts -----------------------------
(***************************************************************************)
(* The grouping of failed samples into loss bursts, and the median of the  *)
(* gaps between them, of handleLossBursts (internal/api/bursts.go), as a   *)
(* fold over the samples of one target.                                    *)
(***************************************************************************)
EXTENDS Integers, SequencesExt, Arranged

NoBurst == [startedAt |-> 0, endedAt |-> 0, lost |-> 0, gap |-> 0]
NoGap == 0   \* GapMs is nil: the first burst

\* The burst under way with one failure more, or the one it begins.
Lengthened(acc, s) ==
    IF acc.cur = NoBurst
    THEN [startedAt |-> s.ts, endedAt |-> s.ts, lost |-> 1,
          gap |-> IF acc.prevEnd > 0 THEN s.ts - acc.prevEnd ELSE NoGap]
    ELSE [acc.cur EXCEPT !.endedAt = s.ts, !.lost = acc.cur.lost + 1]

Ended(acc) ==
    IF acc.cur = NoBurst THEN acc
    ELSE [cur |-> NoBurst, prevEnd |-> acc.cur.endedAt, done |-> Append(acc.done, acc.cur)]

\* Mutated form: a sample taken during a speed test ends the burst.
BurstStepFlagged(acc, s) ==
    IF s.duringSpeedtest \/ s.success THEN Ended(acc)
    ELSE [acc EXCEPT !.cur = Lengthened(acc, s)]

\* One sample: a failure begins or prolongs a burst, a success ends it, and one
\* taken during a speed test is passed over.
BurstStep(acc, s) ==
    IF s.duringSpeedtest THEN acc
    ELSE IF s.success THEN Ended(acc)
    ELSE [acc EXCEPT !.cur = Lengthened(acc, s)]

\* The bursts in order; one still under way at the end of the range counts.
Bursts(samples) ==
    LET acc == FoldLeft(LAMBDA a, s : BurstStep(a, s),
                        [cur |-> NoBurst, prevEnd |-> 0, done |-> <<>>], samples)
    IN IF acc.cur = NoBurst THEN acc.done ELSE Append(acc.done, acc.cur)

\* The upper median of the gaps, 0 when there are fewer than two bursts.
MedianGap(bursts) ==
    LET gaps == Sorted([i \in 1..(Len(bursts) - 1) |-> bursts[i + 1].gap])
    IN IF Len(bursts) < 2 THEN 0 ELSE gaps[(Len(gaps) \div 2) + 1]
=============================================================================
