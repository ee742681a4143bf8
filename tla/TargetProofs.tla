---------------------------- MODULE TargetProofs ----------------------------
(***************************************************************************)
(* Proofs about one target: the schedule of its ping loop for every        *)
(* interval and every delay, and for every sequence of panics, restarts and*)
(* cancellations; and, for every sequence of samples, the outage machine   *)
(* with every pair of thresholds, the tracker's window and the glance, and *)
(* the loss bursts.                                                        *)
(***************************************************************************)
EXTENDS SupervisedLoop, MachineHistory, FiniteSetTheorems, TLAPS

\* What makes the properties inductive: a ping is in progress, or over, only
\* once its deadline has passed, and the timer is set to the deadline.
ScheduleInv ==
    /\ TypeOK
    /\ OnGrid
    /\ SlotsAdvance
    /\ timer = next

\* Rounding up past "behind" by whole intervals: the first multiple beyond it.
LEMMA FirstMultipleBeyond ==
    ASSUME NEW behind \in Nat
    PROVE  /\ behind \div Interval \in Nat
           /\ behind < ((behind \div Interval) + 1) * Interval
           /\ (behind \div Interval) * Interval <= behind
BY IntervalAssumption, Z3

\* A multiple of the interval plus a multiple of it is one.
LEMMA GridKept ==
    ASSUME NEW a \in Nat, NEW b \in Nat
    PROVE  /\ a * Interval + b * Interval = (a + b) * Interval
           /\ a <= a * Interval
BY IntervalAssumption, Z3

\* The deadline Advance chooses: on the grid, ahead of the clock, and the next
\* slot in turn or the first one ahead.
LEMMA Advanced ==
    ASSUME NEW deadline \in Nat, NEW at \in Nat,
           \E slot \in 0..deadline : deadline = slot * Interval
    PROVE  /\ Advance(deadline, at) \in Nat
           /\ \E slot \in 0..Advance(deadline, at) : Advance(deadline, at) = slot * Interval
           /\ Advance(deadline, at) > at
           /\ Advance(deadline, at) > deadline
           /\ \/ Advance(deadline, at) - Interval <= at
              \/ Advance(deadline, at) = deadline + Interval
<1> DEFINE following == deadline + Interval
           behind == at - following
           new == Advance(deadline, at)
<1>1. Interval \in Nat /\ Interval > 0
  BY IntervalAssumption
<1>2. PICK slot \in 0..deadline : deadline = slot * Interval
  OBVIOUS
<1>3. slot \in Nat /\ following = (slot + 1) * Interval
  BY <1>1, <1>2, GridKept
<1>4. CASE behind < 0
  <2>1. new = following
    BY <1>4 DEF Advance
  <2>2. slot + 1 \in 0..new /\ new = (slot + 1) * Interval
    BY <1>1, <1>3, <2>1, GridKept
  <2> QED
    BY <1>1, <1>4, <2>1, <2>2
<1>5. CASE ~(behind < 0)
  <2> DEFINE missed == behind \div Interval
  <2>1. behind \in Nat
    BY <1>1, <1>5
  <2>2. missed \in Nat /\ behind < (missed + 1) * Interval /\ missed * Interval <= behind
    BY <2>1, FirstMultipleBeyond
  <2>3. new = following + (missed + 1) * Interval
    BY <1>5 DEF Advance
  <2>4. /\ (missed + 1) * Interval = missed * Interval + Interval
        /\ missed * Interval \in Nat
    BY <1>1, <2>2, GridKept
  <2>5. new = (slot + 1 + (missed + 1)) * Interval
    <3>1. slot + 1 \in Nat /\ missed + 1 \in Nat
      BY <1>3, <2>2
    <3> QED
      BY <1>3, <2>3, <3>1, GridKept
  <2>6. slot + 1 + (missed + 1) \in 0..new
    <3>1. slot + 1 + (missed + 1) \in Nat
      BY <1>3, <2>2
    <3>2. slot + 1 + (missed + 1) <= new
      BY <2>5, <3>1, GridKept
    <3> QED
      BY <1>1, <2>3, <2>4, <3>1, <3>2
  <2>7. new \in Nat /\ new > at /\ new > deadline /\ new - Interval <= at
    BY <1>1, <1>5, <2>1, <2>2, <2>3, <2>4
  <2> QED
    BY <2>5, <2>6, <2>7
<1> QED
  BY <1>4, <1>5

\* The loop starts on the grid.
LEMMA ScheduleInit == Init => ScheduleInv
<1> SUFFICES ASSUME Init PROVE ScheduleInv
  OBVIOUS
<1>1. 0 \in 0..next /\ next = 0 * Interval
  BY IntervalAssumption DEF Init
<1> QED
  BY <1>1 DEF Init, ScheduleInv, TypeOK, OnGrid, SlotsAdvance, NoSlot

\* Neither the timer, nor a ping, nor the reset leaves it.
LEMMA ScheduleStep ==
    ScheduleInv /\ [Next]_pvars =>
        /\ ScheduleInv'
        /\ [next' # next => /\ next' > now
                            /\ next' - Interval <= now \/ next' = next + Interval]_pvars
<1> SUFFICES ASSUME ScheduleInv, [Next]_pvars
             PROVE  /\ ScheduleInv'
                    /\ next' # next => /\ next' > now
                                       /\ next' - Interval <= now \/ next' = next + Interval
  OBVIOUS
<1> USE DEF ScheduleInv, TypeOK, OnGrid, SlotsAdvance, NoSlot
<1>1. ASSUME NEW late \in 0..MaxDelay, TimerFires(late)
      PROVE  ScheduleInv' /\ next' = next
  <2>1. late \in Nat
    BY <1>1, IntervalAssumption
  <2>2. now' \in Nat /\ now' >= next
    BY <1>1, <2>1 DEF TimerFires
  <2> QED
    BY <1>1, <2>2 DEF TimerFires
<1>2. ASSUME NEW took \in 0..MaxDelay, PingReturns(took)
      PROVE  ScheduleInv' /\ next' = next
  <2>1. took \in Nat
    BY <1>2, IntervalAssumption
  <2> QED
    BY <1>2, <2>1 DEF PingReturns
<1>3. ASSUME NEW late \in 0..MaxDelay, ResetTimer(late)
      PROVE  /\ ScheduleInv'
             /\ next' > now
             /\ next' - Interval <= now \/ next' = next + Interval
  <2>1. late \in Nat
    BY <1>3, IntervalAssumption
  <2>2. /\ Advance(next, now) \in Nat
        /\ \E slot \in 0..Advance(next, now) : Advance(next, now) = slot * Interval
        /\ Advance(next, now) > now
        /\ Advance(next, now) > next
        /\ Advance(next, now) - Interval <= now \/ Advance(next, now) = next + Interval
    BY Advanced
  <2>3. /\ next' = Advance(next, now) /\ timer' = next' /\ lastSlot' = next
        /\ now' = now + late /\ pc' = "timer"
    BY <1>3 DEF ResetTimer
  <2> QED
    BY <2>1, <2>2, <2>3
<1>4. CASE UNCHANGED pvars
  BY <1>4 DEF pvars
<1> QED
  BY <1>1, <1>2, <1>3, <1>4 DEF Next

\* The loop is drift-free: every deadline is a whole number of intervals after
\* the start, whatever the pings and the timer took (pinger.go:111-164).
THEOREM DriftFree == Spec => []OnGrid
<1>1. ScheduleInv => OnGrid
  BY DEF ScheduleInv
<1> QED
  BY <1>1, ScheduleInit, ScheduleStep, PTL DEF Spec

\* A loop that fell behind skips the slots it missed and no other
\* (pinger.go:153-162).
THEOREM MissedSlotsSkipped == Spec => FirstSlotAhead
<1> QED
  BY ScheduleInit, ScheduleStep, PTL DEF Spec, FirstSlotAhead

\* Slots are used in order, each at most once, and never ahead of time.
THEOREM SlotsAreUsedOnce == Spec => []SlotsAdvance
<1>1. ScheduleInv => SlotsAdvance
  BY DEF ScheduleInv
<1> QED
  BY <1>1, ScheduleInit, ScheduleStep, PTL DEF Spec

-----------------------------------------------------------------------------
\* A step of the supervised loop is one of the schedule or starts it anew.
LEMMA SupervisedStep == ScheduleInv /\ [SNext]_svars => ScheduleInv'
<1> SUFFICES ASSUME ScheduleInv, [SNext]_svars PROVE ScheduleInv'
  OBVIOUS
<1>1. CASE [Next]_pvars
  BY <1>1, ScheduleStep
<1>2. ASSUME NEW delay \in 0..MaxDelay, RunFires(delay) \/ RunPings(delay) \/ RunResets(delay)
      PROVE  [Next]_pvars
  BY <1>2 DEF RunFires, RunPings, RunResets, Next
<1>3. CASE Restart
  <2>1. pc' = "timer" /\ now' = 0 /\ next' = 0 /\ timer' = 0 /\ lastSlot' = NoSlot
    BY <1>3 DEF Restart
  <2>2. 0 \in 0..next' /\ next' = 0 * Interval
    BY <2>1, IntervalAssumption
  <2> QED
    BY <2>1, <2>2 DEF ScheduleInv, TypeOK, OnGrid, SlotsAdvance, NoSlot
<1>4. CASE RunDone \/ CancelledInBackoff \/ Cancel \/ UNCHANGED svars
  <2>1. UNCHANGED pvars
    BY <1>4 DEF RunDone, CancelledInBackoff, Cancel, svars
  <2> QED
    BY <2>1, <1>1
<1>5. ASSUME NEW took \in 0..MaxDelay, RunPanics(took)
      PROVE  [Next]_pvars
  BY <1>5 DEF RunPanics
<1> QED
  BY <1>1, <1>2, <1>3, <1>4, <1>5 DEF SNext, GoOn

\* However often the loop panics and is started again, and whenever it is
\* cancelled, each of its runs is drift-free (supervise.go:32-57, Go).
THEOREM SupervisedDriftFree == SSafe => []OnGrid
<1>1. ScheduleInv => OnGrid
  BY DEF ScheduleInv
<1>2. SInit => ScheduleInv
  BY ScheduleInit DEF SInit
<1> QED
  BY <1>1, <1>2, SupervisedStep, PTL DEF SSafe
-----------------------------------------------------------------------------
(* The wait between two runs. *)

\* A set of n elements has 2^n subsets.
LEMMA SubsetsOfInterval ==
    ASSUME NEW n \in Nat
    PROVE  IsFiniteSet(SUBSET (1..n)) /\ Cardinality(SUBSET (1..n)) = 2^n
<1>1. IsFiniteSet(1..n) /\ Cardinality(1..n) = n
  BY FS_Interval
<1> QED
  BY <1>1, FS_SUBSET, Zenon

\* One element more doubles them: the subsets without it, and as many with it.
LEMMA PowerDoubles ==
    ASSUME NEW n \in Nat
    PROVE  2^n \in Nat /\ 2^n > 0 /\ 2^(n + 1) = 2 * 2^n
<1> DEFINE S == SUBSET (1..n)
           T == SUBSET (1..(n + 1))
           U == {R \in T : n + 1 \in R}
           with == [R \in S |-> R \union {n + 1}]
<1>1. /\ IsFiniteSet(S) /\ Cardinality(S) = 2^n
      /\ IsFiniteSet(T) /\ Cardinality(T) = 2^(n + 1)
  <2>1. n + 1 \in Nat
    OBVIOUS
  <2> QED
    BY <2>1, SubsetsOfInterval
<1>2. T = S \union U /\ S \cap U = {}
  <2>1. 1..(n + 1) = 1..n \union {n + 1} /\ n + 1 \notin 1..n
    OBVIOUS
  <2> QED
    BY <2>1
<1>3. with \in Bijection(S, U)
  <2>1. 1..(n + 1) = 1..n \union {n + 1} /\ n + 1 \notin 1..n
    OBVIOUS
  <2>2. with \in [S -> U]
    BY <2>1
  <2>3. \A R, Q \in S : with[R] = with[Q] => R = Q
    BY <2>1
  <2>4. ASSUME NEW R \in U PROVE \E Q \in S : with[Q] = R
    <3>1. R \ {n + 1} \in S /\ (R \ {n + 1}) \union {n + 1} = R
      BY <2>1
    <3> QED
      BY <3>1
  <2> HIDE DEF with, S, U
  <2> QED
    BY <2>2, <2>3, <2>4 DEF Bijection, Injection, Surjection, IsInjective
<1>4. IsFiniteSet(U) /\ Cardinality(U) = Cardinality(S)
  <2> HIDE DEF S, U, with
  <2> QED
    BY <1>1, <1>3, FS_Bijection DEF ExistsBijection
<1>5. Cardinality(T) = Cardinality(S) + Cardinality(U)
  <2> HIDE DEF S, U, T
  <2> QED
    BY <1>1, <1>2, <1>4, FS_Union, FS_EmptySet
<1>6. Cardinality(S) \in Nat /\ Cardinality(S) > 0
  <2>1. S # {}
    OBVIOUS
  <2> HIDE DEF S
  <2> QED
    BY <1>1, <2>1, FS_CardinalityType, FS_EmptySet
<1> HIDE DEF S, T, U
<1> QED
  BY <1>1, <1>4, <1>5, <1>6

LEMMA PowerZero == 2^0 = 1
<1>1. SUBSET (1..0) = {{}}
  OBVIOUS
<1> QED
  BY <1>1, SubsetsOfInterval, FS_Singleton

\* A panic lengthens the streak by one, or begins another if the run was healthy.
LEMMA StreakAfterPanic ==
    ASSUME exits \in Seq(BOOLEAN), NEW healthy \in BOOLEAN, exits' = Append(exits, healthy),
           IsFiniteSet(Streak(Len(exits)))
    PROVE  /\ exits' \in Seq(BOOLEAN) /\ Len(exits') = Len(exits) + 1
           /\ IsFiniteSet(Streak(Len(exits))')
           /\ Cardinality(Streak(Len(exits))') =
                IF healthy THEN 1 ELSE Cardinality(Streak(Len(exits))) + 1
<1> DEFINE n == Len(exits)
<1>1. /\ n \in Nat /\ exits' \in Seq(BOOLEAN) /\ Len(exits') = n + 1 /\ exits'[n + 1] = healthy
      /\ \A i \in 1..n : exits'[i] = exits[i]
  OBVIOUS
<1>2. Streak(Len(exits))' = {i \in 1..(n + 1) : \A j \in (i + 1)..(n + 1) : ~exits'[j]}
  BY <1>1 DEF Streak
<1>3. CASE healthy
  <2>1. \A i \in 1..(n + 1) : i # n + 1 => n + 1 \in (i + 1)..(n + 1)
    BY <1>1
  <2>2. Streak(Len(exits))' = {n + 1}
    BY <1>1, <1>2, <1>3, <2>1
  <2> QED
    BY <1>1, <1>3, <2>2, FS_Singleton
<1>4. CASE ~healthy
  <2>1. Streak(Len(exits))' = Streak(Len(exits)) \union {n + 1}
    <3>1. \A i \in 1..n : (i + 1)..(n + 1) = ((i + 1)..n) \union {n + 1}
      BY <1>1
    <3>2. \A i \in 1..n : i \in Streak(Len(exits))' <=> i \in Streak(Len(exits))
      BY <1>1, <1>2, <1>4, <3>1 DEF Streak
    <3>3. n + 1 \in Streak(Len(exits))'
      BY <1>1, <1>2
    <3>4. Streak(Len(exits))' \subseteq 1..(n + 1) /\ Streak(Len(exits)) \subseteq 1..n
      BY <1>2 DEF Streak
    <3>5. 1..(n + 1) = 1..n \union {n + 1}
      BY <1>1
    <3> QED
      BY <3>2, <3>3, <3>4, <3>5
  <2>2. n + 1 \notin Streak(Len(exits))
    BY <1>1 DEF Streak
  <2> QED
    BY <1>1, <1>4, <2>1, <2>2, FS_AddElement
<1> QED
  BY <1>3, <1>4

\* What makes BackoffExact inductive: while a run is under way the next wait is
\* already the doubled one.
BackoffInv ==
    LET panics == Cardinality(Streak(Len(exits)))
    IN /\ exits \in Seq(BOOLEAN)
       /\ sup \in {"running", "backoff", "ended"}
       /\ IsFiniteSet(Streak(Len(exits)))
       /\ sup = "running" => backoff = LesserOf(Base * 2^panics, MaxBackoff)
       /\ sup = "backoff" =>
            panics >= 1 /\ backoff = LesserOf(Base * 2^(panics - 1), MaxBackoff)

\* Doubling the capped wait caps the doubled one.
LEMMA CappedDoubles ==
    ASSUME NEW n \in Nat
    PROVE  LesserOf(2 * LesserOf(Base * 2^n, MaxBackoff), MaxBackoff)
             = LesserOf(Base * 2^(n + 1), MaxBackoff)
<1>1. PICK power \in Nat : power = 2^n /\ 2^(n + 1) = 2 * power
  BY PowerDoubles
<1>2. PICK wait \in Nat : wait = Base * power /\ Base * (2 * power) = 2 * wait
  BY BackoffAssumption, Z3
<1>3. LesserOf(2 * LesserOf(wait, MaxBackoff), MaxBackoff) = LesserOf(2 * wait, MaxBackoff)
  BY BackoffAssumption DEF LesserOf
<1> QED
  BY <1>1, <1>2, <1>3

LEMMA BackoffInit == SInit => BackoffInv
<1> SUFFICES ASSUME SInit PROVE BackoffInv
  OBVIOUS
<1>1. exits = <<>> /\ Len(exits) = 0 /\ exits \in Seq(BOOLEAN)
  BY DEF SInit
<1>2. Streak(Len(exits)) = {}
  BY <1>1 DEF Streak
<1>3. IsFiniteSet(Streak(Len(exits))) /\ Cardinality(Streak(Len(exits))) = 0
  BY <1>2, FS_EmptySet
<1>4. LesserOf(Base * 2^0, MaxBackoff) = Base
  BY PowerZero, BackoffAssumption DEF LesserOf
<1> QED
  BY <1>1, <1>3, <1>4 DEF BackoffInv, SInit

LEMMA BackoffStep == BackoffInv /\ [SNext]_svars => BackoffInv'
<1> SUFFICES ASSUME BackoffInv, [SNext]_svars PROVE BackoffInv'
  OBVIOUS
<1>1. PICK panics \in Nat : panics = Cardinality(Streak(Len(exits)))
  BY FS_CardinalityType DEF BackoffInv
<1>2. /\ exits \in Seq(BOOLEAN)
      /\ IsFiniteSet(Streak(Len(exits)))
      /\ sup = "running" => backoff = LesserOf(Base * 2^panics, MaxBackoff)
      /\ sup = "backoff" => panics >= 1 /\ backoff = LesserOf(Base * 2^(panics - 1), MaxBackoff)
      /\ sup \in {"running", "backoff", "ended"}
  BY <1>1 DEF BackoffInv
<1>3. ASSUME UNCHANGED <<backoff, exits>>, sup' = sup \/ sup' = "ended"
      PROVE  BackoffInv'
  <2>1. Streak(Len(exits))' = Streak(Len(exits))
    BY <1>3 DEF Streak
  <2> QED
    BY <1>1, <1>2, <1>3, <2>1 DEF BackoffInv
<1>4. ASSUME NEW took \in 0..MaxDelay, RunPanics(took)
      PROVE  BackoffInv'
  <2>1. CASE cancelled
    BY <1>3, <1>4, <2>1 DEF RunPanics
  <2>2. CASE ~cancelled
    <3>1. PICK healthy \in BOOLEAN : healthy <=> (now + took > Healthy)
      BY Zenon
    <3>2. /\ sup = "running" /\ sup' = "backoff"
          /\ exits' = Append(exits, healthy)
          /\ backoff' = IF healthy THEN Base ELSE backoff
      BY <1>4, <2>2, <3>1 DEF RunPanics
    <3>3. /\ exits' \in Seq(BOOLEAN)
          /\ IsFiniteSet(Streak(Len(exits))')
          /\ Cardinality(Streak(Len(exits))') = IF healthy THEN 1 ELSE panics + 1
      BY <1>1, <1>2, <3>2, StreakAfterPanic
    <3>4. CASE healthy
      <4>1. LesserOf(Base * 2^(1 - 1), MaxBackoff) = Base
        BY PowerZero, BackoffAssumption DEF LesserOf
      <4> QED
        BY <3>2, <3>3, <3>4, <4>1 DEF BackoffInv
    <3>5. CASE ~healthy
      <4>1. panics + 1 >= 1 /\ (panics + 1) - 1 = panics
        OBVIOUS
      <4>2. backoff' = LesserOf(Base * 2^((panics + 1) - 1), MaxBackoff)
        BY <1>2, <3>2, <3>5, <4>1
      <4> QED
        BY <3>2, <3>3, <3>5, <4>1, <4>2 DEF BackoffInv
    <3> QED
      BY <3>4, <3>5
  <2> QED
    BY <2>1, <2>2
<1>5. CASE Restart
  <2>1. /\ sup = "backoff" /\ sup' = "running" /\ exits' = exits
        /\ backoff' = LesserOf(2 * backoff, MaxBackoff)
    BY <1>5 DEF Restart
  <2>2. panics - 1 \in Nat /\ (panics - 1) + 1 = panics
    BY <1>2, <2>1
  <2>3. backoff' = LesserOf(Base * 2^panics, MaxBackoff)
    BY <1>2, <2>1, <2>2, CappedDoubles
  <2>4. Streak(Len(exits))' = Streak(Len(exits))
    BY <2>1 DEF Streak
  <2> QED
    BY <1>1, <1>2, <2>1, <2>3, <2>4 DEF BackoffInv
<1>6. ASSUME NEW delay \in 0..MaxDelay, RunFires(delay) \/ RunPings(delay) \/ RunResets(delay)
      PROVE  BackoffInv'
  <2>1. UNCHANGED <<backoff, exits>> /\ (sup' = sup \/ sup' = "ended")
    BY <1>6 DEF RunFires, RunPings, RunResets, Keeps
  <2> QED
    BY <1>3, <2>1
<1>7. CASE RunDone \/ CancelledInBackoff \/ Cancel \/ UNCHANGED svars
  <2>1. UNCHANGED <<backoff, exits>> /\ (sup' = sup \/ sup' = "ended")
    BY <1>7 DEF RunDone, CancelledInBackoff, Cancel, Keeps, svars
  <2> QED
    BY <1>3, <2>1
<1> QED
  BY <1>4, <1>5, <1>6, <1>7 DEF SNext, GoOn

\* The wait doubles with every panic of a streak, from the first wait to the
\* cap, and starts over after a healthy run (supervise.go:28-57, Go).
THEOREM BackoffDoubles == SSafe => []BackoffExact
<1>1. BackoffInv => BackoffExact
  BY DEF BackoffInv, BackoffExact
<1> QED
  BY <1>1, BackoffInit, BackoffStep, PTL DEF SSafe

-----------------------------------------------------------------------------
(***************************************************************************)
(* Induction over numbers and sequences, and what a fold comes to step by  *)
(* step: a pass over the sequence.                                         *)
(***************************************************************************)

\* A set of numbers has a least one.
LEMMA LeastNat ==
    ASSUME NEW S, S \subseteq Nat, S # {}
    PROVE  \E i \in S : \A j \in S : i <= j
<1>1. IsWellFoundedOn(OpToRel(<, Nat), Nat)
  BY NatLessThanWellFounded
<1>2. PICK x \in S : \A y \in S : ~(<<y, x>> \in OpToRel(<, Nat))
  BY <1>1, WFMin
<1>3. \A y \in S : ~(y < x)
  BY <1>2 DEF OpToRel
<1> QED
  BY <1>3

\* Induction, over a set rather than a formula.
LEMMA InductiveSet ==
    ASSUME NEW S, 0 \in S, \A k \in Nat : k \in S => k + 1 \in S
    PROVE  Nat \subseteq S
<1> SUFFICES ASSUME Nat \ S # {} PROVE FALSE
  OBVIOUS
<1> DEFINE T == Nat \ S
<1>1. PICK k \in T : \A j \in T : k <= j
  <2> T \subseteq Nat /\ T # {}
    OBVIOUS
  <2> HIDE DEF T
  <2> QED
    BY LeastNat
<1>2. k \in Nat /\ k # 0 /\ k - 1 \in Nat /\ k - 1 \in S
  BY <1>1
<1> QED
  BY <1>1, <1>2

\* The same over sequences that grow at their end.
LEMMA InductiveSequences ==
    ASSUME NEW E, NEW P, <<>> \in P,
           \A s \in Seq(E) : s \in P => \A x \in E : Append(s, x) \in P
    PROVE  Seq(E) \subseteq P
<1> DEFINE S == {k \in Nat : \A s \in Seq(E) : Len(s) = k => s \in P}
<1>1. 0 \in S
  OBVIOUS
<1>2. ASSUME NEW k \in Nat, k \in S PROVE k + 1 \in S
  <2> SUFFICES ASSUME NEW s \in Seq(E), Len(s) = k + 1 PROVE s \in P
    OBVIOUS
  <2> DEFINE front == SubSeq(s, 1, k)
  <2>1. front \in Seq(E) /\ Len(front) = k /\ s[k + 1] \in E
    OBVIOUS
  <2>2. s = Append(front, s[k + 1])
    OBVIOUS
  <2>3. front \in P
    BY <1>2, <2>1
  <2> QED
    BY <2>1, <2>2, <2>3
<1>3. Nat \subseteq S
  <2> HIDE DEF S
  <2> QED
    BY <1>1, <1>2, InductiveSet
<1> QED
  BY <1>3

\* The greatest of some positions.
LEMMA MaxOf ==
    ASSUME NEW n \in Nat, NEW T \in SUBSET (1..n), T # {}
    PROVE  Max(T) \in T /\ \A i \in T : i <= Max(T)
<1> DEFINE U == {n - i : i \in T}
<1>0. \A i \in T : i \in Nat /\ n - i \in Nat
  OBVIOUS
<1>1. U \subseteq Nat /\ U # {}
  BY <1>0
<1>2. PICK u \in U : \A v \in U : u <= v
  <2> HIDE DEF U
  <2> QED
    BY <1>1, LeastNat
<1>3. PICK j \in T : u = n - j
  OBVIOUS
<1>4. \A i \in T : n - j <= n - i
  BY <1>2, <1>3
<1>5. \A i \in T : j >= i
  BY <1>0, <1>4
<1>6. Max(T) \in T /\ \A i \in T : Max(T) >= i
  BY <1>5 DEF Max
<1> QED
  BY <1>6

\* acc holds what a pass over a sequence from the left has come to after each entry.
IsPass(acc, A, step, base, seq) ==
    /\ acc \in [0..Len(seq) -> A]
    /\ acc[0] = base
    /\ \A k \in 1..Len(seq) : acc[k] = step[<<acc[k - 1], seq[k]>>]

\* The same along the subsets of the positions, as the library's folds go.
IsFold(F, A, step, base, seq) ==
    /\ F \in [SUBSET (1..Len(seq)) -> A]
    /\ \A T \in SUBSET (1..Len(seq)) :
         F[T] = IF T = {} THEN base ELSE step[<<F[T \ {Max(T)}], seq[Max(T)]>>]

\* There is such a fold: the library's is one.
LEMMA FoldExists ==
    ASSUME NEW A, NEW E, NEW base \in A, NEW step \in [A \X E -> A], NEW s \in Seq(E)
    PROVE  \E F : IsFold(F, A, step, base, s)
<1> DEFINE Has(k, F) == \A T \in SUBSET (1..k) :
             F[T] = IF T = {} THEN base ELSE step[<<F[T \ {Max(T)}], s[Max(T)]>>]
           S == {k \in Nat : k <= Len(s) => \E F \in [SUBSET (1..k) -> A] : Has(k, F)}
<1>0. ASSUME NEW k \in Nat PROVE k \in S <=> (k <= Len(s) => \E F \in [SUBSET (1..k) -> A] : Has(k, F))
  <2> HIDE DEF Has
  <2> QED OBVIOUS
<1>1. 0 \in S
  <2> DEFINE F == [T \in SUBSET (1..0) |-> base]
  <2>1. F \in [SUBSET (1..0) -> A] /\ Has(0, F)
    OBVIOUS
  <2> QED
    BY <2>1
<1>2. ASSUME NEW k \in Nat, k \in S PROVE k + 1 \in S
  <2> SUFFICES ASSUME k + 1 <= Len(s)
               PROVE  \E G \in [SUBSET (1..(k + 1)) -> A] : Has(k + 1, G)
    <3> k + 1 \in Nat
      OBVIOUS
    <3> HIDE DEF Has, S
    <3> QED
      BY <1>0
  <2>1. PICK F \in [SUBSET (1..k) -> A] : Has(k, F)
    <3>1. k <= Len(s)
      OBVIOUS
    <3> HIDE DEF Has, S
    <3> QED
      BY <1>0, <1>2, <3>1
  <2> DEFINE G == [T \in SUBSET (1..(k + 1)) |->
                     IF k + 1 \in T THEN step[<<F[T \ {k + 1}], s[k + 1]>>] ELSE F[T]]
  <2>2. s[k + 1] \in E
    OBVIOUS
  <2>3. \A T \in SUBSET (1..(k + 1)) : T \ {k + 1} \in SUBSET (1..k)
    OBVIOUS
  <2>4. ASSUME NEW T \in SUBSET (1..(k + 1))
        PROVE  /\ G[T] \in A
               /\ G[T] = IF T = {} THEN base ELSE step[<<G[T \ {Max(T)}], s[Max(T)]>>]
    <3>1. CASE k + 1 \in T
      <4>1. Max(T) = k + 1
        <5>1. k + 1 \in Nat /\ T # {}
          BY <3>1
        <5>2. Max(T) \in T /\ \A i \in T : i <= Max(T)
          BY <5>1, MaxOf
        <5>3. Max(T) \in 1..(k + 1) /\ k + 1 <= Max(T)
          BY <3>1, <5>2
        <5> QED
          BY <5>3
      <4>2. G[T] = step[<<F[T \ {k + 1}], s[k + 1]>>] /\ G[T \ {k + 1}] = F[T \ {k + 1}]
        BY <3>1
      <4>3. F[T \ {k + 1}] \in A
        BY <2>1, <2>3
      <4>4. G[T] \in A
        BY <2>2, <4>2, <4>3
      <4> HIDE DEF G
      <4> QED
        BY <3>1, <4>1, <4>2, <4>4
    <3>2. CASE k + 1 \notin T
      <4>1. T \in SUBSET (1..k) /\ T \ {Max(T)} \in SUBSET (1..k) /\ k + 1 \notin T \ {Max(T)}
        BY <2>3, <3>2
      <4>2. T \ {Max(T)} \in SUBSET (1..(k + 1))
        OBVIOUS
      <4>3. G[T] = F[T] /\ G[T \ {Max(T)}] = F[T \ {Max(T)}]
        BY <3>2, <4>1, <4>2
      <4> HIDE DEF G
      <4> QED
        BY <2>1, <4>1, <4>3
    <3> QED
      BY <3>1, <3>2
  <2>5. G \in [SUBSET (1..(k + 1)) -> A]
    <3>1. DOMAIN G = SUBSET (1..(k + 1)) /\ G = [T \in DOMAIN G |-> G[T]]
      OBVIOUS
    <3> HIDE DEF G
    <3> QED
      BY <2>4, <3>1
  <2>6. Has(k + 1, G)
    <3> HIDE DEF G
    <3> QED
      BY <2>4
  <2> HIDE DEF G, Has
  <2> QED
    BY <2>5, <2>6
<1>3. Len(s) \in Nat /\ Nat \subseteq S
  <2> HIDE DEF S
  <2> QED
    BY <1>1, <1>2, InductiveSet
<1>4. Len(s) \in S
  BY <1>3
<1>5. PICK F \in [SUBSET (1..Len(s)) -> A] : Has(Len(s), F)
  <2>1. Len(s) <= Len(s)
    BY <1>3
  <2> HIDE DEF Has, S
  <2>2. Len(s) <= Len(s) => \E F \in [SUBSET (1..Len(s)) -> A] : Has(Len(s), F)
    BY ONLY <1>0, <1>3, <1>4, Zenon
  <2> QED
    BY <2>1, <2>2
<1>6. IsFold(F, A, step, base, s)
  BY <1>5 DEF IsFold
<1> QED
  BY <1>6

\* What is left to show of a fold when its values are not known yet.
Folds(F, A, step, base, seq) ==
    \A T \in SUBSET (1..Len(seq)) :
      IF T = {} THEN F[T] = base
      ELSE F[T \ {Max(T)}] \in A => F[T] = step[<<F[T \ {Max(T)}], seq[Max(T)]>>]

\* Its values along the initial segments are a pass.
LEMMA PassIs ==
    ASSUME NEW A, NEW E, NEW base \in A, NEW step \in [A \X E -> A], NEW s \in Seq(E), NEW F,
           Folds(F, A, step, base, s)
    PROVE  IsPass([k \in 0..Len(s) |-> F[1..k]], A, step, base, s)
<1> USE DEF Folds
<1>1. F[1..0] = base
  <2> 1..0 = {} /\ 1..0 \in SUBSET (1..Len(s))
    OBVIOUS
  <2> QED
    OBVIOUS
<1>2. ASSUME NEW k \in 1..Len(s) PROVE F[1..(k - 1)] \in A => F[1..k] = step[<<F[1..(k - 1)], s[k]>>]
  <2> k \in Nat /\ Len(s) \in Nat /\ 1 <= k /\ k <= Len(s)
    OBVIOUS
  <2> k \in 1..k /\ \A i \in 1..k : i \in 1..Len(s)
    OBVIOUS
  <2>1. k \in Nat /\ 1..k \in SUBSET (1..Len(s)) /\ k \in 1..k /\ 1..k # {}
    OBVIOUS
  <2>2. Max(1..k) \in 1..k /\ k <= Max(1..k)
    BY <2>1, MaxOf
  <2>3. Max(1..k) = k
    BY <2>1, <2>2
  <2>4. (1..k) \ {k} = 1..(k - 1)
    BY <2>1
  <2> QED
    BY <2>1, <2>3, <2>4
<1> DEFINE S == {k \in Nat : k <= Len(s) => F[1..k] \in A}
<1>3. 0 \in S
  BY <1>1
<1>4. ASSUME NEW k \in Nat, k \in S PROVE k + 1 \in S
  <2> SUFFICES ASSUME k + 1 <= Len(s) PROVE F[1..(k + 1)] \in A
    OBVIOUS
  <2>1. k + 1 \in 1..Len(s) /\ (k + 1) - 1 = k /\ F[1..k] \in A /\ s[k + 1] \in E
    BY <1>4
  <2>2. F[1..(k + 1)] = step[<<F[1..k], s[k + 1]>>]
    BY <1>2, <2>1
  <2> QED
    BY <2>1, <2>2
<1>5. Nat \subseteq S
  <2> HIDE DEF S
  <2> QED
    BY <1>3, <1>4, InductiveSet
<1>6. \A k \in 0..Len(s) : F[1..k] \in A
  BY <1>5
<1>7. \A k \in 1..Len(s) : k \in 0..Len(s) /\ k - 1 \in 0..Len(s)
  OBVIOUS
<1> QED
  BY <1>1, <1>2, <1>6, <1>7 DEF IsPass

\* Passes that agree on what they meet agree on what they come to.
LEMMA PassesAgree ==
    ASSUME NEW A, NEW step, NEW other, NEW base, NEW s, NEW t, NEW f, NEW g,
           Len(s) \in Nat, Len(t) \in Nat, Len(s) <= Len(t),
           IsPass(f, A, step, base, s), IsPass(g, A, other, base, t),
           \A k \in 1..Len(s), a \in A : step[<<a, s[k]>>] = other[<<a, t[k]>>]
    PROVE  \A k \in 0..Len(s) : g[k] = f[k]
<1> DEFINE S == {k \in Nat : k <= Len(s) => g[k] = f[k]}
<1>1. 0 \in S
  BY DEF IsPass
<1>2. ASSUME NEW k \in Nat, k \in S PROVE k + 1 \in S
  <2> SUFFICES ASSUME k + 1 <= Len(s) PROVE g[k + 1] = f[k + 1]
    OBVIOUS
  <2>1. k + 1 \in 1..Len(s) /\ k + 1 \in 1..Len(t) /\ (k + 1) - 1 = k /\ g[k] = f[k] /\ k \in 0..Len(s)
    BY <1>2
  <2>2. f[k] \in A /\ f[k + 1] = step[<<f[k], s[k + 1]>>] /\ g[k + 1] = other[<<g[k], t[k + 1]>>]
    BY <2>1 DEF IsPass
  <2> QED
    BY <2>1, <2>2
<1>3. Nat \subseteq S
  <2> HIDE DEF S
  <2> QED
    BY <1>1, <1>2, InductiveSet
<1> QED
  BY <1>3

\* One more entry.
LEMMA PassGoesOn ==
    ASSUME NEW A, NEW E, NEW step, NEW base, NEW s \in Seq(E), NEW x \in E, NEW f, NEW g,
           IsPass(f, A, step, base, s), IsPass(g, A, step, base, Append(s, x))
    PROVE  g[Len(Append(s, x))] = step[<<f[Len(s)], x>>]
<1> DEFINE t == Append(s, x)
<1>1. /\ Len(s) \in Nat /\ Len(t) = Len(s) + 1 /\ Len(t) \in Nat /\ t[Len(s) + 1] = x
      /\ \A k \in 1..Len(s) : t[k] = s[k]
  OBVIOUS
<1>2. g[Len(s)] = f[Len(s)]
  <2> HIDE DEF t
  <2>1. IsPass(g, A, step, base, t)
    BY DEF t
  <2>2. \A k \in 1..Len(s), a \in A : step[<<a, s[k]>>] = step[<<a, t[k]>>]
    BY <1>1
  <2>3. Len(s) <= Len(t)
    BY <1>1
  <2>4. \A k \in 0..Len(s) : g[k] = f[k]
    BY <1>1, <2>1, <2>2, <2>3, PassesAgree
  <2> QED
    BY <1>1, <2>4
<1>3. g[Len(s) + 1] = step[<<g[Len(s)], x>>]
  <2>1. Len(s) + 1 \in 1..Len(t) /\ (Len(s) + 1) - 1 = Len(s)
    BY <1>1
  <2> HIDE DEF t
  <2>2. IsPass(g, A, step, base, t)
    BY DEF t
  <2> QED
    BY <1>1, <2>1, <2>2 DEF IsPass
<1> QED
  BY <1>1, <1>2, <1>3

-----------------------------------------------------------------------------
(***************************************************************************)
(* Filtering and sorting.                                                  *)
(***************************************************************************)

\* One position after the other, as Only goes through a sequence.
OnlyStep(E, seq, S) ==
    [p \in Seq(E) \X Nat |-> IF p[2] \in S /\ p[2] \in 1..Len(seq) THEN Append(p[1], seq[p[2]]) ELSE p[1]]

Positions(seq) == [i \in 1..Len(seq) |-> i]

\* Only makes a pass over the positions.
LEMMA OnlyIsPass ==
    ASSUME NEW E, NEW seq \in Seq(E), NEW S
    PROVE  \E acc : /\ IsPass(acc, Seq(E), OnlyStep(E, seq, S), <<>>, Positions(seq))
                    /\ Only(seq, S) = acc[Len(seq)]
<1> DEFINE step == OnlyStep(E, seq, S)
           at == Positions(seq)
           n == Len(seq)
           dom == SUBSET (1..n)
           iter == CHOOSE it : it = [T \in dom |-> IF T = {} THEN <<>>
                                       ELSE IF at[Max(T)] \in S THEN Append(it[T \ {Max(T)}], seq[at[Max(T)]])
                                       ELSE it[T \ {Max(T)}]]
<1>1. n \in Nat /\ at \in Seq(Nat) /\ Len(at) = n /\ DOMAIN at = 1..n /\ DOMAIN seq = 1..n
      /\ <<>> \in Seq(E)
  BY DEF Positions
<1>2. step \in [Seq(E) \X Nat -> Seq(E)]
  <2>1. \A p \in Seq(E) \X Nat : (IF p[2] \in S /\ p[2] \in 1..Len(seq) THEN Append(p[1], seq[p[2]]) ELSE p[1]) \in Seq(E)
    <3> TAKE p \in Seq(E) \X Nat
    <3>1. p[1] \in Seq(E) /\ \A i \in 1..Len(seq) : seq[i] \in E
      OBVIOUS
    <3> QED
      BY <3>1
  <2> QED
    BY <2>1 DEF OnlyStep
<1>3. \A a \in Seq(E), i \in 1..n : step[<<a, i>>] = IF i \in S THEN Append(a, seq[i]) ELSE a
  <2> TAKE a \in Seq(E), i \in 1..n
  <2>1. <<a, i>> \in Seq(E) \X Nat /\ <<a, i>>[1] = a /\ <<a, i>>[2] = i
    OBVIOUS
  <2> QED
    BY <2>1 DEF OnlyStep
<1>4. \A T \in dom : T # {} => /\ Max(T) \in 1..n /\ at[Max(T)] = Max(T) /\ T \ {Max(T)} \in dom
  BY <1>1, MaxOf DEF Positions
<1>5. iter = [T \in dom |-> IF T = {} THEN <<>>
                            ELSE IF at[Max(T)] \in S THEN Append(iter[T \ {Max(T)}], seq[at[Max(T)]])
                            ELSE iter[T \ {Max(T)}]]
  <2>0. PICK F : IsFold(F, Seq(E), step, <<>>, at)
    <3> HIDE DEF step, at
    <3> QED
      BY <1>1, <1>2, FoldExists
  <2>1. /\ F \in [dom -> Seq(E)]
        /\ \A T \in dom : F[T] = IF T = {} THEN <<>> ELSE step[<<F[T \ {Max(T)}], at[Max(T)]>>]
    <3> HIDE DEF step, at
    <3> QED
      BY <1>1, <2>0 DEF IsFold
  <2> HIDE DEF dom, step, at, n
  <2>2. \A T \in dom : F[T] = IF T = {} THEN <<>>
                              ELSE IF at[Max(T)] \in S THEN Append(F[T \ {Max(T)}], seq[at[Max(T)]])
                              ELSE F[T \ {Max(T)}]
    <3> TAKE T \in dom
    <3>1. CASE T = {}
      BY <2>1, <3>1
    <3>2. CASE T # {}
      <4>1. Max(T) \in 1..n /\ at[Max(T)] = Max(T) /\ T \ {Max(T)} \in dom
        BY <1>4, <3>2
      <4>2. F[T \ {Max(T)}] \in Seq(E)
        BY <2>1, <4>1
      <4>3. step[<<F[T \ {Max(T)}], Max(T)>>] = IF Max(T) \in S THEN Append(F[T \ {Max(T)}], seq[Max(T)])
                                                 ELSE F[T \ {Max(T)}]
        BY <1>3, <4>1, <4>2
      <4>4. F[T] = step[<<F[T \ {Max(T)}], Max(T)>>]
        BY <2>1, <3>2, <4>1
      <4> QED
        BY <3>2, <4>1, <4>3, <4>4
    <3> QED
      BY <3>1, <3>2
  <2>3. F = [T \in dom |-> IF T = {} THEN <<>>
                              ELSE IF at[Max(T)] \in S THEN Append(F[T \ {Max(T)}], seq[at[Max(T)]])
                              ELSE F[T \ {Max(T)}]]
    BY <2>1, <2>2
  <2> QED
    BY <2>3
<1>6. Only(seq, S) = iter[1..n]
  <2>1. at = [i \in DOMAIN seq |-> i]
    BY <1>1 DEF Positions
  <2> HIDE DEF at
  <2> QED
    BY <1>1, <2>1 DEF Only, FoldLeftDomain, FoldLeft, MapThenFoldSet
<1>7. IsPass([k \in 0..n |-> iter[1..k]], Seq(E), step, <<>>, at)
  <2>1. \A T \in dom : IF T = {} THEN iter[T] = <<>>
                       ELSE iter[T \ {Max(T)}] \in Seq(E)
                              => iter[T] = step[<<iter[T \ {Max(T)}], at[Max(T)]>>]
    <3> HIDE DEF step, iter, dom, at, n
    <3>1. \A T \in dom : iter[T] = IF T = {} THEN <<>>
                              ELSE IF at[Max(T)] \in S THEN Append(iter[T \ {Max(T)}], seq[at[Max(T)]])
                              ELSE iter[T \ {Max(T)}]
      BY <1>5
    <3> QED
      BY <1>3, <1>4, <3>1
  <2>2. Folds(iter, Seq(E), step, <<>>, at)
    <3> HIDE DEF step, iter, at
    <3> QED
      BY <1>1, <2>1 DEF Folds
  <2>3. IsPass([k \in 0..Len(at) |-> iter[1..k]], Seq(E), step, <<>>, at)
    <3>1. <<>> \in Seq(E) /\ at \in Seq(Nat)
      BY <1>1
    <3> DEFINE A == Seq(E)
    <3>2. step \in [A \X Nat -> A] /\ <<>> \in A /\ Folds(iter, A, step, <<>>, at)
      BY <1>2, <2>2, <3>1
    <3> HIDE DEF step, iter, at, A
    <3>3. IsPass([k \in 0..Len(at) |-> iter[1..k]], A, step, <<>>, at)
      BY <3>1, <3>2, PassIs
    <3> QED
      BY <3>3 DEF A
  <2> HIDE DEF step, iter, at
  <2> QED
    BY <1>1, <2>3
<1> DEFINE acc == [k \in 0..n |-> iter[1..k]]
<1>8. acc[n] = iter[1..n]
  BY <1>1
<1>9. IsPass(acc, Seq(E), step, <<>>, at) /\ Only(seq, S) = acc[n]
  <2> HIDE DEF iter, step, at
  <2> QED
    BY <1>6, <1>7, <1>8
<1> QED
  <2> HIDE DEF acc
  <2> QED
    BY <1>9

\* The same positions up to n.
SameUpTo(n, S, T) == \A i \in 1..n : i \in T <=> i \in S

\* What Only keeps of a sequence with one more entry.
LEMMA OnlyGrows ==
    ASSUME NEW E, NEW seq \in Seq(E), NEW x \in E, NEW S, NEW T,
           SameUpTo(Len(seq), S, T)
    PROVE  /\ Only(<<>>, S) = <<>>
           /\ Only(seq, S) \in Seq(E)
           /\ Only(Append(seq, x), T) = IF Len(seq) + 1 \in T THEN Append(Only(seq, S), x) ELSE Only(seq, S)
<1> DEFINE more == Append(seq, x)
           n == Len(seq)
<1>1. n \in Nat /\ n \in 0..n /\ more \in Seq(E) /\ <<>> \in Seq(E) /\ Len(<<>>) = 0 /\ Len(more) = n + 1
      /\ more[n + 1] = x /\ \A i \in 1..n : more[i] = seq[i]
  OBVIOUS
<1>2. PICK f : IsPass(f, Seq(E), OnlyStep(E, seq, S), <<>>, Positions(seq)) /\ Only(seq, S) = f[n]
  BY OnlyIsPass
<1>3. PICK g : IsPass(g, Seq(E), OnlyStep(E, more, T), <<>>, Positions(more)) /\ Only(more, T) = g[n + 1]
  <2> HIDE DEF more
  <2> QED
    BY <1>1, OnlyIsPass
<1>4. PICK h : IsPass(h, Seq(E), OnlyStep(E, <<>>, S), <<>>, Positions(<<>>)) /\ Only(<<>>, S) = h[0]
  BY <1>1, OnlyIsPass
<1>5. Only(<<>>, S) = <<>>
  BY <1>4 DEF IsPass
<1>6. Len(Positions(seq)) = n /\ Len(Positions(more)) = n + 1
      /\ (\A i \in 1..n : Positions(seq)[i] = i /\ Positions(more)[i] = i) /\ Positions(more)[n + 1] = n + 1
  <2> HIDE DEF more
  <2>1. Positions(more) = [i \in 1..(n + 1) |-> i] /\ Positions(seq) = [i \in 1..n |-> i]
    BY <1>1 DEF Positions
  <2> QED
    BY <1>1, <2>1
<1>7. \A a \in Seq(E), i \in 1..n :
        OnlyStep(E, seq, S)[<<a, i>>] = OnlyStep(E, more, T)[<<a, i>>]
  <2> TAKE a \in Seq(E), i \in 1..n
  <2>1. <<a, i>> \in Seq(E) \X Nat /\ <<a, i>>[1] = a /\ <<a, i>>[2] = i /\ i \in 1..(n + 1)
    OBVIOUS
  <2> HIDE DEF more
  <2> QED
    BY <1>1, <2>1 DEF OnlyStep, SameUpTo
<1>8. g[n] = f[n]
  <2>1. n <= n + 1 /\ n + 1 \in Nat
    BY <1>1
  <2>2. \A k \in 1..n, a \in Seq(E) :
          OnlyStep(E, seq, S)[<<a, Positions(seq)[k]>>] = OnlyStep(E, more, T)[<<a, Positions(more)[k]>>]
    <3> TAKE k \in 1..n, a \in Seq(E)
    <3>1. Positions(seq)[k] = k /\ Positions(more)[k] = k
      BY <1>6
    <3> HIDE DEF more, n
    <3>2. OnlyStep(E, seq, S)[<<a, k>>] = OnlyStep(E, more, T)[<<a, k>>]
      BY <1>7
    <3> QED
      BY <3>1, <3>2
  <2> HIDE DEF more
  <2>3. \A k \in 0..n : g[k] = f[k]
    BY <1>1, <1>2, <1>3, <1>6, <2>1, <2>2, PassesAgree
  <2> QED
    BY <1>1, <2>3
<1>9. f[n] \in Seq(E)
  BY <1>1, <1>2, <1>6 DEF IsPass
<1>10. g[n + 1] = IF n + 1 \in T THEN Append(f[n], x) ELSE f[n]
  <2>1. n + 1 \in 1..(n + 1) /\ (n + 1) - 1 = n /\ n + 1 \in Nat
    BY <1>1
  <2> HIDE DEF more
  <2>2. g[n + 1] = OnlyStep(E, more, T)[<<g[n], n + 1>>]
    BY <1>3, <1>6, <2>1 DEF IsPass
  <2>3. <<g[n], n + 1>> \in Seq(E) \X Nat /\ <<g[n], n + 1>>[1] = g[n] /\ <<g[n], n + 1>>[2] = n + 1
    BY <1>8, <1>9, <2>1
  <2> QED
    BY <1>1, <1>8, <2>1, <2>2, <2>3 DEF OnlyStep
<1> QED
  BY <1>2, <1>3, <1>5, <1>9, <1>10

\* U[i] is what comes up to i in a linear order of 1..n.
IsOrder(U, n) ==
    /\ U \in [1..n -> SUBSET (1..n)]
    /\ \A i \in 1..n : i \in U[i]
    /\ \A i, j \in 1..n : i \in U[j] => U[i] \subseteq U[j]
    /\ \A i, j \in 1..n : i \in U[j] \/ j \in U[i]
    /\ \A i, j \in 1..n : i \in U[j] /\ j \in U[i] => i = j

\* Its ranks are 1..n, each once.
LEMMA RanksFill ==
    ASSUME NEW n \in Nat, NEW U, IsOrder(U, n)
    PROVE  /\ \A i \in 1..n : Cardinality(U[i]) \in 1..n
           /\ \A k \in 1..n : \E i \in 1..n : Cardinality(U[i]) = k
<1> DEFINE rank == [i \in 1..n |-> Cardinality(U[i])]
<1>1. IsFiniteSet(1..n) /\ Cardinality(1..n) = n
  BY FS_Interval
<1>2. ASSUME NEW i \in 1..n PROVE IsFiniteSet(U[i]) /\ Cardinality(U[i]) \in 1..n
  <2>1. U[i] \in SUBSET (1..n) /\ i \in U[i]
    BY DEF IsOrder
  <2>2. IsFiniteSet(U[i]) /\ Cardinality(U[i]) <= n
    BY <1>1, <2>1, FS_Subset
  <2>3. Cardinality(U[i]) \in Nat /\ Cardinality(U[i]) # 0
    BY <2>1, <2>2, FS_CardinalityType, FS_EmptySet
  <2> QED
    BY <2>2, <2>3
<1>3. ASSUME NEW i \in 1..n, NEW j \in 1..n, i # j, i \in U[j] PROVE Cardinality(U[i]) # Cardinality(U[j])
  <2>1. U[i] \in SUBSET U[j] /\ U[i] # U[j]
    BY <1>3 DEF IsOrder
  <2> QED
    BY <1>2, <2>1, FS_Subset
<1>4. rank \in [1..n -> 1..n]
  BY <1>2
<1>5. \A i, j \in 1..n : rank[i] = rank[j] => i = j
  BY <1>3 DEF IsOrder
<1>6. rank \in Injection(1..n, 1..n)
  <2> HIDE DEF rank
  <2> QED
    BY <1>4, <1>5 DEF Injection, IsInjective
<1>7. rank \in Surjection(1..n, 1..n)
  <2> HIDE DEF rank
  <2> QED
    BY <1>1, <1>6, FS_Injection
<1>8. \A k \in 1..n : \E i \in 1..n : rank[i] = k
  <2> HIDE DEF rank
  <2> QED
    BY <1>7 DEF Surjection
<1> QED
  BY <1>2, <1>8

\* The k-th value in order: fewer than k are less, and at least k are no greater.
LEMMA SortedRanks ==
    ASSUME NEW values \in Seq(Int), NEW k \in 1..Len(values)
    PROVE  \E i \in 1..Len(values) :
             /\ Sorted(values)[k] = values[i]
             /\ Cardinality({j \in 1..Len(values) : values[j] < values[i]}) < k
             /\ Cardinality({j \in 1..Len(values) : values[j] <= values[i]}) >= k
             /\ Cardinality({j \in 1..Len(values) : values[j] > values[i]}) <= Len(values) - k
<1>1. PICK n \in Nat : n = Len(values)
  OBVIOUS
<1>2. DOMAIN values = 1..n /\ \A i \in 1..n : values[i] \in Int
  BY <1>1
<1> DEFINE U == [i \in 1..n |-> {j \in 1..n : values[j] < values[i] \/ (~(values[i] < values[j]) /\ j <= i)}]
<1>3. /\ U \in [1..n -> SUBSET (1..n)]
      /\ \A i \in 1..n : i \in U[i]
      /\ \A i, j \in 1..n : i \in U[j] <=> values[i] < values[j] \/ (values[i] = values[j] /\ i <= j)
  <2>1. U \in [1..n -> SUBSET (1..n)]
    OBVIOUS
  <2>2. ASSUME NEW i \in 1..n, NEW j \in 1..n
        PROVE  i \in U[j] <=> values[i] < values[j] \/ (values[i] = values[j] /\ i <= j)
    <3>1. i \in U[j] <=> values[i] < values[j] \/ (~(values[j] < values[i]) /\ i <= j)
      OBVIOUS
    <3>2. values[i] \in Int /\ values[j] \in Int
      BY <1>2
    <3> HIDE DEF U
    <3> QED
      BY <3>1, <3>2
  <2>3. \A i \in 1..n : i \in U[i]
    <3>1. \A i \in 1..n : i <= i
      OBVIOUS
    <3> HIDE DEF U
    <3> QED
      BY <2>2, <3>1
  <2> HIDE DEF U
  <2> QED
    BY <2>1, <2>2, <2>3
<1>4. /\ \A i, j \in 1..n : i \in U[j] => U[i] \subseteq U[j]
      /\ \A i, j \in 1..n : i \in U[j] \/ j \in U[i]
      /\ \A i, j \in 1..n : i \in U[j] /\ j \in U[i] => i = j
  <2> HIDE DEF U
  <2>1. \A i, j \in 1..n : i \in U[j] \/ j \in U[i]
    BY <1>2, <1>3
  <2>2. \A i, j \in 1..n : i \in U[j] /\ j \in U[i] => i = j
    BY <1>2, <1>3
  <2>3. \A i, j, h \in 1..n : i \in U[j] /\ h \in U[i] => h \in U[j]
    BY <1>2, <1>3
  <2>4. \A i \in 1..n : U[i] \subseteq 1..n
    BY <1>3
  <2> QED
    BY <2>1, <2>2, <2>3, <2>4
<1>5. \E i \in 1..n : Cardinality(U[i]) = k
  <2> HIDE DEF U
  <2>1. k \in 1..n
    BY <1>1
  <2>2. IsOrder(U, n)
    BY <1>3, <1>4 DEF IsOrder
  <2> QED
    BY <2>1, <2>2, RanksFill
<1> DEFINE rank == [i \in 1..n |-> Cardinality({j \in 1..n : values[j] < values[i] \/ (~(values[i] < values[j]) /\ j <= i)})]
<1>6. PICK i \in 1..n : i = (CHOOSE c \in 1..n : rank[c] = k) /\ rank[i] = k
  BY <1>5
<1>7. Sorted(values)[k] = values[i]
  <2>1. Sorted(values) = [p \in 1..n |-> values[CHOOSE c \in 1..n : rank[c] = p]]
    BY <1>2 DEF Sorted, SortedBy
  <2>2. k \in 1..n
    BY <1>1
  <2> HIDE DEF rank
  <2> QED
    BY <1>6, <2>1, <2>2
<1>8. Cardinality(U[i]) = k /\ IsFiniteSet(U[i]) /\ IsFiniteSet(1..n) /\ Cardinality(1..n) = n
  <2>1. IsFiniteSet(1..n) /\ Cardinality(1..n) = n
    BY FS_Interval
  <2>2. U[i] \in SUBSET (1..n)
    BY <1>3
  <2>3. rank[i] = Cardinality(U[i])
    OBVIOUS
  <2> HIDE DEF U, rank
  <2> QED
    BY <1>6, <2>1, <2>2, <2>3, FS_Subset
<1> DEFINE less == {j \in 1..n : values[j] < values[i]}
           upTo == {j \in 1..n : values[j] <= values[i]}
           more == {j \in 1..n : values[j] > values[i]}
<1>9. /\ less \subseteq U[i] \ {i} /\ U[i] \subseteq upTo /\ i \in U[i]
      /\ upTo \subseteq 1..n /\ more = (1..n) \ upTo
  <2> HIDE DEF U
  <2> QED
    BY <1>2, <1>3
<1> HIDE DEF U, less, upTo, more
<1>10. Cardinality(less) < k
  <2>1. IsFiniteSet(U[i] \ {i}) /\ Cardinality(U[i] \ {i}) = k - 1
    BY <1>8, <1>9, FS_RemoveElement
  <2>2. IsFiniteSet(less) /\ Cardinality(less) <= k - 1
    BY <1>9, <2>1, FS_Subset
  <2>3. Cardinality(less) \in Nat
    BY <2>2, FS_CardinalityType
  <2> QED
    BY <2>2, <2>3
<1>11. IsFiniteSet(upTo) /\ Cardinality(upTo) >= k /\ Cardinality(upTo) \in Nat
  <2>1. IsFiniteSet(upTo)
    BY <1>8, <1>9, FS_Subset
  <2>2. Cardinality(U[i]) <= Cardinality(upTo)
    BY <1>9, <2>1, FS_Subset
  <2> QED
    BY <1>8, <2>1, <2>2, FS_CardinalityType
<1>12. Cardinality(more) <= n - k
  <2>1. Cardinality(more) = Cardinality(1..n) - Cardinality((1..n) \cap upTo)
    BY <1>8, <1>9, FS_Difference
  <2>2. (1..n) \cap upTo = upTo
    BY <1>9
  <2>3. Cardinality(more) = n - Cardinality(upTo)
    BY <1>8, <2>1, <2>2
  <2>4. k \in Nat
    OBVIOUS
  <2> QED
    BY <1>11, <2>3, <2>4
<1> QED
  BY <1>1, <1>7, <1>10, <1>11, <1>12 DEF less, upTo, more

\* As many values as before.
LEMMA SortedType ==
    ASSUME NEW values \in Seq(Int)
    PROVE  Sorted(values) \in Seq(Int) /\ Len(Sorted(values)) = Len(values)
<1>1. PICK n \in Nat : n = Len(values) /\ DOMAIN values = 1..n
  OBVIOUS
<1>2. \A k \in 1..n : Sorted(values)[k] \in Int
  <2> TAKE k \in 1..n
  <2>1. PICK i \in 1..n : Sorted(values)[k] = values[i]
    BY <1>1, SortedRanks
  <2> QED
    BY <1>1, <2>1
<1> DEFINE rank == [i \in 1..n |-> Cardinality({j \in 1..n : values[j] < values[i] \/ (~(values[i] < values[j]) /\ j <= i)})]
<1>3. Sorted(values) = [p \in 1..n |-> values[CHOOSE c \in 1..n : rank[c] = p]]
  BY <1>1 DEF Sorted, SortedBy
<1>4. Sorted(values) = [k \in 1..n |-> Sorted(values)[k]]
  <2> HIDE DEF rank
  <2> QED
    BY <1>3
<1>5. Sorted(values) \in [1..n -> Int]
  BY <1>2, <1>4
<1> QED
  BY <1>1, <1>5

\* The value in the middle has no more than half of the others beyond it on
\* either side.
LEMMA MiddleOf ==
    ASSUME NEW values \in Seq(Int), NEW n \in Nat, n = Len(values), n > 0
    PROVE  LET median == Sorted(values)[(n \div 2) + 1]
           IN /\ \E i \in 1..n : values[i] = median
              /\ 2 * Cardinality({i \in 1..n : values[i] < median}) <= n
              /\ 2 * Cardinality({i \in 1..n : values[i] > median}) < n
<1> DEFINE k == (n \div 2) + 1
<1>1. k \in 1..n /\ 2 * (k - 1) <= n /\ 2 * (n - k) < n
  <2>1. n \div 2 \in Nat /\ 2 * (n \div 2) <= n /\ n < 2 * (n \div 2) + 2
    BY Z3
  <2> QED
    BY <2>1
<1>2. PICK i \in 1..n :
        /\ Sorted(values)[k] = values[i]
        /\ Cardinality({j \in 1..n : values[j] < values[i]}) < k
        /\ Cardinality({j \in 1..n : values[j] > values[i]}) <= n - k
  <2> HIDE DEF k
  <2> QED
    BY <1>1, SortedRanks
<1> DEFINE less == {j \in 1..n : values[j] < values[i]}
           more == {j \in 1..n : values[j] > values[i]}
<1>3. Cardinality(less) \in Nat /\ Cardinality(more) \in Nat
  <2>1. IsFiniteSet(1..n)
    BY FS_Interval
  <2>2. less \subseteq 1..n /\ more \subseteq 1..n
    OBVIOUS
  <2> HIDE DEF less, more
  <2>3. IsFiniteSet(less) /\ IsFiniteSet(more)
    BY <2>1, <2>2, FS_Subset
  <2> QED
    BY <2>3, FS_CardinalityType
<1>4. 2 * Cardinality(less) <= n /\ 2 * Cardinality(more) < n
  <2>1. Cardinality(less) < k /\ Cardinality(more) <= n - k
    BY <1>2
  <2> HIDE DEF less, more, k
  <2> QED
    BY <1>1, <1>3, <2>1
<1> QED
  BY <1>2, <1>4

\* Counting is blind to where the numbering begins.
Shifted(S, d) == {i + d : i \in S}

LEMMA ShiftedCount ==
    ASSUME NEW S \in SUBSET Int, NEW d \in Int, IsFiniteSet(S)
    PROVE  IsFiniteSet(Shifted(S, d)) /\ Cardinality(Shifted(S, d)) = Cardinality(S)
<1> DEFINE T == {i + d : i \in S}
           f == [i \in S |-> i + d]
<1>1. f \in [S -> T] /\ (\A t \in T : \E i \in S : f[i] = t)
  OBVIOUS
<1>2. \A i, j \in S : f[i] = f[j] => i = j
  OBVIOUS
<1>3. f \in Bijection(S, T)
  <2> HIDE DEF f, T
  <2> QED
    BY <1>1, <1>2 DEF Bijection, Injection, IsInjective, Surjection
<1> HIDE DEF f, T
<1>4. ExistsBijection(S, T)
  BY <1>3 DEF ExistsBijection
<1>5. IsFiniteSet(T) /\ Cardinality(T) = Cardinality(S)
  BY <1>4, FS_Bijection
<1> QED
  BY <1>5 DEF T, Shifted

-----------------------------------------------------------------------------
(***************************************************************************)
(* Counting the entries a filter picks.                                    *)
(***************************************************************************)

\* f goes through S, n numbers, from the least to the greatest.
Enumerates(f, n, S) ==
    /\ f \in [1..n -> S]
    /\ \A i \in S : \E k \in 1..n : f[k] = i
    /\ \A j, k \in 1..n : j < k => f[j] < f[k]

\* kept are the entries of seq at S, in their order.
Picks(f, seq, kept, S) ==
    /\ Enumerates(f, Len(kept), S)
    /\ \A k \in 1..Len(kept) : kept[k] = seq[f[k]]

\* Places of the entries kept whose positions are in Q.
Places(f, n, Q) == {k \in 1..n : f[k] \in Q}

\* Counting places is counting positions.
LEMMA EnumeratedCount ==
    ASSUME NEW n \in Nat, NEW S \in SUBSET Int, NEW f, NEW Q, Enumerates(f, n, S)
    PROVE  IsFiniteSet(S \cap Q) /\ Cardinality(Places(f, n, Q)) = Cardinality(S \cap Q)
<1> DEFINE K == Places(f, n, Q)
           T == S \cap Q
           g == [k \in K |-> f[k]]
<1>1. K \subseteq 1..n /\ IsFiniteSet(1..n)
  BY FS_Interval DEF Places
<1>2. IsFiniteSet(K)
  <2> HIDE DEF K
  <2> QED
    BY <1>1, FS_Subset
<1>3. g \in [K -> T]
  BY DEF Enumerates, Places
<1>4. \A i \in T : \E k \in K : g[k] = i
  BY DEF Enumerates, Places
<1>5. \A j, k \in K : g[j] = g[k] => j = k
  <2>1. \A j, k \in 1..n : f[j] = f[k] => j = k
    <3> SUFFICES ASSUME NEW j \in 1..n, NEW k \in 1..n, f[j] = f[k], j # k PROVE FALSE
      OBVIOUS
    <3>1. f[j] \in Int /\ f[k] \in Int
      BY DEF Enumerates
    <3>2. j < k \/ k < j
      OBVIOUS
    <3> QED
      BY <3>1, <3>2 DEF Enumerates
  <2> QED
    BY <1>1, <2>1
<1> HIDE DEF K, T, g
<1>6. g \in Bijection(K, T)
  BY <1>3, <1>4, <1>5 DEF Bijection, Injection, IsInjective, Surjection
<1>7. ExistsBijection(K, T)
  BY <1>6 DEF ExistsBijection
<1>8. IsFiniteSet(T) /\ Cardinality(T) = Cardinality(K)
  BY <1>2, <1>7, FS_Bijection
<1> QED
  BY <1>8 DEF K, T

LEMMA EveryCount ==
    ASSUME NEW n \in Nat, NEW S \in SUBSET Int, NEW f, Enumerates(f, n, S)
    PROVE  \A Q : Cardinality(Places(f, n, Q)) = Cardinality(S \cap Q)
<1> TAKE Q
<1> QED
  BY EnumeratedCount

\* As many are kept as there are positions.
LEMMA PicksCount ==
    ASSUME NEW E, NEW kept \in Seq(E), NEW S \in SUBSET Int, NEW f, NEW seq, Picks(f, seq, kept, S)
    PROVE  IsFiniteSet(S) /\ Len(kept) = Cardinality(S)
<1>1. Len(kept) \in Nat
  OBVIOUS
<1>2. Enumerates(f, Len(kept), S)
  BY DEF Picks
<1>3. IsFiniteSet(S \cap S) /\ Cardinality(Places(f, Len(kept), S)) = Cardinality(S \cap S)
  BY <1>1, <1>2, EnumeratedCount
<1>4. Places(f, Len(kept), S) = 1..Len(kept) /\ S \cap S = S
  BY <1>2 DEF Places, Enumerates
<1>5. Cardinality(1..Len(kept)) = Len(kept)
  BY <1>1, FS_Interval
<1> QED
  BY <1>3, <1>4, <1>5

\* There is one way to go through a set, and so one sequence that keeps some
\* positions.
LEMMA PicksAgree ==
    ASSUME NEW E, NEW seq, NEW S \in SUBSET Int, NEW kept \in Seq(E), NEW same \in Seq(E),
           \E f : Picks(f, seq, kept, S), \E f : Picks(f, seq, same, S)
    PROVE  kept = same
<1>1. PICK f : Picks(f, seq, kept, S)
  OBVIOUS
<1>2. PICK g : Picks(g, seq, same, S)
  OBVIOUS
<1>3. PICK n \in Nat : n = Len(kept) /\ n = Len(same)
  <2>1. Len(kept) = Cardinality(S)
    BY <1>1, PicksCount
  <2>2. Len(same) = Cardinality(S)
    BY <1>2, PicksCount
  <2>3. Len(kept) \in Nat
    OBVIOUS
  <2> QED
    BY <2>1, <2>2, <2>3
<1>4. /\ f \in [1..n -> S] /\ (\A i \in S : \E k \in 1..n : f[k] = i)
      /\ (\A j, k \in 1..n : j < k => f[j] < f[k]) /\ \A k \in 1..n : kept[k] = seq[f[k]]
  BY <1>1, <1>3 DEF Picks, Enumerates
<1>5. /\ g \in [1..n -> S] /\ (\A i \in S : \E k \in 1..n : g[k] = i)
      /\ (\A j, k \in 1..n : j < k => g[j] < g[k]) /\ \A k \in 1..n : same[k] = seq[g[k]]
  BY <1>2, <1>3 DEF Picks, Enumerates
<1>6. \A k \in 1..n : f[k] = g[k]
  <2> DEFINE D == {k \in 1..n : f[k] # g[k]}
  <2> SUFFICES ASSUME D # {} PROVE FALSE
    OBVIOUS
  <2>1. PICK k \in D : \A j \in D : k <= j
    <3>1. D \subseteq Nat
      OBVIOUS
    <3> HIDE DEF D
    <3> QED
      BY <3>1, LeastNat
  <2>2. k \in 1..n /\ f[k] # g[k] /\ \A j \in 1..n : j < k => f[j] = g[j]
    BY <2>1
  <2>3. f[k] \in S /\ g[k] \in S
    BY <1>4, <1>5, <2>2
  <2>4. PICK i \in 1..n : g[i] = f[k]
    BY <1>5, <2>3
  <2>5. PICK j \in 1..n : f[j] = g[k]
    BY <1>4, <2>3
  <2>6. \A l \in 1..n : f[l] \in Int /\ g[l] \in Int
    BY <1>4, <1>5
  <2>7. i > k
    <3>1. ~(i < k)
      <4> SUFFICES ASSUME i < k PROVE FALSE
        OBVIOUS
      <4>1. f[i] < f[k] /\ f[i] = g[i]
        BY <1>4, <2>2
      <4> QED
        BY <2>4, <2>6, <4>1
    <3> QED
      BY <2>2, <2>4, <3>1
  <2>8. j > k
    <3>1. ~(j < k)
      <4> SUFFICES ASSUME j < k PROVE FALSE
        OBVIOUS
      <4>1. g[j] < g[k] /\ f[j] = g[j]
        BY <1>5, <2>2
      <4> QED
        BY <2>5, <2>6, <4>1
    <3> QED
      BY <2>2, <2>5, <3>1
  <2>9. g[k] < f[k]
    BY <1>5, <2>2, <2>4, <2>7
  <2>10. f[k] < g[k]
    BY <1>4, <2>2, <2>5, <2>8
  <2> QED
    BY <2>2, <2>6, <2>9, <2>10
<1>7. \A k \in 1..n : kept[k] = same[k]
  BY <1>4, <1>5, <1>6
<1>8. DOMAIN kept = 1..n /\ DOMAIN same = 1..n
  <2>1. DOMAIN kept = 1..Len(kept) /\ DOMAIN same = 1..Len(same)
    OBVIOUS
  <2> QED
    BY <1>3, <2>1
<1>9. kept = [k \in DOMAIN kept |-> kept[k]] /\ same = [k \in DOMAIN same |-> same[k]]
  OBVIOUS
<1> QED
  BY <1>7, <1>8, <1>9

\* Only keeps what its name says: the entries at the positions, in their order.
LEMMA OnlyPicks ==
    ASSUME NEW E, NEW seq \in Seq(E), NEW S \in SUBSET (1..Len(seq))
    PROVE  Only(seq, S) \in Seq(E) /\ \E f : Picks(f, seq, Only(seq, S), S)
<1> DEFINE P == {s \in Seq(E) : \A T \in SUBSET (1..Len(s)) :
                    Only(s, T) \in Seq(E) /\ \E f : Picks(f, s, Only(s, T), T)}
<1>1. <<>> \in P
  <2>1. Only(<<>>, {}) = <<>>
    <3>0. CASE E = {}
      <4>1. DOMAIN <<>> = {}
        OBVIOUS
      <4> QED
        BY <4>1 DEF Only, FoldLeftDomain, FoldLeft, MapThenFoldSet
    <3>1. CASE E # {}
      <4>1. PICK x \in E : TRUE
        BY <3>1
      <4>2. <<>> \in Seq(E)
        OBVIOUS
      <4>3. SameUpTo(Len(<<>>), {}, {})
        BY DEF SameUpTo
      <4> QED
        BY <4>1, <4>2, <4>3, OnlyGrows
    <3> QED
      BY <3>0, <3>1
  <2>2. Len(<<>>) = 0 /\ 1..0 = {} /\ <<>> \in Seq(E)
    OBVIOUS
  <2> DEFINE e == [k \in {} |-> 0]
  <2>3. Picks(e, <<>>, <<>>, {})
    BY <2>2 DEF Picks, Enumerates
  <2> QED
    BY <2>1, <2>2, <2>3
<1>2. ASSUME NEW s \in Seq(E), s \in P, NEW x \in E PROVE Append(s, x) \in P
  <2>1. PICK n \in Nat : n = Len(s)
    OBVIOUS
  <2>2. /\ Append(s, x) \in Seq(E) /\ Len(Append(s, x)) = n + 1
        /\ \A i \in 1..n : Append(s, x)[i] = s[i] /\ Append(s, x)[n + 1] = x
    BY <2>1
  <2> SUFFICES ASSUME NEW T \in SUBSET (1..(n + 1))
               PROVE  /\ Only(Append(s, x), T) \in Seq(E)
                      /\ \E f : Picks(f, Append(s, x), Only(Append(s, x), T), T)
    BY <2>2
  <2> DEFINE more == Append(s, x)
             S1 == T \ {n + 1}
             kept == Only(s, S1)
  <2>3. S1 \in SUBSET (1..Len(s)) /\ SameUpTo(Len(s), S1, T)
    <3>1. n \in Nat /\ \A i \in 1..(n + 1) : i # n + 1 => i \in 1..n
      BY <2>1
    <3>2. \A i \in 1..n : i # n + 1
      BY <3>1
    <3>3. S1 \in SUBSET (1..n)
      BY <3>1
    <3>4. SameUpTo(n, S1, T)
      BY <3>2 DEF SameUpTo
    <3> QED
      BY <2>1, <3>3, <3>4
  <2>4. kept \in Seq(E) /\ \E f : Picks(f, s, kept, S1)
    <3> HIDE DEF S1
    <3> QED
      BY <1>2, <2>3
  <2>5. PICK f : Picks(f, s, kept, S1)
    BY <2>4
  <2>6. Only(more, T) = IF n + 1 \in T THEN Append(kept, x) ELSE kept
    <3> HIDE DEF S1
    <3> QED
      BY <2>1, <2>3, OnlyGrows
  <2>7. more[n + 1] = x /\ \A i \in 1..n : more[i] = s[i]
    BY <2>1
  <2> HIDE DEF more, kept
  <2>8. CASE n + 1 \notin T
    <3>1. S1 = T /\ T \in SUBSET (1..n)
      BY <2>8
    <3>2. \A k \in 1..Len(kept) : f[k] \in 1..n
      BY <2>5, <3>1 DEF Picks, Enumerates
    <3>3. \A k \in 1..Len(kept) : kept[k] = more[f[k]]
      BY <2>5, <2>7, <3>2 DEF Picks
    <3>4. Picks(f, more, kept, T)
      BY <2>5, <3>1, <3>3 DEF Picks
    <3>5. Only(more, T) = kept
      BY <2>6, <2>8
    <3> QED
      BY <2>4, <3>4, <3>5 DEF more
  <2>9. CASE n + 1 \in T
    <3>1. PICK L \in Nat : L = Len(kept)
      BY <2>4
    <3>2. PICK longer : longer = Append(kept, x)
      OBVIOUS
    <3>3. longer \in Seq(E) /\ Len(longer) = L + 1 /\ longer[L + 1] = x /\ \A k \in 1..L : longer[k] = kept[k]
      BY <2>4, <3>1, <3>2
    <3> DEFINE g == [k \in 1..(L + 1) |-> IF k = L + 1 THEN n + 1 ELSE f[k]]
    <3>4. /\ f \in [1..L -> S1] /\ (\A i \in S1 : \E k \in 1..L : f[k] = i)
          /\ (\A j, k \in 1..L : j < k => f[j] < f[k]) /\ \A k \in 1..L : kept[k] = s[f[k]]
      BY <2>5, <3>1 DEF Picks, Enumerates
    <3>5. g[L + 1] = n + 1 /\ \A k \in 1..L : g[k] = f[k] /\ f[k] \in 1..n /\ f[k] \in T
      <4>1. \A k \in 1..L : k \in 1..(L + 1) /\ k # L + 1
        OBVIOUS
      <4>2. \A i \in S1 : i \in 1..n /\ i \in T
        BY <2>1
      <4>3. L + 1 \in 1..(L + 1)
        OBVIOUS
      <4> HIDE DEF S1
      <4> QED
        BY <3>4, <4>1, <4>2, <4>3
    <3>6. \A k \in 1..(L + 1) : k = L + 1 \/ k \in 1..L
      OBVIOUS
    <3>7. g \in [1..(L + 1) -> T]
      <4>1. \A k \in 1..(L + 1) : g[k] \in T
        <5> HIDE DEF g
        <5> QED
          BY <2>9, <3>5, <3>6
      <4> QED
        BY <4>1
    <3> HIDE DEF g
    <3>8. \A i \in T : \E k \in 1..(L + 1) : g[k] = i
      <4> TAKE i \in T
      <4>1. CASE i = n + 1
        <5>1. L + 1 \in 1..(L + 1)
          OBVIOUS
        <5> QED
          BY <3>5, <4>1, <5>1
      <4>2. CASE i # n + 1
        <5>1. PICK k \in 1..L : f[k] = i
          BY <3>4, <4>2
        <5> QED
          BY <3>5, <5>1
      <4> QED
        BY <4>1, <4>2
    <3>9. \A j, k \in 1..(L + 1) : j < k => g[j] < g[k]
      <4> TAKE j, k \in 1..(L + 1)
      <4> HAVE j < k
      <4>1. j \in 1..L
        OBVIOUS
      <4>2. CASE k = L + 1
        BY <3>5, <4>1, <4>2
      <4>3. CASE k \in 1..L
        BY <3>4, <3>5, <4>1, <4>3
      <4> QED
        BY <3>6, <4>2, <4>3
    <3>10. \A k \in 1..(L + 1) : longer[k] = more[g[k]]
      BY <2>7, <3>3, <3>4, <3>5, <3>6
    <3>11. Picks(g, more, longer, T)
      BY <3>3, <3>7, <3>8, <3>9, <3>10 DEF Picks, Enumerates
    <3>12. Only(more, T) = longer
      BY <2>6, <2>9, <3>2
    <3> QED
      BY <3>3, <3>11, <3>12 DEF more
  <2> QED
    BY <2>8, <2>9
<1>3. Seq(E) \subseteq P
  <2> HIDE DEF P
  <2> QED
    BY <1>1, <1>2, InductiveSequences
<1> QED
  BY <1>3

\* Entries picked of entries picked.
LEMMA PicksOnly ==
    ASSUME NEW E, NEW kept \in Seq(E), NEW S \in SUBSET Int, NEW f, NEW seq, NEW Q,
           Picks(f, seq, kept, S)
    PROVE  /\ Only(kept, Places(f, Len(kept), Q)) \in Seq(E)
           /\ \E g : Picks(g, seq, Only(kept, Places(f, Len(kept), Q)), S \cap Q)
<1> DEFINE K == Places(f, Len(kept), Q)
           fewer == Only(kept, K)
<1>1. K \in SUBSET (1..Len(kept))
  BY DEF Places
<1>2. fewer \in Seq(E) /\ \E e : Picks(e, kept, fewer, K)
  <2> HIDE DEF K
  <2> QED
    BY <1>1, OnlyPicks
<1>3. PICK e : Picks(e, kept, fewer, K)
  BY <1>2
<1>4. PICK n \in Nat, L \in Nat : n = Len(kept) /\ L = Len(fewer)
  <2> HIDE DEF fewer
  <2> QED
    BY <1>2
<1> DEFINE g == [k \in 1..L |-> f[e[k]]]
<1>5. /\ e \in [1..L -> K] /\ (\A i \in K : \E k \in 1..L : e[k] = i)
      /\ (\A j, k \in 1..L : j < k => e[j] < e[k]) /\ \A k \in 1..L : fewer[k] = kept[e[k]]
  <2> HIDE DEF fewer, K
  <2> QED
    BY <1>3, <1>4 DEF Picks, Enumerates
<1>6. /\ f \in [1..n -> S] /\ (\A i \in S : \E k \in 1..n : f[k] = i)
      /\ (\A j, k \in 1..n : j < k => f[j] < f[k]) /\ \A k \in 1..n : kept[k] = seq[f[k]]
  BY <1>4 DEF Picks, Enumerates
<1>7. \A k \in 1..n : k \in K <=> f[k] \in Q
  BY <1>4 DEF Places
<1>8. K \subseteq 1..n
  BY <1>1, <1>4
<1> HIDE DEF K, fewer
<1>9. \A k \in 1..L : g[k] = f[e[k]] /\ e[k] \in 1..n /\ f[e[k]] \in S \cap Q
  <2> TAKE k \in 1..L
  <2>1. e[k] \in K /\ e[k] \in 1..n
    BY <1>5, <1>8
  <2> QED
    BY <1>6, <1>7, <2>1
<1>10. g \in [1..L -> S \cap Q]
  BY <1>9
<1> HIDE DEF g
<1>11. \A i \in S \cap Q : \E k \in 1..L : g[k] = i
  <2> TAKE i \in S \cap Q
  <2>1. PICK j \in 1..n : f[j] = i
    BY <1>6
  <2>2. PICK k \in 1..L : e[k] = j
    BY <1>5, <1>7, <2>1
  <2> QED
    BY <1>9, <2>1, <2>2
<1>12. \A j, k \in 1..L : j < k => g[j] < g[k]
  BY <1>5, <1>6, <1>9
<1>13. \A k \in 1..L : fewer[k] = seq[g[k]]
  BY <1>5, <1>6, <1>9
<1>14. Picks(g, seq, fewer, S \cap Q)
  BY <1>4, <1>10, <1>11, <1>12, <1>13 DEF Picks, Enumerates
<1> QED
  BY <1>2, <1>14 DEF K, fewer

\* The end of a sequence.
LEMMA SuffixPicks ==
    ASSUME NEW E, NEW seq \in Seq(E), NEW lo \in Nat, lo >= 1
    PROVE  /\ SubSeq(seq, lo, Len(seq)) \in Seq(E)
           /\ \E f : Picks(f, seq, SubSeq(seq, lo, Len(seq)), lo..Len(seq))
<1>1. PICK n \in Nat : n = Len(seq)
  OBVIOUS
<1>2. PICK end : end = SubSeq(seq, lo, n)
  OBVIOUS
<1>3. PICK L \in Nat : L = IF lo <= n THEN n - lo + 1 ELSE 0
  <2>1. lo <= n => n - lo + 1 \in Nat
    OBVIOUS
  <2> QED
    BY <2>1
<1>4. end \in Seq(E) /\ Len(end) = L /\ \A k \in 1..L : end[k] = seq[k + lo - 1]
  BY <1>1, <1>2, <1>3
<1> DEFINE f == [k \in 1..L |-> k + lo - 1]
<1>5. f \in [1..L -> lo..n] /\ \A i \in lo..n : i - lo + 1 \in 1..L /\ f[i - lo + 1] = i
  BY <1>3
<1>6. \A j, k \in 1..L : j < k => f[j] < f[k]
  OBVIOUS
<1>7. \A k \in 1..L : end[k] = seq[f[k]]
  BY <1>4
<1> HIDE DEF f
<1>8. Picks(f, seq, end, lo..n)
  BY <1>4, <1>5, <1>6, <1>7 DEF Picks, Enumerates
<1> QED
  BY <1>1, <1>2, <1>4, <1>8

-----------------------------------------------------------------------------
(***************************************************************************)
(* The outage machine and the whole history.                               *)
(***************************************************************************)

Sample == [ts : Nat, success : BOOLEAN, rtt : RTT \union {LoadedRTT, NoRTT},
           duringSpeedtest : BOOLEAN]

\* The marks that speak for the target.
GoodMarks == UpMarks \union SettlesUp

LastOf(S)  == CHOOSE i \in S \union {0} : \A j \in S : j <= i
FirstOf(S) == CHOOSE i \in S : \A j \in S : i <= j

\* How a run of n samples is counted.
Saturated(n) == IF n < MaxCount THEN n ELSE MaxCount

\* The machine has counted a run: the counter of its outcome is its length, and
\* the date kept is that of its first sample.
RunCounted(run, success) ==
    /\ IsFiniteSet(run)
    /\ \E first \in run :
         /\ \A j \in run : first <= j
         /\ success => /\ m.failCount = 0 /\ m.okCount = Saturated(Cardinality(run))
                       /\ m.firstOkTS = first
         /\ ~success => /\ m.okCount = 0 /\ m.failCount = Saturated(Cardinality(run))
                        /\ m.firstFailTS = first

\* The machine has counted the run at the last sample that counts.
CountsInv ==
    IF CountedAt = {} THEN m.failCount = 0 /\ m.okCount = 0
    ELSE \E last \in CountedAt : /\ \A j \in CountedAt : j <= last
                                 /\ RunCounted(RunAt(last), hist[last].success)

\* The marks of either kind have a last one.
HasLast(S) == \E i \in S \union {0} : \A j \in S : j <= i

HistoryInv ==
    /\ hist \in Seq(Sample)
    /\ CountsInv
    /\ HasLast(DownMarks) /\ HasLast(GoodMarks)
    /\ MatchesHistory
    /\ DatedAtRunStart

LEMMA LastIs ==
    ASSUME NEW S \in SUBSET Nat, NEW a \in S \union {0}, \A j \in S : j <= a
    PROVE  LastOf(S) = a
<1>1. \A b \in S \union {0} : (\A j \in S : j <= b) => b = a
  OBVIOUS
<1> QED
  BY <1>1 DEF LastOf

LEMMA FirstIs ==
    ASSUME NEW S \in SUBSET Nat, NEW a \in S, \A j \in S : a <= j
    PROVE  FirstOf(S) = a
<1>1. \A b \in S : (\A j \in S : b <= j) => b = a
  OBVIOUS
<1> QED
  BY <1>1 DEF FirstOf

\* Saturated counters count up with the run, and compare with a threshold as it
\* does.
LEMMA SaturationHarmless ==
    ASSUME NEW n \in Nat
    PROVE  /\ Bump(Saturated(n)) = Saturated(n + 1)
           /\ Saturated(n) >= FailN <=> n >= FailN
           /\ Saturated(n) >= OkN <=> n >= OkN
           /\ Saturated(n) = 0 <=> n = 0
BY ThresholdAssumption DEF Saturated, Bump

LEMMA HistoryInit == HInit => HistoryInv
<1> SUFFICES ASSUME HInit PROVE HistoryInv
  OBVIOUS
<1>1. hist = <<>> /\ DOMAIN hist = {} /\ hist \in Seq(Sample) /\ m = NewMachine("unknown")
  BY DEF HInit
<1>2. CountedAt = {} /\ DownMarks = {} /\ UpMarks = {} /\ SettlesUp = {}
  BY <1>1 DEF CountedAt, DownMarks, UpMarks, SettlesUp
<1>3. HasLast(DownMarks) /\ HasLast(GoodMarks)
  BY <1>2 DEF HasLast, GoodMarks
<1>4. MatchesHistory
  <2>1. LastOf({}) = 0
    BY LastIs
  <2> QED
    BY <1>1, <1>2, <2>1 DEF MatchesHistory, VerdictByHistory, NewMachine, LastOf
<1> QED
  BY <1>1, <1>2, <1>3, <1>4 DEF HistoryInv, CountsInv, NewMachine, DatedAtRunStart

\* What one more sample changes in the definitions that look at the whole
\* history: nothing before it, and nothing at all if it does not count.
LEMMA OneMoreSample ==
    ASSUME hist \in Seq(Sample), NEW s \in Sample, hist' = Append(hist, s),
           NEW n \in Nat, n = Len(hist)
    PROVE  /\ hist' \in Seq(Sample) /\ hist' # <<>> /\ Len(hist') = n + 1 /\ hist'[n + 1] = s
           /\ \A i \in 1..n : hist'[i] = hist[i]
           /\ CountedAt \subseteq 1..n
           /\ CountedAt' = IF s.duringSpeedtest THEN CountedAt ELSE CountedAt \union {n + 1}
           /\ \A i \in CountedAt : RunAt(i)' = RunAt(i)
           /\ s.duringSpeedtest => /\ DownMarks' = DownMarks
                                   /\ UpMarks' = UpMarks /\ SettlesUp' = SettlesUp
<1>1. /\ hist' \in Seq(Sample) /\ hist' # <<>> /\ Len(hist') = n + 1 /\ hist'[n + 1] = s
      /\ \A i \in 1..n : hist'[i] = hist[i]
      /\ DOMAIN hist = 1..n /\ DOMAIN hist' = 1..n \union {n + 1} /\ n + 1 \notin 1..n
  OBVIOUS
<1>2. CountedAt \subseteq 1..n
  BY <1>1 DEF CountedAt
<1>3. CountedAt' = IF s.duringSpeedtest THEN CountedAt ELSE CountedAt \union {n + 1}
  BY <1>1 DEF CountedAt
<1>4. ASSUME NEW i \in CountedAt PROVE RunAt(i)' = RunAt(i)
  <2>1. i \in 1..n /\ \A j \in CountedAt' : j <= i => j \in CountedAt
    BY <1>2, <1>3
  <2>2. CountedAt \subseteq CountedAt' /\ \A j \in CountedAt : hist'[j] = hist[j]
    BY <1>1, <1>2, <1>3
  <2>3. RunAt(i)' = {j \in CountedAt' : j <= i /\ \A k \in CountedAt' :
                        j <= k /\ k <= i => hist'[k].success = hist'[i].success}
    BY DEF RunAt
  <2>4. RunAt(i) = {j \in CountedAt : j <= i /\ \A k \in CountedAt :
                        j <= k /\ k <= i => hist[k].success = hist[i].success}
    BY DEF RunAt
  <2>5. \A j \in CountedAt :
          (\A k \in CountedAt' : j <= k /\ k <= i => hist'[k].success = hist'[i].success)
          <=> (\A k \in CountedAt : j <= k /\ k <= i => hist[k].success = hist[i].success)
    BY <2>1, <2>2
  <2> HIDE DEF CountedAt
  <2> QED
    BY <2>1, <2>2, <2>3, <2>4, <2>5
<1>5. ASSUME s.duringSpeedtest
      PROVE  DownMarks' = DownMarks /\ UpMarks' = UpMarks /\ SettlesUp' = SettlesUp
  <2>1. CountedAt' = CountedAt /\ \A i \in CountedAt : hist'[i] = hist[i] /\ RunAt(i)' = RunAt(i)
    BY <1>1, <1>2, <1>3, <1>4, <1>5
  <2>2. DownMarks' = DownMarks /\ UpMarks' = UpMarks
    BY <2>1 DEF DownMarks, UpMarks
  <2> QED
    BY <2>1, <2>2 DEF SettlesUp
<1> QED
  BY <1>1, <1>2, <1>3, <1>4, <1>5

\* The run at a new sample that counts goes on from the one before it, or begins
\* with it.
LEMMA RunGoesOn ==
    ASSUME hist \in Seq(Sample), NEW s \in Sample, hist' = Append(hist, s), ~s.duringSpeedtest,
           NEW n \in Nat, n = Len(hist)
    PROVE  /\ CountedAt = {} => RunAt(n + 1)' = {n + 1}
           /\ \A last \in CountedAt :
                (\A j \in CountedAt : j <= last) =>
                    RunAt(n + 1)' = IF hist[last].success = s.success
                                    THEN RunAt(last) \union {n + 1} ELSE {n + 1}
<1>1. /\ hist'[n + 1] = s
      /\ CountedAt \subseteq 1..n
      /\ CountedAt' = CountedAt \union {n + 1}
      /\ \A i \in CountedAt : hist'[i] = hist[i] /\ i \in Nat /\ i <= n
  BY OneMoreSample
<1>2. RunAt(n + 1)' = {j \in CountedAt' : j <= n + 1 /\ \A k \in CountedAt' :
                          j <= k /\ k <= n + 1 => hist'[k].success = s.success}
  BY <1>1 DEF RunAt
<1>3. n + 1 \in RunAt(n + 1)' /\ RunAt(n + 1)' \subseteq CountedAt \union {n + 1}
  BY <1>1, <1>2
<1>4. \A j \in CountedAt : j \in RunAt(n + 1)' <=>
                               \A k \in CountedAt : j <= k => hist[k].success = s.success
  BY <1>1, <1>2
<1>5. ASSUME NEW last \in CountedAt, \A j \in CountedAt : j <= last
      PROVE  RunAt(n + 1)' = IF hist[last].success = s.success
                             THEN RunAt(last) \union {n + 1} ELSE {n + 1}
  <2>1. \A j \in RunAt(last) : j \in CountedAt
    BY DEF RunAt
  <2>2. CASE hist[last].success = s.success
    <3>1. \A j \in CountedAt : j \in RunAt(last) <=> j \in RunAt(n + 1)'
      BY <1>4, <1>5, <2>2 DEF RunAt
    <3> QED
      BY <1>3, <2>1, <2>2, <3>1
  <2>3. CASE hist[last].success # s.success
    <3>1. \A j \in CountedAt : j \notin RunAt(n + 1)'
      BY <1>4, <1>5, <2>3
    <3> QED
      BY <1>3, <2>3, <3>1
  <2> QED
    BY <2>2, <2>3
<1>6. CountedAt = {} => RunAt(n + 1)' = {n + 1}
  BY <1>3
<1> QED
  BY <1>5, <1>6

\* The machine fed a sample that counts has counted the run that ends there.
LEMMA RunFed ==
    ASSUME hist \in Seq(Sample), CountsInv,
           NEW n \in Nat, n = Len(hist),
           NEW s \in Sample, s.ts = n + 1, ~s.duringSpeedtest,
           hist' = Append(hist, s), m' = MachineFed(m, s),
           NEW run, run = RunAt(n + 1)'
    PROVE  RunCounted(run, s.success)'
<1>1. /\ s.success => /\ m'.failCount = 0 /\ m'.okCount = Bump(m.okCount)
                      /\ m'.firstOkTS = IF m.okCount = 0 THEN n + 1 ELSE m.firstOkTS
      /\ ~s.success => /\ m'.okCount = 0 /\ m'.failCount = Bump(m.failCount)
                       /\ m'.firstFailTS = IF m.failCount = 0 THEN n + 1 ELSE m.firstFailTS
  BY DEF MachineFed, OkFed, FailFed
<1>2. Saturated(0) = 0 /\ Saturated(1) = Bump(0)
  BY SaturationHarmless
<1>3. CountedAt \subseteq 1..n
  BY OneMoreSample
\* A run that begins with the sample.
<1>4. ASSUME run = {n + 1}, s.success => m.okCount = 0, ~s.success => m.failCount = 0
      PROVE  RunCounted(run, s.success)'
  <2>1. IsFiniteSet(run) /\ Cardinality(run) = 1
    BY <1>4, FS_Singleton
  <2>2. n + 1 \in run /\ \A j \in run : n + 1 <= j
    BY <1>4
  <2> QED
    BY <1>1, <1>2, <1>4, <2>1, <2>2 DEF RunCounted
\* A run that goes on.
<1>5. ASSUME NEW last \in CountedAt, \A j \in CountedAt : j <= last,
             RunCounted(RunAt(last), s.success),
             run = RunAt(last) \union {n + 1}
      PROVE  RunCounted(run, s.success)'
  <2>1. PICK before : before = RunAt(last)
    OBVIOUS
  <2>2. before \subseteq 1..n
    BY <1>3, <2>1 DEF RunAt
  <2>3. /\ IsFiniteSet(before)
        /\ \E first \in before :
             /\ \A j \in before : first <= j
             /\ s.success => /\ m.failCount = 0 /\ m.okCount = Saturated(Cardinality(before))
                             /\ m.firstOkTS = first
             /\ ~s.success => /\ m.okCount = 0 /\ m.failCount = Saturated(Cardinality(before))
                              /\ m.firstFailTS = first
    BY <1>5, <2>1 DEF RunCounted
  <2>4. PICK first \in before :
             /\ \A j \in before : first <= j
             /\ s.success => /\ m.failCount = 0 /\ m.okCount = Saturated(Cardinality(before))
                             /\ m.firstOkTS = first
             /\ ~s.success => /\ m.okCount = 0 /\ m.failCount = Saturated(Cardinality(before))
                              /\ m.firstFailTS = first
    BY <2>3
  <2>5. PICK size \in Nat : size = Cardinality(before) /\ size # 0
    BY <2>3, FS_CardinalityType, FS_EmptySet
  <2>6. IsFiniteSet(run) /\ Cardinality(run) = size + 1
    <3>1. n + 1 \notin before
      BY <2>2
    <3> QED
      BY <1>5, <2>1, <2>3, <2>5, <3>1, FS_AddElement
  <2>7. /\ Bump(Saturated(size)) = Saturated(size + 1)
        /\ Saturated(size) # 0
    BY <2>5, SaturationHarmless
  <2>8. first \in run /\ \A j \in run : first <= j
    BY <1>5, <2>1, <2>2, <2>4
  <2> QED
    BY <1>1, <2>4, <2>5, <2>6, <2>7, <2>8 DEF RunCounted
<1>6. CASE CountedAt = {}
  <2>1. run = {n + 1} /\ m.okCount = 0 /\ m.failCount = 0
    BY <1>6, RunGoesOn DEF CountsInv
  <2> QED
    BY <1>4, <2>1
<1>7. CASE CountedAt # {}
  <2>1. PICK last \in CountedAt :
            /\ \A j \in CountedAt : j <= last
            /\ RunCounted(RunAt(last), hist[last].success)
    BY <1>7 DEF CountsInv
  <2>2. run = IF hist[last].success = s.success THEN RunAt(last) \union {n + 1} ELSE {n + 1}
    BY <2>1, RunGoesOn
  <2>3. hist[last].success \in BOOLEAN /\ s.success \in BOOLEAN
    <3>1. hist[last] \in Sample
      BY <1>3
    <3>2. \A t \in Sample : t.success \in BOOLEAN
      BY DEF Sample
    <3> QED
      BY <3>1, <3>2
  <2>4. CASE hist[last].success = s.success
    BY <1>5, <2>1, <2>2, <2>4
  <2>5. CASE hist[last].success # s.success
    <3>1. s.success => m.okCount = 0
      BY <2>1, <2>3, <2>5 DEF RunCounted
    <3>2. ~s.success => m.failCount = 0
      BY <2>1, <2>3, <2>5 DEF RunCounted
    <3> QED
      BY <1>4, <2>2, <2>5, <3>1, <3>2
  <2> QED
    BY <2>4, <2>5
<1> QED
  BY <1>6, <1>7

\* What a sample that counts adds to the marks.
LEMMA MarksFed ==
    ASSUME hist \in Seq(Sample), NEW s \in Sample, hist' = Append(hist, s), ~s.duringSpeedtest,
           NEW n \in Nat, n = Len(hist)
    PROVE  /\ DownMarks \subseteq 1..n /\ GoodMarks \subseteq 1..n
           /\ DownMarks' = IF ~s.success /\ Cardinality(RunAt(n + 1)') >= FailN
                           THEN DownMarks \union {n + 1} ELSE DownMarks
           /\ GoodMarks' = IF s.success /\ (Cardinality(RunAt(n + 1)') >= OkN \/ DownMarks = {})
                           THEN GoodMarks \union {n + 1} ELSE GoodMarks
<1>1. /\ hist'[n + 1] = s
      /\ CountedAt \subseteq 1..n
      /\ CountedAt' = CountedAt \union {n + 1}
      /\ \A i \in CountedAt : hist'[i] = hist[i] /\ RunAt(i)' = RunAt(i) /\ i < n + 1
  BY OneMoreSample
<1>2. DownMarks \subseteq CountedAt /\ GoodMarks \subseteq CountedAt
  BY DEF DownMarks, GoodMarks, UpMarks, SettlesUp
<1>3. DownMarks' = IF ~s.success /\ Cardinality(RunAt(n + 1)') >= FailN
                   THEN DownMarks \union {n + 1} ELSE DownMarks
  BY <1>1 DEF DownMarks
<1>4. UpMarks' = IF s.success /\ Cardinality(RunAt(n + 1)') >= OkN
                 THEN UpMarks \union {n + 1} ELSE UpMarks
  BY <1>1 DEF UpMarks
<1>5. SettlesUp' = IF s.success /\ DownMarks = {} THEN SettlesUp \union {n + 1} ELSE SettlesUp
  <2>1. SettlesUp' = {i \in CountedAt' : hist'[i].success /\ \A j \in DownMarks' : j > i}
    BY DEF SettlesUp
  <2>2. \A i \in CountedAt : (\A j \in DownMarks' : j > i) <=> (\A j \in DownMarks : j > i)
    BY <1>1, <1>3
  <2>3. s.success => DownMarks' = DownMarks /\ \A j \in DownMarks : ~(j > n + 1)
    BY <1>1, <1>2, <1>3
  <2> QED
    BY <1>1, <2>1, <2>2, <2>3 DEF SettlesUp
<1> QED
  BY <1>1, <1>2, <1>3, <1>4, <1>5 DEF GoodMarks

\* The verdict, by the last marks.
LEMMA VerdictIs ==
    VerdictByHistory = IF LastOf(DownMarks) > LastOf(GoodMarks) THEN "down"
                       ELSE IF GoodMarks # {} THEN "up" ELSE "unknown"
BY DEF VerdictByHistory, LastOf, GoodMarks

\* The machine's state follows the verdict over a sample that counts.
LEMMA VerdictFed ==
    ASSUME hist \in Seq(Sample), NEW n \in Nat, n = Len(hist),
           NEW s \in Sample, ~s.duringSpeedtest,
           hist' = Append(hist, s), m' = MachineFed(m, s),
           NEW run, run = RunAt(n + 1)', RunCounted(run, s.success)',
           HasLast(DownMarks), HasLast(GoodMarks), MatchesHistory
    PROVE  HasLast(DownMarks)' /\ HasLast(GoodMarks)' /\ MatchesHistory'
<1>1. PICK D, G, E, F : D = DownMarks /\ G = GoodMarks /\ E = DownMarks' /\ F = GoodMarks'
  OBVIOUS
<1>2. PICK size \in Nat : size = Cardinality(run)
  BY FS_CardinalityType DEF RunCounted
<1>3. /\ D \subseteq 1..n /\ G \subseteq 1..n
      /\ E = IF ~s.success /\ size >= FailN THEN D \union {n + 1} ELSE D
      /\ F = IF s.success /\ (size >= OkN \/ D = {}) THEN G \union {n + 1} ELSE G
  BY <1>1, <1>2, MarksFed
<1>4. PICK d \in D \union {0} : \A j \in D : j <= d
  BY <1>1 DEF HasLast
<1>5. PICK g \in G \union {0} : \A j \in G : j <= g
  BY <1>1 DEF HasLast
<1>6. PICK e, f : /\ e = IF E = D THEN d ELSE n + 1
                  /\ f = IF F = G THEN g ELSE n + 1
  OBVIOUS
<1>7. /\ e \in E \union {0} /\ \A j \in E : j <= e
      /\ f \in F \union {0} /\ \A j \in F : j <= f
      /\ E \subseteq Nat /\ F \subseteq Nat /\ d \in 0..n /\ g \in 0..n
  <2>1. d \in 0..n /\ g \in 0..n
    BY <1>3, <1>4, <1>5
  <2>2. \A j \in 1..n : j <= n + 1
    OBVIOUS
  <2>3. E # D => E = D \union {n + 1}
    BY <1>3
  <2>4. F # G => F = G \union {n + 1}
    BY <1>3
  <2>5. e \in E \union {0} /\ \A j \in E : j <= e
    <3>1. CASE E = D
      BY <1>4, <1>6, <3>1
    <3>2. CASE E # D
      BY <1>3, <1>6, <2>2, <2>3, <3>2
    <3> QED
      BY <3>1, <3>2
  <2>6. f \in F \union {0} /\ \A j \in F : j <= f
    <3>1. CASE F = G
      BY <1>5, <1>6, <3>1
    <3>2. CASE F # G
      BY <1>3, <1>6, <2>2, <2>4, <3>2
    <3> QED
      BY <3>1, <3>2
  <2>7. D \subseteq Nat /\ G \subseteq Nat /\ n + 1 \in Nat
    BY <1>3
  <2>8. E \subseteq Nat
    BY <2>3, <2>7
  <2>9. F \subseteq Nat
    BY <2>4, <2>7
  <2> QED
    BY <2>1, <2>5, <2>6, <2>8, <2>9
<1>8. HasLast(DownMarks)' /\ HasLast(GoodMarks)'
  BY <1>1, <1>7 DEF HasLast
<1>9. LastOf(D) = d /\ LastOf(G) = g /\ LastOf(E) = e /\ LastOf(F) = f
  BY <1>3, <1>4, <1>5, <1>7, LastIs
<1>10. m.state = IF d > g THEN "down" ELSE IF G # {} THEN "up" ELSE "unknown"
  BY <1>1, <1>9, VerdictIs DEF MatchesHistory
<1>11. VerdictByHistory' = IF e > f THEN "down" ELSE IF F # {} THEN "up" ELSE "unknown"
  <2>1. VerdictByHistory' = IF LastOf(E) > LastOf(F) THEN "down"
                            ELSE IF F # {} THEN "up" ELSE "unknown"
    BY <1>1 DEF VerdictByHistory, LastOf, GoodMarks
  <2> QED
    BY <1>9, <2>1
<1>12. m'.state = IF e > f THEN "down" ELSE IF F # {} THEN "up" ELSE "unknown"
  <2>1. s.success \in BOOLEAN
    BY DEF Sample
  <2>2. CASE s.success
    <3>1. m'.state = IF m.state = "down" /\ size < OkN THEN "down" ELSE "up"
      <4>1. m'.okCount = Saturated(size) /\ (Saturated(size) >= OkN <=> size >= OkN)
        BY <1>2, <2>2, SaturationHarmless DEF RunCounted
      <4>2. m'.okCount = Bump(m.okCount) /\ m'.state = AfterSuccess(m.state, Bump(m.okCount))
        BY <2>2 DEF MachineFed, OkFed
      <4>3. Saturated(size) \in Nat /\ OkN \in Nat
        BY ThresholdAssumption DEF Saturated
      <4> QED
        BY <4>1, <4>2, <4>3 DEF AfterSuccess
    <3>2. E = D /\ e = d
      BY <1>3, <1>6, <2>2
    <3>3. CASE size >= OkN \/ D = {}
      <4>1. F = G \union {n + 1} /\ f = n + 1
        BY <1>3, <1>6, <2>2, <3>3
      <4>2. D = {} => m.state # "down"
        BY <1>4, <1>7, <1>10
      <4> QED
        BY <1>7, <3>1, <3>2, <3>3, <4>1, <4>2, ThresholdAssumption
    <3>4. CASE size < OkN /\ D # {}
      <4>1. F = G /\ f = g
        <5>1. ~(size >= OkN)
          BY <3>4, ThresholdAssumption
        <5> QED
          BY <1>3, <1>6, <3>4, <5>1, Zenon
      <4>2. d >= 1
        <5>1. PICK j \in D : j \in 1..n
          BY <1>3, <3>4
        <5>2. j <= d
          BY <1>4
        <5> QED
          BY <1>7, <5>1, <5>2
      <4>3. d > g \/ G # {}
        BY <1>5, <1>7, <4>2
      <4> QED
        BY <1>10, <3>1, <3>2, <3>4, <4>1, <4>3
    <3> QED
      BY <3>3, <3>4, ThresholdAssumption
  <2>3. CASE ~s.success
    <3>1. m'.state = IF size >= FailN THEN "down" ELSE m.state
      <4>1. m'.failCount = Saturated(size) /\ (Saturated(size) >= FailN <=> size >= FailN)
        BY <1>2, <2>3, SaturationHarmless DEF RunCounted
      <4>2. m'.failCount = Bump(m.failCount) /\ m'.state = AfterFailure(m.state, Bump(m.failCount))
        BY <2>3 DEF MachineFed, FailFed
      <4> QED
        BY <4>1, <4>2 DEF AfterFailure
    <3>2. F = G /\ f = g
      BY <1>3, <1>6, <2>3
    <3>3. CASE size >= FailN
      <4>1. e = n + 1
        BY <1>3, <1>6, <2>3, <3>3
      <4> QED
        BY <1>7, <3>1, <3>2, <3>3, <4>1
    <3>4. CASE ~(size >= FailN)
      <4>1. e = d
        BY <1>3, <1>6, <3>4
      <4> QED
        BY <1>10, <3>1, <3>2, <3>4, <4>1
    <3> QED
      BY <3>3, <3>4
  <2> QED
    BY <2>1, <2>2, <2>3
<1> QED
  BY <1>8, <1>11, <1>12 DEF MatchesHistory

\* A fed sample keeps all of it.
LEMMA SampleFed ==
    ASSUME HistoryInv, NEW s \in Sample, s.ts = Len(hist) + 1,
           hist' = Append(hist, s), m' = MachineFed(m, s), prev' = m
    PROVE  HistoryInv'
<1>1. PICK n \in Nat : n = Len(hist)
  BY DEF HistoryInv
<1>2. /\ hist' \in Seq(Sample) /\ hist' # <<>> /\ Len(hist') = n + 1 /\ hist'[n + 1] = s
      /\ \A i \in 1..n : hist'[i] = hist[i]
      /\ CountedAt \subseteq 1..n
      /\ CountedAt' = IF s.duringSpeedtest THEN CountedAt ELSE CountedAt \union {n + 1}
      /\ \A i \in CountedAt : RunAt(i)' = RunAt(i)
      /\ s.duringSpeedtest => /\ DownMarks' = DownMarks
                              /\ UpMarks' = UpMarks /\ SettlesUp' = SettlesUp
  BY <1>1, OneMoreSample DEF HistoryInv
<1>3. s.duringSpeedtest \in BOOLEAN /\ s.success \in BOOLEAN
  BY DEF Sample
\* A sample taken during a speed test.
<1>4. CASE s.duringSpeedtest
  <2>1. m' = m
    BY <1>4 DEF MachineFed
  <2>2. CountsInv'
    <3>1. CASE CountedAt = {}
      BY <1>2, <1>4, <2>1, <3>1 DEF HistoryInv, CountsInv
    <3>2. CASE CountedAt # {}
      <4>1. PICK last \in CountedAt : /\ \A j \in CountedAt : j <= last
                                      /\ RunCounted(RunAt(last), hist[last].success)
        BY <3>2 DEF HistoryInv, CountsInv
      <4>2. RunAt(last)' = RunAt(last) /\ hist'[last] = hist[last] /\ CountedAt' = CountedAt
        BY <1>2, <1>4, <4>1
      <4>3. RunCounted(RunAt(last), hist[last].success)'
        BY <2>1, <4>1, <4>2, Zenon DEF RunCounted
      <4> QED
        BY <3>2, <4>1, <4>2, <4>3, Zenon DEF CountsInv
    <3> QED
      BY <3>1, <3>2
  <2>3. /\ HasLast(DownMarks)' /\ HasLast(GoodMarks)' /\ MatchesHistory'
    <3>1. DownMarks' = DownMarks /\ GoodMarks' = GoodMarks
      BY <1>2, <1>4 DEF GoodMarks
    <3>2. VerdictByHistory' = VerdictByHistory
      BY <1>2, <1>4, <3>1 DEF VerdictByHistory
    <3> QED
      BY <2>1, <3>1, <3>2 DEF HistoryInv, MatchesHistory, HasLast
  <2>4. DatedAtRunStart'
    BY <2>1 DEF DatedAtRunStart, GoesDown, GoesUp
  <2> QED
    BY <1>2, <2>2, <2>3, <2>4 DEF HistoryInv
\* A sample that counts.
<1>5. CASE ~s.duringSpeedtest
  <2>1. PICK run : run = RunAt(n + 1)'
    OBVIOUS
  <2>2. RunCounted(run, s.success)'
    BY <1>1, <1>5, <2>1, RunFed DEF HistoryInv
  <2>3. CountsInv'
    <3>1. n + 1 \in CountedAt' /\ \A j \in CountedAt' : j <= n + 1
      BY <1>2, <1>5
    <3>2. hist'[n + 1].success = s.success
      BY <1>2
    <3> QED
      BY <2>1, <2>2, <3>1, <3>2 DEF CountsInv
  <2>4. HasLast(DownMarks)' /\ HasLast(GoodMarks)' /\ MatchesHistory'
    BY <1>1, <1>5, <2>1, <2>2, VerdictFed DEF HistoryInv
  <2>5. DatedAtRunStart'
    <3>1. run \subseteq Nat
      <4>1. run \subseteq CountedAt'
        BY <2>1 DEF RunAt
      <4> QED
        BY <1>2, <4>1
    <3>2. PICK first \in run : /\ \A j \in run : first <= j
                               /\ s.success => m'.firstOkTS = first
                               /\ ~s.success => m'.firstFailTS = first
      BY <2>2 DEF RunCounted
    <3>3. FirstOf(run) = first
      BY <3>1, <3>2, FirstIs
    <3>4. s.success => ~GoesDown(m, m')
      BY <1>5 DEF GoesDown, MachineFed, OkFed, AfterSuccess
    <3>5. ~s.success => ~GoesUp(m, m')
      BY <1>5 DEF GoesUp, MachineFed, FailFed, AfterFailure
    <3>6. RunAt(Len(hist))' = run
      BY <1>2, <2>1
    <3> QED
      BY <1>3, <3>2, <3>3, <3>4, <3>5, <3>6 DEF DatedAtRunStart, FirstOf
  <2> QED
    BY <1>2, <2>3, <2>4, <2>5 DEF HistoryInv
<1> QED
  BY <1>4, <1>5

LEMMA HistoryStep == HistoryInv /\ [HNext]_hvars => HistoryInv'
<1> SUFFICES ASSUME HistoryInv, [HNext]_hvars PROVE HistoryInv'
  OBVIOUS
<1>1. ASSUME NEW success \in BOOLEAN, NEW rtt \in RTT \union {LoadedRTT, NoRTT},
             NEW flagged \in BOOLEAN, HFeed(success, rtt, flagged)
      PROVE  HistoryInv'
  <2>1. PICK s : s = [ts |-> Len(hist) + 1, success |-> success, rtt |-> rtt,
                      duringSpeedtest |-> flagged]
    OBVIOUS
  <2>2. Len(hist) \in Nat
    BY DEF HistoryInv
  <2>3. s \in Sample /\ s.ts = Len(hist) + 1
    BY <2>1, <2>2 DEF Sample
  <2>4. hist' = Append(hist, s) /\ m' = MachineFed(m, s) /\ prev' = m
    BY <1>1, <2>1 DEF HFeed
  <2> QED
    BY <2>3, <2>4, SampleFed
<1>2. CASE UNCHANGED hvars
  <2>1. hist' = hist /\ m' = m /\ prev' = prev
    BY <1>2 DEF hvars
  <2>2. CountedAt' = CountedAt /\ \A i : RunAt(i)' = RunAt(i)
    BY <2>1 DEF CountedAt, RunAt
  <2>3. CountsInv'
    BY <2>1, <2>2, Zenon DEF HistoryInv, CountsInv, RunCounted
  <2>4. DownMarks' = DownMarks /\ UpMarks' = UpMarks
    BY <2>1, <2>2 DEF DownMarks, UpMarks
  <2>5. SettlesUp' = SettlesUp
    BY <2>1, <2>2, <2>4 DEF SettlesUp
  <2>6. HasLast(DownMarks)' /\ HasLast(GoodMarks)' /\ MatchesHistory'
    BY <2>1, <2>4, <2>5, Zenon DEF HistoryInv, HasLast, GoodMarks, MatchesHistory, VerdictByHistory
  <2>7. DatedAtRunStart'
    BY <2>1, <2>2, Zenon DEF HistoryInv, DatedAtRunStart
  <2> QED
    BY <2>1, <2>3, <2>6, <2>7 DEF HistoryInv
<1> QED
  BY <1>1, <1>2 DEF HNext, HDone

\* Whatever the samples, the state the machine keeps with two counters is the
\* verdict on the whole history (detector.go:63-111).
THEOREM MachineFollowsHistory == HSpec => []MatchesHistory
<1>1. HistoryInv => MatchesHistory
  BY DEF HistoryInv
<1> QED
  BY <1>1, HistoryInit, HistoryStep, PTL DEF HSpec

\* Every transition is dated at the first sample of the run that caused it
\* (detector.go:84-109): the time an outage row begins or ends.
THEOREM TransitionsDatedAtRunStart == HSpec => []DatedAtRunStart
<1>1. HistoryInv => DatedAtRunStart
  BY DEF HistoryInv
<1> QED
  BY <1>1, HistoryInit, HistoryStep, PTL DEF HSpec

-----------------------------------------------------------------------------
(***************************************************************************)
(* The window of the tracker and the last minute of the glance.            *)
(***************************************************************************)

WindowStart(n) == IF n - Window > 1 THEN n - Window ELSE 1

\* A sample's ts is its place, and a round trip that was measured is a number.
Dated(samples) ==
    \A i \in 1..Len(samples) : samples[i].ts = i /\ (samples[i].success => samples[i].rtt \in Nat)

\* The tracker's window is the end of the history.
WindowInv ==
    /\ Dated(hist)
    /\ window = SubSeq(hist, WindowStart(Len(hist)), Len(hist))

\* What a cutoff leaves of the end of the history.
LEMMA FromOf ==
    ASSUME NEW h \in Seq(Sample), Dated(h), NEW lo \in 1..Len(h), NEW c \in Int, c <= Len(h)
    PROVE  From(SubSeq(h, lo, Len(h)), c) = SubSeq(h, IF lo < c THEN c ELSE lo, Len(h))
<1>1. PICK n \in Nat : n = Len(h) /\ lo \in 1..n
  OBVIOUS
<1>2. PICK w : w = SubSeq(h, lo, n)
  OBVIOUS
<1>3. PICK L \in Nat : L = n - lo + 1
  BY <1>1
<1>4. w \in Seq(Sample) /\ Len(w) = L /\ DOMAIN w = 1..L /\ \A k \in 1..L : w[k] = h[k + lo - 1]
  BY <1>1, <1>2, <1>3
<1>5. \A k \in 1..L : w[k].ts = k + lo - 1
  <2> TAKE k \in 1..L
  <2>1. k + lo - 1 \in 1..n
    BY <1>1, <1>3
  <2> QED
    BY <1>1, <1>4, <2>1 DEF Dated
<1> DEFINE young == {k \in 1..L : w[k].ts >= c}
<1>6. PICK first : first = IF lo < c THEN c - lo + 1 ELSE 1
  OBVIOUS
<1>7. first \in young /\ \A j \in young : first <= j
  <2>1. first \in 1..L
    BY <1>1, <1>3, <1>6
  <2>2. first + lo - 1 >= c /\ \A j \in 1..L : j + lo - 1 >= c => first <= j
    BY <1>1, <1>6
  <2> QED
    BY <1>5, <2>1, <2>2
<1>8. (CHOOSE i \in young : \A j \in young : i <= j) = first
  <2>1. young \subseteq Nat
    OBVIOUS
  <2> HIDE DEF young
  <2>2. \A i \in young : (\A j \in young : i <= j) => i = first
    BY <1>7, <2>1
  <2> QED
    BY <1>7, <2>2
<1>9. From(w, c) = SubSeq(w, first, L)
  <2>1. From(w, c) = IF young = {} THEN <<>>
                     ELSE SubSeq(w, CHOOSE i \in young : \A j \in young : i <= j, Len(w))
    BY <1>4 DEF From
  <2> HIDE DEF young
  <2> QED
    BY <1>4, <1>7, <1>8, <2>1
<1>10. PICK to : to = IF lo < c THEN c ELSE lo
  OBVIOUS
<1>11. to \in 1..n /\ to = first + lo - 1 /\ first \in 1..L
  <2>1. first \in 1..L
    BY <1>7
  <2> QED
    BY <1>1, <1>6, <1>10, <2>1
<1>12. PICK M \in Nat : M = n - to + 1 /\ M = L - first + 1
  <2>1. n - to + 1 \in Nat /\ L - first + 1 = n - to + 1
    BY <1>1, <1>3, <1>11
  <2> QED
    BY <2>1
<1>13. SubSeq(w, first, L) = [k \in 1..M |-> w[k + first - 1]]
  <2>1. 1..(L - first + 1) = 1..M
    BY <1>12
  <2> QED
    BY <1>11, <1>12 DEF SubSeq
<1>14. SubSeq(h, to, n) = [k \in 1..M |-> h[k + to - 1]]
  BY <1>11, <1>12 DEF SubSeq
<1>15. \A k \in 1..M : w[k + first - 1] = h[k + to - 1]
  <2> TAKE k \in 1..M
  <2>1. k + first - 1 \in 1..L /\ (k + first - 1) + lo - 1 = k + to - 1
    BY <1>1, <1>3, <1>11, <1>12
  <2> QED
    BY <1>4, <2>1
<1> QED
  BY <1>1, <1>2, <1>9, <1>10, <1>13, <1>14, <1>15

LEMMA WindowInit == HInit => WindowInv
<1> SUFFICES ASSUME HInit PROVE WindowInv
  OBVIOUS
<1>1. hist = <<>> /\ window = <<>> /\ Len(hist) = 0 /\ WindowStart(0) = 1
  BY ViewsAssumption DEF HInit, WindowStart
<1>2. SubSeq(<<>>, 1, 0) = <<>>
  OBVIOUS
<1> QED
  BY <1>1, <1>2 DEF WindowInv, Dated

\* The tracker fed one more sample.
LEMMA WindowFed ==
    ASSUME hist \in Seq(Sample), WindowInv, NEW s \in Sample, s.ts = Len(hist) + 1,
           s.success => s.rtt \in Nat,
           hist' = Append(hist, s), window' = TrackerAdd(window, s)
    PROVE  WindowInv'
<1>1. PICK n \in Nat : n = Len(hist)
  OBVIOUS
<1>2. PICK h : h = Append(hist, s)
  OBVIOUS
<1>3. /\ h \in Seq(Sample) /\ Len(h) = n + 1 /\ h[n + 1] = s
      /\ \A i \in 1..n : h[i] = hist[i]
  BY <1>1, <1>2
<1>4. Dated(h)
  <2>1. \A i \in 1..(n + 1) : i \in 1..n \/ i = n + 1
    OBVIOUS
  <2> QED
    BY <1>1, <1>3, <2>1 DEF WindowInv, Dated
<1>5. Window \in Nat \ {0}
  BY ViewsAssumption
<1>6. PICK lo : lo = WindowStart(n)
  OBVIOUS
<1>7. lo \in 1..(n + 1)
  BY <1>5, <1>6 DEF WindowStart
<1>8. Append(window, s) = SubSeq(h, lo, n + 1)
  <2>1. window = SubSeq(hist, lo, n)
    BY <1>1, <1>6 DEF WindowInv
  <2>2. PICK L \in Nat : L = n - lo + 1
    BY <1>7
  <2>3. SubSeq(hist, lo, n) = [k \in 1..L |-> hist[k + lo - 1]]
    BY <1>7, <2>2 DEF SubSeq
  <2>4. window \in Seq(Sample) /\ Len(window) = L
    <3>1. \A k \in 1..L : k + lo - 1 \in 1..n
      BY <1>7, <2>2
    <3>2. \A k \in 1..L : hist[k + lo - 1] \in Sample
      BY <1>1, <3>1
    <3> QED
      BY <2>1, <2>3, <3>2
  <2>5. SubSeq(h, lo, n + 1) = [k \in 1..(L + 1) |-> h[k + lo - 1]]
    <3>1. (n + 1) - lo + 1 = L + 1
      BY <1>7, <2>2
    <3> QED
      BY <3>1, <1>7 DEF SubSeq
  <2>6. \A k \in 1..(L + 1) : Append(window, s)[k] = h[k + lo - 1]
    <3> TAKE k \in 1..(L + 1)
    <3>1. CASE k = L + 1
      <4>1. k + lo - 1 = n + 1
        BY <1>7, <2>2, <3>1
      <4> QED
        BY <1>3, <2>4, <3>1, <4>1
    <3>2. CASE k # L + 1
      <4>1. k \in 1..L
        BY <3>2
      <4>2. k + lo - 1 \in 1..n
        BY <1>7, <2>2, <4>1
      <4>3. window[k] = hist[k + lo - 1]
        BY <2>1, <2>3, <4>1
      <4> QED
        BY <1>3, <2>4, <4>1, <4>2, <4>3
    <3> QED
      BY <3>1, <3>2
  <2>7. Append(window, s) = [k \in 1..(L + 1) |-> Append(window, s)[k]]
    <3>1. Append(window, s) \in Seq(Sample) /\ Len(Append(window, s)) = L + 1
      BY <2>4
    <3>2. PICK longer : longer = Append(window, s)
      OBVIOUS
    <3>3. longer \in Seq(Sample) /\ Len(longer) = L + 1
      BY <3>1, <3>2
    <3>4. DOMAIN longer = 1..(L + 1) /\ longer = [k \in DOMAIN longer |-> longer[k]]
      BY <3>3
    <3> QED
      BY <3>2, <3>4
  <2> QED
    BY <2>5, <2>6, <2>7
<1>9. window' = SubSeq(h, IF lo < (n + 1) - Window THEN (n + 1) - Window ELSE lo, n + 1)
  <2>1. (n + 1) - Window \in Int /\ (n + 1) - Window <= n + 1
    BY <1>5
  <2>2. window' = From(SubSeq(h, lo, n + 1), (n + 1) - Window)
    BY <1>1, <1>8 DEF TrackerAdd
  <2> QED
    BY <1>3, <1>4, <1>7, <2>1, <2>2, FromOf
<1>10. (IF lo < (n + 1) - Window THEN (n + 1) - Window ELSE lo) = WindowStart(n + 1)
  BY <1>5, <1>6 DEF WindowStart
<1>11. hist' = h
  BY <1>2
<1> QED
  BY <1>3, <1>4, <1>9, <1>10, <1>11 DEF WindowInv, Dated

-----------------------------------------------------------------------------
\* The positions of the samples that count, and of those that were answered or
\* lost.
CountedIn(h) == {i \in 1..Len(h) : ~h[i].duringSpeedtest}
GoodIn(h)    == {i \in 1..Len(h) : h[i].success}
FailedIn(h)  == {i \in 1..Len(h) : ~h[i].success}

\* What the filtering loops keep of samples that were picked from a history.
LEMMA FilteredPicks ==
    ASSUME NEW h \in Seq(Sample), NEW S \in SUBSET (1..Len(h)), NEW w \in Seq(Sample), NEW f,
           Picks(f, h, w, S)
    PROVE  /\ Counted(w) \in Seq(Sample) /\ \E g : Picks(g, h, Counted(w), S \cap CountedIn(h))
           /\ Failed(w) \in Seq(Sample) /\ \E g : Picks(g, h, Failed(w), S \cap FailedIn(h))
           /\ Good(w) \in Seq(Sample) /\ \E g : Picks(g, h, Good(w), S \cap GoodIn(h))
<1>1. PICK n \in Nat : n = Len(w) /\ DOMAIN w = 1..n
  OBVIOUS
<1>2. S \in SUBSET Int
  OBVIOUS
<1>3. \A k \in 1..n : f[k] \in 1..Len(h) /\ w[k] = h[f[k]]
  BY <1>1 DEF Picks, Enumerates
<1>4. /\ Places(f, n, CountedIn(h)) = {k \in 1..n : ~w[k].duringSpeedtest}
      /\ Places(f, n, FailedIn(h)) = {k \in 1..n : ~w[k].success}
      /\ Places(f, n, GoodIn(h)) = {k \in 1..n : w[k].success}
  BY <1>3 DEF Places, CountedIn, FailedIn, GoodIn
<1>5. /\ Counted(w) = Only(w, Places(f, Len(w), CountedIn(h)))
      /\ Failed(w) = Only(w, Places(f, Len(w), FailedIn(h)))
      /\ Good(w) = Only(w, Places(f, Len(w), GoodIn(h)))
  BY <1>1, <1>4 DEF Counted, Failed, Good
<1>6. ASSUME NEW Q, NEW fewer, fewer = Only(w, Places(f, Len(w), Q))
      PROVE  fewer \in Seq(Sample) /\ \E g : Picks(g, h, fewer, S \cap Q)
  BY <1>2, <1>6, PicksOnly
<1> QED
  BY <1>5, <1>6

\* How the samples of one outcome are counted.
LEMMA CountsOf ==
    ASSUME NEW h \in Seq(Sample), NEW S \in SUBSET (1..Len(h)), NEW w \in Seq(Sample), NEW f,
           Picks(f, h, w, S)
    PROVE  /\ Len(w) = Cardinality(S)
           /\ Len(w) - Len(Failed(w)) = Cardinality(S \cap GoodIn(h))
<1>1. PICK g : Picks(g, h, Failed(w), S \cap FailedIn(h)) /\ Failed(w) \in Seq(Sample)
  BY FilteredPicks
<1>2. S \in SUBSET Int /\ S \cap FailedIn(h) \in SUBSET Int
  <2>1. 1..Len(h) \subseteq Int
    OBVIOUS
  <2> QED
    BY <2>1
<1>3. IsFiniteSet(S) /\ Len(w) = Cardinality(S)
  BY <1>2, PicksCount
<1>4. Len(Failed(w)) = Cardinality(S \cap FailedIn(h))
  BY <1>1, <1>2, PicksCount
<1>5. S \cap GoodIn(h) = S \ FailedIn(h)
  BY DEF GoodIn, FailedIn
<1>6. Cardinality(S \ FailedIn(h)) = Cardinality(S) - Cardinality(S \cap FailedIn(h))
  BY <1>3, FS_Difference
<1> QED
  BY <1>3, <1>4, <1>5, <1>6

\* What there is to say of the middle of some round trips.
IsMedian(h, G, median) ==
    /\ \E i \in G : h[i].rtt = median
    /\ 2 * Cardinality({i \in G : h[i].rtt < median}) <= Cardinality(G)
    /\ 2 * Cardinality({i \in G : h[i].rtt > median}) < Cardinality(G)

\* Every round trip among them is a number.
Numbers(h, G) == \A i \in G : h[i].rtt \in Int

RTTsIn(good) == [k \in DOMAIN good |-> good[k].rtt]

LEMMA ValuesOf ==
    ASSUME NEW h \in Seq(Sample), NEW G \in SUBSET (1..Len(h)), NEW good \in Seq(Sample), NEW g,
           Picks(g, h, good, G), Numbers(h, G)
    PROVE  /\ RTTsIn(good) \in Seq(Int) /\ Len(RTTsIn(good)) = Len(good) /\ Len(good) = Cardinality(G)
           /\ IsFiniteSet(G)
           /\ \A k \in 1..Len(good) : RTTsIn(good)[k] = h[g[k]].rtt
           /\ RTTsIn(good) = <<>> <=> G = {}
<1>1. PICK n \in Nat : n = Len(good) /\ DOMAIN good = 1..n
  OBVIOUS
<1>2. G \in SUBSET Int
  OBVIOUS
<1>3. \A k \in 1..n : g[k] \in G /\ good[k] = h[g[k]]
  BY <1>1 DEF Picks, Enumerates
<1>4. RTTsIn(good) = [k \in 1..n |-> good[k].rtt] /\ \A k \in 1..n : good[k].rtt = h[g[k]].rtt
  BY <1>1, <1>3 DEF RTTsIn
<1>5. RTTsIn(good) \in [1..n -> Int]
  BY <1>3, <1>4 DEF Numbers
<1>6. RTTsIn(good) \in Seq(Int) /\ Len(RTTsIn(good)) = n
  BY <1>5
<1>7. IsFiniteSet(G) /\ n = Cardinality(G)
  BY <1>1, <1>2, PicksCount
<1>8. n = 0 <=> G = {}
  BY <1>7, FS_EmptySet
<1>9. RTTsIn(good) = <<>> <=> n = 0
  BY <1>6
<1> QED
  BY <1>1, <1>4, <1>6, <1>7, <1>8, <1>9

LEMMA MedianPicks ==
    ASSUME NEW h \in Seq(Sample), NEW G \in SUBSET (1..Len(h)), NEW good \in Seq(Sample), NEW g,
           Picks(g, h, good, G), Numbers(h, G), G # {}
    PROVE  IsMedian(h, G, Sorted(RTTsIn(good))[(Len(RTTsIn(good)) \div 2) + 1])
<1>0. /\ RTTsIn(good) \in Seq(Int) /\ Len(RTTsIn(good)) = Len(good) /\ Len(good) = Cardinality(G)
      /\ IsFiniteSet(G)
      /\ \A k \in 1..Len(good) : RTTsIn(good)[k] = h[g[k]].rtt
  BY ValuesOf
<1>1. PICK values \in Seq(Int) : values = RTTsIn(good)
  BY <1>0
<1>2. PICK n \in Nat : n = Len(values) /\ n = Len(good) /\ n = Cardinality(G)
  <2>1. Len(values) \in Nat
    OBVIOUS
  <2> QED
    BY <1>0, <1>1, <2>1
<1>3. \A k \in 1..n : values[k] = h[g[k]].rtt /\ g[k] \in G
  BY <1>0, <1>1, <1>2 DEF Picks, Enumerates
<1>4. n > 0
  BY <1>0, <1>2, FS_EmptySet
<1>5. PICK median : median = Sorted(values)[(n \div 2) + 1]
  OBVIOUS
<1>6. /\ \E k \in 1..n : values[k] = median
      /\ 2 * Cardinality({k \in 1..n : values[k] < median}) <= n
      /\ 2 * Cardinality({k \in 1..n : values[k] > median}) < n
  BY <1>2, <1>4, <1>5, MiddleOf
<1> DEFINE less == {i \in G : h[i].rtt < median}
           more == {i \in G : h[i].rtt > median}
<1>7. /\ {k \in 1..n : values[k] < median} = Places(g, n, less)
      /\ {k \in 1..n : values[k] > median} = Places(g, n, more)
  BY <1>3 DEF Places
<1>8. Enumerates(g, n, G) /\ G \in SUBSET Int
  BY <1>2 DEF Picks
<1>9. /\ Cardinality(Places(g, n, less)) = Cardinality(G \cap less)
      /\ Cardinality(Places(g, n, more)) = Cardinality(G \cap more)
  <2>1. \A Q : Cardinality(Places(g, n, Q)) = Cardinality(G \cap Q)
    BY <1>8, EveryCount
  <2> QED
    BY <2>1
<1>10. G \cap less = less /\ G \cap more = more
  OBVIOUS
<1>11. 2 * Cardinality(less) <= Cardinality(G) /\ 2 * Cardinality(more) < Cardinality(G)
  <2> HIDE DEF less, more
  <2> QED
    BY <1>2, <1>6, <1>7, <1>9, <1>10
<1>12. \E i \in G : h[i].rtt = median
  BY <1>3, <1>6
<1> QED
  BY <1>1, <1>2, <1>5, <1>11, <1>12 DEF IsMedian

LEMMA WindowIsExact ==
    ASSUME hist \in Seq(Sample), WindowInv
    PROVE  WindowExact
<1> SUFFICES ASSUME hist # <<>> PROVE WindowExact
  BY DEF WindowExact
<1>1. PICK n \in Nat : n = Len(hist) /\ DOMAIN hist = 1..n /\ n > 0
  OBVIOUS
<1>2. /\ Window \in Nat /\ Window > 0 /\ Glance \in Nat /\ Glance > 0 /\ Glance <= Window
  BY ViewsAssumption
<1>3. \A i \in 1..n : hist[i].ts = i /\ (hist[i].success => hist[i].rtt \in Nat)
  BY <1>1 DEF WindowInv, Dated
<1>4. PICK lo \in 1..n : lo = IF n - Window > 1 THEN n - Window ELSE 1
  BY <1>1, <1>2
<1>5. window = SubSeq(hist, lo, n)
  BY <1>1, <1>4 DEF WindowInv, WindowStart
<1>6. PICK recent \in 1..n : recent = IF n - Glance > 1 THEN n - Glance ELSE 1
  BY <1>1, <1>2
<1>7. PICK last : last = SubSeq(hist, recent, n)
  OBVIOUS
<1>8. SamplesSince(window, n) = last
  <2>1. n - Glance \in Int /\ n - Glance <= n
    BY <1>2
  <2>2. From(window, n - Glance) = SubSeq(hist, IF lo < n - Glance THEN n - Glance ELSE lo, n)
    BY <1>1, <1>5, <2>1, FromOf DEF WindowInv
  <2>3. (IF lo < n - Glance THEN n - Glance ELSE lo) = recent
    BY <1>1, <1>2, <1>4, <1>6
  <2> QED
    BY <1>7, <2>2, <2>3 DEF SamplesSince
<1>9. window \in Seq(Sample) /\ \E f : Picks(f, hist, window, lo..n)
  BY <1>1, <1>5, SuffixPicks
<1>10. last \in Seq(Sample) /\ \E f : Picks(f, hist, last, recent..n)
  BY <1>1, <1>7, SuffixPicks
<1>11. lo..n \in SUBSET (1..Len(hist)) /\ recent..n \in SUBSET (1..Len(hist))
  BY <1>1
<1>12. /\ Since(n - Window) = (lo..n) \cap CountedIn(hist)
       /\ Since(n - Glance) = (recent..n) \cap CountedIn(hist)
  <2>1. CountedAt = CountedIn(hist) /\ CountedAt \subseteq 1..n
    BY <1>1 DEF CountedAt, CountedIn
  <2>2. \A i \in 1..n : /\ i >= n - Window <=> i \in lo..n
                        /\ i >= n - Glance <=> i \in recent..n
    BY <1>1, <1>2, <1>4, <1>6
  <2> QED
    BY <2>1, <2>2 DEF Since
<1>13. /\ GoodSince(n - Window) = ((lo..n) \cap CountedIn(hist)) \cap GoodIn(hist)
       /\ GoodSince(n - Glance) = ((recent..n) \cap CountedIn(hist)) \cap GoodIn(hist)
  <2>1. \A i \in CountedIn(hist) : i \in GoodIn(hist) <=> hist[i].success
    BY DEF CountedIn, GoodIn
  <2> QED
    BY <1>12, <2>1 DEF GoodSince
<1>14. window = Only(hist, {i \in DOMAIN hist : hist[i].ts >= n - Window})
  <2>1. lo..n = {i \in DOMAIN hist : hist[i].ts >= n - Window}
    BY <1>1, <1>2, <1>3, <1>4
  <2>2. lo..n \in SUBSET Int
    OBVIOUS
  <2>3. Only(hist, lo..n) \in Seq(Sample) /\ \E f : Picks(f, hist, Only(hist, lo..n), lo..n)
    BY <1>11, OnlyPicks
  <2>4. window = Only(hist, lo..n)
    BY <1>9, <2>2, <2>3, PicksAgree
  <2> QED
    BY <2>1, <2>4
<1>15. /\ TrackerStats(window).sent = Cardinality(Since(n - Window))
       /\ TrackerStats(window).sent - TrackerStats(window).lost = Cardinality(GoodSince(n - Window))
  <2>1. PICK f : Picks(f, hist, window, lo..n)
    BY <1>9
  <2>2. PICK g : Counted(window) \in Seq(Sample) /\ Picks(g, hist, Counted(window), (lo..n) \cap CountedIn(hist))
    BY <1>9, <1>11, <2>1, FilteredPicks
  <2>3. PICK S \in SUBSET (1..Len(hist)) : S = (lo..n) \cap CountedIn(hist)
    BY <1>11
  <2>4. /\ Len(Counted(window)) = Cardinality(Since(n - Window))
        /\ Len(Counted(window)) - Len(Failed(Counted(window))) = Cardinality(GoodSince(n - Window))
    <3>1. Len(Counted(window)) = Cardinality(S)
          /\ Len(Counted(window)) - Len(Failed(Counted(window))) = Cardinality(S \cap GoodIn(hist))
      BY <2>2, <2>3, CountsOf
    <3> QED
      BY <1>12, <1>13, <2>3, <3>1
  <2> QED
    BY <2>4 DEF TrackerStats
<1>16. IF TrackerStats(window).last = NoRTT THEN \A i \in DOMAIN window : ~window[i].success
       ELSE \E i \in DOMAIN hist : /\ hist[i].rtt = TrackerStats(window).last /\ i >= n - Window
                                   /\ \A j \in (i + 1)..n : ~hist[j].success
  <2>1. PICK f : Picks(f, hist, window, lo..n)
    BY <1>9
  <2>2. PICK good, g : good \in Seq(Sample) /\ good = Good(window) /\ Picks(g, hist, good, (lo..n) \cap GoodIn(hist))
    BY <1>9, <1>11, <2>1, FilteredPicks
  <2>3. PICK N \in Nat : N = Len(good)
    OBVIOUS
  <2>4. /\ g \in [1..N -> (lo..n) \cap GoodIn(hist)]
        /\ \A i \in (lo..n) \cap GoodIn(hist) : \E k \in 1..N : g[k] = i
        /\ \A j, k \in 1..N : j < k => g[j] < g[k]
        /\ \A k \in 1..N : good[k] = hist[g[k]]
    BY <2>2, <2>3 DEF Picks, Enumerates
  <2>5. CASE N = 0
    <3>1. TrackerStats(window).last = NoRTT
      <4>1. good = <<>>
        <5>1. good \in Seq(Sample) /\ Len(good) = 0
          BY <2>2, <2>3, <2>5
        <5> QED
          BY ONLY <5>1
      <4> QED
        BY <2>2, <4>1 DEF TrackerStats
    <3>2. \A k \in DOMAIN window : f[k] \in lo..n /\ window[k] = hist[f[k]]
      <4>1. DOMAIN window = 1..Len(window)
        BY <1>9
      <4> QED
        BY <2>1, <4>1 DEF Picks, Enumerates
    <3>3. \A i \in lo..n : ~hist[i].success
      BY <1>1, <2>4, <2>5 DEF GoodIn
    <3> QED
      BY <3>1, <3>2, <3>3
  <2>6. CASE N # 0
    <3>1. N \in 1..N /\ good # <<>>
      BY <2>3, <2>6
    <3>2. TrackerStats(window).last = hist[g[N]].rtt
      BY <2>2, <2>3, <2>4, <3>1 DEF TrackerStats, Last
    <3>3. g[N] \in lo..n /\ g[N] \in 1..n /\ hist[g[N]].success
      BY <1>1, <2>4, <3>1 DEF GoodIn
    <3>4. hist[g[N]].rtt # NoRTT
      BY <1>3, <3>3 DEF NoRTT
    <3>5. g[N] >= n - Window
      BY <1>2, <1>4, <3>3
    <3>6. \A j \in (g[N] + 1)..n : ~hist[j].success
      <4> SUFFICES ASSUME NEW j \in (g[N] + 1)..n, hist[j].success PROVE FALSE
        OBVIOUS
      <4>1. j \in (lo..n) \cap GoodIn(hist)
        BY <1>1, <3>3 DEF GoodIn
      <4>2. PICK k \in 1..N : g[k] = j
        BY <2>4, <4>1
      <4>3. k = N \/ g[k] < g[N]
        BY <2>4, <3>1
      <4> QED
        BY <3>3, <4>2, <4>3
    <3> QED
      BY <1>1, <3>2, <3>3, <3>4, <3>5, <3>6
  <2> QED
    BY <2>5, <2>6
<1>17. PICK c, p : c \in Seq(Sample) /\ c = Counted(last) /\ Picks(p, hist, c, (recent..n) \cap CountedIn(hist))
  BY <1>10, <1>11, FilteredPicks
<1>18. PICK S \in SUBSET (1..Len(hist)) : S = (recent..n) \cap CountedIn(hist)
  BY <1>11
<1>19. /\ windowStats(last).sent = Cardinality(Since(n - Glance))
       /\ windowStats(last).sent - windowStats(last).lost = Cardinality(GoodSince(n - Glance))
  <2>1. /\ Len(c) = Cardinality(Since(n - Glance))
        /\ Len(c) - Len(Failed(c)) = Cardinality(GoodSince(n - Glance))
    <3>1. Len(c) = Cardinality(S) /\ Len(c) - Len(Failed(c)) = Cardinality(S \cap GoodIn(hist))
      BY <1>17, <1>18, CountsOf
    <3> QED
      BY <1>12, <1>13, <1>18, <3>1
  <2> QED
    BY <1>17, <2>1 DEF windowStats
<1>20. PICK G \in SUBSET (1..n) : G = GoodSince(n - Glance)
  BY <1>1, <1>13, <1>18
<1>21. IF G = {} THEN windowStats(last).med = NoRTT ELSE IsMedian(hist, G, windowStats(last).med)
  <2>1. PICK good, g : good \in Seq(Sample) /\ good = Good(c) /\ Picks(g, hist, good, G)
    <3>1. Good(c) \in Seq(Sample) /\ \E g : Picks(g, hist, Good(c), S \cap GoodIn(hist))
      BY <1>17, <1>18, FilteredPicks
    <3>2. S \cap GoodIn(hist) = G
      BY <1>13, <1>18, <1>20
    <3> QED
      BY <3>1, <3>2
  <2>2. Numbers(hist, G)
    BY <1>3, <1>13, <1>20 DEF GoodIn, Numbers
  <2>3. windowStats(last).med = IF RTTsIn(good) = <<>> THEN NoRTT
                                ELSE Sorted(RTTsIn(good))[(Len(RTTsIn(good)) \div 2) + 1]
    BY <1>17, <2>1 DEF windowStats, RTTs, RTTsIn
  <2>4. RTTsIn(good) = <<>> <=> G = {}
    BY <1>1, <2>1, <2>2, ValuesOf
  <2>5. G # {} => IsMedian(hist, G, Sorted(RTTsIn(good))[(Len(RTTsIn(good)) \div 2) + 1])
    BY <1>1, <2>1, <2>2, MedianPicks
  <2> QED
    BY <2>3, <2>4, <2>5
<1>22. IF G = {} THEN windowStats(last).med = NoRTT
       ELSE /\ \E i \in G : hist[i].rtt = windowStats(last).med
            /\ 2 * Cardinality({i \in G : hist[i].rtt < windowStats(last).med}) <= Cardinality(G)
            /\ 2 * Cardinality({i \in G : hist[i].rtt > windowStats(last).med}) < Cardinality(G)
  BY <1>21 DEF IsMedian
<1> QED
  BY <1>1, <1>8, <1>14, <1>15, <1>16, <1>19, <1>20, <1>22 DEF WindowExact

-----------------------------------------------------------------------------
(***************************************************************************)
(* The loss bursts.                                                        *)
(***************************************************************************)

Burst == [startedAt : Nat, endedAt : Nat, lost : Nat, gap : Int]
BurstAcc == [cur : Burst, prevEnd : Nat, done : Seq(Burst)]
NoBursts == [cur |-> NoBurst, prevEnd |-> 0, done |-> <<>>]

\* What the loop over the samples has come to.
Grouped(samples) == FoldLeft(LAMBDA a, s : BurstStep(a, s), NoBursts, samples)

LEMMA BurstStepType ==
    ASSUME NEW a \in BurstAcc, NEW s \in Sample
    PROVE  BurstStep(a, s) \in BurstAcc
<1>1. a.cur \in Burst /\ a.prevEnd \in Nat /\ a.done \in Seq(Burst) /\ s.ts \in Nat
  BY DEF BurstAcc, Sample
<1>2. NoBurst \in Burst
  BY DEF NoBurst, Burst
<1>3. Ended(a) \in BurstAcc
  <2>1. a.cur.endedAt \in Nat /\ Append(a.done, a.cur) \in Seq(Burst)
    <3>1. a.cur.endedAt \in Nat
      BY <1>1 DEF Burst
    <3> QED
      BY <1>1, <3>1
  <2>2. [cur |-> NoBurst, prevEnd |-> a.cur.endedAt, done |-> Append(a.done, a.cur)] \in BurstAcc
    BY <1>2, <2>1 DEF BurstAcc
  <2> QED
    BY <2>2 DEF Ended
<1>4. Lengthened(a, s) \in Burst
  <2>1. CASE a.cur = NoBurst
    <3>1. s.ts - a.prevEnd \in Int /\ 0 \in Int /\ 1 \in Nat
      BY <1>1
    <3>2. [startedAt |-> s.ts, endedAt |-> s.ts, lost |-> 1,
           gap |-> IF a.prevEnd > 0 THEN s.ts - a.prevEnd ELSE 0] \in Burst
      BY <1>1, <3>1 DEF Burst
    <3> QED
      BY <2>1, <3>2 DEF Lengthened, NoGap
  <2>2. CASE a.cur # NoBurst
    <3>1. a.cur.lost + 1 \in Nat
      BY <1>1 DEF Burst
    <3>2. [a.cur EXCEPT !.endedAt = s.ts, !.lost = a.cur.lost + 1] \in Burst
      BY <1>1, <3>1 DEF Burst
    <3> QED
      BY <2>2, <3>2 DEF Lengthened
  <2> QED
    BY <2>1, <2>2
<1>5. [a EXCEPT !.cur = Lengthened(a, s)] \in BurstAcc
  BY <1>4 DEF BurstAcc
<1> QED
  BY <1>3, <1>5 DEF BurstStep

\* The loop makes a pass over the samples.
LEMMA GroupedIsPass ==
    ASSUME NEW samples \in Seq(Sample)
    PROVE  \E acc : /\ IsPass(acc, BurstAcc, [p \in BurstAcc \X Sample |-> BurstStep(p[1], p[2])],
                              NoBursts, samples)
                    /\ Grouped(samples) = acc[Len(samples)]
<1> DEFINE step == [p \in BurstAcc \X Sample |-> BurstStep(p[1], p[2])]
           dom == SUBSET (1..Len(samples))
           iter == CHOOSE it : it = [T \in dom |-> IF T = {} THEN NoBursts
                                       ELSE BurstStep(it[T \ {Max(T)}], samples[Max(T)])]
<1>1. step \in [BurstAcc \X Sample -> BurstAcc] /\ NoBursts \in BurstAcc
  <2>1. NoBursts \in BurstAcc
    BY DEF NoBursts, BurstAcc, NoBurst, Burst
  <2>2. \A p \in BurstAcc \X Sample : BurstStep(p[1], p[2]) \in BurstAcc
    BY BurstStepType
  <2> QED
    BY <2>1, <2>2
<1>2. \A a \in BurstAcc, s \in Sample : step[<<a, s>>] = BurstStep(a, s)
  OBVIOUS
<1>3. DOMAIN samples = 1..Len(samples) /\ Len(samples) \in Nat /\ Len(samples) \in 0..Len(samples)
  OBVIOUS
<1>4. \A T \in dom : T # {} => Max(T) \in 1..Len(samples) /\ samples[Max(T)] \in Sample /\ T \ {Max(T)} \in dom
  <2> TAKE T \in dom
  <2> HAVE T # {}
  <2>1. Max(T) \in T
    BY <1>3, MaxOf
  <2>2. Max(T) \in 1..Len(samples)
    BY <2>1
  <2>3. samples[Max(T)] \in Sample
    <3> HIDE DEF Sample
    <3> QED
      BY <2>2
  <2>4. T \ {Max(T)} \in dom
    OBVIOUS
  <2> QED
    BY <2>2, <2>3, <2>4
<1>5. iter = [T \in dom |-> IF T = {} THEN NoBursts ELSE BurstStep(iter[T \ {Max(T)}], samples[Max(T)])]
  <2> HIDE DEF step
  <2>0. PICK F : IsFold(F, BurstAcc, step, NoBursts, samples)
    BY <1>1, FoldExists
  <2>1. /\ F \in [dom -> BurstAcc]
        /\ \A T \in dom : F[T] = IF T = {} THEN NoBursts ELSE step[<<F[T \ {Max(T)}], samples[Max(T)]>>]
    BY <2>0 DEF IsFold
  <2> HIDE DEF dom
  <2>2. \A T \in dom : F[T] = IF T = {} THEN NoBursts ELSE BurstStep(F[T \ {Max(T)}], samples[Max(T)])
    BY <1>2, <1>4, <2>1
  <2>3. F = [T \in dom |-> IF T = {} THEN NoBursts ELSE BurstStep(F[T \ {Max(T)}], samples[Max(T)])]
    BY <2>1, <2>2
  <2> QED
    BY <2>3
<1>6. Grouped(samples) = iter[1..Len(samples)]
  BY <1>3 DEF Grouped, FoldLeft, MapThenFoldSet
<1>7. IsPass([k \in 0..Len(samples) |-> iter[1..k]], BurstAcc, step, NoBursts, samples)
  <2>1. \A T \in dom : IF T = {} THEN iter[T] = NoBursts
                       ELSE iter[T \ {Max(T)}] \in BurstAcc
                              => iter[T] = step[<<iter[T \ {Max(T)}], samples[Max(T)]>>]
    <3> HIDE DEF step, iter, dom
    <3>1. \A T \in dom : iter[T] = IF T = {} THEN NoBursts ELSE BurstStep(iter[T \ {Max(T)}], samples[Max(T)])
      BY <1>5
    <3> QED
      BY <1>2, <1>4, <3>1
  <2>2. Folds(iter, BurstAcc, step, NoBursts, samples)
    <3> HIDE DEF step, iter
    <3> QED
      BY <2>1 DEF Folds
  <2> HIDE DEF step, iter
  <2> QED
    BY <1>1, <2>2, PassIs
<1> DEFINE acc == [k \in 0..Len(samples) |-> iter[1..k]]
<1>8. acc[Len(samples)] = iter[1..Len(samples)]
  BY <1>3
<1> HIDE DEF acc, iter
<1> QED
  BY <1>6, <1>7, <1>8 DEF acc

\* The bursts so far, sample by sample.
LEMMA GroupedGrows ==
    ASSUME NEW samples \in Seq(Sample), NEW s \in Sample
    PROVE  /\ Grouped(<<>>) = NoBursts
           /\ Grouped(samples) \in BurstAcc
           /\ Grouped(Append(samples, s)) = BurstStep(Grouped(samples), s)
<1> DEFINE step == [p \in BurstAcc \X Sample |-> BurstStep(p[1], p[2])]
           more == Append(samples, s)
<1>1. more \in Seq(Sample) /\ <<>> \in Seq(Sample) /\ Len(<<>>) = 0 /\ Len(samples) \in 0..Len(samples)
  OBVIOUS
<1>2. PICK f : IsPass(f, BurstAcc, step, NoBursts, samples) /\ Grouped(samples) = f[Len(samples)]
  BY GroupedIsPass
<1>3. PICK g : IsPass(g, BurstAcc, step, NoBursts, more) /\ Grouped(more) = g[Len(more)]
  <2> HIDE DEF more
  <2> QED
    BY <1>1, GroupedIsPass
<1>4. PICK e : IsPass(e, BurstAcc, step, NoBursts, <<>>) /\ Grouped(<<>>) = e[0]
  BY <1>1, GroupedIsPass
<1>5. Grouped(<<>>) = NoBursts
  BY <1>4 DEF IsPass
<1>6. Grouped(samples) \in BurstAcc
  BY <1>1, <1>2 DEF IsPass
<1>7. g[Len(more)] = step[<<f[Len(samples)], s>>]
  <2> HIDE DEF step
  <2> QED
    BY <1>2, <1>3, PassGoesOn
<1>8. step[<<f[Len(samples)], s>>] = BurstStep(f[Len(samples)], s)
  BY <1>2, <1>6
<1> QED
  BY <1>2, <1>3, <1>5, <1>6, <1>7, <1>8

-----------------------------------------------------------------------------
FailedAt   == {j \in CountedAt : ~hist[j].success}
FailedRuns == {RunAt(i) : i \in FailedAt}
WholeRuns  == {r \in FailedRuns : \A q \in FailedRuns : r \subseteq q => q = r}

\* A burst is the run of failures that ends where it ends.
Spans(b) ==
    /\ b.endedAt \in FailedAt
    /\ b.startedAt \in RunAt(b.endedAt)
    /\ \A i \in RunAt(b.endedAt) : b.startedAt <= i
    /\ b.lost = Cardinality(RunAt(b.endedAt))

\* Bursts are the runs of failures, in order, apart, and none is missing.
AreTheRuns(bursts) ==
    /\ \A k \in 1..Len(bursts) : Spans(bursts[k])
    /\ \A j, k \in 1..Len(bursts) : j < k => bursts[j].endedAt < bursts[k].startedAt
    /\ \A k \in 2..Len(bursts) : bursts[k].gap = bursts[k].startedAt - bursts[k - 1].endedAt
    /\ \A i \in FailedAt : \E k \in 1..Len(bursts) : RunAt(i) \subseteq RunAt(bursts[k].endedAt)

BurstsOf(a) == IF a.cur = NoBurst THEN a.done ELSE Append(a.done, a.cur)

\* A burst is under way while the last sample that counts is a failure.
UnderWay(a) ==
    /\ IF a.cur = NoBurst THEN \A i \in CountedAt : (\A j \in CountedAt : j <= i) => hist[i].success
       ELSE \A j \in CountedAt : j <= a.cur.endedAt
    /\ a.prevEnd = IF a.done = <<>> THEN 0 ELSE a.done[Len(a.done)].endedAt

BurstsInv == AreTheRuns(BurstsOf(Grouped(hist))) /\ UnderWay(Grouped(hist))

\* What was a burst stays one.
LEMMA SpansKept ==
    ASSUME hist \in Seq(Sample), NEW s \in Sample, hist' = Append(hist, s), NEW b, Spans(b)
    PROVE  Spans(b)'
<1>1. PICK n \in Nat : n = Len(hist)
  OBVIOUS
<1>2. /\ CountedAt \subseteq CountedAt' /\ CountedAt \subseteq 1..n
      /\ \A i \in CountedAt : RunAt(i)' = RunAt(i)
      /\ \A i \in 1..n : hist'[i] = hist[i]
  BY <1>1, OneMoreSample
<1>3. b.endedAt \in FailedAt' /\ RunAt(b.endedAt)' = RunAt(b.endedAt)
  BY <1>2 DEF Spans, FailedAt
<1> QED
  BY <1>3 DEF Spans

\* One more burst, or a longer one in its place.
LEMMA BurstsGoOn ==
    ASSUME hist \in Seq(Sample), NEW s \in Sample, hist' = Append(hist, s),
           ~s.duringSpeedtest, ~s.success,
           NEW done \in Seq(Burst), NEW c \in Burst, NEW M \in Nat, M = Len(done),
           c.endedAt = Len(hist) + 1, Spans(c)',
           \A k \in 1..M : Spans(done[k]) /\ done[k].endedAt < c.startedAt,
           \A j, k \in 1..M : j < k => done[j].endedAt < done[k].startedAt,
           \A k \in 2..M : done[k].gap = done[k].startedAt - done[k - 1].endedAt,
           M > 0 => c.gap = c.startedAt - done[M].endedAt,
           \A i \in FailedAt : \/ \E k \in 1..M : RunAt(i) \subseteq RunAt(done[k].endedAt)
                               \/ RunAt(i) \subseteq RunAt(c.endedAt)'
    PROVE  AreTheRuns(Append(done, c))'
<1>1. PICK n \in Nat : n = Len(hist)
  OBVIOUS
<1>2. PICK b : b = Append(done, c)
  OBVIOUS
<1>3. /\ b \in Seq(Burst) /\ Len(b) = M + 1 /\ b[M + 1] = c
      /\ \A k \in 1..M : b[k] = done[k]
  BY <1>2
<1>4. \A k \in 1..(M + 1) : k = M + 1 \/ k \in 1..M
  OBVIOUS
<1>5. \A k \in 1..(M + 1) : Spans(b[k])'
  <2> TAKE k \in 1..(M + 1)
  <2>1. CASE k = M + 1
    BY <1>3, <2>1
  <2>2. CASE k \in 1..M
    <3>1. PICK d : d = done[k] /\ d = b[k]
      BY <1>3, <2>2
    <3>2. Spans(d)'
      BY <2>2, <3>1, SpansKept
    <3> QED
      BY <3>1, <3>2
  <2> QED
    BY <1>4, <2>1, <2>2
<1>6. \A j, k \in 1..(M + 1) : j < k => b[j].endedAt < b[k].startedAt
  <2> TAKE j, k \in 1..(M + 1)
  <2> HAVE j < k
  <2>1. j \in 1..M
    OBVIOUS
  <2> QED
    BY <1>3, <1>4, <2>1
<1>7. \A k \in 2..(M + 1) : b[k].gap = b[k].startedAt - b[k - 1].endedAt
  <2> TAKE k \in 2..(M + 1)
  <2>1. CASE k = M + 1
    <3>1. M > 0 /\ k - 1 = M /\ M \in 1..M
      BY <2>1
    <3> QED
      BY <1>3, <2>1, <3>1
  <2>2. CASE k # M + 1
    <3>1. k \in 2..M /\ k \in 1..M /\ k - 1 \in 1..M
      BY <2>2
    <3> QED
      BY <1>3, <3>1
  <2> QED
    BY <2>1, <2>2
<1>8. \A i \in FailedAt' : \E k \in 1..(M + 1) : RunAt(i)' \subseteq RunAt(b[k].endedAt)'
  <2>1. /\ CountedAt \subseteq 1..n /\ CountedAt' = CountedAt \union {n + 1}
        /\ \A i \in CountedAt : RunAt(i)' = RunAt(i)
        /\ \A i \in 1..n : hist'[i] = hist[i]
    BY <1>1, OneMoreSample
  <2> TAKE i \in FailedAt'
  <2>2. M + 1 \in 1..(M + 1)
    OBVIOUS
  <2>3. CASE i = n + 1
    <3>1. i = b[M + 1].endedAt
      BY <1>1, <1>3, <2>3
    <3> QED
      BY <2>2, <3>1
  <2>4. CASE i # n + 1
    <3>1. i \in FailedAt /\ i \in CountedAt
      BY <2>1, <2>4 DEF FailedAt
    <3>2. RunAt(i)' = RunAt(i)
      BY <2>1, <3>1
    <3>3. CASE \E k \in 1..M : RunAt(i) \subseteq RunAt(done[k].endedAt)
      <4>1. PICK k \in 1..M : RunAt(i) \subseteq RunAt(done[k].endedAt)
        BY <3>3
      <4>2. done[k].endedAt \in CountedAt
        BY <4>1 DEF Spans, FailedAt
      <4>3. PICK e : e = done[k].endedAt /\ e = b[k].endedAt
        BY <1>3, <4>1
      <4>4. RunAt(e)' = RunAt(e)
        BY <2>1, <4>2, <4>3
      <4>5. k \in 1..(M + 1)
        OBVIOUS
      <4> QED
        BY <3>2, <4>1, <4>3, <4>4, <4>5
    <3>4. CASE RunAt(i) \subseteq RunAt(c.endedAt)'
      BY <1>3, <2>2, <3>2, <3>4
    <3> QED
      BY <3>1, <3>3, <3>4
  <2> QED
    BY <2>3, <2>4
<1>9. AreTheRuns(b)'
  BY <1>3, <1>5, <1>6, <1>7, <1>8 DEF AreTheRuns
<1> QED
  BY <1>2, <1>9

LEMMA BurstsInit == HInit => BurstsInv
<1> SUFFICES ASSUME HInit PROVE BurstsInv
  OBVIOUS
<1>1. hist = <<>> /\ Grouped(hist) = NoBursts
  <2>1. hist = <<>> /\ hist \in Seq(Sample)
    BY DEF HInit
  <2>2. \E s : s \in Sample
    <3> DEFINE s == [ts |-> 0, success |-> TRUE, rtt |-> LoadedRTT, duringSpeedtest |-> FALSE]
    <3>1. s \in Sample
      BY DEF Sample
    <3> QED
      BY <3>1
  <2> QED
    BY <2>1, <2>2, GroupedGrows
<1>2. CountedAt = {} /\ FailedAt = {}
  BY <1>1 DEF CountedAt, FailedAt
<1>3. BurstsOf(NoBursts) = <<>> /\ Len(<<>>) = 0
  BY DEF BurstsOf, NoBursts
<1>4. AreTheRuns(<<>>)
  BY <1>2, <1>3 DEF AreTheRuns
<1>5. UnderWay(NoBursts)
  BY <1>2 DEF UnderWay, NoBursts
<1> QED
  BY <1>1, <1>3, <1>4, <1>5 DEF BurstsInv

\* The bursts and the samples that came after the last of them.
LEMMA BurstsFed ==
    ASSUME hist \in Seq(Sample), BurstsInv, NEW s \in Sample, s.ts = Len(hist) + 1,
           hist' = Append(hist, s)
    PROVE  BurstsInv'
<1>1. PICK n \in Nat : n = Len(hist)
  OBVIOUS
<1>2. PICK a \in BurstAcc : a = Grouped(hist)
  BY GroupedGrows
<1>3. PICK z \in BurstAcc : z = Grouped(hist') /\ z = BurstStep(a, s)
  BY <1>2, GroupedGrows, BurstStepType
<1>4. a.cur \in Burst /\ a.prevEnd \in Nat /\ a.done \in Seq(Burst)
  BY DEF BurstAcc
<1>5. PICK bursts : bursts = BurstsOf(a)
  OBVIOUS
<1>6. AreTheRuns(bursts) /\ UnderWay(a)
  BY <1>2, <1>5 DEF BurstsInv
<1>7. bursts \in Seq(Burst)
  BY <1>4, <1>5 DEF BurstsOf
<1>8. PICK N \in Nat : N = Len(bursts)
  BY <1>7
<1>9. /\ hist'[n + 1] = s
      /\ \A i \in 1..n : hist'[i] = hist[i]
      /\ CountedAt \subseteq 1..n
      /\ CountedAt' = IF s.duringSpeedtest THEN CountedAt ELSE CountedAt \union {n + 1}
      /\ \A i \in CountedAt : RunAt(i)' = RunAt(i)
  BY <1>1, OneMoreSample
<1>10. s.duringSpeedtest \in BOOLEAN /\ s.success \in BOOLEAN /\ s.ts = n + 1
  BY <1>1 DEF Sample
<1>11. SUFFICES AreTheRuns(BurstsOf(z))' /\ UnderWay(z)'
  BY <1>3 DEF BurstsInv
\* No new failure: the bursts stay what they are.
<1>12. ASSUME FailedAt' = FailedAt PROVE AreTheRuns(bursts)'
  <2>1. \A k \in 1..N : Spans(bursts[k])'
    <3> TAKE k \in 1..N
    <3>1. PICK b : b = bursts[k]
      OBVIOUS
    <3>2. Spans(b)
      BY <1>6, <1>8, <3>1 DEF AreTheRuns
    <3>3. Spans(b)'
      BY <3>2, SpansKept
    <3> QED
      BY <3>1, <3>3
  <2>2. \A i \in FailedAt : \E k \in 1..N : RunAt(i)' \subseteq RunAt(bursts[k].endedAt)'
    <3> TAKE i \in FailedAt
    <3>1. PICK k \in 1..N : RunAt(i) \subseteq RunAt(bursts[k].endedAt)
      BY <1>6, <1>8 DEF AreTheRuns
    <3>2. PICK e : e = bursts[k].endedAt
      OBVIOUS
    <3>3. e \in CountedAt /\ i \in CountedAt
      BY <1>6, <1>8, <3>2 DEF AreTheRuns, Spans, FailedAt
    <3>4. RunAt(e)' = RunAt(e) /\ RunAt(i)' = RunAt(i)
      BY <1>9, <3>3
    <3> QED
      BY <3>1, <3>2, <3>4
  <2> QED
    BY <1>6, <1>8, <1>12, <2>1, <2>2 DEF AreTheRuns
\* A sample taken during a speed test.
<1>13. CASE s.duringSpeedtest
  <2>1. z = a /\ CountedAt' = CountedAt
    BY <1>3, <1>9, <1>13 DEF BurstStep
  <2>2. FailedAt' = FailedAt
    BY <1>9, <2>1 DEF FailedAt
  <2>3. UnderWay(a)'
    BY <1>6, <1>9, <2>1 DEF UnderWay
  <2> QED
    BY <1>5, <1>12, <2>1, <2>2, <2>3
\* An answer.
<1>14. CASE ~s.duringSpeedtest /\ s.success
  <2>1. z = Ended(a) /\ CountedAt' = CountedAt \union {n + 1}
    BY <1>3, <1>9, <1>14 DEF BurstStep
  <2>2. FailedAt' = FailedAt
    BY <1>9, <1>14, <2>1 DEF FailedAt
  <2>3. z.cur = NoBurst /\ BurstsOf(z) = bursts
    BY <1>5, <2>1 DEF Ended, BurstsOf
  <2>4. \A i \in CountedAt' : (\A j \in CountedAt' : j <= i) => hist'[i].success
    <3> SUFFICES ASSUME NEW i \in CountedAt', \A j \in CountedAt' : j <= i PROVE hist'[i].success
      OBVIOUS
    <3>1. n + 1 <= i
      BY <2>1
    <3>2. i = n + 1
      BY <1>9, <2>1, <3>1
    <3> QED
      BY <1>9, <1>14, <3>2
  <2>5. z.prevEnd = IF z.done = <<>> THEN 0 ELSE z.done[Len(z.done)].endedAt
    <3>1. CASE a.cur = NoBurst
      BY <1>6, <2>1, <3>1 DEF Ended, UnderWay
    <3>2. CASE a.cur # NoBurst
      <4>1. PICK d : d = Append(a.done, a.cur)
        OBVIOUS
      <4>2. d # <<>> /\ d[Len(d)] = a.cur
        BY <1>4, <4>1
      <4> QED
        BY <2>1, <3>2, <4>1, <4>2 DEF Ended
    <3> QED
      BY <3>1, <3>2
  <2>6. UnderWay(z)'
    BY <2>3, <2>4, <2>5 DEF UnderWay
  <2> QED
    BY <1>12, <2>2, <2>3, <2>6
\* A failure.
<1>15. CASE ~s.duringSpeedtest /\ ~s.success
  <2>1. PICK c \in Burst : c = Lengthened(a, s) /\ c = z.cur /\ z.done = a.done /\ z.prevEnd = a.prevEnd
    <3>1. z = [a EXCEPT !.cur = Lengthened(a, s)]
      BY <1>3, <1>15 DEF BurstStep
    <3>2. z.cur = Lengthened(a, s) /\ z.done = a.done /\ z.prevEnd = a.prevEnd
      BY <3>1 DEF BurstAcc
    <3>3. z.cur \in Burst
      BY DEF BurstAcc
    <3> QED
      BY <3>2, <3>3
  <2>2. PICK done \in Seq(Burst) : done = a.done
    BY <1>4
  <2>3. PICK M \in Nat : M = Len(done)
    OBVIOUS
  <2>4. c.endedAt = n + 1
    BY <1>4, <1>10, <2>1 DEF Lengthened, Burst
  <2>5. CountedAt' = CountedAt \union {n + 1} /\ n + 1 \in FailedAt'
    BY <1>9, <1>15 DEF FailedAt
  <2>6. c # NoBurst
    BY <2>4 DEF NoBurst
  <2>7. BurstsOf(z) = Append(done, c)
    BY <2>1, <2>2, <2>6 DEF BurstsOf
  <2>8. UnderWay(z)'
    <3>1. \A j \in CountedAt' : j <= c.endedAt
      BY <1>9, <2>4, <2>5
    <3>2. z.prevEnd = IF z.done = <<>> THEN 0 ELSE z.done[Len(z.done)].endedAt
      BY <1>6, <2>1 DEF UnderWay
    <3> QED
      BY <2>1, <2>6, <3>1, <3>2 DEF UnderWay
  <2>9. /\ N = IF a.cur = NoBurst THEN M ELSE M + 1
        /\ \A k \in 1..M : bursts[k] = done[k] /\ k \in 1..N
        /\ a.cur # NoBurst => bursts[M + 1] = a.cur /\ M + 1 \in 1..N
    BY <1>4, <1>5, <1>8, <2>2, <2>3 DEF BurstsOf
  <2>10. \A k \in 1..M : Spans(done[k])
    BY <1>6, <1>8, <2>9 DEF AreTheRuns
  <2>11. \A j, k \in 1..M : j < k => done[j].endedAt < done[k].startedAt
    BY <1>6, <1>8, <2>9 DEF AreTheRuns
  <2>12. \A k \in 2..M : done[k].gap = done[k].startedAt - done[k - 1].endedAt
    <3> TAKE k \in 2..M
    <3>1. k \in 1..M /\ k - 1 \in 1..M
      OBVIOUS
    <3>2. k \in 2..N
      BY <2>9, <3>1
    <3> QED
      BY <1>6, <1>8, <2>9, <3>1, <3>2 DEF AreTheRuns
  <2>13. \A k \in 1..M : done[k].endedAt \in 1..n
    BY <1>9, <2>10 DEF Spans, FailedAt
  <2>14. M > 0 => a.prevEnd = done[M].endedAt
    BY <1>6, <2>2, <2>3 DEF UnderWay
  <2>15. M = 0 => a.prevEnd = 0
    <3>1. M = 0 => done = <<>>
      <4>1. \A d \in Seq(Burst) : Len(d) = 0 => d = <<>>
        OBVIOUS
      <4> QED
        BY <2>3, <4>1
    <3> QED
      BY <1>6, <2>2, <3>1 DEF UnderWay
  \* It begins a burst.
  <2>16. CASE a.cur = NoBurst
    <3>1. RunAt(n + 1)' = {n + 1}
      <4>1. CASE CountedAt = {}
        BY <1>1, <1>15, <4>1, RunGoesOn
      <4>2. CASE CountedAt # {}
        <5>1. PICK last \in CountedAt : \A j \in CountedAt : j <= last
          BY <1>9, <4>2, MaxOf
        <5>2. hist[last].success
          BY <1>6, <2>16, <5>1 DEF UnderWay
        <5>3. hist[last].success # s.success
          BY <1>15, <5>2
        <5> QED
          BY <1>1, <1>15, <5>1, <5>3, RunGoesOn
      <4> QED
        BY <4>1, <4>2
    <3>2. /\ c.startedAt = n + 1 /\ c.lost = 1
          /\ c.gap = IF a.prevEnd > 0 THEN c.startedAt - a.prevEnd ELSE 0
      <4>1. c = [startedAt |-> s.ts, endedAt |-> s.ts, lost |-> 1,
                 gap |-> IF a.prevEnd > 0 THEN s.ts - a.prevEnd ELSE 0]
        BY <2>1, <2>16, Zenon DEF Lengthened, NoGap
      <4>2. /\ c.startedAt = s.ts /\ c.lost = 1
            /\ c.gap = IF a.prevEnd > 0 THEN s.ts - a.prevEnd ELSE 0
        BY <4>1, Zenon
      <4> QED
        BY <1>10, <4>2, Zenon
    <3>3. Spans(c)'
      <4>1. Cardinality({n + 1}) = 1
        BY FS_Singleton
      <4>2. RunAt(c.endedAt)' = {n + 1}
        BY <2>4, <3>1
      <4>3. c.endedAt \in FailedAt' /\ c.startedAt \in RunAt(c.endedAt)'
        BY <2>4, <2>5, <3>2, <4>2
      <4>4. \A i \in RunAt(c.endedAt)' : c.startedAt <= i
        BY <3>2, <4>2
      <4>5. c.lost = Cardinality(RunAt(c.endedAt)')
        BY <3>2, <4>1, <4>2
      <4> QED
        BY <4>3, <4>4, <4>5 DEF Spans
    <3>4. \A k \in 1..M : Spans(done[k]) /\ done[k].endedAt < c.startedAt
      BY <2>10, <2>13, <3>2
    <3>5. M > 0 => c.gap = c.startedAt - done[M].endedAt
      BY <2>13, <2>14, <3>2
    <3>6. \A i \in FailedAt : \/ \E k \in 1..M : RunAt(i) \subseteq RunAt(done[k].endedAt)
                              \/ RunAt(i) \subseteq RunAt(c.endedAt)'
      BY <1>6, <1>8, <2>9, <2>16 DEF AreTheRuns
    <3>7. AreTheRuns(Append(done, c))'
      BY <1>1, <1>15, <2>3, <2>4, <2>11, <2>12, <3>3, <3>4, <3>5, <3>6, BurstsGoOn
    <3> QED
      BY <2>7, <2>8, <3>7
  \* It prolongs the one under way.
  <2>17. CASE a.cur # NoBurst
    <3>1. PICK last : last = a.cur.endedAt
      OBVIOUS
    <3>2. Spans(a.cur)
      BY <1>6, <1>8, <2>9, <2>17 DEF AreTheRuns
    <3>3. last \in CountedAt /\ ~hist[last].success /\ \A j \in CountedAt : j <= last
      BY <1>6, <2>17, <3>1, <3>2 DEF Spans, FailedAt, UnderWay
    <3>4. hist[last].success \in BOOLEAN
      <4>1. hist[last] \in Sample
        BY <1>1, <1>9, <3>3
      <4> QED
        BY <4>1 DEF Sample
    <3>5. RunAt(n + 1)' = RunAt(last) \union {n + 1}
      BY <1>1, <1>10, <1>15, <3>3, <3>4, RunGoesOn
    <3>6. c.startedAt = a.cur.startedAt /\ c.lost = a.cur.lost + 1 /\ c.gap = a.cur.gap
      BY <1>4, <2>1, <2>17 DEF Lengthened, Burst
    <3>7. RunAt(last) \subseteq 1..n
      BY <1>9 DEF RunAt
    <3>8. RunAt(c.endedAt)' = RunAt(last) \union {n + 1}
      BY <2>4, <3>5
    <3>9. Spans(c)'
      <4>1. IsFiniteSet(RunAt(last))
        <5>1. IsFiniteSet(1..n)
          BY FS_Interval
        <5> QED
          BY <3>7, <5>1, FS_Subset
      <4>2. Cardinality(RunAt(last) \union {n + 1}) = Cardinality(RunAt(last)) + 1
        <5>1. n + 1 \notin RunAt(last)
          BY <3>7
        <5> QED
          BY <4>1, <5>1, FS_AddElement
      <4>3. a.cur.startedAt \in RunAt(last) /\ a.cur.lost = Cardinality(RunAt(last))
            /\ \A i \in RunAt(last) : a.cur.startedAt <= i
        BY <3>1, <3>2 DEF Spans
      <4>4. c.startedAt <= n + 1
        BY <3>6, <3>7, <4>3
      <4>5. c.endedAt \in FailedAt'
        BY <2>4, <2>5
      <4>6. c.lost = Cardinality(RunAt(c.endedAt)')
        BY <3>6, <3>8, <4>2, <4>3
      <4> QED
        BY <3>6, <3>8, <4>3, <4>4, <4>5, <4>6 DEF Spans
    <3>10. \A k \in 1..M : Spans(done[k]) /\ done[k].endedAt < c.startedAt
      <4>1. \A k \in 1..M : k < M + 1
        OBVIOUS
      <4> QED
        BY <1>6, <1>8, <2>9, <2>10, <2>17, <3>6, <4>1 DEF AreTheRuns
    <3>11. M > 0 => c.gap = c.startedAt - done[M].endedAt
      <4> SUFFICES ASSUME M > 0 PROVE c.gap = c.startedAt - done[M].endedAt
        OBVIOUS
      <4>1. M + 1 \in 2..N /\ M \in 1..M /\ (M + 1) - 1 = M
        BY <2>9, <2>17
      <4> QED
        BY <1>6, <1>8, <2>9, <2>17, <3>6, <4>1 DEF AreTheRuns
    <3>12. \A i \in FailedAt : \/ \E k \in 1..M : RunAt(i) \subseteq RunAt(done[k].endedAt)
                               \/ RunAt(i) \subseteq RunAt(c.endedAt)'
      <4> TAKE i \in FailedAt
      <4>1. PICK k \in 1..N : RunAt(i) \subseteq RunAt(bursts[k].endedAt)
        BY <1>6, <1>8 DEF AreTheRuns
      <4>2. CASE k = M + 1
        <5>1. bursts[k].endedAt = last
          BY <2>9, <2>17, <3>1, <4>2
        <5> QED
          BY <3>8, <4>1, <5>1
      <4>3. CASE k # M + 1
        <5>1. k \in 1..M
          BY <2>9, <2>17, <4>3
        <5> QED
          BY <2>9, <4>1, <5>1
      <4> QED
        BY <4>2, <4>3
    <3>13. AreTheRuns(Append(done, c))'
      BY <1>1, <1>15, <2>3, <2>4, <2>11, <2>12, <3>9, <3>10, <3>11, <3>12, BurstsGoOn
    <3> QED
      BY <2>7, <2>8, <3>13
  <2> QED
    BY <2>16, <2>17
<1> QED
  BY <1>10, <1>13, <1>14, <1>15

\* The gaps before a burst that a value is above, or below.
GapsBelow(bursts, v) == {k \in 2..Len(bursts) : bursts[k].gap < v}
GapsAbove(bursts, v) == {k \in 2..Len(bursts) : bursts[k].gap > v}

\* The median is that of the gaps before all bursts but the first.
LEMMA BurstsGap ==
    ASSUME NEW bursts \in Seq(Burst), NEW N \in Nat, N = Len(bursts), N >= 2
    PROVE  /\ \E k \in 2..N : bursts[k].gap = MedianGap(bursts)
           /\ 2 * Cardinality(GapsBelow(bursts, MedianGap(bursts))) <= Cardinality(2..N)
           /\ 2 * Cardinality(GapsAbove(bursts, MedianGap(bursts))) < Cardinality(2..N)
<1> DEFINE gaps == [i \in 1..(N - 1) |-> bursts[i + 1].gap]
<1>1. \A k \in 1..N : bursts[k].gap \in Int
  <2>1. \A k \in 1..N : bursts[k] \in Burst
    OBVIOUS
  <2> QED
    BY <2>1 DEF Burst
<1>2. gaps \in [1..(N - 1) -> Int]
  BY <1>1
<1>3. gaps \in Seq(Int) /\ Len(gaps) = N - 1 /\ N - 1 \in Nat
  <2>1. N - 1 \in Nat
    OBVIOUS
  <2> HIDE DEF gaps
  <2> QED
    BY <1>2, <2>1
<1>4. \A i \in 1..(N - 1) : gaps[i] = bursts[i + 1].gap
  OBVIOUS
<1>5. PICK median : median = MedianGap(bursts)
  OBVIOUS
<1>6. median = Sorted(gaps)[((N - 1) \div 2) + 1]
  <2>1. Len(Sorted(gaps)) = N - 1
    <3> HIDE DEF gaps
    <3> QED
      BY <1>3, SortedType
  <2>2. ~(Len(bursts) < 2) /\ Len(bursts) - 1 = N - 1
    OBVIOUS
  <2>3. gaps = [i \in 1..(Len(bursts) - 1) |-> bursts[i + 1].gap]
    OBVIOUS
  <2> HIDE DEF gaps
  <2> QED
    BY <1>5, <2>1, <2>2, <2>3 DEF MedianGap
<1> HIDE DEF gaps
<1> DEFINE less == {i \in 1..(N - 1) : gaps[i] < median}
           more == {i \in 1..(N - 1) : gaps[i] > median}
<1>7. /\ \E i \in 1..(N - 1) : gaps[i] = median
      /\ 2 * Cardinality(less) <= N - 1
      /\ 2 * Cardinality(more) < N - 1
  <2>1. N - 1 > 0
    OBVIOUS
  <2> QED
    BY <1>3, <1>6, <2>1, MiddleOf
<1>8. \A S \in SUBSET (1..(N - 1)) : Cardinality(Shifted(S, 1)) = Cardinality(S)
  <2> TAKE S \in SUBSET (1..(N - 1))
  <2>1. IsFiniteSet(1..(N - 1))
    BY FS_Interval
  <2>2. IsFiniteSet(S)
    BY <2>1, FS_Subset
  <2>3. S \in SUBSET Int /\ 1 \in Int
    OBVIOUS
  <2> QED
    BY <2>2, <2>3, ShiftedCount
<1>9. \A k \in 2..N : k - 1 \in 1..(N - 1) /\ (k - 1) + 1 = k /\ gaps[k - 1] = bursts[k].gap
  <2> TAKE k \in 2..N
  <2>1. k - 1 \in 1..(N - 1) /\ (k - 1) + 1 = k
    OBVIOUS
  <2> QED
    BY <1>4, <2>1
<1>10. \A i \in 1..(N - 1) : i + 1 \in 2..N /\ gaps[i] = bursts[i + 1].gap
  <2>1. \A i \in 1..(N - 1) : i + 1 \in 2..N
    OBVIOUS
  <2> QED
    BY <1>4, <2>1
<1>11. GapsBelow(bursts, median) = Shifted(less, 1) /\ GapsAbove(bursts, median) = Shifted(more, 1)
  <2>1. GapsBelow(bursts, median) \subseteq Shifted(less, 1)
    <3> SUFFICES ASSUME NEW k \in 2..N, bursts[k].gap < median
                 PROVE  k \in Shifted(less, 1)
      BY DEF GapsBelow
    <3>2. k - 1 \in less /\ (k - 1) + 1 = k
      BY <1>9
    <3> QED
      BY <3>2 DEF Shifted
  <2>2. GapsAbove(bursts, median) \subseteq Shifted(more, 1)
    <3> SUFFICES ASSUME NEW k \in 2..N, bursts[k].gap > median
                 PROVE  k \in Shifted(more, 1)
      BY DEF GapsAbove
    <3>2. k - 1 \in more /\ (k - 1) + 1 = k
      BY <1>9
    <3> QED
      BY <3>2 DEF Shifted
  <2>3. Shifted(less, 1) \subseteq GapsBelow(bursts, median)
    BY <1>10 DEF Shifted, GapsBelow
  <2>4. Shifted(more, 1) \subseteq GapsAbove(bursts, median)
    BY <1>10 DEF Shifted, GapsAbove
  <2> QED
    BY <2>1, <2>2, <2>3, <2>4
<1>12. Cardinality(2..N) = N - 1
  BY FS_Interval
<1>13. \E k \in 2..N : bursts[k].gap = median
  BY <1>7, <1>10
<1>14. /\ Cardinality(GapsBelow(bursts, median)) = Cardinality(less)
       /\ Cardinality(GapsAbove(bursts, median)) = Cardinality(more)
  <2>1. less \in SUBSET (1..(N - 1)) /\ more \in SUBSET (1..(N - 1))
    OBVIOUS
  <2> HIDE DEF less, more
  <2> QED
    BY <1>8, <1>11, <2>1
<1> HIDE DEF less, more
<1> QED
  BY <1>5, <1>7, <1>12, <1>13, <1>14

\* Every run of failures that no longer one holds is the run of one burst.
LEMMA RunsAreBursts ==
    ASSUME NEW bursts \in Seq(Burst), NEW N \in Nat, N = Len(bursts), hist \in Seq(Sample),
           AreTheRuns(bursts)
    PROVE  /\ \A k \in 1..N : RunAt(bursts[k].endedAt) \in WholeRuns
           /\ Cardinality(WholeRuns) = N
<1> DEFINE R == [k \in 1..N |-> RunAt(bursts[k].endedAt)]
<1>1. /\ \A k \in 1..N : R[k] = RunAt(bursts[k].endedAt) /\ Spans(bursts[k])
      /\ \A i \in FailedAt : \E k \in 1..N : RunAt(i) \subseteq R[k]
  BY DEF AreTheRuns
<1>2. CountedAt \subseteq Nat /\ \A i \in Nat : RunAt(i) \subseteq CountedAt /\ \A j \in RunAt(i) : j <= i
  <2>1. DOMAIN hist \subseteq Nat
    OBVIOUS
  <2> QED
    BY <2>1 DEF CountedAt, RunAt
<1>3. \A k \in 1..N : /\ bursts[k].endedAt \in FailedAt /\ bursts[k].endedAt \in Nat
                      /\ bursts[k].startedAt \in R[k] /\ bursts[k].startedAt \in Nat
                      /\ \A i \in R[k] : i \in Nat /\ bursts[k].startedAt <= i /\ i <= bursts[k].endedAt
                      /\ bursts[k].endedAt \in R[k]
  <2> TAKE k \in 1..N
  <2>1. PICK b : b = bursts[k]
    OBVIOUS
  <2>2. /\ b.endedAt \in FailedAt /\ b.startedAt \in RunAt(b.endedAt)
        /\ \A i \in RunAt(b.endedAt) : b.startedAt <= i
    BY <1>1, <2>1 DEF Spans
  <2>3. PICK e \in Nat : e = b.endedAt /\ e \in CountedAt
    BY <1>2, <2>2 DEF FailedAt
  <2>4. e \in RunAt(e)
    <3>1. \A q \in CountedAt : e <= q /\ q <= e => q = e
      BY <1>2
    <3> QED
      BY <2>3, <3>1 DEF RunAt
  <2> HIDE DEF R
  <2> QED
    BY <1>1, <1>2, <2>1, <2>2, <2>3, <2>4
<1>4. \A j, k \in 1..N : j < k => bursts[j].endedAt < bursts[k].startedAt
  BY DEF AreTheRuns
<1> HIDE DEF R
\* Two of them are apart.
<1>5. \A j, k \in 1..N : bursts[j].endedAt \in R[k] => j = k
  <2> TAKE j, k \in 1..N
  <2> HAVE bursts[j].endedAt \in R[k]
  <2>1. ~(j < k)
    BY <1>3, <1>4
  <2>2. ~(k < j)
    <3> SUFFICES ASSUME k < j PROVE FALSE
      OBVIOUS
    <3>1. bursts[k].endedAt < bursts[j].startedAt /\ bursts[j].startedAt <= bursts[j].endedAt
          /\ bursts[j].endedAt <= bursts[k].endedAt
      BY <1>3, <1>4
    <3> QED
      BY <1>3, <3>1
  <2> QED
    BY <2>1, <2>2
<1>6. \A k \in 1..N : R[k] \in FailedRuns
  BY <1>1, <1>3 DEF FailedRuns
<1>7. \A k \in 1..N, q \in FailedRuns : R[k] \subseteq q => q = R[k]
  <2> TAKE k \in 1..N, q \in FailedRuns
  <2> HAVE R[k] \subseteq q
  <2>1. PICK i \in FailedAt : q = RunAt(i)
    BY DEF FailedRuns
  <2>2. PICK j \in 1..N : q \subseteq R[j]
    BY <1>1, <2>1
  <2>3. j = k
    BY <1>3, <1>5, <2>2
  <2> QED
    BY <2>2, <2>3
<1>8. \A k \in 1..N : R[k] \in WholeRuns
  BY <1>6, <1>7 DEF WholeRuns
<1>9. \A r \in WholeRuns : \E k \in 1..N : R[k] = r
  <2> TAKE r \in WholeRuns
  <2>1. r \in FailedRuns /\ \A q \in FailedRuns : r \subseteq q => q = r
    BY DEF WholeRuns
  <2>2. PICK i \in FailedAt : r = RunAt(i)
    BY <2>1 DEF FailedRuns
  <2>3. PICK k \in 1..N : r \subseteq R[k]
    BY <1>1, <2>2
  <2> QED
    BY <1>6, <2>1, <2>3
<1>10. \A j, k \in 1..N : R[j] = R[k] => j = k
  BY <1>3, <1>5
<1>11. R \in [1..N -> WholeRuns]
  BY <1>8 DEF R
<1>12. R \in Bijection(1..N, WholeRuns)
  BY <1>9, <1>10, <1>11 DEF Bijection, Injection, IsInjective, Surjection
<1>13. ExistsBijection(1..N, WholeRuns)
  BY <1>12 DEF ExistsBijection
<1>14. IsFiniteSet(1..N) /\ Cardinality(1..N) = N
  <2>1. \A p, q \in Int : IsFiniteSet(p..q) /\ Cardinality(p..q) = IF p > q THEN 0 ELSE q - p + 1
    BY FS_Interval
  <2>2. 1 \in Int /\ N \in Int /\ (IF 1 > N THEN 0 ELSE N - 1 + 1) = N
    OBVIOUS
  <2> QED
    BY <2>1, <2>2
<1>15. Cardinality(WholeRuns) = N
  BY <1>13, <1>14, FS_Bijection
<1> QED
  BY <1>1, <1>8, <1>15

\* A target is DOWN after a run of failures that was long enough.
LEMMA DownHasMark ==
    ASSUME HistoryInv, m.state = "down"
    PROVE  \E i \in FailedAt : Cardinality(RunAt(i)) >= FailN
<1>1. DownMarks \subseteq Nat /\ GoodMarks \subseteq Nat
  <2>1. DOMAIN hist \subseteq Nat
    <3>1. hist \in Seq(Sample)
      BY DEF HistoryInv
    <3> QED
      BY <3>1
  <2> QED
    BY <2>1 DEF CountedAt, DownMarks, GoodMarks, UpMarks, SettlesUp
<1>2. LastOf(DownMarks) > LastOf(GoodMarks)
  BY VerdictIs DEF HistoryInv, MatchesHistory
<1>3. PICK g \in GoodMarks \union {0} : \A j \in GoodMarks : j <= g
  BY DEF HistoryInv, HasLast
<1>4. LastOf(GoodMarks) = g /\ g \in Nat
  BY <1>1, <1>3, LastIs
<1>5. DownMarks # {}
  <2> SUFFICES ASSUME DownMarks = {} PROVE FALSE
    OBVIOUS
  <2>1. LastOf({}) = 0
    BY LastIs
  <2> QED
    BY <1>2, <1>4, <2>1
<1> QED
  BY <1>5 DEF DownMarks, FailedAt

\* What the bursts say of the whole history.
LEMMA BurstsAreExact ==
    ASSUME HistoryInv, BurstsInv
    PROVE  BurstsExact
<1>1. hist \in Seq(Sample)
  BY DEF HistoryInv
<1>2. PICK bursts : bursts = Bursts(hist)
  OBVIOUS
<1>3. bursts \in Seq(Burst) /\ AreTheRuns(bursts)
  <2>1. bursts = BurstsOf(Grouped(hist))
    BY <1>2 DEF Bursts, BurstsOf, Grouped, NoBursts
  <2>2. PICK a \in BurstAcc : a = Grouped(hist)
    <3> DEFINE s == [ts |-> 0, success |-> TRUE, rtt |-> LoadedRTT, duringSpeedtest |-> FALSE]
    <3>1. s \in Sample
      BY DEF Sample
    <3> QED
      BY <1>1, <3>1, GroupedGrows
  <2>3. a.cur \in Burst /\ a.done \in Seq(Burst)
    BY DEF BurstAcc
  <2>4. BurstsOf(a) \in Seq(Burst)
    BY <2>3 DEF BurstsOf
  <2> QED
    BY <2>1, <2>2, <2>4 DEF BurstsInv
<1>4. PICK N \in Nat : N = Len(bursts)
  BY <1>3
<1>5. DOMAIN bursts = 1..N
  BY <1>3, <1>4
<1>6. /\ \A k \in 1..N : RunAt(bursts[k].endedAt) \in WholeRuns
      /\ Cardinality(WholeRuns) = N
  BY <1>1, <1>3, <1>4, RunsAreBursts
<1>7. \A i \in FailedAt : /\ i \in Nat /\ i \in RunAt(i) /\ IsFiniteSet(RunAt(i))
                          /\ \A j \in RunAt(i) : j \in Nat /\ j <= i
  <2>1. CountedAt \subseteq 1..Len(hist) /\ Len(hist) \in Nat
    <3>1. DOMAIN hist = 1..Len(hist) /\ Len(hist) \in Nat
      BY <1>1
    <3> QED
      BY <3>1 DEF CountedAt
  <2> TAKE i \in FailedAt
  <2>2. i \in CountedAt /\ i \in Nat
    BY <2>1 DEF FailedAt
  <2>3. RunAt(i) \subseteq CountedAt /\ \A j \in RunAt(i) : j <= i
    BY DEF RunAt
  <2>4. i \in RunAt(i)
    <3>1. \A q \in CountedAt : i <= q /\ q <= i => q = i
      BY <2>1, <2>2
    <3> QED
      BY <2>2, <3>1 DEF RunAt
  <2>5. IsFiniteSet(RunAt(i))
    <3>1. IsFiniteSet(1..Len(hist))
      BY <2>1, FS_Interval
    <3>2. RunAt(i) \subseteq 1..Len(hist)
      BY <2>1, <2>3
    <3> QED
      BY <3>1, <3>2, FS_Subset
  <2>6. \A j \in RunAt(i) : j \in Nat
    <3>1. 1..Len(hist) \subseteq Nat
      BY <2>1
    <3> QED
      BY <2>1, <2>3, <3>1
  <2> QED
    BY <2>2, <2>3, <2>4, <2>5, <2>6
<1>8. \A k \in 1..N : /\ bursts[k].endedAt \in FailedAt
                      /\ bursts[k].startedAt \in RunAt(bursts[k].endedAt)
                      /\ \A i \in RunAt(bursts[k].endedAt) : bursts[k].startedAt <= i
                      /\ bursts[k].lost = Cardinality(RunAt(bursts[k].endedAt))
  BY <1>3, <1>4 DEF AreTheRuns, Spans
<1>9. \A k \in 1..N :
        \E r \in WholeRuns : /\ bursts[k].startedAt \in r /\ bursts[k].endedAt \in r
                             /\ \A i \in r : bursts[k].startedAt <= i /\ i <= bursts[k].endedAt
                             /\ bursts[k].lost = Cardinality(r)
  <2> TAKE k \in 1..N
  <2>1. PICK r \in WholeRuns : r = RunAt(bursts[k].endedAt)
    BY <1>6
  <2> WITNESS r \in WholeRuns
  <2> QED
    BY <1>7, <1>8, <2>1
<1>10. \A k \in 2..N : /\ bursts[k].gap = bursts[k].startedAt - bursts[k - 1].endedAt
                       /\ bursts[k].gap > 0
  <2> TAKE k \in 2..N
  <2>1. k \in 1..N /\ k - 1 \in 1..N /\ k - 1 < k
    OBVIOUS
  <2>2. bursts[k].gap = bursts[k].startedAt - bursts[k - 1].endedAt
        /\ bursts[k - 1].endedAt < bursts[k].startedAt
    BY <1>3, <1>4, <2>1 DEF AreTheRuns
  <2>3. bursts[k].startedAt \in Nat /\ bursts[k - 1].endedAt \in Nat
    BY <1>7, <1>8, <2>1
  <2> QED
    BY <2>2, <2>3
<1>11. 2..N # {} =>
         /\ \E k \in 2..N : bursts[k].gap = MedianGap(bursts)
         /\ 2 * Cardinality({k \in 2..N : bursts[k].gap < MedianGap(bursts)}) <= Cardinality(2..N)
         /\ 2 * Cardinality({k \in 2..N : bursts[k].gap > MedianGap(bursts)}) < Cardinality(2..N)
  <2> HAVE 2..N # {}
  <2>1. N >= 2
    OBVIOUS
  <2> QED
    BY <1>3, <1>4, <2>1, BurstsGap DEF GapsBelow, GapsAbove
<1>12. m.state = "down" => \E k \in 1..N : bursts[k].lost >= FailN
  <2> HAVE m.state = "down"
  <2>1. PICK i \in FailedAt : Cardinality(RunAt(i)) >= FailN
    BY DownHasMark
  <2>2. PICK k \in 1..N : RunAt(i) \subseteq RunAt(bursts[k].endedAt)
    BY <1>3, <1>4 DEF AreTheRuns
  <2>3. PICK run : run = RunAt(bursts[k].endedAt) /\ IsFiniteSet(run) /\ bursts[k].lost = Cardinality(run)
    BY <1>7, <1>8
  <2>4. Cardinality(RunAt(i)) <= Cardinality(run)
    BY <2>2, <2>3, FS_Subset
  <2>5. Cardinality(RunAt(i)) \in Nat /\ Cardinality(run) \in Nat /\ FailN \in Nat
    BY <1>7, <2>3, FS_CardinalityType, ThresholdAssumption
  <2> QED
    BY <2>1, <2>3, <2>4, <2>5
<1> QED
  BY <1>2, <1>4, <1>5, <1>6, <1>9, <1>10, <1>11, <1>12 DEF BurstsExact, WholeRuns, FailedRuns, FailedAt

-----------------------------------------------------------------------------
(***************************************************************************)
(* Sums over a finite set, which the library takes element by element.     *)
(***************************************************************************)

\* The element that the library's sums take next.
OneOf(T) == CHOOSE x \in T : TRUE

\* F holds the sums over the subsets, as the library's go.
IsSum(F, fun, R) ==
    \A T \in SUBSET R : F[T] = IF T = {} THEN 0 ELSE fun[OneOf(T)] + F[T \ {OneOf(T)}]

\* And nothing else.
SumTable(F, fun, R) ==
    F = [T \in SUBSET R |-> IF T = {} THEN 0 ELSE fun[OneOf(T)] + F[T \ {OneOf(T)}]]

\* Taking one element after the other empties a set.
LEMMA SubsetsReached ==
    ASSUME NEW R, IsFiniteSet(R), NEW P, {} \in P,
           \A T \in SUBSET R : T # {} /\ T \ {OneOf(T)} \in P => T \in P
    PROVE  \A T \in SUBSET R : T \in P
<1> DEFINE S == {k \in Nat : \A T \in SUBSET R : Cardinality(T) = k => T \in P}
<1>1. \A T \in SUBSET R : IsFiniteSet(T) /\ Cardinality(T) \in Nat
  BY FS_Subset, FS_CardinalityType
<1>2. 0 \in S
  <2>1. \A T \in SUBSET R : Cardinality(T) = 0 => T = {}
    BY <1>1, FS_EmptySet
  <2> QED
    BY <2>1
<1>3. \A k \in Nat : k \in S => k + 1 \in S
  <2> SUFFICES ASSUME NEW k \in Nat, k \in S, NEW T \in SUBSET R, Cardinality(T) = k + 1
               PROVE  T \in P
    OBVIOUS
  <2>1. T # {}
    BY FS_EmptySet
  <2>2. PICK x : x = OneOf(T) /\ x \in T
    BY <2>1 DEF OneOf
  <2>3. Cardinality(T \ {x}) = k
    <3>1. Cardinality(T \ {x}) = Cardinality(T) - 1
      BY <1>1, <2>2, FS_RemoveElement
    <3> QED
      BY <3>1
  <2>4. T \ {x} \in P
    BY <2>3
  <2> QED
    BY <2>1, <2>2, <2>4
<1>4. Nat \subseteq S
  <2> HIDE DEF S
  <2> QED
    BY <1>2, <1>3, InductiveSet
<1> QED
  BY <1>1, <1>4

\* There are such sums.
LEMMA SumExists ==
    ASSUME NEW R, IsFiniteSet(R), NEW fun
    PROVE  \E F : SumTable(F, fun, R)
<1> DEFINE Upto(k) == {T \in SUBSET R : Cardinality(T) <= k}
           Has(k, F) == \A T \in Upto(k) : F[T] = IF T = {} THEN 0 ELSE fun[OneOf(T)] + F[T \ {OneOf(T)}]
           S == {k \in Nat : \E F : Has(k, F)}
<1>1. \A T \in SUBSET R : IsFiniteSet(T) /\ Cardinality(T) \in Nat
  BY FS_Subset, FS_CardinalityType
<1>2. \A T \in SUBSET R : T # {} =>
        /\ OneOf(T) \in T /\ T \ {OneOf(T)} \in SUBSET R
        /\ Cardinality(T \ {OneOf(T)}) = Cardinality(T) - 1
  <2> TAKE T \in SUBSET R
  <2> HAVE T # {}
  <2>1. PICK x : x = OneOf(T) /\ x \in T
    BY DEF OneOf
  <2>2. Cardinality(T \ {x}) = Cardinality(T) - 1
    BY <1>1, <2>1, FS_RemoveElement
  <2> QED
    BY <2>1, <2>2
<1>3. 0 \in S
  <2> DEFINE F == [T \in SUBSET R |-> 0]
  <2>1. \A T \in SUBSET R : Cardinality(T) <= 0 => T = {}
    BY <1>1, FS_EmptySet
  <2>2. Has(0, F)
    BY <2>1
  <2> HIDE DEF Has
  <2> QED
    BY <2>2
<1>4. \A k \in Nat : k \in S => k + 1 \in S
  <2> SUFFICES ASSUME NEW k \in Nat, k \in S PROVE k + 1 \in S
    OBVIOUS
  <2>1. PICK F : Has(k, F)
    OBVIOUS
  <2> DEFINE G == [T \in SUBSET R |-> IF T = {} THEN 0 ELSE fun[OneOf(T)] + F[T \ {OneOf(T)}]]
  <2>2. \A T \in Upto(k) : G[T] = F[T]
    BY <2>1
  <2>3. \A T \in Upto(k + 1) : T # {} => T \ {OneOf(T)} \in Upto(k)
    BY <1>1, <1>2
  <2>4. \A T \in SUBSET R : G[T] = IF T = {} THEN 0 ELSE fun[OneOf(T)] + F[T \ {OneOf(T)}]
    OBVIOUS
  <2>5. Has(k + 1, G)
    <3> HIDE DEF G
    <3>1. \A T \in Upto(k + 1) : T \in SUBSET R
      OBVIOUS
    <3> HIDE DEF Upto
    <3> QED
      BY <2>2, <2>3, <2>4, <3>1
  <2> HIDE DEF Has
  <2> QED
    BY <2>5
<1>5. Nat \subseteq S
  <2> HIDE DEF S
  <2> QED
    BY <1>3, <1>4, InductiveSet
<1>6. PICK F : Has(Cardinality(R), F)
  <2>1. Cardinality(R) \in S
    BY <1>1, <1>5
  <2> HIDE DEF Has
  <2> QED
    BY <2>1
<1>7. \A T \in SUBSET R : Cardinality(T) <= Cardinality(R)
  BY FS_Subset
<1>8. \A T \in SUBSET R : F[T] = IF T = {} THEN 0 ELSE fun[OneOf(T)] + F[T \ {OneOf(T)}]
  BY <1>6, <1>7
<1> DEFINE G == [T \in SUBSET R |-> F[T]]
<1>9. G = [T \in SUBSET R |-> IF T = {} THEN 0 ELSE fun[OneOf(T)] + G[T \ {OneOf(T)}]]
  <2>1. \A T \in SUBSET R : G[T] = F[T]
    OBVIOUS
  <2>2. \A T \in SUBSET R : T # {} => G[T \ {OneOf(T)}] = F[T \ {OneOf(T)}]
    BY <1>2, <2>1
  <2>3. \A T \in SUBSET R : F[T] = IF T = {} THEN 0 ELSE fun[OneOf(T)] + G[T \ {OneOf(T)}]
    <3> HIDE DEF G
    <3> QED
      BY <1>8, <2>2
  <2>4. G = [T \in SUBSET R |-> F[T]]
    OBVIOUS
  <2> HIDE DEF G
  <2> QED
    BY <2>3, <2>4
<1>10. SumTable(G, fun, R)
  BY <1>9 DEF SumTable
<1> HIDE DEF G
<1> QED
  BY <1>10

\* The library's sum of a function is one of them.
LEMMA SumIs ==
    ASSUME NEW fun, IsFiniteSet(DOMAIN fun)
    PROVE  \E F : IsSum(F, fun, DOMAIN fun) /\ SumFunction(fun) = F[DOMAIN fun]
<1>0. PICK R : R = DOMAIN fun /\ IsFiniteSet(R)
  OBVIOUS
<1> DEFINE iter == CHOOSE it : it = [T \in SUBSET R |-> IF T = {} THEN 0
                                       ELSE fun[OneOf(T)] + it[T \ {OneOf(T)}]]
<1>1. \E it : it = [T \in SUBSET R |-> IF T = {} THEN 0 ELSE fun[OneOf(T)] + it[T \ {OneOf(T)}]]
  <2>1. \E it : SumTable(it, fun, R)
    BY <1>0, SumExists
  <2> QED
    BY <2>1, Zenon DEF SumTable
<1>2. iter = [T \in SUBSET R |-> IF T = {} THEN 0 ELSE fun[OneOf(T)] + iter[T \ {OneOf(T)}]]
  BY <1>1, Zenon
<1>3. SumFunction(fun) = iter[R]
  BY <1>0 DEF SumFunction, SumFunctionOnSet, FoldFunctionOnSet, MapThenFoldSet, OneOf
<1> HIDE DEF iter
<1>4. IsSum(iter, fun, R)
  BY <1>2 DEF IsSum
<1> QED
  BY <1>0, <1>3, <1>4

\* A sum of sums: if every entry is, so is the whole.
AddUp(f, g, h, R) == \A x \in R : h[x] = f[x] + g[x]

LEMMA SumAdds ==
    ASSUME NEW R, NEW f \in [R -> Int], NEW g \in [R -> Int], NEW h \in [R -> Int],
           IsFiniteSet(R), AddUp(f, g, h, R)
    PROVE  /\ SumFunction(f) \in Int /\ SumFunction(g) \in Int
           /\ SumFunction(h) = SumFunction(f) + SumFunction(g)
<1>1. DOMAIN f = R /\ DOMAIN g = R /\ DOMAIN h = R
  OBVIOUS
<1>2. PICK F : IsSum(F, f, R) /\ SumFunction(f) = F[R]
  BY <1>1, SumIs
<1>3. PICK G : IsSum(G, g, R) /\ SumFunction(g) = G[R]
  BY <1>1, SumIs
<1>4. PICK H : IsSum(H, h, R) /\ SumFunction(h) = H[R]
  BY <1>1, SumIs
<1> DEFINE P == {T \in SUBSET R : F[T] \in Int /\ G[T] \in Int /\ H[T] = F[T] + G[T]}
<1>5. {} \in P
  <2>1. F[{}] = 0 /\ G[{}] = 0 /\ H[{}] = 0
    BY <1>2, <1>3, <1>4 DEF IsSum
  <2> QED
    BY <2>1
<1>6. \A T \in SUBSET R : T # {} /\ T \ {OneOf(T)} \in P => T \in P
  <2> SUFFICES ASSUME NEW T \in SUBSET R, T # {}, T \ {OneOf(T)} \in P PROVE T \in P
    OBVIOUS
  <2>1. PICK x \in R : x = OneOf(T)
    BY DEF OneOf
  <2>2. PICK rest : rest = T \ {x} /\ rest \in P
    BY <2>1
  <2>3. F[T] = f[x] + F[rest] /\ G[T] = g[x] + G[rest] /\ H[T] = h[x] + H[rest]
    BY <1>2, <1>3, <1>4, <2>1, <2>2 DEF IsSum
  <2>4. f[x] \in Int /\ g[x] \in Int /\ h[x] = f[x] + g[x]
    BY DEF AddUp
  <2>5. F[rest] \in Int /\ G[rest] \in Int /\ H[rest] = F[rest] + G[rest]
    BY <2>2
  <2> QED
    BY <2>3, <2>4, <2>5
<1>7. \A T \in SUBSET R : T \in P
  <2> HIDE DEF P
  <2> QED
    BY <1>5, <1>6, SubsetsReached
<1> QED
  BY <1>2, <1>3, <1>4, <1>7

\* Nothing but zeros add up to none, and no less than zeros to no less.
LEMMA SumSigns ==
    ASSUME NEW R, IsFiniteSet(R), NEW f \in [R -> Int]
    PROVE  /\ SumFunction(f) \in Int
           /\ (\A x \in R : f[x] = 0) => SumFunction(f) = 0
           /\ (\A x \in R : f[x] >= 0) => SumFunction(f) >= 0
<1>1. PICK F : IsSum(F, f, R) /\ SumFunction(f) = F[R]
  <2>1. DOMAIN f = R
    OBVIOUS
  <2> QED
    BY <2>1, SumIs
<1> DEFINE P == {T \in SUBSET R : /\ F[T] \in Int
                                  /\ (\A x \in R : f[x] = 0) => F[T] = 0
                                  /\ (\A x \in R : f[x] >= 0) => F[T] >= 0}
<1>2. {} \in P
  <2>1. F[{}] = 0
    BY <1>1 DEF IsSum
  <2> QED
    BY <2>1
<1>3. \A T \in SUBSET R : T # {} /\ T \ {OneOf(T)} \in P => T \in P
  <2> SUFFICES ASSUME NEW T \in SUBSET R, T # {}, T \ {OneOf(T)} \in P PROVE T \in P
    OBVIOUS
  <2>1. PICK x \in R : x = OneOf(T)
    BY DEF OneOf
  <2>2. PICK rest : rest = T \ {x} /\ rest \in P
    BY <2>1
  <2>3. F[T] = f[x] + F[rest]
    BY <1>1, <2>1, <2>2 DEF IsSum
  <2>4. f[x] \in Int
    OBVIOUS
  <2>5. /\ F[rest] \in Int
        /\ (\A y \in R : f[y] = 0) => F[rest] = 0
        /\ (\A y \in R : f[y] >= 0) => F[rest] >= 0
    BY <2>2
  <2> QED
    BY <2>3, <2>4, <2>5
<1>4. \A T \in SUBSET R : T \in P
  <2> HIDE DEF P
  <2> QED
    BY <1>2, <1>3, SubsetsReached
<1> QED
  BY <1>1, <1>4

\* No entry greater, no sum greater.
LEMMA SumsOrdered ==
    ASSUME NEW R, IsFiniteSet(R), NEW f \in [R -> Int], NEW g \in [R -> Int],
           \A x \in R : f[x] <= g[x]
    PROVE  SumFunction(f) <= SumFunction(g)
<1> DEFINE d == [x \in R |-> g[x] - f[x]]
<1>1. d \in [R -> Int] /\ (\A x \in R : d[x] >= 0) /\ AddUp(f, d, g, R)
  BY DEF AddUp
<1> HIDE DEF d
<1>2. SumFunction(g) = SumFunction(f) + SumFunction(d) /\ SumFunction(f) \in Int /\ SumFunction(d) \in Int
  BY <1>1, SumAdds
<1>3. SumFunction(d) >= 0
  BY <1>1, SumSigns
<1> QED
  BY <1>2, <1>3

\* A single entry.
LEMMA SumOfOne ==
    ASSUME NEW R, IsFiniteSet(R), NEW a \in R, NEW v \in Int, NEW f \in [R -> Int],
           \A x \in R : f[x] = IF x = a THEN v ELSE 0
    PROVE  SumFunction(f) = v
<1>1. PICK F : IsSum(F, f, R) /\ SumFunction(f) = F[R]
  <2>1. DOMAIN f = R
    OBVIOUS
  <2> QED
    BY <2>1, SumIs
<1> DEFINE P == {T \in SUBSET R : F[T] = IF a \in T THEN v ELSE 0}
<1>2. {} \in P
  <2>1. F[{}] = 0
    BY <1>1 DEF IsSum
  <2> QED
    BY <2>1
<1>3. \A T \in SUBSET R : T # {} /\ T \ {OneOf(T)} \in P => T \in P
  <2> SUFFICES ASSUME NEW T \in SUBSET R, T # {}, T \ {OneOf(T)} \in P PROVE T \in P
    OBVIOUS
  <2>1. PICK x \in R : x = OneOf(T) /\ x \in T
    BY DEF OneOf
  <2>2. PICK rest : rest = T \ {x} /\ rest \in P
    BY <2>1
  <2>3. F[T] = f[x] + F[rest]
    BY <1>1, <2>1, <2>2 DEF IsSum
  <2>4. F[rest] = IF a \in rest THEN v ELSE 0
    BY <2>2
  <2>5. CASE x = a
    BY <2>1, <2>2, <2>3, <2>4, <2>5
  <2>6. CASE x # a
    BY <2>1, <2>2, <2>3, <2>4, <2>6
  <2> QED
    BY <2>5, <2>6
<1>4. \A T \in SUBSET R : T \in P
  <2> HIDE DEF P
  <2> QED
    BY <1>2, <1>3, SubsetsReached
<1> QED
  BY <1>1, <1>4

\* One entry changed.
Bumped(f, g, R, a, v) == \A x \in R : g[x] = f[x] + (IF x = a THEN v ELSE 0)

LEMMA SumBumped ==
    ASSUME NEW R, NEW a \in R, NEW v \in Int, NEW f \in [R -> Int], NEW g \in [R -> Int],
           IsFiniteSet(R), Bumped(f, g, R, a, v)
    PROVE  SumFunction(g) = SumFunction(f) + v
<1> DEFINE d == [x \in R |-> IF x = a THEN v ELSE 0]
<1>1. d \in [R -> Int] /\ \A x \in R : d[x] = IF x = a THEN v ELSE 0
  OBVIOUS
<1> HIDE DEF d
<1>2. AddUp(f, d, g, R)
  BY <1>1 DEF Bumped, AddUp
<1>3. SumFunction(g) = SumFunction(f) + SumFunction(d)
  BY <1>1, <1>2, SumAdds
<1>4. SumFunction(d) = v
  BY <1>1, SumOfOne
<1> QED
  BY <1>3, <1>4

-----------------------------------------------------------------------------
(***************************************************************************)
(* Rollup rows and summaries: what ComputeBucket makes of some samples, and *)
(* how the rows of all buckets add up to what the samples say.             *)
(***************************************************************************)

\* A total is a pass over the values.
LEMMA TotalIsPass ==
    ASSUME NEW values \in Seq(Int)
    PROVE  \E acc : /\ IsPass(acc, Int, [p \in Int \X Int |-> p[1] + p[2]],
                              0, values)
                    /\ Total(values) = acc[Len(values)]
<1> DEFINE step == [p \in Int \X Int |-> p[1] + p[2]]
           dom == SUBSET (1..Len(values))
           iter == CHOOSE it : it = [T \in dom |-> IF T = {} THEN 0
                                       ELSE it[T \ {Max(T)}] + values[Max(T)]]
<1>1. step \in [Int \X Int -> Int] /\ 0 \in Int
  OBVIOUS
<1>2. \A a \in Int, s \in Int : step[<<a, s>>] = a + s
  OBVIOUS
<1>3. DOMAIN values = 1..Len(values) /\ Len(values) \in Nat /\ Len(values) \in 0..Len(values)
  OBVIOUS
<1>4. \A T \in dom : T # {} => Max(T) \in 1..Len(values) /\ values[Max(T)] \in Int /\ T \ {Max(T)} \in dom
  <2> TAKE T \in dom
  <2> HAVE T # {}
  <2>1. Max(T) \in T
    BY <1>3, MaxOf
  <2>2. Max(T) \in 1..Len(values)
    BY <2>1
  <2>3. values[Max(T)] \in Int
    BY <2>2
  <2>4. T \ {Max(T)} \in dom
    OBVIOUS
  <2> QED
    BY <2>2, <2>3, <2>4
<1>5. iter = [T \in dom |-> IF T = {} THEN 0 ELSE iter[T \ {Max(T)}] + values[Max(T)]]
  <2> HIDE DEF step
  <2>0. PICK F : IsFold(F, Int, step, 0, values)
    BY <1>1, FoldExists
  <2>1. /\ F \in [dom -> Int]
        /\ \A T \in dom : F[T] = IF T = {} THEN 0 ELSE step[<<F[T \ {Max(T)}], values[Max(T)]>>]
    BY <2>0 DEF IsFold
  <2> HIDE DEF dom
  <2>2. \A T \in dom : F[T] = IF T = {} THEN 0 ELSE F[T \ {Max(T)}] + values[Max(T)]
    BY <1>2, <1>4, <2>1
  <2>3. F = [T \in dom |-> IF T = {} THEN 0 ELSE F[T \ {Max(T)}] + values[Max(T)]]
    BY <2>1, <2>2
  <2> QED
    BY <2>3
<1>6. Total(values) = iter[1..Len(values)]
  BY <1>3 DEF Total, FoldLeft, MapThenFoldSet
<1>7. IsPass([k \in 0..Len(values) |-> iter[1..k]], Int, step, 0, values)
  <2>1. \A T \in dom : IF T = {} THEN iter[T] = 0
                       ELSE iter[T \ {Max(T)}] \in Int
                              => iter[T] = step[<<iter[T \ {Max(T)}], values[Max(T)]>>]
    <3> HIDE DEF step, iter, dom
    <3>1. \A T \in dom : iter[T] = IF T = {} THEN 0 ELSE iter[T \ {Max(T)}] + values[Max(T)]
      BY <1>5
    <3> QED
      BY <1>2, <1>4, <3>1
  <2>2. Folds(iter, Int, step, 0, values)
    <3> HIDE DEF step, iter
    <3> QED
      BY <2>1 DEF Folds
  <2> HIDE DEF step, iter
  <2> QED
    BY <1>1, <2>2, PassIs
<1> DEFINE acc == [k \in 0..Len(values) |-> iter[1..k]]
<1>8. acc[Len(values)] = iter[1..Len(values)]
  BY <1>3
<1> HIDE DEF acc, iter
<1> QED
  BY <1>6, <1>7, <1>8 DEF acc

\* The total of one value more.
LEMMA TotalGrows ==
    ASSUME NEW values \in Seq(Int), NEW s \in Int
    PROVE  /\ Total(<<>>) = 0
           /\ Total(values) \in Int
           /\ Total(Append(values, s)) = Total(values) + s
<1> DEFINE step == [p \in Int \X Int |-> p[1] + p[2]]
           more == Append(values, s)
<1>1. more \in Seq(Int) /\ <<>> \in Seq(Int) /\ Len(<<>>) = 0 /\ Len(values) \in 0..Len(values)
  OBVIOUS
<1>2. PICK f : IsPass(f, Int, step, 0, values) /\ Total(values) = f[Len(values)]
  BY TotalIsPass
<1>3. PICK g : IsPass(g, Int, step, 0, more) /\ Total(more) = g[Len(more)]
  <2> HIDE DEF more
  <2> QED
    BY <1>1, TotalIsPass
<1>4. PICK e : IsPass(e, Int, step, 0, <<>>) /\ Total(<<>>) = e[0]
  BY <1>1, TotalIsPass
<1>5. Total(<<>>) = 0
  BY <1>4 DEF IsPass
<1>6. Total(values) \in Int
  BY <1>1, <1>2 DEF IsPass
<1>7. g[Len(more)] = step[<<f[Len(values)], s>>]
  <2> HIDE DEF step
  <2> QED
    BY <1>2, <1>3, PassGoesOn
<1>8. step[<<f[Len(values)], s>>] = f[Len(values)] + s
  BY <1>2, <1>6
<1> QED
  BY <1>2, <1>3, <1>5, <1>6, <1>7, <1>8

-----------------------------------------------------------------------------
\* Samples whose round trip, if one was measured, is a number.
Probed == {s \in Sample : s.success => s.rtt \in Nat}

\* What the loop of ComputeBucket has at hand, and what it starts with.
BucketAcc == [lost : Nat, rtts : Seq(Nat), prev : Nat \union {NoRTT}, jitterSum : Nat, jitterN : Nat]
NoRTTs == [lost |-> 0, rtts |-> <<>>, prev |-> NoRTT, jitterSum |-> 0, jitterN |-> 0]

\* The loop of ComputeBucket.
Bucketed(samples) == FoldLeft(LAMBDA a, s : BucketStep(a, s), NoRTTs, samples)

\* One round of it.
LEMMA BucketStepType ==
    ASSUME NEW a \in BucketAcc, NEW s \in Probed
    PROVE  BucketStep(a, s) \in BucketAcc
<1>1. a.lost \in Nat /\ a.rtts \in Seq(Nat) /\ a.prev \in Nat \union {NoRTT}
      /\ a.jitterSum \in Nat /\ a.jitterN \in Nat /\ s.success \in BOOLEAN
  BY DEF BucketAcc, Probed, Sample
<1>2. CASE ~s.success
  <2>1. [a EXCEPT !.lost = a.lost + 1] \in BucketAcc
    BY <1>1 DEF BucketAcc
  <2> QED
    BY <1>2, <2>1 DEF BucketStep
<1>3. CASE s.success
  <2>1. PICK v \in Nat : v = s.rtt
    BY <1>3 DEF Probed
  <2>2. Append(a.rtts, v) \in Seq(Nat)
    BY <1>1
  <2>3. a.prev # NoRTT => Distance(a.prev, v) \in Nat
    BY <1>1 DEF Distance, NoRTT
  <2>4. PICK d \in Nat : d = IF a.prev = NoRTT THEN 0 ELSE Distance(a.prev, v)
    BY <2>3
  <2>5. PICK c \in Nat : c = IF a.prev = NoRTT THEN 0 ELSE 1
    OBVIOUS
  <2>6. a.jitterSum + d \in Nat /\ a.jitterN + c \in Nat
    BY <1>1
  <2>7. [lost |-> a.lost, rtts |-> Append(a.rtts, v), prev |-> v,
         jitterSum |-> a.jitterSum + d, jitterN |-> a.jitterN + c] \in BucketAcc
    BY <1>1, <2>2, <2>6 DEF BucketAcc
  <2> QED
    BY <1>3, <2>1, <2>4, <2>5, <2>7 DEF BucketStep
<1> QED
  BY <1>1, <1>2, <1>3

\* The loop of ComputeBucket makes a pass over the samples.
LEMMA BucketedIsPass ==
    ASSUME NEW samples \in Seq(Probed)
    PROVE  \E acc : /\ IsPass(acc, BucketAcc, [p \in BucketAcc \X Probed |-> BucketStep(p[1], p[2])],
                              NoRTTs, samples)
                    /\ Bucketed(samples) = acc[Len(samples)]
<1> DEFINE step == [p \in BucketAcc \X Probed |-> BucketStep(p[1], p[2])]
           dom == SUBSET (1..Len(samples))
           iter == CHOOSE it : it = [T \in dom |-> IF T = {} THEN NoRTTs
                                       ELSE BucketStep(it[T \ {Max(T)}], samples[Max(T)])]
<1>1. step \in [BucketAcc \X Probed -> BucketAcc] /\ NoRTTs \in BucketAcc
  <2>1. NoRTTs \in BucketAcc
    BY DEF NoRTTs, BucketAcc, NoRTT
  <2>2. \A p \in BucketAcc \X Probed : BucketStep(p[1], p[2]) \in BucketAcc
    BY BucketStepType
  <2> QED
    BY <2>1, <2>2
<1>2. \A a \in BucketAcc, s \in Probed : step[<<a, s>>] = BucketStep(a, s)
  OBVIOUS
<1>3. DOMAIN samples = 1..Len(samples) /\ Len(samples) \in Nat /\ Len(samples) \in 0..Len(samples)
  OBVIOUS
<1>4. \A T \in dom : T # {} => Max(T) \in 1..Len(samples) /\ samples[Max(T)] \in Probed /\ T \ {Max(T)} \in dom
  <2> TAKE T \in dom
  <2> HAVE T # {}
  <2>1. Max(T) \in T
    BY <1>3, MaxOf
  <2>2. Max(T) \in 1..Len(samples)
    BY <2>1
  <2>3. samples[Max(T)] \in Probed
    <3> HIDE DEF Probed
    <3> QED
      BY <2>2
  <2>4. T \ {Max(T)} \in dom
    OBVIOUS
  <2> QED
    BY <2>2, <2>3, <2>4
<1>5. iter = [T \in dom |-> IF T = {} THEN NoRTTs ELSE BucketStep(iter[T \ {Max(T)}], samples[Max(T)])]
  <2> HIDE DEF step
  <2>0. PICK F : IsFold(F, BucketAcc, step, NoRTTs, samples)
    BY <1>1, FoldExists
  <2>1. /\ F \in [dom -> BucketAcc]
        /\ \A T \in dom : F[T] = IF T = {} THEN NoRTTs ELSE step[<<F[T \ {Max(T)}], samples[Max(T)]>>]
    BY <2>0 DEF IsFold
  <2> HIDE DEF dom
  <2>2. \A T \in dom : F[T] = IF T = {} THEN NoRTTs ELSE BucketStep(F[T \ {Max(T)}], samples[Max(T)])
    BY <1>2, <1>4, <2>1
  <2>3. F = [T \in dom |-> IF T = {} THEN NoRTTs ELSE BucketStep(F[T \ {Max(T)}], samples[Max(T)])]
    BY <2>1, <2>2
  <2> QED
    BY <2>3
<1>6. Bucketed(samples) = iter[1..Len(samples)]
  BY <1>3 DEF Bucketed, FoldLeft, MapThenFoldSet
<1>7. IsPass([k \in 0..Len(samples) |-> iter[1..k]], BucketAcc, step, NoRTTs, samples)
  <2>1. \A T \in dom : IF T = {} THEN iter[T] = NoRTTs
                       ELSE iter[T \ {Max(T)}] \in BucketAcc
                              => iter[T] = step[<<iter[T \ {Max(T)}], samples[Max(T)]>>]
    <3> HIDE DEF step, iter, dom
    <3>1. \A T \in dom : iter[T] = IF T = {} THEN NoRTTs ELSE BucketStep(iter[T \ {Max(T)}], samples[Max(T)])
      BY <1>5
    <3> QED
      BY <1>2, <1>4, <3>1
  <2>2. Folds(iter, BucketAcc, step, NoRTTs, samples)
    <3> HIDE DEF step, iter
    <3> QED
      BY <2>1 DEF Folds
  <2> HIDE DEF step, iter
  <2> QED
    BY <1>1, <2>2, PassIs
<1> DEFINE acc == [k \in 0..Len(samples) |-> iter[1..k]]
<1>8. acc[Len(samples)] = iter[1..Len(samples)]
  BY <1>3
<1> HIDE DEF acc, iter
<1> QED
  BY <1>6, <1>7, <1>8 DEF acc

\* What it has come to, sample by sample.
LEMMA BucketedGrows ==
    ASSUME NEW samples \in Seq(Probed), NEW s \in Probed
    PROVE  /\ Bucketed(<<>>) = NoRTTs
           /\ Bucketed(samples) \in BucketAcc
           /\ Bucketed(Append(samples, s)) = BucketStep(Bucketed(samples), s)
<1> DEFINE step == [p \in BucketAcc \X Probed |-> BucketStep(p[1], p[2])]
           more == Append(samples, s)
<1>1. more \in Seq(Probed) /\ <<>> \in Seq(Probed) /\ Len(<<>>) = 0 /\ Len(samples) \in 0..Len(samples)
  OBVIOUS
<1>2. PICK f : IsPass(f, BucketAcc, step, NoRTTs, samples) /\ Bucketed(samples) = f[Len(samples)]
  BY BucketedIsPass
<1>3. PICK g : IsPass(g, BucketAcc, step, NoRTTs, more) /\ Bucketed(more) = g[Len(more)]
  <2> HIDE DEF more
  <2> QED
    BY <1>1, BucketedIsPass
<1>4. PICK e : IsPass(e, BucketAcc, step, NoRTTs, <<>>) /\ Bucketed(<<>>) = e[0]
  BY <1>1, BucketedIsPass
<1>5. Bucketed(<<>>) = NoRTTs
  BY <1>4 DEF IsPass
<1>6. Bucketed(samples) \in BucketAcc
  BY <1>1, <1>2 DEF IsPass
<1>7. g[Len(more)] = step[<<f[Len(samples)], s>>]
  <2> HIDE DEF step
  <2> QED
    BY <1>2, <1>3, PassGoesOn
<1>8. step[<<f[Len(samples)], s>>] = BucketStep(f[Len(samples)], s)
  BY <1>2, <1>6
<1> QED
  BY <1>2, <1>3, <1>5, <1>6, <1>7, <1>8

\* The entries in Q, in their order.
Kept(x, Q) == Only(x, {i \in DOMAIN x : x[i] \in Q})

\* Nothing is kept of nothing, and nothing else than entries.
LEMMA KeptIs ==
    ASSUME NEW E, NEW x \in Seq(E), NEW Q
    PROVE  Kept(<<>>, Q) = <<>> /\ Kept(x, Q) \in Seq(E)
<1>1. Kept(<<>>, Q) = <<>>
  <2>0. PICK F : F = {0} /\ 0 \in F
    OBVIOUS
  <2>5. <<>> \in Seq(F)
    OBVIOUS
  <2>1. PICK y : y = <<>> /\ y \in Seq(F)
    BY <2>5
  <2>2. PICK U : U = {i \in DOMAIN y : y[i] \in Q}
    OBVIOUS
  <2>3. SameUpTo(Len(y), U, U)
    BY DEF SameUpTo
  <2>4. Only(<<>>, U) = <<>>
    <3>1. y \in Seq(F)
      BY <2>1
    <3>2. PICK z : z \in F
      BY <2>0
    <3> QED
      BY <2>3, <3>1, <3>2, OnlyGrows
  <2> QED
    BY <2>1, <2>2, <2>4 DEF Kept
<1>2. CASE E = {}
  <2>1. x = <<>>
    BY <1>2
  <2> QED
    BY <1>1, <2>1
<1>3. CASE E # {}
  <2>1. PICK U : U = {i \in DOMAIN x : x[i] \in Q}
    OBVIOUS
  <2>2. SameUpTo(Len(x), U, U)
    BY DEF SameUpTo
  <2>3. Only(x, U) \in Seq(E)
    BY <1>3, <2>2, OnlyGrows
  <2> QED
    BY <1>1, <2>1, <2>3 DEF Kept
<1> QED
  BY <1>2, <1>3

\* Of one entry more, that entry or none.
LEMMA KeptGrows ==
    ASSUME NEW E, NEW x \in Seq(E), NEW s \in E, NEW Q
    PROVE  Kept(Append(x, s), Q) = IF s \in Q THEN Append(Kept(x, Q), s) ELSE Kept(x, Q)
<1>1. PICK n \in Nat : n = Len(x) /\ DOMAIN x = 1..n
  OBVIOUS
<1>0. Append(x, s) \in Seq(E)
  OBVIOUS
<1>2. PICK more : more = Append(x, s) /\ more \in Seq(E)
  BY <1>0
<1>3. DOMAIN more = 1..(n + 1) /\ more[n + 1] = s /\ \A i \in 1..n : more[i] = x[i]
  BY <1>1, <1>2
<1>4. PICK S : S = {i \in DOMAIN x : x[i] \in Q}
  OBVIOUS
<1>5. PICK T : T = {i \in DOMAIN more : more[i] \in Q}
  OBVIOUS
<1>6. SameUpTo(Len(x), S, T) /\ (n + 1 \in T <=> s \in Q)
  BY <1>1, <1>3, <1>4, <1>5 DEF SameUpTo
<1>7. Only(more, T) = IF n + 1 \in T THEN Append(Only(x, S), s) ELSE Only(x, S)
  BY <1>1, <1>2, <1>6, OnlyGrows
<1> QED
  BY <1>2, <1>4, <1>5, <1>6, <1>7 DEF Kept

\* The kinds of samples that are kept.
Failures == {s \in Sample : ~s.success}
Answers == {s \in Sample : s.success}
OfBucket(b) == {s \in Sample : BucketOf(s) = b}

\* The filtering loops of the reductions.
LEMMA FiltersAre ==
    ASSUME NEW x \in Seq(Sample)
    PROVE  /\ Failed(x) = Kept(x, Failures)
           /\ Good(x) = Kept(x, Answers)
           /\ \A b : Only(x, {i \in DOMAIN x : BucketOf(x[i]) = b}) = Kept(x, OfBucket(b))
<1>1. \A i \in DOMAIN x : x[i] \in Sample
  OBVIOUS
<1>2. /\ {i \in DOMAIN x : x[i] \in Failures} = {i \in DOMAIN x : ~x[i].success}
      /\ {i \in DOMAIN x : x[i] \in Answers} = {i \in DOMAIN x : x[i].success}
  BY <1>1 DEF Failures, Answers
<1>3. \A b : {i \in DOMAIN x : x[i] \in OfBucket(b)} = {i \in DOMAIN x : BucketOf(x[i]) = b}
  BY <1>1 DEF OfBucket
<1> QED
  BY <1>2, <1>3 DEF Failed, Good, Kept

\* The round trips of one sample more.
LEMMA RTTsGrow ==
    ASSUME NEW x \in Seq(Probed), NEW s \in Probed
    PROVE  /\ RTTs(<<>>) = <<>>
           /\ RTTs(Append(x, s)) = IF s.success THEN Append(RTTs(x), s.rtt) ELSE RTTs(x)
<1>1. x \in Seq(Sample) /\ s \in Sample /\ Append(x, s) \in Seq(Sample) /\ <<>> \in Seq(Sample)
  <2>1. Probed \subseteq Sample
    BY DEF Probed
  <2> HIDE DEF Sample
  <2>2. x \in Seq(Sample) /\ s \in Sample
    BY <2>1
  <2> QED
    BY <2>2
<1>2. Good(<<>>) = <<>>
  BY <1>1, FiltersAre, KeptIs
<1>3. PICK good \in Seq(Sample) : good = Good(x)
  BY <1>1, FiltersAre, KeptIs
<1>4. Good(Append(x, s)) = IF s.success THEN Append(good, s) ELSE good
  <2>1. s \in Answers <=> s.success
    BY <1>1 DEF Answers
  <2>0. PICK more : more = Append(x, s) /\ more \in Seq(Sample)
    BY <1>1
  <2>3. Good(more) = Kept(more, Answers)
    BY <2>0, FiltersAre
  <2>4. Kept(Append(x, s), Answers) = IF s \in Answers THEN Append(Kept(x, Answers), s) ELSE Kept(x, Answers)
    BY <1>1, KeptGrows
  <2>2. Good(Append(x, s)) = IF s \in Answers THEN Append(Kept(x, Answers), s) ELSE Kept(x, Answers)
    BY <2>0, <2>3, <2>4
  <2> QED
    BY <1>1, <1>3, <2>1, <2>2, FiltersAre
<1>5. RTTs(<<>>) = <<>>
  BY <1>2 DEF RTTs
<1>6. RTTsIn(Append(good, s)) = Append(RTTsIn(good), s.rtt)
  <2>1. PICK n \in Nat : n = Len(good) /\ DOMAIN good = 1..n
    OBVIOUS
  <2>0. Append(good, s) \in Seq(Sample)
    BY <1>1
  <2>2. PICK more : more = Append(good, s) /\ more \in Seq(Sample)
    BY <2>0
  <2>3. /\ DOMAIN more = 1..(n + 1) /\ more[n + 1] = s /\ \A i \in 1..n : more[i] = good[i]
    BY <2>1, <2>2
  <2>4. PICK r : r = RTTsIn(good)
    OBVIOUS
  <2>5. r = [k \in 1..n |-> good[k].rtt]
    BY <2>1, <2>4 DEF RTTsIn
  <2>6. RTTsIn(more) = [k \in 1..(n + 1) |-> more[k].rtt]
    BY <2>3 DEF RTTsIn
  <2>7. PICK V : V = {good[k].rtt : k \in 1..n} \union {s.rtt}
    OBVIOUS
  <2>8. r \in Seq(V) /\ Len(r) = n
    <3>1. r \in [1..n -> V]
      BY <2>5, <2>7
    <3> QED
      BY <3>1
  <2>14. s.rtt \in V
    BY <2>7
  <2>15. Append(r, s.rtt) \in Seq(V)
    BY <2>8, <2>14
  <2>9. PICK longer : longer = Append(r, s.rtt) /\ longer \in Seq(V)
    BY <2>15
  <2>10. Len(longer) = n + 1 /\ longer[n + 1] = s.rtt /\ \A k \in 1..n : longer[k] = r[k]
    BY <2>8, <2>9
  <2>18. longer \in Seq(V)
    BY <2>9
  <2>17. longer \in [1..Len(longer) -> V]
    BY <2>18
  <2>16. longer \in [1..(n + 1) -> V]
    BY <2>10, <2>17
  <2>11. longer = [k \in 1..(n + 1) |-> longer[k]]
    BY <2>16
  <2>12. \A k \in 1..(n + 1) : longer[k] = more[k].rtt
    <3> TAKE k \in 1..(n + 1)
    <3>1. CASE k = n + 1
      BY <2>3, <2>10, <3>1
    <3>2. CASE k # n + 1
      <4>1. k \in 1..n
        BY <3>2
      <4> QED
        BY <2>3, <2>5, <2>10, <4>1
    <3> QED
      BY <3>1, <3>2
  <2>13. longer = RTTsIn(more)
    BY <2>6, <2>11, <2>12
  <2> QED
    BY <2>2, <2>4, <2>9, <2>13
<1>7. \A y : RTTs(y) = RTTsIn(Good(y))
  BY DEF RTTs, RTTsIn
<1> QED
  BY <1>3, <1>4, <1>5, <1>6, <1>7

\* The distances of neighbours.
Distances(r) == [i \in 1..(Len(r) - 1) |-> Distance(r[i], r[i + 1])]

\* The distances of one round trip more.
LEMMA DistancesGrow ==
    ASSUME NEW r \in Seq(Nat), NEW v \in Nat
    PROVE  /\ Distances(r) \in Seq(Int)
           /\ Distances(<<>>) = <<>>
           /\ Distances(Append(r, v)) = IF r = <<>> THEN <<>>
                                        ELSE Append(Distances(r), Distance(r[Len(r)], v))
<1>1. PICK n \in Nat : n = Len(r)
  OBVIOUS
<1>0. Append(r, v) \in Seq(Nat)
  OBVIOUS
<1>2. PICK more : more = Append(r, v) /\ more \in Seq(Nat)
  BY <1>0
<1>3. Len(more) = n + 1 /\ more[n + 1] = v /\ (\A i \in 1..n : more[i] = r[i] /\ r[i] \in Nat)
  BY <1>1, <1>2
<1>4. \A a, b \in Nat : Distance(a, b) \in Nat
  BY DEF Distance
<1>5. Distances(<<>>) = <<>>
  <2>1. 1..(Len(<<>>) - 1) = {}
    OBVIOUS
  <2> QED
    BY <2>1 DEF Distances
<1>6. CASE r = <<>>
  <2>1. n = 0
    BY <1>1, <1>6
  <2>2. 1..(Len(more) - 1) = {}
    BY <1>3, <2>1
  <2>4. \A q : Distances(q) = [i \in 1..(Len(q) - 1) |-> Distance(q[i], q[i + 1])]
    BY DEF Distances
  <2>5. Distances(more) \in [{} -> Int]
    BY <2>2, <2>4
  <2>6. \A d \in [{} -> Int] : d = <<>>
    <3>1. \A d \in [1..0 -> Int] : d \in Seq(Int) /\ Len(d) = 0
      OBVIOUS
    <3>2. 1..0 = {}
      OBVIOUS
    <3>3. \A d \in Seq(Int) : Len(d) = 0 => d = <<>>
      OBVIOUS
    <3> QED
      BY <3>1, <3>2, <3>3
  <2>3. Distances(more) = <<>>
    BY <2>5, <2>6
  <2>7. Distances(r) = <<>> /\ <<>> \in Seq(Int)
    BY <1>5, <1>6
  <2> QED
    BY <1>2, <1>5, <1>6, <2>3, <2>7
<1>7. CASE r # <<>>
  <2>1. PICK d \in Nat : n = d + 1
    <3>1. n # 0
      BY <1>1, <1>7
    <3>2. n - 1 \in Nat /\ n = (n - 1) + 1
      BY <3>1
    <3> QED
      BY <3>2
  <2>2. PICK dist : dist = Distances(r)
    OBVIOUS
  <2>3. dist = [i \in 1..d |-> Distance(r[i], r[i + 1])]
    <3>1. Len(r) - 1 = d
      BY <1>1, <2>1
    <3> QED
      BY <2>2, <3>1 DEF Distances
  <2>4. \A i \in 1..d : i \in 1..n /\ i + 1 \in 1..n
    BY <2>1
  <2>5. dist \in [1..d -> Nat]
    BY <1>3, <1>4, <2>3, <2>4
  <2>6. dist \in Seq(Int) /\ Len(dist) = d
    BY <2>5
  <2>7. PICK e \in Nat : e = Distance(r[n], v)
    <3>1. n \in 1..n
      BY <2>1
    <3> QED
      BY <1>3, <1>4, <3>1
  <2>14. Append(dist, e) \in Seq(Int)
    BY <2>6
  <2>8. PICK longer : longer = Append(dist, e) /\ longer \in Seq(Int)
    BY <2>14
  <2>9. Len(longer) = n /\ longer[n] = e /\ \A i \in 1..d : longer[i] = dist[i]
    BY <2>1, <2>6, <2>8
  <2>17. longer \in Seq(Int)
    BY <2>8
  <2>16. longer \in [1..Len(longer) -> Int]
    BY <2>17
  <2>15. longer \in [1..n -> Int]
    BY <2>9, <2>16
  <2>10. longer = [i \in 1..n |-> longer[i]]
    BY <2>15
  <2>11. \A i \in 1..n : longer[i] = Distance(more[i], more[i + 1])
    <3> TAKE i \in 1..n
    <3>1. CASE i = n
      BY <1>3, <2>7, <2>9, <3>1
    <3>2. CASE i # n
      <4>1. i \in 1..d
        BY <2>1, <3>2
      <4>2. more[i] = r[i] /\ more[i + 1] = r[i + 1]
        BY <1>3, <2>4, <4>1
      <4> QED
        BY <2>3, <2>9, <4>1, <4>2
    <3> QED
      BY <3>1, <3>2
  <2>12. Distances(more) = longer
    <3>1. Len(more) - 1 = n
      BY <1>3
    <3>2. Distances(more) = [i \in 1..n |-> Distance(more[i], more[i + 1])]
      BY <3>1 DEF Distances
    <3> QED
      BY <2>10, <2>11, <3>2
  <2> QED
    BY <1>1, <1>2, <1>5, <1>7, <2>2, <2>6, <2>7, <2>8, <2>12
<1> QED
  BY <1>6, <1>7

\* How many are kept.
LEMMA KeptCounts ==
    ASSUME NEW E, NEW x \in Seq(E), NEW s \in E, NEW Q
    PROVE  /\ Len(Kept(<<>>, Q)) = 0
           /\ Len(Kept(x, Q)) \in Nat
           /\ Len(Kept(Append(x, s), Q)) = Len(Kept(x, Q)) + (IF s \in Q THEN 1 ELSE 0)
<1>1. Kept(<<>>, Q) = <<>> /\ Kept(x, Q) \in Seq(E)
  BY KeptIs
<1>2. PICK kept : kept = Kept(x, Q) /\ kept \in Seq(E)
  BY <1>1
<1>3. Kept(Append(x, s), Q) = IF s \in Q THEN Append(kept, s) ELSE kept
  BY <1>2, KeptGrows
<1>4. Len(Append(kept, s)) = Len(kept) + 1 /\ Len(kept) \in Nat
  BY <1>2
<1>5. Len(Kept(Append(x, s), Q)) = IF s \in Q THEN Len(kept) + 1 ELSE Len(kept)
  BY <1>3, <1>4
<1> QED
  BY <1>1, <1>2, <1>4, <1>5

\* What the loop of ComputeBucket has at hand is what its round trips say.
Coherent(a) ==
    /\ a.prev = IF a.rtts = <<>> THEN NoRTT ELSE a.rtts[Len(a.rtts)]
    /\ a.jitterSum = Total(Distances(a.rtts))
    /\ a.jitterN = IF a.rtts = <<>> THEN 0 ELSE Len(a.rtts) - 1

\* One round of the loop keeps it so.
LEMMA StepCoherent ==
    ASSUME NEW a \in BucketAcc, NEW s \in Probed, Coherent(a)
    PROVE  /\ Coherent(BucketStep(a, s))
           /\ BucketStep(a, s).lost = a.lost + (IF s.success THEN 0 ELSE 1)
           /\ BucketStep(a, s).rtts = IF s.success THEN Append(a.rtts, s.rtt) ELSE a.rtts
<1>1. a.lost \in Nat /\ a.rtts \in Seq(Nat) /\ a.prev \in Nat \union {NoRTT}
      /\ a.jitterSum \in Nat /\ a.jitterN \in Nat /\ s.success \in BOOLEAN
  BY DEF BucketAcc, Probed, Sample
<1>2. CASE ~s.success
  <2>1. PICK b : b = [a EXCEPT !.lost = a.lost + 1]
    OBVIOUS
  <2>2. /\ b.lost = a.lost + 1 /\ b.rtts = a.rtts /\ b.prev = a.prev
        /\ b.jitterSum = a.jitterSum /\ b.jitterN = a.jitterN
    BY <2>1 DEF BucketAcc
  <2>3. BucketStep(a, s) = b
    BY <1>2, <2>1 DEF BucketStep
  <2>4. Coherent(b)
    BY <2>2, Zenon DEF Coherent
  <2> QED
    BY <1>1, <1>2, <2>2, <2>3, <2>4
<1>3. CASE s.success
  <2>1. PICK v \in Nat : v = s.rtt
    BY <1>3 DEF Probed
  <2>2. PICK r \in Seq(Nat) : r = a.rtts
    BY <1>1
  <2>3. Append(r, v) \in Seq(Nat)
    OBVIOUS
  <2>4. PICK more : more = Append(r, v) /\ more \in Seq(Nat)
    BY <2>3
  <2>5. Len(more) = Len(r) + 1 /\ more[Len(more)] = v /\ more # <<>> /\ Len(r) \in Nat
    BY <2>4
  <2>6. a.prev = NoRTT <=> r = <<>>
    <3>1. r # <<>> => r[Len(r)] \in Nat
      OBVIOUS
    <3>2. \A w \in Nat : w # NoRTT
      BY DEF NoRTT
    <3> QED
      BY <2>2, <3>1, <3>2 DEF Coherent
  <2>7. PICK b : b = [lost |-> a.lost, rtts |-> more, prev |-> v,
                      jitterSum |-> a.jitterSum + (IF a.prev = NoRTT THEN 0 ELSE Distance(a.prev, v)),
                      jitterN |-> a.jitterN + (IF a.prev = NoRTT THEN 0 ELSE 1)]
    OBVIOUS
  <2>8. BucketStep(a, s) = b
    BY <1>3, <2>1, <2>2, <2>4, <2>7 DEF BucketStep
  <2>9. /\ b.lost = a.lost /\ b.rtts = more /\ b.prev = v
        /\ b.jitterSum = a.jitterSum + (IF a.prev = NoRTT THEN 0 ELSE Distance(a.prev, v))
        /\ b.jitterN = a.jitterN + (IF a.prev = NoRTT THEN 0 ELSE 1)
    BY <2>7
  <2>10. b.jitterN = Len(more) - 1
    <3>1. a.jitterN = IF r = <<>> THEN 0 ELSE Len(r) - 1
      BY <2>2 DEF Coherent
    <3>2. r = <<>> => Len(r) = 0
      OBVIOUS
    <3>3. CASE r = <<>>
      <4>1. b.jitterN = a.jitterN + 0
        BY <2>6, <2>9, <3>3
      <4> QED
        BY <2>5, <3>1, <3>2, <3>3, <4>1
    <3>4. CASE r # <<>>
      <4>1. b.jitterN = a.jitterN + 1
        BY <2>6, <2>9, <3>4
      <4> QED
        BY <2>5, <3>1, <3>4, <4>1
    <3> QED
      BY <3>3, <3>4
  <2>11. b.jitterSum = Total(Distances(more))
    <3>1. a.jitterSum = Total(Distances(r))
      BY <2>2 DEF Coherent
    <3>2. Distances(r) \in Seq(Int) /\ Distances(<<>>) = <<>>
          /\ Distances(more) = IF r = <<>> THEN <<>> ELSE Append(Distances(r), Distance(r[Len(r)], v))
      BY <2>4, DistancesGrow
    <3>3. CASE r = <<>>
      BY <1>1, <2>6, <2>9, <3>1, <3>2, <3>3
    <3>4. CASE r # <<>>
      <4>1. a.prev = r[Len(r)] /\ r[Len(r)] \in Nat
        BY <2>2, <3>4 DEF Coherent
      <4>2. PICK e \in Int : e = Distance(r[Len(r)], v)
        BY <4>1 DEF Distance
      <4>3. PICK d \in Seq(Int) : d = Distances(r)
        BY <3>2
      <4>4. Total(Append(d, e)) = Total(d) + e
        BY TotalGrows
      <4>5. Distances(more) = Append(d, e)
        BY <3>2, <3>4, <4>2, <4>3
      <4>6. b.jitterSum = a.jitterSum + e
        BY <2>6, <2>9, <3>4, <4>1, <4>2
      <4> QED
        BY <3>1, <4>3, <4>4, <4>5, <4>6
    <3> QED
      BY <3>3, <3>4
  <2>12. Coherent(b)
    BY <2>5, <2>9, <2>10, <2>11 DEF Coherent
  <2> QED
    BY <1>1, <1>3, <2>1, <2>2, <2>4, <2>8, <2>9, <2>12
<1> QED
  BY <1>1, <1>2, <1>3

\* What the loop of ComputeBucket comes to.
LEMMA BucketedIs ==
    ASSUME NEW samples \in Seq(Probed)
    PROVE  /\ Coherent(Bucketed(samples))
           /\ Bucketed(samples).lost = Len(Failed(samples))
           /\ Bucketed(samples).rtts = RTTs(samples)
           /\ RTTs(samples) \in Seq(Nat)
<1> DEFINE Told(x) == /\ Coherent(Bucketed(x))
                      /\ Bucketed(x).lost = Len(Failed(x))
                      /\ Bucketed(x).rtts = RTTs(x)
           P == {x \in Seq(Probed) : Told(x)}
<1>1. \A x \in Seq(Probed) : x \in Seq(Sample)
  <2>1. Probed \subseteq Sample
    BY DEF Probed
  <2> HIDE DEF Sample
  <2> QED
    BY <2>1
<1>2. \A x \in Seq(Probed) : Failed(x) = Kept(x, Failures)
  BY <1>1, FiltersAre
<1>3. <<>> \in P
  <2>1. PICK x : x = <<>> /\ x \in Seq(Probed)
    <3>1. <<>> \in Seq(Probed)
      OBVIOUS
    <3> QED
      BY <3>1
  <2>2. Len(Failed(x)) = 0
    <3>1. Kept(<<>>, Failures) = <<>>
      BY <2>1, KeptIs
    <3>2. Failed(x) = Kept(x, Failures)
      BY <1>2, <2>1
    <3>3. Failed(x) = <<>>
      BY <2>1, <3>1, <3>2
    <3> QED
      BY <3>3
  <2>3. PICK s : s \in Probed
    <3>1. [ts |-> 0, success |-> FALSE, rtt |-> NoRTT, duringSpeedtest |-> FALSE] \in Probed
      BY DEF Probed, Sample
    <3> QED
      BY <3>1
  <2>4. Bucketed(x) = NoRTTs
    BY <2>1, <2>3, BucketedGrows
  <2>5. RTTs(x) = <<>>
    BY <2>1, <2>3, RTTsGrow
  <2>6. Total(Distances(<<>>)) = 0
    <3>1. <<>> \in Seq(Nat) /\ <<>> \in Seq(Int) /\ 0 \in Int /\ 0 \in Nat
      OBVIOUS
    <3>2. Distances(<<>>) = <<>>
      BY <3>1, DistancesGrow
    <3>3. Total(<<>>) = 0
      BY <3>1, TotalGrows
    <3> QED
      BY <3>2, <3>3
  <2>7. Coherent(NoRTTs)
    BY <2>6 DEF Coherent, NoRTTs
  <2>8. NoRTTs.lost = 0 /\ NoRTTs.rtts = <<>>
    BY DEF NoRTTs
  <2>9. Told(x)
    BY <2>2, <2>4, <2>5, <2>7, <2>8
  <2> HIDE DEF Told
  <2> QED
    BY <2>1, <2>9
<1>4. \A x \in Seq(Probed) : x \in P => \A s \in Probed : Append(x, s) \in P
  <2> SUFFICES ASSUME NEW x \in Seq(Probed), x \in P, NEW s \in Probed PROVE Append(x, s) \in P
    OBVIOUS
  <2>1. Append(x, s) \in Seq(Probed)
    OBVIOUS
  <2>2. PICK more : more = Append(x, s) /\ more \in Seq(Probed)
    BY <2>1
  <2>3. PICK a \in BucketAcc : a = Bucketed(x)
    BY BucketedGrows
  <2>4. Bucketed(more) = BucketStep(a, s)
    BY <2>2, <2>3, BucketedGrows
  <2>5. Coherent(a) /\ a.lost = Len(Failed(x)) /\ a.rtts = RTTs(x)
    BY <2>3
  <2>6. /\ Coherent(BucketStep(a, s))
        /\ BucketStep(a, s).lost = a.lost + (IF s.success THEN 0 ELSE 1)
        /\ BucketStep(a, s).rtts = IF s.success THEN Append(a.rtts, s.rtt) ELSE a.rtts
    BY <2>5, StepCoherent
  <2>7. Len(Failed(more)) = Len(Failed(x)) + (IF s.success THEN 0 ELSE 1)
    <3>1. s \in Failures <=> ~s.success
      BY DEF Failures, Probed
    <3>2. Len(Kept(Append(x, s), Failures)) = Len(Kept(x, Failures)) + (IF s \in Failures THEN 1 ELSE 0)
      BY KeptCounts
    <3> QED
      BY <1>2, <2>2, <3>1, <3>2
  <2>8. RTTs(more) = IF s.success THEN Append(RTTs(x), s.rtt) ELSE RTTs(x)
    BY <2>2, RTTsGrow
  <2>9. Told(more)
    BY <2>4, <2>5, <2>6, <2>7, <2>8
  <2> HIDE DEF Told
  <2> QED
    BY <2>2, <2>9
<1>5. Seq(Probed) \subseteq P
  <2> HIDE DEF P
  <2> QED
    BY <1>3, <1>4, InductiveSequences
<1>6. Bucketed(samples) \in BucketAcc
  <2>1. PICK s : s \in Probed
    <3>1. [ts |-> 0, success |-> FALSE, rtt |-> NoRTT, duringSpeedtest |-> FALSE] \in Probed
      BY DEF Probed, Sample
    <3> QED
      BY <3>1
  <2> QED
    BY <2>1, BucketedGrows
<1>7. Bucketed(samples).rtts \in Seq(Nat)
  BY <1>6 DEF BucketAcc
<1> QED
  BY <1>5, <1>7

\* A measure of samples: each adds its weight.
Additive(meas, weight) ==
    /\ meas \in [Seq(Probed) -> Int] /\ weight \in [Probed -> Int]
    /\ meas[<<>>] = 0
    /\ \A x \in Seq(Probed), s \in Probed : meas[Append(x, s)] = meas[x] + weight[s]

\* Every sample of E is in one part.
Splits(R, part, E) ==
    \A s \in E : \E a \in R : \A r \in R : s \in part[r] <=> r = a

\* What the parts measure adds up to what the whole does.
LEMMA SplitSums ==
    ASSUME NEW R, NEW part, NEW E \in SUBSET Probed, NEW meas, NEW weight, NEW samples \in Seq(E),
           IsFiniteSet(R), Splits(R, part, E), Additive(meas, weight)
    PROVE  SumFunction([r \in R |-> meas[Kept(samples, part[r])]]) = meas[samples]
<1> DEFINE parts(x) == [r \in R |-> meas[Kept(x, part[r])]]
           P == {x \in Seq(E) : SumFunction(parts(x)) = meas[x]}
<1>1. \A x \in Seq(E) : x \in Seq(Probed) /\ meas[x] \in Int
  <2>1. \A x \in Seq(E) : x \in Seq(Probed)
    <3> HIDE DEF Probed
    <3> QED
      OBVIOUS
  <2> QED
    BY <2>1 DEF Additive
<1>2. \A x \in Seq(E) : parts(x) \in [R -> Int]
  <2> TAKE x \in Seq(E)
  <2>1. \A r \in R : Kept(x, part[r]) \in Seq(E)
    BY KeptIs
  <2> QED
    BY <1>1, <2>1
<1>3. <<>> \in P
  <2>1. <<>> \in Seq(E)
    OBVIOUS
  <2>2. PICK f : f = parts(<<>>) /\ f \in [R -> Int]
    BY <1>2, <2>1
  <2>3. \A r \in R : f[r] = 0
    <3>1. \A r \in R : Kept(<<>>, part[r]) = <<>>
      BY <2>1, KeptIs
    <3>2. meas[<<>>] = 0
      BY DEF Additive
    <3> QED
      BY <2>2, <3>1, <3>2
  <2>4. SumFunction(f) = 0
    BY <2>2, <2>3, SumSigns
  <2>5. meas[<<>>] = 0
    BY DEF Additive
  <2> QED
    BY <2>1, <2>2, <2>4, <2>5
<1>4. \A x \in Seq(E) : x \in P => \A s \in E : Append(x, s) \in P
  <2> SUFFICES ASSUME NEW x \in Seq(E), x \in P, NEW s \in E PROVE Append(x, s) \in P
    OBVIOUS
  <2>1. Append(x, s) \in Seq(E)
    OBVIOUS
  <2>2. PICK more : more = Append(x, s) /\ more \in Seq(E)
    BY <2>1
  <2>3. PICK a \in R : \A r \in R : s \in part[r] <=> r = a
    BY DEF Splits
  <2>4. PICK v \in Int : v = weight[s]
    BY DEF Additive
  <2>5. PICK f \in [R -> Int] : f = parts(x)
    BY <1>2
  <2>6. PICK g \in [R -> Int] : g = parts(more)
    BY <1>2, <2>2
  <2>7. \A r \in R : g[r] = f[r] + (IF r = a THEN v ELSE 0)
    <3> SUFFICES ASSUME NEW r \in R PROVE g[r] = f[r] + (IF r = a THEN v ELSE 0)
      OBVIOUS
    <3>1. f[r] = meas[Kept(x, part[r])] /\ g[r] = meas[Kept(more, part[r])]
      BY <2>5, <2>6
    <3>2. PICK Q : Q = part[r]
      OBVIOUS
    <3>3. Kept(x, Q) \in Seq(E)
      BY KeptIs
    <3>4. PICK kept : kept = Kept(x, Q) /\ kept \in Seq(Probed)
      BY <1>1, <3>3
    <3>5. Kept(Append(x, s), Q) = IF s \in Q THEN Append(Kept(x, Q), s) ELSE Kept(x, Q)
      BY KeptGrows
    <3>6. Kept(more, Q) = IF s \in Q THEN Append(kept, s) ELSE kept
      BY <2>2, <3>4, <3>5
    <3>7. meas[Append(kept, s)] = meas[kept] + v
      BY <2>4, <3>4 DEF Additive
    <3>8. CASE r = a
      <4>1. s \in Q
        BY <2>3, <3>2, <3>8
      <4> QED
        BY <3>1, <3>2, <3>4, <3>6, <3>7, <3>8, <4>1
    <3>9. CASE r # a
      <4>1. s \notin Q
        BY <2>3, <3>2, <3>9
      <4>2. g[r] = f[r] /\ f[r] \in Int
        BY <3>1, <3>2, <3>4, <3>6, <4>1
      <4> QED
        BY <3>9, <4>2
    <3> QED
      BY <3>8, <3>9
  <2>8. SumFunction(g) = SumFunction(f) + v
    <3>1. Bumped(f, g, R, a, v)
      BY <2>7 DEF Bumped
    <3> HIDE DEF parts, P
    <3> QED
      BY <3>1, SumBumped
  <2>9. SumFunction(f) = meas[x]
    BY <2>5
  <2>10. meas[more] = meas[x] + v
    BY <1>1, <2>2, <2>4 DEF Additive
  <2>11. SumFunction(g) = meas[more]
    BY <2>8, <2>9, <2>10
  <2> QED
    BY <2>2, <2>6, <2>11
<1>5. Seq(E) \subseteq P
  <2> HIDE DEF P
  <2> QED
    BY <1>3, <1>4, InductiveSequences
<1> QED
  BY <1>5

-----------------------------------------------------------------------------
\* Samples, lost samples and round trips are such measures.
LEMMA Measures ==
    /\ Additive([x \in Seq(Probed) |-> Len(x)], [s \in Probed |-> 1])
    /\ Additive([x \in Seq(Probed) |-> Len(Failed(x))], [s \in Probed |-> IF s.success THEN 0 ELSE 1])
    /\ Additive([x \in Seq(Probed) |-> Len(RTTs(x))], [s \in Probed |-> IF s.success THEN 1 ELSE 0])
    /\ Additive([x \in Seq(Probed) |-> Total(RTTs(x))], [s \in Probed |-> IF s.success THEN s.rtt ELSE 0])
<1>1. PICK none : none = <<>> /\ none \in Seq(Probed)
  <2>1. <<>> \in Seq(Probed)
    OBVIOUS
  <2> QED
    BY <2>1
<1>2. PICK one : one \in Probed
  <2>1. [ts |-> 0, success |-> FALSE, rtt |-> NoRTT, duringSpeedtest |-> FALSE] \in Probed
    BY DEF Probed, Sample
  <2> QED
    BY <2>1
<1>3. \A x \in Seq(Probed) : x \in Seq(Sample) /\ Failed(x) = Kept(x, Failures)
  <2>1. Probed \subseteq Sample
    BY DEF Probed
  <2>2. \A x \in Seq(Probed) : x \in Seq(Sample)
    <3> HIDE DEF Sample
    <3> QED
      BY <2>1
  <2> QED
    BY <2>2, FiltersAre
<1>4. \A x \in Seq(Probed), s \in Probed : Append(x, s) \in Seq(Probed)
  OBVIOUS
<1>5. \A s \in Probed : s.success \in BOOLEAN /\ (s.success => s.rtt \in Nat)
  BY DEF Probed, Sample
<1>6. Additive([x \in Seq(Probed) |-> Len(x)], [s \in Probed |-> 1])
  <2>1. \A x \in Seq(Probed), s \in Probed : Len(x) \in Int /\ Len(Append(x, s)) = Len(x) + 1
    OBVIOUS
  <2>2. Len(<<>>) = 0
    OBVIOUS
  <2> QED
    BY <1>1, <1>4, <2>1, <2>2 DEF Additive
<1>7. /\ Len(Failed(<<>>)) = 0
      /\ \A x \in Seq(Probed) : Len(Failed(x)) \in Int
      /\ \A x \in Seq(Probed), s \in Probed :
           Len(Failed(Append(x, s))) = Len(Failed(x)) + (IF s.success THEN 0 ELSE 1)
  <2>1. \A x \in Seq(Probed), s \in Probed :
          /\ Len(Kept(<<>>, Failures)) = 0 /\ Len(Kept(x, Failures)) \in Nat
          /\ Len(Kept(Append(x, s), Failures)) = Len(Kept(x, Failures)) + (IF s \in Failures THEN 1 ELSE 0)
    BY KeptCounts
  <2>2. \A s \in Probed : s \in Failures <=> ~s.success
    BY DEF Failures, Probed
  <2>3. Failed(<<>>) = Kept(<<>>, Failures)
    BY <1>1, <1>3
  <2>4. \A x \in Seq(Probed), s \in Probed : Failed(Append(x, s)) = Kept(Append(x, s), Failures)
    BY <1>3, <1>4
  <2>5. \A x \in Seq(Probed) : Len(Failed(x)) \in Int
    BY <1>2, <1>3, <2>1
  <2>6. Len(Failed(<<>>)) = 0
    BY <1>1, <1>2, <2>1, <2>3
  <2> QED
    BY <1>3, <2>1, <2>2, <2>4, <2>5, <2>6
<1>8. Additive([x \in Seq(Probed) |-> Len(Failed(x))], [s \in Probed |-> IF s.success THEN 0 ELSE 1])
  BY <1>1, <1>4, <1>7 DEF Additive
<1>9. /\ RTTs(<<>>) = <<>>
      /\ \A x \in Seq(Probed) : RTTs(x) \in Seq(Nat)
      /\ \A x \in Seq(Probed), s \in Probed :
           RTTs(Append(x, s)) = IF s.success THEN Append(RTTs(x), s.rtt) ELSE RTTs(x)
  <2>1. RTTs(<<>>) = <<>>
    BY <1>1, <1>2, RTTsGrow
  <2>2. \A x \in Seq(Probed) : RTTs(x) \in Seq(Nat)
    BY BucketedIs
  <2>3. \A x \in Seq(Probed), s \in Probed :
           RTTs(Append(x, s)) = IF s.success THEN Append(RTTs(x), s.rtt) ELSE RTTs(x)
    BY RTTsGrow
  <2> QED
    BY <2>1, <2>2, <2>3
<1>10. \A x \in Seq(Probed), s \in Probed :
         /\ Len(RTTs(x)) \in Int /\ Total(RTTs(x)) \in Int
         /\ Len(RTTs(Append(x, s))) = Len(RTTs(x)) + (IF s.success THEN 1 ELSE 0)
         /\ Total(RTTs(Append(x, s))) = Total(RTTs(x)) + (IF s.success THEN s.rtt ELSE 0)
  <2> SUFFICES ASSUME NEW x \in Seq(Probed), NEW s \in Probed
               PROVE  /\ Len(RTTs(x)) \in Int /\ Total(RTTs(x)) \in Int
                      /\ Len(RTTs(Append(x, s))) = Len(RTTs(x)) + (IF s.success THEN 1 ELSE 0)
                      /\ Total(RTTs(Append(x, s))) = Total(RTTs(x)) + (IF s.success THEN s.rtt ELSE 0)
    OBVIOUS
  <2>1. PICK r \in Seq(Nat) : r = RTTs(x)
    BY <1>9
  <2>2. r \in Seq(Int) /\ Len(r) \in Int
    OBVIOUS
  <2>3. RTTs(Append(x, s)) = IF s.success THEN Append(r, s.rtt) ELSE r
    BY <1>9, <2>1
  <2>4. Total(r) \in Int
    <3>1. 0 \in Int
      OBVIOUS
    <3> QED
      BY <2>2, <3>1, TotalGrows
  <2>5. CASE s.success
    <3>1. PICK v \in Nat : v = s.rtt
      BY <1>5, <2>5
    <3>2. v \in Int
      OBVIOUS
    <3>3. Len(Append(r, v)) = Len(r) + 1 /\ Total(Append(r, v)) = Total(r) + v
      BY <2>2, <3>2, TotalGrows
    <3> QED
      BY <2>1, <2>2, <2>3, <2>4, <2>5, <3>1, <3>3
  <2>6. CASE ~s.success
    BY <2>1, <2>2, <2>3, <2>4, <2>6
  <2> QED
    BY <1>5, <2>5, <2>6
<1>11. Total(<<>>) = 0 /\ Len(<<>>) = 0
  <2>1. <<>> \in Seq(Int) /\ 0 \in Int
    OBVIOUS
  <2> QED
    BY <2>1, TotalGrows
<1>12. \A s \in Probed : (IF s.success THEN s.rtt ELSE 0) \in Int
  BY <1>5
<1>13. Additive([x \in Seq(Probed) |-> Len(RTTs(x))], [s \in Probed |-> IF s.success THEN 1 ELSE 0])
  BY <1>1, <1>2, <1>4, <1>9, <1>10, <1>11 DEF Additive
<1>14. Additive([x \in Seq(Probed) |-> Total(RTTs(x))], [s \in Probed |-> IF s.success THEN s.rtt ELSE 0])
  BY <1>1, <1>2, <1>4, <1>9, <1>10, <1>11, <1>12 DEF Additive
<1> QED
  BY <1>6, <1>8, <1>13, <1>14

\* What ComputeBucket returns.
LEMMA BucketIs ==
    ASSUME NEW x \in Seq(Probed), NEW r, r = RTTs(x)
    PROVE  /\ r \in Seq(Nat) /\ Len(r) = Len(x) - Len(Failed(x))
           /\ ComputeBucket(x).sent = Len(x)
           /\ ComputeBucket(x).lost = Len(Failed(x))
           /\ ComputeBucket(x).avg = IF Len(r) = 0 THEN NoRTT ELSE Total(r) \div Len(r)
           /\ ComputeBucket(x).p95 = IF Len(r) = 0 THEN NoRTT ELSE Sorted(r)[(Percent * Len(r) + 99) \div 100]
           /\ ComputeBucket(x).jitter = jitter(r)
<1>1. PICK a : a = Bucketed(x)
  OBVIOUS
<1>2. Coherent(a) /\ a.lost = Len(Failed(x)) /\ a.rtts = r /\ r \in Seq(Nat)
  BY <1>1, BucketedIs
<1>3. ComputeBucket(x) =
        [sent |-> Len(x), lost |-> a.lost,
         avg |-> IF Len(a.rtts) = 0 THEN NoRTT ELSE Total(a.rtts) \div Len(a.rtts),
         p95 |-> IF Len(a.rtts) = 0 THEN NoRTT ELSE Sorted(a.rtts)[(Percent * Len(a.rtts) + 99) \div 100],
         jitter |-> [sum |-> a.jitterSum, n |-> a.jitterN]]
  BY <1>1, Zenon DEF ComputeBucket, Bucketed, NoRTTs
<1>4. [sum |-> a.jitterSum, n |-> a.jitterN] = jitter(r)
  <2>1. jitter(r) = [sum |-> Total(Distances(r)), n |-> IF r = <<>> THEN 0 ELSE Len(r) - 1]
    BY Zenon DEF jitter, Distances
  <2>2. a.jitterSum = Total(Distances(r)) /\ a.jitterN = IF r = <<>> THEN 0 ELSE Len(r) - 1
    BY <1>2, Zenon DEF Coherent
  <2> QED
    BY <2>1, <2>2, Zenon
<1>5. Len(r) = Len(x) - Len(Failed(x))
  <2> DEFINE P == {y \in Seq(Probed) : Len(RTTs(y)) = Len(y) - Len(Failed(y))}
             all == [y \in Seq(Probed) |-> Len(y)]
             bad == [y \in Seq(Probed) |-> Len(Failed(y))]
             good == [y \in Seq(Probed) |-> Len(RTTs(y))]
  <2>1. /\ Additive(all, [s \in Probed |-> 1])
        /\ Additive(bad, [s \in Probed |-> IF s.success THEN 0 ELSE 1])
        /\ Additive(good, [s \in Probed |-> IF s.success THEN 1 ELSE 0])
    BY Measures
  <2>2. <<>> \in Seq(Probed)
    OBVIOUS
  <2>3. all[<<>>] = 0 /\ bad[<<>>] = 0 /\ good[<<>>] = 0
    <3> HIDE DEF all, bad, good
    <3> QED
      BY <2>1 DEF Additive
  <2>4. <<>> \in P
    BY <2>2, <2>3
  <2>5. \A y \in Seq(Probed) : y \in P => \A s \in Probed : Append(y, s) \in P
    <3> SUFFICES ASSUME NEW y \in Seq(Probed), y \in P, NEW s \in Probed PROVE Append(y, s) \in P
      OBVIOUS
    <3>1. PICK more : more = Append(y, s) /\ more \in Seq(Probed)
      <4>1. Append(y, s) \in Seq(Probed)
        OBVIOUS
      <4> QED
        BY <4>1
    <3>2. /\ all[more] = all[y] + 1
          /\ bad[more] = bad[y] + (IF s.success THEN 0 ELSE 1)
          /\ good[more] = good[y] + (IF s.success THEN 1 ELSE 0)
          /\ all[y] \in Int /\ bad[y] \in Int /\ good[y] \in Int
      <4> HIDE DEF all, bad, good
      <4> QED
        BY <2>1, <3>1 DEF Additive
    <3>3. good[y] = all[y] - bad[y]
      OBVIOUS
    <3>4. good[more] = all[more] - bad[more]
      <4> HIDE DEF all, bad, good
      <4> QED
        BY <3>2, <3>3
    <3> QED
      BY <3>1, <3>4
  <2>6. Seq(Probed) \subseteq P
    <3> HIDE DEF P
    <3> QED
      BY <2>4, <2>5, InductiveSequences
  <2> QED
    BY <2>6
<1>6. /\ ComputeBucket(x).sent = Len(x)
      /\ ComputeBucket(x).lost = a.lost
      /\ ComputeBucket(x).avg = IF Len(a.rtts) = 0 THEN NoRTT ELSE Total(a.rtts) \div Len(a.rtts)
      /\ ComputeBucket(x).p95 = IF Len(a.rtts) = 0 THEN NoRTT
                                ELSE Sorted(a.rtts)[(Percent * Len(a.rtts) + 99) \div 100]
      /\ ComputeBucket(x).jitter = [sum |-> a.jitterSum, n |-> a.jitterN]
  BY <1>3
<1> QED
  BY <1>2, <1>4, <1>5, <1>6, Zenon

-----------------------------------------------------------------------------
\* The samples of a sequence, the row of a bucket, and what a row is of.
Entries(x) == {x[i] : i \in DOMAIN x}
RowOf(x, b) == [ts |-> b, stats |-> ComputeBucket(Kept(x, OfBucket(b)))]
PartOf(x) == [r \in Rows(x) |-> OfBucket(r.ts)]

\* There is one row for each bucket with samples, and it is of those samples.
LEMMA RowsAre ==
    ASSUME NEW x \in Seq(Probed)
    PROVE  /\ IsFiniteSet(Rows(x))
           /\ \A r \in Rows(x) : /\ r.stats = ComputeBucket(Kept(x, OfBucket(r.ts)))
                                 /\ Kept(x, OfBucket(r.ts)) \in Seq(Probed)
                                 /\ \E i \in DOMAIN x : r.ts = BucketOf(x[i])
           /\ Entries(x) \in SUBSET Probed /\ x \in Seq(Entries(x))
           /\ Splits(Rows(x), PartOf(x), Entries(x))
<1>1. x \in Seq(Sample) /\ Probed \subseteq Sample
  <2>1. Probed \subseteq Sample
    BY DEF Probed
  <2> HIDE DEF Sample
  <2> QED
    BY <2>1
<1>2. PICK n \in Nat : n = Len(x) /\ DOMAIN x = 1..n
  OBVIOUS
<1> DEFINE buckets == {BucketOf(x[i]) : i \in DOMAIN x}
<1>3. Rows(x) = {RowOf(x, b) : b \in buckets}
  <2>1. \A b : Only(x, {i \in DOMAIN x : BucketOf(x[i]) = b}) = Kept(x, OfBucket(b))
    BY <1>1, FiltersAre
  <2>2. Rows(x) = {[ts |-> b, stats |-> ComputeBucket(Only(x, {i \in DOMAIN x : BucketOf(x[i]) = b}))] :
                     b \in buckets}
    BY DEF Rows
  <2>3. \A b \in buckets : [ts |-> b, stats |-> ComputeBucket(Only(x, {i \in DOMAIN x : BucketOf(x[i]) = b}))]
                           = RowOf(x, b)
    BY <2>1 DEF RowOf
  <2> HIDE DEF buckets
  <2> QED
    BY <2>2, <2>3
<1>4. \A b : RowOf(x, b).ts = b /\ RowOf(x, b).stats = ComputeBucket(Kept(x, OfBucket(b)))
  BY DEF RowOf
<1>5. IsFiniteSet(Rows(x))
  <2>1. IsFiniteSet(1..n)
    BY FS_Interval
  <2>2. PICK f : f = [i \in 1..n |-> RowOf(x, BucketOf(x[i]))]
    OBVIOUS
  <2>3. (\A i \in 1..n : f[i] \in Rows(x)) /\ \A r \in Rows(x) : \E i \in 1..n : f[i] = r
    BY <1>2, <1>3, <2>2
  <2>4. f \in Surjection(1..n, Rows(x))
    BY <2>2, <2>3 DEF Surjection
  <2> QED
    BY <2>1, <2>4, FS_Surjection
<1>6. \A r \in Rows(x) : /\ r.stats = ComputeBucket(Kept(x, OfBucket(r.ts)))
                         /\ r.ts \in buckets /\ r = RowOf(x, r.ts)
  BY <1>3, <1>4
<1>7. \A Q : Kept(x, Q) \in Seq(Probed)
  BY KeptIs
<1>8. Entries(x) \in SUBSET Probed /\ x \in Seq(Entries(x))
  <2>1. \A i \in 1..n : x[i] \in Probed /\ x[i] \in Entries(x)
    BY <1>2 DEF Entries
  <2>2. Entries(x) \in SUBSET Probed
    BY <1>2, <2>1 DEF Entries
  <2>3. PICK E : E = Entries(x) /\ \A i \in 1..n : x[i] \in E
    BY <2>1
  <2>4. x \in [1..n -> E]
    BY <1>2, <2>3
  <2>5. x \in Seq(E)
    BY <2>4
  <2> QED
    BY <2>2, <2>3, <2>5
<1>9. Splits(Rows(x), PartOf(x), Entries(x))
  <2> SUFFICES ASSUME NEW s \in Entries(x)
               PROVE  \E a \in Rows(x) : \A r \in Rows(x) : s \in PartOf(x)[r] <=> r = a
    BY DEF Splits
  <2>1. s \in Sample
    BY <1>1, <1>8
  <2>2. BucketOf(s) \in buckets
    BY DEF Entries
  <2>3. PICK a \in Rows(x) : a = RowOf(x, BucketOf(s))
    BY <1>3, <2>2
  <2>4. \A r \in Rows(x) : s \in PartOf(x)[r] <=> BucketOf(s) = r.ts
    BY <2>1 DEF PartOf, OfBucket
  <2>5. \A r \in Rows(x) : BucketOf(s) = r.ts <=> r = a
    BY <1>4, <1>6, <2>3
  <2> QED
    BY <2>4, <2>5
<1> QED
  BY <1>5, <1>6, <1>7, <1>8, <1>9

\* Division rounds down.
LEMMA DivBounds ==
    ASSUME NEW t \in Int, NEW n \in Nat, n > 0
    PROVE  /\ t \div n \in Int /\ (t \div n) * n \in Int
           /\ (t \div n) * n <= t /\ t < (t \div n) * n + n
OBVIOUS

\* No greater factor, no greater product.
LEMMA ProductsOrdered ==
    ASSUME NEW n \in Nat, NEW p \in Int, NEW q \in Int, p <= q
    PROVE  p * n <= q * n
<1>1. PICK d \in Nat : q = p + d
  <2>1. q - p \in Nat /\ q = p + (q - p)
    OBVIOUS
  <2> QED
    BY <2>1
<1>2. d * n >= 0
  OBVIOUS
<1>3. q * n = p * n + d * n
  BY <1>1
<1> QED
  BY <1>2, <1>3

\* No more than one apart, no quotient is.
LEMMA DivApart ==
    ASSUME NEW a \in Int, NEW t \in Int, NEW n \in Nat, n > 0, a <= t, t <= a + n
    PROVE  a \div n <= t \div n /\ t \div n <= (a \div n) + 1
<1>1. PICK p \in Int : p = a \div n
  OBVIOUS
<1>2. PICK q \in Int : q = t \div n
  OBVIOUS
<1>3. p * n \in Int /\ p * n <= a /\ a < p * n + n
  BY <1>1, DivBounds
<1>4. q * n \in Int /\ q * n <= t /\ t < q * n + n
  BY <1>2, DivBounds
<1>5. p <= q
  <2> SUFFICES ASSUME q + 1 <= p PROVE FALSE
    OBVIOUS
  <2>1. (q + 1) * n <= p * n
    BY ProductsOrdered
  <2>2. (q + 1) * n = q * n + n
    OBVIOUS
  <2> QED
    BY <1>3, <1>4, <2>1, <2>2
<1>6. q <= p + 1
  <2> SUFFICES ASSUME p + 2 <= q PROVE FALSE
    OBVIOUS
  <2>1. (p + 2) * n <= q * n
    BY ProductsOrdered
  <2>2. (p + 2) * n = p * n + n + n
    OBVIOUS
  <2> QED
    BY <1>3, <1>4, <2>1, <2>2
<1> QED
  BY <1>1, <1>2, <1>5, <1>6

\* The rows count every sample once, and their averages lose less than one for
\* each round trip.
LEMMA RowsAddUp ==
    ASSUME NEW x \in Seq(Probed), NEW rows, rows = Rows(x)
    PROVE  /\ SumFunction([r \in rows |-> r.stats.sent]) = Len(x)
           /\ SumFunction([r \in rows |-> r.stats.lost]) = Len(Failed(x))
           /\ \E sum \in Int :
                /\ sum = SumFunction([r \in rows |-> r.stats.avg * (r.stats.sent - r.stats.lost)])
                /\ sum <= Total(RTTs(x)) /\ Total(RTTs(x)) <= sum + Len(RTTs(x))
<1>1. /\ IsFiniteSet(rows)
      /\ \A r \in rows : /\ r.stats = ComputeBucket(Kept(x, OfBucket(r.ts)))
                         /\ Kept(x, OfBucket(r.ts)) \in Seq(Probed)
      /\ Entries(x) \in SUBSET Probed /\ x \in Seq(Entries(x))
      /\ Splits(rows, PartOf(x), Entries(x))
  BY RowsAre
<1>2. \A r \in rows : PartOf(x)[r] = OfBucket(r.ts)
  BY DEF PartOf
<1> DEFINE mine(r) == Kept(x, OfBucket(r.ts))
<1>3. ASSUME NEW meas, NEW weight, Additive(meas, weight)
      PROVE  SumFunction([r \in rows |-> meas[mine(r)]]) = meas[x]
  <2>1. SumFunction([r \in rows |-> meas[Kept(x, PartOf(x)[r])]]) = meas[x]
    <3>1. PICK part, E : part = PartOf(x) /\ E = Entries(x)
      OBVIOUS
    <3>2. E \in SUBSET Probed /\ x \in Seq(E) /\ Splits(rows, part, E) /\ IsFiniteSet(rows)
      BY <1>1, <3>1
    <3>3. SumFunction([r \in rows |-> meas[Kept(x, part[r])]]) = meas[x]
      BY <1>3, <3>2, SplitSums
    <3> QED
      BY <3>1, <3>3
  <2>2. [r \in rows |-> meas[Kept(x, PartOf(x)[r])]] = [r \in rows |-> meas[mine(r)]]
    BY <1>2
  <2> QED
    BY <2>1, <2>2
<1> DEFINE all == [y \in Seq(Probed) |-> Len(y)]
           bad == [y \in Seq(Probed) |-> Len(Failed(y))]
           good == [y \in Seq(Probed) |-> Len(RTTs(y))]
           time == [y \in Seq(Probed) |-> Total(RTTs(y))]
<1>4. /\ SumFunction([r \in rows |-> all[mine(r)]]) = all[x]
      /\ SumFunction([r \in rows |-> bad[mine(r)]]) = bad[x]
      /\ SumFunction([r \in rows |-> good[mine(r)]]) = good[x]
      /\ SumFunction([r \in rows |-> time[mine(r)]]) = time[x]
  <2>1. /\ Additive(all, [s \in Probed |-> 1])
        /\ Additive(bad, [s \in Probed |-> IF s.success THEN 0 ELSE 1])
        /\ Additive(good, [s \in Probed |-> IF s.success THEN 1 ELSE 0])
        /\ Additive(time, [s \in Probed |-> IF s.success THEN s.rtt ELSE 0])
    BY Measures
  <2> HIDE DEF all, bad, good, time, mine
  <2> QED
    BY <1>3, <2>1
<1>5. /\ time \in [Seq(Probed) -> Int] /\ good \in [Seq(Probed) -> Int]
  BY Measures DEF Additive
<1>6. \A r \in rows :
        /\ r.stats.sent = all[mine(r)] /\ r.stats.lost = bad[mine(r)]
        /\ r.stats.sent - r.stats.lost = good[mine(r)]
        /\ r.stats.avg = IF good[mine(r)] = 0 THEN NoRTT ELSE time[mine(r)] \div good[mine(r)]
        /\ good[mine(r)] \in Nat /\ time[mine(r)] \in Int
        /\ good[mine(r)] = 0 => time[mine(r)] = 0
  <2> SUFFICES ASSUME NEW r \in rows
               PROVE  /\ r.stats.sent = all[mine(r)] /\ r.stats.lost = bad[mine(r)]
                      /\ r.stats.sent - r.stats.lost = good[mine(r)]
                      /\ r.stats.avg = IF good[mine(r)] = 0 THEN NoRTT ELSE time[mine(r)] \div good[mine(r)]
                      /\ good[mine(r)] \in Nat /\ time[mine(r)] \in Int
                      /\ good[mine(r)] = 0 => time[mine(r)] = 0
    OBVIOUS
  <2>1. PICK y \in Seq(Probed) : y = mine(r)
    BY <1>1
  <2>2. PICK b : b = ComputeBucket(y) /\ b = r.stats
    BY <1>1, <2>1
  <2>3. PICK rtts : rtts = RTTs(y)
    OBVIOUS
  <2>4. /\ rtts \in Seq(Nat) /\ Len(rtts) = Len(y) - Len(Failed(y))
        /\ b.sent = Len(y) /\ b.lost = Len(Failed(y))
        /\ b.avg = IF Len(rtts) = 0 THEN NoRTT ELSE Total(rtts) \div Len(rtts)
    <3> HIDE DEF all, bad, good, time, mine
    <3>1. /\ rtts \in Seq(Nat) /\ Len(rtts) = Len(y) - Len(Failed(y))
          /\ ComputeBucket(y).sent = Len(y) /\ ComputeBucket(y).lost = Len(Failed(y))
          /\ ComputeBucket(y).avg = IF Len(rtts) = 0 THEN NoRTT ELSE Total(rtts) \div Len(rtts)
      BY <2>3, BucketIs
    <3> QED
      BY <2>2, <3>1
  <2>5. Len(rtts) \in Nat /\ (Len(rtts) = 0 => rtts = <<>>)
    BY <2>4
  <2>6. Total(<<>>) = 0
    <3>1. <<>> \in Seq(Int) /\ 0 \in Int
      OBVIOUS
    <3> QED
      BY <3>1, TotalGrows
  <2>7. all[y] = Len(y) /\ bad[y] = Len(Failed(y)) /\ good[y] = Len(rtts) /\ time[y] = Total(rtts)
    BY <2>3
  <2>8. time[y] \in Int
    BY <1>5
  <2> HIDE DEF all, bad, good, time, mine
  <2> QED
    BY <2>1, <2>2, <2>4, <2>5, <2>6, <2>7, <2>8
<1>7. /\ SumFunction([r \in rows |-> r.stats.sent]) = Len(x)
      /\ SumFunction([r \in rows |-> r.stats.lost]) = Len(Failed(x))
  <2>1. /\ [r \in rows |-> r.stats.sent] = [r \in rows |-> all[mine(r)]]
        /\ [r \in rows |-> r.stats.lost] = [r \in rows |-> bad[mine(r)]]
    <3> HIDE DEF all, bad, mine
    <3> QED
      BY <1>6
  <2>2. all[x] = Len(x) /\ bad[x] = Len(Failed(x))
    OBVIOUS
  <2> HIDE DEF all, bad, good, time, mine
  <2> QED
    BY <1>4, <2>1, <2>2
<1>8. PICK A : A = [r \in rows |-> r.stats.avg * (r.stats.sent - r.stats.lost)]
  OBVIOUS
<1>9. PICK T : T = [r \in rows |-> time[mine(r)]]
  OBVIOUS
<1>10. PICK N : N = [r \in rows |-> good[mine(r)]]
  OBVIOUS
<1>11. \A r \in rows : /\ A[r] \in Int /\ T[r] \in Int /\ N[r] \in Int
                       /\ A[r] <= T[r] /\ T[r] <= A[r] + N[r]
  <2> SUFFICES ASSUME NEW r \in rows
               PROVE  /\ A[r] \in Int /\ T[r] \in Int /\ N[r] \in Int
                      /\ A[r] <= T[r] /\ T[r] <= A[r] + N[r]
    OBVIOUS
  <2>1. PICK n \in Nat : n = good[mine(r)]
    BY <1>6
  <2>2. PICK t \in Int : t = time[mine(r)]
    BY <1>6
  <2>3. PICK v : v = r.stats.avg
    OBVIOUS
  <2> HIDE DEF all, bad, good, time, mine
  <2>4. v = (IF n = 0 THEN NoRTT ELSE t \div n) /\ r.stats.sent - r.stats.lost = n /\ (n = 0 => t = 0)
    BY <1>6, <2>1, <2>2, <2>3
  <2>5. A[r] = v * n /\ T[r] = t /\ N[r] = n
    BY <1>8, <1>9, <1>10, <2>1, <2>2, <2>3, <2>4
  <2>6. CASE n = 0
    <3>1. v = NoRTT /\ v \in Int /\ t = 0
      BY <2>4, <2>6 DEF NoRTT
    <3>2. v * n = 0
      BY <2>6, <3>1
    <3> QED
      BY <2>5, <2>6, <3>1, <3>2
  <2>7. CASE n > 0
    <3>1. v = t \div n
      BY <2>4, <2>7
    <3>2. v * n \in Int /\ v * n <= t /\ t < v * n + n
      BY <2>7, <3>1, DivBounds
    <3> QED
      BY <2>5, <3>2
  <2> QED
    BY <2>6, <2>7
<1>12. A \in [rows -> Int] /\ T \in [rows -> Int] /\ N \in [rows -> Int]
  <2>1. A = [r \in rows |-> A[r]] /\ T = [r \in rows |-> T[r]] /\ N = [r \in rows |-> N[r]]
    <3> HIDE DEF good, time, mine
    <3> QED
      BY <1>8, <1>9, <1>10
  <2> QED
    BY <1>11, <2>1
<1>13. PICK B : B = [r \in rows |-> A[r] + N[r]]
  OBVIOUS
<1>14. B \in [rows -> Int] /\ (\A r \in rows : B[r] = A[r] + N[r]) /\ \A r \in rows : T[r] <= B[r]
  BY <1>11, <1>13
<1>15. SumFunction(A) <= SumFunction(T)
  <2>1. \A r \in rows : A[r] <= T[r]
    BY <1>11
  <2> HIDE DEF mine
  <2> QED
    BY <1>1, <1>12, <2>1, SumsOrdered
<1>16. SumFunction(T) <= SumFunction(B)
  BY <1>1, <1>12, <1>14, SumsOrdered
<1>17. SumFunction(B) = SumFunction(A) + SumFunction(N) /\ SumFunction(A) \in Int
  <2>1. AddUp(A, N, B, rows)
    BY <1>14 DEF AddUp
  <2>2. IsFiniteSet(rows) /\ A \in [rows -> Int] /\ B \in [rows -> Int] /\ N \in [rows -> Int]
    BY <1>1, <1>12, <1>14
  <2> HIDE DEF mine, all, bad, good, time
  <2> QED
    BY <2>1, <2>2, SumAdds
<1>18. SumFunction(T) = Total(RTTs(x)) /\ SumFunction(N) = Len(RTTs(x))
  <2>1. time[x] = Total(RTTs(x)) /\ good[x] = Len(RTTs(x))
    OBVIOUS
  <2> HIDE DEF good, time, mine, all, bad
  <2> QED
    BY <1>4, <1>9, <1>10, <2>1
<1>19. PICK sum \in Int : sum = SumFunction(A)
  BY <1>17
<1>20. sum <= Total(RTTs(x)) /\ Total(RTTs(x)) <= sum + Len(RTTs(x))
  BY <1>15, <1>16, <1>17, <1>18, <1>19
<1> QED
  BY <1>7, <1>8, <1>19, <1>20

\* What there is to say of a percentile of some round trips.
IsPercentile(h, G, v) ==
    /\ \E i \in G : h[i].rtt = v
    /\ 100 * Cardinality({i \in G : h[i].rtt <= v}) >= Percent * Cardinality(G)
    /\ 100 * Cardinality({i \in G : h[i].rtt <= v - 1}) < Percent * Cardinality(G)

\* The place of the percentile among n values in order.
LEMMA PercentilePlace ==
    ASSUME NEW n \in Nat, n > 0
    PROVE  \E k \in 1..n : /\ k = (Percent * n + 99) \div 100
                           /\ Percent * n \in Nat /\ 100 * k >= Percent * n /\ 100 * (k - 1) < Percent * n
<1>1. PICK p \in 1..100 : p = Percent
  BY ViewsAssumption
<1>2. PICK w \in Nat : w = p * n
  OBVIOUS
<1>3. n <= w /\ w <= 100 * n
  <2>1. 1 * n <= p * n /\ p * n <= 100 * n
    BY ProductsOrdered
  <2> QED
    BY <1>2, <2>1
<1>4. PICK k \in Int : k = (w + 99) \div 100
  OBVIOUS
<1>5. 100 * k <= w + 99 /\ w + 99 < 100 * k + 100
  BY <1>4
<1>6. k \in 1..n
  BY <1>3, <1>5
<1>7. 100 * k >= w /\ 100 * (k - 1) < w
  BY <1>5
<1> QED
  BY <1>1, <1>2, <1>4, <1>6, <1>7

\* The entry at that place is the percentile of the round trips it is taken of.
LEMMA PercentilePicks ==
    ASSUME NEW h \in Seq(Sample), NEW G \in SUBSET (1..Len(h)), NEW good \in Seq(Sample), NEW g, NEW values,
           Picks(g, h, good, G), Numbers(h, G), G # {}, values = RTTsIn(good)
    PROVE  IsPercentile(h, G, Sorted(values)[(Percent * Len(values) + 99) \div 100])
<1>0. /\ values \in Seq(Int) /\ Len(values) = Len(good) /\ Len(good) = Cardinality(G)
      /\ IsFiniteSet(G)
      /\ \A k \in 1..Len(good) : values[k] = h[g[k]].rtt
  <2>1. /\ RTTsIn(good) \in Seq(Int) /\ Len(RTTsIn(good)) = Len(good) /\ Len(good) = Cardinality(G)
        /\ IsFiniteSet(G)
        /\ \A k \in 1..Len(good) : RTTsIn(good)[k] = h[g[k]].rtt
    BY ValuesOf
  <2> QED
    BY <2>1
<1>2. PICK n \in Nat : n = Len(values) /\ n = Len(good) /\ n = Cardinality(G)
  <2>1. Len(values) \in Nat
    BY <1>0
  <2> QED
    BY <1>0, <2>1
<1>3. \A k \in 1..n : values[k] = h[g[k]].rtt /\ g[k] \in G /\ values[k] \in Int
  BY <1>0, <1>2 DEF Picks, Enumerates
<1>4. n > 0
  BY <1>0, <1>2, FS_EmptySet
<1>5. PICK k \in 1..n : /\ k = (Percent * n + 99) \div 100
                        /\ Percent * n \in Nat /\ 100 * k >= Percent * n /\ 100 * (k - 1) < Percent * n
  BY <1>4, PercentilePlace
<1>6. PICK at \in 1..n : /\ Sorted(values)[k] = values[at]
                         /\ Cardinality({j \in 1..n : values[j] < values[at]}) < k
                         /\ Cardinality({j \in 1..n : values[j] <= values[at]}) >= k
  BY <1>0, <1>2, SortedRanks
<1>7. PICK v \in Int : v = values[at]
  BY <1>3
<1> DEFINE less == {i \in G : h[i].rtt <= v - 1}
           upto == {i \in G : h[i].rtt <= v}
<1>8. /\ {j \in 1..n : values[j] < v} = Places(g, n, less)
      /\ {j \in 1..n : values[j] <= v} = Places(g, n, upto)
  BY <1>3 DEF Places
<1>9. Enumerates(g, n, G) /\ G \in SUBSET Int
  BY <1>2 DEF Picks
<1>10. /\ Cardinality(Places(g, n, less)) = Cardinality(G \cap less)
       /\ Cardinality(Places(g, n, upto)) = Cardinality(G \cap upto)
  <2>1. \A Q : Cardinality(Places(g, n, Q)) = Cardinality(G \cap Q)
    BY <1>9, EveryCount
  <2> QED
    BY <2>1
<1>11. G \cap less = less /\ G \cap upto = upto
  OBVIOUS
<1>12. Cardinality(less) < k /\ Cardinality(upto) >= k
  <2> HIDE DEF less, upto
  <2> QED
    BY <1>6, <1>7, <1>8, <1>10, <1>11
<1>13. Cardinality(less) \in Nat /\ Cardinality(upto) \in Nat
  <2>1. less \in SUBSET G /\ upto \in SUBSET G
    OBVIOUS
  <2> HIDE DEF less, upto
  <2> QED
    BY <1>0, <2>1, FS_Subset, FS_CardinalityType
<1>14. 100 * Cardinality(less) < Percent * n /\ 100 * Cardinality(upto) >= Percent * n
  <2> HIDE DEF less, upto
  <2> QED
    BY <1>5, <1>12, <1>13
<1>15. \E i \in G : h[i].rtt = v
  BY <1>3, <1>7
<1> QED
  BY <1>2, <1>5, <1>6, <1>7, <1>14, <1>15 DEF IsPercentile

\* Times are in one bucket when no boundary lies between them.
LEMMA BucketSpan ==
    ASSUME NEW i \in Nat, NEW j \in Nat, NEW w \in Nat, w > 0
    PROVE  i - (i % w) = j - (j % w) <=> j - (j % w) <= i /\ i < (j - (j % w)) + w
<1>1. PICK p \in Int : p = i \div w
  OBVIOUS
<1>2. PICK q \in Int : q = j \div w
  OBVIOUS
<1>3. i - (i % w) = p * w /\ p * w \in Int /\ p * w <= i /\ i < p * w + w
  BY <1>1
<1>4. j - (j % w) = q * w /\ q * w \in Int
  BY <1>2
<1>5. ASSUME q * w <= i, i < q * w + w PROVE p = q
  <2>1. p < q + 1
    <3> SUFFICES ASSUME q + 1 <= p PROVE FALSE
      OBVIOUS
    <3>1. (q + 1) * w <= p * w
      BY ProductsOrdered
    <3>2. (q + 1) * w = q * w + w
      OBVIOUS
    <3> QED
      BY <1>3, <1>4, <1>5, <3>1, <3>2
  <2>2. q < p + 1
    <3> SUFFICES ASSUME p + 1 <= q PROVE FALSE
      OBVIOUS
    <3>1. (p + 1) * w <= q * w
      BY ProductsOrdered
    <3>2. (p + 1) * w = p * w + w
      OBVIOUS
    <3> QED
      BY <1>3, <1>4, <1>5, <3>1, <3>2
  <2> QED
    BY <2>1, <2>2
<1> QED
  BY <1>3, <1>4, <1>5

\* The counted samples of a bucket are those between its boundaries.
LEMMA RowPicks ==
    ASSUME NEW h \in Seq(Sample), NEW counted, NEW b, NEW y, NEW rowed, Dated(h),
           counted = Counted(h), counted \in Seq(Probed), y = Kept(counted, OfBucket(b)),
           rowed = {i \in CountedIn(h) : BucketOf(h[i]) = b}
    PROVE  y \in Seq(Sample) /\ \E g : Picks(g, h, y, rowed)
<1>1. PICK n \in Nat : n = Len(h) /\ DOMAIN h = 1..n
  OBVIOUS
<1>2. CountedIn(h) \in SUBSET (1..Len(h)) /\ CountedIn(h) \in SUBSET Int
  <2>1. 1..Len(h) \subseteq Int
    OBVIOUS
  <2> QED
    BY <2>1 DEF CountedIn
<1>3. counted = Only(h, CountedIn(h))
  BY <1>1 DEF Counted, CountedIn
<1>4. counted \in Seq(Sample) /\ \E f : Picks(f, h, counted, CountedIn(h))
  BY <1>2, <1>3, OnlyPicks
<1>5. PICK f : Picks(f, h, counted, CountedIn(h))
  BY <1>4
<1>6. PICK k \in Nat : k = Len(counted) /\ DOMAIN counted = 1..k
  BY <1>4
<1>7. PICK Q : Q = {i \in 1..n : BucketOf(h[i]) = b}
  OBVIOUS
<1>8. \A j \in 1..k : f[j] \in 1..n /\ counted[j] = h[f[j]] /\ counted[j] \in Sample
  <2>1. \A j \in 1..k : f[j] \in CountedIn(h) /\ counted[j] = h[f[j]]
    BY <1>5, <1>6 DEF Picks, Enumerates
  <2>2. \A j \in 1..k : counted[j] \in Sample
    BY <1>4, <1>6
  <2> QED
    BY <1>1, <1>2, <2>1, <2>2
<1>9. {j \in DOMAIN counted : counted[j] \in OfBucket(b)} = Places(f, k, Q)
  BY <1>6, <1>7, <1>8 DEF Places, OfBucket
<1>10. y = Only(counted, Places(f, k, Q))
  BY <1>9 DEF Kept
<1>11. /\ Only(counted, Places(f, k, Q)) \in Seq(Sample)
       /\ \E g : Picks(g, h, Only(counted, Places(f, k, Q)), CountedIn(h) \cap Q)
  BY <1>2, <1>4, <1>5, <1>6, PicksOnly
<1>12. CountedIn(h) \cap Q = rowed
  BY <1>1, <1>2, <1>7
<1> QED
  BY <1>10, <1>11, <1>12

\* What the summaries and the rows say of the history.
LEMMA SummariesAreExact ==
    ASSUME hist \in Seq(Sample), WindowInv
    PROVE  SummariesAgree
<1>1. PICK h \in Seq(Sample) : h = hist
  OBVIOUS
<1>2. PICK n \in Nat : n = Len(h) /\ DOMAIN h = 1..n
  OBVIOUS
<1>3. Dated(h) /\ \A i \in 1..n : h[i].ts = i /\ (h[i].success => h[i].rtt \in Nat)
  BY <1>1, <1>2 DEF WindowInv, Dated
<1>4. PICK counted : counted = Counted(h)
  OBVIOUS
<1>5. counted \in Seq(Probed)
  <2>1. PICK E : E = {h[i] : i \in 1..n} /\ E \subseteq Probed
    <3>1. \A i \in 1..n : h[i] \in Probed
      BY <1>2, <1>3 DEF Probed
    <3> QED
      BY <3>1
  <2>2. h \in Seq(E)
    <3>1. h \in [1..n -> E]
      BY <1>2, <2>1
    <3> QED
      BY <3>1
  <2>3. CountedIn(h) \in SUBSET (1..Len(h)) /\ counted = Only(h, CountedIn(h))
    BY <1>2, <1>4 DEF Counted, CountedIn
  <2>4. Only(h, CountedIn(h)) \in Seq(E)
    BY <2>2, <2>3, OnlyPicks
  <2>5. counted \in Seq(E)
    BY <2>3, <2>4
  <2> HIDE DEF Probed
  <2> QED
    BY <2>1, <2>5
<1>6. PICK rtts : rtts = RTTs(counted)
  OBVIOUS
<1>7. /\ rtts \in Seq(Nat) /\ Len(rtts) = Len(counted) - Len(Failed(counted))
      /\ ComputeBucket(counted).jitter = jitter(rtts)
  BY <1>5, <1>6, BucketIs
<1>8. PICK rows : rows = Rows(counted)
  OBVIOUS
<1>9. PICK raw : raw = SummaryOfSamples(h)
  OBVIOUS
<1>10. PICK long : long = SummaryOfRows(rows)
  OBVIOUS
<1>11. /\ raw.sent = Len(counted) /\ raw.lost = Len(Failed(counted))
       /\ raw.avg = IF rtts = <<>> THEN NoRTT ELSE Total(rtts) \div Len(rtts)
  BY <1>4, <1>6, <1>9 DEF SummaryOfSamples
<1>12. PICK sum \in Int :
         /\ SumFunction([r \in rows |-> r.stats.sent]) = Len(counted)
         /\ SumFunction([r \in rows |-> r.stats.lost]) = Len(Failed(counted))
         /\ sum = SumFunction([r \in rows |-> r.stats.avg * (r.stats.sent - r.stats.lost)])
         /\ sum <= Total(rtts) /\ Total(rtts) <= sum + Len(rtts)
  BY <1>5, <1>6, <1>8, RowsAddUp
<1>13. /\ long.sent = Len(counted) /\ long.lost = Len(Failed(counted))
       /\ long.avg = IF Len(counted) = Len(Failed(counted)) THEN NoRTT
                     ELSE sum \div (Len(counted) - Len(Failed(counted)))
  <2>1. long = [sent |-> Len(counted), lost |-> Len(Failed(counted)),
                avg |-> IF Len(counted) = Len(Failed(counted)) THEN NoRTT
                        ELSE sum \div (Len(counted) - Len(Failed(counted)))]
    BY <1>10, <1>12, Zenon DEF SummaryOfRows
  <2> QED
    BY <2>1
<1>14. long.avg <= raw.avg /\ raw.avg <= long.avg + 1
  <2>1. PICK c \in Nat : c = Len(rtts)
    BY <1>7
  <2>2. PICK all \in Int, bad \in Int : all = Len(counted) /\ bad = Len(Failed(counted))
    <3>1. Len(counted) \in Int
      BY <1>5
    <3>2. Len(Failed(counted)) \in Int
      <4>1. [x \in Seq(Probed) |-> Len(Failed(x))] \in [Seq(Probed) -> Int]
        BY Measures DEF Additive
      <4> QED
        BY <1>5, <4>1
    <3> QED
      BY <3>1, <3>2
  <2>3. c = all - bad /\ (rtts = <<>> <=> c = 0)
    BY <1>7, <2>1, <2>2
  <2>4. CASE c = 0
    <3>1. all = bad
      BY <2>2, <2>3, <2>4
    <3>2. long.avg = NoRTT /\ raw.avg = NoRTT
      BY <1>11, <1>13, <2>2, <2>3, <2>4, <3>1
    <3> QED
      BY <3>2 DEF NoRTT
  <2>5. CASE c > 0
    <3>1. PICK t \in Int : t = Total(rtts)
      <4>1. rtts \in Seq(Int) /\ 0 \in Int
        BY <1>7
      <4> QED
        BY <4>1, TotalGrows
    <3>2. sum <= t /\ t <= sum + c
      BY <1>12, <2>1, <3>1
    <3>3. sum \div c <= t \div c /\ t \div c <= (sum \div c) + 1
      BY <2>5, <3>2, DivApart
    <3>4. all # bad /\ rtts # <<>>
      BY <2>2, <2>3, <2>5
    <3>5. long.avg = sum \div c /\ raw.avg = t \div c
      BY <1>11, <1>13, <2>1, <2>2, <2>3, <3>1, <3>4
    <3> QED
      BY <3>3, <3>5
  <2> QED
    BY <2>4, <2>5
<1>15. ASSUME NEW r \in rows, NEW G, G = {i \in GoodSince(r.ts) : i < r.ts + Bucket}
       PROVE  IF G = {} THEN r.stats.p95 = NoRTT ELSE IsPercentile(h, G, r.stats.p95)
  <2>1. PICK y \in Seq(Probed) : y = Kept(counted, OfBucket(r.ts)) /\ r.stats = ComputeBucket(y)
    BY <1>5, <1>8, <1>15, RowsAre
  <2>2. PICK j \in DOMAIN counted : r.ts = BucketOf(counted[j])
    BY <1>5, <1>8, <1>15, RowsAre
  <2>3. PICK b : b = r.ts
    OBVIOUS
  <2>4. PICK rowed : rowed = {i \in CountedIn(h) : BucketOf(h[i]) = b}
    OBVIOUS
  <2>5. y \in Seq(Sample) /\ \E g : Picks(g, h, y, rowed)
    <3>1. y = Kept(counted, OfBucket(b))
      BY <2>1, <2>3
    <3> QED
      BY <1>3, <1>4, <1>5, <2>4, <3>1, RowPicks, Zenon
  <2>6. rowed \in SUBSET (1..Len(h))
    BY <2>4 DEF CountedIn
  <2>7. PICK f : Picks(f, h, y, rowed)
    BY <2>5
  <2>8. Good(y) \in Seq(Sample) /\ \E g : Picks(g, h, Good(y), rowed \cap GoodIn(h))
    BY <2>5, <2>6, <2>7, FilteredPicks
  <2>9. PICK good \in Seq(Sample) : good = Good(y) /\ \E g : Picks(g, h, good, rowed \cap GoodIn(h))
    BY <2>8
  <2>10. rowed \cap GoodIn(h) = G
    <3>1. PICK at \in Nat : b = at - (at % Bucket)
      <4>1. counted[j] \in Sample /\ counted[j].ts \in Nat
        BY <1>5 DEF Probed, Sample
      <4> QED
        BY <2>2, <2>3, <4>1 DEF BucketOf
    <3>2. Bucket \in Nat /\ Bucket > 0
      BY ViewsAssumption
    <3>3. b \in Int
      BY <3>1, <3>2
    <3>4. \A i \in 1..n : BucketOf(h[i]) = b <=> b <= i /\ i < b + Bucket
      <4> SUFFICES ASSUME NEW i \in 1..n PROVE BucketOf(h[i]) = b <=> b <= i /\ i < b + Bucket
        OBVIOUS
      <4>1. BucketOf(h[i]) = i - (i % Bucket) /\ i \in Nat
        BY <1>3 DEF BucketOf
      <4>2. i - (i % Bucket) = at - (at % Bucket)
              <=> at - (at % Bucket) <= i /\ i < (at - (at % Bucket)) + Bucket
        BY <3>2, <4>1, BucketSpan
      <4> QED
        BY <3>1, <4>1, <4>2
    <3>5. \A i : i \in rowed \cap GoodIn(h) <=>
             i \in 1..n /\ ~h[i].duringSpeedtest /\ h[i].success /\ BucketOf(h[i]) = b
      BY <1>2, <2>4 DEF CountedIn, GoodIn
    <3>6. \A i : i \in G <=> i \in 1..n /\ ~h[i].duringSpeedtest /\ h[i].success /\ i >= b /\ i < b + Bucket
      BY <1>1, <1>2, <1>15, <2>3 DEF GoodSince, Since, CountedAt
    <3>7. \A i : i \in rowed \cap GoodIn(h) <=> i \in G
      <4>1. 1..n \subseteq Int
        OBVIOUS
      <4> QED
        BY <3>3, <3>4, <3>5, <3>6, <4>1
    <3> QED
      BY <3>7
  <2>11. G \in SUBSET (1..Len(h)) /\ Numbers(h, G)
    <3>1. G \in SUBSET (1..Len(h))
      BY <2>6, <2>10
    <3>2. \A i \in G : h[i].success
      BY <2>10 DEF GoodIn
    <3> QED
      BY <1>2, <1>3, <3>1, <3>2 DEF Numbers
  <2>12. PICK g : Picks(g, h, good, G)
    BY <2>9, <2>10
  <2>13. PICK values : values = RTTsIn(good)
    OBVIOUS
  <2>14. values = RTTs(y)
    BY <2>9, <2>13 DEF RTTs, RTTsIn
  <2>15. Len(values) = Cardinality(G) /\ (values = <<>> <=> G = {}) /\ IsFiniteSet(G)
    BY <2>11, <2>12, <2>13, ValuesOf
  <2>16. r.stats.p95 = IF Len(values) = 0 THEN NoRTT ELSE Sorted(values)[(Percent * Len(values) + 99) \div 100]
    BY <2>1, <2>14, BucketIs
  <2>17. CASE G = {}
    <3>1. Len(values) = 0
      BY <2>15, <2>17, FS_EmptySet
    <3> QED
      BY <2>16, <2>17, <3>1
  <2>18. CASE G # {}
    <3>1. Len(values) # 0
      BY <2>15, <2>18, FS_EmptySet
    <3>2. IsPercentile(h, G, Sorted(values)[(Percent * Len(values) + 99) \div 100])
      BY <2>11, <2>12, <2>13, <2>18, PercentilePicks
    <3> QED
      BY <2>16, <2>18, <3>1, <3>2
  <2> QED
    BY <2>17, <2>18
<1>16. rtts = windowStats(h).rtts
  BY <1>4, <1>6 DEF windowStats
<1>17. rows = Rollup(hist) /\ raw = SummaryOfSamples(hist)
  BY <1>1, <1>4, <1>8, <1>9 DEF Rollup
<1>18. long.sent = raw.sent /\ long.lost = raw.lost
  BY <1>11, <1>13
<1>19. ComputeBucket(Counted(hist)).jitter = jitter(windowStats(hist).rtts)
  BY <1>1, <1>4, <1>7, <1>16
<1>20. \A r \in rows :
         LET good == {i \in GoodSince(r.ts) : i < r.ts + Bucket}
             atMost(v) == Cardinality({i \in good : hist[i].rtt <= v})
         IN IF good = {} THEN r.stats.p95 = NoRTT
            ELSE /\ \E i \in good : hist[i].rtt = r.stats.p95
                 /\ 100 * atMost(r.stats.p95) >= Percent * Cardinality(good)
                 /\ 100 * atMost(r.stats.p95 - 1) < Percent * Cardinality(good)
  <2> SUFFICES ASSUME NEW r \in rows
               PROVE  LET good == {i \in GoodSince(r.ts) : i < r.ts + Bucket}
                          atMost(v) == Cardinality({i \in good : hist[i].rtt <= v})
                      IN IF good = {} THEN r.stats.p95 = NoRTT
                         ELSE /\ \E i \in good : hist[i].rtt = r.stats.p95
                              /\ 100 * atMost(r.stats.p95) >= Percent * Cardinality(good)
                              /\ 100 * atMost(r.stats.p95 - 1) < Percent * Cardinality(good)
    OBVIOUS
  <2>1. PICK G : G = {i \in GoodSince(r.ts) : i < r.ts + Bucket}
    OBVIOUS
  <2>2. IF G = {} THEN r.stats.p95 = NoRTT ELSE IsPercentile(hist, G, r.stats.p95)
    BY <1>1, <1>15, <2>1
  <2> QED
    BY <2>1, <2>2, Zenon DEF IsPercentile
<1> QED
  BY <1>10, <1>14, <1>17, <1>18, <1>19, <1>20, Zenon DEF SummariesAgree

-----------------------------------------------------------------------------
(***************************************************************************)
(* All of them together.                                                    *)
(***************************************************************************)

\* What is known of the whole history, and of the parts that condense it.
CondensedInv == HistoryInv /\ WindowInv /\ BurstsInv

LEMMA CondensedInit == HInit => CondensedInv
BY HistoryInit, WindowInit, BurstsInit DEF CondensedInv

LEMMA CondensedStep == CondensedInv /\ [HNext]_hvars => CondensedInv'
<1> SUFFICES ASSUME CondensedInv, [HNext]_hvars PROVE WindowInv' /\ BurstsInv'
  BY HistoryStep DEF CondensedInv
<1>1. ASSUME NEW success \in BOOLEAN, NEW rtt \in RTT \union {LoadedRTT, NoRTT},
             NEW flagged \in BOOLEAN, HFeed(success, rtt, flagged), success => rtt \in Nat
      PROVE  WindowInv' /\ BurstsInv'
  <2>1. PICK s : s = [ts |-> Len(hist) + 1, success |-> success, rtt |-> rtt,
                      duringSpeedtest |-> flagged]
    OBVIOUS
  <2>2. Len(hist) \in Nat /\ hist \in Seq(Sample)
    BY DEF CondensedInv, HistoryInv
  <2>3. s \in Sample /\ s.ts = Len(hist) + 1 /\ (s.success => s.rtt \in Nat)
    BY <1>1, <2>1, <2>2 DEF Sample
  <2>4. hist' = Append(hist, s) /\ window' = TrackerAdd(window, s)
    BY <1>1, <2>1 DEF HFeed
  <2>5. WindowInv'
    BY <2>2, <2>3, <2>4, WindowFed DEF CondensedInv
  <2>6. BurstsInv'
    BY <2>2, <2>3, <2>4, BurstsFed DEF CondensedInv
  <2> QED
    BY <2>5, <2>6
<1>2. CASE UNCHANGED hvars
  <2>1. hist' = hist /\ window' = window
    BY <1>2 DEF hvars
  <2>2. WindowInv'
    BY <2>1 DEF CondensedInv, WindowInv, Dated, WindowStart
  <2>3. CountedAt' = CountedAt /\ \A i : RunAt(i)' = RunAt(i)
    BY <2>1 DEF CountedAt, RunAt
  <2>4. FailedAt' = FailedAt
    BY <2>1, <2>3 DEF FailedAt
  <2>5. PICK a : a = Grouped(hist) /\ a = Grouped(hist')
    BY <2>1
  <2>6. PICK bursts : bursts = BurstsOf(a)
    OBVIOUS
  <2>7. AreTheRuns(bursts) /\ UnderWay(a)
    BY <2>5, <2>6 DEF CondensedInv, BurstsInv
  <2>8. AreTheRuns(bursts)'
    BY <2>3, <2>4, <2>7, Zenon DEF AreTheRuns, Spans
  <2>9. UnderWay(a)'
    BY <2>1, <2>3, <2>7, Zenon DEF UnderWay
  <2> QED
    BY <2>2, <2>5, <2>6, <2>8, <2>9 DEF BurstsInv
<1>3. \A rtt \in RTT \union {LoadedRTT} : rtt \in Nat
  BY HistoryAssumption
<1> QED
  BY <1>1, <1>2, <1>3 DEF HNext, HDone

\* Whatever the samples, the loss bursts are the maximal runs of failures, each
\* once, with their gaps and the median of these (bursts.go:25-96), and a target
\* that is DOWN has had one long enough.
THEOREM BurstsAreTheRuns == HSpec => []BurstsExact
<1>1. CondensedInv => BurstsExact
  BY BurstsAreExact DEF CondensedInv
<1> QED
  BY <1>1, CondensedInit, CondensedStep, PTL DEF HSpec

\* Whatever the samples, the tracker's window, pruned at each of them, is the
\* last five minutes of the history, and its counts, the glance's and their
\* median are those of the samples they speak of (live.go:28-54, glance.go).
THEOREM WindowIsTheLastMinutes == HSpec => []WindowExact
<1>1. CondensedInv => WindowExact
  BY WindowIsExact DEF CondensedInv, HistoryInv
<1> QED
  BY <1>1, CondensedInit, CondensedStep, PTL DEF HSpec

\* Whatever the samples, a range tells the same story from its samples and from
\* its rollup rows: the same counts, averages less than the rounding apart, and
\* rows whose percentile and jitter are those of the samples they stand for
\* (rollup.go:17-77, history.go:290-331).
THEOREM SummariesTellTheSame == HSpec => []SummariesAgree
<1>1. CondensedInv => SummariesAgree
  BY SummariesAreExact DEF CondensedInv, HistoryInv
<1> QED
  BY <1>1, CondensedInit, CondensedStep, PTL DEF HSpec

=============================================================================
