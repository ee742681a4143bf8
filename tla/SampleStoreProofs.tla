------------------------- MODULE SampleStoreProofs -------------------------
(***************************************************************************)
(* Proofs about the life of a sample, for any targets, bucket widths and   *)
(* retention, any number of samples and any failures, crashes and stops.   *)
(***************************************************************************)
EXTENDS SampleStore, WellFoundedInduction, TLAPS

-----------------------------------------------------------------------------
(* Buckets. *)

\* The widths and the retention, as the provers need them.
LEMMA Widths ==
    /\ \A r \in Res : Width(r) \in Nat \ {0}
    /\ Width("1h") = Hour /\ Hour \in Nat \ {0}
    /\ KeepRaw \in Nat /\ KeepRaw >= 2 * Hour
BY RetentionAssumption DEF Res, Width

\* A multiple and a remainder.
LEMMA Division ==
    ASSUME NEW x \in Nat, NEW w \in Nat \ {0}
    PROVE  x - (x % w) = (x \div w) * w /\ x \div w \in Nat /\ x % w \in 0..(w - 1)
<1>1. x - (x % w) = (x \div w) * w /\ x \div w \in Nat
  BY Z3
<1>2. x % w \in 0..(w - 1)
  BY Z3
<1> QED
  BY <1>1, <1>2

\* A multiple of w not beyond x is not beyond the last multiple before x.
LEMMA FloorAbove ==
    ASSUME NEW x \in Nat, NEW w \in Nat \ {0}, NEW k \in Nat, k * w <= x
    PROVE  k * w <= x - (x % w)
<1>1. k <= x \div w
  BY Z3
<1>2. x - (x % w) = (x \div w) * w /\ x \div w \in Nat
  BY Division
<1>3. k * w <= (x \div w) * w
  BY <1>1, <1>2, Z3
<1> QED
  BY <1>2, <1>3

\* A cursor is the start of a bucket.
Aligned(c, r) == \E k \in Nat : c = k * Width(r)

\* The bucket of a time: it starts at a multiple of the width, not after that
\* time and less than a width before it.
LEMMA FloorBucket ==
    ASSUME NEW r \in Res, NEW ts \in Nat
    PROVE  /\ Floor(ts, r) \in Nat /\ Aligned(Floor(ts, r), r)
           /\ Floor(ts, r) <= ts /\ ts < Floor(ts, r) + Width(r)
<1>1. Width(r) \in Nat \ {0}
  BY Widths
<1>2. /\ ts - (ts % Width(r)) = (ts \div Width(r)) * Width(r)
      /\ ts \div Width(r) \in Nat
      /\ ts % Width(r) \in 0..(Width(r) - 1)
  BY <1>1, Division
<1>3. ts % Width(r) <= ts
  <2>1. 0 * Width(r) <= ts
    BY <1>1
  <2>2. 0 * Width(r) <= ts - (ts % Width(r))
    BY <1>1, <2>1, FloorAbove
  <2> QED
    BY <1>1, <1>2, <2>2
<1> QED
  BY <1>1, <1>2, <1>3 DEF Floor, Aligned

\* What lies behind a cursor and what lies ahead are in different buckets.
LEMMA BucketsApart ==
    ASSUME NEW r \in Res, NEW c \in Nat, Aligned(c, r),
           NEW early \in Nat, NEW late \in Nat, early < c, c <= late
    PROVE  Floor(early, r) # Floor(late, r)
<1>1. Width(r) \in Nat \ {0}
  BY Widths
<1>2. PICK k \in Nat : c = k * Width(r)
  BY DEF Aligned
<1>3. c <= Floor(late, r)
  BY <1>1, <1>2, FloorAbove DEF Floor
<1>4. Floor(early, r) <= early /\ Floor(early, r) \in Nat /\ Floor(late, r) \in Nat
  BY FloorBucket
<1> QED
  BY <1>3, <1>4

\* What retention takes is older than the hour that is being filled.
LEMMA KeptHour ==
    ASSUME NEW at \in Nat
    PROVE  at - KeepRaw < Floor(at, "1h") /\ at - KeepRaw < at - 1
<1>1. at < Floor(at, "1h") + Hour /\ Floor(at, "1h") \in Nat
  BY FloorBucket, Widths DEF Res
<1> QED
  BY <1>1, Widths

-----------------------------------------------------------------------------
(* The invariant. *)

\* Samples are dated, and one still in memory is of this tick or the last.
PlacesDated ==
    /\ DOMAIN place \subseteq Sample
    /\ listed \subseteq Target
    /\ now \in Nat /\ now >= 1
    /\ \A s \in InMemory : s.ts >= now - 1

\* Cursors stand at the start of a bucket, and what a row has counted lies
\* behind them.
RowsBehind ==
    /\ cursor \in [Target \X Res -> Nat]
    /\ \A t \in Target, r \in Res : Aligned(cursor[<<t, r>>], r)
    /\ rolled \in [Res -> SUBSET DOMAIN place]
    /\ \A r \in Res : \A s \in rolled[r] : s.ts < cursor[<<s.target, r>>]

\* All that the pass is going to prune of t has been rolled into hours.
Covered(t) == \A s \in Raw(t) : s.ts < agg.at - KeepRaw => s.ts < cursor[<<t, "1h">>]

\* The pass: what it has read lies ahead of the cursor and in complete
\* buckets, and a target it has done with is covered.
PassSound ==
    /\ agg.at \in Nat /\ agg.at <= now
    /\ agg.seen \subseteq DOMAIN place
    /\ agg.pc \in {"read", "write", "prune"} =>
          \A t \in listed : <<t, "1h">> \notin agg.todo => Covered(t)
    /\ agg.pc = "prune" => agg.todo = {}
    /\ agg.pc = "write" =>
          \A t \in Target, r \in Res : agg.pair = <<t, r>> =>
             /\ cursor[<<t, r>>] <= Floor(agg.at, r)
             /\ \A s \in agg.seen :
                   s.target = t /\ cursor[<<t, r>>] <= s.ts /\ s.ts < Floor(agg.at, r)

StoreInv == PlacesDated /\ RowsBehind /\ PassSound /\ UnrolledIsKept

\* The sample store starts empty, past the first hour.
LEMMA StoreInit == Init => StoreInv
<1> SUFFICES ASSUME Init PROVE StoreInv
  OBVIOUS
<1>1. DOMAIN place = {}
  BY DEF Init
<1>2. PlacesDated
  BY <1>1, Widths DEF Init, PlacesDated, InMemory, At
<1>3. RowsBehind
  <2>1. \A r \in Res : Aligned(0, r)
    <3> TAKE r \in Res
    <3>1. 0 = 0 * Width(r)
      BY Widths
    <3> QED
      BY <3>1 DEF Aligned
  <2> QED
    BY <2>1 DEF Init, RowsBehind
<1>4. PassSound
  BY Widths DEF Init, PassSound, NoPass, Pass
<1>5. UnrolledIsKept
  BY <1>1 DEF UnrolledIsKept, At
<1> QED
  BY <1>2, <1>3, <1>4, <1>5 DEF StoreInv

\* A step that moves samples, deletes targets or gives up the pass, and leaves
\* the rest of the store alone.
Moves ==
    /\ DOMAIN place \subseteq DOMAIN place' /\ DOMAIN place' \subseteq Sample
    /\ \A s \in InMemory' : s.ts >= now - 1
    /\ \A s \in At("raw")' : s \in At("raw") \/ s.ts >= now - 1
    /\ At("pruned")' \subseteq At("pruned")
    /\ listed' \subseteq listed
    /\ agg' = agg \/ agg' = NoPass
    /\ UNCHANGED <<cursor, rolled, now>>

\* Such a step keeps the invariant.
LEMMA MovesKeep ==
    ASSUME StoreInv, Moves
    PROVE  StoreInv'
<1>1. PlacesDated'
  BY DEF StoreInv, PlacesDated, Moves
<1>2. RowsBehind'
  BY DEF StoreInv, RowsBehind, Moves
<1>3. UnrolledIsKept'
  BY DEF StoreInv, UnrolledIsKept, Moves
<1>4. CASE agg' = NoPass
  <2>1. agg'.at = 0 /\ agg'.seen = {} /\ agg'.pc = "wait"
    BY <1>4 DEF NoPass, Pass
  <2> QED
    BY <1>1, <1>2, <1>3, <2>1 DEF StoreInv, PassSound, PlacesDated
<1>5. CASE agg' = agg
  <2>1. \A t \in Target : Covered(t) => Covered(t)'
    <3> SUFFICES ASSUME NEW t \in Target, Covered(t), NEW s \in Raw(t)',
                        s.ts < agg.at - KeepRaw
                 PROVE  s.ts < cursor[<<t, "1h">>]
      BY <1>5 DEF Covered, Moves
    <3>1. s \in At("raw")' /\ s.target = t /\ s \in Sample
      BY DEF Raw, At, Moves
    <3>2. s.ts \in Nat
      BY <3>1 DEF Sample
    <3>3. agg.at \in Nat /\ agg.at <= now /\ now \in Nat
      BY DEF StoreInv, PassSound, PlacesDated
    <3>4. ~(s.ts >= now - 1)
      BY <3>2, <3>3, KeptHour, Widths
    <3>5. s \in Raw(t)
      BY <3>1, <3>4 DEF Moves, Raw
    <3> QED
      BY <3>5 DEF Covered
  <2>2. listed' \subseteq Target
    BY DEF StoreInv, PlacesDated, Moves
  <2>3. PassSound'
    BY <1>5, <2>1, <2>2 DEF StoreInv, PassSound, Moves
  <2> QED
    BY <1>1, <1>2, <1>3, <2>3 DEF StoreInv
<1> QED
  BY <1>4, <1>5 DEF Moves

-----------------------------------------------------------------------------
(* The steps. *)

\* Samples that leave one place for another that is not "pruned" and not memory,
\* or that stay in memory: all that Move ever does outside of PruneRaw.
LEMMA MoveMoves ==
    ASSUME StoreInv, NEW S, NEW p, Move(S, p), S \subseteq InMemory, p # "pruned",
           listed' \subseteq listed, agg' = agg \/ agg' = NoPass,
           UNCHANGED <<cursor, rolled, now>>
    PROVE  Moves
<1>1. DOMAIN place \subseteq Sample /\ \A s \in InMemory : s.ts >= now - 1
  BY DEF StoreInv, PlacesDated
<1>2. place' = [s \in DOMAIN place |-> IF s \in S THEN p ELSE place[s]]
  BY DEF Move
<1>3. \A s \in DOMAIN place : s \in InMemory <=> place[s] \in {"loop", "queue", "batch"}
  BY DEF InMemory, At
<1>4. InMemory \subseteq DOMAIN place
  BY DEF InMemory, At
<1>5. \A s \in InMemory' : s \in InMemory
  BY <1>2, <1>3 DEF InMemory, At
<1>6. \A s \in At("raw")' : s \in At("raw") \/ s \in S
  BY <1>2 DEF At
<1>7. At("pruned")' \subseteq At("pruned")
  BY <1>2 DEF At
<1>8. DOMAIN place' = DOMAIN place
  BY <1>2
<1> QED
  BY <1>1, <1>5, <1>6, <1>7, <1>8 DEF Moves

\* Every step but those of the clock and of a pass that goes on is such a move.
LEMMA MovingSteps ==
    ASSUME StoreInv,
           \/ \E t \in Target, flagged \in BOOLEAN : TakeSample(t, flagged)
           \/ \E s \in DOMAIN place : Submit(s) \/ Receive(s)
           \/ \E ok \in BOOLEAN : FlushTick(ok) \/ FinalFlush(ok)
           \/ RollupFails \/ PruneFails
           \/ \E t \in Target : DeleteTarget(t)
           \/ Crash \/ Shutdown \/ Exit
           \/ UNCHANGED svars
    PROVE  Moves
<1>0. /\ DOMAIN place \subseteq Sample
      /\ now \in Nat /\ \A s \in InMemory : s.ts >= now - 1
  BY DEF StoreInv, PlacesDated
<1>1. ASSUME NEW t \in Target, NEW flagged \in BOOLEAN, TakeSample(t, flagged)
      PROVE  Moves
  <2> DEFINE new == [target |-> t, ts |-> now, flagged |-> flagged]
  <2>1. /\ place' = [s \in DOMAIN place \union {new} |-> IF s = new THEN "loop" ELSE place[s]]
        /\ UNCHANGED <<listed, agg, cursor, rolled, now>>
    BY <1>1 DEF TakeSample, ProducerKeeps
  <2>2. new \in Sample /\ new.ts = now
    BY <1>0 DEF Sample
  <2> HIDE DEF new
  <2>3. DOMAIN place' = DOMAIN place \union {new}
    BY <2>1
  <2>4. \A s \in InMemory' : s = new \/ s \in InMemory
    BY <2>1 DEF InMemory, At
  <2>5. At("raw")' \subseteq At("raw") /\ At("pruned")' \subseteq At("pruned")
    BY <2>1 DEF At
  <2> QED
    BY <1>0, <2>1, <2>2, <2>3, <2>4, <2>5 DEF Moves
<1>2. ASSUME NEW s \in DOMAIN place, Submit(s)
      PROVE  Moves
  <2>1. PICK p \in {"queue", "dropped"} : Move({s}, p)
    BY <1>2 DEF Submit
  <2>2. {s} \subseteq InMemory /\ UNCHANGED <<listed, agg, cursor, rolled, now>>
    BY <1>2 DEF Submit, ProducerKeeps, InMemory, At
  <2> QED
    BY <2>1, <2>2, MoveMoves
<1>3. ASSUME NEW s \in DOMAIN place, Receive(s)
      PROVE  Moves
  <2>1. Move({s}, "batch") /\ {s} \subseteq InMemory
        /\ UNCHANGED <<listed, agg, cursor, rolled, now>>
    BY <1>3 DEF Receive, WriterKeeps, InMemory, At
  <2> QED
    BY <2>1, MoveMoves
<1>4. ASSUME NEW ok \in BOOLEAN, Flush(ok), UNCHANGED <<listed, agg, cursor, rolled, now>>
      PROVE  Moves
  <2>1. PICK p \in {"raw", "lost"} : Move(At("batch"), p)
    BY <1>4 DEF Flush
  <2>2. At("batch") \subseteq InMemory
    BY DEF InMemory
  <2> QED
    BY <1>4, <2>1, <2>2, MoveMoves
<1>5. ASSUME UNCHANGED <<place, cursor, rolled, now>>, listed' \subseteq listed,
             agg' = agg \/ agg' = NoPass
      PROVE  Moves
  BY <1>0, <1>5 DEF Moves, InMemory, At
<1>6. ASSUME NEW ok \in BOOLEAN, FlushTick(ok)
      PROVE  Moves
  BY <1>4, <1>6 DEF FlushTick, WriterKeeps
<1>7. ASSUME NEW ok \in BOOLEAN, FinalFlush(ok)
      PROVE  Moves
  <2>1. UNCHANGED <<listed, agg, cursor, rolled, now>> /\ (UNCHANGED place \/ Flush(ok))
    BY <1>7 DEF FinalFlush, WriterKeeps
  <2> QED
    BY <1>4, <1>5, <2>1
<1>8. CASE RollupFails \/ PruneFails
  BY <1>5, <1>8 DEF RollupFails, PruneFails, PassFails, AggKeeps
<1>9. ASSUME NEW t \in Target, DeleteTarget(t)
      PROVE  Moves
  BY <1>5, <1>9 DEF DeleteTarget
<1>10. CASE Crash \/ Exit
  <2>1. Move(InMemory, "lost") /\ UNCHANGED <<listed, cursor, rolled, now>>
        /\ (agg' = agg \/ agg' = NoPass)
    BY <1>10 DEF Crash, Exit
  <2> QED
    BY <2>1, MoveMoves
<1>11. CASE Shutdown
  BY <1>5, <1>11 DEF Shutdown
<1>12. CASE UNCHANGED svars
  BY <1>5, <1>12 DEF svars
<1> QED
  BY <1>1, <1>2, <1>3, <1>6, <1>7, <1>8, <1>9, <1>10, <1>11, <1>12

\* The clock goes on only past a tick whose samples have been settled.
LEMMA TickKeeps == StoreInv /\ Tick => StoreInv'
<1> SUFFICES ASSUME StoreInv, Tick PROVE StoreInv'
  OBVIOUS
<1>1. /\ UNCHANGED <<place, listed, agg, cursor, rolled>> /\ now' = now + 1
      /\ \A s \in InMemory : s.ts = now
  BY DEF Tick
<1>2. PlacesDated'
  BY <1>1 DEF StoreInv, PlacesDated, InMemory, At
<1>3. RowsBehind' /\ UnrolledIsKept'
  BY <1>1 DEF StoreInv, RowsBehind, UnrolledIsKept, At
<1>4. \A t \in Target : Covered(t)' <=> Covered(t)
  BY <1>1 DEF Covered, Raw, At
<1>5. PassSound'
  BY <1>1, <1>4 DEF StoreInv, PassSound, PlacesDated
<1> QED
  BY <1>2, <1>3, <1>5 DEF StoreInv

\* A pass begins: no target is done with.
LEMMA StartPassKeeps == StoreInv /\ StartPass => StoreInv'
<1> SUFFICES ASSUME StoreInv, StartPass PROVE StoreInv'
  OBVIOUS
<1>1. /\ UNCHANGED <<place, listed, cursor, rolled, now>>
      /\ agg'.pc = IF listed = {} THEN "prune" ELSE "read"
      /\ agg'.todo = listed \X Res /\ agg'.at = now /\ agg'.seen = {}
  BY DEF StartPass, AggKeeps, Pass
<1>2. PlacesDated' /\ RowsBehind' /\ UnrolledIsKept'
  BY <1>1 DEF StoreInv, PlacesDated, RowsBehind, UnrolledIsKept, InMemory, At
<1>3. \A t \in listed : <<t, "1h">> \in listed \X Res
  BY DEF Res
<1>4. listed = {} => listed \X Res = {}
  OBVIOUS
<1>5. PassSound'
  BY <1>1, <1>3, <1>4 DEF StoreInv, PassSound, PlacesDated
<1> QED
  BY <1>2, <1>5 DEF StoreInv

\* A non-empty set of dated samples has an oldest one.
LEMMA OldestExists ==
    ASSUME NEW S, S \subseteq Sample, S # {}
    PROVE  \E s \in S : \A u \in S : s.ts <= u.ts
<1> DEFINE T == {s.ts : s \in S}
<1>1. T \subseteq Nat /\ T # {}
  BY DEF Sample
<1>2. PICK x \in T : \A y \in T : x <= y
  <2> HIDE DEF T
  <2>1. IsWellFoundedOn(OpToRel(<, Nat), Nat)
    BY NatLessThanWellFounded
  <2>2. PICK x \in T : \A y \in T : ~(<<y, x>> \in OpToRel(<, Nat))
    BY <1>1, <2>1, WFMin
  <2>3. \A y \in T : ~(y < x)
    BY <1>1, <2>2 DEF OpToRel
  <2> QED
    BY <1>1, <2>3
<1>3. PICK s \in S : x = s.ts
  OBVIOUS
<1> QED
  BY <1>2, <1>3

\* Where a window begins: at the cursor if there is one, and before the bucket
\* of every sample if there is none.
LEMMA WindowStart ==
    ASSUME StoreInv, NEW t \in Target, NEW r \in Res,
           cursor[<<t, r>>] # 0 \/ Raw(t) # {}
    PROVE  /\ cursor[<<t, r>>] \in Nat /\ From(t, r) \in Nat
           /\ cursor[<<t, r>>] <= From(t, r)
           /\ cursor[<<t, r>>] # 0 => From(t, r) = cursor[<<t, r>>]
           /\ cursor[<<t, r>>] = 0 => \A s \in Raw(t) : From(t, r) <= s.ts
<1>1. cursor[<<t, r>>] \in Nat
  BY DEF StoreInv, RowsBehind
<1>2. CASE cursor[<<t, r>>] # 0
  BY <1>1, <1>2 DEF From
<1>3. CASE cursor[<<t, r>>] = 0
  <2> DEFINE oldest == CHOOSE s \in Raw(t) : \A u \in Raw(t) : s.ts <= u.ts
  <2>1. Raw(t) \subseteq Sample /\ Raw(t) # {}
    BY <1>3 DEF StoreInv, PlacesDated, Raw, At
  <2>2. oldest \in Raw(t) /\ \A u \in Raw(t) : oldest.ts <= u.ts
    BY <2>1, OldestExists
  <2>3. From(t, r) = Floor(oldest.ts, r)
    BY <1>3 DEF From
  <2>4. oldest.ts \in Nat /\ \A u \in Raw(t) : u.ts \in Nat
    BY <2>1, <2>2 DEF Sample
  <2> HIDE DEF oldest
  <2>5. Floor(oldest.ts, r) \in Nat /\ Floor(oldest.ts, r) <= oldest.ts
    BY <2>4, FloorBucket
  <2> QED
    BY <1>3, <2>2, <2>3, <2>4, <2>5
<1> QED
  BY <1>2, <1>3

\* A pair with nothing to roll is covered; of any other the window is read.
LEMMA ReadWindowKeeps ==
    ASSUME StoreInv, NEW t \in Target, NEW r \in Res, ReadWindow(t, r)
    PROVE  StoreInv'
<1>1. /\ UNCHANGED <<place, listed, cursor, rolled, now>>
      /\ agg.pc = "read"
  BY DEF ReadWindow, AggKeeps
<1>2. /\ agg.at \in Nat /\ agg.at <= now
      /\ \A u \in listed : <<u, "1h">> \notin agg.todo => Covered(u)
  BY <1>1 DEF StoreInv, PassSound
<1>3. PlacesDated' /\ RowsBehind' /\ UnrolledIsKept'
  BY <1>1 DEF StoreInv, PlacesDated, RowsBehind, UnrolledIsKept, InMemory, At
<1>4. agg'.at = agg.at
  BY DEF ReadWindow, Finished, Then, Pass
<1>5. \A u \in Target : Covered(u)' <=> Covered(u)
  BY <1>1, <1>4 DEF Covered, Raw, At
<1>6. listed \subseteq Target
  BY DEF StoreInv, PlacesDated
<1>7. /\ Floor(agg.at, r) \in Nat
      /\ r = "1h" => agg.at - KeepRaw < Floor(agg.at, r)
  BY <1>2, FloorBucket, KeptHour
<1>8. \A s \in Raw(t) : s.ts \in Nat /\ s \in DOMAIN place /\ s.target = t
  BY DEF StoreInv, PlacesDated, Raw, At, Sample
<1>9. CASE (cursor[<<t, r>>] = 0 /\ Raw(t) = {}) \/ From(t, r) >= Complete(r)
  <2>1. agg' = Finished(agg.todo \ {<<t, r>>})
    BY <1>9 DEF ReadWindow
  <2>2. /\ agg'.todo = agg.todo \ {<<t, r>>} /\ agg'.seen = {}
        /\ agg'.pc = IF agg.todo \ {<<t, r>>} = {} THEN "prune" ELSE "read"
    BY <2>1 DEF Finished, Then, Pass
  <2>3. r = "1h" => Covered(t)
    <3>1. CASE Raw(t) = {}
      BY <3>1 DEF Covered
    <3>2. CASE Raw(t) # {}
      <4>1. From(t, r) >= Floor(agg.at, r)
        BY <1>9, <3>2 DEF Complete
      <4>2. /\ cursor[<<t, r>>] \in Nat /\ From(t, r) \in Nat
            /\ cursor[<<t, r>>] # 0 => From(t, r) = cursor[<<t, r>>]
            /\ cursor[<<t, r>>] = 0 => \A s \in Raw(t) : From(t, r) <= s.ts
        BY <3>2, WindowStart
      <4>3. agg.at - KeepRaw \in Int
        BY <1>2, Widths
      <4> QED
        BY <1>7, <1>8, <4>1, <4>2, <4>3 DEF Covered
    <3> QED
      BY <3>1, <3>2
  <2>4. \A u \in listed : <<u, "1h">> \notin agg'.todo => Covered(u)
    <3> SUFFICES ASSUME NEW u \in listed, <<u, "1h">> \notin agg.todo \ {<<t, r>>}
                 PROVE  Covered(u)
      BY <2>2
    <3>1. CASE <<u, "1h">> \notin agg.todo
      BY <1>2, <3>1
    <3>2. CASE <<u, "1h">> = <<t, r>>
      BY <2>3, <3>2
    <3> QED
      BY <3>1, <3>2
  <2>5. PassSound'
    BY <1>1, <1>2, <1>4, <1>5, <1>6, <2>2, <2>4 DEF PassSound
  <2> QED
    BY <1>3, <2>5 DEF StoreInv
<1>10. CASE ~((cursor[<<t, r>>] = 0 /\ Raw(t) = {}) \/ From(t, r) >= Complete(r))
  <2> DEFINE read == {s \in Raw(t) : From(t, r) <= s.ts /\ s.ts < Complete(r)}
  <2>1. agg' = Pass("write", agg.todo, agg.at, <<t, r>>, read)
    BY <1>10 DEF ReadWindow
  <2>2. /\ agg'.pc = "write" /\ agg'.todo = agg.todo
        /\ agg'.pair = <<t, r>> /\ agg'.seen = read
    BY <2>1 DEF Pass
  <2>3. /\ cursor[<<t, r>>] \in Nat /\ From(t, r) \in Nat
        /\ cursor[<<t, r>>] <= From(t, r)
    BY <1>10, WindowStart
  <2>4. From(t, r) < Floor(agg.at, r)
    BY <1>7, <1>10, <2>3 DEF Complete
  <2>5. /\ cursor[<<t, r>>] <= Floor(agg.at, r)
        /\ read \subseteq DOMAIN place
        /\ \A s \in read : s.target = t /\ cursor[<<t, r>>] <= s.ts /\ s.ts < Floor(agg.at, r)
    BY <1>7, <1>8, <2>3, <2>4 DEF Complete
  <2> HIDE DEF read
  <2>6. \A u \in Target, q \in Res : agg'.pair = <<u, q>> => u = t /\ q = r
    BY <2>2
  <2>7. PassSound'
    BY <1>1, <1>2, <1>4, <1>5, <1>6, <2>2, <2>5, <2>6 DEF PassSound
  <2> QED
    BY <1>3, <2>7 DEF StoreInv
<1> QED
  BY <1>9, <1>10

\* What WriteRows does to the rows and the cursors.
WriteEffect(t, r) ==
    /\ UNCHANGED <<place, listed, now>>
    /\ agg.pc = "write" /\ agg.pair = <<t, r>>
    /\ agg.at \in Nat /\ Floor(agg.at, r) \in Nat /\ Aligned(Floor(agg.at, r), r)
    /\ cursor' \in [Target \X Res -> Nat]
    /\ \A u \in Target, q \in Res :
          cursor'[<<u, q>>] = IF <<u, q>> = <<t, r>> THEN Floor(agg.at, r) ELSE cursor[<<u, q>>]
    /\ \A u \in Target, q \in Res : cursor[<<u, q>>] <= cursor'[<<u, q>>]
    /\ \A q \in Res : rolled'[q] =
          IF q = r THEN Replace(t, r, {s \in agg.seen : ~s.flagged}) ELSE rolled[q]
    /\ rolled' \in [Res -> SUBSET DOMAIN place]
    /\ \A s \in agg.seen :
          s.target = t /\ cursor[<<t, r>>] <= s.ts /\ s.ts < Floor(agg.at, r)

\* The window that was read lies between the old cursor and the new one.
LEMMA Written ==
    ASSUME StoreInv, NEW t \in Target, NEW r \in Res, WriteRows(t, r)
    PROVE  WriteEffect(t, r)
<1>1. /\ UNCHANGED <<place, listed, now>>
      /\ agg.pc = "write" /\ agg.pair = <<t, r>>
      /\ rolled' = [rolled EXCEPT ![r] = Replace(t, r, {s \in agg.seen : ~s.flagged})]
      /\ cursor' = [cursor EXCEPT ![<<t, r>>] = Floor(agg.at, r)]
  BY DEF WriteRows, AggKeeps, Complete
<1>2. /\ agg.at \in Nat /\ agg.seen \subseteq DOMAIN place
      /\ cursor[<<t, r>>] <= Floor(agg.at, r)
      /\ \A s \in agg.seen :
            s.target = t /\ cursor[<<t, r>>] <= s.ts /\ s.ts < Floor(agg.at, r)
  BY <1>1 DEF StoreInv, PassSound
<1>3. /\ cursor \in [Target \X Res -> Nat]
      /\ rolled \in [Res -> SUBSET DOMAIN place]
  BY DEF StoreInv, RowsBehind
<1>4. Floor(agg.at, r) \in Nat /\ Aligned(Floor(agg.at, r), r)
  BY <1>2, FloorBucket
<1>5. cursor' \in [Target \X Res -> Nat]
  BY <1>1, <1>3, <1>4
<1>6. \A u \in Target, q \in Res :
         cursor'[<<u, q>>] = IF <<u, q>> = <<t, r>> THEN Floor(agg.at, r) ELSE cursor[<<u, q>>]
  BY <1>1, <1>3
<1>7. \A u \in Target, q \in Res : cursor[<<u, q>>] <= cursor'[<<u, q>>]
  <2> SUFFICES ASSUME NEW u \in Target, NEW q \in Res
               PROVE  cursor[<<u, q>>] <= cursor'[<<u, q>>]
    OBVIOUS
  <2>1. cursor[<<u, q>>] \in Nat
    BY <1>3
  <2>2. CASE <<u, q>> = <<t, r>>
    BY <1>2, <1>6, <2>2
  <2>3. CASE <<u, q>> # <<t, r>>
    BY <1>6, <2>1, <2>3
  <2> QED
    BY <2>2, <2>3
<1>8. \A q \in Res : rolled'[q] =
         IF q = r THEN Replace(t, r, {s \in agg.seen : ~s.flagged}) ELSE rolled[q]
  BY <1>1, <1>3
<1>9. Replace(t, r, {s \in agg.seen : ~s.flagged}) \subseteq DOMAIN place
  BY <1>2, <1>3 DEF Replace
<1>10. rolled' \in [Res -> SUBSET DOMAIN place]
  BY <1>1, <1>3, <1>9
<1> QED
  BY <1>1, <1>2, <1>4, <1>5, <1>6, <1>7, <1>8, <1>10 DEF WriteEffect

\* The rows and the cursor written in one transaction keep the invariant.
LEMMA WriteRowsKeeps ==
    ASSUME StoreInv, NEW t \in Target, NEW r \in Res, WriteRows(t, r)
    PROVE  StoreInv'
<1>0. WriteEffect(t, r)
  BY Written
<1>1. /\ UNCHANGED <<place, listed, now>>
      /\ agg.pc = "write" /\ agg.at \in Nat
      /\ Floor(agg.at, r) \in Nat /\ Aligned(Floor(agg.at, r), r)
      /\ cursor' \in [Target \X Res -> Nat]
      /\ \A u \in Target, q \in Res :
            cursor'[<<u, q>>] = IF <<u, q>> = <<t, r>> THEN Floor(agg.at, r) ELSE cursor[<<u, q>>]
      /\ \A u \in Target, q \in Res : cursor[<<u, q>>] <= cursor'[<<u, q>>]
      /\ rolled' \in [Res -> SUBSET DOMAIN place]
      /\ \A s \in agg.seen : s.target = t /\ s.ts < Floor(agg.at, r)
  BY <1>0 DEF WriteEffect
<1>2. /\ DOMAIN place \subseteq Sample /\ listed \subseteq Target
      /\ \A s \in DOMAIN place : s.target \in Target /\ s.ts \in Nat
  BY DEF StoreInv, PlacesDated, Sample
<1>3. \A u \in Target, q \in Res : cursor[<<u, q>>] \in Nat
  BY DEF StoreInv, RowsBehind
<1>4. PlacesDated'
  BY <1>1 DEF StoreInv, PlacesDated, InMemory, At
<1>5. RowsBehind'
  <2>1. \A u \in Target, q \in Res : Aligned(cursor'[<<u, q>>], q)
    <3> SUFFICES ASSUME NEW u \in Target, NEW q \in Res
                 PROVE  Aligned(cursor'[<<u, q>>], q)
      OBVIOUS
    <3>1. Aligned(cursor[<<u, q>>], q)
      BY DEF StoreInv, RowsBehind
    <3>2. CASE <<u, q>> = <<t, r>>
      BY <1>1, <3>2
    <3>3. CASE <<u, q>> # <<t, r>>
      BY <1>1, <3>1, <3>3
    <3> QED
      BY <3>2, <3>3
  <2>2. ASSUME NEW q \in Res, NEW s \in rolled'[q]
        PROVE  s.ts < cursor'[<<s.target, q>>]
    <3>1. s \in DOMAIN place
      BY <1>1
    <3>2. s \in rolled[q] \/ (q = r /\ s \in agg.seen)
      BY <1>0, <2>2 DEF WriteEffect, Replace
    <3>3. CASE s \in rolled[q]
      <4>1. s.ts < cursor[<<s.target, q>>]
        BY <3>3 DEF StoreInv, RowsBehind
      <4> QED
        BY <1>1, <1>2, <1>3, <3>1, <4>1
    <3>4. CASE q = r /\ s \in agg.seen
      BY <1>1, <1>2, <3>1, <3>4
    <3> QED
      BY <3>2, <3>3, <3>4
  <2>3. \A u \in Target, q \in Res : Aligned(cursor[<<u, q>>], q)'
    BY <2>1 DEF Aligned
  <2> QED
    BY <1>1, <2>2, <2>3 DEF RowsBehind
<1>6. UnrolledIsKept'
  <2> SUFFICES ASSUME NEW s \in At("pruned"), s.target \in listed
               PROVE  s.ts < cursor'[<<s.target, "1h">>]
    BY <1>1 DEF UnrolledIsKept, At
  <2>1. s \in DOMAIN place /\ s.ts < cursor[<<s.target, "1h">>]
    BY DEF StoreInv, UnrolledIsKept, At
  <2>2. "1h" \in Res /\ s.target \in Target /\ s.ts \in Nat
    BY <1>2, <2>1 DEF Res
  <2>3. /\ cursor[<<s.target, "1h">>] \in Nat /\ cursor'[<<s.target, "1h">>] \in Nat
        /\ cursor[<<s.target, "1h">>] <= cursor'[<<s.target, "1h">>]
    BY <1>1, <1>3, <2>2
  <2> QED
    BY <2>1, <2>2, <2>3
<1>7. PassSound'
  <2>1. agg' = Finished(agg.todo \ {<<t, r>>})
    BY DEF WriteRows
  <2>2. /\ agg'.todo = agg.todo \ {<<t, r>>} /\ agg'.seen = {} /\ agg'.at = agg.at
        /\ agg'.pc = IF agg.todo \ {<<t, r>>} = {} THEN "prune" ELSE "read"
    BY <2>1 DEF Finished, Then, Pass
  <2>3. \A u \in Target : Covered(u) => Covered(u)'
    <3> SUFFICES ASSUME NEW u \in Target, Covered(u), NEW s \in Raw(u), s.ts < agg.at - KeepRaw
                 PROVE  s.ts < cursor'[<<u, "1h">>]
      BY <1>1, <2>2 DEF Covered, Raw, At
    <3>1. s.ts < cursor[<<u, "1h">>] /\ s.ts \in Nat
      BY <1>2 DEF Covered, Raw, At
    <3>2. "1h" \in Res
      BY DEF Res
    <3>3. /\ cursor[<<u, "1h">>] \in Nat /\ cursor'[<<u, "1h">>] \in Nat
          /\ cursor[<<u, "1h">>] <= cursor'[<<u, "1h">>]
      BY <1>1, <1>3, <3>2
    <3> QED
      BY <3>1, <3>3
  <2>4. r = "1h" => Covered(t)'
    <3> SUFFICES ASSUME r = "1h", NEW s \in Raw(t), s.ts < agg.at - KeepRaw
                 PROVE  s.ts < cursor'[<<t, "1h">>]
      BY <1>1, <2>2 DEF Covered, Raw, At
    <3>1. cursor'[<<t, "1h">>] = Floor(agg.at, "1h")
      BY <1>1
    <3>2. s.ts \in Nat /\ agg.at - KeepRaw \in Int /\ agg.at - KeepRaw < Floor(agg.at, "1h")
      BY <1>1, <1>2, KeptHour, Widths DEF Raw, At
    <3>3. Floor(agg.at, "1h") \in Nat
      BY <1>1
    <3> QED
      BY <3>1, <3>2, <3>3
  <2>5. \A u \in listed : <<u, "1h">> \notin agg'.todo => Covered(u)'
    <3> SUFFICES ASSUME NEW u \in listed, <<u, "1h">> \notin agg.todo \ {<<t, r>>}
                 PROVE  Covered(u)'
      BY <2>2
    <3>1. CASE <<u, "1h">> \notin agg.todo
      BY <1>1, <1>2, <2>3, <3>1 DEF StoreInv, PassSound
    <3>2. CASE <<u, "1h">> = <<t, r>>
      BY <2>4, <3>2
    <3> QED
      BY <3>1, <3>2
  <2> QED
    BY <1>1, <2>2, <2>5 DEF StoreInv, PassSound
<1> QED
  BY <1>4, <1>5, <1>6, <1>7 DEF StoreInv

\* Pruning raw samples takes of the targets that exist only what is covered.
LEMMA PruneRawKeeps == StoreInv /\ PruneRaw => StoreInv'
<1> SUFFICES ASSUME StoreInv, PruneRaw PROVE StoreInv'
  OBVIOUS
<1> DEFINE old == {s \in At("raw") : s.ts < agg.at - KeepRaw}
<1>1. /\ UNCHANGED <<listed, cursor, rolled, now>>
      /\ place' = [s \in DOMAIN place |-> IF s \in old THEN "pruned" ELSE place[s]]
      /\ agg.pc = "prune"
  BY DEF PruneRaw, AggKeeps, Move
<1>2. agg'.pc = "prune1m" /\ agg'.at = agg.at /\ agg'.seen = {}
  BY DEF PruneRaw, Then, Pass
<1>3. DOMAIN place' = DOMAIN place
  BY <1>1
<1>4. \A s \in InMemory' : s \in InMemory
  BY <1>1 DEF InMemory, At
<1>5. PlacesDated'
  BY <1>1, <1>3, <1>4 DEF StoreInv, PlacesDated
<1>6. RowsBehind'
  BY <1>1, <1>3 DEF StoreInv, RowsBehind
<1>7. UnrolledIsKept'
  <2> SUFFICES ASSUME NEW s \in DOMAIN place, place'[s] = "pruned", s.target \in listed
               PROVE  s.ts < cursor[<<s.target, "1h">>]
    BY <1>1, <1>3 DEF UnrolledIsKept, At
  <2>1. CASE s \in old
    <3>1. Covered(s.target)
      BY <1>1 DEF StoreInv, PassSound
    <3> QED
      BY <2>1, <3>1 DEF Covered, Raw
  <2>2. CASE s \notin old
    BY <1>1, <2>2 DEF StoreInv, UnrolledIsKept, At
  <2> QED
    BY <2>1, <2>2
<1>8. PassSound'
  BY <1>1, <1>2 DEF StoreInv, PassSound
<1> QED
  BY <1>5, <1>6, <1>7, <1>8 DEF StoreInv

\* Pruning 1m rows takes rows only.
LEMMA Prune1mKeeps == StoreInv /\ Prune1m => StoreInv'
<1> SUFFICES ASSUME StoreInv, Prune1m PROVE StoreInv'
  OBVIOUS
<1>1. /\ UNCHANGED <<place, listed, cursor, now>>
      /\ rolled' = [rolled EXCEPT !["1m"] = {s \in @ : Floor(s.ts, "1m") >= agg.at - Keep1m}]
      /\ agg'.pc = "wait" /\ agg'.at = 0 /\ agg'.seen = {}
  BY DEF Prune1m, AggKeeps, NoPass, Pass
<1>2. rolled \in [Res -> SUBSET DOMAIN place] /\ now \in Nat
  BY DEF StoreInv, RowsBehind, PlacesDated
<1>3. rolled' \in [Res -> SUBSET DOMAIN place] /\ \A r \in Res : rolled'[r] \subseteq rolled[r]
  BY <1>1, <1>2 DEF Res
<1>4. RowsBehind'
  BY <1>1, <1>3 DEF StoreInv, RowsBehind, Aligned
<1>5. PlacesDated' /\ UnrolledIsKept'
  BY <1>1 DEF StoreInv, PlacesDated, UnrolledIsKept, InMemory, At
<1>6. PassSound'
  BY <1>1, <1>2 DEF PassSound
<1> QED
  BY <1>4, <1>5, <1>6 DEF StoreInv

\* Every step keeps the invariant.
LEMMA StoreStep == StoreInv /\ [Next]_svars => StoreInv'
<1> SUFFICES ASSUME StoreInv, [Next]_svars PROVE StoreInv'
  OBVIOUS
<1>1. CASE Tick
  BY <1>1, TickKeeps
<1>2. CASE StartPass
  BY <1>2, StartPassKeeps
<1>3. CASE \E t \in Target, r \in Res : ReadWindow(t, r) \/ WriteRows(t, r)
  BY <1>3, ReadWindowKeeps, WriteRowsKeeps
<1>4. CASE PruneRaw \/ Prune1m
  BY <1>4, PruneRawKeeps, Prune1mKeeps
<1>5. CASE \/ \E t \in Target, flagged \in BOOLEAN : TakeSample(t, flagged)
           \/ \E s \in DOMAIN place : Submit(s) \/ Receive(s)
           \/ \E ok \in BOOLEAN : FlushTick(ok) \/ FinalFlush(ok)
           \/ RollupFails \/ PruneFails
           \/ \E t \in Target : DeleteTarget(t)
           \/ Crash \/ Shutdown \/ Exit
           \/ UNCHANGED svars
  BY <1>5, MovingSteps, MovesKeep
<1> QED
  BY <1>1, <1>2, <1>3, <1>4, <1>5 DEF Next, AggStep

\* No step takes back a sample the hourly rollup has counted: a row is written
\* again only from samples ahead of the cursor, in a later bucket.
HoursKept == rolled["1h"] \subseteq rolled'["1h"]
LEMMA HoursStep == StoreInv /\ [Next]_svars => [HoursKept]_svars
<1> SUFFICES ASSUME StoreInv, [Next]_svars PROVE HoursKept
  OBVIOUS
<1>1. CASE UNCHANGED rolled
  BY <1>1 DEF HoursKept
<1>2. CASE Prune1m
  <2>1. rolled \in [Res -> SUBSET DOMAIN place]
    BY DEF StoreInv, RowsBehind
  <2> QED
    BY <1>2, <2>1 DEF Prune1m, HoursKept, Res
<1>3. ASSUME NEW t \in Target, NEW r \in Res, WriteRows(t, r)
      PROVE  HoursKept
  <2> DEFINE counted == {s \in agg.seen : ~s.flagged}
  <2>0. WriteEffect(t, r)
    BY <1>3, Written
  <2>1. /\ rolled'["1h"] = IF r = "1h" THEN Replace(t, r, counted) ELSE rolled["1h"]
        /\ \A u \in agg.seen : cursor[<<t, r>>] <= u.ts
    BY <2>0 DEF WriteEffect, Res
  <2>2. CASE r # "1h"
    BY <2>1, <2>2 DEF HoursKept
  <2>3. CASE r = "1h"
    <3> SUFFICES ASSUME NEW s \in rolled[r], s.target = t, NEW u \in agg.seen
                 PROVE  Floor(u.ts, r) # Floor(s.ts, r)
      BY <2>1, <2>3 DEF HoursKept, Replace
    <3>1. s \in DOMAIN place /\ s.ts < cursor[<<t, r>>]
      BY DEF StoreInv, RowsBehind
    <3>2. s.ts \in Nat /\ u.ts \in Nat
      BY <3>1 DEF StoreInv, PlacesDated, PassSound, Sample
    <3>3. cursor[<<t, r>>] \in Nat /\ Aligned(cursor[<<t, r>>], r)
      BY DEF StoreInv, RowsBehind
    <3> QED
      BY <2>1, <3>1, <3>2, <3>3, BucketsApart
  <2> QED
    BY <2>2, <2>3
<1>4. CASE UNCHANGED svars
  BY <1>1, <1>4 DEF svars
<1>5. CASE \/ \E t \in Target, flagged \in BOOLEAN : TakeSample(t, flagged)
           \/ \E s \in DOMAIN place : Submit(s)
  BY <1>1, <1>5 DEF TakeSample, Submit, ProducerKeeps
<1>6. CASE \/ \E s \in DOMAIN place : Receive(s)
           \/ \E ok \in BOOLEAN : FlushTick(ok) \/ FinalFlush(ok)
  BY <1>1, <1>6 DEF Receive, FlushTick, FinalFlush, WriterKeeps
<1>7. CASE StartPass \/ RollupFails \/ PruneRaw \/ PruneFails
           \/ \E t \in Target, r \in Res : ReadWindow(t, r)
  BY <1>1, <1>7 DEF StartPass, RollupFails, PruneRaw, PruneFails, ReadWindow
<1>8. CASE Crash \/ Shutdown \/ Exit \/ Tick \/ \E t \in Target : DeleteTarget(t)
  BY <1>1, <1>8 DEF Crash, Shutdown, Exit, Tick, DeleteTarget
<1> QED
  BY <1>2, <1>3, <1>4, <1>5, <1>6, <1>7, <1>8 DEF Next, AggStep

\* While its target exists, no sample is pruned before its hour is rolled, for
\* any retention of two hours or more, whatever fails, crashes or stops.
THEOREM UnrolledStays == Spec => []UnrolledIsKept
<1>1. StoreInv => UnrolledIsKept
  BY DEF StoreInv
<1> QED
  BY <1>1, StoreInit, StoreStep, PTL DEF Spec

\* No later pass, retry or restart takes a counted sample out of the hourly
\* rollup, although its raw samples are pruned in the middle of hours.
THEOREM HoursAreForever == Spec => HourlyNeverShrinks
<1> QED
  BY StoreInit, StoreStep, HoursStep, PTL DEF Spec, HourlyNeverShrinks, HoursKept
=============================================================================
