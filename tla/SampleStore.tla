---------------------------- MODULE SampleStore ----------------------------
(***************************************************************************)
(* The life of a ping sample: a ping loop submits it (Writer.Submit), the  *)
(* writer batches and flushes it (internal/store/writer.go), the           *)
(* aggregator counts it in the 1m and 1h rollups and prunes it             *)
(* (internal/store/aggregator.go), across failed transactions, crashes,    *)
(* deleted targets and a graceful shutdown.  A rollup row is represented   *)
(* by the set of samples it was computed from.                             *)
(***************************************************************************)
EXTENDS Integers, FiniteSets

CONSTANTS Target,
          QueueCap,      \* capacity of Writer.in
          Minute, Hour,  \* bucket widths in ticks of the clock
          KeepRaw,       \* raw retention (rawHours)
          Keep1m,        \* retention of the 1m rollups (rollup1mDays)
          MaxTime,       \* bound: the clock stops here
          MaxSamples,    \* bound: samples taken
          MaxFaults,     \* bound: failed database operations
          MaxCrashes,    \* bound: crashes
          MaxStops       \* bound: graceful shutdowns

\* settings.validate keeps at least two hours of raw samples and a day of 1m
\* rollups.
ASSUME RetentionAssumption ==
    /\ {Minute, Hour, KeepRaw, Keep1m, QueueCap} \subseteq Nat \ {0}
    /\ KeepRaw >= 2 * Hour
    /\ Keep1m >= 2 * Hour

VARIABLES place,     \* where each sample taken so far is
          listed,    \* ids in the targets table
          writer,    \* Writer.Run: running, or stopped after its final flush
          cancelled, \* the root context is done
          agg,       \* the aggregation pass in progress
          cursor,    \* rollup_<res>_cursor.<target>; 0 where there is none
          rolled,    \* per resolution, the samples its rows were computed from
          now, faults, crashes, stops

svars == <<place, listed, writer, cancelled, agg, cursor, rolled, now, faults, crashes, stops>>

Res == {"1m", "1h"}
Width(r) == IF r = "1m" THEN Minute ELSE Hour
Floor(ts, r) == ts - (ts % Width(r))

Sample == [target : Target, ts : Nat, flagged : BOOLEAN]
Place  == {"loop", "queue", "dropped", "batch", "raw", "pruned", "lost"}
At(p)  == {s \in DOMAIN place : place[s] = p}
Move(S, p) == place' = [s \in DOMAIN place |-> IF s \in S THEN p ELSE place[s]]

NoPair == <<>>
Pass(pc, todo, at, pair, seen) ==
    [pc |-> pc, todo |-> todo, at |-> at, pair |-> pair, seen |-> seen]
NoPass == Pass("wait", {}, 0, NoPair, {})

TypeOK ==
    /\ DOMAIN place \subseteq Sample /\ \A s \in DOMAIN place : place[s] \in Place
    /\ Cardinality(At("queue")) <= QueueCap
    /\ listed \subseteq Target
    /\ writer \in {"running", "stopped"} /\ cancelled \in BOOLEAN
    /\ agg \in [pc : {"wait", "read", "write", "prune", "prune1m"},
                todo : SUBSET (Target \X Res), at : Nat,
                pair : (Target \X Res) \union {NoPair}, seen : SUBSET DOMAIN place]
    /\ cursor \in [Target \X Res -> Nat]
    /\ rolled \in [Res -> SUBSET DOMAIN place]
    /\ {now, faults, crashes, stops} \subseteq Nat

\* The clock starts past the first hour: a cursor of 0 means "no cursor".
Init ==
    /\ place = <<>> /\ listed = Target
    /\ writer = "running" /\ cancelled = FALSE /\ agg = NoPass
    /\ cursor = [p \in Target \X Res |-> 0]
    /\ rolled = [r \in Res |-> {}]
    /\ now = Hour /\ faults = 0 /\ crashes = 0 /\ stops = 0

Fault(ok) == (ok \/ faults < MaxFaults) /\ faults' = IF ok THEN faults ELSE faults + 1

-----------------------------------------------------------------------------
(* Ping loops. *)
ProducerKeeps == UNCHANGED <<listed, writer, cancelled, agg, cursor, rolled, now, faults,
                             crashes, stops>>

\* A loop has a sample in hand and has passed its check of the context.
TakeSample(t, flagged) ==
    /\ t \in listed /\ ~cancelled
    /\ Cardinality(DOMAIN place) < MaxSamples
    /\ \A s \in DOMAIN place : s.target = t => s.ts < now
    /\ LET new == [target |-> t, ts |-> now, flagged |-> flagged]
       IN place' = [s \in DOMAIN place \union {new} |-> IF s = new THEN "loop" ELSE place[s]]
    /\ ProducerKeeps

\* Submit never blocks: a full buffer drops the sample.
Submit(s) ==
    /\ place[s] = "loop"
    /\ Move({s}, IF Cardinality(At("queue")) < QueueCap THEN "queue" ELSE "dropped")
    /\ ProducerKeeps

-----------------------------------------------------------------------------
(* The writer. *)
WriterKeeps == UNCHANGED <<listed, cancelled, agg, cursor, rolled, now, crashes, stops>>

Receive(s) ==
    /\ writer = "running" /\ place[s] = "queue"
    /\ Move({s}, "batch")
    /\ WriterKeeps /\ UNCHANGED <<writer, faults>>

\* One transaction per batch; a batch that fails is logged and gone.
Flush(ok) == Fault(ok) /\ Move(At("batch"), IF ok THEN "raw" ELSE "lost")

\* Mutated form: the ticker only flushes a batch worth a transaction.
FlushTickWhenFull(ok) ==
    /\ writer = "running" /\ Cardinality(At("batch")) > 1
    /\ Flush(ok)
    /\ WriterKeeps /\ UNCHANGED writer

FlushTick(ok) ==
    /\ writer = "running" /\ At("batch") # {}
    /\ Flush(ok)
    /\ WriterKeeps /\ UNCHANGED writer

\* After Done the queue is drained until it is found empty; then the final
\* flush ends the writer.
FinalFlush(ok) ==
    /\ writer = "running" /\ cancelled /\ At("queue") = {}
    /\ IF At("batch") = {} THEN ok /\ UNCHANGED <<place, faults>> ELSE Flush(ok)
    /\ writer' = "stopped"
    /\ WriterKeeps

-----------------------------------------------------------------------------
(* The aggregator: one pass at a time, every database access a step of its *)
(* own; a cancelled context fails them all.                                *)
AggKeeps == UNCHANGED <<listed, writer, cancelled, now, crashes, stops>>
PassFails == ~cancelled /\ Fault(FALSE) /\ agg' = NoPass
Then(pc, todo) == Pass(pc, todo, agg.at, NoPair, {})
Finished(todo) == Then(IF todo = {} THEN "prune" ELSE "read", todo)

\* RunOnce: the targets, and the time all of the pass goes by.
StartPass ==
    /\ agg.pc = "wait" /\ ~cancelled
    /\ agg' = Pass(IF listed = {} THEN "prune" ELSE "read", listed \X Res, now, NoPair, {})
    /\ AggKeeps /\ UNCHANGED <<place, cursor, rolled, faults>>

\* The first bucket not yet rolled: the cursor, or the oldest sample's bucket.
Raw(t) == {s \in At("raw") : s.target = t}
From(t, r) ==
    IF cursor[<<t, r>>] # 0 THEN cursor[<<t, r>>]
    ELSE Floor((CHOOSE s \in Raw(t) : \A u \in Raw(t) : s.ts <= u.ts).ts, r)
Complete(r) == Floor(agg.at, r)

\* rollupTarget up to the query: 1m before 1h for each target; nothing is
\* done without samples or without a complete bucket.
ReadWindow(t, r) ==
    /\ agg.pc = "read" /\ <<t, r>> \in agg.todo /\ ~cancelled
    /\ r = "1h" => <<t, "1m">> \notin agg.todo
    /\ agg' = IF (cursor[<<t, r>>] = 0 /\ Raw(t) = {}) \/ From(t, r) >= Complete(r)
              THEN Finished(agg.todo \ {<<t, r>>})
              ELSE Pass("write", agg.todo, agg.at, <<t, r>>,
                        {s \in Raw(t) : From(t, r) <= s.ts /\ s.ts < Complete(r)})
    /\ AggKeeps /\ UNCHANGED <<place, cursor, rolled, faults>>

\* The row of a bucket replaces an older one.
Replace(t, r, S) ==
    {s \in rolled[r] : s.target = t => \A u \in S : Floor(u.ts, r) # Floor(s.ts, r)} \union S

\* Mutated form: the rows are written, the cursor is not.
WriteRowsOnly(t, r) ==
    /\ agg.pc = "write" /\ agg.pair = <<t, r>> /\ ~cancelled
    /\ rolled' = [rolled EXCEPT ![r] = Replace(t, r, {s \in agg.seen : ~s.flagged})]
    /\ agg' = Finished(agg.todo \ {<<t, r>>})
    /\ AggKeeps /\ UNCHANGED <<place, cursor, faults>>

\* The rest of rollupTarget: the rows of the unflagged samples read, and the
\* cursor, in one transaction.
WriteRows(t, r) ==
    /\ agg.pc = "write" /\ agg.pair = <<t, r>> /\ ~cancelled
    /\ rolled' = [rolled EXCEPT ![r] = Replace(t, r, {s \in agg.seen : ~s.flagged})]
    /\ cursor' = [cursor EXCEPT ![<<t, r>>] = Complete(r)]
    /\ agg' = Finished(agg.todo \ {<<t, r>>})
    /\ AggKeeps /\ UNCHANGED <<place, faults>>

\* Mutated form: a pass whose rollup failed goes on to prune.
RollupFailsPruning ==
    /\ agg.pc \in {"read", "write"} /\ ~cancelled /\ Fault(FALSE)
    /\ agg' = Then("prune", {})
    /\ AggKeeps /\ UNCHANGED <<place, cursor, rolled>>

\* A failed rollup ends the pass before the pruning.
RollupFails ==
    /\ agg.pc \in {"read", "write"} /\ PassFails
    /\ AggKeeps /\ UNCHANGED <<place, cursor, rolled>>

PruneRaw ==
    /\ agg.pc = "prune" /\ ~cancelled
    /\ Move({s \in At("raw") : s.ts < agg.at - KeepRaw}, "pruned")
    /\ agg' = Then("prune1m", {})
    /\ AggKeeps /\ UNCHANGED <<cursor, rolled, faults>>

Prune1m ==
    /\ agg.pc = "prune1m" /\ ~cancelled
    /\ rolled' = [rolled EXCEPT !["1m"] = {s \in @ : Floor(s.ts, "1m") >= agg.at - Keep1m}]
    /\ agg' = NoPass
    /\ AggKeeps /\ UNCHANGED <<place, cursor, faults>>

PruneFails ==
    /\ agg.pc \in {"prune", "prune1m"} /\ PassFails
    /\ AggKeeps /\ UNCHANGED <<place, cursor, rolled>>

AggStep ==
    \/ \E t \in Target, r \in Res : ReadWindow(t, r) \/ WriteRows(t, r)
    \/ RollupFails \/ PruneRaw \/ Prune1m \/ PruneFails

-----------------------------------------------------------------------------
(* The rest of the process. *)

\* DeleteTarget keeps the samples and the rollups.
DeleteTarget(t) ==
    /\ t \in listed
    /\ listed' = listed \ {t}
    /\ UNCHANGED <<place, writer, cancelled, agg, cursor, rolled, now, faults, crashes, stops>>

InMemory == At("loop") \union At("queue") \union At("batch")

\* A crash takes what was not yet flushed; the program is started again.
Crash ==
    /\ crashes < MaxCrashes
    /\ crashes' = crashes + 1
    /\ Move(InMemory, "lost")
    /\ writer' = "running" /\ cancelled' = FALSE /\ agg' = NoPass
    /\ UNCHANGED <<listed, cursor, rolled, now, faults, stops>>

Shutdown ==
    /\ ~cancelled /\ stops < MaxStops
    /\ cancelled' = TRUE /\ stops' = stops + 1 /\ agg' = NoPass
    /\ UNCHANGED <<place, listed, writer, cursor, rolled, now, faults, crashes>>

\* sup.Wait is over: every loop has returned, main returns; started again.
Exited == cancelled /\ writer = "stopped" /\ At("loop") = {}
Exit ==
    /\ Exited
    /\ Move(InMemory, "lost")
    /\ writer' = "running" /\ cancelled' = FALSE
    /\ UNCHANGED <<listed, agg, cursor, rolled, now, faults, crashes, stops>>

\* A sample reaches the table, or is lost, within a tick of its ts: a ping
\* times out and the writer flushes within seconds, a tick is a minute.
Tick ==
    /\ now < MaxTime
    /\ \A s \in InMemory : s.ts = now
    /\ now' = now + 1
    /\ UNCHANGED <<place, listed, writer, cancelled, agg, cursor, rolled, faults, crashes, stops>>

Next ==
    \/ \E t \in Target, flagged \in BOOLEAN : TakeSample(t, flagged)
    \/ \E s \in DOMAIN place : Submit(s) \/ Receive(s)
    \/ \E ok \in BOOLEAN : FlushTick(ok) \/ FinalFlush(ok)
    \/ StartPass \/ AggStep
    \/ \E t \in Target : DeleteTarget(t)
    \/ Crash \/ Shutdown \/ Exit \/ Tick

Spec == Init /\ [][Next]_svars

\* The writer's ticker fires again and again, its select takes a channel that
\* stays ready, the aggregator's timer fires again after every pass, and a
\* shutdown comes to its end.
Fairness ==
    /\ WF_svars(\E s \in DOMAIN place : Submit(s))
    /\ WF_svars(\E s \in DOMAIN place : Receive(s))
    /\ WF_svars(FlushTick(TRUE))
    /\ WF_svars(\E ok \in BOOLEAN : FinalFlush(ok)) /\ WF_svars(Exit)
    /\ WF_svars(StartPass) /\ WF_svars(AggStep)

LiveSpec == Spec /\ Fairness

-----------------------------------------------------------------------------
(***************************************************************************)
(* Properties.                                                             *)
(***************************************************************************)

\* While its target exists, a sample whose hour has not been rolled is not
\* pruned: a rollup that fails, is interrupted or lags keeps the raw data.
UnrolledIsKept ==
    \A s \in At("pruned") : s.target \in listed => s.ts < cursor[<<s.target, "1h">>]

\* The 1h rollup is for ever: no later pass, retry or restart takes back a
\* sample it has counted, although raw samples are pruned in mid-bucket.
HourlyNeverShrinks == [][rolled["1h"] \subseteq rolled'["1h"]]_svars

\* A sample handed to the writer does not linger: again and again all of them
\* have been stored, or lost to a failed flush, a crash or the end of a process.
SubmittedIsSettled == []<>(At("queue") = {} /\ At("batch") = {})

\* The aggregator keeps up: again and again every stored sample whose hour is
\* complete has been rolled, except those of deleted targets.
StoredIsRolled ==
    []<>(\A s \in At("raw") :
            s.target \in listed /\ Floor(s.ts, "1h") + Hour <= now => s.ts < cursor[<<s.target, "1h">>])
=============================================================================
