-------------------------- MODULE SpeedRunnerProofs --------------------------
(***************************************************************************)
(* Proofs about the speed-test runner, for any number of requests, outcomes*)
(* and panics: accepted triggers are accounted for, outcomes get their row *)
(* and only pings under a test are flagged.                                *)
(***************************************************************************)
EXTENDS SpeedRunner, TLAPS

Counted ==
    trigger \in 0..1 /\ owed \in Int /\ unsaved \in Int /\ panics \in Nat

Typed ==
    /\ pc \in {"select", "decide", "begin", "raise", "engine", "store", "finish", "rearm",
               "panicked", "stopped"}
    /\ scheduled \in BOOLEAN /\ running \in BOOLEAN /\ flag \in BOOLEAN /\ cancelled \in BOOLEAN
    /\ ping \in [pc : {"idle", "flying", "done"}, overlapped : BOOLEAN, flagged : BOOLEAN]

\* The one loop is the only one to set running, so runOnce never finds it set.
RunningInRun == running <=> (pc \in {"raise", "engine", "store", "finish"})

\* Until a panic leaves it up, the flag is up exactly while an engine runs.
FlagInEngine ==
    panics = 0 =>
        /\ flag <=> (pc = "engine")
        /\ ping.pc = "flying" /\ flag => ping.overlapped
        /\ ping.flagged => ping.overlapped

\* Until a shutdown the rows missing are those of panicked runs and of the run
\* under way.
RowsMissing ==
    ~cancelled => unsaved = panics + (IF pc \in {"raise", "engine", "store"} THEN 1 ELSE 0)

RunnerInv == Counted /\ Typed /\ RunningInRun /\ FlagInEngine /\ RowsMissing /\ AcceptedAccounted

LEMMA InitRunner == Init => RunnerInv
<1> SUFFICES ASSUME Init PROVE RunnerInv
  OBVIOUS
<1>1. Counted
  BY DEF Init, Counted
<1>2. Typed /\ RunningInRun /\ FlagInEngine
  BY DEF Init, NoPing, Typed, RunningInRun, FlagInEngine
<1>3. RowsMissing /\ AcceptedAccounted
  BY DEF Init, RowsMissing, AcceptedAccounted
<1> QED
  BY <1>1, <1>2, <1>3 DEF RunnerInv

\* The requests and the rest of the process.
LEMMA RequestKeepsInv ==
    ASSUME RunnerInv,
           \/ \E c \in Client : CheckRunning(c) \/ SendTrigger(c)
           \/ Toggle \/ Shutdown \/ PingStarts \/ PingReturns \/ UNCHANGED rvars
    PROVE  RunnerInv'
<1> USE DEF RequestKeeps, OutsideKeeps
<1>1. ASSUME NEW c \in Client, CheckRunning(c)
      PROVE  RunnerInv'
  <2>1. Counted'
    BY <1>1 DEF CheckRunning, RunnerInv, Counted
  <2>2. Typed'
    BY <1>1 DEF CheckRunning, RunnerInv, Typed
  <2>3. RunningInRun' /\ FlagInEngine'
    BY <1>1 DEF CheckRunning, RunnerInv, Typed, RunningInRun, FlagInEngine
  <2>4. RowsMissing'
    BY <1>1 DEF CheckRunning, RunnerInv, Counted, RunningInRun, RowsMissing
  <2>5. AcceptedAccounted'
    BY <1>1 DEF CheckRunning, RunnerInv, Counted, RunningInRun, AcceptedAccounted
  <2> QED
    BY <2>1, <2>2, <2>3, <2>4, <2>5 DEF RunnerInv
<1>2. ASSUME NEW c \in Client, SendTrigger(c)
      PROVE  RunnerInv'
  <2>1. Counted'
    BY <1>2 DEF SendTrigger, RunnerInv, Counted
  <2>2. Typed'
    BY <1>2 DEF SendTrigger, RunnerInv, Typed
  <2>3. RunningInRun' /\ FlagInEngine'
    BY <1>2 DEF SendTrigger, RunnerInv, Typed, RunningInRun, FlagInEngine
  <2>4. RowsMissing'
    BY <1>2 DEF SendTrigger, RunnerInv, Counted, RunningInRun, RowsMissing
  <2>5. AcceptedAccounted'
    BY <1>2 DEF SendTrigger, RunnerInv, Counted, RunningInRun, AcceptedAccounted
  <2> QED
    BY <2>1, <2>2, <2>3, <2>4, <2>5 DEF RunnerInv
<1>3. CASE Toggle
  <2>1. Counted'
    BY <1>3 DEF Toggle, RunnerInv, Counted
  <2>2. Typed'
    BY <1>3 DEF Toggle, RunnerInv, Typed
  <2>3. RunningInRun' /\ FlagInEngine'
    BY <1>3 DEF Toggle, RunnerInv, Typed, RunningInRun, FlagInEngine
  <2>4. RowsMissing'
    BY <1>3 DEF Toggle, RunnerInv, Counted, RunningInRun, RowsMissing
  <2>5. AcceptedAccounted'
    BY <1>3 DEF Toggle, RunnerInv, Counted, RunningInRun, AcceptedAccounted
  <2> QED
    BY <2>1, <2>2, <2>3, <2>4, <2>5 DEF RunnerInv
<1>4. CASE Shutdown
  <2>1. Counted'
    BY <1>4 DEF Shutdown, RunnerInv, Counted
  <2>2. Typed'
    BY <1>4 DEF Shutdown, RunnerInv, Typed
  <2>3. RunningInRun' /\ FlagInEngine'
    BY <1>4 DEF Shutdown, RunnerInv, Typed, RunningInRun, FlagInEngine
  <2>4. RowsMissing'
    BY <1>4 DEF Shutdown, RunnerInv, Counted, RunningInRun, RowsMissing
  <2>5. AcceptedAccounted'
    BY <1>4 DEF Shutdown, RunnerInv, Counted, RunningInRun, AcceptedAccounted
  <2> QED
    BY <2>1, <2>2, <2>3, <2>4, <2>5 DEF RunnerInv
<1>5. CASE PingStarts
  <2>1. Counted'
    BY <1>5 DEF PingStarts, RunnerInv, Counted
  <2>2. Typed'
    BY <1>5 DEF PingStarts, RunnerInv, Typed
  <2>3. RunningInRun' /\ FlagInEngine'
    BY <1>5 DEF PingStarts, RunnerInv, Typed, RunningInRun, FlagInEngine
  <2>4. RowsMissing'
    BY <1>5 DEF PingStarts, RunnerInv, Counted, RunningInRun, RowsMissing
  <2>5. AcceptedAccounted'
    BY <1>5 DEF PingStarts, RunnerInv, Counted, RunningInRun, AcceptedAccounted
  <2> QED
    BY <2>1, <2>2, <2>3, <2>4, <2>5 DEF RunnerInv
<1>6. CASE PingReturns
  <2>1. Counted'
    BY <1>6 DEF PingReturns, RunnerInv, Counted
  <2>2. Typed'
    BY <1>6 DEF PingReturns, RunnerInv, Typed
  <2>3. RunningInRun' /\ FlagInEngine'
    BY <1>6 DEF PingReturns, RunnerInv, Typed, RunningInRun, FlagInEngine
  <2>4. RowsMissing'
    BY <1>6 DEF PingReturns, RunnerInv, Counted, RunningInRun, RowsMissing
  <2>5. AcceptedAccounted'
    BY <1>6 DEF PingReturns, RunnerInv, Counted, RunningInRun, AcceptedAccounted
  <2> QED
    BY <2>1, <2>2, <2>3, <2>4, <2>5 DEF RunnerInv
<1>7. CASE UNCHANGED rvars
  <2>1. Counted'
    BY <1>7 DEF rvars, RunnerInv, Counted
  <2>2. Typed'
    BY <1>7 DEF rvars, RunnerInv, Typed
  <2>3. RunningInRun' /\ FlagInEngine'
    BY <1>7 DEF rvars, RunnerInv, Typed, RunningInRun, FlagInEngine
  <2>4. RowsMissing'
    BY <1>7 DEF rvars, RunnerInv, Counted, RunningInRun, RowsMissing
  <2>5. AcceptedAccounted'
    BY <1>7 DEF rvars, RunnerInv, Counted, RunningInRun, AcceptedAccounted
  <2> QED
    BY <2>1, <2>2, <2>3, <2>4, <2>5 DEF RunnerInv
<1> QED
  BY <1>1, <1>2, <1>3, <1>4, <1>5, <1>6, <1>7

\* The loop.
LEMMA LoopKeepsInv ==
    ASSUME RunnerInv, LoopStep
    PROVE  RunnerInv'
<1> USE DEF LoopKeeps
<1>1. CASE TimerFires
  <2>1. Counted'
    BY <1>1 DEF TimerFires, RunnerInv, Counted
  <2>2. Typed'
    BY <1>1 DEF TimerFires, RunnerInv, Typed
  <2>3. RunningInRun' /\ FlagInEngine'
    BY <1>1 DEF TimerFires, RunnerInv, Typed, RunningInRun, FlagInEngine
  <2>4. RowsMissing'
    BY <1>1 DEF TimerFires, RunnerInv, Counted, RunningInRun, RowsMissing
  <2>5. AcceptedAccounted'
    BY <1>1 DEF TimerFires, RunnerInv, Counted, RunningInRun, AcceptedAccounted
  <2> QED
    BY <2>1, <2>2, <2>3, <2>4, <2>5 DEF RunnerInv
<1>2. CASE TakeTrigger
  <2>1. Counted'
    BY <1>2 DEF TakeTrigger, RunnerInv, Counted
  <2>2. Typed'
    BY <1>2 DEF TakeTrigger, RunnerInv, Typed
  <2>3. RunningInRun' /\ FlagInEngine'
    BY <1>2 DEF TakeTrigger, RunnerInv, Typed, RunningInRun, FlagInEngine
  <2>4. RowsMissing'
    BY <1>2 DEF TakeTrigger, RunnerInv, Counted, RunningInRun, RowsMissing
  <2>5. AcceptedAccounted'
    BY <1>2 DEF TakeTrigger, RunnerInv, Counted, RunningInRun, AcceptedAccounted
  <2> QED
    BY <2>1, <2>2, <2>3, <2>4, <2>5 DEF RunnerInv
<1>3. CASE SeesDone
  <2>1. Counted'
    BY <1>3 DEF SeesDone, RunnerInv, Counted
  <2>2. Typed'
    BY <1>3 DEF SeesDone, RunnerInv, Typed
  <2>3. RunningInRun' /\ FlagInEngine'
    BY <1>3 DEF SeesDone, RunnerInv, Typed, RunningInRun, FlagInEngine
  <2>4. RowsMissing'
    BY <1>3 DEF SeesDone, RunnerInv, Counted, RunningInRun, RowsMissing
  <2>5. AcceptedAccounted'
    BY <1>3 DEF SeesDone, RunnerInv, Counted, RunningInRun, AcceptedAccounted
  <2> QED
    BY <2>1, <2>2, <2>3, <2>4, <2>5 DEF RunnerInv
<1>4. CASE Disabled
  <2>1. Counted'
    BY <1>4 DEF Disabled, RunnerInv, Counted
  <2>2. Typed'
    BY <1>4 DEF Disabled, RunnerInv, Typed
  <2>3. RunningInRun' /\ FlagInEngine'
    BY <1>4 DEF Disabled, RunnerInv, Typed, RunningInRun, FlagInEngine
  <2>4. RowsMissing'
    BY <1>4 DEF Disabled, RunnerInv, Counted, RunningInRun, RowsMissing
  <2>5. AcceptedAccounted'
    BY <1>4 DEF Disabled, RunnerInv, Counted, RunningInRun, AcceptedAccounted
  <2> QED
    BY <2>1, <2>2, <2>3, <2>4, <2>5 DEF RunnerInv
<1>5. CASE SkipOutage
  <2>1. Counted'
    BY <1>5 DEF SkipOutage, RunnerInv, Counted
  <2>2. Typed'
    BY <1>5 DEF SkipOutage, RunnerInv, Typed
  <2>3. RunningInRun' /\ FlagInEngine'
    BY <1>5 DEF SkipOutage, RunnerInv, Typed, RunningInRun, FlagInEngine
  <2>4. RowsMissing'
    BY <1>5 DEF SkipOutage, RunnerInv, Counted, RunningInRun, RowsMissing
  <2>5. AcceptedAccounted'
    BY <1>5 DEF SkipOutage, RunnerInv, Counted, RunningInRun, AcceptedAccounted
  <2> QED
    BY <2>1, <2>2, <2>3, <2>4, <2>5 DEF RunnerInv
<1>6. CASE Decide
  <2>1. Counted'
    BY <1>6 DEF Decide, RunnerInv, Counted
  <2>2. Typed'
    BY <1>6 DEF Decide, RunnerInv, Typed
  <2>3. RunningInRun' /\ FlagInEngine'
    BY <1>6 DEF Decide, RunnerInv, Typed, RunningInRun, FlagInEngine
  <2>4. RowsMissing'
    BY <1>6 DEF Decide, RunnerInv, Counted, RunningInRun, RowsMissing
  <2>5. AcceptedAccounted'
    BY <1>6 DEF Decide, RunnerInv, Counted, RunningInRun, AcceptedAccounted
  <2> QED
    BY <2>1, <2>2, <2>3, <2>4, <2>5 DEF RunnerInv
<1>7. CASE Begin
  <2>1. Counted'
    BY <1>7 DEF Begin, RunnerInv, Counted
  <2>2. Typed'
    BY <1>7 DEF Begin, RunnerInv, Typed
  <2>3. RunningInRun' /\ FlagInEngine'
    BY <1>7 DEF Begin, RunnerInv, Typed, RunningInRun, FlagInEngine
  <2>4. RowsMissing'
    BY <1>7 DEF Begin, RunnerInv, Counted, RunningInRun, RowsMissing
  <2>5. AcceptedAccounted'
    BY <1>7 DEF Begin, RunnerInv, Counted, RunningInRun, AcceptedAccounted
  <2> QED
    BY <2>1, <2>2, <2>3, <2>4, <2>5 DEF RunnerInv
<1>8. CASE RaiseFlag
  <2>1. Counted'
    BY <1>8 DEF RaiseFlag, RunnerInv, Counted
  <2>2. Typed'
    BY <1>8 DEF RaiseFlag, RunnerInv, Typed
  <2>3. RunningInRun' /\ FlagInEngine'
    BY <1>8 DEF RaiseFlag, RunnerInv, Typed, RunningInRun, FlagInEngine
  <2>4. RowsMissing'
    BY <1>8 DEF RaiseFlag, RunnerInv, Counted, RunningInRun, RowsMissing
  <2>5. AcceptedAccounted'
    BY <1>8 DEF RaiseFlag, RunnerInv, Counted, RunningInRun, AcceptedAccounted
  <2> QED
    BY <2>1, <2>2, <2>3, <2>4, <2>5 DEF RunnerInv
<1>9. CASE EngineReturns
  <2>1. Counted'
    BY <1>9 DEF EngineReturns, RunnerInv, Counted
  <2>2. Typed'
    BY <1>9 DEF EngineReturns, RunnerInv, Typed
  <2>3. RunningInRun' /\ FlagInEngine'
    BY <1>9 DEF EngineReturns, RunnerInv, Typed, RunningInRun, FlagInEngine
  <2>4. RowsMissing'
    BY <1>9 DEF EngineReturns, RunnerInv, Counted, RunningInRun, RowsMissing
  <2>5. AcceptedAccounted'
    BY <1>9 DEF EngineReturns, RunnerInv, Counted, RunningInRun, AcceptedAccounted
  <2> QED
    BY <2>1, <2>2, <2>3, <2>4, <2>5 DEF RunnerInv
<1>10. CASE EnginePanics
  <2>1. Counted'
    BY <1>10 DEF EnginePanics, RunnerInv, Counted
  <2>2. Typed'
    BY <1>10 DEF EnginePanics, RunnerInv, Typed
  <2>3. RunningInRun' /\ FlagInEngine'
    <3>1. panics' # 0
      BY <1>10 DEF EnginePanics, RunnerInv, Counted
    <3>2. RunningInRun'
      BY <1>10 DEF EnginePanics, RunningInRun
    <3> QED
      BY <3>1, <3>2 DEF FlagInEngine
  <2>4. RowsMissing'
    BY <1>10 DEF EnginePanics, RunnerInv, Counted, RunningInRun, RowsMissing
  <2>5. AcceptedAccounted'
    BY <1>10 DEF EnginePanics, RunnerInv, Counted, RunningInRun, AcceptedAccounted
  <2> QED
    BY <2>1, <2>2, <2>3, <2>4, <2>5 DEF RunnerInv
<1>11. CASE Restart
  <2>1. Counted'
    BY <1>11 DEF Restart, RunnerInv, Counted
  <2>2. Typed'
    BY <1>11 DEF Restart, RunnerInv, Typed
  <2>3. RunningInRun' /\ FlagInEngine'
    BY <1>11 DEF Restart, RunnerInv, Typed, RunningInRun, FlagInEngine
  <2>4. RowsMissing'
    BY <1>11 DEF Restart, RunnerInv, Counted, RunningInRun, RowsMissing
  <2>5. AcceptedAccounted'
    BY <1>11 DEF Restart, RunnerInv, Counted, RunningInRun, AcceptedAccounted
  <2> QED
    BY <2>1, <2>2, <2>3, <2>4, <2>5 DEF RunnerInv
<1>12. CASE StoreResult
  <2>1. Counted'
    BY <1>12 DEF StoreResult, RunnerInv, Counted
  <2>2. Typed'
    BY <1>12 DEF StoreResult, RunnerInv, Typed
  <2>3. RunningInRun' /\ FlagInEngine'
    BY <1>12 DEF StoreResult, RunnerInv, Typed, RunningInRun, FlagInEngine
  <2>4. RowsMissing'
    BY <1>12 DEF StoreResult, RunnerInv, Counted, RunningInRun, RowsMissing
  <2>5. AcceptedAccounted'
    BY <1>12 DEF StoreResult, RunnerInv, Counted, RunningInRun, AcceptedAccounted
  <2> QED
    BY <2>1, <2>2, <2>3, <2>4, <2>5 DEF RunnerInv
<1>13. CASE Finish
  <2>1. Counted'
    BY <1>13 DEF Finish, RunnerInv, Counted
  <2>2. Typed'
    BY <1>13 DEF Finish, RunnerInv, Typed
  <2>3. RunningInRun' /\ FlagInEngine'
    BY <1>13 DEF Finish, RunnerInv, Typed, RunningInRun, FlagInEngine
  <2>4. RowsMissing'
    BY <1>13 DEF Finish, RunnerInv, Counted, RunningInRun, RowsMissing
  <2>5. AcceptedAccounted'
    BY <1>13 DEF Finish, RunnerInv, Counted, RunningInRun, AcceptedAccounted
  <2> QED
    BY <2>1, <2>2, <2>3, <2>4, <2>5 DEF RunnerInv
<1>14. CASE Rearm
  <2>1. Counted'
    BY <1>14 DEF Rearm, RunnerInv, Counted
  <2>2. Typed'
    BY <1>14 DEF Rearm, RunnerInv, Typed
  <2>3. RunningInRun' /\ FlagInEngine'
    BY <1>14 DEF Rearm, RunnerInv, Typed, RunningInRun, FlagInEngine
  <2>4. RowsMissing'
    BY <1>14 DEF Rearm, RunnerInv, Counted, RunningInRun, RowsMissing
  <2>5. AcceptedAccounted'
    BY <1>14 DEF Rearm, RunnerInv, Counted, RunningInRun, AcceptedAccounted
  <2> QED
    BY <2>1, <2>2, <2>3, <2>4, <2>5 DEF RunnerInv
<1> QED
  BY <1>1, <1>2, <1>3, <1>4, <1>5, <1>6, <1>7, <1>8, <1>9, <1>10, <1>11, <1>12, <1>13, <1>14
     DEF LoopStep

LEMMA RunnerAlways == Spec => []RunnerInv
<1>1. RunnerInv /\ [Next]_rvars => RunnerInv'
  BY RequestKeepsInv, LoopKeepsInv DEF Next
<1> QED
  BY <1>1, InitRunner, PTL DEF Spec

\* Every request that TriggerNow accepted is in the channel or with the loop on
\* its way to a run: none is lost, none is served twice (runner.go:57-68, 94-127).
THEOREM TriggersAccounted == Spec => []AcceptedAccounted
<1>1. RunnerInv => AcceptedAccounted
  BY DEF RunnerInv
<1> QED
  BY <1>1, RunnerAlways, PTL

\* Until a panic, a sample is discounted only if an engine ran during its ping
\* (runner.go:163-184, pinger.go:146).
THEOREM FlagsAreEarned == Spec => []FlaggedOnlyUnderTest
<1>1. RunnerInv => FlaggedOnlyUnderTest
  BY DEF RunnerInv, FlagInEngine, FlaggedOnlyUnderTest
<1> QED
  BY <1>1, RunnerAlways, PTL

\* Until a shutdown every run and every skip has its row when the loop waits
\* again, a panicked one excepted (runner.go:17-19, 186-231).
THEOREM OutcomesAreSaved == Spec => []OutcomesSaved
<1>1. RunnerInv => OutcomesSaved
  BY DEF RunnerInv, Counted, RowsMissing, OutcomesSaved
<1> QED
  BY <1>1, RunnerAlways, PTL
=============================================================================
