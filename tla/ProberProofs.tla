---------------------------- MODULE ProberProofs ----------------------------
(***************************************************************************)
(* Proofs about the call prober for any timeouts, ring size and number of  *)
(* packets, faults and restarts: that it awaits exactly the packets between*)
(* its finalization pointer and the last one entered, that the freezes it  *)
(* reports are the runs of lost packets, and that the seconds it reports   *)
(* are whole.                                                              *)
(***************************************************************************)
EXTENDS Prober, FiniteSetTheorems, SequenceTheorems, TLAPS

\* The pending window, with what makes it inductive: the finalization pointer
\* never overtakes the last packet entered (p.next < p.lastSeq, prober.go:311).
PendingInv ==
    /\ next \in Nat /\ lastSeq \in Nat /\ next <= lastSeq
    /\ PendingInOrder

\* What no step touches but those of finalize and of the sendLoops.
Kept == UNCHANGED <<sent, next, lastSeq>> /\ (received' = received)

\* Whatever leaves the four variables alone leaves the window alone.
LEMMA KeptWindow ==
    ASSUME PendingInv, Kept PROVE PendingInv'
BY DEF PendingInv, PendingInOrder, Kept

\* sendLoop enters its packet at the upper end of the window (prober.go:263-267).
LEMMA EnterExtends ==
    ASSUME PendingInv, Enter, received' = received, next' = next PROVE PendingInv'
<1>1. lastSeq' \in Nat /\ next' <= lastSeq'
  BY DEF Enter, PendingInv
<1>2. DOMAIN sent' = DOMAIN sent \union {lastSeq}
  BY DEF Enter
<1>3. next..(lastSeq - 1) \union {lastSeq} = next'..(lastSeq' - 1)
  BY DEF Enter, PendingInv
<1>4. QED
  BY <1>1, <1>2, <1>3 DEF PendingInv, PendingInOrder

\* finalize takes its packet from the lower end (prober.go:323-325).
LEMMA AdvanceShrinks ==
    ASSUME PendingInv, next < lastSeq, Advance PROVE PendingInv'
<1>1. next' = next + 1 /\ lastSeq' = lastSeq
  BY DEF Advance, SweepKeeps
<1>2. next' \in Nat /\ lastSeq' \in Nat /\ next' <= lastSeq'
  BY <1>1 DEF PendingInv
<1>3. DOMAIN sent' = DOMAIN sent \ {next} /\ received' = received \ {next}
  BY DEF Advance
<1>4. (next..(lastSeq - 1)) \ {next} = next'..(lastSeq' - 1)
  BY <1>1 DEF PendingInv
<1>5. QED
  BY <1>2, <1>3, <1>4 DEF PendingInv, PendingInOrder

\* An echo is noted only while its packet is awaited (prober.go:298-300).
LEMMA ReceiveInWindow ==
    ASSUME NEW s, NEW again, PendingInv, Receive(s, again) PROVE PendingInv'
<1>1. UNCHANGED <<sent, next, lastSeq>>
  BY DEF Receive, LoopKeeps
<1>2. received' \subseteq DOMAIN sent
  BY DEF Receive, PendingInv, PendingInOrder
<1>3. QED
  BY <1>1, <1>2 DEF PendingInv, PendingInOrder

LEMMA PendingInit == Init => PendingInv
<1> SUFFICES ASSUME Init PROVE PendingInv
  OBVIOUS
<1>1. next = 1 /\ lastSeq = 1 /\ received = {} /\ sent = <<>>
  BY DEF Init
<1>2. DOMAIN sent = {} /\ 1..0 = {}
  BY <1>1
<1>3. QED
  BY <1>1, <1>2 DEF PendingInv, PendingInOrder

LEMMA PendingNext == PendingInv /\ [Next]_cvars => PendingInv'
<1> SUFFICES ASSUME PendingInv, [Next]_cvars PROVE PendingInv'
  OBVIOUS
<1>1. CASE Handshake \/ HandshakeFails \/ Restart \/ RecvFails
  <2>1. Kept
    BY <1>1 DEF Handshake, HandshakeFails, Restart, RecvFails, StreamKeeps, Kept
  <2>2. QED
    BY <2>1, KeptWindow
<1>2. CASE Send \/ SendFails
  <2>1. Enter /\ received' = received /\ next' = next
    BY <1>2 DEF Send, SendFails, LoopKeeps
  <2>2. QED
    BY <2>1, EnterExtends
<1>3. CASE LeftoverSends
  <2>1. received' = received /\ next' = next
    BY <1>3 DEF LeftoverSends, LoopKeeps
  <2>2. CASE lastSeq <= MaxSends
    BY <1>3, <2>1, <2>2, EnterExtends DEF LeftoverSends
  <2>3. CASE ~(lastSeq <= MaxSends)
    BY <1>3, <2>1, <2>3, KeptWindow DEF LeftoverSends, Kept
  <2>4. QED
    BY <2>2, <2>3
<1>4. CASE \E s \in wire, again \in BOOLEAN : Receive(s, again)
  <2>1. PICK s \in wire, again \in BOOLEAN : Receive(s, again)
    BY <1>4
  <2>2. QED
    BY <2>1, ReceiveInWindow
<1>5. CASE FinalizeReceived \/ FinalizeLost
  <2>1. next < lastSeq /\ Advance
    BY <1>5 DEF FinalizeReceived, FinalizeLost
  <2>2. QED
    BY <2>1, AdvanceShrinks
<1>6. CASE Sweep \/ FinalizeDone
  <2>1. Kept
    BY <1>6 DEF Sweep, FinalizeDone, SweepKeeps, Kept
  <2>2. QED
    BY <2>1, KeptWindow
<1>7. CASE Watchdog
  <2>1. Kept
    BY <1>7 DEF Watchdog, WatchdogPasses, WatchdogFires, WatchdogKeeps, Kept
  <2>2. QED
    BY <2>1, KeptWindow
<1>8. CASE Tick
  \* The packets grow older; which ones are awaited does not change.
  <2>1. DOMAIN sent' = DOMAIN sent /\ UNCHANGED <<next, lastSeq, received>>
    BY <1>8 DEF Tick
  <2>2. QED
    BY <2>1 DEF PendingInv, PendingInOrder
<1>9. CASE Boot \/ Flip \/ UNCHANGED cvars
  <2>1. Kept
    BY <1>9 DEF Boot, Flip, cvars, proberVars, Kept
  <2>2. QED
    BY <2>1, KeptWindow
<1>10. QED
  BY <1>1, <1>2, <1>3, <1>4, <1>5, <1>6, <1>7, <1>8, <1>9 DEF Next, Finalize

\* The packet finalize looks for is always there, whatever restarts, leftover
\* sendLoops and repeated echoes did: "should not happen" (prober.go:314) does
\* not, and no entry is left behind in p.sent or p.rtts.
THEOREM NothingLeftBehind == Spec => []PendingInOrder
<1>1. PendingInv => PendingInOrder
  BY DEF PendingInv
<1>2. QED
  BY <1>1, PendingInit, PendingNext, PTL DEF Spec

-----------------------------------------------------------------------------
(***************************************************************************)
(* Freezes.                                                                *)
(***************************************************************************)

\* The echoes noted are those of packets still awaited, and the cuts of the
\* watchdog lie behind the finalization pointer.
EchoesInv ==
    /\ PendingInv
    /\ next >= 1 /\ lastSeq <= MaxSends + 1
    /\ received = echoed \cap DOMAIN sent
    /\ echoed \subseteq 1..(lastSeq - 1)
    /\ cuts \subseteq 0..(next - 1)

\* The runs that are reported, the one in progress, and what is reported of one.
LongEnded == {r \in Runs : Ended(r) /\ r[2] - r[1] + 1 >= MinRun}
Open      == {r \in Runs : r[2] = next - 1 /\ ~Ended(r)}
Report(r) == [start |-> r[1], lost |-> r[2] - r[1] + 1,
              till |-> IF r[2] \in cuts THEN 0 ELSE r[2] + 1]

Reports == [start : Nat, lost : Nat, till : Nat]

\* The reports made, and the run remembered: a lost packet just finalized is in
\* a run, unless it has been cut there.
RunsInv ==
    /\ freezes \in Seq(Reports)
    /\ IsFiniteSet(LongEnded) /\ Len(freezes) = Cardinality(LongEnded)
    /\ {Report(r) : r \in LongEnded} = {freezes[i] : i \in DOMAIN freezes}
    /\ \A i \in 1..(Len(freezes) - 1) : freezes[i].start < freezes[i + 1].start
    /\ IF Open = {} THEN run = NoRun
       ELSE \E r \in Open : run = [start |-> r[1], lost |-> r[2] - r[1] + 1]
    /\ Lost(next - 1) /\ next - 1 \notin cuts => Open # {}

FreezeInv == EchoesInv /\ RunsInv

\* What a step may do to the variables these speak of: nothing, but for packets
\* entered, echoes noted of packets awaited, and what finalize and the watchdog do.
Still ==
    /\ UNCHANGED <<next, cuts, freezes, run>>
    /\ \A k \in 1..(next - 1) : k \in echoed' <=> k \in echoed

LEMMA EchoesInit == Init => EchoesInv
<1> SUFFICES ASSUME Init PROVE EchoesInv
  OBVIOUS
<1>1. PendingInv
  BY PendingInit
<1>2. next = 1 /\ lastSeq = 1 /\ received = {} /\ echoed = {} /\ cuts = {}
  BY DEF Init
<1> QED
  BY <1>1, <1>2, ProberAssumption DEF EchoesInv

LEMMA EchoesNext == EchoesInv /\ [Next]_cvars =>
    /\ EchoesInv'
    /\ Still \/ FinalizeReceived \/ FinalizeLost \/ WatchdogFires
<1> SUFFICES ASSUME EchoesInv, [Next]_cvars
             PROVE  /\ EchoesInv'
                    /\ Still \/ FinalizeReceived \/ FinalizeLost \/ WatchdogFires
  OBVIOUS
<1>1. PendingInv'
  BY PendingNext DEF EchoesInv
<1>2. /\ next \in Nat /\ lastSeq \in Nat /\ next <= lastSeq /\ next >= 1 /\ lastSeq <= MaxSends + 1
      /\ DOMAIN sent = next..(lastSeq - 1)
      /\ received = echoed \cap DOMAIN sent
      /\ echoed \subseteq 1..(lastSeq - 1)
      /\ cuts \subseteq 0..(next - 1)
      /\ MaxSends \in Nat
  BY ProberAssumption DEF EchoesInv, PendingInv, PendingInOrder
<1>3. ASSUME DOMAIN sent' = DOMAIN sent, received' = received, echoed' = echoed,
             UNCHANGED <<next, lastSeq, cuts, freezes, run>>
      PROVE  EchoesInv' /\ Still
  BY <1>1, <1>2, <1>3 DEF EchoesInv, Still
<1>4. CASE Handshake \/ HandshakeFails \/ Restart \/ RecvFails
  <2>1. DOMAIN sent' = DOMAIN sent /\ received' = received /\ echoed' = echoed
        /\ UNCHANGED <<next, lastSeq, cuts, freezes, run>>
    BY <1>4 DEF Handshake, HandshakeFails, Restart, RecvFails, StreamKeeps
  <2> QED
    BY <1>3, <2>1
<1>5. CASE Sweep \/ FinalizeDone \/ WatchdogPasses
  <2>1. DOMAIN sent' = DOMAIN sent /\ received' = received /\ echoed' = echoed
        /\ UNCHANGED <<next, lastSeq, cuts, freezes, run>>
    BY <1>5 DEF Sweep, FinalizeDone, WatchdogPasses, SweepKeeps, WatchdogKeeps, worldVars
  <2> QED
    BY <1>3, <2>1
<1>6. CASE Tick \/ Boot \/ Flip \/ UNCHANGED cvars
  <2>1. DOMAIN sent' = DOMAIN sent /\ received' = received /\ echoed' = echoed
        /\ UNCHANGED <<next, lastSeq, cuts, freezes, run>>
    BY <1>6 DEF Tick, Boot, Flip, cvars, proberVars, worldVars
  <2> QED
    BY <1>3, <2>1
<1>7. CASE Send \/ SendFails \/ LeftoverSends
  <2>1. received' = received /\ echoed' = echoed /\ UNCHANGED <<next, cuts, freezes, run>>
    BY <1>7 DEF Send, SendFails, LeftoverSends, LoopKeeps
  <2>2. CASE Enter
    <3>1. lastSeq' = lastSeq + 1 /\ DOMAIN sent' = DOMAIN sent \union {lastSeq}
          /\ lastSeq' <= MaxSends + 1
      BY <1>2, <2>2 DEF Enter
    <3>2. lastSeq \notin echoed
      BY <1>2
    <3>3. received' = echoed' \cap DOMAIN sent'
      BY <1>2, <2>1, <3>1, <3>2
    <3>4. echoed' \subseteq 1..(lastSeq' - 1)
      BY <1>2, <2>1, <3>1
    <3> QED
      BY <1>1, <1>2, <2>1, <3>1, <3>3, <3>4 DEF EchoesInv, Still
  <2>3. CASE ~Enter
    <3>1. UNCHANGED <<sent, lastSeq>>
      BY <1>7, <2>3 DEF Send, SendFails, LeftoverSends
    <3> QED
      BY <1>3, <2>1, <3>1
  <2> QED
    BY <2>2, <2>3
<1>8. CASE \E s \in wire, again \in BOOLEAN : Receive(s, again)
  <2>1. PICK s : /\ received' = IF s \in DOMAIN sent THEN received \union {s} ELSE received
                 /\ echoed' = IF s \in DOMAIN sent THEN echoed \union {s} ELSE echoed
                 /\ UNCHANGED <<sent, lastSeq, next, cuts, freezes, run>>
    BY <1>8 DEF Receive, LoopKeeps
  <2>2. received' = echoed' \cap DOMAIN sent'
    BY <1>2, <2>1
  <2>3. echoed' \subseteq 1..(lastSeq' - 1)
    <3>1. DOMAIN sent \subseteq 1..(lastSeq - 1)
      BY <1>2
    <3> QED
      BY <1>2, <2>1, <3>1
  <2>4. \A k \in 1..(next - 1) : k \in echoed' <=> k \in echoed
    BY <1>2, <2>1
  <2> QED
    BY <1>1, <1>2, <2>1, <2>2, <2>3, <2>4 DEF EchoesInv, Still
<1>9. CASE FinalizeReceived \/ FinalizeLost
  <2>1. /\ received' = received \ {next} /\ DOMAIN sent' = DOMAIN sent \ {next}
        /\ next' = next + 1 /\ UNCHANGED <<lastSeq, echoed, cuts>>
    BY <1>9 DEF FinalizeReceived, FinalizeLost, Advance, SweepKeeps, worldVars
  <2>2. received' = echoed' \cap DOMAIN sent'
    BY <1>2, <2>1
  <2> QED
    BY <1>1, <1>2, <1>9, <2>1, <2>2 DEF EchoesInv
<1>10. CASE WatchdogFires
  <2>1. /\ UNCHANGED <<sent, received, next, lastSeq, echoed>>
        /\ cuts' = cuts \union {next - 1}
    BY <1>10 DEF WatchdogFires, WatchdogKeeps
  <2>2. cuts' \subseteq 0..(next' - 1)
    BY <1>2, <2>1
  <2> QED
    BY <1>1, <1>2, <1>10, <2>1, <2>2 DEF EchoesInv
<1> QED
  BY <1>4, <1>5, <1>6, <1>7, <1>8, <1>9, <1>10 DEF Next, Finalize, Watchdog

\* A run lies among the finalized packets, and all of it is lost.
LEMMA RunsWithin ==
    ASSUME EchoesInv, NEW r \in Runs
    PROVE  /\ r = <<r[1], r[2]>> /\ r[1] \in Seqs /\ r[2] \in Seqs
           /\ r[1] <= r[2] /\ r[2] <= next - 1
           /\ \A k \in r[1]..r[2] : Lost(k)
           /\ Lost(r[1] - 1) => r[1] - 1 \in cuts
           /\ \A k \in r[1]..(r[2] - 1) : k \notin cuts
           /\ Seqs \subseteq Nat \ {0} /\ next \in Nat
<1>1. r \in Seqs \X Seqs /\ RunBetween(r[1], r[2])
  BY DEF Runs
<1>2. Seqs \subseteq Nat \ {0} /\ next \in Nat
  BY ProberAssumption DEF Seqs, EchoesInv, PendingInv
<1>3. Lost(r[2])
  <2>1. r[1] \in Nat /\ r[2] \in Nat /\ r[1] <= r[2]
    BY <1>1, <1>2 DEF RunBetween
  <2>2. r[2] \in r[1]..r[2]
    BY <2>1
  <2> QED
    BY <1>1, <2>2 DEF RunBetween
<1>4. r[2] <= next - 1
  BY <1>2, <1>3 DEF Lost
<1> QED
  BY <1>1, <1>2, <1>4 DEF RunBetween

\* There is one run in progress at most, and it began after all those reported.
LEMMA OneOpen ==
    ASSUME EchoesInv, NEW r \in Open
    PROVE  /\ \A q \in Open : q = r
           /\ \A q \in LongEnded : q[1] < r[1]
<1>1. /\ r \in Runs /\ r[2] = next - 1 /\ r[2] \notin cuts
      /\ \A q \in Open : q \in Runs /\ q[2] = next - 1
  BY DEF Open, Ended
<1>2. ASSUME NEW q \in Runs, NEW p \in Runs, q[2] = next - 1, p[2] = next - 1
      PROVE  ~(q[1] < p[1])
  <2>1. /\ q[1] \in Nat \ {0} /\ p[1] \in Nat \ {0} /\ next \in Nat
        /\ p[1] <= next - 1
        /\ \A k \in q[1]..(next - 1) : Lost(k)
        /\ \A k \in q[1]..(next - 2) : k \notin cuts
        /\ Lost(p[1] - 1) => p[1] - 1 \in cuts
    <3>1. (next - 1) - 1 = next - 2
      BY RunsWithin, <1>2
    <3> QED
      BY <1>2, <3>1, RunsWithin
  <2>2. CASE q[1] < p[1]
    <3>1. p[1] - 1 \in q[1]..(next - 1) /\ p[1] - 1 \in q[1]..(next - 2)
      BY <2>1, <2>2
    <3> QED
      BY <2>1, <3>1
  <2> QED
    BY <2>2
<1>3. ASSUME NEW q \in Open PROVE q = r
  <2>1. q \in Runs /\ ~(q[1] < r[1]) /\ ~(r[1] < q[1]) /\ q[2] = r[2]
    BY <1>1, <1>2, <1>3
  <2>2. q = <<q[1], q[2]>> /\ r = <<r[1], r[2]>> /\ q[1] \in Nat /\ r[1] \in Nat
    BY <1>1, <2>1, RunsWithin
  <2>3. q[1] = r[1]
    BY <2>1, <2>2
  <2> QED
    BY <2>1, <2>2, <2>3
<1>4. ASSUME NEW q \in LongEnded PROVE q[1] < r[1]
  <2>1. q \in Runs /\ Ended(q)
    BY <1>4 DEF LongEnded
  <2>2. /\ q[1] \in Nat \ {0} /\ q[2] \in Nat \ {0} /\ q[1] <= q[2] /\ q[2] <= next - 1
        /\ next \in Nat /\ r[1] \in Nat \ {0}
        /\ \A k \in r[1]..(next - 1) : Lost(k)
        /\ \A k \in r[1]..((next - 1) - 1) : k \notin cuts
    BY <1>1, <2>1, RunsWithin
  <2>3. CASE r[1] <= q[1]
    <3>1. q[2] \notin cuts
      <4>1. q[2] = next - 1 \/ q[2] \in r[1]..((next - 1) - 1)
        BY <2>2, <2>3
      <4> QED
        BY <1>1, <2>2, <4>1
    <3>2. q[2] + 1 \in echoed \cap 1..(next - 1)
      BY <2>1, <3>1 DEF Ended
    <3>3. q[2] + 1 \in r[1]..(next - 1)
      BY <2>2, <2>3, <3>2
    <3> QED
      BY <2>2, <3>2, <3>3 DEF Lost
  <2> QED
    BY <2>2, <2>3
<1> QED
  BY <1>3, <1>4

LEMMA RunsInit == Init => RunsInv
<1> SUFFICES ASSUME Init PROVE RunsInv
  OBVIOUS
<1>1. next = 1 /\ freezes = <<>> /\ run = NoRun
  BY DEF Init
<1>2. \A k : ~Lost(k)
  BY <1>1 DEF Lost
<1>3. Runs = {}
  <2>1. ASSUME NEW r \in Runs PROVE FALSE
    <3>1. r[1] \in Nat /\ r[2] \in Nat /\ r[1] <= r[2] /\ \A k \in r[1]..r[2] : Lost(k)
      BY <2>1, ProberAssumption DEF Runs, RunBetween, Seqs
    <3>2. r[1] \in r[1]..r[2]
      BY <3>1
    <3> QED
      BY <1>2, <3>1, <3>2
  <2> QED
    BY <2>1
<1>4. LongEnded = {} /\ Open = {}
  BY <1>3 DEF LongEnded, Open
<1>5. IsFiniteSet({}) /\ Cardinality({}) = 0
  BY FS_EmptySet
<1> QED
  BY <1>1, <1>2, <1>4, <1>5 DEF RunsInv

\* A step that is none of the prober's verdicts changes no run.
LEMMA StillKeepsRuns ==
    ASSUME EchoesInv, RunsInv, Still PROVE RunsInv'
<1>1. next' = next /\ cuts' = cuts /\ freezes' = freezes /\ run' = run
  BY DEF Still
<1>2. \A k : Lost(k)' <=> Lost(k)
  BY <1>1 DEF Still, Lost
<1>3. Runs' = Runs
  <2>1. \A i, j : RunBetween(i, j)' <=> RunBetween(i, j)
    BY <1>1, <1>2 DEF RunBetween
  <2> QED
    BY <2>1 DEF Runs
<1>4. \A r : Ended(r)' <=> Ended(r)
  BY <1>1 DEF Still, Ended
<1>5. LongEnded' = LongEnded /\ Open' = Open
  BY <1>1, <1>3, <1>4 DEF LongEnded, Open
<1>6. \A r : Report(r)' = Report(r)
  BY <1>1 DEF Report
<1>7. Lost(next - 1)' <=> Lost(next - 1)
  BY <1>1 DEF Still, Lost
<1> QED
  BY <1>1, <1>5, <1>6, <1>7 DEF RunsInv

\* The next packet finalized: what that changes in the runs up to it.
LEMMA OneFinalized ==
    ASSUME EchoesInv, NEW n, n = next, next' = n + 1, echoed' = echoed, cuts' = cuts
    PROVE  /\ \A k : k # n => (Lost(k)' <=> Lost(k))
           /\ Lost(n)' <=> n \notin echoed
           /\ \A r \in Seqs \X Seqs :
                r[2] < n => (RunBetween(r[1], r[2])' <=> RunBetween(r[1], r[2]))
<1>1. n = next /\ n \in Nat /\ n >= 1 /\ Seqs \subseteq Nat
  BY ProberAssumption DEF EchoesInv, PendingInv, Seqs
<1>2. \A k : k # n => (Lost(k)' <=> Lost(k))
  BY <1>1 DEF Lost
<1>3. Lost(n)' <=> n \notin echoed
  <2>1. Lost(n)' <=> n \in 1..((n + 1) - 1) /\ n \notin echoed
    BY DEF Lost
  <2> QED
    BY <1>1, <2>1
<1>4. ASSUME NEW r \in Seqs \X Seqs, r[2] < n
      PROVE  RunBetween(r[1], r[2])' <=> RunBetween(r[1], r[2])
  <2>1. r[1] \in Nat /\ r[2] \in Nat
    BY <1>1
  <2>2. CASE r[1] <= r[2]
    <3>1. \A k \in r[1]..r[2] : Lost(k)' <=> Lost(k)
      BY <1>1, <1>2, <1>4, <2>1
    <3>2. Lost(r[1] - 1)' <=> Lost(r[1] - 1)
      BY <1>1, <1>2, <1>4, <2>1, <2>2
    <3> QED
      BY <3>1, <3>2 DEF RunBetween
  <2>3. CASE ~(r[1] <= r[2])
    BY <2>3 DEF RunBetween
  <2> QED
    BY <2>2, <2>3
<1> QED
  BY <1>2, <1>3, <1>4

\* closeRun and flushRun (prober.go:343-365): the run in progress is reported if
\* it is long enough, and none is in progress any more.
LEMMA RunClosed ==
    ASSUME EchoesInv, RunsInv, NEW till \in Nat, CloseRun(till),
           LongEnded' = LongEnded \union {r \in Open : r[2] - r[1] + 1 >= MinRun},
           Open' = {}, ~Lost(next - 1)' \/ (next - 1 \in cuts)',
           \A r \in LongEnded : Report(r)' = Report(r),
           \A r \in Open : Report(r)' = [start |-> r[1], lost |-> r[2] - r[1] + 1, till |-> till]
    PROVE  RunsInv'
<1>1. /\ freezes \in Seq(Reports) /\ Len(freezes) \in Nat /\ DOMAIN freezes = 1..Len(freezes)
      /\ IsFiniteSet(LongEnded) /\ Len(freezes) = Cardinality(LongEnded)
      /\ {Report(r) : r \in LongEnded} = {freezes[i] : i \in DOMAIN freezes}
      /\ \A i \in 1..(Len(freezes) - 1) : freezes[i].start < freezes[i + 1].start
      /\ MinRun \in Nat \ {0}
  <2>1. MinRun \in Nat \ {0}
    BY ProberAssumption
  <2>2. freezes \in Seq(Reports)
    BY DEF RunsInv
  <2>3. Len(freezes) \in Nat /\ DOMAIN freezes = 1..Len(freezes)
    BY <2>2
  <2> QED
    BY <2>1, <2>2, <2>3, Zenon DEF RunsInv
<1>2. run' = NoRun
  BY DEF CloseRun
<1>3. ASSUME freezes' = freezes, LongEnded' = LongEnded PROVE RunsInv'
  <2>1. {Report(r)' : r \in LongEnded'} = {Report(r) : r \in LongEnded}
    BY <1>3
  <2> QED
    BY <1>1, <1>2, <1>3, <2>1 DEF RunsInv
<1>4. CASE Open = {}
  <2>1. run.lost = 0
    BY <1>4 DEF RunsInv, NoRun
  <2>2. freezes' = freezes /\ LongEnded' = LongEnded
    BY <1>1, <1>4, <2>1 DEF CloseRun
  <2> QED
    BY <1>3, <2>2
<1>5. CASE Open # {}
  <2>1. PICK r \in Open : run = [start |-> r[1], lost |-> r[2] - r[1] + 1]
    BY <1>5 DEF RunsInv
  <2>2. PICK size : size = r[2] - r[1] + 1
    OBVIOUS
  <2>3. r \in Runs /\ r[1] \in Nat /\ r[2] \in Nat /\ r[1] <= r[2] /\ size \in Nat
    BY <2>2, RunsWithin DEF Open
  <2>4. Open = {r} /\ r \notin LongEnded /\ \A q \in LongEnded : q[1] < r[1]
    <3>1. r \notin LongEnded
      BY DEF Open, LongEnded
    <3> QED
      BY <3>1, OneOpen
  <2>5. CASE ~(size >= MinRun)
    <3>1. freezes' = freezes
      BY <2>1, <2>2, <2>5 DEF CloseRun
    <3>2. LongEnded' = LongEnded
      BY <2>2, <2>4, <2>5
    <3> QED
      BY <1>3, <3>1, <3>2
  <2>6. CASE size >= MinRun
    <3> DEFINE new == [start |-> r[1], lost |-> size, till |-> till]
    <3>1. freezes' = Append(freezes, new)
      BY <2>1, <2>2, <2>6 DEF CloseRun, Freeze
    <3>2. LongEnded' = LongEnded \union {r} /\ Report(r)' = new
      BY <2>2, <2>4, <2>6
    <3>3. new \in Reports /\ new.start = r[1]
      BY <2>3 DEF Reports
    <3> HIDE DEF new
    <3>4. /\ freezes' \in Seq(Reports) /\ Len(freezes') = Len(freezes) + 1
          /\ DOMAIN freezes' = DOMAIN freezes \union {Len(freezes) + 1}
          /\ freezes'[Len(freezes) + 1] = new
          /\ \A i \in DOMAIN freezes : freezes'[i] = freezes[i]
      BY <1>1, <3>1, <3>3
    <3>5. IsFiniteSet(LongEnded') /\ Cardinality(LongEnded') = Cardinality(LongEnded) + 1
      <4>1. /\ IsFiniteSet(LongEnded \union {r})
            /\ Cardinality(LongEnded \union {r}) = Cardinality(LongEnded) + 1
        BY <1>1, <2>4, FS_AddElement
      <4> QED
        BY <3>2, <4>1
    <3>6. {Report(q)' : q \in LongEnded'} = {freezes'[i] : i \in DOMAIN freezes'}
      <4>1. {Report(q)' : q \in LongEnded'} = {Report(q) : q \in LongEnded} \union {new}
        BY <3>2
      <4>2. {freezes'[i] : i \in DOMAIN freezes'} = {freezes[i] : i \in DOMAIN freezes} \union {new}
        BY <3>4
      <4> QED
        BY <1>1, <4>1, <4>2
    <3>7. ASSUME NEW i \in 1..(Len(freezes') - 1) PROVE freezes'[i].start < freezes'[i + 1].start
      <4>1. i \in DOMAIN freezes /\ freezes'[i] = freezes[i]
        BY <1>1, <3>4
      <4>2. CASE i = Len(freezes)
        <5>1. PICK q \in LongEnded : freezes[i] = Report(q)
          BY <1>1, <4>1
        <5>2. freezes[i].start = q[1]
          BY <5>1 DEF Report
        <5> QED
          BY <2>4, <3>3, <3>4, <4>1, <4>2, <5>2
      <4>3. CASE i # Len(freezes)
        <5>1. i \in 1..(Len(freezes) - 1) /\ i + 1 \in DOMAIN freezes
          BY <1>1, <3>4, <4>3
        <5> QED
          BY <1>1, <3>4, <4>1, <5>1
      <4> QED
        BY <4>2, <4>3
    <3> QED
      BY <1>1, <1>2, <3>4, <3>5, <3>6, <3>7 DEF RunsInv
  <2> QED
    BY <2>5, <2>6
<1> QED
  BY <1>4, <1>5

\* The echo of the next packet came: the run before it has ended.
LEMMA ReceivedKeepsRuns ==
    ASSUME EchoesInv, RunsInv, FinalizeReceived PROVE RunsInv'
<1>1. PICK n : n = next
  OBVIOUS
<1>2. /\ next' = n + 1 /\ echoed' = echoed /\ cuts' = cuts
      /\ n < lastSeq /\ n \in received /\ CloseRun(n)
  BY <1>1 DEF FinalizeReceived, Advance, SweepKeeps, worldVars
<1>3. n \in Nat /\ n >= 1 /\ n \in echoed /\ Seqs \subseteq Nat /\ cuts \subseteq 0..(n - 1)
  BY <1>1, <1>2, ProberAssumption DEF EchoesInv, PendingInv, Seqs
<1>4. /\ \A k : k # n => (Lost(k)' <=> Lost(k))
      /\ ~Lost(n)'
      /\ \A r \in Seqs \X Seqs :
           r[2] < n => (RunBetween(r[1], r[2])' <=> RunBetween(r[1], r[2]))
  BY <1>1, <1>2, <1>3, OneFinalized
<1>5. Runs' = Runs
  <2>1. ASSUME NEW r \in Seqs \X Seqs, RunBetween(r[1], r[2])'
        PROVE  RunBetween(r[1], r[2])
    <3>1. r[1] \in Nat /\ r[2] \in Nat /\ r[1] <= r[2] /\ r[2] \in r[1]..r[2]
      <4>1. r[1] \in Nat /\ r[2] \in Nat
        BY <1>3
      <4>2. r[1] <= r[2]
        BY <2>1 DEF RunBetween
      <4> QED
        BY <4>1, <4>2
    <3>2. Lost(r[2])'
      BY <2>1, <3>1 DEF RunBetween
    <3>3. r[2] \in 1..n
      BY <1>2, <1>3, <3>2 DEF Lost
    <3>4. r[2] < n
      <4>1. r[2] # n
        BY <1>4, <3>2
      <4> QED
        BY <1>3, <3>3, <4>1
    <3> QED
      BY <1>4, <2>1, <3>4
  <2>2. \A r \in Runs : RunBetween(r[1], r[2])'
    <3>1. \A r \in Runs : r \in Seqs \X Seqs /\ r[2] < n /\ RunBetween(r[1], r[2])
      <4>1. ASSUME NEW r \in Runs PROVE r[2] < n
        BY <1>1, <1>3, RunsWithin
      <4> QED
        BY <4>1 DEF Runs
    <3> QED
      BY <1>4, <3>1
  <2>3. Runs' = {r \in Seqs \X Seqs : RunBetween(r[1], r[2])'}
    BY DEF Runs
  <2> QED
    BY <2>1, <2>2, <2>3 DEF Runs
<1>6. ASSUME NEW r \in Runs
      PROVE  /\ Ended(r)' <=> Ended(r) \/ r[2] = n - 1
             /\ r[2] \in Nat /\ r[2] <= n - 1
  <2>1. r[2] \in Nat /\ r[2] <= n - 1
    BY <1>1, <1>3, RunsWithin
  <2>2. Ended(r)' <=> r[2] \in cuts \/ r[2] + 1 \in echoed \cap 1..((n + 1) - 1)
    BY <1>2 DEF Ended
  <2>3. Ended(r) <=> r[2] \in cuts \/ r[2] + 1 \in echoed \cap 1..(n - 1)
    BY <1>1 DEF Ended
  <2> QED
    BY <1>3, <2>1, <2>2, <2>3
<1>7. LongEnded' = LongEnded \union {r \in Open : r[2] - r[1] + 1 >= MinRun}
  BY <1>1, <1>5, <1>6 DEF LongEnded, Open
<1>8. Open' = {}
  <2>1. ASSUME NEW r \in Runs, r[2] = (n + 1) - 1 PROVE FALSE
    BY <1>3, <1>6, <2>1
  <2> QED
    BY <1>2, <1>5, <2>1 DEF Open
<1>9. ~Lost(next - 1)'
  <2>1. next' - 1 = n
    BY <1>2, <1>3
  <2>2. Lost(next - 1)' <=> n \in 1..n /\ n \notin echoed
    BY <1>2, <2>1 DEF Lost
  <2> QED
    BY <1>3, <2>2
<1>10. \A r \in LongEnded : Report(r)' = Report(r)
  BY <1>2 DEF Report
<1>11. ASSUME NEW r \in Open
       PROVE  Report(r)' = [start |-> r[1], lost |-> r[2] - r[1] + 1, till |-> n]
  <2>1. r[2] \notin cuts /\ r[2] + 1 = n
    BY <1>1, <1>3 DEF Open, Ended
  <2> QED
    BY <1>2, <2>1 DEF Report
<1> QED
  BY <1>2, <1>3, <1>7, <1>8, <1>9, <1>10, <1>11, RunClosed

\* The watchdog has cut the run in progress where it stands.
LEMMA WatchdogKeepsRuns ==
    ASSUME EchoesInv, RunsInv, WatchdogFires PROVE RunsInv'
<1>1. next' = next /\ echoed' = echoed /\ cuts' = cuts \union {next - 1} /\ CloseRun(0)
  BY DEF WatchdogFires, WatchdogKeeps
<1>2. next \in Nat /\ next >= 1 /\ Seqs \subseteq Nat \ {0}
  BY ProberAssumption DEF EchoesInv, PendingInv, Seqs
<1>3. \A k : Lost(k)' <=> Lost(k)
  BY <1>1 DEF Lost
<1>4. Runs' = Runs
  <2>1. ASSUME NEW r \in Seqs \X Seqs
        PROVE  RunBetween(r[1], r[2])' <=> RunBetween(r[1], r[2])
    <3>1. r[1] \in Nat /\ r[2] \in Nat
      BY <1>2
    <3>2. ASSUME r[1] <= r[2], \A k \in r[1]..r[2] : Lost(k)
          PROVE  /\ r[2] <= next - 1 /\ r[1] - 1 # next - 1
                 /\ \A k \in r[1]..(r[2] - 1) : k # next - 1
      <4>1. Lost(r[2])
        BY <3>1, <3>2
      <4>2. r[2] <= next - 1
        BY <1>2, <4>1 DEF Lost
      <4> QED
        BY <1>2, <3>1, <3>2, <4>2
    <3> QED
      BY <1>1, <1>3, <3>1, <3>2 DEF RunBetween
  <2>2. Runs' = {r \in Seqs \X Seqs : RunBetween(r[1], r[2])'}
    BY DEF Runs
  <2> QED
    BY <2>1, <2>2 DEF Runs
<1>5. \A r \in Runs : /\ Ended(r)' <=> Ended(r) \/ r[2] = next - 1
                      /\ Ended(r) /\ r[2] = next - 1 => r[2] \in cuts
                      /\ r[2] \in Nat
  <2>1. ASSUME NEW r \in Runs
        PROVE  /\ Ended(r)' <=> Ended(r) \/ r[2] = next - 1
               /\ Ended(r) /\ r[2] = next - 1 => r[2] \in cuts
               /\ r[2] \in Nat
    <3>1. r[2] \in Nat
      BY RunsWithin
    <3> QED
      BY <1>1, <1>2, <3>1 DEF Ended
  <2> QED
    BY <2>1
<1>6. LongEnded' = LongEnded \union {r \in Open : r[2] - r[1] + 1 >= MinRun}
  BY <1>4, <1>5 DEF LongEnded, Open
<1>7. Open' = {}
  BY <1>1, <1>4, <1>5 DEF Open
<1>8. (next - 1 \in cuts)'
  BY <1>1
<1>9. \A r \in LongEnded : Report(r)' = Report(r)
  <2>1. \A r \in LongEnded : r[2] \in cuts' <=> r[2] \in cuts
    BY <1>1, <1>5 DEF LongEnded
  <2> QED
    BY <2>1 DEF Report
<1>10. \A r \in Open : Report(r)' = [start |-> r[1], lost |-> r[2] - r[1] + 1, till |-> 0]
  BY <1>1 DEF Report, Open
<1> QED
  BY <1>1, <1>6, <1>7, <1>8, <1>9, <1>10, RunClosed

\* The next packet is given up: it continues the run in progress, or begins one.
LEMMA LostKeepsRuns ==
    ASSUME EchoesInv, RunsInv, FinalizeLost PROVE RunsInv'
<1>1. PICK n : n = next
  OBVIOUS
<1>2. /\ next' = n + 1 /\ echoed' = echoed /\ cuts' = cuts /\ freezes' = freezes
      /\ n < lastSeq /\ n \notin received
      /\ run' = [start |-> IF run.lost = 0 THEN n ELSE run.start, lost |-> run.lost + 1]
  BY <1>1 DEF FinalizeLost, Advance, SweepKeeps, worldVars
<1>3. /\ n \in Nat /\ n >= 1 /\ n \notin echoed /\ cuts \subseteq 0..(n - 1)
      /\ Seqs \subseteq Nat \ {0} /\ n \in Seqs
  <2>1. n \in DOMAIN sent /\ lastSeq \in Nat /\ n \in Nat /\ n >= 1 /\ lastSeq <= MaxSends + 1
    BY <1>1, <1>2 DEF EchoesInv, PendingInv, PendingInOrder
  <2> QED
    BY <1>1, <1>2, <2>1, ProberAssumption DEF EchoesInv, Seqs
<1>4. /\ \A k : k # n => (Lost(k)' <=> Lost(k))
      /\ Lost(n)'
      /\ \A r \in Seqs \X Seqs :
           r[2] < n => (RunBetween(r[1], r[2])' <=> RunBetween(r[1], r[2]))
  BY <1>1, <1>2, <1>3, OneFinalized
<1>5. ASSUME NEW r \in Seqs \X Seqs
      PROVE  /\ r \in Runs => r[2] < n
             /\ r[2] # n => (r \in Runs' <=> r \in Runs)
  <2>1. Runs' = {q \in Seqs \X Seqs : RunBetween(q[1], q[2])'}
    BY DEF Runs
  <2>2. ASSUME r \in Runs PROVE r[2] < n
    <3>1. r[2] \in Nat /\ r[2] <= n - 1
      BY <1>1, <1>3, <2>2, RunsWithin
    <3> QED
      BY <1>3, <3>1
  <2>3. ASSUME r \in Runs' PROVE r[2] <= n
    <3>1. RunBetween(r[1], r[2])'
      BY <2>1, <2>3
    <3>2. r[1] \in Nat /\ r[2] \in Nat /\ r[1] <= r[2] /\ r[2] \in r[1]..r[2]
      <4>1. r[1] \in Nat /\ r[2] \in Nat
        BY <1>3
      <4>2. r[1] <= r[2]
        BY <3>1 DEF RunBetween
      <4> QED
        BY <4>1, <4>2
    <3>3. Lost(r[2])'
      BY <3>1, <3>2 DEF RunBetween
    <3> QED
      BY <1>2, <1>3, <3>2, <3>3 DEF Lost
  <2>4. r[2] \in Nat
    BY <1>3
  <2>5. CASE r[2] < n
    BY <1>4, <2>1, <2>2, <2>5 DEF Runs
  <2>6. CASE ~(r[2] < n)
    BY <1>3, <2>2, <2>3, <2>4, <2>6
  <2> QED
    BY <2>2, <2>5, <2>6
\* No run has ended by it.
<1>6. ASSUME NEW r \in Runs PROVE Ended(r)' <=> Ended(r)
  <2>1. r[2] \in Nat /\ r[2] <= n - 1
    BY <1>1, <1>3, RunsWithin
  <2> QED
    BY <1>1, <1>2, <1>3, <2>1 DEF Ended
<1>7. ASSUME NEW r \in Seqs \X Seqs, r[2] = n PROVE ~Ended(r)'
  <2>1. n \notin cuts /\ n + 1 \notin 1..((n + 1) - 1)
    BY <1>3
  <2> QED
    BY <1>2, <1>7, <2>1 DEF Ended
<1>8. LongEnded' = LongEnded
  <2>1. Runs \subseteq Seqs \X Seqs /\ Runs' \subseteq Seqs \X Seqs
    BY DEF Runs
  <2>2. ASSUME NEW r \in LongEnded' PROVE r \in LongEnded
    <3>1. r \in Runs' /\ Ended(r)' /\ r[2] - r[1] + 1 >= MinRun
      BY <2>2 DEF LongEnded
    <3>2. r[2] # n
      BY <1>7, <2>1, <3>1
    <3>3. r \in Runs
      BY <1>5, <2>1, <3>1, <3>2
    <3> QED
      BY <1>6, <3>1, <3>3 DEF LongEnded
  <2>3. ASSUME NEW r \in LongEnded PROVE r \in LongEnded'
    <3>1. r \in Runs /\ Ended(r) /\ r[2] - r[1] + 1 >= MinRun
      BY <2>3 DEF LongEnded
    <3>2. r \in Runs'
      <4>1. r[2] < n /\ r[2] \in Nat
        BY <1>3, <1>5, <2>1, <3>1
      <4> QED
        BY <1>3, <1>5, <2>1, <3>1, <4>1
    <3> QED
      BY <1>6, <3>1, <3>2 DEF LongEnded
  <2> QED
    BY <2>2, <2>3
<1>9. {Report(r)' : r \in LongEnded'} = {Report(r) : r \in LongEnded}
  BY <1>2, <1>8 DEF Report
\* The run remembered is the one that ends with the packet.
<1>10. \E r \in Open' : run' = [start |-> r[1], lost |-> r[2] - r[1] + 1]
  <2>1. ASSUME NEW i \in Seqs, i <= n, \A k \in i..(n - 1) : Lost(k) /\ k \notin cuts,
               Lost(i - 1) => i - 1 \in cuts
        PROVE  <<i, n>> \in Open'
    <3>1. i \in Nat \ {0}
      BY <1>3
    <3>2. \A k \in i..n : Lost(k)'
      <4>1. \A k \in i..n : k # n => k \in i..(n - 1)
        BY <1>3, <3>1
      <4> QED
        BY <1>4, <2>1, <4>1
    <3>3. Lost(i - 1)' => i - 1 \in cuts
      <4>1. i - 1 # n
        BY <1>3, <2>1, <3>1
      <4> QED
        BY <1>4, <2>1, <4>1
    <3>4. RunBetween(i, n)'
      BY <1>2, <2>1, <3>2, <3>3 DEF RunBetween
    <3>5. <<i, n>> \in Runs'
      BY <1>3, <3>4 DEF Runs
    <3>6. ~Ended(<<i, n>>)'
      BY <1>3, <1>7
    <3>7. <<i, n>>[2] = next' - 1
      BY <1>2, <1>3
    <3> QED
      BY <3>5, <3>6, <3>7 DEF Open
  <2>2. CASE Open = {}
    <3>1. run = NoRun /\ (Lost(n - 1) => n - 1 \in cuts)
      BY <1>1, <2>2 DEF RunsInv
    <3>2. \A k \in n..(n - 1) : FALSE
      BY <1>3
    <3>3. <<n, n>> \in Open'
      BY <1>3, <2>1, <3>1, <3>2
    <3>4. run' = [start |-> n, lost |-> n - n + 1]
      BY <1>2, <1>3, <3>1 DEF NoRun
    <3> QED
      BY <3>3, <3>4
  <2>3. CASE Open # {}
    <3>1. PICK r \in Open : run = [start |-> r[1], lost |-> r[2] - r[1] + 1]
      BY <2>3 DEF RunsInv
    <3>2. /\ r \in Runs /\ r[2] = n - 1 /\ n - 1 \notin cuts
      BY <1>1, <3>1 DEF Open, Ended
    <3>3. /\ r[1] \in Seqs /\ r[1] \in Nat \ {0} /\ r[1] <= n - 1
          /\ \A k \in r[1]..(n - 1) : Lost(k)
          /\ Lost(r[1] - 1) => r[1] - 1 \in cuts
          /\ \A k \in r[1]..((n - 1) - 1) : k \notin cuts
      BY <1>3, <3>2, RunsWithin
    <3>4. \A k \in r[1]..(n - 1) : k \notin cuts
      <4>1. \A k \in r[1]..(n - 1) : k = n - 1 \/ k \in r[1]..((n - 1) - 1)
        BY <1>3, <3>3
      <4> QED
        BY <3>2, <3>3, <4>1
    <3>5. <<r[1], n>> \in Open'
      BY <1>3, <2>1, <3>3, <3>4
    <3>6. run' = [start |-> r[1], lost |-> n - r[1] + 1]
      <4>1. run.lost = (n - 1) - r[1] + 1 /\ run.start = r[1]
        BY <3>1, <3>2
      <4>2. run.lost # 0 /\ run.lost + 1 = n - r[1] + 1
        BY <1>3, <3>3, <4>1
      <4> QED
        BY <1>2, <4>1, <4>2
    <3> QED
      BY <3>5, <3>6
  <2> QED
    BY <2>2, <2>3
<1>11. Open' # {}
  BY <1>10
<1> QED
  BY <1>2, <1>8, <1>9, <1>10, <1>11 DEF RunsInv

LEMMA FreezesNext == FreezeInv /\ [Next]_cvars => FreezeInv'
<1> SUFFICES ASSUME FreezeInv, [Next]_cvars PROVE FreezeInv'
  OBVIOUS
<1>1. EchoesInv' /\ (Still \/ FinalizeReceived \/ FinalizeLost \/ WatchdogFires)
  BY EchoesNext DEF FreezeInv
<1> QED
  BY <1>1, StillKeepsRuns, ReceivedKeepsRuns, LostKeepsRuns, WatchdogKeepsRuns DEF FreezeInv

\* The freezes reported are exactly the long enough runs of lost packets, each
\* once and in order, however echoes are delayed, repeated or reordered and
\* whenever the watchdog cuts a run (prober.go:304-365).
THEOREM FreezesAreTheLossRuns == Spec => []FreezesExact
<1>1. FreezeInv => FreezesExact
  <2> SUFFICES ASSUME FreezeInv PROVE FreezesExact
    OBVIOUS
  <2>1. /\ Len(freezes) = Cardinality(LongEnded)
        /\ {Report(r) : r \in LongEnded} = {freezes[i] : i \in DOMAIN freezes}
        /\ \A i \in 1..(Len(freezes) - 1) : freezes[i].start < freezes[i + 1].start
        /\ IF Open = {} THEN run = NoRun
           ELSE \E r \in Open : run = [start |-> r[1], lost |-> r[2] - r[1] + 1]
    BY DEF FreezeInv, RunsInv
  <2>2. LongEnded = {r \in {q \in Runs : Ended(q)} : r[2] - r[1] + 1 >= MinRun}
    BY DEF LongEnded
  <2> QED
    BY <2>1, <2>2, Zenon DEF FreezesExact, Open, Report
<1>2. Init => FreezeInv
  BY EchoesInit, RunsInit DEF FreezeInv
<1> QED
  BY <1>1, <1>2, FreezesNext, PTL DEF Spec

-----------------------------------------------------------------------------
(***************************************************************************)
(* Seconds.                                                                *)
(***************************************************************************)

\* Packets are entered as the clock goes: it is never set back.
BornInv ==
    /\ EchoesInv
    /\ second \in Nat \ {0}
    /\ born \in Seq(Nat \ {0}) /\ Len(born) = lastSeq - 1
    /\ \A i \in DOMAIN born : born[i] <= second
    /\ \A i, j \in DOMAIN born : i <= j => born[i] <= born[j]

Totals == [sec : Nat, sent : Nat, lost : Nat]

\* The packets of a second that have been finalized, and what is to be said of them.
Mine(sec)  == {s \in 1..(next - 1) : born[s] = sec}
Count(sec) == [sec |-> sec, sent |-> Cardinality(Mine(sec)),
               lost |-> Cardinality(Mine(sec) \ echoed)]

\* The second under way is that of the packet finalized last, its slot holds its
\* counts, no slot is of a later one, and every second before it has been emitted.
BucketsInv ==
    /\ activeSec = IF next = 1 THEN NoSec ELSE born[next - 1]
    /\ ring \in [0..(Slots - 1) -> Totals]
    /\ \A i \in 0..(Slots - 1) : ring[i].sec <= activeSec
    /\ next > 1 => ring[activeSec % Slots] = Count(activeSec)
    /\ seconds \in Seq(Totals)
    /\ \A i \in 1..(Len(seconds) - 1) : seconds[i].sec < seconds[i + 1].sec
    /\ {seconds[i].sec : i \in DOMAIN seconds} = {born[s] : s \in 1..(next - 1)} \ {activeSec}
    /\ \A i \in DOMAIN seconds : seconds[i] = Count(seconds[i].sec)

SecondsInv == BornInv /\ BucketsInv

LEMMA SlotIndex ==
    ASSUME NEW sec \in Nat
    PROVE  sec % Slots \in 0..(Slots - 1)
<1>1. Slots \in Nat /\ Slots > 0
  BY ProberAssumption
<1> QED
  BY <1>1, Z3

\* Of what the seconds are made of, a step changes nothing but for packets
\* entered, echoes noted of packets awaited, and a packet finalized.
Untold ==
    /\ UNCHANGED <<next, ring, activeSec, seconds>>
    /\ \A s \in 1..(next - 1) : born'[s] = born[s] /\ (s \in echoed' <=> s \in echoed)

LEMMA BornInit == Init => BornInv
<1> SUFFICES ASSUME Init PROVE BornInv
  OBVIOUS
<1>1. EchoesInv
  BY EchoesInit
<1>2. born = <<>> /\ second = 1 /\ lastSeq = 1
  BY DEF Init
<1>3. born \in Seq(Nat \ {0}) /\ Len(born) = 0 /\ DOMAIN born = {}
  BY <1>2
<1> QED
  BY <1>1, <1>2, <1>3 DEF BornInv

\* A packet is entered in the second under way.
LEMMA BornEntered ==
    ASSUME BornInv, Enter, second' = second, EchoesInv'
    PROVE  /\ BornInv'
           /\ \A s \in 1..(lastSeq - 1) : born'[s] = born[s]
<1>1. /\ born' = Append(born, second) /\ lastSeq' = lastSeq + 1
      /\ second \in Nat \ {0} /\ born \in Seq(Nat \ {0}) /\ Len(born) = lastSeq - 1
      /\ lastSeq \in Nat
  BY DEF Enter, BornInv, EchoesInv, PendingInv
<1>2. /\ born' \in Seq(Nat \ {0}) /\ Len(born') = Len(born) + 1
      /\ DOMAIN born = 1..Len(born) /\ DOMAIN born' = 1..(Len(born) + 1)
      /\ \A i \in 1..Len(born) : born'[i] = born[i]
      /\ born'[Len(born) + 1] = second /\ Len(born) \in Nat
  BY <1>1
<1>3. \A i \in DOMAIN born' : born'[i] <= second
  <2>1. \A i \in DOMAIN born' : i \in DOMAIN born \/ i = Len(born) + 1
    BY <1>2
  <2> QED
    BY <1>1, <1>2, <2>1 DEF BornInv
<1>4. ASSUME NEW i \in DOMAIN born', NEW j \in DOMAIN born', i <= j
      PROVE  born'[i] <= born'[j]
  <2>1. CASE j = Len(born) + 1
    BY <1>2, <1>3, <2>1
  <2>2. CASE j # Len(born) + 1
    <3>1. i \in DOMAIN born /\ j \in DOMAIN born
      BY <1>2, <1>4, <2>2
    <3> QED
      BY <1>2, <1>4, <3>1 DEF BornInv
  <2> QED
    BY <2>1, <2>2
<1> QED
  BY <1>1, <1>2, <1>3, <1>4 DEF BornInv

LEMMA BornNext == BornInv /\ [Next]_cvars =>
    /\ BornInv'
    /\ Untold \/ FinalizeReceived \/ FinalizeLost
<1> SUFFICES ASSUME BornInv, [Next]_cvars
             PROVE  /\ BornInv'
                    /\ Untold \/ FinalizeReceived \/ FinalizeLost
  OBVIOUS
<1>1. EchoesInv' /\ (Still \/ FinalizeReceived \/ FinalizeLost \/ WatchdogFires)
  BY EchoesNext DEF BornInv
<1>2. ASSUME second' = second, UNCHANGED <<born, lastSeq>>
      PROVE  BornInv'
  BY <1>1, <1>2 DEF BornInv
<1>3. next \in Nat /\ next >= 1 /\ lastSeq \in Nat /\ next <= lastSeq
  BY DEF BornInv, EchoesInv, PendingInv
<1>4. CASE Send \/ SendFails \/ LeftoverSends
  <2>1. /\ second' = second /\ UNCHANGED <<next, ring, activeSec, seconds>>
        /\ echoed' = echoed
    BY <1>4 DEF Send, SendFails, LeftoverSends, LoopKeeps
  <2>2. CASE Enter
    <3>1. BornInv' /\ \A s \in 1..(lastSeq - 1) : born'[s] = born[s]
      BY <1>1, <2>1, <2>2, BornEntered
    <3>2. 1..(next - 1) \subseteq 1..(lastSeq - 1)
      BY <1>3
    <3> QED
      BY <2>1, <3>1, <3>2 DEF Untold
  <2>3. CASE ~Enter
    <3>1. UNCHANGED <<born, lastSeq>>
      BY <1>4, <2>3 DEF Send, SendFails, LeftoverSends
    <3> QED
      BY <1>2, <2>1, <3>1 DEF Untold
  <2> QED
    BY <2>2, <2>3
<1>5. CASE FinalizeReceived \/ FinalizeLost
  <2>1. second' = second /\ UNCHANGED <<born, lastSeq>>
    BY <1>5 DEF FinalizeReceived, FinalizeLost, Advance, SweepKeeps, worldVars
  <2> QED
    BY <1>2, <1>5, <2>1
<1>6. CASE Tick
  <2>1. /\ UNCHANGED <<born, lastSeq, echoed, next, ring, activeSec, seconds>>
        /\ second' \in {second, second + 1}
    BY <1>6 DEF Tick
  <2>2. second' \in Nat \ {0} /\ second <= second'
    BY <2>1 DEF BornInv
  <2>3. \A i \in DOMAIN born : born[i] \in Nat /\ born[i] <= second /\ second \in Nat
    BY DEF BornInv
  <2>4. \A i \in DOMAIN born : born[i] <= second'
    BY <2>2, <2>3
  <2>5. BornInv'
    BY <1>1, <2>1, <2>2, <2>4 DEF BornInv
  <2> QED
    BY <2>1, <2>5 DEF Untold
<1>7. CASE Handshake \/ HandshakeFails \/ Restart \/ RecvFails
  <2>1. second' = second /\ UNCHANGED <<born, lastSeq, echoed, next, ring, activeSec, seconds>>
    BY <1>7 DEF Handshake, HandshakeFails, Restart, RecvFails, StreamKeeps
  <2> QED
    BY <1>2, <2>1 DEF Untold
<1>8. CASE Sweep \/ FinalizeDone \/ Watchdog
  <2>1. second' = second /\ UNCHANGED <<born, lastSeq, echoed, next, ring, activeSec, seconds>>
    BY <1>8 DEF Sweep, FinalizeDone, Watchdog, WatchdogPasses, WatchdogFires, SweepKeeps,
                WatchdogKeeps, worldVars
  <2> QED
    BY <1>2, <2>1 DEF Untold
<1>9. CASE Boot \/ Flip \/ UNCHANGED cvars
  <2>1. second' = second /\ UNCHANGED <<born, lastSeq, echoed, next, ring, activeSec, seconds>>
    BY <1>9 DEF Boot, Flip, cvars, proberVars, worldVars
  <2> QED
    BY <1>2, <2>1 DEF Untold
<1>10. CASE \E s \in wire, again \in BOOLEAN : Receive(s, again)
  <2>1. second' = second /\ UNCHANGED <<born, lastSeq, next, ring, activeSec, seconds>>
    BY <1>10 DEF Receive, LoopKeeps
  <2>2. DOMAIN sent = next..(lastSeq - 1)
    BY DEF BornInv, EchoesInv, PendingInv, PendingInOrder
  <2>3. \A s \in 1..(next - 1) : s \in echoed' <=> s \in echoed
    <3>1. PICK s : echoed' = IF s \in DOMAIN sent THEN echoed \union {s} ELSE echoed
      BY <1>10 DEF Receive
    <3> QED
      BY <1>3, <2>2, <3>1
  <2> QED
    BY <1>2, <2>1, <2>3 DEF Untold
<1> QED
  BY <1>4, <1>5, <1>6, <1>7, <1>8, <1>9, <1>10 DEF Next, Finalize

LEMMA BucketsInit == Init => BucketsInv
<1> SUFFICES ASSUME Init PROVE BucketsInv
  OBVIOUS
<1>1. next = 1 /\ seconds = <<>> /\ activeSec = 0 /\ ring = [i \in 0..(Slots - 1) |-> EmptySlot]
  BY DEF Init, NoSec
<1>2. EmptySlot \in Totals /\ EmptySlot.sec = 0
  BY DEF EmptySlot, Totals, NoSec
<1>3. ring \in [0..(Slots - 1) -> Totals] /\ \A i \in 0..(Slots - 1) : ring[i].sec = 0
  BY <1>1, <1>2
<1>4. seconds \in Seq(Totals) /\ DOMAIN seconds = {} /\ Len(seconds) = 0
  BY <1>1
<1>5. 1..(next - 1) = {}
  BY <1>1
<1>6. {seconds[i].sec : i \in DOMAIN seconds} = {} /\ {born[s] : s \in 1..(next - 1)} \ {activeSec} = {}
  BY <1>4, <1>5
<1> QED
  BY <1>1, <1>3, <1>4, <1>6 DEF BucketsInv, NoSec

LEMMA UntoldKeepsBuckets ==
    ASSUME BornInv, BucketsInv, Untold PROVE BucketsInv'
<1>1. next' = next /\ ring' = ring /\ activeSec' = activeSec /\ seconds' = seconds
  BY DEF Untold
<1>2. \A sec : Mine(sec)' = Mine(sec) /\ (Mine(sec) \ echoed)' = Mine(sec) \ echoed
  BY <1>1 DEF Mine, Untold
<1>3. \A sec : Count(sec)' = Count(sec)
  BY <1>2 DEF Count
<1>4. {born'[s] : s \in 1..(next - 1)} = {born[s] : s \in 1..(next - 1)}
  BY DEF Untold
<1>5. activeSec' = IF next' = 1 THEN NoSec ELSE born'[next' - 1]
  <2>1. next \in Nat /\ next >= 1
    BY DEF BornInv, EchoesInv, PendingInv
  <2>2. next # 1 => next - 1 \in 1..(next - 1)
    BY <2>1
  <2> QED
    BY <1>1, <2>2 DEF BucketsInv, Untold
<1>6. next > 1 => ring'[activeSec' % Slots] = Count(activeSec)'
  BY <1>1, <1>2 DEF Count, BucketsInv
<1>7. \A i \in DOMAIN seconds : seconds'[i] = Count(seconds[i].sec)'
  BY <1>1, <1>2 DEF Count, BucketsInv
<1>8. {seconds'[i].sec : i \in DOMAIN seconds'} = {born'[s] : s \in 1..(next' - 1)} \ {activeSec'}
  <2>1. {seconds[i].sec : i \in DOMAIN seconds} = {born[s] : s \in 1..(next - 1)} \ {activeSec}
    BY DEF BucketsInv
  <2> QED
    BY <1>1, <1>4, <2>1
<1>9. \A i \in DOMAIN seconds' : seconds'[i] = Count(seconds[i].sec)'
  BY <1>1, <1>7
<1>10. /\ ring' \in [0..(Slots - 1) -> Totals]
       /\ \A i \in 0..(Slots - 1) : ring'[i].sec <= activeSec'
       /\ seconds' \in Seq(Totals)
       /\ \A i \in 1..(Len(seconds') - 1) : seconds'[i].sec < seconds'[i + 1].sec
  BY <1>1 DEF BucketsInv
<1>11. next' > 1 => ring'[activeSec' % Slots] = Count(activeSec)'
  BY <1>1, <1>6
<1> QED
  BY <1>5, <1>8, <1>9, <1>10, <1>11 DEF BucketsInv

LEMMA MineFinite ==
    ASSUME BornInv, NEW sec
    PROVE  /\ IsFiniteSet(Mine(sec)) /\ IsFiniteSet(Mine(sec) \ echoed)
           /\ Cardinality(Mine(sec)) \in Nat /\ Cardinality(Mine(sec) \ echoed) \in Nat
<1>1. next \in Nat
  BY DEF BornInv, EchoesInv, PendingInv
<1>2. IsFiniteSet(1..(next - 1))
  BY <1>1, FS_Interval
<1>3. Mine(sec) \subseteq 1..(next - 1)
  BY DEF Mine
<1>4. IsFiniteSet(Mine(sec)) /\ IsFiniteSet(Mine(sec) \ echoed)
  BY <1>2, <1>3, FS_Subset
<1> QED
  BY <1>4, FS_CardinalityType

\* bucketFor and the counts (prober.go:329-341, 367-398): the packet is counted
\* in its second, and a second that is over is emitted with all of its packets.
LEMMA BucketFinalized ==
    ASSUME BornInv, BucketsInv,
           NEW n, n = next, n < lastSeq, NEW sec, sec = born[n],
           NEW lost \in {0, 1}, lost = 0 <=> n \in echoed,
           Account(sec, lost), next' = n + 1, born' = born, echoed' = echoed
    PROVE  BucketsInv'
<1>1. /\ n \in Nat /\ n >= 1 /\ sec \in Nat \ {0}
      /\ \A s \in 1..n : born[s] \in Nat \ {0} /\ born[s] <= sec
  <2>1. n \in Nat /\ n >= 1 /\ lastSeq \in Nat /\ born \in Seq(Nat \ {0}) /\ Len(born) = lastSeq - 1
    BY DEF BornInv, EchoesInv, PendingInv
  <2>2. DOMAIN born = 1..(lastSeq - 1) /\ 1..n \subseteq DOMAIN born /\ n \in DOMAIN born
    BY <2>1
  <2>3. \A s \in 1..n : born[s] \in Nat \ {0}
    BY <2>1, <2>2
  <2>4. \A s \in 1..n : s <= n /\ s \in DOMAIN born
    BY <2>1, <2>2
  <2>5. \A s \in 1..n : born[s] <= born[n]
    BY <2>2, <2>4 DEF BornInv
  <2>6. born[n] \in Nat \ {0}
    BY <2>1, <2>3
  <2> QED
    BY <2>1, <2>3, <2>5, <2>6
<1>2. PICK a : a = activeSec
  OBVIOUS
<1>3. /\ a \in Nat /\ a <= sec
      /\ n = 1 => a = 0
      /\ n > 1 => a = born[n - 1] /\ a # 0 /\ \A s \in 1..(n - 1) : born[s] <= a
  <2>1. CASE n = 1
    BY <1>1, <1>2, <2>1 DEF BucketsInv, NoSec
  <2>2. CASE n # 1
    <3>1. n - 1 \in 1..n /\ a = born[n - 1]
      BY <1>1, <1>2, <2>2 DEF BucketsInv
    <3>2. \A s \in 1..(n - 1) : s \in DOMAIN born /\ n - 1 \in DOMAIN born /\ s <= n - 1
      BY <1>1, <2>2 DEF BornInv, EchoesInv, PendingInv
    <3>3. \A s \in 1..(n - 1) : born[s] <= born[n - 1]
      BY <3>2 DEF BornInv
    <3> QED
      BY <1>1, <2>2, <3>1, <3>3
  <2> QED
    BY <2>1, <2>2
\* The counts of the packets' seconds.
<1>4. /\ Mine(sec)' = Mine(sec) \union {n} /\ n \notin Mine(sec)
      /\ \A c : c # sec => Mine(c)' = Mine(c)
  <2>1. 1..((n + 1) - 1) = 1..(n - 1) \union {n} /\ n \notin 1..(n - 1)
    BY <1>1
  <2>2. \A c : Mine(c)' = {s \in 1..((n + 1) - 1) : born[s] = c}
    BY DEF Mine
  <2>3. \A c : Mine(c) = {s \in 1..(n - 1) : born[s] = c}
    BY DEF Mine
  <2> QED
    BY <2>1, <2>2, <2>3
<1>5. PICK sentBefore \in Nat, lostBefore \in Nat :
         sentBefore = Cardinality(Mine(sec)) /\ lostBefore = Cardinality(Mine(sec) \ echoed)
  BY MineFinite
<1>6. Count(sec)' = [sec |-> sec, sent |-> sentBefore + 1, lost |-> lostBefore + lost]
  <2>1. Cardinality(Mine(sec) \union {n}) = sentBefore + 1
    BY <1>4, <1>5, MineFinite, FS_AddElement
  <2>2. Cardinality((Mine(sec) \union {n}) \ echoed) = lostBefore + lost
    <3>1. CASE n \in echoed
      <4>1. (Mine(sec) \union {n}) \ echoed = Mine(sec) \ echoed /\ lost = 0
        BY <3>1
      <4> QED
        BY <1>5, <4>1
    <3>2. CASE n \notin echoed
      <4>1. (Mine(sec) \union {n}) \ echoed = (Mine(sec) \ echoed) \union {n} /\ lost = 1
        BY <3>2
      <4>2. Cardinality((Mine(sec) \ echoed) \union {n}) = lostBefore + 1
        BY <1>4, <1>5, MineFinite, FS_AddElement
      <4> QED
        BY <4>1, <4>2
    <3> QED
      BY <3>1, <3>2
  <2>3. Count(sec)' = [sec |-> sec, sent |-> Cardinality(Mine(sec)'),
                       lost |-> Cardinality(Mine(sec)' \ echoed)]
    BY DEF Count
  <2> QED
    BY <1>4, <2>1, <2>2, <2>3
<1>7. \A c : c # sec => Count(c)' = Count(c)
  BY <1>4 DEF Count
\* The ring.
<1>8. PICK i \in 0..(Slots - 1), k \in 0..(Slots - 1) : i = sec % Slots /\ k = a % Slots
  BY <1>1, <1>3, SlotIndex
<1>9. PICK slot : slot = IF ring[i].sec = sec THEN ring[i] ELSE EmptySlot
  OBVIOUS
<1>10. slot.sent = sentBefore /\ slot.lost = lostBefore
  <2>1. CASE n > 1 /\ a = sec
    <3>1. ring[i] = Count(sec)
      BY <1>2, <1>8, <2>1 DEF BucketsInv
    <3> QED
      BY <1>5, <1>9, <3>1 DEF Count
  <2>2. CASE ~(n > 1 /\ a = sec)
    <3>1. a < sec
      BY <1>1, <1>3, <2>2
    <3>2. ring[i].sec # sec
      <4>1. ring[i].sec \in Nat /\ ring[i].sec <= a
        BY <1>2, <1>8 DEF BucketsInv, Totals
      <4> QED
        BY <1>1, <1>3, <3>1, <4>1
    <3>3. Mine(sec) = {}
      <4>1. ASSUME NEW s \in 1..(n - 1) PROVE born[s] # sec
        <5>1. n > 1 /\ s \in 1..n
          BY <1>1, <4>1
        <5> QED
          BY <1>1, <1>3, <3>1, <4>1, <5>1
      <4> QED
        BY <4>1 DEF Mine
    <3>4. sentBefore = 0 /\ lostBefore = 0
      <4>1. Mine(sec) \ echoed = {}
        BY <3>3
      <4> QED
        BY <1>5, <3>3, <4>1, FS_EmptySet
    <3> QED
      BY <1>9, <3>2, <3>4 DEF EmptySlot
  <2> QED
    BY <2>1, <2>2
<1>11. ring' = [ring EXCEPT ![i] = Count(sec)'] /\ activeSec' = sec
  <2>1. ring' = [ring EXCEPT ![i] = [sec |-> sec, sent |-> slot.sent + 1, lost |-> slot.lost + lost]]
    BY <1>8, <1>9 DEF Account, Accounted, Slot
  <2> QED
    BY <1>6, <1>10, <2>1 DEF Account
<1>12. Count(sec)' \in Totals
  BY <1>1, <1>5, <1>6 DEF Totals
<1>13. /\ ring' \in [0..(Slots - 1) -> Totals]
       /\ ring'[i] = Count(sec)'
       /\ \A j \in 0..(Slots - 1) : ring'[j].sec <= sec
  <2>1. ring \in [0..(Slots - 1) -> Totals] /\ \A j \in 0..(Slots - 1) : ring[j].sec <= a
    BY <1>2 DEF BucketsInv
  <2>2. \A j \in 0..(Slots - 1) : ring[j].sec \in Nat
    BY <2>1 DEF Totals
  <2>3. /\ ring' \in [0..(Slots - 1) -> Totals]
        /\ \A j \in 0..(Slots - 1) : ring'[j] = IF j = i THEN Count(sec)' ELSE ring[j]
    <3>1. PICK new \in Totals : new = Count(sec)'
      BY <1>12
    <3> QED
      BY <1>11, <2>1, <3>1
  <2>4. (Count(sec)').sec = sec
    BY <1>6
  <2> QED
    BY <1>1, <1>3, <2>1, <2>2, <2>3, <2>4
\* The seconds emitted.
<1>14. /\ seconds \in Seq(Totals) /\ Len(seconds) \in Nat /\ DOMAIN seconds = 1..Len(seconds)
       /\ \A j \in 1..(Len(seconds) - 1) : seconds[j].sec < seconds[j + 1].sec
       /\ {seconds[j].sec : j \in DOMAIN seconds} = {born[s] : s \in 1..(n - 1)} \ {a}
       /\ \A j \in DOMAIN seconds : seconds[j] = Count(seconds[j].sec)
  <2>1. seconds \in Seq(Totals)
    BY DEF BucketsInv
  <2>2. Len(seconds) \in Nat /\ DOMAIN seconds = 1..Len(seconds)
    BY <2>1
  <2> QED
    BY <1>2, <2>1, <2>2 DEF BucketsInv
<1>15. \A j \in DOMAIN seconds : seconds[j].sec < a /\ seconds[j].sec # sec
  <2>1. ASSUME NEW j \in DOMAIN seconds
        PROVE  seconds[j].sec < a /\ seconds[j].sec # sec
    <3>0. seconds[j].sec \in {born[s] : s \in 1..(n - 1)} /\ seconds[j].sec # a
      <4>1. seconds[j].sec \in {seconds[i1].sec : i1 \in DOMAIN seconds}
        BY <2>1
      <4> QED
        BY <1>14, <4>1
    <3>1. PICK s \in 1..(n - 1) : seconds[j].sec = born[s] /\ born[s] # a
      BY <3>0
    <3>2. n > 1 /\ s \in 1..n
      BY <1>1
    <3> QED
      BY <1>1, <1>3, <3>1, <3>2
  <2> QED
    BY <2>1
<1>16. {born[s] : s \in 1..((n + 1) - 1)} = {born[s] : s \in 1..(n - 1)} \union {sec}
  <2>1. 1..((n + 1) - 1) = 1..(n - 1) \union {n}
    BY <1>1
  <2> QED
    BY <2>1
<1>17. /\ seconds' \in Seq(Totals)
       /\ \A j \in 1..(Len(seconds') - 1) : seconds'[j].sec < seconds'[j + 1].sec
       /\ {seconds'[j].sec : j \in DOMAIN seconds'} = {born[s] : s \in 1..((n + 1) - 1)} \ {sec}
       /\ \A j \in DOMAIN seconds' : seconds'[j] = Count(seconds[j].sec)'
  <2>1. CASE a = NoSec \/ a = sec
    <3>1. seconds' = seconds
      BY <1>2, <2>1 DEF Account
    <3>2. {born[s] : s \in 1..(n - 1)} \ {a} = {born[s] : s \in 1..((n + 1) - 1)} \ {sec}
      <4>1. CASE a = sec
        BY <1>16, <4>1
      <4>2. CASE a # sec
        <5>1. n = 1
          BY <1>1, <1>3, <2>1, <4>2 DEF NoSec
        <5>2. 1..(n - 1) = {}
          BY <5>1
        <5> QED
          BY <1>16, <5>2
      <4> QED
        BY <4>1, <4>2
    <3>3. \A j \in DOMAIN seconds : Count(seconds[j].sec)' = Count(seconds[j].sec)
      <4>1. \A j \in DOMAIN seconds : seconds'[j].sec = seconds[j].sec
        BY <3>1
      <4> QED
        BY <1>7, <1>15, <3>1, <4>1
    <3>4. seconds' \in Seq(Totals) /\ DOMAIN seconds' = DOMAIN seconds
      BY <1>14, <3>1
    <3>5. \A j \in 1..(Len(seconds') - 1) : seconds'[j].sec < seconds'[j + 1].sec
      BY <1>14, <3>1
    <3>6. {seconds'[j].sec : j \in DOMAIN seconds'} = {born[s] : s \in 1..((n + 1) - 1)} \ {sec}
      BY <1>14, <3>1, <3>2
    <3>7. \A j \in DOMAIN seconds' : seconds'[j] = Count(seconds[j].sec)'
      BY <1>14, <3>1, <3>3
    <3> QED
      BY <3>4, <3>5, <3>6, <3>7
  <2>2. CASE ~(a = NoSec \/ a = sec)
    <3>1. n > 1 /\ a < sec
      BY <1>1, <1>3, <2>2 DEF NoSec
    <3> DEFINE new == Count(a)
    <3>2. ring[k] = new
      BY <1>2, <1>8, <3>1 DEF BucketsInv
    <3>3. new \in Totals /\ new.sec = a
      BY <1>3, MineFinite DEF Count, Totals
    <3>4. new = Count(a)'
      <4>1. a # sec
        BY <2>2
      <4> QED
        BY <1>7, <4>1
    <3>5. seconds' = Append(seconds, new)
      <4>1. [ring[k] EXCEPT !.sec = a] = new
        BY <3>2 DEF Count
      <4> QED
        BY <1>2, <1>8, <2>2, <4>1 DEF Account, Slot
    <3> HIDE DEF new
    <3>6. /\ seconds' \in Seq(Totals) /\ Len(seconds') = Len(seconds) + 1
          /\ DOMAIN seconds' = DOMAIN seconds \union {Len(seconds) + 1}
          /\ seconds'[Len(seconds) + 1] = new
          /\ \A j \in DOMAIN seconds : seconds'[j] = seconds[j]
      BY <1>14, <3>3, <3>5
    <3>7. ASSUME NEW j \in 1..(Len(seconds') - 1) PROVE seconds'[j].sec < seconds'[j + 1].sec
      <4>1. j \in DOMAIN seconds /\ seconds'[j] = seconds[j]
        BY <1>14, <3>6
      <4>2. CASE j = Len(seconds)
        BY <1>15, <3>3, <3>6, <4>1, <4>2
      <4>3. CASE j # Len(seconds)
        <5>1. j \in 1..(Len(seconds) - 1) /\ j + 1 \in DOMAIN seconds
          <6>1. PICK len \in Nat : len = Len(seconds) /\ DOMAIN seconds = 1..len
            BY <1>14
          <6>2. j \in 1..len /\ j # len
            BY <4>1, <4>3, <6>1
          <6>3. j \in 1..(len - 1) /\ j + 1 \in 1..len
            BY <6>2
          <6> QED
            BY <6>1, <6>3
        <5> QED
          BY <1>14, <3>6, <4>1, <5>1
      <4> QED
        BY <4>2, <4>3
    <3>8. {seconds'[j].sec : j \in DOMAIN seconds'} = {born[s] : s \in 1..((n + 1) - 1)} \ {sec}
      <4>1. {seconds'[j].sec : j \in DOMAIN seconds'}
              = {seconds[j].sec : j \in DOMAIN seconds} \union {a}
        BY <3>3, <3>6
      <4>2. a \in {born[s] : s \in 1..(n - 1)}
        <5>1. n - 1 \in 1..(n - 1)
          BY <1>1, <3>1
        <5> QED
          BY <1>3, <3>1, <5>1
      <4>3. sec \notin {born[s] : s \in 1..(n - 1)}
        <5>1. ASSUME NEW s \in 1..(n - 1) PROVE born[s] # sec
          <6>1. s \in 1..n
            BY <1>1
          <6> QED
            BY <1>1, <1>3, <3>1, <6>1
        <5> QED
          BY <5>1
      <4>4. PICK before, emitted :
               /\ before = {born[s] : s \in 1..(n - 1)}
               /\ emitted = {seconds[j].sec : j \in DOMAIN seconds}
        OBVIOUS
      <4>5. emitted = before \ {a} /\ a \in before /\ sec \notin before
        BY <1>14, <4>2, <4>3, <4>4
      <4>6. emitted \union {a} = (before \union {sec}) \ {sec}
        BY <4>5
      <4> QED
        BY <1>16, <4>1, <4>4, <4>6
    <3>9. ASSUME NEW j \in DOMAIN seconds' PROVE seconds'[j] = Count(seconds[j].sec)'
      <4>1. PICK c : c = seconds'[j].sec
        OBVIOUS
      <4>2. seconds'[j] = Count(c)'
        <5>1. CASE j \in DOMAIN seconds
          BY <1>7, <1>14, <1>15, <3>6, <4>1, <5>1
        <5>2. CASE j \notin DOMAIN seconds
          <6>1. seconds'[j] = new /\ c = a
            BY <3>3, <3>6, <4>1, <5>2
          <6> QED
            BY <3>4, <6>1
        <5> QED
          BY <5>1, <5>2
      <4> QED
        BY <4>1, <4>2 DEF Count, Mine
    <3> QED
      BY <3>6, <3>7, <3>8, <3>9
  <2> QED
    BY <2>1, <2>2
<1>18. activeSec' = IF next' = 1 THEN NoSec ELSE born'[next' - 1]
  <2>1. next' # 1 /\ next' - 1 = n
    BY <1>1
  <2> QED
    BY <1>11, <2>1
<1>19. ring'[activeSec' % Slots] = Count(activeSec)'
  BY <1>8, <1>11, <1>13 DEF Count, Mine
<1>20. {seconds'[j].sec : j \in DOMAIN seconds'} = {born'[s] : s \in 1..(next' - 1)} \ {activeSec'}
  BY <1>11, <1>17
<1>21. \A j \in 0..(Slots - 1) : ring'[j].sec <= activeSec'
  BY <1>11, <1>13
<1> QED
  BY <1>13, <1>17, <1>18, <1>19, <1>20, <1>21 DEF BucketsInv

LEMMA SecondsNext == SecondsInv /\ [Next]_cvars => SecondsInv'
<1> SUFFICES ASSUME SecondsInv, [Next]_cvars PROVE SecondsInv'
  OBVIOUS
<1>1. BornInv /\ BucketsInv /\ BornInv' /\ (Untold \/ FinalizeReceived \/ FinalizeLost)
  BY BornNext DEF SecondsInv
<1>2. /\ received = echoed \cap DOMAIN sent
      /\ DOMAIN sent = next..(lastSeq - 1)
      /\ next \in Nat /\ lastSeq \in Nat
  BY <1>1 DEF BornInv, EchoesInv, PendingInv, PendingInOrder
<1>3. PICK n, sec : n = next /\ sec = born[n]
  OBVIOUS
<1>4. CASE FinalizeReceived \/ FinalizeLost
  <2>1. PICK lost \in {0, 1} : Account(sec, lost) /\ (lost = 0 <=> n \in received)
    <3>1. CASE FinalizeReceived
      BY <1>3, <3>1 DEF FinalizeReceived
    <3>2. CASE FinalizeLost
      BY <1>3, <3>2 DEF FinalizeLost
    <3> QED
      BY <1>4, <3>1, <3>2
  <2>2. n < lastSeq /\ next' = n + 1 /\ born' = born /\ echoed' = echoed
    BY <1>3, <1>4 DEF FinalizeReceived, FinalizeLost, Advance, SweepKeeps, worldVars
  <2>3. n \in DOMAIN sent
    BY <1>2, <1>3, <2>2
  <2>4. lost = 0 <=> n \in echoed
    BY <1>2, <2>1, <2>3
  <2> QED
    BY <1>1, <1>3, <2>1, <2>2, <2>4, BucketFinalized DEF SecondsInv
<1> QED
  BY <1>1, <1>4, UntoldKeepsBuckets DEF SecondsInv

\* A second before the one under way has no packet left to finalize.
LEMMA SecondIsOver ==
    ASSUME SecondsInv, NEW sec, sec # activeSec, NEW s \in 1..(next - 1), born[s] = sec
    PROVE  /\ next > 1 /\ next - 1 \in 1..(next - 1) /\ born[next - 1] > sec
           /\ {p \in DOMAIN born : born[p] = sec} = Mine(sec)
<1>1. /\ next \in Nat /\ lastSeq \in Nat /\ next <= lastSeq
      /\ born \in Seq(Nat \ {0}) /\ Len(born) = lastSeq - 1
  BY DEF SecondsInv, BornInv, EchoesInv, PendingInv
<1>2. next > 1 /\ next - 1 \in 1..(next - 1) /\ s <= next - 1
  BY <1>1
<1>3. DOMAIN born = 1..(lastSeq - 1) /\ 1..(next - 1) \subseteq DOMAIN born
  BY <1>1
<1>4. \A p \in DOMAIN born : born[p] \in Nat
  BY <1>1
<1>5. \A i, j \in DOMAIN born : i <= j => born[i] <= born[j]
  BY DEF SecondsInv, BornInv
<1>6. activeSec = born[next - 1]
  BY <1>2 DEF SecondsInv, BucketsInv
<1>7. born[next - 1] > sec
  <2>1. s \in DOMAIN born /\ next - 1 \in DOMAIN born
    BY <1>2, <1>3
  <2>2. born[s] <= born[next - 1] /\ born[s] \in Nat /\ born[next - 1] \in Nat
    BY <1>2, <1>4, <1>5, <2>1
  <2> QED
    BY <1>6, <2>2
<1>8. ASSUME NEW p \in DOMAIN born, born[p] = sec PROVE p \in 1..(next - 1)
  <2>1. SUFFICES ASSUME p > next - 1 PROVE FALSE
    BY <1>1, <1>3
  <2>2. next - 1 \in DOMAIN born /\ next - 1 <= p
    BY <1>1, <1>2, <1>3, <2>1
  <2>3. born[next - 1] <= born[p] /\ born[next - 1] \in Nat /\ born[p] \in Nat
    BY <1>4, <1>5, <2>2
  <2> QED
    BY <1>7, <1>8, <2>3
<1> QED
  BY <1>2, <1>3, <1>7, <1>8 DEF Mine

\* Every second reported is reported once, in order, when it is over, and with
\* all of its packets and all of its losses, whatever the ring held in its slot
\* before (bucketFor, prober.go:367-398).
THEOREM SecondsAreWhole == Spec => []SecondsExact
<1>1. SecondsInv => SecondsExact
  <2> SUFFICES ASSUME SecondsInv PROVE SecondsExact
    OBVIOUS
  <2>1. /\ \A i \in 1..(Len(seconds) - 1) : seconds[i].sec < seconds[i + 1].sec
        /\ {seconds[i].sec : i \in DOMAIN seconds} = {born[s] : s \in 1..(next - 1)} \ {activeSec}
        /\ \A i \in DOMAIN seconds : seconds[i] = Count(seconds[i].sec)
    BY DEF SecondsInv, BucketsInv
  <2>2. /\ next \in Nat /\ lastSeq \in Nat /\ next <= lastSeq
        /\ born \in Seq(Nat \ {0}) /\ DOMAIN born = 1..(lastSeq - 1)
        /\ \A s \in DOMAIN born : born[s] \in Nat
        /\ \A i, j \in DOMAIN born : i <= j => born[i] <= born[j]
    <3>1. born \in Seq(Nat \ {0}) /\ Len(born) = lastSeq - 1
      BY DEF SecondsInv, BornInv
    <3>2. \A s \in DOMAIN born : born[s] \in Nat
      BY <3>1
    <3>3. next \in Nat /\ lastSeq \in Nat /\ next <= lastSeq
      BY DEF SecondsInv, BornInv, EchoesInv, PendingInv
    <3>4. DOMAIN born = 1..(lastSeq - 1)
      BY <3>1
    <3>5. \A i, j \in DOMAIN born : i <= j => born[i] <= born[j]
      BY DEF SecondsInv, BornInv
    <3> QED
      BY <3>1, <3>2, <3>3, <3>4, <3>5
  <2>3. ASSUME NEW sec \in 1..MaxSeconds, NEW i \in DOMAIN seconds, seconds[i].sec = sec
        PROVE  /\ {s \in DOMAIN born : born[s] = sec} # {}
               /\ \E s \in 1..(next - 1) : born[s] > sec
    <3>1. sec \in {seconds[j].sec : j \in DOMAIN seconds}
      BY <2>3
    <3>2. PICK s \in 1..(next - 1) : born[s] = sec /\ sec # activeSec
      <4>1. sec \in {born[q] : q \in 1..(next - 1)} \ {activeSec}
        BY <2>1, <3>1
      <4> QED
        BY <4>1
    <3>3. s \in DOMAIN born
      BY <2>2
    <3> QED
      BY <3>2, <3>3, SecondIsOver
  <2>4. ASSUME NEW sec \in 1..MaxSeconds, NEW p \in DOMAIN born, born[p] = sec,
               NEW s \in 1..(next - 1), born[s] > sec
        PROVE  \E i \in DOMAIN seconds : seconds[i].sec = sec
    <3>1. s \in DOMAIN born /\ next - 1 \in DOMAIN born /\ s <= next - 1 /\ next # 1
      BY <2>2
    <3>2. ~(s <= p)
      <4>1. SUFFICES ASSUME s <= p PROVE FALSE
        OBVIOUS
      <4>2. born[s] <= born[p] /\ born[s] \in Nat /\ born[p] \in Nat
        BY <2>2, <3>1, <4>1
      <4> QED
        BY <2>4, <4>2
    <3>3. p \in 1..(next - 1)
      BY <2>2, <3>1, <3>2
    <3>4. activeSec = born[next - 1]
      BY <3>1 DEF SecondsInv, BucketsInv
    <3>5. born[s] <= born[next - 1] /\ born[s] \in Nat /\ born[next - 1] \in Nat
      BY <2>2, <3>1
    <3>6. sec # activeSec
      BY <2>4, <3>4, <3>5
    <3>7. sec \in {born[q] : q \in 1..(next - 1)} \ {activeSec}
      BY <2>4, <3>3, <3>6
    <3>8. sec \in {seconds[i].sec : i \in DOMAIN seconds}
      BY <2>1, <3>7
    <3> QED
      BY <3>8
  <2>5. ASSUME NEW i \in DOMAIN seconds, NEW mine,
               mine = {s \in DOMAIN born : born[s] = seconds[i].sec}
        PROVE  /\ \A s \in mine : s < next
               /\ seconds[i].sent = Cardinality(mine)
               /\ seconds[i].lost = Cardinality(mine \ echoed)
    <3>1. PICK sec : sec = seconds[i].sec
      OBVIOUS
    <3>2. sec \in {seconds[j].sec : j \in DOMAIN seconds}
      BY <3>1
    <3>3. PICK s \in 1..(next - 1) : born[s] = sec /\ sec # activeSec
      <4>1. sec \in {born[q] : q \in 1..(next - 1)} \ {activeSec}
        BY <2>1, <3>2
      <4> QED
        BY <4>1
    <3>4. mine = Mine(sec)
      BY <2>5, <3>1, <3>3, SecondIsOver
    <3>5. \A q \in Mine(sec) : q < next
      BY <2>2 DEF Mine
    <3>6. seconds[i] = Count(sec)
      BY <2>1, <3>1
    <3> QED
      BY <3>4, <3>5, <3>6 DEF Count
  <2> QED
    BY <2>1, <2>3, <2>4, <2>5 DEF SecondsExact
<1>2. Init => SecondsInv
  BY BornInit, BucketsInit DEF SecondsInv
<1> QED
  BY <1>1, <1>2, SecondsNext, PTL DEF Spec
=============================================================================
