------------------------------- MODULE Prober -------------------------------
(***************************************************************************)
(* The call prober (internal/callprobe/prober.go) of one reflector: probes *)
(* sent at a fixed rate, echoes that come back late, twice, in any order   *)
(* or never, their finalization in the order of the sequence numbers into  *)
(* freezes and seconds, the watchdog, and restarts under the supervisor.   *)
(* Of the reflector (reflector_server.go) only its key is modelled: a      *)
(* token is worth something until the reflector boots again.               *)
(*                                                                         *)
(* Time is relative: a tick ages the packets in flight and the silence,    *)
(* both saturated once they have passed their limit.                       *)
(***************************************************************************)
EXTENDS Integers, Sequences, FiniteSets

CONSTANTS Timeout,     \* ticks after which a packet is given up
          Silence,     \* watchdogSilence in ticks
          MinRun,      \* minFreezeRun
          Slots,       \* statsWindow
          MaxSends,    \* bound: packets sent, far below the wrap of lastSeq
          MaxSeconds,  \* bound: seconds of the wall clock
          MaxFaults,   \* bound: socket errors
          MaxRepeats,  \* bound: echoes that arrive once more
          MaxBoots,    \* bound: boots of the reflector
          MaxFlips     \* bound: changes of the network

ASSUME ProberAssumption ==
    /\ {Timeout, MinRun, Slots, MaxSends, MaxSeconds, MaxBoots} \subseteq Nat \ {0}
    /\ {Silence, MaxFaults, MaxRepeats, MaxFlips} \subseteq Nat
    /\ Silence > Timeout

VARIABLES pc,        \* Run: in its select, in finalize, ...
          sent,      \* p.sent: the age of each packet awaiting finalization
          received,  \* the keys of p.rtts
          next,      \* p.next
          lastSeq,   \* p.lastSeq
          run,       \* p.runLost and p.runStartNs
          ring,      \* p.window and p.curSecond
          activeSec, \* p.activeSec
          silence,   \* ticks since the last echo, or since Run started probing
          token,     \* the boot of the reflector p.token comes from
          leftover,  \* the sendLoop of the Run before has not noticed its end
          freezes,   \* the events given to onFreeze
          seconds    \* the buckets given to onSecond

VARIABLES second,    \* of the wall clock
          wire,      \* echoes on their way
          boot,      \* the reflector's current boot
          answers,   \* the network carries packets
          born,      \* the second each packet was sent in
          echoed,    \* packets whose echo came while they were awaited
          cuts,      \* the watchdog has cut the loss run after these packets
          faults, repeats, flips

proberVars == <<pc, sent, received, next, lastSeq, run, ring, activeSec, silence, token,
                leftover, freezes, seconds>>
worldVars == <<second, wire, boot, answers, born, echoed, cuts, faults, repeats, flips>>
cvars == <<proberVars, worldVars>>

NoSec == 0
NoRun == [start |-> 0, lost |-> 0]
Seqs == 1..MaxSends
Bucket == [sec : 0..MaxSeconds, sent : 0..MaxSends, lost : 0..MaxSends]
EmptySlot == [sec |-> NoSec, sent |-> 0, lost |-> 0]
Older(n, limit) == IF n > limit THEN n ELSE n + 1

TypeOK ==
    /\ pc \in {"handshake", "select", "finalize", "watchdog", "backoff"}
    /\ next \in Nat /\ lastSeq \in Nat
    /\ \A s \in DOMAIN sent : sent[s] \in 0..(Timeout + 1)
    /\ run \in [start : 0..MaxSends, lost : 0..MaxSends]
    /\ ring \in [0..(Slots - 1) -> Bucket]
    /\ activeSec \in 0..MaxSeconds /\ second \in 1..MaxSeconds
    /\ silence \in 0..(Silence + 1)
    /\ token \in 0..MaxBoots /\ boot \in 1..MaxBoots
    /\ leftover \in BOOLEAN /\ answers \in BOOLEAN
    /\ wire \subseteq 1..(lastSeq - 1) /\ DOMAIN born = 1..(lastSeq - 1)

Init ==
    /\ pc = "handshake" /\ sent = <<>> /\ received = {} /\ next = 1 /\ lastSeq = 1
    /\ run = NoRun /\ ring = [i \in 0..(Slots - 1) |-> EmptySlot] /\ activeSec = NoSec
    /\ silence = 0 /\ token = 0 /\ leftover = FALSE
    /\ freezes = <<>> /\ seconds = <<>>
    /\ second = 1 /\ wire = {} /\ boot = 1 /\ answers = TRUE
    /\ born = <<>> /\ echoed = {} /\ cuts = {}
    /\ faults = 0 /\ repeats = 0 /\ flips = 0

-----------------------------------------------------------------------------
(* Run up to its select, and its end.                                      *)
StreamKeeps == UNCHANGED <<sent, received, next, lastSeq, ring, activeSec, seconds, second,
                           boot, answers, born, echoed, repeats, flips>>

\* Mutated form: a token once obtained is kept.
HandshakeCached ==
    /\ pc = "handshake" /\ answers
    /\ token' = (IF token = 0 THEN boot ELSE token) /\ silence' = 0
    /\ pc' = "select"
    /\ StreamKeeps /\ UNCHANGED <<run, leftover, freezes, wire, cuts, faults>>

\* HELLO and TOKEN: the token is good as long as the reflector runs.
Handshake ==
    /\ pc = "handshake" /\ answers
    /\ token' = boot /\ silence' = 0
    /\ pc' = "select"
    /\ StreamKeeps /\ UNCHANGED <<run, leftover, freezes, wire, cuts, faults>>

\* No token after five attempts, or no socket.
HandshakeFails ==
    /\ pc = "handshake"
    /\ faults < MaxFaults /\ faults' = faults + 1
    /\ pc' = "backoff"
    /\ StreamKeeps /\ UNCHANGED <<run, silence, token, leftover, freezes, wire, cuts>>

\* The supervisor runs it again.  Its backoff, 250 ms or more, is longer than
\* the 20 ms between two packets, so the old sendLoop has met its closed socket.
Restart ==
    /\ pc = "backoff" /\ ~leftover
    /\ pc' = "handshake"
    /\ StreamKeeps
    /\ UNCHANGED <<run, silence, token, leftover, freezes, wire, cuts, faults>>

\* recvLoop reports an error; the socket is closed and its echoes are lost.
RecvFails ==
    /\ pc = "select"
    /\ faults < MaxFaults /\ faults' = faults + 1
    /\ pc' = "backoff" /\ leftover' = TRUE /\ wire' = {}
    /\ StreamKeeps /\ UNCHANGED <<run, silence, token, freezes, cuts>>

-----------------------------------------------------------------------------
(* sendLoop and recvLoop.  finalize holds p.mu from its first packet to its *)
(* last, and keeps both of them waiting.                                    *)
LoopKeeps == UNCHANGED <<next, run, ring, activeSec, token, freezes, seconds, second, boot,
                         answers, cuts, flips>>

\* p.mu is held while the packet is entered, not while it is written.
Enter ==
    /\ lastSeq <= MaxSends
    /\ sent' = [s \in DOMAIN sent \union {lastSeq} |-> IF s = lastSeq THEN 0 ELSE sent[s]]
    /\ born' = Append(born, second)
    /\ lastSeq' = lastSeq + 1

\* The reflector echoes what carries a token of its own.
Send ==
    /\ pc \in {"select", "watchdog"}
    /\ Enter
    /\ wire' = IF answers /\ token = boot THEN wire \union {lastSeq} ELSE wire
    /\ LoopKeeps /\ UNCHANGED <<pc, received, silence, leftover, echoed, faults, repeats>>

\* The packet stays entered; Run ends.
SendFails ==
    /\ pc = "select"
    /\ faults < MaxFaults /\ faults' = faults + 1
    /\ Enter
    /\ pc' = "backoff" /\ wire' = {}
    /\ LoopKeeps /\ UNCHANGED <<received, silence, leftover, echoed, repeats>>

\* A sendLoop that outlived its Run enters one more packet before its write
\* fails: nothing but the closed socket tells it to stop.
LeftoverSends ==
    /\ leftover
    /\ leftover' = FALSE
    /\ IF lastSeq <= MaxSends THEN Enter ELSE UNCHANGED <<sent, born, lastSeq>>
    /\ LoopKeeps /\ UNCHANGED <<pc, received, silence, wire, echoed, faults, repeats>>

\* An echo, if it is not lost: the watchdog hears every one, the statistics only those awaited.
\* The network may deliver it again.
Receive(s, again) ==
    /\ pc \in {"select", "watchdog"} /\ s \in wire
    /\ again => repeats < MaxRepeats
    /\ repeats' = IF again THEN repeats + 1 ELSE repeats
    /\ wire' = IF again THEN wire ELSE wire \ {s}
    /\ silence' = 0
    /\ received' = IF s \in DOMAIN sent THEN received \union {s} ELSE received
    /\ echoed' = IF s \in DOMAIN sent THEN echoed \union {s} ELSE echoed
    /\ LoopKeeps /\ UNCHANGED <<pc, sent, lastSeq, leftover, born, faults>>

-----------------------------------------------------------------------------
(* The sweep: finalize one packet after the other, then the watchdog.      *)
(* The whole of finalize goes by one reading of the clock.                 *)
SweepKeeps == UNCHANGED <<lastSeq, silence, token, worldVars>>

Sweep ==
    /\ pc = "select"
    /\ pc' = "finalize"
    /\ SweepKeeps
    /\ UNCHANGED <<sent, received, next, run, ring, activeSec, leftover, freezes, seconds>>

Slot(sec) == ring[sec % Slots]

\* Mutated form: a slot of the ring is used again without being emptied.
AccountedDirty(sec, lost) ==
    [ring EXCEPT ![sec % Slots] = [sec |-> sec, sent |-> @.sent + 1, lost |-> @.lost + lost]]

\* bucketFor and the counts: a slot that holds an older second is emptied.
Accounted(sec, lost) ==
    LET slot == IF Slot(sec).sec = sec THEN Slot(sec) ELSE EmptySlot
    IN [ring EXCEPT ![sec % Slots] =
          [sec |-> sec, sent |-> slot.sent + 1, lost |-> slot.lost + lost]]

\* bucketFor: the first packet of another second emits the second before.
Account(sec, lost) ==
    /\ seconds' = IF activeSec = NoSec \/ activeSec = sec THEN seconds
                  ELSE Append(seconds, [Slot(activeSec) EXCEPT !.sec = activeSec])
    /\ activeSec' = sec
    /\ ring' = Accounted(sec, lost)

\* The packet is done with.
Advance ==
    /\ sent' = [s \in DOMAIN sent \ {next} |-> sent[s]]
    /\ received' = received \ {next}
    /\ next' = next + 1
    /\ SweepKeeps /\ UNCHANGED <<pc, leftover>>

Freeze(till) == [start |-> run.start, lost |-> run.lost, till |-> till]

\* closeRun and flushRun: a long enough run is a freeze, and is over.
CloseRun(till) ==
    /\ freezes' = IF run.lost >= MinRun THEN Append(freezes, Freeze(till)) ELSE freezes
    /\ run' = NoRun

\* The echo of the next packet has come: a run of lost ones ends with it.
FinalizeReceived ==
    /\ pc = "finalize" /\ next < lastSeq /\ next \in received
    /\ CloseRun(next)
    /\ Account(born[next], 0)
    /\ Advance

\* Mutated form: a packet is given up only when a later one has come back.
FinalizeLostOvertaken ==
    /\ pc = "finalize" /\ next < lastSeq /\ next \notin received /\ received # {}
    /\ sent[next] > Timeout
    /\ run' = [start |-> IF run.lost = 0 THEN next ELSE run.start, lost |-> run.lost + 1]
    /\ Account(born[next], 1)
    /\ Advance /\ UNCHANGED freezes

\* The next packet is older than the timeout.
FinalizeLost ==
    /\ pc = "finalize" /\ next < lastSeq /\ next \notin received
    /\ sent[next] > Timeout
    /\ run' = [start |-> IF run.lost = 0 THEN next ELSE run.start, lost |-> run.lost + 1]
    /\ Account(born[next], 1)
    /\ Advance /\ UNCHANGED freezes

\* A packet still in flight keeps the later ones waiting.
FinalizeDone ==
    /\ pc = "finalize"
    /\ next < lastSeq => next \notin received /\ sent[next] <= Timeout
    /\ pc' = "watchdog"
    /\ SweepKeeps
    /\ UNCHANGED <<sent, received, next, run, ring, activeSec, leftover, freezes, seconds>>

WatchdogKeeps ==
    UNCHANGED <<sent, received, next, lastSeq, ring, activeSec, silence, token, seconds, second,
                boot, answers, born, echoed, faults, repeats, flips>>

WatchdogPasses ==
    /\ pc = "watchdog" /\ silence <= Silence
    /\ pc' = "select"
    /\ WatchdogKeeps /\ UNCHANGED <<run, leftover, freezes, wire, cuts>>

\* Mutated form: the run that was flushed goes on.
WatchdogFiresUncut ==
    /\ pc = "watchdog" /\ silence > Silence
    /\ freezes' = IF run.lost >= MinRun THEN Append(freezes, Freeze(0)) ELSE freezes
    /\ cuts' = cuts \union {next - 1}
    /\ pc' = "backoff" /\ leftover' = TRUE /\ wire' = {}
    /\ WatchdogKeeps /\ UNCHANGED run

\* Silence: the run so far is flushed (it ends with no packet), Run returns.
WatchdogFires ==
    /\ pc = "watchdog" /\ silence > Silence
    /\ CloseRun(0)
    /\ cuts' = cuts \union {next - 1}
    /\ pc' = "backoff" /\ leftover' = TRUE /\ wire' = {}
    /\ WatchdogKeeps

Finalize == FinalizeReceived \/ FinalizeLost \/ FinalizeDone
Watchdog == WatchdogPasses \/ WatchdogFires

-----------------------------------------------------------------------------
(* The world.                                                              *)

\* Time passes everywhere but inside finalize, and may reach the next second.
Tick ==
    /\ pc # "finalize"
    /\ sent' = [s \in DOMAIN sent |-> Older(sent[s], Timeout)]
    /\ silence' = Older(silence, Silence)
    /\ second' \in {second, second + 1} /\ second' <= MaxSeconds
    /\ UNCHANGED <<pc, received, next, lastSeq, run, ring, activeSec, token, leftover, freezes,
                   seconds, wire, boot, answers, born, echoed, cuts, faults, repeats, flips>>

\* The reflector draws a new key.
Boot ==
    /\ boot < MaxBoots
    /\ boot' = boot + 1
    /\ UNCHANGED <<proberVars, second, wire, answers, born, echoed, cuts, faults, repeats, flips>>

Flip ==
    /\ flips < MaxFlips
    /\ flips' = flips + 1 /\ answers' = ~answers
    /\ UNCHANGED <<proberVars, second, wire, boot, born, echoed, cuts, faults, repeats>>

Next ==
    \/ Handshake \/ HandshakeFails \/ Restart \/ RecvFails
    \/ Send \/ SendFails \/ LeftoverSends
    \/ \E s \in wire, again \in BOOLEAN : Receive(s, again)
    \/ Sweep \/ Finalize \/ Watchdog
    \/ Tick \/ Boot \/ Flip

Spec == Init /\ [][Next]_cvars

\* The prober's goroutines are scheduled, its supervisor restarts it, the sweep
\* ticker fires again and again, time goes on, and a network that carries
\* packets completes a handshake in the end.
Fairness ==
    /\ WF_cvars(Restart) /\ WF_cvars(LeftoverSends) /\ WF_cvars(Handshake)
    /\ WF_cvars(Sweep) /\ WF_cvars(Finalize) /\ WF_cvars(Watchdog)
    /\ SF_cvars(Tick)

LiveSpec == Spec /\ Fairness

-----------------------------------------------------------------------------
(***************************************************************************)
(* Properties.                                                             *)
(***************************************************************************)

\* The packets awaited are exactly those between the finalization pointer and
\* the last one sent, whichever sendLoop entered them, so the packet finalize
\* looks for is always there ("should not happen", prober.go:314) and none is
\* left behind in the maps.
PendingInOrder == DOMAIN sent = next..(lastSeq - 1) /\ received \subseteq DOMAIN sent

\* The runs of lost packets among the finalized ones, as the echoes that came
\* and the cuts of the watchdog define them: from i to j.
Lost(i) == i \in 1..(next - 1) /\ i \notin echoed
RunBetween(i, j) ==
    /\ i <= j /\ \A k \in i..j : Lost(k)
    /\ Lost(i - 1) => i - 1 \in cuts
    /\ \A k \in i..(j - 1) : k \notin cuts
Runs == {r \in Seqs \X Seqs : RunBetween(r[1], r[2])}
Ended(r) == r[2] \in cuts \/ r[2] + 1 \in echoed \cap 1..(next - 1)

\* "Exact even when echoes return out of order" (prober.go:304-307): the freezes
\* reported are the runs of at least MinRun lost packets that have ended, each
\* once, in order and with its bounds, and the run in progress is remembered.
FreezesExact ==
    LET ended == {r \in Runs : Ended(r)}
        long  == {r \in ended : r[2] - r[1] + 1 >= MinRun}
        open  == {r \in Runs : r[2] = next - 1 /\ ~Ended(r)}
    IN /\ Len(freezes) = Cardinality(long)
       /\ {[start |-> r[1], lost |-> r[2] - r[1] + 1,
            till |-> IF r[2] \in cuts THEN 0 ELSE r[2] + 1] : r \in long}
             = {freezes[i] : i \in DOMAIN freezes}
       /\ \A i \in 1..(Len(freezes) - 1) : freezes[i].start < freezes[i + 1].start
       /\ IF open = {} THEN run = NoRun
          ELSE \E r \in open : run = [start |-> r[1], lost |-> r[2] - r[1] + 1]

\* Each second is given to onSecond at most once and in order, when all of its
\* packets have been finalized, with all of them and those that were lost.
SecondsExact ==
    /\ \A i \in 1..(Len(seconds) - 1) : seconds[i].sec < seconds[i + 1].sec
    /\ \A sec \in 1..MaxSeconds :
         LET mine == {s \in DOMAIN born : born[s] = sec}
         IN (\E i \in DOMAIN seconds : seconds[i].sec = sec) <=>
               mine # {} /\ \E s \in 1..(next - 1) : born[s] > sec
    /\ \A i \in DOMAIN seconds :
         LET mine == {s \in DOMAIN born : born[s] = seconds[i].sec}
         IN /\ \A s \in mine : s < next
            /\ seconds[i].sent = Cardinality(mine)
            /\ seconds[i].lost = Cardinality(mine \ echoed)

\* Every packet is counted in the end, as received or as lost, if the network
\* does not stay down: restarts lose none.
EverySeqResolves ==
    (<>[]answers) => \A s \in Seqs : (s < lastSeq) ~> (s < next)

\* "Senders detect the stale token (15s of silence) and re-handshake"
\* (docs/call-probe.md:60-62): after the reflector has booted for the last time
\* the prober comes to hold a token of that boot.
TokenRenewed == (<>[]answers) => <>[](token = boot)
=============================================================================
