--------------------------- MODULE DetectorProofs ---------------------------
(***************************************************************************)
(* Proofs about the detector, for any set of targets, any thresholds and   *)
(* any number of store failures, crashes and events; and, last, about the  *)
(* ping loops that feed it, for any number of requests at once.            *)
(***************************************************************************)
EXTENDS TargetLoops, SequenceTheorems, FiniteSetTheorems, TLAPS

-----------------------------------------------------------------------------
(* Facts about the operators the actions are built from. *)

\* A non-empty set of naturals has a least element.
LEMMA LeastExists ==
    ASSUME NEW S, S \subseteq Nat, S # {}
    PROVE  \E i \in S : \A j \in S : i <= j
<1>1. IsWellFoundedOn(OpToRel(<, Nat), Nat)
  BY NatLessThanWellFounded
<1>2. PICK x \in S : \A y \in S : ~(<<y, x>> \in OpToRel(<, Nat))
  BY <1>1, WFMin
<1>3. \A y \in S : ~(y < x)
  BY <1>2 DEF OpToRel
<1> QED
  BY <1>3

\* A bounded one has a greatest element, so Newest picks it.
LEMMA NewestInSet ==
    ASSUME NEW n \in Nat, NEW S, S \subseteq 1..n, S # {}
    PROVE  Newest(S) \in S /\ \A j \in S : j <= Newest(S)
<1> DEFINE T == {n - i : i \in S}
<1>1. \A i \in S : i \in Nat /\ n - i \in Nat
  OBVIOUS
<1>2. T \subseteq Nat /\ T # {}
  BY <1>1
<1>3. PICK k \in T : \A j \in T : k <= j
  <2> HIDE DEF T
  <2> QED
    BY <1>2, LeastExists
<1>4. PICK m \in S : k = n - m
  OBVIOUS
<1>5. \A j \in S : j <= m
  <2> TAKE j \in S
  <2>1. n - j \in T
    OBVIOUS
  <2>2. k <= n - j
    BY <1>3, <2>1
  <2> QED
    BY <1>1, <1>4, <2>2
<1> QED
  BY <1>5 DEF Newest

\* The machine after a success, field by field.
LEMMA OkFedFields ==
    ASSUME NEW m \in Machine, NEW ts \in Nat
    PROVE  /\ OkFed(m, ts) \in Machine
           /\ OkFed(m, ts).failCount = 0
           /\ OkFed(m, ts).okCount > 0
           /\ OkFed(m, ts).firstFailTS = 0
           /\ OkFed(m, ts).firstOkTS = IF m.okCount = 0 THEN ts ELSE m.firstOkTS
           /\ OkFed(m, ts).state \in {"up", "down"}
           /\ OkFed(m, ts).state = "down" => m.state = "down"
<1>1. Bump(m.okCount) \in 1..MaxCount
  BY ThresholdAssumption DEF Machine, Bump
<1> QED
  BY <1>1, ThresholdAssumption DEF OkFed, Machine, MachineState, AfterSuccess

\* The machine after a failure, field by field.
LEMMA FailFedFields ==
    ASSUME NEW m \in Machine, NEW ts \in Nat
    PROVE  /\ FailFed(m, ts) \in Machine
           /\ FailFed(m, ts).okCount = 0
           /\ FailFed(m, ts).failCount > 0
           /\ FailFed(m, ts).firstOkTS = 0
           /\ FailFed(m, ts).firstFailTS = IF m.failCount = 0 THEN ts ELSE m.firstFailTS
           /\ FailFed(m, ts).state \in {"down", m.state}
<1>1. Bump(m.failCount) \in 1..MaxCount
  BY ThresholdAssumption DEF Machine, Bump
<1> QED
  BY <1>1, ThresholdAssumption DEF FailFed, Machine, MachineState, AfterFailure

\* Every machine Feed can leave behind is a machine.
LEMMA FedMachine ==
    ASSUME NEW m \in Machine, NEW s \in Sample
    PROVE  MachineFed(m, s) \in Machine
<1>1. s.ts \in Nat
  BY DEF Sample
<1> QED
  BY <1>1, OkFedFields, FailFedFields DEF MachineFed

\* The machine a sample is fed to, known or new, is a machine.
LEMMA MachineOfType ==
    ASSUME TypeOK, NEW t \in Target
    PROVE  MachineOf(t) \in Machine
BY ThresholdAssumption DEF TypeOK, MachineOf, NewMachine, Machine, MachineState

\* What a ping loop feeds is a sample.
LEMMA SampleNowType ==
    ASSUME TypeOK, NEW t \in Target, NEW success \in BOOLEAN, NEW flagged \in BOOLEAN
    PROVE  SampleNow(t, success, flagged) \in Sample
BY DEF TypeOK, SampleNow, Sample

\* Closing a row keeps the table a table and touches only that row's end.
LEMMA ClosedRow ==
    ASSUME TypeOK, NEW i \in DOMAIN outages, NEW ts \in Nat
    PROVE  /\ Closed(i, ts) \in Seq(Outage)
           /\ Len(Closed(i, ts)) = Len(outages)
           /\ DOMAIN Closed(i, ts) = DOMAIN outages
           /\ \A j \in DOMAIN outages :
                 /\ Closed(i, ts)[j].target = outages[j].target
                 /\ Closed(i, ts)[j].started = outages[j].started
                 /\ Closed(i, ts)[j].ended = IF j = i THEN ts ELSE outages[j].ended
<1> DEFINE row == [outages[i] EXCEPT !.ended = ts]
<1>1. outages \in Seq(Outage) /\ i \in 1..Len(outages) /\ outages[i] \in Outage
  BY LenProperties, ElementOfSeq DEF TypeOK
<1>2. row \in Outage /\ row.target = outages[i].target
      /\ row.started = outages[i].started /\ row.ended = ts
  BY <1>1 DEF Outage
<1>3. Closed(i, ts) = [outages EXCEPT ![i] = row]
  BY DEF Closed
<1> HIDE DEF row
<1> QED
  BY <1>1, <1>2, <1>3, ExceptSeq

\* A stale row is open, and an open row of its target follows it.
LEMMA StaleRow ==
    ASSUME TypeOK, NEW i \in Stale
    PROVE  /\ i \in DOMAIN outages
           /\ IsOpen(i)
           /\ NextOpen(i) \in OpenOf(outages[i].target)
           /\ NextOpen(i) > i
<1> DEFINE t == outages[i].target
           S == {j \in OpenOf(t) : j > i}
<1>1. i \in DOMAIN outages /\ IsOpen(i) /\ i # Newest(OpenOf(t))
  BY DEF Stale
<1>2. DOMAIN outages = 1..Len(outages) /\ Len(outages) \in Nat
  BY LenProperties DEF TypeOK
<1>3. i \in OpenOf(t) /\ OpenOf(t) \subseteq 1..Len(outages)
  BY <1>1, <1>2 DEF OpenOf
<1>4. Newest(OpenOf(t)) \in S
  BY <1>1, <1>2, <1>3, NewestInSet
<1>5. PICK k \in S : \A j \in S : k <= j
  <2>1. S \subseteq Nat
    BY <1>2, <1>3
  <2> HIDE DEF S
  <2> QED
    BY <1>4, <2>1, LeastExists
<1>6. \E k1 \in OpenOf(t) : k1 > i /\ \A j \in OpenOf(t) : j > i => k1 <= j
  BY <1>5
<1> QED
  BY <1>1, <1>6 DEF NextOpen

\* What Resume makes of the table: stale rows end at the start of the open
\* row that follows, unless the write fails; all else stays.
LEMMA ResumedTable ==
    ASSUME TypeOK, NEW failed \in SUBSET Stale, Resume(failed)
    PROVE  /\ outages' \in Seq(Outage)
           /\ Len(outages') = Len(outages)
           /\ DOMAIN outages' = DOMAIN outages
           /\ \A i \in DOMAIN outages :
                 /\ outages'[i].target = outages[i].target
                 /\ outages'[i].started = outages[i].started
                 /\ outages'[i].ended = IF i \in Stale \ failed
                                        THEN outages[NextOpen(i)].started
                                        ELSE outages[i].ended
<1> DEFINE row(i) == IF i \in Stale \ failed
                     THEN [outages[i] EXCEPT !.ended = outages[NextOpen(i)].started]
                     ELSE outages[i]
<1>1. DOMAIN outages = 1..Len(outages) /\ Len(outages) \in Nat
      /\ outages \in [1..Len(outages) -> Outage]
  BY LenProperties DEF TypeOK
<1>2. outages' = [i \in 1..Len(outages) |-> row(i)]
  BY <1>1 DEF Resume
<1>3. \A i \in 1..Len(outages) :
         /\ row(i) \in Outage
         /\ row(i).target = outages[i].target
         /\ row(i).started = outages[i].started
         /\ row(i).ended = IF i \in Stale \ failed
                           THEN outages[NextOpen(i)].started ELSE outages[i].ended
  <2> TAKE i \in 1..Len(outages)
  <2>1. outages[i] \in Outage
    BY <1>1
  <2>2. CASE i \in Stale \ failed
    <3>1. outages[NextOpen(i)].started \in Nat
      BY <1>1, <2>2, StaleRow DEF OpenOf, Outage
    <3> QED
      BY <2>1, <2>2, <3>1 DEF Outage
  <2>3. CASE i \notin Stale \ failed
    BY <2>1, <2>3
  <2> QED
    BY <2>2, <2>3
<1> HIDE DEF row
<1>4. outages' \in [1..Len(outages) -> Outage]
  BY <1>2, <1>3
<1>5. outages' \in Seq(Outage) /\ Len(outages') = Len(outages)
  BY <1>1, <1>4, SeqDef, LenProperties
<1> QED
  BY <1>1, <1>2, <1>3, <1>5

-----------------------------------------------------------------------------
(* The steps of the detector, whatever the samples it is given: a loop's late *)
(* one, or two of one target out of order, as TargetLoops has them.          *)
Moves ==
    \/ \E s \in Sample, ok \in BOOLEAN : Feed(s, ok)
    \/ \E t \in Target, ok \in BOOLEAN : Forget(t, ok)
    \/ Crash
    \/ \E failed \in SUBSET Stale : Resume(failed)
    \/ Tick

\* The steps of a detector fed in order are such steps.
LEMMA NextMoves == TypeOK /\ [Next]_vars => [Moves]_vars
BY SampleNowType DEF Next, Moves

-----------------------------------------------------------------------------
(* Type correctness. *)

\* The detector starts well typed.
LEMMA TypeInit == Init => TypeOK
BY EmptySeq DEF Init, TypeOK, NoID

\* What Feed and Forget do to the table when they close the tracked event.
LEMMA CloseTrackedEffect ==
    ASSUME TypeOK, OpenIDsTracked, NEW t \in Target, NEW ts \in Nat,
           NEW ok \in BOOLEAN, CloseTracked(t, ts, ok)
    PROVE  /\ outages' \in Seq(Outage)
           /\ Len(outages') = Len(outages)
           /\ DOMAIN outages' = DOMAIN outages
           /\ \A j \in DOMAIN outages :
                 /\ outages'[j].target = outages[j].target
                 /\ outages'[j].started = outages[j].started
                 /\ outages'[j].ended = IF openIDs[t] # NoID /\ ok /\ j = openIDs[t]
                                        THEN ts ELSE outages[j].ended
           /\ openIDs' = [openIDs EXCEPT ![t] = NoID]
           /\ faults' \in Nat
           /\ faults' = 0 => faults = 0 /\ (openIDs[t] # NoID => ok)
<1>1. CASE openIDs[t] = NoID
  BY <1>1 DEF CloseTracked, TypeOK
<1>2. CASE openIDs[t] # NoID
  <2>1. openIDs[t] \in DOMAIN outages
    BY <1>2 DEF OpenIDsTracked, OpenOf
  <2>2. outages' = IF ok THEN Closed(openIDs[t], ts) ELSE outages
    BY <1>2 DEF CloseTracked
  <2>3. openIDs' = [openIDs EXCEPT ![t] = NoID] /\ faults' \in Nat
        /\ (faults' = 0 => faults = 0 /\ ok)
    BY <1>2 DEF CloseTracked, Write, TypeOK
  <2> QED
    BY <1>2, <2>1, <2>2, <2>3, ClosedRow DEF TypeOK
<1> QED
  BY <1>1, <1>2

\* Feeding a sample keeps every entry of d.machines a machine or absent.
LEMMA FeedMachineType ==
    ASSUME TypeOK, NEW s \in Sample, FeedMachine(s)
    PROVE  machines' \in [Target -> Machine \union {NoMachine}]
<1>1. s.target \in Target
  BY DEF Sample
<1>2. MachineFed(MachineOf(s.target), s) \in Machine
  BY <1>1, MachineOfType, FedMachine
<1> QED
  BY <1>1, <1>2 DEF FeedMachine, TypeOK

\* No step leaves the types; a recovery needs OpenIDsTracked to know that the
\* id it closes is a row.
LEMMA TypeStep == TypeOK /\ OpenIDsTracked /\ [Moves]_vars => TypeOK'
<1> SUFFICES ASSUME TypeOK, OpenIDsTracked, [Moves]_vars
             PROVE  TypeOK'
  OBVIOUS
<1>1. ASSUME NEW s \in Sample, NEW t \in Target, s.target = t,
             NEW ok \in BOOLEAN, Feed(s, ok)
      PROVE  TypeOK'
  <2>1. s \in Sample /\ s.target = t
    BY <1>1
  <2>2. MachineFed(MachineOf(t), s) \in Machine
    BY <2>1, MachineOfType, FedMachine
  <2>3. running' = running /\ now' = now /\ crashes' = crashes
    BY <1>1 DEF Feed
  <2>4. CASE FeedQuiet(s)
    BY <2>1, <2>3, <2>4, FeedMachineType DEF FeedQuiet, TypeOK
  <2>5. CASE FeedDown(s, ok)
    <3>1. machines' \in [Target -> Machine \union {NoMachine}] /\ faults' \in Nat
      BY <2>1, <2>5, FeedMachineType DEF FeedDown, Write, TypeOK
    <3>2. outages' \in Seq(Outage) /\ openIDs' \in [Target -> Nat]
      <4>1. CASE ~ok
        BY <2>5, <4>1 DEF FeedDown, TypeOK
      <4>2. CASE ok
        <5> DEFINE row == [target |-> t, ended |-> Null,
                           started |-> MachineFed(MachineOf(t), s).firstFailTS]
        <5>1. row \in Outage
          BY <2>2 DEF Outage, Machine, Null
        <5>2. outages' = Append(outages, row)
              /\ openIDs' = [openIDs EXCEPT ![t] = Len(outages) + 1]
          BY <2>1, <2>5, <4>2 DEF FeedDown
        <5> HIDE DEF row
        <5>3. outages' \in Seq(Outage) /\ Len(outages) \in Nat
          BY <5>1, <5>2, LenProperties DEF TypeOK
        <5> QED
          BY <5>2, <5>3 DEF TypeOK
      <4> QED
        BY <4>1, <4>2
    <3> QED
      BY <2>3, <3>1, <3>2 DEF TypeOK
  <2>6. CASE FeedUp(s, ok)
    <3>1. MachineFed(MachineOf(t), s).firstOkTS \in Nat
      BY <2>2 DEF Machine
    <3>2. FeedMachine(s) /\ CloseTracked(t, MachineFed(MachineOf(t), s).firstOkTS, ok)
      BY <2>1, <2>6 DEF FeedUp
    <3>3. machines' \in [Target -> Machine \union {NoMachine}]
      BY <2>1, <3>2, FeedMachineType
    <3>4. /\ outages' \in Seq(Outage)
          /\ openIDs' = [openIDs EXCEPT ![t] = NoID]
          /\ faults' \in Nat
      BY <3>1, <3>2, CloseTrackedEffect
    <3>5. openIDs' \in [Target -> Nat]
      BY <3>4 DEF TypeOK, NoID
    <3> QED
      BY <2>3, <3>3, <3>4, <3>5 DEF TypeOK
  <2> QED
    BY <1>1, <2>4, <2>5, <2>6 DEF Feed
<1>2. ASSUME NEW t \in Target, NEW ok \in BOOLEAN, Forget(t, ok)
      PROVE  TypeOK'
  <2>1. CloseTracked(t, now, ok) /\ now \in Nat
    BY <1>2 DEF Forget, TypeOK
  <2>2. /\ outages' \in Seq(Outage)
        /\ openIDs' = [openIDs EXCEPT ![t] = NoID]
        /\ faults' \in Nat
    BY <2>1, CloseTrackedEffect
  <2>3. openIDs' \in [Target -> Nat]
    BY <2>2 DEF TypeOK, NoID
  <2>4. machines' \in [Target -> Machine \union {NoMachine}]
    BY <1>2 DEF Forget, TypeOK
  <2> QED
    BY <1>2, <2>2, <2>3, <2>4 DEF Forget, TypeOK
<1>3. CASE Crash
  <2>1. machines' \in [Target -> Machine \union {NoMachine}]
    BY <1>3 DEF Crash
  <2>2. openIDs' \in [Target -> Nat]
    BY <1>3 DEF Crash, NoID
  <2>3. running' \in BOOLEAN
    BY <1>3 DEF Crash
  <2>4. outages' = outages /\ now' = now /\ faults' = faults /\ crashes' \in Nat
    BY <1>3 DEF Crash, TypeOK
  <2> QED
    BY <2>1, <2>2, <2>3, <2>4 DEF TypeOK
<1>4. ASSUME NEW failed \in SUBSET Stale, Resume(failed)
      PROVE  TypeOK'
  <2>1. outages' \in Seq(Outage)
    BY <1>4, ResumedTable
  <2>2. \A t \in Target : OpenOf(t) # {} => Newest(OpenOf(t)) \in Nat
    <3> TAKE t \in Target
    <3>1. OpenOf(t) \subseteq 1..Len(outages) /\ Len(outages) \in Nat
      BY LenProperties DEF OpenOf, TypeOK
    <3> QED
      BY <3>1, NewestInSet
  <2>3. NewMachine("down") \in Machine
    BY ThresholdAssumption DEF NewMachine, Machine, MachineState
  <2>4. faults' \in Nat
    <3>1. DOMAIN outages = 1..Len(outages) /\ Len(outages) \in Nat
      BY LenProperties DEF TypeOK
    <3>2. failed \subseteq 1..Len(outages)
      BY <3>1 DEF Stale
    <3>3. IsFiniteSet(1..Len(outages))
      BY <3>1, FS_Interval
    <3>4. IsFiniteSet(failed)
      BY <3>2, <3>3, FS_Subset
    <3> QED
      BY <1>4, <3>4, FS_CardinalityType DEF Resume, TypeOK
  <2> QED
    BY <1>4, <2>1, <2>2, <2>3, <2>4 DEF Resume, TypeOK, NoID
<1>5. CASE Tick
  BY <1>5 DEF Tick, TypeOK
<1>6. CASE UNCHANGED vars
  BY <1>6 DEF vars, TypeOK
<1>7. ASSUME NEW s \in Sample PROVE s.target \in Target
  BY <1>7 DEF Sample
<1> QED
  BY <1>1, <1>2, <1>3, <1>4, <1>5, <1>6, <1>7 DEF Moves

-----------------------------------------------------------------------------
(* The ids in memory name open rows of DOWN targets. *)

\* What one sample does to the machine of its target.
LEMMA FeedEffect ==
    ASSUME TypeOK, NEW s \in Sample, FeedMachine(s)
    PROVE  /\ s.target \in Target
           /\ machines'[s.target] = MachineFed(MachineOf(s.target), s)
           /\ machines'[s.target] \in Machine
           /\ machines'[s.target] # NoMachine
           /\ \A u \in Target \ {s.target} : machines'[u] = machines[u]
<1>1. s.target \in Target
  BY DEF Sample
<1>2. MachineFed(MachineOf(s.target), s) \in Machine
  BY <1>1, MachineOfType, FedMachine
<1> QED
  BY <1>1, <1>2, DetectorAssumption DEF FeedMachine, TypeOK

\* Without an UP transition a DOWN machine stays DOWN.
LEMMA DownStays ==
    ASSUME NEW m \in Machine, NEW s \in Sample, m.state = "down",
           ~GoesUp(m, MachineFed(m, s))
    PROVE  MachineFed(m, s).state = "down"
<1>1. s.ts \in Nat /\ MachineFed(m, s).state # "up"
  BY DEF Sample, GoesUp
<1>2. OkFed(m, s.ts).state \in {"up", "down"}
  BY <1>1, OkFedFields
<1>3. FailFed(m, s.ts).state = "down"
  BY <1>1, FailFedFields
<1> QED
  BY <1>1, <1>2, <1>3 DEF MachineFed

\* No id is remembered at the start.
LEMMA TrackedInit == Init => OpenIDsTracked
BY DEF Init, OpenIDsTracked

\* Every step keeps the ids in memory on open rows of DOWN targets.
LEMMA TrackedStep == TypeOK /\ OpenIDsTracked /\ [Moves]_vars => OpenIDsTracked'
<1> SUFFICES ASSUME TypeOK, OpenIDsTracked, [Moves]_vars, NEW u \in Target, openIDs'[u] # NoID
             PROVE  /\ openIDs'[u] \in DOMAIN outages'
                    /\ outages'[openIDs'[u]].target = u
                    /\ outages'[openIDs'[u]].ended = Null
                    /\ machines'[u] # NoMachine
                    /\ machines'[u].state = "down"
  BY DEF OpenIDsTracked, OpenOf, IsOpen
<1> DEFINE Old == /\ openIDs[u] \in DOMAIN outages
                  /\ outages[openIDs[u]].target = u
                  /\ outages[openIDs[u]].ended = Null
                  /\ machines[u] # NoMachine
                  /\ machines[u].state = "down"
<1>0. \A t \in Target : openIDs[t] # NoID =>
         /\ openIDs[t] \in DOMAIN outages
         /\ outages[openIDs[t]].target = t
         /\ outages[openIDs[t]].ended = Null
         /\ machines[t] # NoMachine
         /\ machines[t].state = "down"
  BY DEF OpenIDsTracked, OpenOf, IsOpen
<1>t. openIDs \in [Target -> Nat] /\ machines \in [Target -> Machine \union {NoMachine}]
  BY DEF TypeOK
<1>1. ASSUME NEW s \in Sample, NEW t \in Target, s.target = t,
             NEW ok \in BOOLEAN, Feed(s, ok)
      PROVE  /\ openIDs'[u] \in DOMAIN outages'
             /\ outages'[openIDs'[u]].target = u
             /\ outages'[openIDs'[u]].ended = Null
             /\ machines'[u] # NoMachine
             /\ machines'[u].state = "down"
  <2>1. s \in Sample /\ s.target = t
    BY <1>1
  <2>2. MachineOf(t) \in Machine
    BY MachineOfType
  <2>3. openIDs[t] # NoID => MachineOf(t) = machines[t] /\ MachineOf(t).state = "down"
    BY <1>0 DEF MachineOf
  <2>4. CASE FeedQuiet(s)
    <3>1. FeedMachine(s) /\ openIDs' = openIDs /\ outages' = outages
          /\ ~GoesUp(MachineOf(t), MachineFed(MachineOf(t), s))
      BY <2>1, <2>4 DEF FeedQuiet
    <3>2. Old
      BY <1>0, <3>1
    <3>3. CASE u = t
      BY <2>1, <2>2, <2>3, <3>1, <3>2, <3>3, FeedEffect, DownStays
    <3>4. CASE u # t
      BY <2>1, <3>1, <3>2, <3>4, FeedEffect
    <3> QED
      BY <3>3, <3>4
  <2>5. CASE FeedDown(s, ok)
    <3>1. FeedMachine(s) /\ MachineOf(t).state # "down"
          /\ MachineFed(MachineOf(t), s).state = "down"
      BY <2>1, <2>5 DEF FeedDown, GoesDown
    <3>2. openIDs[t] = NoID
      BY <2>3, <3>1
    <3>3. CASE ~ok
      <4>1. openIDs' = openIDs /\ outages' = outages
        BY <2>5, <3>3 DEF FeedDown
      <4> QED
        BY <1>0, <2>1, <3>1, <3>2, <4>1, FeedEffect
    <3>4. CASE ok
      <4> DEFINE row == [target |-> t, ended |-> Null,
                         started |-> MachineFed(MachineOf(t), s).firstFailTS]
      <4>1. outages' = Append(outages, row)
            /\ openIDs' = [openIDs EXCEPT ![t] = Len(outages) + 1]
        BY <2>1, <2>5, <3>4 DEF FeedDown
      <4>2. row.target = t /\ row.ended = Null
        OBVIOUS
      <4> HIDE DEF row
      <4>3. /\ Len(outages) \in Nat /\ DOMAIN outages = 1..Len(outages)
            /\ DOMAIN outages' = 1..(Len(outages) + 1)
            /\ outages'[Len(outages) + 1] = row
            /\ \A i \in DOMAIN outages : outages'[i] = outages[i]
        BY <4>1, LenProperties DEF TypeOK
      <4>4. CASE u = t
        BY <1>t, <2>1, <3>1, <4>1, <4>2, <4>3, <4>4, FeedEffect
      <4>5. CASE u # t
        BY <1>0, <1>t, <2>1, <3>1, <4>1, <4>3, <4>5, FeedEffect
      <4> QED
        BY <4>4, <4>5
    <3> QED
      BY <3>3, <3>4
  <2>6. CASE FeedUp(s, ok)
    <3> DEFINE ts == MachineFed(MachineOf(t), s).firstOkTS
    <3>1. FeedMachine(s) /\ CloseTracked(t, ts, ok)
      BY <2>1, <2>6 DEF FeedUp
    <3>2. ts \in Nat
      BY <2>1, <2>2, FedMachine DEF Machine
    <3> HIDE DEF ts
    <3>3. u # t
      BY <1>t, <3>1, <3>2, CloseTrackedEffect
    <3>4. machines'[u] = machines[u]
      BY <2>1, <3>1, <3>3, FeedEffect
    <3>5. /\ DOMAIN outages' = DOMAIN outages
          /\ \A j \in DOMAIN outages :
                /\ outages'[j].target = outages[j].target
                /\ outages'[j].ended = IF openIDs[t] # NoID /\ ok /\ j = openIDs[t]
                                       THEN ts ELSE outages[j].ended
          /\ openIDs' = [openIDs EXCEPT ![t] = NoID]
      BY <3>1, <3>2, CloseTrackedEffect
    <3>6. openIDs'[u] = openIDs[u]
      BY <1>t, <3>3, <3>5
    <3>7. openIDs[t] # NoID => openIDs[u] # openIDs[t]
      BY <1>0, <3>3, <3>6
    <3> QED
      BY <1>0, <1>t, <3>4, <3>5, <3>6, <3>7
  <2> QED
    BY <1>1, <2>4, <2>5, <2>6 DEF Feed
<1>2. ASSUME NEW t \in Target, NEW ok \in BOOLEAN, Forget(t, ok)
      PROVE  /\ openIDs'[u] \in DOMAIN outages'
             /\ outages'[openIDs'[u]].target = u
             /\ outages'[openIDs'[u]].ended = Null
             /\ machines'[u] # NoMachine
             /\ machines'[u].state = "down"
  <2>1. CloseTracked(t, now, ok) /\ now \in Nat
        /\ machines' = [machines EXCEPT ![t] = NoMachine]
    BY <1>2 DEF Forget, TypeOK
  <2>2. u # t
    BY <1>t, <2>1, CloseTrackedEffect
  <2>3. machines'[u] = machines[u]
    BY <1>t, <2>1, <2>2
  <2>4. /\ DOMAIN outages' = DOMAIN outages
        /\ \A j \in DOMAIN outages :
              /\ outages'[j].target = outages[j].target
              /\ outages'[j].ended = IF openIDs[t] # NoID /\ ok /\ j = openIDs[t]
                                     THEN now ELSE outages[j].ended
        /\ openIDs' = [openIDs EXCEPT ![t] = NoID]
    BY <2>1, CloseTrackedEffect
  <2>5. openIDs'[u] = openIDs[u]
    BY <1>t, <2>2, <2>4
  <2>6. openIDs[t] # NoID => openIDs[u] # openIDs[t]
    BY <1>0, <2>2, <2>5
  <2> QED
    BY <1>0, <1>t, <2>3, <2>4, <2>5, <2>6
<1>3. CASE Crash
  BY <1>3 DEF Crash
<1>4. ASSUME NEW failed \in SUBSET Stale, Resume(failed)
      PROVE  /\ openIDs'[u] \in DOMAIN outages'
             /\ outages'[openIDs'[u]].target = u
             /\ outages'[openIDs'[u]].ended = Null
             /\ machines'[u] # NoMachine
             /\ machines'[u].state = "down"
  <2>1. OpenOf(u) # {} /\ openIDs'[u] = Newest(OpenOf(u))
        /\ machines'[u] = NewMachine("down")
    BY <1>4 DEF Resume
  <2>2. OpenOf(u) \subseteq 1..Len(outages) /\ Len(outages) \in Nat
    BY LenProperties DEF OpenOf, TypeOK
  <2>3. openIDs'[u] \in OpenOf(u)
    BY <2>1, <2>2, NewestInSet
  <2>4. openIDs'[u] \notin Stale
    BY <2>1, <2>3 DEF Stale, OpenOf
  <2>5. NewMachine("down") \in Machine /\ NewMachine("down").state = "down"
    BY ThresholdAssumption DEF NewMachine, Machine, MachineState
  <2> QED
    BY <1>4, <2>1, <2>3, <2>4, <2>5, ResumedTable, DetectorAssumption DEF OpenOf, IsOpen
<1>5. CASE Tick
  BY <1>0, <1>5 DEF Tick
<1>6. CASE UNCHANGED vars
  BY <1>0, <1>6 DEF vars
<1>7. ASSUME NEW s \in Sample PROVE s.target \in Target
  BY <1>7 DEF Sample
<1> QED
  BY <1>1, <1>2, <1>3, <1>4, <1>5, <1>6, <1>7 DEF Moves

\* Type correctness of the detector.
THEOREM TypeCorrect == Spec => []TypeOK
<1>1. Init => TypeOK /\ OpenIDsTracked
  BY TypeInit, TrackedInit
<1>2. (TypeOK /\ OpenIDsTracked) /\ [Next]_vars => (TypeOK /\ OpenIDsTracked)'
  BY NextMoves, TypeStep, TrackedStep
<1> QED
  BY <1>1, <1>2, PTL DEF Spec

\* Every id in openIDs names an open row of its target, whose machine is
\* DOWN (Feed, Forget and Resume in coordinator.go).
THEOREM OpenIDsAreTracked == Spec => []OpenIDsTracked
<1>1. Init => TypeOK /\ OpenIDsTracked
  BY TypeInit, TrackedInit
<1>2. (TypeOK /\ OpenIDsTracked) /\ [Next]_vars => (TypeOK /\ OpenIDsTracked)'
  BY NextMoves, TypeStep, TrackedStep
<1> QED
  BY <1>1, <1>2, PTL DEF Spec

-----------------------------------------------------------------------------
(* Closed rows are final. *)

\* One step of HistoryIsFinal.
RowsKept ==
    /\ Len(outages') >= Len(outages)
    /\ \A i \in DOMAIN outages :
         /\ outages'[i].target = outages[i].target
         /\ outages'[i].started = outages[i].started
         /\ ~IsOpen(i) => outages'[i].ended = outages[i].ended

\* Every step keeps the closed rows.
LEMMA HistoryStep == TypeOK /\ OpenIDsTracked /\ [Moves]_vars => [RowsKept]_vars
<1> SUFFICES ASSUME TypeOK, OpenIDsTracked, [Moves]_vars
             PROVE  RowsKept
  OBVIOUS
<1>0. /\ Len(outages) \in Nat /\ DOMAIN outages = 1..Len(outages)
      /\ \A t \in Target : openIDs[t] # NoID => outages[openIDs[t]].ended = Null
  BY LenProperties DEF TypeOK, OpenIDsTracked, OpenOf, IsOpen
<1>u. ASSUME outages' = outages PROVE RowsKept
  BY <1>0, <1>u DEF RowsKept
<1>c. ASSUME NEW t \in Target, NEW ts \in Nat, NEW ok \in BOOLEAN, CloseTracked(t, ts, ok)
      PROVE  RowsKept
  BY <1>0, <1>c, CloseTrackedEffect DEF RowsKept, IsOpen
<1>1. ASSUME NEW s \in Sample, NEW t \in Target, s.target = t,
             NEW ok \in BOOLEAN, Feed(s, ok)
      PROVE  RowsKept
  <2>1. s \in Sample /\ s.target = t
    BY <1>1
  <2>2. CASE FeedQuiet(s)
    BY <1>u, <2>2 DEF FeedQuiet
  <2>3. CASE FeedDown(s, ok)
    <3> DEFINE row == [target |-> t, ended |-> Null,
                       started |-> MachineFed(MachineOf(t), s).firstFailTS]
    <3>1. outages' = Append(outages, row) \/ outages' = outages
      BY <2>1, <2>3 DEF FeedDown
    <3> HIDE DEF row
    <3>2. CASE outages' = Append(outages, row)
      BY <1>0, <3>2 DEF RowsKept, TypeOK
    <3> QED
      BY <1>u, <3>1, <3>2
  <2>4. CASE FeedUp(s, ok)
    <3>1. MachineFed(MachineOf(t), s).firstOkTS \in Nat
      BY <2>1, MachineOfType, FedMachine DEF Machine
    <3> QED
      BY <1>c, <2>1, <2>4, <3>1 DEF FeedUp
  <2> QED
    BY <1>1, <2>2, <2>3, <2>4 DEF Feed
<1>2. ASSUME NEW t \in Target, NEW ok \in BOOLEAN, Forget(t, ok)
      PROVE  RowsKept
  BY <1>c, <1>2 DEF Forget, TypeOK
<1>3. CASE Crash
  BY <1>u, <1>3 DEF Crash
<1>4. ASSUME NEW failed \in SUBSET Stale, Resume(failed)
      PROVE  RowsKept
  BY <1>0, <1>4, ResumedTable DEF RowsKept, Stale, IsOpen
<1>5. CASE Tick
  BY <1>u, <1>5 DEF Tick
<1>6. CASE UNCHANGED vars
  BY <1>u, <1>6 DEF vars
<1>7. ASSUME NEW s \in Sample PROVE s.target \in Target
  BY <1>7 DEF Sample
<1> QED
  BY <1>1, <1>2, <1>3, <1>4, <1>5, <1>6, <1>7 DEF Moves

\* A closed row of outage_events never changes, no row loses its target or
\* its start, and none disappears, whatever fails or crashes.
THEOREM ClosedRowsAreFinal == Spec => HistoryIsFinal
<1>1. Init => TypeOK /\ OpenIDsTracked
  BY TypeInit, TrackedInit
<1>2. (TypeOK /\ OpenIDsTracked) /\ [Next]_vars => (TypeOK /\ OpenIDsTracked)'
  BY NextMoves, TypeStep, TrackedStep
<1>3. TypeOK /\ OpenIDsTracked /\ [Next]_vars => [RowsKept]_vars
  BY NextMoves, HistoryStep
<1> QED
  BY <1>1, <1>2, <1>3, PTL DEF Spec, HistoryIsFinal, RowsKept

-----------------------------------------------------------------------------
(* Durations. *)

DurationInv == TypeOK /\ OpenIDsTracked /\ RunsDated /\ DurationsSane

\* Without rows and machines nothing is dated.
LEMMA DatedInit == Init => RunsDated /\ DurationsSane
BY DEF Init, RunsDated, DurationsSane

\* Closing t's tracked event at a time between its start and now.
LEMMA CloseSane ==
    ASSUME DurationInv, NEW t \in Target, NEW ts \in Nat, NEW ok \in BOOLEAN,
           CloseTracked(t, ts, ok), ts <= now, now' = now,
           openIDs[t] # NoID => outages[openIDs[t]].started <= ts
    PROVE  DurationsSane'
<1>1. /\ DOMAIN outages' = DOMAIN outages
      /\ \A j \in DOMAIN outages :
            /\ outages'[j].started = outages[j].started
            /\ outages'[j].ended = IF openIDs[t] # NoID /\ ok /\ j = openIDs[t]
                                   THEN ts ELSE outages[j].ended
  BY CloseTrackedEffect DEF DurationInv
<1> QED
  BY <1>1 DEF DurationInv, DurationsSane, IsOpen

\* Every step keeps the runs dated and the durations sane.
LEMMA DatedStep == DurationInv /\ [Next]_vars => RunsDated' /\ DurationsSane'
<1> SUFFICES ASSUME DurationInv, [Next]_vars
             PROVE  RunsDated' /\ DurationsSane'
  OBVIOUS
<1>0. /\ TypeOK /\ OpenIDsTracked /\ RunsDated /\ DurationsSane
      /\ Len(outages) \in Nat /\ DOMAIN outages = 1..Len(outages)
      /\ outages \in [1..Len(outages) -> Outage]
      /\ now \in Nat
  BY LenProperties DEF DurationInv, TypeOK
<1>1. ASSUME NEW t \in Target, NEW success \in BOOLEAN, NEW flagged \in BOOLEAN,
             NEW ok \in BOOLEAN, Feed(SampleNow(t, success, flagged), ok)
      PROVE  RunsDated' /\ DurationsSane'
  <2> DEFINE s == SampleNow(t, success, flagged)
             m == MachineOf(t)
             n == MachineFed(m, s)
  <2>1. s \in Sample /\ s.target = t /\ s.ts = now
    BY <1>0, SampleNowType DEF SampleNow
  <2>2. now' = now
    BY <1>1 DEF Feed
  <2> HIDE DEF s
  <2>3. m \in Machine /\ n \in Machine
    BY <1>0, <2>1, MachineOfType, FedMachine
  <2>4. /\ m.firstFailTS <= now /\ m.firstOkTS <= now
        /\ m.okCount > 0 /\ openIDs[t] # NoID => outages[openIDs[t]].started <= m.firstOkTS
        /\ m.failCount > 0 /\ m.state # "down" =>
              \A i \in DOMAIN outages :
                 outages[i].target = t => outages[i].started <= m.firstFailTS
    BY <1>0 DEF RunsDated, MachineOf, NewMachine
  <2>5. openIDs[t] # NoID => openIDs[t] \in DOMAIN outages
    BY <1>0 DEF OpenIDsTracked, OpenOf
  <2>6. n = m \/ n = OkFed(m, now) \/ n = FailFed(m, now)
    BY <2>1 DEF MachineFed
  <2>7. /\ n.firstFailTS <= now /\ n.firstOkTS <= now
        /\ n.okCount > 0 /\ openIDs[t] # NoID => outages[openIDs[t]].started <= n.firstOkTS
        /\ n.failCount > 0 /\ m.state # "down" =>
              \A i \in DOMAIN outages :
                 outages[i].target = t => outages[i].started <= n.firstFailTS
        /\ n.state = "down" /\ m.state # "down" => n.failCount > 0 /\ n.okCount = 0
        /\ n.state = "up" /\ m.state = "down" => n.okCount > 0 /\ n.failCount = 0
    <3>1. \A i \in DOMAIN outages : outages[i].started <= now
      BY <1>0 DEF DurationsSane
    <3>2. CASE n = m
      BY <2>4, <3>2
    <3>3. CASE n = OkFed(m, now)
      <4>1. /\ n.failCount = 0 /\ n.firstFailTS = 0 /\ n.okCount > 0
            /\ n.firstOkTS = IF m.okCount = 0 THEN now ELSE m.firstOkTS
            /\ n.state = "down" => m.state = "down"
        <5>1. m \in Machine /\ now \in Nat
          BY <1>0, <2>3
        <5> HIDE DEF m, n
        <5> QED
          BY <3>3, <5>1, OkFedFields
      <4>2. m.okCount \in Nat
        BY <2>3 DEF Machine
      <4> HIDE DEF m, n
      <4> QED
        BY <1>0, <2>4, <2>5, <3>1, <4>1, <4>2
    <3>4. CASE n = FailFed(m, now)
      <4>1. /\ n.okCount = 0 /\ n.firstOkTS = 0 /\ n.failCount > 0
            /\ n.firstFailTS = IF m.failCount = 0 THEN now ELSE m.firstFailTS
            /\ n.state \in {"down", m.state}
        <5>1. m \in Machine /\ now \in Nat
          BY <1>0, <2>3
        <5> HIDE DEF m, n
        <5> QED
          BY <3>4, <5>1, FailFedFields
      <4>2. m.failCount \in Nat
        BY <2>3 DEF Machine
      <4> HIDE DEF m, n
      <4> QED
        BY <1>0, <2>4, <3>1, <4>1, <4>2
    <3> QED
      BY <2>6, <3>2, <3>3, <3>4
  <2>8. FeedMachine(s)
    BY <1>1 DEF Feed, FeedQuiet, FeedDown, FeedUp, s
  <2>9. machines'[t] = n /\ \A v \in Target \ {t} : machines'[v] = machines[v]
    BY <1>0, <2>1, <2>8, FeedEffect
  <2> HIDE DEF n, m
  <2>10. CASE FeedQuiet(s)
    <3>1. openIDs' = openIDs /\ outages' = outages
          /\ ~(m.state # "down" /\ n.state = "down") /\ ~(m.state = "down" /\ n.state = "up")
      BY <2>1, <2>10 DEF FeedQuiet, GoesDown, GoesUp, m, n
    <3>2. n.state # "down" /\ n.failCount > 0 => m.state # "down"
      <4>1. m.state = "down" => n.state = "down"
        BY <2>1, <2>3, <3>1, DownStays DEF GoesUp, n
      <4> QED
        BY <4>1
    <3>3. RunsDated'
      BY <1>0, <2>2, <2>7, <2>9, <3>1, <3>2 DEF RunsDated
    <3> QED
      BY <1>0, <2>2, <3>1, <3>3 DEF DurationsSane, IsOpen
  <2>11. CASE FeedDown(s, ok)
    <3>1. m.state # "down" /\ n.state = "down"
      BY <2>1, <2>11 DEF FeedDown, GoesDown, m, n
    <3>2. CASE ~ok
      <4>1. openIDs' = openIDs /\ outages' = outages
        BY <2>11, <3>2 DEF FeedDown
      <4> QED
        BY <1>0, <2>2, <2>7, <2>9, <3>1, <4>1 DEF RunsDated, DurationsSane, IsOpen
    <3>3. CASE ok
      <4> DEFINE row == [target |-> t, ended |-> Null, started |-> n.firstFailTS]
      <4>1. outages' = Append(outages, row)
            /\ openIDs' = [openIDs EXCEPT ![t] = Len(outages) + 1]
        BY <2>1, <2>11, <3>3 DEF FeedDown, n, m
      <4>2. row.target = t /\ row.ended = Null /\ row.started = n.firstFailTS
        OBVIOUS
      <4> HIDE DEF row
      <4>3. /\ DOMAIN outages' = 1..(Len(outages) + 1)
            /\ outages'[Len(outages) + 1] = row
            /\ \A i \in DOMAIN outages : outages'[i] = outages[i]
        BY <1>0, <4>1 DEF TypeOK
      <4>4. /\ openIDs \in [Target -> Nat]
            /\ \A v \in Target \ {t} : openIDs'[v] = openIDs[v]
        BY <1>0, <4>1 DEF TypeOK
      <4>5. DurationsSane'
        BY <1>0, <2>2, <2>7, <4>2, <4>3 DEF DurationsSane, IsOpen
      <4>6. \A i, j \in DOMAIN outages' :
               i < j /\ outages'[i].target = outages'[j].target =>
                  outages'[i].started <= outages'[j].started
        BY <1>0, <2>7, <3>1, <4>2, <4>3 DEF RunsDated
      <4>7. ASSUME NEW v \in Target, machines'[v] # NoMachine
            PROVE  /\ machines'[v].firstFailTS <= now'
                   /\ machines'[v].firstOkTS <= now'
                   /\ machines'[v].okCount > 0 /\ openIDs'[v] # NoID =>
                         outages'[openIDs'[v]].started <= machines'[v].firstOkTS
                   /\ machines'[v].failCount > 0 /\ machines'[v].state # "down" =>
                         \A i \in DOMAIN outages' :
                            outages'[i].target = v =>
                               outages'[i].started <= machines'[v].firstFailTS
        <5>1. CASE v = t
          BY <2>2, <2>7, <2>9, <3>1, <5>1
        <5>2. CASE v # t
          <6>1. openIDs[v] # NoID => openIDs[v] \in DOMAIN outages
            BY <1>0 DEF OpenIDsTracked, OpenOf
          <6> QED
            BY <1>0, <2>2, <2>9, <4>2, <4>3, <4>4, <4>7, <5>2, <6>1 DEF RunsDated
        <5> QED
          BY <5>1, <5>2
      <4> QED
        BY <4>5, <4>6, <4>7 DEF RunsDated
    <3> QED
      BY <3>2, <3>3
  <2>12. CASE FeedUp(s, ok)
    <3>1. m.state = "down" /\ n.state = "up" /\ CloseTracked(t, n.firstOkTS, ok)
      BY <2>1, <2>12 DEF FeedUp, GoesUp, m, n
    <3>2. n.firstOkTS \in Nat
      BY <2>3 DEF Machine
    <3>3. DurationsSane'
      BY <2>2, <2>7, <3>1, <3>2, CloseSane
    <3>4. /\ DOMAIN outages' = DOMAIN outages
          /\ \A j \in DOMAIN outages : outages'[j].started = outages[j].started
                                     /\ outages'[j].target = outages[j].target
          /\ openIDs' = [openIDs EXCEPT ![t] = NoID]
      BY <1>0, <3>1, <3>2, CloseTrackedEffect
    <3>5. \A v \in Target : openIDs[v] # NoID => openIDs[v] \in DOMAIN outages
      BY <1>0 DEF OpenIDsTracked, OpenOf
    <3>6. openIDs \in [Target -> Nat]
      BY <1>0 DEF TypeOK
    <3>7. n.failCount = 0 /\ openIDs'[t] = NoID
      BY <2>7, <3>1, <3>4, <3>6
    <3>8. \A i, j \in DOMAIN outages' :
             i < j /\ outages'[i].target = outages'[j].target =>
                outages'[i].started <= outages'[j].started
      BY <1>0, <3>4 DEF RunsDated
    <3>9. ASSUME NEW v \in Target, machines'[v] # NoMachine
          PROVE  /\ machines'[v].firstFailTS <= now'
                 /\ machines'[v].firstOkTS <= now'
                 /\ machines'[v].okCount > 0 /\ openIDs'[v] # NoID =>
                       outages'[openIDs'[v]].started <= machines'[v].firstOkTS
                 /\ machines'[v].failCount > 0 /\ machines'[v].state # "down" =>
                       \A i \in DOMAIN outages' :
                          outages'[i].target = v =>
                             outages'[i].started <= machines'[v].firstFailTS
      <4>1. CASE v = t
        BY <2>2, <2>7, <2>9, <3>7, <4>1
      <4>2. CASE v # t
        <5>1. openIDs'[v] = openIDs[v] /\ machines'[v] = machines[v]
          BY <2>9, <3>4, <3>6, <4>2
        <5> QED
          BY <1>0, <2>2, <3>4, <3>5, <3>9, <5>1 DEF RunsDated
      <4> QED
        BY <4>1, <4>2
    <3>10. RunsDated'
      BY <3>8, <3>9 DEF RunsDated
    <3> QED
      BY <3>3, <3>10
  <2> QED
    BY <1>1, <2>10, <2>11, <2>12 DEF Feed, s
<1>2. ASSUME NEW t \in Target, NEW ok \in BOOLEAN, Forget(t, ok)
      PROVE  RunsDated' /\ DurationsSane'
  <2>1. CloseTracked(t, now, ok) /\ now' = now
        /\ machines' = [machines EXCEPT ![t] = NoMachine]
    BY <1>2 DEF Forget
  <2>2. openIDs[t] # NoID => outages[openIDs[t]].started <= now
    BY <1>0 DEF DurationsSane, OpenIDsTracked, OpenOf
  <2>3. DurationsSane'
    BY <1>0, <2>1, <2>2, CloseSane
  <2>4. /\ DOMAIN outages' = DOMAIN outages
        /\ \A j \in DOMAIN outages : outages'[j].started = outages[j].started
                                   /\ outages'[j].target = outages[j].target
        /\ openIDs' = [openIDs EXCEPT ![t] = NoID]
    BY <1>0, <2>1, CloseTrackedEffect
  <2>5. \A v \in Target : openIDs[v] # NoID => openIDs[v] \in DOMAIN outages
    BY <1>0 DEF OpenIDsTracked, OpenOf
  <2>6. openIDs \in [Target -> Nat] /\ machines \in [Target -> Machine \union {NoMachine}]
    BY <1>0 DEF TypeOK
  <2>7. RunsDated'
    BY <1>0, <2>1, <2>4, <2>5, <2>6 DEF RunsDated
  <2> QED
    BY <2>3, <2>7
<1>3. CASE Crash
  BY <1>0, <1>3 DEF Crash, RunsDated, DurationsSane, IsOpen
<1>4. ASSUME NEW failed \in SUBSET Stale, Resume(failed)
      PROVE  RunsDated' /\ DurationsSane'
  <2>1. /\ DOMAIN outages' = DOMAIN outages
        /\ \A i \in DOMAIN outages :
              /\ outages'[i].target = outages[i].target
              /\ outages'[i].started = outages[i].started
              /\ outages'[i].ended = IF i \in Stale \ failed
                                     THEN outages[NextOpen(i)].started
                                     ELSE outages[i].ended
    BY <1>0, <1>4, ResumedTable
  <2>2. now' = now /\ \A v \in Target : machines'[v] \in {NoMachine, NewMachine("down")}
    BY <1>4 DEF Resume
  <2>3. \A i \in Stale : outages[i].started <= outages[NextOpen(i)].started
                        /\ outages[NextOpen(i)].started <= now
    BY <1>0, StaleRow DEF OpenOf, RunsDated, DurationsSane
  <2>4. DurationsSane'
    BY <1>0, <2>1, <2>2, <2>3 DEF DurationsSane, IsOpen
  <2>5. /\ NewMachine("down").firstFailTS = 0 /\ NewMachine("down").firstOkTS = 0
        /\ NewMachine("down").okCount = 0 /\ NewMachine("down").failCount = 0
    BY DEF NewMachine
  <2>6. RunsDated'
    BY <1>0, <2>1, <2>2, <2>5 DEF RunsDated
  <2> QED
    BY <2>4, <2>6
<1>5. CASE Tick
  <2>1. now' = now + 1 /\ outages' = outages /\ machines' = machines /\ openIDs' = openIDs
    BY <1>5 DEF Tick
  <2>2. \A v \in Target : machines[v] # NoMachine =>
           machines[v].firstFailTS \in Nat /\ machines[v].firstOkTS \in Nat
    BY <1>0 DEF TypeOK, Machine
  <2>3. \A i \in DOMAIN outages : outages[i].started \in Nat /\ outages[i].ended \in Int
    BY <1>0 DEF Outage, Null
  <2> QED
    BY <1>0, <2>1, <2>2, <2>3 DEF RunsDated, DurationsSane, IsOpen
<1>6. CASE UNCHANGED vars
  BY <1>0, <1>6 DEF vars, RunsDated, DurationsSane, IsOpen
<1> QED
  BY <1>1, <1>2, <1>3, <1>4, <1>5, <1>6 DEF Next

\* No closed outage has a negative duration or ends in the future, and no
\* outage starts in the future, whatever fails, crashes or is deleted.
THEOREM DurationsAreSane == Spec => []DurationsSane
<1>1. Init => DurationInv
  BY TypeInit, TrackedInit, DatedInit DEF DurationInv
<1>2. DurationInv /\ [Next]_vars => DurationInv'
  BY NextMoves, TypeStep, TrackedStep, DatedStep DEF DurationInv
<1>3. DurationInv => DurationsSane
  BY DEF DurationInv
<1> QED
  BY <1>1, <1>2, <1>3, PTL DEF Spec

-----------------------------------------------------------------------------
(* Agreement of the table and the machines while no write has failed. *)

\* t is DOWN, and the agreement for one target.
IsDown(t) == machines[t] # NoMachine /\ machines[t].state = "down"
Agrees(t) ==
    IF running THEN OpenOf(t) = IF IsDown(t) THEN {openIDs[t]} ELSE {}
    ELSE \A i, j \in OpenOf(t) : i = j

\* The empty table agrees with the empty detector.
LEMMA AgreesInit == Init => TableAgrees
BY DEF Init, TableAgrees, OpenOf

\* A step that leaves target u's rows, id and machine alone keeps its agreement.
LEMMA AgreesKept ==
    ASSUME NEW u \in Target, Agrees(u), running' = running,
           machines'[u] = machines[u], openIDs'[u] = openIDs[u],
           OpenOf(u)' = OpenOf(u)
    PROVE  Agrees(u)'
BY DEF Agrees, IsDown

\* Closing t's tracked event empties its open rows when they were just that
\* one, and leaves the rows of other targets alone.
LEMMA CloseOpenRows ==
    ASSUME TypeOK, OpenIDsTracked, NEW t \in Target, NEW ts \in Nat,
           NEW ok \in BOOLEAN, CloseTracked(t, ts, ok), faults' = 0,
           OpenOf(t) \subseteq {openIDs[t]}
    PROVE  /\ OpenOf(t)' = {}
           /\ \A u \in Target \ {t} : OpenOf(u)' = OpenOf(u)
<1>1. /\ DOMAIN outages' = DOMAIN outages
      /\ \A j \in DOMAIN outages :
            /\ outages'[j].target = outages[j].target
            /\ outages'[j].ended = IF openIDs[t] # NoID /\ ok /\ j = openIDs[t]
                                   THEN ts ELSE outages[j].ended
      /\ openIDs[t] # NoID => ok
  BY CloseTrackedEffect
<1>2. openIDs[t] # NoID => outages[openIDs[t]].target = t
  BY DEF OpenIDsTracked, OpenOf
<1>3. DOMAIN outages = 1..Len(outages) /\ Len(outages) \in Nat
  BY LenProperties DEF TypeOK
<1>4. OpenOf(t)' = {}
  <2> SUFFICES ASSUME NEW i \in DOMAIN outages, outages[i].target = t,
                      outages'[i].ended = Null
               PROVE  FALSE
    BY <1>1 DEF OpenOf, IsOpen
  <2>1. CASE openIDs[t] # NoID /\ i = openIDs[t]
    BY <1>1, <2>1 DEF Null
  <2>2. CASE ~(openIDs[t] # NoID /\ i = openIDs[t])
    <3>1. i \in OpenOf(t)
      BY <1>1, <2>2 DEF OpenOf, IsOpen
    <3>2. i # NoID
      BY <1>3 DEF NoID
    <3> QED
      BY <2>2, <3>1, <3>2
  <2> QED
    BY <2>1, <2>2
<1>5. \A u \in Target \ {t} : OpenOf(u)' = OpenOf(u)
  BY <1>1, <1>2 DEF OpenOf, IsOpen
<1> QED
  BY <1>4, <1>5

\* Every step keeps the table and the machines in agreement until a write fails.
LEMMA AgreesStep ==
    TypeOK /\ TypeOK' /\ OpenIDsTracked /\ TableAgrees /\ [Moves]_vars => TableAgrees'
<1> SUFFICES ASSUME TypeOK, TypeOK', OpenIDsTracked, TableAgrees, [Moves]_vars,
                    faults' = 0, NEW u \in Target
             PROVE  Agrees(u)'
  BY DEF TableAgrees, Agrees, IsDown
<1>0. ASSUME faults = 0, NEW v \in Target PROVE Agrees(v)
  BY <1>0 DEF TableAgrees, Agrees, IsDown
<1>l. DOMAIN outages = 1..Len(outages) /\ Len(outages) \in Nat
  BY LenProperties DEF TypeOK
<1>1. ASSUME NEW s \in Sample, NEW t \in Target, s.target = t,
             NEW ok \in BOOLEAN, Feed(s, ok)
      PROVE  Agrees(u)'
  <2> DEFINE m == MachineOf(t)
             n == MachineFed(m, s)
  <2>1. s \in Sample /\ s.target = t /\ s.ts \in Nat
    BY <1>1 DEF Sample
  <2>2. running /\ running'
    BY <1>1 DEF Feed
  <2>3. m \in Machine /\ n \in Machine
    BY <2>1, MachineOfType, FedMachine
  <2>4. IsDown(t) <=> m.state = "down"
    BY DEF IsDown, MachineOf, NewMachine
  <2>5. FeedMachine(s)
    BY <1>1 DEF Feed, FeedQuiet, FeedDown, FeedUp
  <2>6. /\ machines'[t] = n /\ machines'[t] # NoMachine
        /\ \A v \in Target \ {t} : machines'[v] = machines[v]
    BY <2>1, <2>5, FeedEffect
  <2>7. CASE FeedQuiet(s)
    <3>1. openIDs' = openIDs /\ outages' = outages /\ faults = 0
          /\ ~GoesDown(m, n) /\ ~GoesUp(m, n)
      BY <2>1, <2>7 DEF FeedQuiet
    <3>2. m.state = "down" <=> n.state = "down"
      BY <2>1, <2>3, <3>1, DownStays DEF GoesDown
    <3>3. OpenOf(u)' = OpenOf(u)
      BY <3>1 DEF OpenOf, IsOpen
    <3> HIDE DEF m, n
    <3>4. IsDown(u)' <=> IsDown(u)
      BY <2>4, <2>6, <3>2 DEF IsDown
    <3> QED
      BY <1>0, <2>2, <3>1, <3>3, <3>4 DEF Agrees
  <2>8. CASE FeedDown(s, ok)
    <3>1. /\ m.state # "down" /\ n.state = "down" /\ ok /\ faults = 0
      BY <2>1, <2>8 DEF FeedDown, GoesDown, Write, TypeOK
    <3> DEFINE row == [target |-> t, ended |-> Null, started |-> n.firstFailTS]
    <3>2. outages' = Append(outages, row)
          /\ openIDs' = [openIDs EXCEPT ![t] = Len(outages) + 1]
      BY <2>1, <2>8, <3>1 DEF FeedDown
    <3>3. row.target = t /\ row.ended = Null
      OBVIOUS
    <3> HIDE DEF row, m, n
    <3>4. /\ DOMAIN outages' = 1..(Len(outages) + 1)
          /\ outages'[Len(outages) + 1] = row
          /\ \A i \in DOMAIN outages : outages'[i] = outages[i]
      BY <1>l, <3>2 DEF TypeOK
    <3>5. openIDs'[t] = Len(outages) + 1
          /\ \A v \in Target \ {t} : openIDs'[v] = openIDs[v]
      BY <3>2 DEF TypeOK
    <3>6. CASE u = t
      <4>1. OpenOf(t) = {}
        BY <1>0, <2>2, <2>4, <3>1 DEF Agrees
      <4>2. OpenOf(t)' = {Len(outages) + 1}
        BY <1>l, <3>3, <3>4, <4>1 DEF OpenOf, IsOpen
      <4>3. IsDown(t)'
        BY <2>6, <3>1 DEF IsDown
      <4> QED
        BY <2>2, <3>5, <3>6, <4>2, <4>3 DEF Agrees
    <3>7. CASE u # t
      <4>1. OpenOf(u)' = OpenOf(u)
        BY <1>l, <3>3, <3>4, <3>7 DEF OpenOf, IsOpen
      <4> QED
        BY <1>0, <2>2, <2>6, <3>1, <3>5, <3>7, <4>1, AgreesKept
    <3> QED
      BY <3>6, <3>7
  <2>9. CASE FeedUp(s, ok)
    <3>1. /\ m.state = "down" /\ n.state = "up" /\ CloseTracked(t, n.firstOkTS, ok)
      BY <2>1, <2>9 DEF FeedUp, GoesUp
    <3>2. n.firstOkTS \in Nat
      BY <2>3 DEF Machine
    <3> HIDE DEF m, n
    <3>3. OpenOf(t) = {openIDs[t]}
      <4>1. faults = 0
        BY <3>1, <3>2, CloseTrackedEffect
      <4> QED
        BY <1>0, <2>2, <2>4, <3>1, <4>1 DEF Agrees
    <3>4. OpenOf(t)' = {} /\ \A v \in Target \ {t} : OpenOf(v)' = OpenOf(v)
      BY <3>1, <3>2, <3>3, CloseOpenRows
    <3>5. CASE u = t
      <4>1. ~IsDown(t)'
        BY <2>6, <3>1 DEF IsDown
      <4> QED
        BY <2>2, <3>4, <3>5, <4>1 DEF Agrees
    <3>6. CASE u # t
      <4>1. faults = 0 /\ openIDs' = [openIDs EXCEPT ![t] = NoID]
        BY <3>1, <3>2, CloseTrackedEffect
      <4>2. openIDs'[u] = openIDs[u]
        BY <3>6, <4>1 DEF TypeOK
      <4> QED
        BY <1>0, <2>2, <2>6, <3>4, <3>6, <4>1, <4>2, AgreesKept
    <3> QED
      BY <3>5, <3>6
  <2> QED
    BY <1>1, <2>7, <2>8, <2>9 DEF Feed
<1>2. ASSUME NEW t \in Target, NEW ok \in BOOLEAN, Forget(t, ok)
      PROVE  Agrees(u)'
  <2>1. /\ CloseTracked(t, now, ok) /\ now \in Nat /\ running /\ running'
        /\ machines' = [machines EXCEPT ![t] = NoMachine]
    BY <1>2 DEF Forget, TypeOK
  <2>2. faults = 0 /\ openIDs' = [openIDs EXCEPT ![t] = NoID]
    BY <2>1, CloseTrackedEffect
  <2>3. OpenOf(t) \subseteq {openIDs[t]}
    BY <1>0, <2>1, <2>2 DEF Agrees
  <2>4. OpenOf(t)' = {} /\ \A v \in Target \ {t} : OpenOf(v)' = OpenOf(v)
    BY <2>1, <2>3, CloseOpenRows
  <2>5. machines'[t] = NoMachine
        /\ \A v \in Target \ {t} : machines'[v] = machines[v] /\ openIDs'[v] = openIDs[v]
    BY <2>1, <2>2 DEF TypeOK
  <2>6. CASE u = t
    BY <2>1, <2>4, <2>5, <2>6 DEF Agrees, IsDown
  <2>7. CASE u # t
    BY <1>0, <2>1, <2>2, <2>4, <2>5, <2>7, AgreesKept
  <2> QED
    BY <2>6, <2>7
<1>3. CASE Crash
  <2>1. running /\ ~running' /\ outages' = outages /\ faults = 0
    BY <1>3 DEF Crash
  <2>2. OpenOf(u)' = OpenOf(u)
    BY <2>1 DEF OpenOf, IsOpen
  <2> QED
    BY <1>0, <2>1, <2>2 DEF Agrees
<1>4. ASSUME NEW failed \in SUBSET Stale, Resume(failed)
      PROVE  Agrees(u)'
  <2>1. /\ ~running /\ running' /\ faults' = faults + Cardinality(failed)
        /\ openIDs'[u] = IF OpenOf(u) = {} THEN NoID ELSE Newest(OpenOf(u))
        /\ machines'[u] = IF OpenOf(u) = {} THEN NoMachine ELSE NewMachine("down")
    BY <1>4 DEF Resume
  <2>2. IsFiniteSet(failed)
    <3>1. IsFiniteSet(1..Len(outages)) /\ failed \in SUBSET (1..Len(outages))
      BY <1>l, FS_Interval DEF Stale
    <3> QED
      BY <3>1, FS_Subset
  <2>3. faults = 0
    BY <2>1, <2>2, FS_CardinalityType DEF TypeOK
  <2>4. OpenOf(u) # {} => OpenOf(u) = {Newest(OpenOf(u))}
    <3>1. OpenOf(u) \subseteq 1..Len(outages)
      BY <1>l DEF OpenOf
    <3> QED
      BY <1>0, <1>l, <2>1, <2>3, <3>1, NewestInSet DEF Agrees
  <2>5. \A i \in OpenOf(u) : i \notin Stale
    BY <2>4 DEF Stale, OpenOf
  <2>6. OpenOf(u)' = OpenOf(u)
    <3>1. ASSUME NEW i \in DOMAIN outages
          PROVE  i \in OpenOf(u)' <=> i \in OpenOf(u)
      <4>1. /\ DOMAIN outages' = DOMAIN outages
            /\ outages'[i].target = outages[i].target
            /\ outages'[i].ended = IF i \in Stale \ failed
                                   THEN outages[NextOpen(i)].started
                                   ELSE outages[i].ended
        BY <1>4, ResumedTable
      <4>2. i \in Stale => outages[i].ended = Null
        BY DEF Stale, IsOpen
      <4>3. i \in Stale => outages[i].target # u
        BY <2>5, <4>2 DEF OpenOf, IsOpen
      <4> QED
        BY <4>1, <4>3 DEF OpenOf, IsOpen
    <3>2. DOMAIN outages' = DOMAIN outages
      BY <1>4, ResumedTable
    <3> QED
      BY <3>1, <3>2 DEF OpenOf
  <2>7. NewMachine("down") # NoMachine /\ NewMachine("down").state = "down"
    BY ThresholdAssumption, DetectorAssumption DEF NewMachine, Machine, MachineState
  <2> QED
    BY <2>1, <2>4, <2>6, <2>7 DEF Agrees, IsDown
<1>5. CASE Tick
  <2>1. UNCHANGED <<machines, openIDs, outages, running, faults>>
    BY <1>5 DEF Tick
  <2>2. OpenOf(u)' = OpenOf(u)
    BY <2>1 DEF OpenOf, IsOpen
  <2> QED
    BY <1>0, <2>1, <2>2, AgreesKept
<1>6. CASE UNCHANGED vars
  <2>1. UNCHANGED <<machines, openIDs, outages, running, faults>>
    BY <1>6 DEF vars
  <2>2. OpenOf(u)' = OpenOf(u)
    BY <2>1 DEF OpenOf, IsOpen
  <2> QED
    BY <1>0, <2>1, <2>2, AgreesKept
<1>7. ASSUME NEW s \in Sample PROVE s.target \in Target
  BY <1>7 DEF Sample
<1> QED
  BY <1>1, <1>2, <1>3, <1>4, <1>5, <1>6, <1>7 DEF Moves

\* While no write has failed, a DOWN target has exactly the open event its id
\* names and any other target has none; after a crash at most one is open.
THEOREM TableAndMachinesAgree == Spec => []TableAgrees
<1> DEFINE I == TypeOK /\ OpenIDsTracked /\ TableAgrees
<1>1. Init => I
  BY TypeInit, TrackedInit, AgreesInit
<1>2. I /\ [Next]_vars => I'
  BY NextMoves, TypeStep, TrackedStep, AgreesStep
<1>3. I => TableAgrees
  OBVIOUS
<1> QED
  BY <1>1, <1>2, <1>3, PTL DEF Spec

-----------------------------------------------------------------------------
(* The table implements the abstract log. *)

\* What an outage that begins or ends needs beyond the invariants above: every
\* remembered run carries a time of the clock, and a run of failures that may
\* open the next event began after all earlier ones had ended.
RunsApart ==
    /\ now \in 1..MaxTime
    /\ \A t \in Target : machines[t] # NoMachine =>
          /\ machines[t].okCount > 0 => machines[t].firstOkTS \in 1..MaxTime
          /\ machines[t].failCount > 0 => machines[t].firstFailTS \in 1..MaxTime
          /\ machines[t].failCount > 0 /\ machines[t].state # "down" =>
                \A i \in DOMAIN outages :
                   outages[i].target = t /\ outages[i].ended # Null =>
                      outages[i].ended <= machines[t].firstFailTS

\* The clock starts within its bound.
LEMMA ApartInit == Init => RunsApart
BY DetectorAssumption DEF Init, RunsApart

\* The machine a sample leaves behind: the dates of its runs, which are what a
\* transition writes to the table.
LEMMA FedRuns ==
    ASSUME DurationInv, RunsApart, NEW t \in Target, NEW success \in BOOLEAN,
           NEW flagged \in BOOLEAN, NEW m, NEW n,
           m = MachineOf(t), n = MachineFed(m, SampleNow(t, success, flagged))
    PROVE  /\ m \in Machine /\ n \in Machine
           /\ n.okCount > 0 => n.firstOkTS \in 1..MaxTime
           /\ n.failCount > 0 => n.firstFailTS \in 1..MaxTime
           /\ n.failCount > 0 /\ m.state # "down" =>
                 \A i \in DOMAIN outages :
                    outages[i].target = t /\ outages[i].ended # Null =>
                       outages[i].ended <= n.firstFailTS
           /\ n.okCount > 0 /\ openIDs[t] # NoID => outages[openIDs[t]].started <= n.firstOkTS
           /\ n.state = "down" /\ m.state # "down" => n.failCount > 0
           /\ n.state # "down" /\ m.state = "down" => n.state = "up" /\ n.failCount = 0 /\ n.okCount > 0
<1> DEFINE s == SampleNow(t, success, flagged)
<1>1. TypeOK /\ OpenIDsTracked /\ RunsDated /\ DurationsSane /\ now \in Nat
  BY DEF DurationInv, TypeOK
<1>2. s \in Sample /\ s.target = t /\ s.ts = now
  BY <1>1, SampleNowType DEF SampleNow
<1> HIDE DEF s
<1>3. m \in Machine /\ n \in Machine
  BY <1>1, <1>2, MachineOfType, FedMachine DEF s
<1>4. /\ m.okCount > 0 => m.firstOkTS \in 1..MaxTime
      /\ m.failCount > 0 => m.firstFailTS \in 1..MaxTime
      /\ m.failCount > 0 /\ m.state # "down" =>
            \A i \in DOMAIN outages :
               outages[i].target = t /\ outages[i].ended # Null =>
                  outages[i].ended <= m.firstFailTS
  BY DEF RunsApart, MachineOf, NewMachine
<1>5. m.okCount > 0 /\ openIDs[t] # NoID => outages[openIDs[t]].started <= m.firstOkTS
  BY <1>1 DEF RunsDated, MachineOf, NewMachine
<1>6. n = m \/ n = OkFed(m, now) \/ n = FailFed(m, now)
  BY <1>2 DEF MachineFed, s
<1>7. /\ now \in 1..MaxTime
      /\ \A i \in DOMAIN outages : outages[i].ended # Null => outages[i].ended <= now
      /\ openIDs[t] # NoID => outages[openIDs[t]].started <= now
  BY <1>1 DEF RunsApart, DurationsSane, IsOpen, OpenIDsTracked, OpenOf
<1>8. CASE n = m
  BY <1>3, <1>4, <1>5, <1>8
<1>9. CASE n = OkFed(m, now)
  <2>1. /\ n.failCount = 0 /\ n.okCount > 0
        /\ n.firstOkTS = IF m.okCount = 0 THEN now ELSE m.firstOkTS
        /\ n.state \in {"up", "down"}
        /\ n.state = "down" => m.state = "down"
    BY <1>1, <1>3, <1>9, OkFedFields
  <2>2. m.okCount \in Nat
    BY <1>3 DEF Machine
  <2> QED
    BY <1>3, <1>4, <1>5, <1>7, <2>1, <2>2
<1>10. CASE n = FailFed(m, now)
  <2>1. /\ n.okCount = 0 /\ n.failCount > 0
        /\ n.firstFailTS = IF m.failCount = 0 THEN now ELSE m.firstFailTS
        /\ n.state \in {"down", m.state}
    BY <1>1, <1>3, <1>10, FailFedFields
  <2>2. m.failCount \in Nat
    BY <1>3 DEF Machine
  <2> QED
    BY <1>3, <1>4, <1>7, <2>1, <2>2
<1> QED
  BY <1>6, <1>8, <1>9, <1>10

\* A sample keeps the runs dated within the clock and apart from the events
\* that have ended.
LEMMA ApartFeed ==
    ASSUME DurationInv, RunsApart, NEW t \in Target, NEW success \in BOOLEAN,
           NEW flagged \in BOOLEAN, NEW ok \in BOOLEAN,
           Feed(SampleNow(t, success, flagged), ok)
    PROVE  RunsApart'
<1> DEFINE s == SampleNow(t, success, flagged)
           m == MachineOf(t)
           n == MachineFed(m, s)
<1>1. TypeOK /\ OpenIDsTracked /\ Len(outages) \in Nat /\ DOMAIN outages = 1..Len(outages)
  BY LenProperties DEF DurationInv, TypeOK
<1>2. s \in Sample /\ s.target = t
  BY <1>1, SampleNowType DEF SampleNow
<1>3. /\ m \in Machine /\ n \in Machine
      /\ n.okCount > 0 => n.firstOkTS \in 1..MaxTime
      /\ n.failCount > 0 => n.firstFailTS \in 1..MaxTime
      /\ n.failCount > 0 /\ m.state # "down" =>
            \A i \in DOMAIN outages :
               outages[i].target = t /\ outages[i].ended # Null =>
                  outages[i].ended <= n.firstFailTS
      /\ n.state # "down" /\ m.state = "down" => n.state = "up" /\ n.failCount = 0
  BY FedRuns
<1>4. now' = now /\ now \in 1..MaxTime
  BY DEF Feed, RunsApart
<1>5. FeedMachine(s)
  BY DEF Feed, FeedQuiet, FeedDown, FeedUp
<1> HIDE DEF s
<1>6. machines'[t] = n /\ \A v \in Target \ {t} : machines'[v] = machines[v]
  BY <1>1, <1>2, <1>5, FeedEffect
<1>7. /\ DOMAIN outages \subseteq DOMAIN outages'
      /\ \A i \in DOMAIN outages' : outages'[i].target # t =>
            i \in DOMAIN outages /\ outages'[i] = outages[i]
      /\ ~GoesDown(m, n) /\ ~GoesUp(m, n) => outages' = outages
  <2>1. CASE FeedQuiet(s)
    BY <2>1 DEF FeedQuiet
  <2>2. CASE FeedDown(s, ok)
    <3> DEFINE row == [target |-> t, ended |-> Null, started |-> n.firstFailTS]
    <3>1. GoesDown(m, n) /\ (outages' = outages \/ outages' = Append(outages, row))
      BY <1>2, <2>2 DEF FeedDown
    <3>2. row.target = t
      OBVIOUS
    <3> HIDE DEF row, m, n
    <3>3. CASE outages' = outages
      BY <3>1, <3>3
    <3>4. CASE outages' = Append(outages, row)
      <4>1. /\ DOMAIN outages' = 1..(Len(outages) + 1)
            /\ outages'[Len(outages) + 1] = row
            /\ \A i \in DOMAIN outages : outages'[i] = outages[i]
        BY <1>1, <3>4 DEF TypeOK
      <4> QED
        BY <1>1, <3>1, <3>2, <4>1
    <3> QED
      BY <3>1, <3>3, <3>4
  <2>3. CASE FeedUp(s, ok)
    <3>1. GoesUp(m, n) /\ CloseTracked(t, n.firstOkTS, ok)
      BY <1>2, <2>3 DEF FeedUp
    <3>2. CASE openIDs[t] = NoID
      BY <3>1, <3>2 DEF CloseTracked
    <3>3. CASE openIDs[t] # NoID
      <4>1. openIDs[t] \in DOMAIN outages /\ outages[openIDs[t]].target = t
        BY <1>1, <3>3 DEF OpenIDsTracked, OpenOf
      <4>2. outages' = outages \/ outages' = Closed(openIDs[t], n.firstOkTS)
        BY <3>1, <3>3 DEF CloseTracked
      <4>3. n.firstOkTS \in Nat
        BY <1>3 DEF Machine
      <4> HIDE DEF m, n
      <4>4. \A i \in DOMAIN outages : i # openIDs[t] =>
               Closed(openIDs[t], n.firstOkTS)[i] = outages[i]
        BY DEF Closed
      <4> QED
        BY <1>1, <3>1, <4>1, <4>2, <4>3, <4>4, ClosedRow
    <3> QED
      BY <3>2, <3>3
  <2> QED
    BY <2>1, <2>2, <2>3 DEF Feed, s
<1>8. GoesDown(m, n) <=> m.state # "down" /\ n.state = "down"
  BY DEF GoesDown
<1>9. GoesUp(m, n) <=> m.state = "down" /\ n.state = "up"
  BY DEF GoesUp
<1> HIDE DEF m, n
<1>10. ASSUME n.failCount > 0, n.state # "down", NEW i \in DOMAIN outages',
              outages'[i].target = t, outages'[i].ended # Null
       PROVE  outages'[i].ended <= n.firstFailTS
  <2>1. m.state # "down" /\ outages' = outages
    BY <1>3, <1>7, <1>8, <1>9, <1>10
  <2> QED
    BY <1>3, <1>10, <2>1
<1>11. ASSUME NEW v \in Target, machines'[v] # NoMachine
       PROVE  /\ machines'[v].okCount > 0 => machines'[v].firstOkTS \in 1..MaxTime
              /\ machines'[v].failCount > 0 => machines'[v].firstFailTS \in 1..MaxTime
              /\ machines'[v].failCount > 0 /\ machines'[v].state # "down" =>
                    \A i \in DOMAIN outages' :
                       outages'[i].target = v /\ outages'[i].ended # Null =>
                          outages'[i].ended <= machines'[v].firstFailTS
  <2>1. CASE v = t
    BY <1>3, <1>6, <1>10, <2>1
  <2>2. CASE v # t
    BY <1>6, <1>7, <1>11, <2>2 DEF RunsApart
  <2> QED
    BY <2>1, <2>2
<1> QED
  BY <1>4, <1>11 DEF RunsApart

\* Every step keeps the runs apart from the events that have ended.
LEMMA ApartStep == DurationInv /\ RunsApart /\ [Next]_vars => RunsApart'
<1> SUFFICES ASSUME DurationInv, RunsApart, [Next]_vars
             PROVE  RunsApart'
  OBVIOUS
<1>0. /\ TypeOK /\ OpenIDsTracked /\ Len(outages) \in Nat /\ DOMAIN outages = 1..Len(outages)
      /\ machines \in [Target -> Machine \union {NoMachine}]
  BY LenProperties DEF DurationInv, TypeOK
<1>1. ASSUME NEW t \in Target, NEW success \in BOOLEAN, NEW flagged \in BOOLEAN,
             NEW ok \in BOOLEAN, Feed(SampleNow(t, success, flagged), ok)
      PROVE  RunsApart'
  BY <1>1, ApartFeed
<1>2. ASSUME NEW t \in Target, NEW ok \in BOOLEAN, Forget(t, ok)
      PROVE  RunsApart'
  <2>1. /\ CloseTracked(t, now, ok) /\ now' = now /\ now \in Nat
        /\ machines' = [machines EXCEPT ![t] = NoMachine]
    BY <1>0, <1>2 DEF Forget, TypeOK
  <2>2. /\ DOMAIN outages' = DOMAIN outages
        /\ \A j \in DOMAIN outages :
              /\ outages'[j].target = outages[j].target
              /\ outages[j].target # t => outages'[j].ended = outages[j].ended
    <3>1. openIDs[t] # NoID => outages[openIDs[t]].target = t
      BY <1>0 DEF OpenIDsTracked, OpenOf
    <3>2. /\ DOMAIN outages' = DOMAIN outages
          /\ \A j \in DOMAIN outages :
                /\ outages'[j].target = outages[j].target
                /\ outages'[j].ended = IF openIDs[t] # NoID /\ ok /\ j = openIDs[t]
                                       THEN now ELSE outages[j].ended
      <4>1. TypeOK /\ OpenIDsTracked /\ now \in Nat /\ CloseTracked(t, now, ok)
        BY <1>0, <2>1
      <4> QED
        BY <4>1, CloseTrackedEffect
    <3> QED
      BY <3>1, <3>2
  <2>3. machines'[t] = NoMachine /\ \A v \in Target \ {t} : machines'[v] = machines[v]
    BY <1>0, <2>1
  <2> QED
    BY <2>1, <2>2, <2>3 DEF RunsApart
<1>3. CASE Crash
  BY <1>3 DEF Crash, RunsApart
<1>4. ASSUME NEW failed \in SUBSET Stale, Resume(failed)
      PROVE  RunsApart'
  <2>1. now' = now /\ \A v \in Target : machines'[v] \in {NoMachine, NewMachine("down")}
    BY <1>4 DEF Resume
  <2>2. NewMachine("down").okCount = 0 /\ NewMachine("down").failCount = 0
    BY DEF NewMachine
  <2> QED
    BY <2>1, <2>2 DEF RunsApart
<1>5. CASE Tick
  <2>1. now' \in 1..MaxTime
    BY <1>5, DetectorAssumption DEF Tick, RunsApart
  <2>2. outages' = outages /\ machines' = machines
    BY <1>5 DEF Tick
  <2> QED
    BY <2>1, <2>2 DEF RunsApart
<1>6. CASE UNCHANGED vars
  BY <1>6 DEF vars, RunsApart
<1> QED
  BY <1>1, <1>2, <1>3, <1>4, <1>5, <1>6 DEF Next

\* What the refinement rests on.
LogInv == DurationInv /\ TableAgrees /\ RunsApart

\* Closing t's tracked event, while no write fails, ends one outage of the log.
LEMMA CloseEnds ==
    ASSUME TypeOK, OpenIDsTracked, NEW t \in Target, NEW ts \in 1..MaxTime,
           NEW ok \in BOOLEAN, CloseTracked(t, ts, ok), faults' = 0,
           openIDs[t] # NoID => outages[openIDs[t]].started <= ts
    PROVE  outages' = outages \/ Log!End(t, ts)
<1>1. CASE openIDs[t] = NoID
  BY <1>1 DEF CloseTracked
<1>2. CASE openIDs[t] # NoID
  <2>1. /\ openIDs[t] \in DOMAIN outages
        /\ outages[openIDs[t]].target = t
        /\ outages[openIDs[t]].ended = Null
    BY <1>2 DEF OpenIDsTracked, OpenOf, IsOpen
  <2>2. ts \in Nat
    BY DetectorAssumption
  <2>3. ok
    BY <1>2, <2>2, CloseTrackedEffect
  <2>4. outages' = [outages EXCEPT ![openIDs[t]].ended = ts]
    BY <1>2, <2>3 DEF CloseTracked, Closed
  <2> QED
    BY <1>2, <2>1, <2>4 DEF Log!End, Log!NotEnded, Null
<1> QED
  BY <1>1, <1>2

\* While no write fails, a sample begins an outage, ends one, or neither.
LEMMA FeedLogs ==
    ASSUME LogInv, NEW t \in Target, NEW success \in BOOLEAN, NEW flagged \in BOOLEAN,
           NEW ok \in BOOLEAN, Feed(SampleNow(t, success, flagged), ok), faults' = 0
    PROVE  outages' = outages \/ \E ts \in 1..MaxTime : Log!Begin(t, ts) \/ Log!End(t, ts)
<1> DEFINE s == SampleNow(t, success, flagged)
           m == MachineOf(t)
           n == MachineFed(m, s)
<1>1. DurationInv /\ RunsApart /\ TableAgrees /\ TypeOK /\ OpenIDsTracked
  BY DEF LogInv, DurationInv
<1>2. s.target = t /\ running
  BY DEF SampleNow, Feed
<1>3. /\ m \in Machine
      /\ n.okCount > 0 => n.firstOkTS \in 1..MaxTime
      /\ n.failCount > 0 => n.firstFailTS \in 1..MaxTime
      /\ n.failCount > 0 /\ m.state # "down" =>
            \A i \in DOMAIN outages :
               outages[i].target = t /\ outages[i].ended # Null =>
                  outages[i].ended <= n.firstFailTS
      /\ n.okCount > 0 /\ openIDs[t] # NoID => outages[openIDs[t]].started <= n.firstOkTS
      /\ n.state = "down" /\ m.state # "down" => n.failCount > 0
      /\ n.state # "down" /\ m.state = "down" => n.okCount > 0
  BY <1>1, FedRuns
<1> HIDE DEF s
<1>4. CASE FeedQuiet(s)
  BY <1>4 DEF FeedQuiet
<1>5. CASE FeedDown(s, ok)
  <2>1. m.state # "down" /\ n.state = "down"
    BY <1>2, <1>5 DEF FeedDown, GoesDown
  <2>2. ok /\ faults = 0
    BY <1>1, <1>5 DEF FeedDown, Write, TypeOK
  <2>3. outages' = Append(outages, [target |-> t, started |-> n.firstFailTS, ended |-> Null])
    BY <1>2, <1>5, <2>2 DEF FeedDown
  <2>4. OpenOf(t) = {}
    <3>1. ~(machines[t] # NoMachine /\ machines[t].state = "down")
      BY <2>1 DEF MachineOf
    <3> QED
      BY <1>1, <1>2, <2>2, <3>1 DEF TableAgrees
  <2>5. \A i \in DOMAIN outages : outages[i].target = t => outages[i].ended # Null
    BY <2>4 DEF OpenOf, IsOpen
  <2> HIDE DEF m, n
  <2>6. Log!Begin(t, n.firstFailTS)
    BY <1>3, <2>1, <2>3, <2>5 DEF Log!Begin, Log!NotEnded, Null
  <2> QED
    BY <1>3, <2>1, <2>6
<1>6. CASE FeedUp(s, ok)
  <2>1. m.state = "down" /\ n.state = "up" /\ CloseTracked(t, n.firstOkTS, ok)
    BY <1>2, <1>6 DEF FeedUp, GoesUp
  <2> HIDE DEF m, n
  <2>2. n.firstOkTS \in 1..MaxTime
        /\ (openIDs[t] # NoID => outages[openIDs[t]].started <= n.firstOkTS)
    BY <1>3, <2>1
  <2> QED
    BY <1>1, <2>1, <2>2, CloseEnds
<1> QED
  BY <1>4, <1>5, <1>6 DEF Feed, s

\* While no write fails, every step is one of the log or leaves it alone.
LogKept == faults' = 0 => Log!Next \/ UNCHANGED outages
LEMMA LogStep == LogInv /\ [Next]_vars => LogKept
<1> SUFFICES ASSUME LogInv, [Next]_vars, faults' = 0
             PROVE  Log!Next \/ outages' = outages
  BY DEF LogKept
<1>0. /\ DurationInv /\ RunsApart /\ TableAgrees /\ TypeOK /\ OpenIDsTracked /\ DurationsSane
      /\ Len(outages) \in Nat /\ DOMAIN outages = 1..Len(outages)
  BY LenProperties DEF LogInv, DurationInv, TypeOK
<1>1. ASSUME NEW t \in Target, NEW success \in BOOLEAN, NEW flagged \in BOOLEAN,
             NEW ok \in BOOLEAN, Feed(SampleNow(t, success, flagged), ok)
      PROVE  Log!Next \/ outages' = outages
  BY <1>1, FeedLogs DEF Log!Next
<1>2. ASSUME NEW t \in Target, NEW ok \in BOOLEAN, Forget(t, ok)
      PROVE  Log!Next \/ outages' = outages
  <2>1. CloseTracked(t, now, ok) /\ now \in 1..MaxTime
    BY <1>0, <1>2 DEF Forget, RunsApart
  <2>2. openIDs[t] # NoID => outages[openIDs[t]].started <= now
    BY <1>0 DEF OpenIDsTracked, OpenOf, DurationsSane
  <2> QED
    BY <1>0, <2>1, <2>2, CloseEnds DEF Log!Next
<1>3. CASE Crash
  BY <1>3 DEF Crash
<1>4. ASSUME NEW failed \in SUBSET Stale, Resume(failed)
      PROVE  Log!Next \/ outages' = outages
  <2>1. ~running /\ faults' = faults + Cardinality(failed)
    BY <1>4 DEF Resume
  <2>2. IsFiniteSet(failed)
    <3>1. IsFiniteSet(1..Len(outages)) /\ failed \in SUBSET (1..Len(outages))
      BY <1>0, FS_Interval DEF Stale
    <3> QED
      BY <3>1, FS_Subset
  <2>3. faults = 0
    BY <1>0, <2>1, <2>2, FS_CardinalityType DEF TypeOK
  <2>4. \A i \in DOMAIN outages : i \notin Stale
    <3> SUFFICES ASSUME NEW i \in DOMAIN outages, i \in Stale PROVE FALSE
      OBVIOUS
    <3>1. NextOpen(i) \in OpenOf(outages[i].target) /\ NextOpen(i) > i
      BY <1>0, StaleRow
    <3>2. i \in OpenOf(outages[i].target) /\ outages[i].target \in Target
      <4>1. outages[i] \in Outage
        BY <1>0, ElementOfSeq DEF TypeOK
      <4> QED
        BY <4>1 DEF Stale, OpenOf, Outage
    <3>3. NextOpen(i) = i
      BY <1>0, <2>1, <2>3, <3>1, <3>2 DEF TableAgrees
    <3> QED
      BY <1>0, <3>1, <3>3
  <2>5. outages' = outages
    <3>1. outages' = [i \in DOMAIN outages |-> outages[i]]
      BY <1>4, <2>4 DEF Resume
    <3> QED
      BY <1>0, <3>1 DEF TypeOK
  <2> QED
    BY <2>5
<1>5. CASE Tick
  BY <1>5 DEF Tick
<1>6. CASE UNCHANGED vars
  BY <1>6 DEF vars
<1> QED
  BY <1>1, <1>2, <1>3, <1>4, <1>5, <1>6 DEF Next

\* While no write fails, the table implements the abstract log of outages, for
\* any targets and thresholds, across crashes, restarts and deletions.
THEOREM TableImplementsLog == Spec => ImplementsLog
<1>1. Init => LogInv
  BY TypeInit, TrackedInit, DatedInit, AgreesInit, ApartInit DEF LogInv, DurationInv
<1>2. LogInv /\ [Next]_vars => LogInv'
  BY NextMoves, TypeStep, TrackedStep, DatedStep, AgreesStep, ApartStep DEF LogInv, DurationInv
<1>3. Init => Log!Init
  BY DEF Init, Log!Init
<1>4. LogInv /\ [Next]_vars => [LogKept]_vars
  BY LogStep
<1> QED
  BY <1>1, <1>2, <1>3, <1>4, PTL DEF Spec, ImplementsLog, LogKept

-----------------------------------------------------------------------------
(* Ping loops: none is orphaned. *)

\* The indices of a target's loops that are not cancelled.
LiveLoops(t) == {g \in DOMAIN loops[t] : ~loops[t][g].cancelled}
OneLive(t) == LiveLoops(t) = IF loopOf[t] = NoLoop THEN {} ELSE {loopOf[t]}

\* The table as ListTargets reads it, and a target running as such a list asks.
Wanted == [t \in Target |-> IF rows[t] # NoRow /\ rows[t].enabled THEN rows[t].spec ELSE NoRow]
RunsAs(want, t) ==
    IF want[t] = NoRow THEN loopOf[t] = NoLoop
    ELSE loopOf[t] # NoLoop /\ loops[t][loopOf[t]].spec = want[t]

\* The program starts with a loop for the target configured at boot, if any.
LEMMA LoopsInit == TInit => TypeOKLoops /\ OneLiveLoop
<1> SUFFICES ASSUME TInit PROVE TypeOKLoops /\ OneLiveLoop
  OBVIOUS
<1>1. PICK boot \in {{}} \union {{t} : t \in Target}, spec \in {CHOOSE s \in SpecKey : TRUE} :
         /\ rows = [u \in Target |-> IF u \in boot THEN [enabled |-> TRUE, spec |-> spec] ELSE NoRow]
         /\ loopOf = [u \in Target |-> IF u \in boot THEN 1 ELSE NoLoop]
         /\ loops = [u \in Target |-> IF u \in boot THEN <<NewLoop(spec)>> ELSE <<>>]
  BY DEF TInit
<1>2. spec \in SpecKey
  BY SpecKeyAssumption
<1>3. NewLoop(spec) \in Loop /\ NewLoop(spec).cancelled = FALSE
  BY <1>2 DEF NewLoop, Loop, NoTS
<1>4. <<NewLoop(spec)>> \in Seq(Loop) /\ DOMAIN <<NewLoop(spec)>> = {1}
      /\ <<NewLoop(spec)>>[1] = NewLoop(spec)
  BY <1>3
<1>5. TypeOKLoops
  <2>1. now \in Nat /\ handlers \in [Handler -> Request]
    BY DEF TInit, Init, Request
  <2>2. rows \in [Target -> Row \union {NoRow}]
    BY <1>1, <1>2 DEF Row
  <2>3. loopOf \in [Target -> Nat]
    BY <1>1 DEF NoLoop
  <2>4. loops \in [Target -> Seq(Loop)]
    BY <1>1, <1>4
  <2> QED
    BY <2>1, <2>2, <2>3, <2>4 DEF TypeOKLoops
<1>6. ASSUME NEW u \in Target PROVE OneLive(u)
  <2>1. CASE u \in boot
    BY <1>1, <1>3, <1>4, <2>1 DEF OneLive, LiveLoops, NoLoop
  <2>2. CASE u \notin boot
    BY <1>1, <2>2 DEF OneLive, LiveLoops, NoLoop
  <2> QED
    BY <2>1, <2>2
<1> QED
  BY <1>5, <1>6 DEF OneLiveLoop, OneLive, LiveLoops

\* Replacing one element of a sequence leaves the rest.
LEMMA ReplaceOne ==
    ASSUME NEW S, NEW q \in Seq(S), NEW i \in DOMAIN q, NEW e \in S
    PROVE  /\ [q EXCEPT ![i] = e] \in Seq(S)
           /\ Len([q EXCEPT ![i] = e]) = Len(q)
           /\ DOMAIN [q EXCEPT ![i] = e] = DOMAIN q
           /\ \A g \in DOMAIN q : [q EXCEPT ![i] = e][g] = IF g = i THEN e ELSE q[g]
<1>1. DOMAIN q = 1..Len(q) /\ Len(q) \in Nat
  BY LenProperties
<1> QED
  BY <1>1, ExceptSeq

\* What Reconcile makes of one target's loops.
LEMMA ReconcileOne ==
    ASSUME TypeOKLoops, OneLiveLoop, NEW want \in Want, Reconcile(want), NEW t \in Target
    PROVE  /\ loops'[t] \in Seq(Loop) /\ loopOf'[t] \in Nat
           /\ LiveLoops(t)' = IF loopOf'[t] = NoLoop THEN {} ELSE {loopOf'[t]}
           /\ RunsAs(want, t)'
<1> DEFINE stop == loopOf[t] # NoLoop /\ ~Current(t, want)
           start == want[t] # NoRow /\ ~Current(t, want)
           kept == IF stop THEN [loops[t] EXCEPT ![loopOf[t]].cancelled = TRUE] ELSE loops[t]
<1>1. /\ loops'[t] = IF start THEN Append(kept, NewLoop(want[t])) ELSE kept
      /\ loopOf'[t] = IF start THEN Len(loops[t]) + 1 ELSE IF stop THEN NoLoop ELSE loopOf[t]
  BY DEF Reconcile
<1>2. /\ loops[t] \in Seq(Loop) /\ Len(loops[t]) \in Nat
      /\ DOMAIN loops[t] = 1..Len(loops[t]) /\ loopOf[t] \in Nat
  BY LenProperties DEF TypeOKLoops
<1>3. LiveLoops(t) = IF loopOf[t] = NoLoop THEN {} ELSE {loopOf[t]}
  BY DEF OneLiveLoop, LiveLoops
<1>4. want[t] # NoRow => NewLoop(want[t]) \in Loop /\ ~NewLoop(want[t]).cancelled
  BY DEF Want, NewLoop, Loop, NoTS
<1>5. /\ kept \in Seq(Loop) /\ Len(kept) = Len(loops[t]) /\ DOMAIN kept = DOMAIN loops[t]
      /\ {g \in DOMAIN kept : ~kept[g].cancelled} = IF stop THEN {} ELSE LiveLoops(t)
  <2>1. CASE stop
    <3> DEFINE i == loopOf[t]
               last == [loops[t][i] EXCEPT !.cancelled = TRUE]
    <3>1. i \in DOMAIN loops[t] /\ loops[t][i] \in Loop
      BY <1>2, <1>3, <2>1, ElementOfSeq DEF LiveLoops
    <3>2. last \in Loop /\ last.cancelled = TRUE
      BY <3>1 DEF Loop
    <3>3. kept = [loops[t] EXCEPT ![i] = last]
      BY <2>1
    <3> HIDE DEF last, kept, i, stop
    <3>4. /\ kept \in Seq(Loop) /\ Len(kept) = Len(loops[t]) /\ DOMAIN kept = DOMAIN loops[t]
          /\ \A g \in DOMAIN loops[t] : kept[g] = IF g = i THEN last ELSE loops[t][g]
      BY <1>2, <3>1, <3>2, <3>3, ReplaceOne
    <3>5. \A g \in DOMAIN loops[t] : g # i => loops[t][g].cancelled
      BY <1>3, <2>1 DEF LiveLoops, i, stop
    <3> QED
      BY <2>1, <3>2, <3>4, <3>5
  <2>2. CASE ~stop
    BY <1>2, <2>2 DEF LiveLoops
  <2> QED
    BY <2>1, <2>2
<1>6. start \/ stop => {g \in DOMAIN kept : ~kept[g].cancelled} = {}
  BY <1>3, <1>5
<1> HIDE DEF kept
<1>7. CASE start
  <2> DEFINE new == NewLoop(want[t])
  <2>1. new \in Loop /\ ~new.cancelled
    BY <1>4, <1>7
  <2> HIDE DEF new
  <2>2. loops'[t] = Append(kept, new)
    BY <1>1, <1>7 DEF new
  <2>3. /\ loops'[t] \in Seq(Loop) /\ DOMAIN loops'[t] = 1..(Len(loops[t]) + 1)
        /\ loops'[t][Len(loops[t]) + 1] = new
        /\ \A g \in 1..Len(loops[t]) : loops'[t][g] = kept[g]
    BY <1>2, <1>5, <2>1, <2>2
  <2>4. \A g \in 1..Len(loops[t]) : kept[g].cancelled
    BY <1>2, <1>5, <1>6, <1>7
  <2>5. LiveLoops(t)' = {Len(loops[t]) + 1}
    BY <1>2, <2>1, <2>3, <2>4 DEF LiveLoops
  <2>6. loopOf'[t] = Len(loops[t]) + 1
    BY <1>1, <1>7
  <2>7. RunsAs(want, t)'
    BY <1>2, <1>7, <2>3, <2>6 DEF RunsAs, NoLoop, new, NewLoop
  <2> QED
    BY <1>2, <2>3, <2>5, <2>6, <2>7 DEF NoLoop
<1>8. CASE ~start
  <2>1. loops'[t] = kept /\ LiveLoops(t)' = {g \in DOMAIN kept : ~kept[g].cancelled}
    BY <1>1, <1>8 DEF LiveLoops
  <2>2. /\ loops'[t] \in Seq(Loop) /\ loopOf'[t] \in Nat
        /\ LiveLoops(t)' = IF loopOf'[t] = NoLoop THEN {} ELSE {loopOf'[t]}
    BY <1>1, <1>2, <1>3, <1>5, <1>8, <2>1 DEF NoLoop
  <2>3. CASE want[t] = NoRow
    <3>1. ~Current(t, want)
      <4>1. loopOf[t] # NoLoop => loops[t][loopOf[t]] \in Loop
        BY <1>2, <1>3, ElementOfSeq DEF LiveLoops
      <4> QED
        BY <4>1, <2>3, NoRowAssumption DEF Current, Loop
    <3>2. loopOf'[t] = NoLoop
      BY <1>1, <1>8, <3>1
    <3> QED
      BY <2>2, <2>3, <3>2 DEF RunsAs
  <2>4. CASE want[t] # NoRow
    <3>1. Current(t, want)
      BY <1>8, <2>4
    <3>2. loopOf'[t] = loopOf[t] /\ loops'[t] = loops[t]
      BY <1>1, <1>8, <2>1, <3>1 DEF kept
    <3> QED
      BY <2>2, <2>4, <3>1, <3>2 DEF RunsAs, Current
  <2> QED
    BY <2>2, <2>3, <2>4
<1> QED
  BY <1>7, <1>8

\* One step of one loop: it may end or move on, never be cancelled or revived.
SameLoop(l, old) == l.cancelled = old.cancelled /\ l.spec = old.spec

LEMMA LoopMoves ==
    ASSUME TypeOKLoops, NEW t \in Target, NEW g \in DOMAIN loops[t], LoopStep(t, g)
    PROVE  /\ UNCHANGED <<now, rows, loopOf, handlers, misled>>
           /\ \E l \in Loop : SameLoop(l, loops[t][g]) /\ SetLoop(t, g, l)
<1>1. loops[t][g] \in Loop /\ now \in Nat
  BY ElementOfSeq DEF TypeOKLoops
<1>2. CASE StartPing(t, g)
  <2>1. [loops[t][g] EXCEPT !.pc = "ping", !.ts = now] \in Loop
    BY <1>1 DEF Loop
  <2> QED
    BY <1>1, <1>2, <2>1 DEF StartPing, LoopKeeps, vars, Loop, SameLoop
<1>3. Gone(loops[t][g]) \in Loop /\ SameLoop(Gone(loops[t][g]), loops[t][g])
  BY <1>1 DEF Gone, Loop, NoTS, SameLoop
<1>4. CASE LoopExits(t, g)
  BY <1>3, <1>4 DEF LoopExits, LoopKeeps, vars
<1>5. ASSUME NEW success \in BOOLEAN, PingReturns(t, g, success)
      PROVE  /\ UNCHANGED <<now, rows, loopOf, handlers, misled>>
             /\ \E l \in Loop : SameLoop(l, loops[t][g]) /\ SetLoop(t, g, l)
  <2> DEFINE l == [loops[t][g] EXCEPT !.pc = "add", !.success = success]
  <2>1. l \in Loop /\ SameLoop(l, loops[t][g])
    BY <1>1 DEF Loop, SameLoop
  <2> HIDE DEF l
  <2>2. SetLoop(t, g, IF loops[t][g].cancelled THEN Gone(loops[t][g]) ELSE l)
    BY <1>5 DEF PingReturns, l
  <2>3. UNCHANGED <<now, rows, loopOf, handlers, misled>>
    BY <1>5 DEF PingReturns, LoopKeeps, vars
  <2>4. CASE loops[t][g].cancelled
    BY <1>3, <2>2, <2>3, <2>4
  <2>5. CASE ~loops[t][g].cancelled
    BY <2>1, <2>2, <2>3, <2>5
  <2> QED
    BY <2>4, <2>5
<1>6. CASE AddToTracker(t, g)
  <2>1. [loops[t][g] EXCEPT !.pc = "feed"] \in Loop
    BY <1>1 DEF Loop
  <2> QED
    BY <1>1, <1>6, <2>1 DEF AddToTracker, LoopKeeps, vars, Loop, SameLoop
<1>7. CASE FeedDetector(t, g)
  <2>1. /\ [loops[t][g] EXCEPT !.pc = "timer", !.ts = NoTS, !.success = FALSE] \in Loop
        /\ SameLoop([loops[t][g] EXCEPT !.pc = "timer", !.ts = NoTS, !.success = FALSE], loops[t][g])
    BY <1>1 DEF Loop, NoTS, SameLoop
  <2> QED
    BY <1>7, <2>1 DEF FeedDetector, Feed, LoopKeeps
<1> QED
  BY <1>2, <1>4, <1>5, <1>6, <1>7 DEF LoopStep

\* One step of a request: only ApplyList touches the loops, and it goes by a
\* list ListTargets made.
LoopsAlone == UNCHANGED <<loops, loopOf>>
TypeOKRequests ==
    now \in Nat /\ rows \in [Target -> Row \union {NoRow}] /\ handlers \in [Handler -> Request]

LEMMA AcceptKeepsType ==
    ASSUME TypeOKRequests, NEW h \in Handler, NEW next \in Request, Accept(h, next)
    PROVE  handlers' \in [Handler -> Request]
BY DEF TypeOKRequests, Accept

LEMMA GotoKeepsType ==
    ASSUME TypeOKRequests, NEW h \in Handler, NEW next \in Request, Goto(h, next)
    PROVE  handlers' \in [Handler -> Request]
BY DEF TypeOKRequests, Goto

LEMMA RequestBegins ==
    ASSUME TypeOKRequests, NEW h \in Handler, NEW t \in Target, NEW spec \in SpecKey,
           \/ \E enabled \in BOOLEAN : CreateTarget(h, t, enabled, spec)
           \/ \E enabled \in {TRUE, FALSE, Keep} : UpdateRead(h, t, enabled, spec)
           \/ DeleteTarget(h, t)
    PROVE  TypeOKRequests' /\ LoopsAlone
<1>1. ASSUME NEW enabled \in BOOLEAN, CreateTarget(h, t, enabled, spec)
      PROVE  TypeOKRequests' /\ LoopsAlone
  <2>1. [pc |-> "list"] \in Request
    BY DEF Request
  <2>2. handlers' \in [Handler -> Request]
    BY <1>1, <2>1, AcceptKeepsType DEF CreateTarget
  <2>3. [enabled |-> enabled, spec |-> spec] \in Row
    BY DEF Row
  <2>4. rows' = [rows EXCEPT ![t] = [enabled |-> enabled, spec |-> spec]]
        /\ UNCHANGED <<now, loops, loopOf>>
    BY <1>1 DEF CreateTarget, vars
  <2> QED
    BY <2>2, <2>3, <2>4 DEF TypeOKRequests, LoopsAlone
<1>2. ASSUME NEW enabled \in {TRUE, FALSE, Keep}, UpdateRead(h, t, enabled, spec)
      PROVE  TypeOKRequests' /\ LoopsAlone
  <2> DEFINE stays == IF enabled = Keep THEN rows[t].enabled ELSE enabled
             next == [pc |-> "write", target |-> t,
                      row |-> [enabled |-> stays, spec |-> spec]]
  <2>1. rows[t] \in Row
    BY <1>2 DEF UpdateRead, TypeOKRequests
  <2>2. stays \in BOOLEAN
    <3>1. CASE enabled = Keep
      BY <2>1, <3>1 DEF Row
    <3>2. CASE enabled # Keep
      BY <3>2
    <3> QED
      BY <3>1, <3>2
  <2> HIDE DEF stays
  <2>3. next \in Request
    BY <2>2 DEF Request, Row
  <2>4. Accept(h, next) /\ UNCHANGED <<now, rows, loops, loopOf>>
    BY <1>2 DEF UpdateRead, vars, stays
  <2> HIDE DEF next
  <2> QED
    BY <2>3, <2>4, AcceptKeepsType DEF TypeOKRequests, LoopsAlone
<1>3. ASSUME DeleteTarget(h, t)
      PROVE  TypeOKRequests' /\ LoopsAlone
  <2>1. [pc |-> "forget", target |-> t] \in Request
    BY DEF Request
  <2>2. handlers' \in [Handler -> Request]
    BY <1>3, <2>1, AcceptKeepsType DEF DeleteTarget
  <2>3. rows' = [rows EXCEPT ![t] = NoRow] /\ UNCHANGED <<now, loops, loopOf>>
    BY <1>3 DEF DeleteTarget, vars
  <2> QED
    BY <2>2, <2>3 DEF TypeOKRequests, LoopsAlone
<1> QED
  BY <1>1, <1>2, <1>3

LEMMA RequestProceeds ==
    ASSUME TypeOKRequests, NEW h \in Handler, HandlerStep(h)
    PROVE  /\ TypeOKRequests'
           /\ LoopsAlone \/ \E want \in Want : Reconcile(want)
<1>0. handlers[h] \in Request
  BY DEF TypeOKRequests
<1>1. CASE UpdateWrite(h)
  <2>1. handlers[h].target \in Target /\ handlers[h].row \in Row
    BY <1>0, <1>1 DEF UpdateWrite, Request, Idle
  <2>2. rows' = [rows EXCEPT ![handlers[h].target] =
                   IF rows[handlers[h].target] = NoRow THEN NoRow ELSE handlers[h].row]
        /\ UNCHANGED <<now, loops, loopOf>>
    BY <1>1 DEF UpdateWrite, vars
  <2>3. [pc |-> "list"] \in Request
    BY DEF Request
  <2>4. handlers' \in [Handler -> Request]
    BY <1>1, <2>3, GotoKeepsType DEF UpdateWrite
  <2>5. rows' \in [Target -> Row \union {NoRow}]
    BY <2>1, <2>2 DEF TypeOKRequests
  <2> QED
    BY <2>2, <2>4, <2>5 DEF TypeOKRequests, LoopsAlone
<1>2. CASE ForgetOutage(h)
  <2>1. handlers[h].target \in Target
    BY <1>0, <1>2 DEF ForgetOutage, Request, Idle
  <2>2. [pc |-> "window", target |-> handlers[h].target] \in Request
    BY <2>1 DEF Request
  <2>3. handlers' \in [Handler -> Request]
    BY <1>2, <2>2, GotoKeepsType DEF ForgetOutage
  <2>4. UNCHANGED <<now, rows, loops, loopOf>>
    BY <1>2 DEF ForgetOutage, Forget
  <2> QED
    BY <2>3, <2>4 DEF TypeOKRequests, LoopsAlone
<1>3. CASE ForgetWindow(h)
  <2>1. [pc |-> "list"] \in Request
    BY DEF Request
  <2>2. handlers' \in [Handler -> Request]
    BY <1>3, <2>1, GotoKeepsType DEF ForgetWindow
  <2>3. UNCHANGED <<now, rows, loops, loopOf>>
    BY <1>3 DEF ForgetWindow, vars
  <2> QED
    BY <2>2, <2>3 DEF TypeOKRequests, LoopsAlone
<1>4. CASE ListTargets(h)
  <2> DEFINE want == [t \in Target |-> IF rows[t] # NoRow /\ rows[t].enabled
                                      THEN rows[t].spec ELSE NoRow]
  <2>1. want \in Want
    <3>1. ASSUME NEW t \in Target, rows[t] # NoRow
          PROVE  rows[t].spec \in SpecKey
      BY <3>1 DEF TypeOKRequests, Row
    <3> QED
      BY <3>1 DEF Want
  <2>2. Goto(h, [pc |-> "apply", want |-> want]) /\ UNCHANGED <<now, rows, loops, loopOf>>
    BY <1>4 DEF ListTargets, vars
  <2> HIDE DEF want
  <2>3. [pc |-> "apply", want |-> want] \in Request
    BY <2>1 DEF Request
  <2>4. handlers' \in [Handler -> Request]
    BY <2>2, <2>3, GotoKeepsType
  <2> QED
    BY <2>2, <2>4 DEF TypeOKRequests, LoopsAlone
<1>5. Idle \in Request
  BY DEF Request
<1>6. CASE ListFails(h)
  <2>1. handlers' \in [Handler -> Request]
    BY <1>5, <1>6, GotoKeepsType DEF ListFails
  <2>2. UNCHANGED <<now, rows, loops, loopOf>>
    BY <1>6 DEF ListFails
  <2> QED
    BY <2>1, <2>2 DEF TypeOKRequests, LoopsAlone
<1>7. CASE ApplyList(h)
  <2>1. handlers' \in [Handler -> Request]
    BY <1>5, <1>7, GotoKeepsType DEF ApplyList
  <2>2. UNCHANGED <<now, rows>> /\ Reconcile(handlers[h].want)
    BY <1>7 DEF ApplyList, vars
  <2>3. handlers[h].want \in Want
    BY <1>0, <1>7 DEF ApplyList, Request, Idle
  <2> QED
    BY <2>1, <2>2, <2>3 DEF TypeOKRequests
<1> QED
  BY <1>1, <1>2, <1>3, <1>4, <1>6, <1>7 DEF HandlerStep

\* No step orphans a loop.
LEMMA LoopsStep ==
    TypeOKLoops /\ OneLiveLoop /\ [TNext]_tvars => TypeOKLoops' /\ OneLiveLoop'
<1> SUFFICES ASSUME TypeOKLoops, OneLiveLoop, [TNext]_tvars
             PROVE  TypeOKLoops' /\ OneLiveLoop'
  OBVIOUS
<1>0. TypeOKRequests
  BY DEF TypeOKLoops, TypeOKRequests
<1>1. ASSUME TypeOKRequests', LoopsAlone
      PROVE  TypeOKLoops' /\ OneLiveLoop'
  <2>1. TypeOKLoops'
    BY <1>1 DEF TypeOKLoops, TypeOKRequests, LoopsAlone
  <2>2. OneLiveLoop'
    BY <1>1 DEF OneLiveLoop, LoopsAlone
  <2> QED
    BY <2>1, <2>2
<1>2. ASSUME TypeOKRequests', NEW want \in Want, Reconcile(want)
      PROVE  TypeOKLoops' /\ OneLiveLoop'
  <2>1. loops' = [t \in Target |-> loops'[t]] /\ loopOf' = [t \in Target |-> loopOf'[t]]
    BY <1>2 DEF Reconcile
  <2>2. ASSUME NEW t \in Target
        PROVE  /\ loops'[t] \in Seq(Loop) /\ loopOf'[t] \in Nat
               /\ LiveLoops(t)' = IF loopOf'[t] = NoLoop THEN {} ELSE {loopOf'[t]}
    BY <1>2, ReconcileOne
  <2>3. TypeOKLoops'
    BY <1>2, <2>1, <2>2 DEF TypeOKLoops, TypeOKRequests
  <2>4. OneLiveLoop'
    BY <2>2 DEF OneLiveLoop, LiveLoops
  <2> QED
    BY <2>3, <2>4
<1>3. ASSUME NEW t \in Target, NEW g \in DOMAIN loops[t], LoopStep(t, g)
      PROVE  TypeOKLoops' /\ OneLiveLoop'
  <2>1. UNCHANGED <<now, rows, loopOf, handlers>>
    BY <1>3, LoopMoves
  <2>2. PICK l \in Loop : l.cancelled = loops[t][g].cancelled /\ SetLoop(t, g, l)
    BY <1>3, LoopMoves DEF SameLoop
  <2>3. loops[t] \in Seq(Loop)
    BY DEF TypeOKLoops
  <2> DEFINE moved == [loops[t] EXCEPT ![g] = l]
  <2>4. /\ moved \in Seq(Loop) /\ DOMAIN moved = DOMAIN loops[t]
        /\ \A i \in DOMAIN loops[t] : moved[i] = IF i = g THEN l ELSE loops[t][i]
    BY <2>2, <2>3, ReplaceOne
  <2>5. loops' = [loops EXCEPT ![t] = moved]
    BY <2>2 DEF SetLoop
  <2> HIDE DEF moved
  <2>6. TypeOKLoops'
    BY <2>1, <2>4, <2>5 DEF TypeOKLoops
  <2>7. ASSUME NEW u \in Target
        PROVE  /\ DOMAIN loops'[u] = DOMAIN loops[u]
               /\ \A i \in DOMAIN loops[u] : loops'[u][i].cancelled = loops[u][i].cancelled
    <3>1. CASE u = t
      <4>1. loops'[t] = moved
        BY <2>5 DEF TypeOKLoops
      <4> QED
        BY <2>2, <2>4, <3>1, <4>1
    <3>2. CASE u # t
      <4>1. loops'[u] = loops[u]
        BY <2>5, <3>2 DEF TypeOKLoops
      <4> QED
        BY <4>1
    <3> QED
      BY <3>1, <3>2
  <2>8. ASSUME NEW u \in Target
        PROVE  LiveLoops(u)' = LiveLoops(u)
    BY <2>7 DEF LiveLoops
  <2>9. OneLiveLoop'
    BY <2>1, <2>8 DEF OneLiveLoop, LiveLoops
  <2> QED
    BY <2>6, <2>9
<1>4. CASE Tick /\ UNCHANGED netVars
  <2>1. TypeOKRequests' /\ LoopsAlone
    BY <1>0, <1>4 DEF Tick, netVars, TypeOKRequests, LoopsAlone
  <2> QED
    BY <1>1, <2>1
<1>5. CASE UNCHANGED tvars
  <2>1. TypeOKRequests' /\ LoopsAlone
    BY <1>0, <1>5 DEF tvars, vars, netVars, TypeOKRequests, LoopsAlone
  <2> QED
    BY <1>1, <2>1
<1>6. ASSUME NEW h \in Handler, NEW t \in Target, DeleteTarget(h, t)
      PROVE  TypeOKLoops' /\ OneLiveLoop'
  <2>1. PICK spec \in SpecKey : TRUE
    BY SpecKeyAssumption
  <2>2. TypeOKRequests' /\ LoopsAlone
    BY <1>0, <1>6, RequestBegins
  <2> QED
    BY <1>1, <2>2
<1>7. ASSUME NEW h \in Handler, NEW t \in Target, NEW spec \in SpecKey,
             \/ \E enabled \in BOOLEAN : CreateTarget(h, t, enabled, spec)
             \/ \E enabled \in {TRUE, FALSE, Keep} : UpdateRead(h, t, enabled, spec)
      PROVE  TypeOKLoops' /\ OneLiveLoop'
  <2>1. TypeOKRequests' /\ LoopsAlone
    BY <1>0, <1>7, RequestBegins
  <2> QED
    BY <1>1, <2>1
<1>8. ASSUME NEW h \in Handler, HandlerStep(h)
      PROVE  TypeOKLoops' /\ OneLiveLoop'
  <2>1. TypeOKRequests' /\ (LoopsAlone \/ \E want \in Want : Reconcile(want))
    BY <1>0, <1>8, RequestProceeds
  <2> QED
    BY <1>1, <1>2, <2>1
<1> QED
  BY <1>3, <1>4, <1>5, <1>6, <1>7, <1>8 DEF TNext

\* However requests overlap and whatever old lists Reconcile is given, no ping
\* loop ever escapes the manager: at most one loop of a target is not cancelled,
\* and it is the one in Manager.running (Reconcile, pinger.go:64).
THEOREM NoLoopOrphaned == TSpec => []OneLiveLoop
<1>1. TInit => TypeOKLoops /\ OneLiveLoop
  BY LoopsInit
<1>2. TypeOKLoops /\ OneLiveLoop /\ [TNext]_tvars => (TypeOKLoops /\ OneLiveLoop)'
  BY LoopsStep
<1> QED
  BY <1>1, <1>2, PTL DEF TSpec

-----------------------------------------------------------------------------
(* Ping loops: a request served alone puts them right. *)

\* While the last requests began alone, or nothing was read amiss, at most one
\* request is under way, the list it goes by is still that of the table, and
\* with none under way the running loops are those of the table.
ServedAlone ==
    ~misled =>
        /\ \A g, h \in Handler : handlers[g] # Idle /\ handlers[h] # Idle => g = h
        /\ \A h \in Handler : handlers[h].pc = "apply" => handlers[h].want = Wanted
        /\ Quiet => \A t \in Target : RunsAs(Wanted, t)

RequestsInv == TypeOKLoops /\ OneLiveLoop /\ ServedAlone

\* The main program has reconciled the loops with the table at boot.
LEMMA ServedInit == TInit => ServedAlone
<1> SUFFICES ASSUME TInit PROVE ServedAlone
  OBVIOUS
<1>1. PICK boot \in {{}} \union {{t} : t \in Target}, spec \in {CHOOSE s \in SpecKey : TRUE} :
         /\ rows = [u \in Target |-> IF u \in boot THEN [enabled |-> TRUE, spec |-> spec] ELSE NoRow]
         /\ loopOf = [u \in Target |-> IF u \in boot THEN 1 ELSE NoLoop]
         /\ loops = [u \in Target |-> IF u \in boot THEN <<NewLoop(spec)>> ELSE <<>>]
  BY DEF TInit
<1>2. spec \in SpecKey /\ spec # NoRow
  BY SpecKeyAssumption, NoRowAssumption
<1>3. \A h \in Handler : handlers[h] = Idle
  BY DEF TInit
<1>4. ASSUME NEW u \in Target PROVE RunsAs(Wanted, u)
  <2>1. CASE u \in boot
    <3>1. rows[u] = [enabled |-> TRUE, spec |-> spec] /\ loopOf[u] = 1 /\ loops[u] = <<NewLoop(spec)>>
      BY <1>1, <2>1
    <3>2. rows[u] # NoRow /\ rows[u].enabled /\ rows[u].spec = spec
      <4>1. [enabled |-> TRUE, spec |-> spec] \in Row
        BY <1>2 DEF Row
      <4>2. rows[u] # NoRow
        BY <3>1, <4>1, NoRowAssumption
      <4> QED
        BY <3>1, <4>2
    <3>3. Wanted[u] = spec
      BY <3>2 DEF Wanted
    <3>4. loops[u][loopOf[u]].spec = spec
      BY <3>1 DEF NewLoop
    <3> QED
      BY <1>2, <3>1, <3>3, <3>4 DEF RunsAs, NoLoop
  <2>2. CASE u \notin boot
    BY <1>1, <2>2 DEF RunsAs, Wanted
  <2> QED
    BY <2>1, <2>2
<1> QED
  BY <1>3, <1>4 DEF ServedAlone, Idle

\* A request that begins leaves every other one as it was.
LEMMA RequestBeginsAlone ==
    ASSUME TypeOKRequests, NEW h \in Handler, NEW next, next.pc \notin {"idle", "apply"},
           Accept(h, next)
    PROVE  ServedAlone'
<1>1. handlers[h] = Idle /\ misled' = ~Quiet
      /\ handlers' = [handlers EXCEPT ![h] = next]
  BY DEF Accept
<1>2. next # Idle /\ handlers'[h] = next
  BY <1>1 DEF Idle, TypeOKRequests
<1>3. ASSUME Quiet, NEW g \in Handler, g # h
      PROVE  handlers'[g] = Idle
  BY <1>1, <1>3 DEF Quiet
<1>4. ~Quiet'
  BY <1>2 DEF Quiet
<1>5. ASSUME ~misled', NEW g \in Handler, g # h
      PROVE  handlers'[g] = Idle /\ handlers'[g].pc # "apply"
  <2>1. handlers'[g] = Idle
    BY <1>1, <1>3, <1>5
  <2> QED
    BY <2>1 DEF Idle
<1>6. handlers'[h].pc # "apply"
  BY <1>2
<1> QED
  BY <1>4, <1>5, <1>6 DEF ServedAlone

\* Nor does one that goes on, whose list, if it has one, is that of the table.
LEMMA RequestGoesOnAlone ==
    ASSUME TypeOKRequests, ServedAlone, NEW h \in Handler, NEW next,
           handlers[h] # Idle, next # Idle, next.pc = "apply" => next.want = Wanted',
           Goto(h, next), misled' = misled
    PROVE  ServedAlone'
<1> SUFFICES ASSUME ~misled PROVE ServedAlone'
  BY DEF ServedAlone
<1>1. /\ handlers'[h] = next
      /\ \A g \in Handler : g # h => handlers'[g] = handlers[g] /\ handlers[g] = Idle
  BY DEF Goto, TypeOKRequests, ServedAlone
<1>2. ~Quiet'
  BY <1>1 DEF Quiet
<1> QED
  BY <1>1, <1>2 DEF ServedAlone, Idle

\* The list applied by a request alone is that of the table.
LEMMA AppliedAlone ==
    ASSUME RequestsInv, NEW h \in Handler, ApplyList(h)
    PROVE  ServedAlone'
<1> SUFFICES ASSUME ~misled PROVE ServedAlone'
  BY DEF ServedAlone, ApplyList
<1>1. TypeOKLoops /\ OneLiveLoop /\ ServedAlone /\ handlers[h] \in Request
  BY DEF RequestsInv, TypeOKLoops
<1>2. handlers[h].pc = "apply" /\ handlers[h].want = Wanted /\ handlers[h].want \in Want
  BY <1>1 DEF ApplyList, ServedAlone, Request, Idle
<1>3. Reconcile(Wanted) /\ rows' = rows /\ handlers' = [handlers EXCEPT ![h] = Idle]
  BY <1>2 DEF ApplyList, Goto
<1>4. Wanted' = Wanted
  BY <1>3 DEF Wanted
<1>5. ASSUME NEW t \in Target PROVE RunsAs(Wanted, t)'
  <2>1. \A want \in Want : Reconcile(want) => RunsAs(want, t)'
    BY <1>1, ReconcileOne
  <2> QED
    BY <1>2, <1>3, <1>4, <2>1 DEF RunsAs
<1>6. \A g \in Handler : handlers'[g] = Idle
  BY <1>1, <1>2, <1>3 DEF ServedAlone, TypeOKLoops, Idle
<1> QED
  BY <1>5, <1>6 DEF ServedAlone, Idle

LEMMA RequestProceedsAlone ==
    ASSUME RequestsInv, NEW h \in Handler, HandlerStep(h)
    PROVE  ServedAlone'
<1>0. TypeOKRequests /\ ServedAlone /\ handlers[h] \in Request
  BY DEF RequestsInv, TypeOKLoops, TypeOKRequests
<1>1. CASE UpdateWrite(h) \/ ForgetWindow(h)
  <2>1. Goto(h, [pc |-> "list"]) /\ misled' = misled /\ handlers[h] # Idle
    BY <1>1 DEF UpdateWrite, ForgetWindow, Idle
  <2>2. [pc |-> "list"] # Idle /\ [pc |-> "list"].pc # "apply"
    BY DEF Idle
  <2> QED
    BY <1>0, <2>1, <2>2, RequestGoesOnAlone
<1>2. CASE ForgetOutage(h)
  <2> DEFINE next == [pc |-> "window", target |-> handlers[h].target]
  <2>1. Goto(h, next) /\ misled' = misled /\ handlers[h] # Idle
    BY <1>2 DEF ForgetOutage, Idle
  <2>2. next # Idle /\ next.pc # "apply"
    BY DEF Idle
  <2> HIDE DEF next
  <2> QED
    BY <1>0, <2>1, <2>2, RequestGoesOnAlone
<1>3. CASE ListTargets(h)
  <2> DEFINE next == [pc |-> "apply", want |-> Wanted]
  <2>1. Goto(h, next) /\ misled' = misled /\ handlers[h] # Idle /\ rows' = rows
    BY <1>3 DEF ListTargets, Idle, Wanted
  <2>2. next # Idle /\ next.want = Wanted'
    BY <2>1 DEF Idle, Wanted
  <2> HIDE DEF next
  <2> QED
    BY <1>0, <2>1, <2>2, RequestGoesOnAlone
<1>4. CASE ListFails(h)
  BY <1>4 DEF ListFails, ServedAlone
<1>5. CASE ApplyList(h)
  BY <1>5, AppliedAlone
<1> QED
  BY <1>1, <1>2, <1>3, <1>4, <1>5 DEF HandlerStep

\* A step of a ping loop changes neither which loops run nor what they ping.
LEMMA LoopMovesAlone ==
    ASSUME RequestsInv, NEW t \in Target, NEW g \in DOMAIN loops[t], LoopStep(t, g)
    PROVE  ServedAlone'
<1>1. TypeOKLoops /\ OneLiveLoop /\ ServedAlone
  BY DEF RequestsInv
<1>2. UNCHANGED <<rows, loopOf, handlers, misled>>
  BY <1>1, LoopMoves
<1>3. PICK l \in Loop : SameLoop(l, loops[t][g]) /\ SetLoop(t, g, l)
  BY <1>1, LoopMoves
<1>4. ASSUME NEW u \in Target, loopOf[u] # NoLoop
      PROVE  loops'[u][loopOf[u]].spec = loops[u][loopOf[u]].spec
  <2>1. loopOf[u] \in DOMAIN loops[u] /\ loops[u] \in Seq(Loop)
    BY <1>1, <1>4 DEF OneLiveLoop, TypeOKLoops
  <2>2. CASE u = t /\ loopOf[u] = g
    BY <1>1, <1>3, <2>1, <2>2 DEF SetLoop, SameLoop, TypeOKLoops
  <2>3. CASE ~(u = t /\ loopOf[u] = g)
    BY <1>1, <1>3, <2>1, <2>3 DEF SetLoop, TypeOKLoops
  <2> QED
    BY <2>2, <2>3
<1>5. Wanted' = Wanted /\ Quiet' = Quiet
  BY <1>2 DEF Wanted, Quiet
<1>6. \A u \in Target : RunsAs(Wanted, u) => RunsAs(Wanted, u)'
  BY <1>2, <1>4, <1>5 DEF RunsAs
<1> QED
  BY <1>1, <1>2, <1>5, <1>6 DEF ServedAlone

LEMMA ServedStep == RequestsInv /\ [TNext]_tvars => ServedAlone'
<1> SUFFICES ASSUME RequestsInv, [TNext]_tvars PROVE ServedAlone'
  OBVIOUS
<1>0. TypeOKRequests /\ ServedAlone
  BY DEF RequestsInv, TypeOKLoops, TypeOKRequests
<1>1. ASSUME NEW h \in Handler, NEW t \in Target, NEW spec \in SpecKey, NEW enabled \in BOOLEAN,
             CreateTarget(h, t, enabled, spec)
      PROVE  ServedAlone'
  <2>1. Accept(h, [pc |-> "list"]) /\ [pc |-> "list"].pc \notin {"idle", "apply"}
    BY <1>1 DEF CreateTarget
  <2> QED
    BY <1>0, <2>1, RequestBeginsAlone
<1>2. ASSUME NEW h \in Handler, NEW t \in Target, NEW spec \in SpecKey,
             NEW enabled \in {TRUE, FALSE, Keep}, UpdateRead(h, t, enabled, spec)
      PROVE  ServedAlone'
  <2> DEFINE next == [pc |-> "write", target |-> t,
                      row |-> [enabled |-> IF enabled = Keep THEN rows[t].enabled ELSE enabled,
                               spec |-> spec]]
  <2>1. Accept(h, next) /\ next.pc \notin {"idle", "apply"}
    BY <1>2 DEF UpdateRead
  <2> HIDE DEF next
  <2> QED
    BY <1>0, <2>1, RequestBeginsAlone
<1>3. ASSUME NEW h \in Handler, NEW t \in Target, DeleteTarget(h, t)
      PROVE  ServedAlone'
  <2> DEFINE next == [pc |-> "forget", target |-> t]
  <2>1. Accept(h, next) /\ next.pc \notin {"idle", "apply"}
    BY <1>3 DEF DeleteTarget
  <2> HIDE DEF next
  <2> QED
    BY <1>0, <2>1, RequestBeginsAlone
<1>4. ASSUME NEW h \in Handler, HandlerStep(h)
      PROVE  ServedAlone'
  BY <1>4, RequestProceedsAlone
<1>5. ASSUME NEW t \in Target, NEW g \in DOMAIN loops[t], LoopStep(t, g)
      PROVE  ServedAlone'
  BY <1>5, LoopMovesAlone
<1>6. CASE (Tick /\ UNCHANGED netVars) \/ UNCHANGED tvars
  BY <1>0, <1>6 DEF Tick, netVars, tvars, ServedAlone, Wanted, Quiet, RunsAs
<1> QED
  BY <1>1, <1>2, <1>3, <1>4, <1>5, <1>6 DEF TNext

\* However requests have overlapped, and whatever old or unread tables they have
\* applied: once a request that began alone is served, the loops that run are
\* those of the enabled rows, with the fields of the rows (main.go's reconcile,
\* and Reconcile, pinger.go:64).
THEOREM LoopsComeToMatchRows == TSpec => []RunningMatchesRows
<1>1. TInit => RequestsInv
  BY LoopsInit, ServedInit DEF RequestsInv
<1>2. RequestsInv /\ [TNext]_tvars => RequestsInv'
  BY LoopsStep, ServedStep DEF RequestsInv
<1>3. RequestsInv => RunningMatchesRows
  <2> SUFFICES ASSUME RequestsInv, Quiet, ~misled, NEW t \in Target
               PROVE  IF rows[t] # NoRow /\ rows[t].enabled
                      THEN loopOf[t] # NoLoop /\ loops[t][loopOf[t]].spec = rows[t].spec
                      ELSE loopOf[t] = NoLoop
    BY DEF RunningMatchesRows
  <2>1. RunsAs(Wanted, t)
    BY DEF RequestsInv, ServedAlone
  <2>2. rows[t] # NoRow => rows[t].spec # NoRow
    BY NoRowAssumption DEF RequestsInv, TypeOKLoops, Row
  <2> QED
    BY <2>1, <2>2 DEF RunsAs, Wanted
<1> QED
  BY <1>1, <1>2, <1>3, PTL DEF TSpec

-----------------------------------------------------------------------------
(* The table and the machines, fed by the loops: samples come late, of two    *)
(* loops of one target, and after the target has been deleted.                *)

\* A failed read of the targets table counts as a fault; the detector is not asked.
ReadFails ==
    /\ UNCHANGED <<machines, openIDs, outages, running, now, crashes>>
    /\ faults' = faults + 1

\* What loops and requests do to the detector are steps of the detector.
LEMMA LoopsMoveDetector ==
    TypeOKLoops /\ [TNext]_tvars => [Moves]_vars \/ ReadFails
<1> SUFFICES ASSUME TypeOKLoops, [TNext]_tvars PROVE [Moves]_vars \/ ReadFails
  OBVIOUS
<1>1. ASSUME NEW t \in Target, NEW g \in DOMAIN loops[t], LoopStep(t, g)
      PROVE  [Moves]_vars
  <2>1. CASE FeedDetector(t, g)
    <3>1. PICK s : /\ s = [target |-> t, ts |-> loops[t][g].ts, success |-> loops[t][g].success,
                           duringSpeedtest |-> FALSE]
                   /\ Feed(s, TRUE)
      BY <2>1 DEF FeedDetector
    <3>2. loops[t][g] \in Loop
      BY ElementOfSeq DEF TypeOKLoops
    <3>3. s \in Sample
      BY <3>1, <3>2 DEF Loop, Sample
    <3> QED
      BY <3>1, <3>3 DEF Moves
  <2>2. CASE ~FeedDetector(t, g)
    <3>1. UNCHANGED vars
      BY <1>1, <2>2 DEF LoopStep, StartPing, LoopExits, PingReturns, AddToTracker
    <3> QED
      BY <3>1
  <2> QED
    BY <2>1, <2>2
<1>2. ASSUME NEW h \in Handler, HandlerStep(h)
      PROVE  [Moves]_vars \/ ReadFails
  <2>1. CASE ForgetOutage(h)
    <3>1. handlers[h] \in Request
      BY DEF TypeOKLoops
    <3>2. handlers[h].target \in Target
      BY <2>1, <3>1 DEF ForgetOutage, Request, Idle
    <3> QED
      BY <2>1, <3>2 DEF ForgetOutage, Moves
  <2>2. CASE ListFails(h)
    BY <2>2 DEF ListFails, Write, ReadFails
  <2>3. CASE UpdateWrite(h) \/ ForgetWindow(h) \/ ListTargets(h) \/ ApplyList(h)
    BY <2>3 DEF UpdateWrite, ForgetWindow, ListTargets, ApplyList
  <2> QED
    BY <1>2, <2>1, <2>2, <2>3 DEF HandlerStep
<1>3. ASSUME NEW h \in Handler, NEW t \in Target, DeleteTarget(h, t)
      PROVE  UNCHANGED vars
  BY <1>3 DEF DeleteTarget
<1>4. ASSUME NEW h \in Handler, NEW t \in Target, NEW spec \in SpecKey,
             \/ \E enabled \in BOOLEAN : CreateTarget(h, t, enabled, spec)
             \/ \E enabled \in {TRUE, FALSE, Keep} : UpdateRead(h, t, enabled, spec)
      PROVE  UNCHANGED vars
  BY <1>4 DEF CreateTarget, UpdateRead
<1>5. CASE Tick /\ UNCHANGED netVars
  BY <1>5 DEF Moves
<1>6. CASE UNCHANGED tvars
  BY <1>6 DEF tvars
<1> QED
  BY <1>1, <1>2, <1>3, <1>4, <1>5, <1>6 DEF TNext

LateInv == TypeOKLoops /\ OneLiveLoop /\ TypeOK /\ OpenIDsTracked /\ TableAgrees

LEMMA LateInit == TInit => LateInv
BY LoopsInit, TypeInit, TrackedInit, AgreesInit DEF TInit, LateInv

LEMMA LateStep == LateInv /\ [TNext]_tvars => LateInv'
<1> SUFFICES ASSUME LateInv, [TNext]_tvars PROVE LateInv'
  OBVIOUS
<1>1. TypeOKLoops' /\ OneLiveLoop'
  BY LoopsStep DEF LateInv
<1>2. CASE [Moves]_vars
  BY <1>1, <1>2, TypeStep, TrackedStep, AgreesStep DEF LateInv
<1>3. CASE ReadFails
  <2>1. faults \in Nat /\ faults' = faults + 1 /\ faults' # 0
    BY <1>3 DEF ReadFails, LateInv, TypeOK
  <2>2. TypeOK /\ OpenIDsTracked
    BY DEF LateInv
  <2>3. TypeOK' /\ OpenIDsTracked' /\ TableAgrees'
    BY <1>3, <2>1, <2>2 DEF ReadFails, TypeOK, OpenIDsTracked, OpenOf, IsOpen, TableAgrees
  <2> QED
    BY <1>1, <2>3 DEF LateInv
<1> QED
  BY <1>2, <1>3, LoopsMoveDetector DEF LateInv

\* As long as no write has failed, a DOWN target has exactly its one open event
\* and any other target none, also when an edited target's old loop feeds after
\* its new one, and when a deleted target's last sample comes after Forget
\* (Feed and Forget, coordinator.go:67-134; onSample, main.go:148-152).
THEOREM TableSurvivesLateSamples == TSpec => []TableAgrees
<1>1. LateInv => TableAgrees
  BY DEF LateInv
<1> QED
  BY <1>1, LateInit, LateStep, PTL DEF TSpec

\* Nor do late samples touch what has been recorded: a closed row never changes,
\* no row loses its target or its start, and none disappears (coordinator.go:67-134).
THEOREM LateSamplesRewriteNothing == TSpec => HistoryIsFinal
<1>1. LateInv /\ [TNext]_tvars => [RowsKept]_vars
  <2> SUFFICES ASSUME LateInv, [TNext]_tvars PROVE [RowsKept]_vars
    OBVIOUS
  <2>1. CASE [Moves]_vars
    BY <2>1, HistoryStep DEF LateInv
  <2>2. CASE ReadFails
    BY <2>2 DEF ReadFails, RowsKept, LateInv, TypeOK
  <2> QED
    BY <2>1, <2>2, LoopsMoveDetector DEF LateInv
<1> QED
  BY <1>1, LateInit, LateStep, PTL DEF TSpec, HistoryIsFinal, RowsKept

=============================================================================
