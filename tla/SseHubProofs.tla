---------------------------- MODULE SseHubProofs ----------------------------
(***************************************************************************)
(* Proofs about the SSE hub for any set of clients, any buffer size and    *)
(* any number of frames: no broadcast or cleanup panics, and no client     *)
(* misses a frame in the middle of its stream.                             *)
(***************************************************************************)
EXTENDS SseHub, SequenceTheorems, TLAPS

\* The types the arguments below need.
HubTypes ==
    /\ clients \subseteq Client
    /\ ch \in [Client -> Seq(Nat)]
    /\ closes \in [Client -> Nat]
    /\ pc \in [Client -> {"new", "select", "write", "cleanup", "gone"}]
    /\ taken \in [Client -> Nat]
    /\ sent \in Nat

\* NoPanic and NoGap made inductive: a connection that has not registered is
\* not in the set and has never been closed.
HubInv ==
    /\ HubTypes
    /\ \A c \in Client : pc[c] = "new" => c \notin clients /\ closes[c] = 0 /\ ch[c] = <<>>
    /\ NoPanic
    /\ NoGap

\* Appending the next number keeps a run of consecutive numbers consecutive.
LEMMA NextAppended ==
    ASSUME NEW s \in Seq(Nat), NEW base \in Nat, NEW last \in Nat,
           \A i \in DOMAIN s : s[i] = base + i,
           base + Len(s) = last
    PROVE  /\ Append(s, last + 1) \in Seq(Nat)
           /\ \A i \in DOMAIN Append(s, last + 1) : Append(s, last + 1)[i] = base + i
           /\ base + Len(Append(s, last + 1)) = last + 1
<1> DEFINE a == Append(s, last + 1)
<1>1. a \in Seq(Nat) /\ Len(a) = Len(s) + 1 /\ Len(s) \in Nat
  BY AppendProperties, LenProperties
<1>2. \A i \in 1..Len(s) : a[i] = s[i]
  BY AppendProperties
<1>3. a[Len(s) + 1] = last + 1
  BY AppendProperties
<1>4. DOMAIN s = 1..Len(s) /\ DOMAIN a = 1..(Len(s) + 1)
  BY <1>1, LenProperties
<1>5. ASSUME NEW i \in DOMAIN a PROVE a[i] = base + i
  <2>1. CASE i \in 1..Len(s)
    BY <1>2, <1>4, <2>1
  <2>2. CASE i = Len(s) + 1
    BY <1>1, <1>3, <2>2
  <2> QED
    BY <1>1, <1>4, <1>5, <2>1, <2>2
<1> QED
  BY <1>1, <1>5

\* Taking the head of such a run moves its base by one.
LEMMA HeadTaken ==
    ASSUME NEW s \in Seq(Nat), NEW base \in Nat, s # <<>>,
           \A i \in DOMAIN s : s[i] = base + i
    PROVE  /\ Head(s) = base + 1
           /\ Tail(s) \in Seq(Nat) /\ Len(Tail(s)) = Len(s) - 1
           /\ \A i \in DOMAIN Tail(s) : Tail(s)[i] = base + 1 + i
<1>1. /\ Len(s) \in Nat /\ Len(s) > 0 /\ DOMAIN s = 1..Len(s)
      /\ Head(s) = s[1]
      /\ Tail(s) \in Seq(Nat) /\ Len(Tail(s)) = Len(s) - 1
      /\ \A i \in 1..Len(Tail(s)) : Tail(s)[i] = s[i + 1]
  BY HeadTailProperties, EmptySeq, LenProperties
<1>2. DOMAIN Tail(s) = 1..(Len(s) - 1)
  BY <1>1, LenProperties
<1>3. Head(s) = base + 1
  BY <1>1
<1>4. ASSUME NEW i \in DOMAIN Tail(s) PROVE Tail(s)[i] = base + 1 + i
  <2>1. i \in 1..Len(Tail(s)) /\ i \in Nat /\ i + 1 \in DOMAIN s
    BY <1>1, <1>2
  <2>2. Tail(s)[i] = s[i + 1]
    BY <1>1, <2>1
  <2>3. s[i + 1] = base + (i + 1)
    BY <2>1
  <2> QED
    BY <2>1, <2>2, <2>3
<1> QED
  BY <1>1, <1>3, <1>4

\* The hub starts without clients.
LEMMA HubInit == Init => HubInv
<1> SUFFICES ASSUME Init PROVE HubInv
  OBVIOUS
<1>1. HubTypes
  BY EmptySeq DEF Init, HubTypes
<1> QED
  BY <1>1 DEF Init, HubInv, NoPanic, NoGap

\* No step of a broadcaster, a serve loop or a client breaks it.
LEMMA HubStep == HubInv /\ [Next]_hvars => HubInv'
<1> SUFFICES ASSUME HubInv, [Next]_hvars PROVE HubInv'
  OBVIOUS
<1> USE DEF HubInv, HubTypes, NoPanic, NoGap
<1>1. CASE Broadcast
  <2>1. Full \subseteq clients /\ sent + 1 \in Nat
    BY DEF Full
  <2>2. ASSUME NEW c \in clients \ Full
        PROVE  /\ c \in Client /\ ch'[c] = Append(ch[c], sent + 1)
               /\ ch'[c] \in Seq(Nat)
               /\ \A i \in DOMAIN ch'[c] : ch'[c][i] = taken[c] + i
               /\ taken[c] + Len(ch'[c]) = sent + 1
    <3>1. c \in Client /\ pc[c] # "new" /\ ch[c] \in Seq(Nat) /\ taken[c] \in Nat
      OBVIOUS
    <3>2. ch'[c] = Append(ch[c], sent + 1)
      BY <1>1, <3>1 DEF Broadcast
    <3>3. /\ \A i \in DOMAIN ch[c] : ch[c][i] = taken[c] + i
          /\ taken[c] + Len(ch[c]) = sent
      BY <3>1
    <3> QED
      BY <3>1, <3>2, <3>3, NextAppended
  <2>3. ASSUME NEW c \in Client, c \notin clients \ Full PROVE ch'[c] = ch[c]
    BY <1>1, <2>3 DEF Broadcast
  <2>4. /\ clients' = clients \ Full /\ sent' = sent + 1
        /\ UNCHANGED <<pc, taken, left>>
        /\ closes' = [c \in Client |-> IF c \in Full THEN closes[c] + 1 ELSE closes[c]]
        /\ ch' = [c \in Client |-> IF c \in clients \ Full THEN Append(ch[c], sent + 1) ELSE ch[c]]
    BY <1>1 DEF Broadcast
  <2>5. HubTypes'
    <3>1. \A c \in Client : ch'[c] \in Seq(Nat)
      BY <2>2, <2>3
    <3>2. \A c \in Client : closes'[c] \in Nat
      BY <2>4
    <3> QED
      BY <2>1, <2>4, <3>1, <3>2
  <2>6. NoPanic'
    BY <2>1, <2>4
  <2>7. NoGap'
    <3> SUFFICES ASSUME NEW c \in Client, pc[c] # "new"
                 PROVE  /\ \A i \in DOMAIN ch'[c] : ch'[c][i] = taken[c] + i
                        /\ c \in clients \ Full => taken[c] + Len(ch'[c]) = sent + 1
      BY <2>4
    <3>1. CASE c \in clients \ Full
      BY <2>2, <3>1
    <3>2. CASE c \notin clients \ Full
      BY <2>3, <3>2
    <3> QED
      BY <3>1, <3>2
  <2>8. \A c \in Client : pc'[c] = "new" => c \notin clients' /\ closes'[c] = 0 /\ ch'[c] = <<>>
    BY <2>1, <2>3, <2>4
  <2> QED
    BY <2>5, <2>6, <2>7, <2>8
<1>2. ASSUME NEW c \in Client, Register(c) PROVE HubInv'
  <2>1. /\ clients' = clients \union {c} /\ taken' = [taken EXCEPT ![c] = sent]
        /\ pc[c] = "new" /\ pc' = [pc EXCEPT ![c] = "select"]
        /\ UNCHANGED <<ch, closes, left, sent>>
    BY <1>2 DEF Register, Goto
  <2>2. ch[c] = <<>> /\ Len(ch[c]) = 0 /\ DOMAIN ch[c] = {}
    BY <2>1, EmptySeq
  <2>3. NoGap'
    <3>1. /\ \A i \in DOMAIN ch'[c] : ch'[c][i] = taken'[c] + i
          /\ taken'[c] + Len(ch'[c]) = sent'
      BY <2>1, <2>2
    <3>2. ASSUME NEW d \in Client, d # c
          PROVE  pc'[d] = pc[d] /\ ch'[d] = ch[d] /\ taken'[d] = taken[d]
                 /\ (d \in clients' <=> d \in clients)
      BY <2>1, <3>2
    <3> QED
      BY <2>1, <3>1, <3>2
  <2>4. HubTypes'
    BY <2>1
  <2>5. NoPanic'
    BY <2>1
  <2> QED
    BY <2>1, <2>3, <2>4, <2>5
<1>3. ASSUME NEW c \in Client, TakeFrame(c) PROVE HubInv'
  <2>1. /\ pc[c] = "select" /\ ch[c] # <<>> /\ pc' = [pc EXCEPT ![c] = "write"]
        /\ taken' = [taken EXCEPT ![c] = Head(ch[c])]
        /\ ch' = [ch EXCEPT ![c] = Tail(ch[c])]
        /\ UNCHANGED <<clients, closes, left, sent>>
    BY <1>3 DEF TakeFrame, Goto
  <2>2. /\ Head(ch[c]) = taken[c] + 1
        /\ Tail(ch[c]) \in Seq(Nat) /\ Len(Tail(ch[c])) = Len(ch[c]) - 1
        /\ \A i \in DOMAIN Tail(ch[c]) : Tail(ch[c])[i] = taken[c] + 1 + i
    <3>1. \A i \in DOMAIN ch[c] : ch[c][i] = taken[c] + i
      BY <2>1
    <3> QED
      BY <2>1, <3>1, HeadTaken
  <2>3. Len(ch[c]) \in Nat
    BY LenProperties
  <2>4. NoGap'
    <3>1. /\ \A i \in DOMAIN ch'[c] : ch'[c][i] = taken'[c] + i
          /\ c \in clients' => taken'[c] + Len(ch'[c]) = sent'
      <4>1. ch'[c] = Tail(ch[c]) /\ taken'[c] = taken[c] + 1
        BY <2>1, <2>2
      <4>2. c \in clients => taken[c] + Len(ch[c]) = sent
        BY <2>1
      <4>3. \A i \in DOMAIN ch'[c] : ch'[c][i] = taken'[c] + i
        BY <2>2, <4>1
      <4>4. taken[c] \in Nat /\ Len(Tail(ch[c])) = Len(ch[c]) - 1
        BY <2>2
      <4> QED
        BY <2>1, <2>3, <4>1, <4>2, <4>3, <4>4
    <3>2. ASSUME NEW d \in Client, d # c
          PROVE  pc'[d] = pc[d] /\ ch'[d] = ch[d] /\ taken'[d] = taken[d]
      BY <2>1, <3>2
    <3> QED
      BY <2>1, <3>1, <3>2
  <2>5. HubTypes'
    BY <2>1, <2>2
  <2>6. NoPanic'
    BY <2>1
  <2> QED
    BY <2>1, <2>4, <2>5, <2>6
<1>4. ASSUME NEW c \in Client, SeeClosed(c) \/ SeeDone(c) \/ WriteReturns(c) PROVE HubInv'
  <2>1. /\ pc[c] # "new"
        /\ pc' \in {[pc EXCEPT ![c] = "select"], [pc EXCEPT ![c] = "cleanup"]}
        /\ UNCHANGED <<clients, ch, closes, taken, left, sent>>
    BY <1>4 DEF SeeClosed, SeeDone, WriteReturns, Goto
  <2>2. HubTypes' /\ \A d \in Client : pc'[d] = "new" <=> pc[d] = "new"
    BY <2>1
  <2> QED
    BY <2>1, <2>2
<1>5. ASSUME NEW c \in Client, Cleanup(c) PROVE HubInv'
  <2>1. /\ pc[c] = "cleanup" /\ pc' = [pc EXCEPT ![c] = "gone"]
        /\ clients' = clients \ {c}
        /\ closes' = IF c \in clients THEN [closes EXCEPT ![c] = @ + 1] ELSE closes
        /\ UNCHANGED <<ch, taken, left, sent>>
    BY <1>5 DEF Cleanup, Goto
  <2>2. HubTypes' /\ \A d \in Client : pc'[d] = "new" <=> pc[d] = "new"
    BY <2>1
  <2>3. NoPanic'
    BY <2>1
  <2>4. NoGap'
    BY <2>1, <2>2
  <2>5. \A d \in Client : pc[d] = "new" => d # c /\ closes'[d] = closes[d]
    BY <2>1
  <2> QED
    BY <2>1, <2>2, <2>3, <2>4, <2>5
<1>6. ASSUME NEW c \in Client, Leave(c) PROVE HubInv'
  BY <1>6 DEF Leave
<1>7. CASE UNCHANGED hvars
  BY <1>7 DEF hvars
<1> QED
  BY <1>1, <1>2, <1>3, <1>4, <1>5, <1>6, <1>7 DEF Next, Serve

\* Broadcast, eviction and the deferred cleanup never send on a closed channel
\* and never close one twice (hub.go:52-61, 94-101).
THEOREM HubNeverPanics == Spec => []NoPanic
<1>1. HubInv => NoPanic
  BY DEF HubInv
<1> QED
  BY <1>1, HubInit, HubStep, PTL DEF Spec

\* A registered client has been given every frame since it registered, and
\* what waits in any channel continues what was taken (hub.go:52-61).
THEOREM StreamsHaveNoGap == Spec => []NoGap
<1>1. HubInv => NoGap
  BY DEF HubInv
<1> QED
  BY <1>1, HubInit, HubStep, PTL DEF Spec
=============================================================================
