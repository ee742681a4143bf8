------------------------------- MODULE Glance -------------------------------
(***************************************************************************)
(* The glance endpoint (internal/api/glance.go, handleGlance): how the     *)
(* targets, with what the detector and the last minute of samples say of   *)
(* each, are reduced to the metrics that health.Evaluate judges.  What the *)
(* minute says is windowStats of SampleViews: the loss is Nil if no sample *)
(* counts, the median and the jitter if no probe was answered.             *)
(***************************************************************************)
EXTENDS Health

Measures ==
    [loss : {Nil, 100}, med : {Nil}, jitter : {Nil}]
        \union [loss : 0..99, med : Nat, jitter : Nat \union {Nil}]

Target == [id : Nat, tier : 1..3, sort : Nat, enabled : BOOLEAN, down : BOOLEAN, minute : Measures]

Hops(targets, tier) == {t \in targets : t.enabled /\ t.tier = tier}

\* Store.ListTargets orders a tier by sort order, then id.
First(hops) ==
    CHOOSE t \in hops : \A o \in hops : t.sort < o.sort \/ (t.sort = o.sort /\ t.id <= o.id)

Best(values) == IF values = {} THEN Nil ELSE CHOOSE n \in values : \A k \in values : n <= k

\* The primary LAN target only; the best of the internet anchors, each metric
\* on its own but for the jitter, which is that of the fastest anchor.
Metrics(targets, age) ==
    LET lan       == Hops(targets, 1)
        gateway   == First(lan)
        anchors   == Hops(targets, 3)
        bestMed   == Best({t.minute.med : t \in anchors} \ {Nil})
        bestRTTs  == First({t \in anchors : t.minute.med = bestMed}).minute
    IN [age            |-> age,
        lanMs          |-> IF lan = {} THEN Nil ELSE gateway.minute.med,
        lanLoss        |-> IF lan = {} THEN Nil ELSE gateway.minute.loss,
        lanUnreachable |-> lan # {} /\ gateway.down,
        ispUnreachable |-> \E t \in Hops(targets, 2) : t.down,
        netMs          |-> bestMed,
        netLoss        |-> Best({t.minute.loss : t \in anchors} \ {Nil}),
        jitter         |-> IF bestMed = Nil THEN Nil ELSE bestRTTs.jitter]

handleGlance(targets, age, t) == Evaluate(Metrics(targets, age), t)

-----------------------------------------------------------------------------
(* When a verdict is fair. *)

\* What the internet would be called if this were the only anchor.
Alone(a, t) ==
    internetVerdict([netLoss |-> a.minute.loss, netMs |-> a.minute.med, jitter |-> a.minute.jitter], t)

Measured(targets) == {a \in Hops(targets, 3) : a.minute.loss # Nil}
Perfect(a)        == a.minute.loss = 0 /\ a.minute.med = 0 /\ a.minute.jitter \in {Nil, 0}
LANFine(targets)  == \A a \in Hops(targets, 1) : ~a.down /\ (a.minute.loss = Nil \/ Perfect(a))

\* With samples fresh: one perfect anchor makes a good network, whatever slower
\* anchors and silent routers there are; anchors that are all silent make an
\* outage; and the internet is called down only if every anchor measured says so.
Fair(targets, t) ==
    LET v == handleGlance(targets, 1, t)
    IN /\ /\ LANFine(targets)
          /\ \E a \in Measured(targets) : Perfect(a)
          /\ \A a \in Measured(targets) : a.minute.med = 0 => Perfect(a)
          => v = Verdict("ok", "none")
       /\ /\ LANFine(targets)
          /\ Measured(targets) # {}
          /\ \A a \in Measured(targets) : a.minute.med = Nil
          => v.status = "down"
       /\ v = Verdict("down", "internet") =>
            /\ Measured(targets) # {}
            /\ \A a \in Measured(targets) : Alone(a, t) = "down"
=============================================================================
