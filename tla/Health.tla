------------------------------- MODULE Health -------------------------------
(***************************************************************************)
(* The verdict of internal/health/health.go on the metrics of a window:    *)
(* which thresholds are exceeded and which segment is to blame, in the     *)
(* order of the code's rules.  Percentages and milliseconds are integers.  *)
(***************************************************************************)
EXTENDS Integers

Nil == -1   \* a metric nothing could be measured for

Thresholds ==
    [lanDownLoss : Nat, lanMs : Nat, lanLoss : Nat, netDownLoss : Nat, netDownMs : Nat,
     netLoss : Nat, netMs : Nat, netJitter : Nat, staleAfter : Nat]

Zeros ==
    [lanDownLoss |-> 0, lanMs |-> 0, lanLoss |-> 0, netDownLoss |-> 0, netDownMs |-> 0,
     netLoss |-> 0, netMs |-> 0, netJitter |-> 0, staleAfter |-> 0]
Defaults ==
    [lanDownLoss |-> 20, lanMs |-> 10, lanLoss |-> 2, netDownLoss |-> 5, netDownMs |-> 150,
     netLoss |-> 1, netMs |-> 60, netJitter |-> 30, staleAfter |-> 15]

\* What validateThresholds (settings.go:143-182) accepts of an operator.
Valid(t) ==
    /\ \A pct \in {t.lanDownLoss, t.lanLoss, t.netDownLoss, t.netLoss} : 0 < pct /\ pct <= 100
    /\ \A ms \in {t.lanMs, t.netDownMs, t.netMs, t.netJitter} : 0 < ms /\ ms <= 60000
    /\ t.lanLoss < t.lanDownLoss /\ t.netLoss < t.netDownLoss /\ t.netMs < t.netDownMs
    /\ 2 <= t.staleAfter /\ t.staleAfter <= 600

Over(metric, limit)    == metric # Nil /\ metric > limit
Reaches(metric, limit) == metric # Nil /\ metric >= limit

internetVerdict(m, t) ==
    IF Reaches(m.netLoss, t.netDownLoss) \/ Reaches(m.netMs, t.netDownMs) THEN "down"
    ELSE IF Over(m.netLoss, t.netLoss) \/ Over(m.netMs, t.netMs) \/ Over(m.jitter, t.netJitter)
    THEN "degraded" ELSE "ok"

\* handleGlance (glance.go:188-194): m.age is that of the newest sample of any
\* target, Nil before the first one.
Stale(m, t) == m.age = Nil \/ m.age > t.staleAfter

Verdict(status, hop) == [status |-> status, hop |-> hop]

\* Mutated form: a silent ISP hop is blamed by itself.
EvaluateUncorroborated(m, t) ==
    LET net == internetVerdict(m, t)
    IN IF Stale(m, t) THEN Verdict("unknown", "none")
       ELSE IF m.lanUnreachable \/ Reaches(m.lanLoss, t.lanDownLoss) THEN Verdict("down", "lan")
       ELSE IF Over(m.lanMs, t.lanMs) \/ Over(m.lanLoss, t.lanLoss) THEN Verdict("degraded", "lan")
       ELSE IF m.ispUnreachable THEN Verdict("down", "isp")
       ELSE IF net # "ok" THEN Verdict(net, "internet") ELSE Verdict("ok", "none")

\* Nearest hop first; an ISP hop only when the internet suffers as well.
Evaluate(m, t) ==
    LET net == internetVerdict(m, t)
    IN IF Stale(m, t) THEN Verdict("unknown", "none")
       ELSE IF m.lanUnreachable \/ Reaches(m.lanLoss, t.lanDownLoss) THEN Verdict("down", "lan")
       ELSE IF Over(m.lanMs, t.lanMs) \/ Over(m.lanLoss, t.lanLoss) THEN Verdict("degraded", "lan")
       ELSE IF m.ispUnreachable /\ net # "ok" THEN Verdict("down", "isp")
       ELSE IF net # "ok" THEN Verdict(net, "internet") ELSE Verdict("ok", "none")
=============================================================================
