----------------------------- MODULE OutageLog -----------------------------
(***************************************************************************)
(* What the detector promises of outage_events, without machines, ids in   *)
(* memory or restarts: per target, outages follow one another.  One begins *)
(* only when none is open and not before the last one ended; the open one  *)
(* ends not before it began; nothing else ever happens to a row.           *)
(***************************************************************************)
EXTENDS Integers, Sequences

CONSTANTS Target, Clock   \* target ids, the timestamps an outage may carry

VARIABLE log

NotEnded == -1

Init == log = <<>>

Begin(t, ts) ==
    /\ \A i \in DOMAIN log : log[i].target = t =>
          log[i].ended # NotEnded /\ log[i].ended <= ts
    /\ log' = Append(log, [target |-> t, started |-> ts, ended |-> NotEnded])

End(t, ts) ==
    \E i \in DOMAIN log :
        /\ log[i].target = t
        /\ log[i].ended = NotEnded
        /\ log[i].started <= ts
        /\ log' = [log EXCEPT ![i].ended = ts]

Next == \E t \in Target, ts \in Clock : Begin(t, ts) \/ End(t, ts)

Spec == Init /\ [][Next]_log
=============================================================================
