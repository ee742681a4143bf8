---------------------------- MODULE SettingsProofs ----------------------------
(***************************************************************************)
(* Proofs about the glance and the settings it is judged by: Glance is fair*)
(* under any valid thresholds, the settings in force always have such, and *)
(* saved edits win.                                                        *)
(***************************************************************************)
EXTENDS Settings, WellFoundedInduction, TLAPS

-----------------------------------------------------------------------------
(* Minima. *)

LEMMA LeastExists ==
    ASSUME NEW S \in SUBSET Nat, S # {}
    PROVE  \E n \in S : \A k \in S : n <= k
<1> DEFINE R == OpToRel(<, Nat)
<1>1. \A x, y \in Nat : y < x => <<y, x>> \in R
  BY DEF OpToRel
<1>2. IsWellFoundedOn(R, Nat)
  BY NatLessThanWellFounded
<1> HIDE DEF R
<1>3. PICK x \in S : \A y \in S : ~ (<<y, x>> \in R)
  BY <1>2, WFMin
<1>4. \A y \in S : ~ (y < x)
  BY <1>1, <1>3
<1> QED
  BY <1>3, <1>4

LEMMA BestIsLeast ==
    ASSUME NEW S \in SUBSET Nat
    PROVE  /\ S = {} => Best(S) = Nil
           /\ S # {} => Best(S) \in S /\ \A k \in S : Best(S) <= k
  BY LeastExists DEF Best

LEMMA FirstIsOne ==
    ASSUME NEW hops \in SUBSET Target, hops # {}
    PROVE  First(hops) \in hops
<1> DEFINE sorts == {o.sort : o \in hops}
<1>1. sorts \in SUBSET Nat /\ sorts # {}
  BY DEF Target
<1>2. PICK s \in sorts : \A k \in sorts : s <= k
  BY <1>1, LeastExists
<1> DEFINE firsts == {o \in hops : o.sort = s}
           ids == {o.id : o \in firsts}
<1>3. ids \in SUBSET Nat /\ ids # {}
  BY <1>2 DEF Target
<1>4. PICK i \in ids : \A k \in ids : i <= k
  BY <1>3, LeastExists
<1>5. PICK t \in hops : t.sort = s /\ t.id = i
  BY <1>4
<1>6. ASSUME NEW o \in hops
      PROVE  t.sort < o.sort \/ (t.sort = o.sort /\ t.id <= o.id)
  <2>1. s <= o.sort /\ s \in Nat /\ o.sort \in Nat
    BY <1>1, <1>2
  <2>2. o.sort = s => i <= o.id
    BY <1>4
  <2> QED
    BY <1>5, <2>1, <2>2
<1> QED
  BY <1>5, <1>6 DEF First

-----------------------------------------------------------------------------
(* The glance. *)

\* The metrics of the internet: each is the best of the anchors measured, and the
\* jitter is that of an anchor with the best median.
LEMMA InternetMetrics ==
    ASSUME NEW targets \in SUBSET Target, NEW m, m = Metrics(targets, 1)
    PROVE  /\ \A a \in Measured(targets) :
                /\ m.netLoss # Nil /\ m.netLoss <= a.minute.loss
                /\ a.minute.med # Nil => m.netMs # Nil /\ m.netMs <= a.minute.med
           /\ m.netLoss # Nil => \E a \in Measured(targets) : m.netLoss = a.minute.loss
           /\ m.netMs # Nil => \E a \in Measured(targets) :
                                  m.netMs = a.minute.med /\ m.jitter = a.minute.jitter
           /\ m.netMs = Nil => m.jitter = Nil
           /\ m.netLoss \in Nat \union {Nil} /\ m.netMs \in Nat \union {Nil}
           /\ m.jitter \in Nat \union {Nil}
<1> DEFINE anchors == Hops(targets, 3)
           losses == {t.minute.loss : t \in anchors} \ {Nil}
           meds == {t.minute.med : t \in anchors} \ {Nil}
           fastest == {t \in anchors : t.minute.med = Best(meds)}
<1>1. /\ m.netLoss = Best(losses) /\ m.netMs = Best(meds)
      /\ m.jitter = IF Best(meds) = Nil THEN Nil ELSE First(fastest).minute.jitter
  BY DEF Metrics
<1>2. anchors \subseteq targets /\ \A a \in anchors : a \in Target /\ a.minute \in Measures
  BY DEF Hops, Target
<1>3. \A x \in Measures : /\ x.loss \in Nat \union {Nil} /\ x.med \in Nat \union {Nil}
                          /\ x.jitter \in Nat \union {Nil}
                          /\ x.med # Nil => x.loss # Nil
  BY DEF Measures, Nil
<1>4. losses \in SUBSET Nat /\ meds \in SUBSET Nat
  BY <1>2, <1>3
<1>5. /\ losses = {} => Best(losses) = Nil
      /\ losses # {} => Best(losses) \in losses /\ \A k \in losses : Best(losses) <= k
  BY <1>4, BestIsLeast
<1>6. /\ meds = {} => Best(meds) = Nil
      /\ meds # {} => Best(meds) \in meds /\ \A k \in meds : Best(meds) <= k
  BY <1>4, BestIsLeast
<1>7. Measured(targets) = {a \in anchors : a.minute.loss # Nil}
  BY DEF Measured
<1>8. \A a \in Measured(targets) : a.minute.loss \in losses /\ (a.minute.med # Nil => a.minute.med \in meds)
  BY <1>7
<1>9. Best(meds) # Nil => First(fastest) \in fastest
  <2> SUFFICES ASSUME Best(meds) # Nil PROVE First(fastest) \in fastest
    OBVIOUS
  <2>1. fastest # {}
    BY <1>6
  <2>2. fastest \in SUBSET Target
    BY <1>2
  <2> QED
    BY <2>1, <2>2, FirstIsOne
<1>10. Best(meds) # Nil => First(fastest) \in Measured(targets)
  BY <1>9, <1>7, <1>2, <1>3
<1>11. \A a \in Measured(targets) :
          /\ m.netLoss # Nil /\ m.netLoss <= a.minute.loss
          /\ a.minute.med # Nil => m.netMs # Nil /\ m.netMs <= a.minute.med
  BY <1>1, <1>4, <1>5, <1>6, <1>8
<1>12. m.netLoss # Nil => \E a \in Measured(targets) : m.netLoss = a.minute.loss
  BY <1>1, <1>5, <1>7
<1>13. m.netMs # Nil => \E a \in Measured(targets) :
                           m.netMs = a.minute.med /\ m.jitter = a.minute.jitter
  BY <1>1, <1>9, <1>10
<1>14. m.jitter \in Nat \union {Nil}
  BY <1>1, <1>2, <1>3, <1>9
<1>15. m.netLoss \in Nat \union {Nil} /\ m.netMs \in Nat \union {Nil}
  BY <1>1, <1>4, <1>5, <1>6
<1> QED
  BY <1>1, <1>11, <1>12, <1>13, <1>14, <1>15

\* A LAN that is fine is not blamed.
LEMMA LANMetrics ==
    ASSUME NEW targets \in SUBSET Target, NEW m, m = Metrics(targets, 1), LANFine(targets)
    PROVE  ~m.lanUnreachable /\ m.lanLoss \in {Nil, 0} /\ m.lanMs \in {Nil, 0}
<1> DEFINE lan == Hops(targets, 1)
<1>1. CASE lan = {}
  BY <1>1 DEF Metrics
<1>2. CASE lan # {}
  <2>1. lan \in SUBSET Target
    BY DEF Hops
  <2>2. First(lan) \in lan
    BY <1>2, <2>1, FirstIsOne
  <2>3. m.lanUnreachable => First(lan).down
    BY <1>2 DEF Metrics
  <2>4. m.lanLoss = First(lan).minute.loss
    BY <1>2 DEF Metrics
  <2>5. m.lanMs = First(lan).minute.med
    BY <1>2 DEF Metrics
  <2>6. First(lan).minute \in Measures
    BY <2>1, <2>2 DEF Target
  <2>7. ~First(lan).down /\ (First(lan).minute.loss = Nil \/ Perfect(First(lan)))
    BY <2>2 DEF LANFine
  <2> QED
    BY <2>3, <2>4, <2>5, <2>6, <2>7 DEF Perfect, Measures, Nil
<1> QED
  BY <1>1, <1>2

\* The glance is fair under all thresholds that validation accepts, for any
\* number of targets: validateThresholds (settings.go:143-182) rejects
\* "numbers that would make the verdict meaningless".
THEOREM GlanceIsFair ==
    ASSUME NEW t \in Thresholds, Valid(t), NEW targets \in SUBSET Target
    PROVE  Fair(targets, t)
<1> DEFINE m == Metrics(targets, 1)
           v == handleGlance(targets, 1, t)
<1>1. /\ \A a \in Measured(targets) :
            /\ m.netLoss # Nil /\ m.netLoss <= a.minute.loss
            /\ a.minute.med # Nil => m.netMs # Nil /\ m.netMs <= a.minute.med
      /\ m.netLoss # Nil => \E a \in Measured(targets) : m.netLoss = a.minute.loss
      /\ m.netMs # Nil => \E a \in Measured(targets) :
                              m.netMs = a.minute.med /\ m.jitter = a.minute.jitter
      /\ m.netMs = Nil => m.jitter = Nil
      /\ m.netLoss \in Nat \union {Nil} /\ m.netMs \in Nat \union {Nil}
      /\ m.jitter \in Nat \union {Nil}
  BY InternetMetrics
<1>2. LANFine(targets) => ~m.lanUnreachable /\ m.lanLoss \in {Nil, 0} /\ m.lanMs \in {Nil, 0}
  BY LANMetrics
<1>3. /\ t.lanDownLoss \in Nat /\ 0 < t.lanDownLoss
      /\ t.lanLoss \in Nat /\ 0 < t.lanLoss
      /\ t.lanMs \in Nat /\ 0 < t.lanMs
      /\ t.netDownLoss \in Nat /\ 0 < t.netDownLoss /\ t.netDownLoss <= 100
      /\ t.netLoss \in Nat /\ 0 < t.netLoss
      /\ t.netDownMs \in Nat /\ 0 < t.netDownMs
      /\ t.netMs \in Nat /\ 0 < t.netMs
      /\ t.netJitter \in Nat /\ 0 < t.netJitter
      /\ t.staleAfter \in Nat /\ 1 < t.staleAfter
  BY DEF Thresholds, Valid
<1>4. v = Evaluate(m, t)
  BY DEF handleGlance
<1>5. m.age = 1 /\ ~Stale(m, t)
  <2>1. m.age = 1
    BY DEF Metrics
  <2> QED
    BY <1>3, <2>1 DEF Stale, Nil
<1> HIDE DEF m
<1>6. \A a \in Measured(targets) : /\ a.minute \in Measures /\ a.minute.loss # Nil
                                   /\ a.minute.loss \in 0..100
                                   /\ a.minute.med \in Nat \union {Nil}
                                   /\ a.minute.med = Nil => a.minute.loss = 100
  BY DEF Measured, Hops, Target, Measures, Nil
<1>7. LANFine(targets) =>
        /\ ~(m.lanUnreachable \/ Reaches(m.lanLoss, t.lanDownLoss))
        /\ ~(Over(m.lanMs, t.lanMs) \/ Over(m.lanLoss, t.lanLoss))
  BY <1>3, <1>2 DEF Reaches, Over, Nil
<1>8. ASSUME LANFine(targets), NEW a \in Measured(targets), Perfect(a),
             \A b \in Measured(targets) : b.minute.med = 0 => Perfect(b)
      PROVE  v = Verdict("ok", "none")
  <2>1. m.netLoss = 0 /\ m.netMs = 0
    BY <1>8, <1>1 DEF Perfect, Nil
  <2>2. m.jitter \in {Nil, 0}
    BY <1>8, <2>1, <1>1 DEF Perfect, Nil
  <2>3. internetVerdict(m, t) = "ok"
    BY <1>3, <2>1, <2>2 DEF internetVerdict, Reaches, Over, Nil
  <2> QED
    BY <1>4, <1>5, <1>7, <1>8, <2>3 DEF Evaluate
<1>9. ASSUME LANFine(targets), NEW a \in Measured(targets),
             \A b \in Measured(targets) : b.minute.med = Nil
      PROVE  v.status = "down"
  <2>1. m.netLoss = 100
    BY <1>6, <1>9, <1>1
  <2>2. internetVerdict(m, t) = "down"
    BY <1>3, <2>1 DEF internetVerdict, Reaches, Nil
  <2> QED
    BY <1>4, <1>5, <1>7, <1>9, <2>2 DEF Evaluate, Verdict
<1>10. ASSUME v = Verdict("down", "internet")
      PROVE  /\ Measured(targets) # {}
             /\ \A a \in Measured(targets) : Alone(a, t) = "down"
  <2>1. internetVerdict(m, t) = "down"
    BY <1>4, <1>10 DEF Evaluate, Verdict
  <2>2. Reaches(m.netLoss, t.netDownLoss) \/ Reaches(m.netMs, t.netDownMs)
    BY <2>1 DEF internetVerdict
  <2>3. Measured(targets) # {}
    BY <2>2, <1>1 DEF Reaches
  <2>4. ASSUME NEW a \in Measured(targets)
        PROVE  Reaches(a.minute.loss, t.netDownLoss) \/ Reaches(a.minute.med, t.netDownMs)
    <3>1. CASE Reaches(m.netLoss, t.netDownLoss)
      BY <1>3, <1>6, <3>1, <1>1 DEF Reaches, Nil
    <3>2. CASE Reaches(m.netMs, t.netDownMs)
      <4>1. CASE a.minute.med = Nil
        BY <1>3, <1>6, <4>1 DEF Reaches, Nil
      <4>2. CASE a.minute.med # Nil
        BY <1>3, <1>6, <3>2, <4>2, <1>1 DEF Reaches, Nil
      <4> QED
        BY <4>1, <4>2
    <3> QED
      BY <2>2, <3>1, <3>2
  <2> QED
    BY <2>3, <2>4 DEF Alone, internetVerdict
<1> QED
  BY <1>8, <1>9, <1>10 DEF Fair

-----------------------------------------------------------------------------
(* The settings in force. *)

Request ==
    {Idle} \union [pc : {"marshal"}, edit : App, alone : BOOLEAN]
           \union [pc : {"write"}, edit : App, alone : BOOLEAN, app : App]

Typed ==
    /\ cur \in App /\ row \in App \union {NoValue} /\ edited \in App \union {NoValue}
    /\ lock \in BOOLEAN /\ up \in BOOLEAN /\ raced \in BOOLEAN
    /\ put \in [Handler -> Request]
    /\ faults \in Nat

\* The thresholds in force, and those on their way to the row, have been through
\* validation or are the defaults; only a row that no boot has seen yet has none.
LimitsValid ==
    /\ Valid(cur.limits)
    /\ row # NoValue => Valid(row.limits) \/ (row.limits = Zeros /\ ~up /\ ~raced)
    /\ \A h \in Handler : /\ put[h].pc # "idle" => Valid(put[h].edit.limits)
                          /\ put[h].pc = "write" => Valid(put[h].app.limits)

LockHolds ==
    /\ up /\ lock => cur = Booted(boot)
    /\ \A h \in Handler : put[h].pc # "idle" => up /\ ~lock

\* A request that is alone has the copy in memory for itself.
AloneIsAlone ==
    \A h \in Handler :
        put[h].pc # "idle" /\ put[h].alone =>
            /\ \A g \in Handler : g # h => put[g] = Idle
            /\ put[h].edit = cur /\ cur.ui
            /\ put[h].pc = "write" => put[h].app = cur

\* The edit last saved is what the row will give the next boot, and in force
\* while no request is at work.
EditSaved ==
    ~raced =>
        /\ \A h \in Handler : put[h].pc # "idle" => put[h].alone
        /\ faults = 0 /\ edited # NoValue =>
             /\ row # NoValue /\ row.ui /\ Filled(row) = edited
             /\ Quiet => cur = edited

SettingsInv == Typed /\ LimitsValid /\ LockHolds /\ AloneIsAlone /\ EditSaved

LEMMA DefaultsValid ==
    /\ Defaults \in Thresholds /\ Valid(Defaults) /\ Zeros \in Thresholds
    /\ \A t \in Thresholds : Valid(t) => t # Zeros
<1>1. Valid(Defaults)
  BY DEF Valid, Defaults
<1>2. \A t \in Thresholds : Valid(t) => t # Zeros
  BY DEF Valid, Zeros
<1> QED
  BY <1>1, <1>2 DEF Thresholds, Defaults, Zeros

LEMMA OfferedTyped == Offered \subseteq Thresholds
  BY DEF Offered, Loosest, Thresholds, Defaults, Zeros

\* Filled leaves settings with valid thresholds alone and gives others defaults.
LEMMA FilledValid ==
    ASSUME NEW a \in App, Valid(a.limits) \/ a.limits = Zeros
    PROVE  /\ Filled(a) \in App /\ Valid(Filled(a).limits) /\ Filled(a).ui = a.ui
           /\ Filled(Filled(a)) = Filled(a)
           /\ Valid(a.limits) => Filled(a) = a
<1>1. CASE a.limits = Zeros
  <2>1. Filled(a) = [a EXCEPT !.limits = Defaults]
    BY <1>1 DEF Filled, Settled
  <2>2. Defaults # Zeros
    BY DefaultsValid
  <2> QED
    BY <1>1, <2>1, <2>2, DefaultsValid DEF App, Filled, Settled
<1>2. CASE Valid(a.limits)
  <2>1. a.limits # Zeros
    BY <1>2, DefaultsValid DEF App
  <2>2. Filled(a) = a
    BY <2>1 DEF Filled, Settled, App
  <2> QED
    BY <1>2, <2>2
<1> QED
  BY <1>1, <1>2

LEMMA BootedValid ==
    ASSUME NEW v \in Value
    PROVE  Booted(v) \in App /\ Valid(Booted(v).limits)
  BY DefaultsValid DEF Booted, App

LEMMA InitSettings == Init => SettingsInv
<1> SUFFICES ASSUME Init PROVE SettingsInv
  OBVIOUS
<1>1. PICK v \in Value, locked \in BOOLEAN :
        /\ row \in {NoValue} \union [value : Value, limits : {Zeros}, ui : {TRUE}]
        /\ boot = v /\ lock = locked
        /\ cur = Booted(v)
        /\ edited = IF row = NoValue THEN NoValue ELSE Filled(row)
  BY DEF Init
<1>2. row # NoValue => row \in App /\ row.limits = Zeros /\ row.ui
  BY <1>1, DefaultsValid DEF App
<1>3. edited # NoValue => row # NoValue /\ edited = Filled(row) /\ edited \in App
  BY <1>1, <1>2, FilledValid
<1>4. cur \in App /\ Valid(cur.limits)
  BY <1>1, BootedValid
<1>5. up = FALSE /\ raced = FALSE /\ faults = 0 /\ \A h \in Handler : put[h] = Idle
  BY DEF Init
<1>6. Typed
  <2>1. put \in [Handler -> Request]
    BY DEF Init, Request
  <2>2. lock \in BOOLEAN /\ up \in BOOLEAN /\ raced \in BOOLEAN /\ faults \in Nat
    BY <1>1, <1>5
  <2>3. row \in App \union {NoValue} /\ edited \in App \union {NoValue}
    BY <1>2, <1>3
  <2> QED
    BY <1>4, <2>1, <2>2, <2>3 DEF Typed
<1>7. LimitsValid
  BY <1>2, <1>4, <1>5 DEF LimitsValid, Idle
<1>8. LockHolds /\ AloneIsAlone
  BY <1>5 DEF LockHolds, AloneIsAlone, Idle
<1>9. EditSaved
  BY <1>2, <1>3, <1>5 DEF EditSaved, Quiet, Idle
<1> QED
  BY <1>6, <1>7, <1>8, <1>9 DEF SettingsInv

LEMMA StartKeeps ==
    ASSUME SettingsInv, NEW v \in Value, NEW locked \in BOOLEAN, Start(v, locked)
    PROVE  SettingsInv'
<1> USE DEF SettingsInv
<1>1. row # NoValue => /\ row \in App
                       /\ Valid(row.limits) \/ row.limits = Zeros
                       /\ Filled(row) \in App /\ Valid(Filled(row).limits) /\ Filled(row).ui = row.ui
                       /\ Filled(Filled(row)) = Filled(row)
                       /\ Valid(row.limits) => Filled(row) = row
  BY FilledValid DEF Typed, LimitsValid
<1>2. Booted(v) \in App /\ Valid(Booted(v).limits)
  BY BootedValid
<1>3. \A h \in Handler : put[h] \in Request /\ put'[h] = put[h] /\ put[h].pc = "idle"
  BY DEF Start, LockHolds, Typed
<1>4. \A h \in Handler : put[h] = Idle
  BY <1>3 DEF Request
<1>5. row' = cur' /\ cur' \in App /\ Valid(cur'.limits) /\ row' # NoValue
  BY <1>1, <1>2, NoValueAssumption DEF Start, Loaded
<1>6. locked => cur' = Booted(boot')
  BY DEF Start, Loaded
<1>7. faults = 0 /\ edited' # NoValue =>
        ~locked /\ row # NoValue /\ row.ui /\ Filled(row) = edited'
  <2>1. CASE raced
    BY <1>1, <2>1 DEF Start, Kept, LimitsValid
  <2>2. CASE ~raced
    BY <2>2 DEF Start, EditSaved
  <2> QED
    BY <2>1, <2>2 DEF Typed
<1>8. ~locked /\ row # NoValue /\ row.ui => cur' = Filled(row)
  BY DEF Start, Loaded
<1>9. Typed'
  <2>1. edited' \in App \union {NoValue}
    BY DEF Start, Kept, Typed
  <2>2. put' = put /\ faults' = faults /\ up' = TRUE /\ raced' = FALSE /\ lock' = locked
    BY DEF Start
  <2> QED
    BY <1>5, <2>1, <2>2 DEF Typed
<1>10. LimitsValid'
  BY <1>3, <1>4, <1>5 DEF LimitsValid, Idle
<1>11. LockHolds' /\ AloneIsAlone'
  <2>1. \A h \in Handler : put'[h].pc = "idle"
    BY <1>3
  <2> QED
    BY <1>6, <2>1 DEF LockHolds, AloneIsAlone, Start
<1>12. EditSaved'
  <2>1. \A h \in Handler : put'[h].pc = "idle"
    BY <1>3
  <2>2. faults' = faults
    BY DEF Start
  <2>3. faults = 0 /\ edited' # NoValue => cur' = edited' /\ row' = edited' /\ row'.ui /\ Filled(row') = edited'
    BY <1>1, <1>5, <1>7, <1>8
  <2> QED
    BY <1>5, <2>1, <2>2, <2>3 DEF EditSaved
<1> QED
  BY <1>9, <1>10, <1>11, <1>12

LEMMA CrashKeeps ==
    ASSUME SettingsInv, Crash
    PROVE  SettingsInv'
<1>1. /\ put' \in [Handler -> Request] /\ ~up' /\ up' \in BOOLEAN
      /\ \A h \in Handler : put'[h] = Idle
  BY DEF Crash, Request
<1>2. UNCHANGED <<cur, row, lock, boot, edited, raced, faults>>
  BY DEF Crash
<1>3. Typed'
  BY <1>1, <1>2 DEF SettingsInv, Typed
<1>4. LimitsValid'
  BY <1>1, <1>2 DEF SettingsInv, LimitsValid, Idle, Crash
<1>5. LockHolds' /\ AloneIsAlone'
  BY <1>1 DEF LockHolds, AloneIsAlone, Idle
<1>6. EditSaved'
  BY <1>1, <1>2 DEF SettingsInv, EditSaved, Idle, Quiet
<1> QED
  BY <1>3, <1>4, <1>5, <1>6 DEF SettingsInv

\* What the arrival of a request does to the ones in progress.
LEMMA Joined ==
    ASSUME NEW r \in Request, NEW q, q = [r EXCEPT !.alone = FALSE]
    PROVE  /\ q \in Request /\ q.pc = r.pc /\ ~q.alone
           /\ r = Idle => q = Idle
           /\ r.pc # "idle" => q.edit = r.edit
           /\ r.pc = "write" => q.app = r.app
<1>1. CASE r = Idle
  <2>1. q = Idle
    BY <1>1 DEF Idle
  <2> QED
    BY <1>1, <2>1 DEF Idle, Request
<1>2. CASE r \in [pc : {"marshal"}, edit : App, alone : BOOLEAN]
  <2>1. q \in [pc : {"marshal"}, edit : App, alone : BOOLEAN]
    BY <1>2
  <2>2. q.pc = r.pc /\ q.edit = r.edit /\ q.alone = FALSE /\ r.pc = "marshal"
    BY <1>2
  <2>3. r # Idle
    BY <2>2 DEF Idle
  <2> QED
    BY <2>1, <2>2, <2>3 DEF Request
<1>3. CASE r \in [pc : {"write"}, edit : App, alone : BOOLEAN, app : App]
  <2>1. q \in [pc : {"write"}, edit : App, alone : BOOLEAN, app : App]
    BY <1>3
  <2>2. q.pc = r.pc /\ q.edit = r.edit /\ q.app = r.app /\ q.alone = FALSE /\ r.pc = "write"
    BY <1>3
  <2>3. r # Idle
    BY <2>2 DEF Idle
  <2> QED
    BY <2>1, <2>2, <2>3 DEF Request
<1> QED
  BY <1>1, <1>2, <1>3 DEF Request

LEMMA ApplyKeeps ==
    ASSUME SettingsInv, NEW h \in Handler, NEW v \in Value, NEW limits \in Offered, Apply(h, v, limits)
    PROVE  SettingsInv'
<1>1. /\ cur' \in App /\ Valid(cur'.limits) /\ cur'.ui = TRUE
  <2>1. limits \in Thresholds /\ (limits = Zeros \/ Valid(limits))
    BY OfferedTyped DEF Apply
  <2>2. Settled(limits) \in Thresholds /\ Valid(Settled(limits))
    BY <2>1, DefaultsValid DEF Settled
  <2> QED
    BY <2>2 DEF Apply, App
<1>2. put \in [Handler -> Request] /\ put[h] = Idle /\ up /\ ~lock
  BY DEF Apply, SettingsInv, Typed
<1>3. /\ put'[h].pc = "marshal" /\ put'[h].edit = cur'
      /\ put'[h].alone = (\A k \in Handler : put[k] = Idle)
      /\ put'[h] \in Request
  BY <1>1, <1>2 DEF Apply, Accepted, Request
<1>4. ASSUME NEW g \in Handler, g # h
      PROVE  /\ put'[g] = [put[g] EXCEPT !.alone = FALSE]
             /\ put'[g] \in Request /\ put'[g].pc = put[g].pc /\ ~put'[g].alone
             /\ put[g] = Idle => put'[g] = Idle
             /\ put[g].pc # "idle" => put'[g].edit = put[g].edit
             /\ put[g].pc = "write" => put'[g].app = put[g].app
  <2>1. put'[g] = [put[g] EXCEPT !.alone = FALSE]
    BY <1>4 DEF Apply, Accepted
  <2>2. put[g] \in Request
    BY <1>2
  <2> QED
    BY <2>1, <2>2, Joined
<1>5. put' \in [Handler -> Request]
  <2>1. put' = [g \in Handler |-> put'[g]]
    BY DEF Apply, Accepted
  <2> QED
    BY <1>3, <1>4, <2>1
<1>6. UNCHANGED <<row, lock, boot, up, edited, faults>>
  BY DEF Apply, PutKeeps
<1>7. raced' \in BOOLEAN /\ raced' = (raced \/ \E g \in Handler : put[g] # Idle)
  BY DEF Apply
<1>8. Typed'
  BY <1>1, <1>5, <1>6, <1>7 DEF SettingsInv, Typed
<1>9. LimitsValid'
  <2>1. row' # NoValue => Valid(row'.limits)
    BY <1>2, <1>6 DEF SettingsInv, LimitsValid
  <2>2. ASSUME NEW g \in Handler
        PROVE  /\ put'[g].pc # "idle" => Valid(put'[g].edit.limits)
               /\ put'[g].pc = "write" => Valid(put'[g].app.limits)
    <3>1. CASE g = h
      BY <1>1, <1>3, <3>1
    <3>2. CASE g # h
      BY <1>4, <3>2 DEF SettingsInv, LimitsValid
    <3> QED
      BY <3>1, <3>2
  <2> QED
    BY <1>1, <2>1, <2>2 DEF LimitsValid
<1>10. LockHolds'
  BY <1>2, <1>3, <1>4, <1>6 DEF SettingsInv, LockHolds
<1>11. AloneIsAlone'
  <2>1. put'[h].alone => \A g \in Handler : g # h => put'[g] = Idle
    BY <1>3, <1>4
  <2> QED
    BY <1>1, <1>3, <1>4, <2>1 DEF AloneIsAlone
<1>12. EditSaved'
  <2>1. ~raced' => put'[h].alone /\ \A g \in Handler : g # h => put'[g] = Idle
    BY <1>3, <1>4, <1>7
  <2>2. ~Quiet'
    BY <1>3 DEF Quiet, Idle
  <2> QED
    BY <1>6, <1>7, <2>1, <2>2 DEF SettingsInv, EditSaved, Idle
<1> QED
  BY <1>8, <1>9, <1>10, <1>11, <1>12 DEF SettingsInv

LEMMA MarshalKeeps ==
    ASSUME SettingsInv, NEW h \in Handler, Marshal(h)
    PROVE  SettingsInv'
<1>1. put \in [Handler -> Request] /\ put[h].pc = "marshal" /\ put[h] # Idle
  BY DEF Marshal, SettingsInv, Typed, Idle
<1>2. put[h].edit \in App /\ put[h].alone \in BOOLEAN /\ cur \in App
  BY <1>1 DEF Request, SettingsInv, Typed, Idle
<1>3. /\ put'[h] = [pc |-> "write", edit |-> put[h].edit, alone |-> put[h].alone, app |-> cur]
      /\ put'[h] \in Request /\ put'[h] # Idle
  BY <1>1, <1>2 DEF Marshal, Request, Idle
<1>4. \A g \in Handler : g # h => put'[g] = put[g]
  BY <1>1 DEF Marshal
<1>5. put' \in [Handler -> Request]
  <2>1. put' = [put EXCEPT ![h] = put'[h]]
    BY <1>1 DEF Marshal
  <2> QED
    BY <1>1, <1>3, <2>1
<1>6. UNCHANGED <<cur, row, edited, raced, faults, lock, boot, up>>
  BY DEF Marshal, PutKeeps
<1>7. Typed'
  BY <1>5, <1>6 DEF SettingsInv, Typed
<1>8. LimitsValid'
  <2>1. ASSUME NEW g \in Handler
        PROVE  /\ put'[g].pc # "idle" => Valid(put'[g].edit.limits)
               /\ put'[g].pc = "write" => Valid(put'[g].app.limits)
    BY <1>1, <1>3, <1>4 DEF SettingsInv, LimitsValid
  <2> QED
    BY <1>6, <2>1 DEF SettingsInv, LimitsValid
<1>9. LockHolds'
  BY <1>1, <1>3, <1>4, <1>6 DEF SettingsInv, LockHolds
<1>10. AloneIsAlone'
  BY <1>1, <1>3, <1>4, <1>6 DEF SettingsInv, AloneIsAlone
<1>11. EditSaved'
  <2>1. ~Quiet'
    BY <1>3 DEF Quiet
  <2>2. ~raced => \A g \in Handler : put'[g].pc # "idle" => put'[g].alone
    BY <1>1, <1>3, <1>4 DEF SettingsInv, EditSaved
  <2> QED
    BY <1>6, <2>1, <2>2 DEF SettingsInv, EditSaved
<1> QED
  BY <1>7, <1>8, <1>9, <1>10, <1>11 DEF SettingsInv

LEMMA WriteKeeps ==
    ASSUME SettingsInv, NEW h \in Handler, NEW ok \in BOOLEAN, Write(h, ok)
    PROVE  SettingsInv'
<1>1. put \in [Handler -> Request] /\ put[h].pc = "write" /\ put[h] # Idle
  BY DEF Write, SettingsInv, Typed, Idle
<1>2. /\ put[h].edit \in App /\ put[h].app \in App
      /\ Valid(put[h].edit.limits) /\ Valid(put[h].app.limits)
  BY <1>1 DEF Request, SettingsInv, LimitsValid, Idle
<1>3. put' \in [Handler -> Request] /\ put'[h] = Idle /\ \A g \in Handler : g # h => put'[g] = put[g]
  BY <1>1 DEF Write, Request
<1>4. UNCHANGED <<cur, lock, boot, up>>
  BY DEF Write, PutKeeps
<1>5. /\ row' = IF ok THEN put[h].app ELSE row
      /\ edited' = IF ok THEN put[h].edit ELSE edited
      /\ raced' = (raced /\ ~(ok /\ put[h].alone))
      /\ faults' = IF ok THEN faults ELSE faults + 1
  BY DEF Write
<1>6. up /\ ~lock
  BY <1>1 DEF SettingsInv, LockHolds
<1>7. Typed'
  BY <1>2, <1>3, <1>4, <1>5 DEF SettingsInv, Typed
<1>8. LimitsValid'
  <2>1. row' # NoValue => Valid(row'.limits)
    BY <1>2, <1>5, <1>6 DEF SettingsInv, LimitsValid
  <2>2. ASSUME NEW g \in Handler
        PROVE  /\ put'[g].pc # "idle" => Valid(put'[g].edit.limits)
               /\ put'[g].pc = "write" => Valid(put'[g].app.limits)
    BY <1>3 DEF SettingsInv, LimitsValid, Idle
  <2> QED
    BY <1>4, <2>1, <2>2 DEF SettingsInv, LimitsValid
<1>9. LockHolds'
  BY <1>3, <1>4 DEF SettingsInv, LockHolds, Idle
<1>10. AloneIsAlone'
  BY <1>3, <1>4 DEF SettingsInv, AloneIsAlone, Idle
<1>11. EditSaved'
  <2>1. CASE ok /\ put[h].alone
    <3>1. \A g \in Handler : put'[g].pc = "idle"
      BY <1>1, <1>3, <2>1 DEF SettingsInv, AloneIsAlone, Idle
    <3>2. row' = cur' /\ edited' = cur' /\ cur'.ui
      BY <1>1, <1>4, <1>5, <2>1 DEF SettingsInv, AloneIsAlone
    <3>3. Filled(cur') = cur' /\ cur' # NoValue
      BY <1>4, FilledValid, NoValueAssumption DEF SettingsInv, Typed, LimitsValid
    <3> QED
      BY <3>1, <3>2, <3>3 DEF EditSaved
  <2>2. CASE ~(ok /\ put[h].alone)
    <3> SUFFICES ASSUME ~raced' PROVE EditSaved'
      BY DEF EditSaved
    <3>1. ~raced
      BY <1>5, <2>2
    <3>2. put[h].alone
      BY <1>1, <3>1 DEF SettingsInv, EditSaved
    <3>3. faults' # 0
      BY <1>5, <2>2, <3>2 DEF SettingsInv, Typed
    <3>4. \A g \in Handler : put'[g].pc # "idle" => put'[g].alone
      BY <1>3, <3>1 DEF SettingsInv, EditSaved, Idle
    <3> QED
      BY <3>3, <3>4 DEF EditSaved
  <2> QED
    BY <2>1, <2>2
<1> QED
  BY <1>7, <1>8, <1>9, <1>10, <1>11 DEF SettingsInv

LEMMA SettingsStep == SettingsInv /\ [Next]_mvars => SettingsInv'
<1> SUFFICES ASSUME SettingsInv, [Next]_mvars PROVE SettingsInv'
  OBVIOUS
<1>1. CASE \E v \in Value, locked \in BOOLEAN : Start(v, locked)
  BY <1>1, StartKeeps
<1>2. CASE Crash
  BY <1>2, CrashKeeps
<1>3. CASE \E h \in Handler, v \in Value, limits \in Offered : Apply(h, v, limits)
  BY <1>3, ApplyKeeps
<1>4. CASE \E h \in Handler : Marshal(h)
  BY <1>4, MarshalKeeps
<1>5. CASE \E h \in Handler, ok \in BOOLEAN : Write(h, ok)
  BY <1>5, WriteKeeps
<1>6. CASE UNCHANGED mvars
  BY <1>6 DEF mvars, SettingsInv, Typed, LimitsValid, LockHolds, AloneIsAlone, EditSaved, Quiet
<1> QED
  BY <1>1, <1>2, <1>3, <1>4, <1>5, <1>6 DEF Next

\* The scenes of SafeInForce are targets of the program.
LEMMA ScenesAreTargets == Scenes \subseteq SUBSET Target
<1>1. {Good, Silent, Unknown, Lossy} \subseteq Measures
  BY DEF Measures, Good, Silent, Unknown, Lossy, Minute, Nil
<1>2. SUFFICES ASSUME NEW lan \in {Good, Unknown}, NEW quiet \in BOOLEAN,
                      NEW near \in {Good, Silent, Unknown, Lossy},
                      NEW far \in {Good, Silent, Unknown, Lossy}
               PROVE  Scene(lan, quiet, near, far) \subseteq Target
  BY DEF Scenes
<1>3. Hop(1, 1, FALSE, lan) \in Target
  BY <1>1 DEF Hop, Target
<1>4. Hop(2, 2, quiet, Silent) \in Target
  BY <1>1 DEF Hop, Target
<1>5. Hop(3, 3, FALSE, near) \in Target
  BY <1>1 DEF Hop, Target
<1>6. Hop(4, 3, FALSE, far) \in Target
  BY <1>1 DEF Hop, Target
<1> QED
  BY <1>3, <1>4, <1>5, <1>6 DEF Scene

\* Whatever requests, crashes, failed writes and boots with other configurations
\* there are, the glance is fair under the thresholds in force, and a locked
\* configuration is the one in force (settings.go:72-74, 143-182).
THEOREM VerdictsStaySafe == Spec => []SafeInForce
<1>1. SettingsInv => SafeInForce
  <2> SUFFICES ASSUME SettingsInv, up PROVE SafeInForce
    BY DEF SafeInForce
  <2>1. cur.limits \in Thresholds /\ Valid(cur.limits)
    BY DEF SettingsInv, Typed, LimitsValid, App
  <2>2. \A targets \in Scenes : Fair(targets, cur.limits)
    BY <2>1, ScenesAreTargets, GlanceIsFair
  <2> QED
    BY <2>2 DEF SafeInForce, SettingsInv, LockHolds
<1> QED
  BY <1>1, InitSettings, SettingsStep, PTL DEF Spec

\* An edit answered with success, by a request that began alone, is in force
\* until a locked boot replaces it (settings.go:47-51, 94-119).
THEOREM SavedEditsWin == Spec => []EditsWin
<1>1. SettingsInv => EditsWin
  BY DEF SettingsInv, EditSaved, EditsWin
<1> QED
  BY <1>1, InitSettings, SettingsStep, PTL DEF Spec
=============================================================================
