-------------------------- MODULE BootConfigProofs --------------------------
(***************************************************************************)
(* EditsSurvive and ConfigInForce hold for any keys, labels and lists, any *)
(* number of starts and edits, and wherever the starts are broken off.     *)
(***************************************************************************)
EXTENDS BootConfig, TLAPS

Table == Seq(Row \union {NoRow})

\* The types of the variables the argument is about.
Types ==
    /\ pc \in {"down", "targets", "reflectors", "probers", "serving"}
    /\ rows \in Table /\ seen \in Table
    /\ mentioned \subseteq Key
    /\ pc = "targets" => todo \in Seq(Entry)

\* The keys still to be written have been announced, and requests are served
\* on the table as it was last seen.
Announced == pc = "targets" => \A i \in DOMAIN todo : todo[i].key \in mentioned
ServedIsSeen == pc = "serving" => rows = seen

IInv == Types /\ Announced /\ ServedIsSeen /\ EditsSurvive

-----------------------------------------------------------------------------
\* What writing one entry does to the table: every id keeps its key, its flag
\* and whether there is a row, a changed label is of the entry's key, and a row
\* is added only for a key that has none.
LEMMA UpsertEffect ==
    ASSUME rows \in Table, NEW e \in Entry, UpsertTargetByHost(e)
    PROVE  /\ rows' \in Table
           /\ Len(rows) <= Len(rows')
           /\ \A id \in DOMAIN rows :
                 IF rows[id] = NoRow THEN rows'[id] = NoRow
                 ELSE /\ rows'[id] # NoRow
                      /\ rows'[id].key = rows[id].key
                      /\ rows'[id].enabled = rows[id].enabled
                      /\ rows'[id].label = rows[id].label \/ rows[id].key = e.key
           /\ \A id \in DOMAIN rows' \ DOMAIN rows :
                 /\ rows'[id] = [key |-> e.key, label |-> e.label, enabled |-> TRUE]
                 /\ \A known \in DOMAIN rows : rows[known] # NoRow => rows[known].key # e.key
<1> DEFINE new == [key |-> e.key, label |-> e.label, enabled |-> TRUE]
<1>1. /\ new \in Row /\ NoRow \notin Row
      /\ \A row \in Row : [row EXCEPT !.label = e.label] \in Row
  BY NoRowAssumption DEF Row, Entry
<1>2. CASE Holders(e.key) = {}
  <2>1. rows' = Append(rows, new)
    BY <1>2 DEF UpsertTargetByHost
  <2>2. \A known \in DOMAIN rows : rows[known] # NoRow => rows[known].key # e.key
    BY <1>2 DEF Holders, Live
  <2>3. /\ rows' \in Table /\ Len(rows') = Len(rows) + 1
        /\ \A id \in DOMAIN rows : rows'[id] = rows[id]
        /\ rows'[Len(rows) + 1] = new
    BY <2>1, <1>1 DEF Table
  <2>4. \A id \in DOMAIN rows' \ DOMAIN rows : id = Len(rows) + 1
    BY <2>3 DEF Table
  <2>5. Len(rows) \in Nat
    BY DEF Table
  <2> QED
    BY <2>2, <2>3, <2>4, <2>5
<1>3. CASE Holders(e.key) # {}
  <2>1. rows' = [id \in DOMAIN rows |->
                   IF id \in Holders(e.key) THEN [rows[id] EXCEPT !.label = e.label] ELSE rows[id]]
    BY <1>3 DEF UpsertTargetByHost
  <2>2. \A id \in DOMAIN rows : rows[id] \in Row \union {NoRow}
    BY DEF Table
  <2>3. \A id \in Holders(e.key) : id \in DOMAIN rows /\ rows[id] \in Row /\ rows[id].key = e.key
    BY <2>2 DEF Holders, Live
  <2>4. DOMAIN rows = 1..Len(rows) /\ Len(rows) \in Nat
    BY DEF Table
  <2>5. \A id \in DOMAIN rows : rows'[id] \in Row \union {NoRow}
    BY <2>1, <2>2, <2>3, <1>1
  <2>6. rows' \in Table /\ Len(rows') = Len(rows) /\ DOMAIN rows' = DOMAIN rows
    BY <2>1, <2>4, <2>5 DEF Table
  <2>7. ASSUME NEW id \in DOMAIN rows
        PROVE  IF rows[id] = NoRow THEN rows'[id] = NoRow
               ELSE /\ rows'[id] # NoRow
                    /\ rows'[id].key = rows[id].key
                    /\ rows'[id].enabled = rows[id].enabled
                    /\ rows'[id].label = rows[id].label \/ rows[id].key = e.key
    <3>1. CASE id \in Holders(e.key)
      <4>1. rows'[id] = [rows[id] EXCEPT !.label = e.label] /\ rows[id] \in Row /\ rows[id].key = e.key
        BY <2>1, <2>3, <3>1
      <4>2. rows'[id] \in Row /\ rows'[id].key = rows[id].key /\ rows'[id].enabled = rows[id].enabled
        BY <4>1, <1>1 DEF Row
      <4> QED
        BY <4>1, <4>2, <1>1
    <3>2. CASE id \notin Holders(e.key)
      BY <2>1, <3>2
    <3> QED
      BY <3>1, <3>2
  <2> QED
    BY <2>4, <2>6, <2>7
<1> QED
  BY <1>2, <1>3

\* One entry written on a table that kept the edits leaves one that does.
LEMMA UpsertKeepsEdits ==
    ASSUME rows \in Table, seen \in Table, EditsSurvive,
           NEW e \in Entry, e.key \in mentioned, UpsertTargetByHost(e),
           seen' = seen, mentioned' = mentioned
    PROVE  EditsSurvive'
<1>1. DOMAIN seen \subseteq DOMAIN rows /\ Len(seen) <= Len(rows)
  BY DEF Table, EditsSurvive
<1>2. rows' \in Table /\ Len(rows) <= Len(rows')
  BY UpsertEffect
<1>3. Len(seen) <= Len(rows')
  BY <1>1, <1>2 DEF Table
<1>4. ASSUME NEW id \in DOMAIN seen
      PROVE  IF seen[id] = NoRow THEN rows'[id] = NoRow
             ELSE /\ rows'[id] # NoRow
                  /\ rows'[id].key = seen[id].key
                  /\ rows'[id].enabled = seen[id].enabled
                  /\ rows'[id].label = seen[id].label \/ seen[id].key \in mentioned
  <2>1. IF seen[id] = NoRow THEN rows[id] = NoRow
        ELSE /\ rows[id] # NoRow
             /\ rows[id].key = seen[id].key
             /\ rows[id].enabled = seen[id].enabled
             /\ rows[id].label = seen[id].label \/ seen[id].key \in mentioned
    BY DEF EditsSurvive
  <2>2. IF rows[id] = NoRow THEN rows'[id] = NoRow
        ELSE /\ rows'[id] # NoRow
             /\ rows'[id].key = rows[id].key
             /\ rows'[id].enabled = rows[id].enabled
             /\ rows'[id].label = rows[id].label \/ rows[id].key = e.key
    BY <1>1, UpsertEffect
  <2> QED
    BY <2>1, <2>2
<1>5. ASSUME NEW id \in DOMAIN rows' \ DOMAIN seen
      PROVE  /\ rows'[id] # NoRow
             /\ rows'[id].key \in mentioned
             /\ rows'[id].enabled
             /\ \A known \in DOMAIN seen : seen[known] # NoRow => seen[known].key # rows'[id].key
  <2>1. CASE id \in DOMAIN rows
    <3>1. /\ rows[id] # NoRow
          /\ rows[id].key \in mentioned
          /\ rows[id].enabled
          /\ \A known \in DOMAIN seen : seen[known] # NoRow => seen[known].key # rows[id].key
      BY <2>1 DEF EditsSurvive
    <3>2. /\ rows'[id] # NoRow
          /\ rows'[id].key = rows[id].key
          /\ rows'[id].enabled = rows[id].enabled
      BY <2>1, <3>1, UpsertEffect
    <3> QED
      BY <3>1, <3>2
  <2>2. CASE id \notin DOMAIN rows
    <3>1. /\ rows'[id] = [key |-> e.key, label |-> e.label, enabled |-> TRUE]
          /\ \A known \in DOMAIN rows : rows[known] # NoRow => rows[known].key # e.key
      BY <2>2, UpsertEffect
    <3>2. rows'[id] # NoRow
      <4>1. rows'[id] \in Row
        BY <3>1 DEF Row, Entry
      <4> QED
        BY <4>1, NoRowAssumption
    <3>3. rows'[id].key = e.key /\ rows'[id].enabled
      BY <3>1
    <3>4. ASSUME NEW known \in DOMAIN seen, seen[known] # NoRow
          PROVE  seen[known].key # e.key
      <4>1. rows[known] # NoRow /\ rows[known].key = seen[known].key
        BY <3>4 DEF EditsSurvive
      <4> QED
        BY <1>1, <3>1, <4>1
    <3> QED
      BY <3>2, <3>3, <3>4
  <2> QED
    BY <2>1, <2>2
<1> QED
  BY <1>3, <1>4, <1>5 DEF EditsSurvive

\* The keys of a list are those of its entries.
LEMMA ListKeys ==
    ASSUME NEW list \in Seq(Entry)
    PROVE  KeysOf(list) \subseteq Key /\ \A i \in DOMAIN list : list[i].key \in KeysOf(list)
<1>1. \A i \in DOMAIN list : list[i] \in Entry
  OBVIOUS
<1>2. \A i \in DOMAIN list : list[i].key \in Key
  BY <1>1 DEF Entry
<1> QED
  BY <1>2 DEF KeysOf

\* Replacing a row, or marking it deleted, leaves a table.
LEMMA UpdateKeepsTable ==
    ASSUME NEW table \in Table, NEW id \in DOMAIN table, NEW row \in Row \union {NoRow}
    PROVE  [table EXCEPT ![id] = row] \in Table
BY DEF Table

\* The edits of the targets leave a table of rows.
LEMMA EditEffect ==
    ASSUME NEW table \in Table, Edit(table), IInv
    PROVE  IInv'
<1>1. rows' = table /\ seen' = table /\ pc = "serving" /\ pc' = "serving" /\ mentioned' = mentioned
  BY DEF Edit
<1>2. EditsSurvive'
  BY <1>1 DEF Table, EditsSurvive
<1> QED
  BY <1>1, <1>2 DEF IInv, Types, Announced, ServedIsSeen

-----------------------------------------------------------------------------
LEMMA InitInv == Init => IInv
BY DEF Init, IInv, Types, Announced, ServedIsSeen, EditsSurvive, Table

LEMMA StepInv == IInv /\ [Next]_bvars => IInv'
<1> SUFFICES ASSUME IInv, [Next]_bvars PROVE IInv'
  OBVIOUS
<1>1. Types /\ Announced /\ ServedIsSeen /\ EditsSurvive
  BY DEF IInv
<1>2. ASSUME NEW c \in [targets : Lists, reflectors : Reflectors], NEW defaults \in Defaults,
             Start(c, defaults)
      PROVE  IInv'
  <2>1. /\ pc' = "targets" /\ rows' = rows /\ seen' = seen
        /\ mentioned' = mentioned \union KeysOf(todo')
    BY <1>2 DEF Start
  <2>2. todo' \in Seq(Entry)
    <3>1. c.targets \in Seq(Entry) /\ defaults \in Seq(Entry) /\ <<>> \in Seq(Entry)
      BY ListsAssumption
    <3>2. todo' = IF c.targets # <<>> THEN c.targets ELSE IF Live = {} THEN defaults ELSE <<>>
      BY <1>2 DEF Start
    <3> QED
      BY <3>1, <3>2
  <2>3. KeysOf(todo') \subseteq Key /\ \A i \in DOMAIN todo' : todo'[i].key \in KeysOf(todo')
    BY <2>2, ListKeys
  <2>4. EditsSurvive'
    BY <1>1, <2>1 DEF EditsSurvive
  <2> QED
    BY <1>1, <2>1, <2>2, <2>3, <2>4 DEF IInv, Types, Announced, ServedIsSeen
<1>3. CASE SeedTarget
  <2>1. /\ pc = "targets" /\ todo # <<>> /\ todo \in Seq(Entry)
        /\ UpsertTargetByHost(Head(todo)) /\ todo' = Tail(todo)
        /\ pc' = pc /\ seen' = seen /\ mentioned' = mentioned
    BY <1>1, <1>3 DEF SeedTarget, Types
  <2>2. /\ Head(todo) \in Entry /\ Head(todo).key \in mentioned
        /\ todo' \in Seq(Entry)
        /\ \A i \in DOMAIN todo' : todo'[i].key \in mentioned
    <3>1. Tail(todo) \in Seq(Entry) /\ Head(todo) = todo[1] /\ 1 \in DOMAIN todo
      BY <2>1
    <3>2. \A i \in DOMAIN Tail(todo) : i + 1 \in DOMAIN todo /\ Tail(todo)[i] = todo[i + 1]
      BY <2>1
    <3>3. \A i \in DOMAIN todo : todo[i].key \in mentioned /\ todo[i] \in Entry
      BY <1>1, <2>1 DEF Announced
    <3>4. \A i \in DOMAIN Tail(todo) : Tail(todo)[i].key \in mentioned
      BY <3>2, <3>3
    <3> QED
      BY <2>1, <3>1, <3>3, <3>4
  <2>3. rows' \in Table
    BY <1>1, <2>1, <2>2, UpsertEffect DEF Types
  <2>4. EditsSurvive'
    BY <1>1, <2>1, <2>2, UpsertKeepsEdits DEF Types
  <2> QED
    BY <1>1, <2>1, <2>2, <2>3, <2>4 DEF IInv, Types, Announced, ServedIsSeen
<1>4. CASE TargetsSeeded \/ SeedReflector \/ PruneReflectors \/ Stop
  <2>1. /\ rows' = rows /\ seen' = seen /\ mentioned' = mentioned
        /\ pc' \in {"down", "reflectors", "probers"}
    BY <1>4 DEF TargetsSeeded, SeedReflector, PruneReflectors, Stop
  <2>2. EditsSurvive'
    BY <1>1, <2>1 DEF EditsSurvive
  <2> QED
    BY <1>1, <2>1, <2>2 DEF IInv, Types, Announced, ServedIsSeen
<1>5. CASE StartProbers
  <2>1. rows' = rows /\ seen' = rows /\ mentioned' = {} /\ pc' = "serving"
    BY <1>5 DEF StartProbers
  <2>2. EditsSurvive'
    BY <1>1, <2>1 DEF EditsSurvive, Types, Table
  <2> QED
    BY <1>1, <2>1, <2>2 DEF IInv, Types, Announced, ServedIsSeen
<1>6. ASSUME NEW row \in Row, CreateTarget(row)
      PROVE  IInv'
  <2>1. Append(rows, row) \in Table
    BY <1>1 DEF Types, Table
  <2> QED
    BY <1>6, <2>1, EditEffect DEF CreateTarget
<1>7. ASSUME NEW id \in Live, DeleteTarget(id)
      PROVE  IInv'
  <2>1. [rows EXCEPT ![id] = NoRow] \in Table
    BY <1>1, UpdateKeepsTable DEF Types, Live
  <2> QED
    BY <1>7, <2>1, EditEffect DEF DeleteTarget
<1>8. ASSUME NEW id \in Live, NEW row \in Row, UpdateTarget(id, row)
      PROVE  IInv'
  <2>1. [rows EXCEPT ![id] = row] \in Table
    BY <1>1, UpdateKeepsTable DEF Types, Live
  <2> QED
    BY <1>8, <2>1, EditEffect DEF UpdateTarget
<1>9. CASE UNCHANGED bvars
  BY <1>1, <1>9 DEF IInv, Types, Announced, ServedIsSeen, EditsSurvive, bvars
<1> QED
  BY <1>2, <1>3, <1>4, <1>5, <1>6, <1>7, <1>8, <1>9 DEF Next

\* Edits of the targets survive every start (main.go, run, and the ON CONFLICT
\* clause of UpsertTargetByHost).
THEOREM EditsAlwaysSurvive == Spec => []EditsSurvive
<1>1. IInv => EditsSurvive
  BY DEF IInv
<1> QED
  BY InitInv, StepInv, <1>1, PTL DEF Spec
-----------------------------------------------------------------------------
(* The configuration in force. *)

\* The unique index: a key has one row at most.
KeysUnique == \A i, j \in Live : rows[i].key = rows[j].key => i = j

Listed(key, label) == \E id \in Live : rows[id].key = key /\ rows[id].label = label

\* Of the first k entries the last one of each key is in the table.
WrittenUpTo(k) ==
    \A n \in 1..k :
        \E i \in 1..k :
            /\ conf.targets[i].key = conf.targets[n].key
            /\ \A j \in 1..k : conf.targets[j].key = conf.targets[n].key => j <= i
            /\ Listed(conf.targets[i].key, conf.targets[i].label)

\* What is left of the configured list is its end, and the rest is written.
ListUnderWay ==
    pc = "targets" /\ conf.targets # <<>> =>
        /\ Len(todo) <= Len(conf.targets)
        /\ \A i \in DOMAIN todo : todo[i] = conf.targets[Len(conf.targets) - Len(todo) + i]
        /\ WrittenUpTo(Len(conf.targets) - Len(todo))

\* The list is in the table from then on, until a request edits it.
Settled == pc \in {"reflectors", "probers"} \/ (pc = "serving" /\ fresh)
ListWritten == Settled => WrittenUpTo(Len(conf.targets))

\* A start that completes leaves some target.
SomeTarget ==
    /\ pc = "targets" => todo # <<>> \/ Live # {}
    /\ Settled => Live # {}

\* The reflectors enabled, and from there those probed, are configured ones.
Pruned(hosts) == \A h \in hosts : conf.reflectors # <<>> => h \in Range(conf.reflectors)
EnabledHosts == {h \in Host : reflectors[h] = "enabled"}
ReflectorsPruned ==
    /\ pc \in {"probers", "serving"} => Pruned(EnabledHosts)
    /\ pc = "serving" => probed = EnabledHosts

ConfInv ==
    /\ conf.targets \in Seq(Entry)
    /\ KeysUnique /\ ListUnderWay /\ ListWritten /\ SomeTarget /\ ReflectorsPruned

\* Writing an entry makes its key's one row say so, and leaves other keys alone.
LEMMA UpsertWrites ==
    ASSUME rows \in Table, KeysUnique, NEW e \in Entry, UpsertTargetByHost(e)
    PROVE  /\ KeysUnique'
           /\ Listed(e.key, e.label)'
           /\ \A key, label : key # e.key /\ Listed(key, label) => Listed(key, label)'
<1> DEFINE new == [key |-> e.key, label |-> e.label, enabled |-> TRUE]
<1>1. DOMAIN rows = 1..Len(rows) /\ Len(rows) \in Nat
      /\ \A id \in DOMAIN rows : rows[id] \in Row \union {NoRow}
  BY DEF Table
<1>2. CASE Holders(e.key) = {}
  <2>1. rows' = Append(rows, new)
    BY <1>2 DEF UpsertTargetByHost
  <2>2. new \in Row /\ new # NoRow
    <3>1. new \in Row
      BY DEF Row, Entry
    <3> QED
      BY <3>1, NoRowAssumption
  <2>3. /\ DOMAIN rows' = 1..(Len(rows) + 1) /\ rows'[Len(rows) + 1] = new
        /\ \A id \in DOMAIN rows : rows'[id] = rows[id]
    BY <1>1, <2>1, <2>2 DEF Table
  <2>4. Live' = Live \union {Len(rows) + 1}
    BY <1>1, <2>2, <2>3 DEF Live
  <2>5. \A id \in Live : rows'[id] = rows[id] /\ rows[id].key # e.key
    BY <1>2, <2>3 DEF Live, Holders
  <2>6. rows'[Len(rows) + 1].key = e.key /\ rows'[Len(rows) + 1].label = e.label
    BY <2>3
  <2> QED
    BY <2>4, <2>5, <2>6 DEF KeysUnique, Listed
<1>3. CASE Holders(e.key) # {}
  <2> DEFINE relabelled(id) == [rows[id] EXCEPT !.label = e.label]
  <2>1. rows' = [id \in DOMAIN rows |-> IF id \in Holders(e.key) THEN relabelled(id) ELSE rows[id]]
    BY <1>3 DEF UpsertTargetByHost
  <2>2. \A id \in Live : id \in DOMAIN rows /\ rows[id] \in Row
    BY <1>1 DEF Live
  <2>3. ASSUME NEW id \in Holders(e.key)
        PROVE  /\ id \in Live /\ rows'[id] # NoRow
               /\ rows'[id].key = e.key /\ rows'[id].label = e.label
    <3>1. id \in Live /\ rows[id].key = e.key /\ rows'[id] = relabelled(id)
      BY <2>1, <2>2 DEF Holders
    <3>2. relabelled(id) \in Row /\ relabelled(id).key = e.key /\ relabelled(id).label = e.label
      BY <2>2, <3>1 DEF Row, Entry
    <3> QED
      BY <3>1, <3>2, NoRowAssumption
  <2>4. \A id \in Live : id \notin Holders(e.key) => rows'[id] = rows[id] /\ rows[id].key # e.key
    BY <2>1, <2>2 DEF Holders
  <2>5. Live' = Live
    <3>1. DOMAIN rows' = DOMAIN rows
      BY <2>1
    <3>2. \A id \in DOMAIN rows : id \notin Holders(e.key) => rows'[id] = rows[id]
      BY <2>1
    <3> QED
      BY <2>3, <3>1, <3>2 DEF Live
  <2>6. \A id \in Live : rows'[id].key = rows[id].key
    BY <2>3, <2>4 DEF Holders
  <2>7. KeysUnique'
    BY <2>5, <2>6 DEF KeysUnique
  <2>8. Listed(e.key, e.label)'
    BY <1>3, <2>3, <2>5 DEF Listed
  <2>9. ASSUME NEW key, NEW label, key # e.key, Listed(key, label)
        PROVE  Listed(key, label)'
    <3>1. PICK id \in Live : rows[id].key = key /\ rows[id].label = label
      BY <2>9 DEF Listed
    <3>2. rows'[id] = rows[id]
      BY <2>4, <2>9, <3>1 DEF Holders
    <3> QED
      BY <2>5, <3>1, <3>2 DEF Listed
  <2> QED
    BY <2>7, <2>8, <2>9
<1> QED
  BY <1>2, <1>3

\* The next entry is written.
LEMMA WrittenAdvances ==
    ASSUME rows \in Table, KeysUnique, conf.targets \in Seq(Entry), conf' = conf,
           NEW k \in Nat, k < Len(conf.targets), WrittenUpTo(k),
           UpsertTargetByHost(conf.targets[k + 1])
    PROVE  WrittenUpTo(k + 1)'
<1> DEFINE list == conf.targets
           e == list[k + 1]
<1>1. e \in Entry /\ list' = list
  OBVIOUS
<1>2. /\ Listed(e.key, e.label)'
      /\ \A key, label : key # e.key /\ Listed(key, label) => Listed(key, label)'
  BY <1>1, UpsertWrites
<1> SUFFICES ASSUME NEW n \in 1..(k + 1)
             PROVE  \E i \in 1..(k + 1) :
                      /\ list[i].key = list[n].key
                      /\ \A j \in 1..(k + 1) : list[j].key = list[n].key => j <= i
                      /\ Listed(list[i].key, list[i].label)'
  BY <1>1 DEF WrittenUpTo
<1>3. CASE list[n].key = e.key
  BY <1>2, <1>3
<1>4. CASE list[n].key # e.key
  <2>1. n \in 1..k
    BY <1>4
  <2>2. PICK i \in 1..k : /\ list[i].key = list[n].key
                          /\ \A j \in 1..k : list[j].key = list[n].key => j <= i
                          /\ Listed(list[i].key, list[i].label)
    BY <2>1 DEF WrittenUpTo
  <2>3. Listed(list[i].key, list[i].label)'
    BY <1>2, <1>4, <2>2
  <2>4. \A j \in 1..(k + 1) : list[j].key = list[n].key => j <= i
    BY <1>4, <2>2
  <2> QED
    BY <2>2, <2>3, <2>4
<1> QED
  BY <1>3, <1>4

LEMMA ConfInit == Init => ConfInv
BY DEF Init, NoConf, ConfInv, KeysUnique, Live, ListUnderWay, ListWritten, Settled, SomeTarget,
       ReflectorsPruned

\* A step that leaves the start where it is, its list and its tables.
LEMMA ConfKept ==
    ASSUME ConfInv, UNCHANGED <<pc, conf, todo, rows, reflectors, probed, fresh>>
    PROVE  ConfInv'
BY DEF ConfInv, KeysUnique, Live, Listed, WrittenUpTo, ListUnderWay, ListWritten, Settled,
       SomeTarget, ReflectorsPruned, Pruned, EnabledHosts

\* An edit answers for the uniqueness of its key alone: what is in force is its own.
LEMMA EditKeepsConf ==
    ASSUME ConfInv, NEW table, Edit(table), KeysUnique'
    PROVE  ConfInv'
<1>1. pc' = "serving" /\ pc = "serving" /\ ~fresh' /\ UNCHANGED <<conf, todo, reflectors, probed>>
  BY DEF Edit
<1> QED
  BY <1>1 DEF ConfInv, ListUnderWay, ListWritten, Settled, SomeTarget, ReflectorsPruned, Pruned,
              EnabledHosts

LEMMA ConfStep == IInv /\ ConfInv /\ [Next]_bvars => ConfInv'
<1> SUFFICES ASSUME IInv, ConfInv, [Next]_bvars PROVE ConfInv'
  OBVIOUS
<1>1. /\ Types /\ conf.targets \in Seq(Entry)
      /\ KeysUnique /\ ListUnderWay /\ ListWritten /\ SomeTarget /\ ReflectorsPruned
  BY DEF IInv, ConfInv
<1>2. ASSUME NEW c \in [targets : Lists, reflectors : Reflectors], NEW defaults \in Defaults,
             Start(c, defaults)
      PROVE  ConfInv'
  <2>1. pc' = "targets" /\ conf' = c /\ rows' = rows
        /\ todo' = IF c.targets # <<>> THEN c.targets ELSE IF Live = {} THEN defaults ELSE <<>>
    BY <1>2 DEF Start
  <2>2. c.targets \in Seq(Entry) /\ defaults # <<>>
    BY ListsAssumption
  <2>3. KeysUnique' /\ Live' = Live
    BY <1>1, <2>1 DEF KeysUnique, Live
  <2>4. ListUnderWay'
    BY <2>1, <2>2 DEF ListUnderWay, WrittenUpTo
  <2>5. SomeTarget'
    BY <2>1, <2>2, <2>3 DEF SomeTarget, Settled
  <2> QED
    BY <2>1, <2>2, <2>3, <2>4, <2>5 DEF ConfInv, ListWritten, Settled, ReflectorsPruned
<1>3. CASE SeedTarget
  <2>1. /\ pc = "targets" /\ todo \in Seq(Entry) /\ todo # <<>> /\ rows \in Table
        /\ UpsertTargetByHost(Head(todo)) /\ todo' = Tail(todo)
        /\ pc' = pc /\ conf' = conf
    BY <1>1, <1>3 DEF SeedTarget, Types
  <2>2. PICK e \in Entry : e = Head(todo) /\ e = todo[1] /\ 1 \in DOMAIN todo
    BY <2>1
  <2>3. KeysUnique' /\ Listed(e.key, e.label)'
    BY <1>1, <2>1, <2>2, UpsertWrites
  <2>4. SomeTarget'
    BY <2>1, <2>3 DEF SomeTarget, Settled, Listed
  <2>5. ListUnderWay'
    <3> SUFFICES ASSUME conf.targets # <<>> PROVE ListUnderWay'
      BY <2>1 DEF ListUnderWay
    <3>0. PICK k \in Nat : k = Len(conf.targets) - Len(todo)
      <4>1. Len(todo) <= Len(conf.targets)
        BY <1>1, <2>1 DEF ListUnderWay
      <4>2. Len(todo) \in Nat /\ Len(conf.targets) \in Nat
        BY <1>1, <2>1
      <4>3. Len(conf.targets) - Len(todo) \in Nat
        BY <4>1, <4>2
      <4> QED
        BY <4>3
    <3>1. /\ Len(todo) <= Len(conf.targets) /\ WrittenUpTo(k)
          /\ \A i \in DOMAIN todo : todo[i] = conf.targets[k + i]
      BY <1>1, <2>1, <3>0 DEF ListUnderWay
    <3>2. /\ Len(todo) \in Nat /\ Len(todo) > 0 /\ Len(todo') = Len(todo) - 1
          /\ \A i \in DOMAIN todo' : i + 1 \in DOMAIN todo /\ todo'[i] = todo[i + 1]
      BY <2>1
    <3>3. k < Len(conf.targets) /\ Head(todo) = conf.targets[k + 1]
      BY <1>1, <2>2, <3>0, <3>1, <3>2
    <3>4. k + 1 = Len(conf'.targets) - Len(todo')
      BY <1>1, <2>1, <3>0, <3>2
    <3>5. \A i \in DOMAIN todo' : todo'[i] = conf'.targets[k + 1 + i]
      <4> SUFFICES ASSUME NEW i \in DOMAIN todo' PROVE todo'[i] = conf'.targets[k + 1 + i]
        OBVIOUS
      <4>1. i \in Nat /\ todo'[i] = conf.targets[k + (i + 1)]
        BY <2>1, <3>1, <3>2
      <4>2. k + (i + 1) = k + 1 + i
        BY <4>1
      <4> QED
        BY <2>1, <4>1, <4>2
    <3>6. WrittenUpTo(k + 1)'
      BY <1>1, <2>1, <3>1, <3>3, WrittenAdvances
    <3>7. Len(todo') <= Len(conf'.targets)
      BY <1>1, <2>1, <3>1, <3>2
    <3> QED
      BY <3>4, <3>5, <3>6, <3>7 DEF ListUnderWay, WrittenUpTo
  <2> QED
    BY <1>1, <2>1, <2>3, <2>4, <2>5 DEF ConfInv, ListWritten, Settled, ReflectorsPruned
<1>4. CASE TargetsSeeded
  <2>1. /\ pc = "targets" /\ todo = <<>> /\ pc' = "reflectors" /\ UNCHANGED <<conf, rows>>
    BY <1>4 DEF TargetsSeeded
  <2>2. ListWritten'
    <3>1. CASE conf.targets = <<>>
      BY <2>1, <3>1 DEF ListWritten, WrittenUpTo
    <3>2. CASE conf.targets # <<>>
      <4>1. WrittenUpTo(Len(conf.targets) - 0)
        BY <1>1, <2>1, <3>2 DEF ListUnderWay
      <4>2. Len(conf.targets) - 0 = Len(conf.targets)
        BY <1>1
      <4> QED
        BY <2>1, <4>1, <4>2 DEF ListWritten, WrittenUpTo, Listed, Live
    <3> QED
      BY <3>1, <3>2
  <2> QED
    BY <1>1, <2>1, <2>2 DEF ConfInv, KeysUnique, Live, ListUnderWay, SomeTarget, Settled, ReflectorsPruned
<1>5. CASE SeedReflector
  BY <1>1, <1>5 DEF SeedReflector, ConfInv, KeysUnique, Live, Listed, WrittenUpTo, ListUnderWay,
                    ListWritten, Settled, SomeTarget, ReflectorsPruned
<1>6. CASE PruneReflectors
  <2>1. /\ pc = "reflectors" /\ pc' = "probers" /\ UNCHANGED <<conf, rows>>
        /\ \A h \in Host : \/ conf.reflectors = <<>> \/ h \in Range(conf.reflectors)
                           \/ reflectors'[h] # "enabled"
    BY <1>6 DEF PruneReflectors
  <2>2. Pruned(EnabledHosts)'
    BY <2>1 DEF Pruned, EnabledHosts
  <2> QED
    BY <1>1, <2>1, <2>2 DEF ConfInv, KeysUnique, Live, Listed, WrittenUpTo, ListUnderWay,
                            ListWritten, Settled, SomeTarget, ReflectorsPruned
<1>7. CASE StartProbers
  BY <1>1, <1>7 DEF StartProbers, ConfInv, KeysUnique, Live, Listed, WrittenUpTo, ListUnderWay,
                    ListWritten, Settled, SomeTarget, ReflectorsPruned, Pruned, EnabledHosts
<1>8. CASE Stop
  <2>1. pc' = "down" /\ conf'.targets = <<>> /\ rows' = rows
    BY <1>8 DEF Stop, NoConf
  <2> QED
    BY <1>1, <2>1 DEF ConfInv, KeysUnique, Live, ListUnderWay, ListWritten, Settled, SomeTarget,
                      ReflectorsPruned
<1>9. ASSUME NEW row \in Row, CreateTarget(row)
      PROVE  ConfInv'
  <2>1. rows \in Table /\ rows' = Append(rows, row) /\ Edit(Append(rows, row)) /\ Holders(row.key) = {}
    BY <1>1, <1>9 DEF CreateTarget, Edit, Types
  <2>2. /\ DOMAIN rows = 1..Len(rows) /\ Len(rows) \in Nat
        /\ DOMAIN rows' = 1..(Len(rows) + 1) /\ rows'[Len(rows) + 1] = row
        /\ \A id \in DOMAIN rows : rows'[id] = rows[id]
    BY <2>1 DEF Table
  <2>3. KeysUnique'
    <3>1. Live' \subseteq Live \union {Len(rows) + 1}
      BY <2>2 DEF Live
    <3>2. \A id \in Live : rows'[id] = rows[id] /\ rows[id].key # row.key
      BY <2>1, <2>2 DEF Live, Holders
    <3> QED
      BY <1>1, <2>2, <3>1, <3>2 DEF KeysUnique
  <2> QED
    BY <2>1, <2>3, EditKeepsConf
<1>10. ASSUME NEW id \in Live, DeleteTarget(id)
       PROVE  ConfInv'
  <2>1. Edit([rows EXCEPT ![id] = NoRow]) /\ rows' = [rows EXCEPT ![id] = NoRow]
    BY <1>10 DEF DeleteTarget, Edit
  <2>2. KeysUnique'
    <3>1. \A i \in Live' : i \in Live /\ rows'[i] = rows[i]
      BY <2>1 DEF Live
    <3> QED
      BY <1>1, <3>1 DEF KeysUnique
  <2> QED
    BY <2>1, <2>2, EditKeepsConf
<1>11. ASSUME NEW id \in Live, NEW row \in Row, UpdateTarget(id, row)
       PROVE  ConfInv'
  <2>1. /\ Edit([rows EXCEPT ![id] = row]) /\ rows' = [rows EXCEPT ![id] = row]
        /\ Holders(row.key) \subseteq {id}
    BY <1>11 DEF UpdateTarget, Edit
  <2>2. KeysUnique'
    <3>1. rows'[id] = row /\ \A i \in Live' : i \in Live /\ (i # id => rows'[i] = rows[i])
      BY <2>1 DEF Live
    <3>2. \A i \in Live : i # id => rows[i].key # row.key
      BY <2>1 DEF Holders
    <3> QED
      BY <1>1, <3>1, <3>2 DEF KeysUnique
  <2> QED
    BY <2>1, <2>2, EditKeepsConf
<1>12. CASE UNCHANGED bvars
  BY <1>12, ConfKept DEF bvars
<1> QED
  BY <1>2, <1>3, <1>4, <1>5, <1>6, <1>7, <1>8, <1>9, <1>10, <1>11, <1>12 DEF Next

\* In force: the last entry of a key that the list names is LastLabel's.
LEMMA ConfSettled == ConfInv => ConfigInForce
<1> SUFFICES ASSUME ConfInv, pc = "serving", fresh PROVE ConfigInForce
  BY DEF ConfigInForce
<1>1. /\ Live # {} /\ KeysUnique /\ conf.targets \in Seq(Entry)
      /\ WrittenUpTo(Len(conf.targets))
      /\ probed = EnabledHosts /\ Pruned(EnabledHosts)
  BY DEF ConfInv, ListWritten, Settled, SomeTarget, ReflectorsPruned
<1>2. ASSUME NEW key \in KeysOf(conf.targets)
      PROVE  \E id \in Live : rows[id].key = key /\ rows[id].label = LastLabel(conf.targets, key)
  <2> DEFINE list == conf.targets
             Latest(i) == list[i].key = key /\ \A j \in DOMAIN list : list[j].key = key => j <= i
  <2>1. PICK n \in DOMAIN list : list[n].key = key
    BY DEF KeysOf
  <2>2. DOMAIN list = 1..Len(list) /\ Len(list) \in Nat
    BY <1>1
  <2>3. PICK i \in DOMAIN list : Latest(i) /\ Listed(list[i].key, list[i].label)
    BY <1>1, <2>1, <2>2 DEF WrittenUpTo
  <2>4. \A j \in DOMAIN list : Latest(j) => j = i
    BY <2>2, <2>3
  <2>5. (CHOOSE j \in DOMAIN list : Latest(j)) = i
    BY <2>3, <2>4
  <2>6. LastLabel(list, key) = list[i].label
    BY <2>5 DEF LastLabel
  <2> QED
    BY <2>3, <2>6 DEF Listed
<1> QED
  BY <1>1, <1>2 DEF ConfigInForce, KeysUnique, Pruned, EnabledHosts

\* A start that completes has put its configuration in force, whatever edits and
\* broken starts came before, and whatever the lists repeat (main.go, run).
THEOREM ConfigIsInForce == Spec => []ConfigInForce
<1>1. Init => IInv /\ ConfInv
  BY InitInv, ConfInit
<1>2. (IInv /\ ConfInv) /\ [Next]_bvars => (IInv /\ ConfInv)'
  BY StepInv, ConfStep
<1> QED
  BY <1>1, <1>2, ConfSettled, PTL DEF Spec

=============================================================================
