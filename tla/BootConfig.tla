------------------------------ MODULE BootConfig ------------------------------
(***************************************************************************)
(* The start of the program (cmd/pingway/main.go, run): the boot           *)
(* configuration is written over the tables targets and reflectors, entry  *)
(* by entry and each entry in a transaction of its own, before the requests*)
(* that edit the targets are served.  A failed write ends the start, as a  *)
(* crash does, and leaves the entries before it in the tables; the next    *)
(* start may find another configuration.                                   *)
(***************************************************************************)
EXTENDS Integers, Sequences, Functions

CONSTANTS Key,       \* host and probe of a target: unique in the table
          Label,     \* name, tier, sort order and interval of a target
          Host,      \* host and port of a reflector
          NoRow,     \* marks the id of a deleted target
          Lists,     \* target lists that YAML or env may give
          Defaults,  \* DefaultTargets, with and without a gateway
          Reflectors,\* reflector lists that YAML or env may give
          MaxBoots,  \* bound: starts of the program
          MaxEdits,  \* bound: edits of the targets
          MaxRows    \* bound: rows ever inserted by an edit

Entry == [key : Key, label : Label]
Row == [key : Key, label : Label, enabled : BOOLEAN]

ASSUME ListsAssumption == Lists \subseteq Seq(Entry) /\ Defaults \subseteq Seq(Entry) \ {<<>>}
ASSUME ReflectorsAssumption == Reflectors \subseteq Seq(Host)
ASSUME NoRowAssumption == NoRow \notin Row

VARIABLES pc,         \* how far the start has come
          conf,       \* the boot configuration of this start
          todo,       \* entries of the list at hand that are still to be written
          rows,       \* the table targets by id; ids are never used again
          reflectors, \* the table reflectors
          probed,     \* the hosts the call-probe manager runs a prober for
          seen,       \* the table targets when requests last were, or could be, served
          mentioned,  \* the keys the starts since then set out to write
          fresh,      \* no edit since the start
          boots, edits

bvars == <<pc, conf, todo, rows, reflectors, probed, seen, mentioned, fresh, boots, edits>>

NoConf == [targets |-> <<>>, reflectors |-> <<>>]
Live == {id \in DOMAIN rows : rows[id] # NoRow}
KeysOf(list) == {list[i].key : i \in DOMAIN list}

\* The unique index on (host, probe): the ids that hold a key, at most one.
Holders(key) == {id \in Live : rows[id].key = key}

TypeOK ==
    /\ pc \in {"down", "targets", "reflectors", "probers", "serving"}
    /\ conf \in [targets : Seq(Entry), reflectors : Seq(Host)]
    /\ pc = "targets" => todo \in Seq(Entry)
    /\ pc = "reflectors" => todo \in Seq(Host)
    /\ rows \in Seq(Row \union {NoRow}) /\ seen \in Seq(Row \union {NoRow})
    /\ reflectors \in [Host -> {"absent", "enabled", "disabled"}]
    /\ probed \subseteq Host /\ mentioned \subseteq Key
    /\ fresh \in BOOLEAN

Init ==
    /\ pc = "down" /\ todo = <<>> /\ conf = NoConf
    /\ rows = <<>> /\ seen = <<>> /\ mentioned = {}
    /\ reflectors = [h \in Host |-> "absent"] /\ probed = {}
    /\ fresh = FALSE /\ boots = 0 /\ edits = 0

-----------------------------------------------------------------------------
(* The start. *)

\* Load; then the list of targets if there is one, else the defaults if the
\* table is empty (CountTargets), else nothing.
Start(c, defaults) ==
    /\ pc = "down" /\ boots < MaxBoots
    /\ boots' = boots + 1
    /\ conf' = c
    /\ todo' = IF c.targets # <<>> THEN c.targets ELSE IF Live = {} THEN defaults ELSE <<>>
    /\ mentioned' = mentioned \union KeysOf(todo')
    /\ pc' = "targets"
    /\ UNCHANGED <<rows, reflectors, probed, seen, fresh, edits>>

\* Mutated form: a configured target is enabled again at every start.
UpsertTargetByHostEnables(e) ==
    rows' = IF Holders(e.key) = {} THEN Append(rows, [key |-> e.key, label |-> e.label, enabled |-> TRUE])
            ELSE [id \in DOMAIN rows |->
                    IF id \in Holders(e.key) THEN [rows[id] EXCEPT !.label = e.label, !.enabled = TRUE]
                    ELSE rows[id]]

\* A new key gets a row, enabled; the row of a known one is relabelled and
\* stays enabled or disabled as it was.
UpsertTargetByHost(e) ==
    rows' = IF Holders(e.key) = {} THEN Append(rows, [key |-> e.key, label |-> e.label, enabled |-> TRUE])
            ELSE [id \in DOMAIN rows |->
                    IF id \in Holders(e.key) THEN [rows[id] EXCEPT !.label = e.label] ELSE rows[id]]

SeedTarget ==
    /\ pc = "targets" /\ todo # <<>>
    /\ UpsertTargetByHost(Head(todo))
    /\ todo' = Tail(todo)
    /\ UNCHANGED <<pc, conf, reflectors, probed, seen, mentioned, fresh, boots, edits>>

\* The settings manager, the detector and the ping loops are started here.
TargetsSeeded ==
    /\ pc = "targets" /\ todo = <<>>
    /\ todo' = conf.reflectors
    /\ pc' = "reflectors"
    /\ UNCHANGED <<conf, rows, reflectors, probed, seen, mentioned, fresh, boots, edits>>

\* UpsertReflectorByHost: a known host stays enabled or disabled as it was.
SeedReflector ==
    /\ pc = "reflectors" /\ todo # <<>>
    /\ reflectors' = [reflectors EXCEPT ![Head(todo)] = IF @ = "absent" THEN "enabled" ELSE @]
    /\ todo' = Tail(todo)
    /\ UNCHANGED <<pc, conf, rows, probed, seen, mentioned, fresh, boots, edits>>

\* PruneReflectorsNotIn, which an empty list skips.
PruneReflectors ==
    /\ pc = "reflectors" /\ todo = <<>>
    /\ reflectors' = [h \in Host |->
                        IF conf.reflectors = <<>> \/ h \in Range(conf.reflectors) \/ reflectors[h] = "absent"
                        THEN reflectors[h] ELSE "disabled"]
    /\ pc' = "probers"
    /\ UNCHANGED <<conf, todo, rows, probed, seen, mentioned, fresh, boots, edits>>

\* Mutated form: disabled reflectors are probed too.
StartProbersOfAll ==
    /\ pc = "probers"
    /\ probed' = {h \in Host : reflectors[h] # "absent"}
    /\ pc' = "serving"
    /\ seen' = rows /\ mentioned' = {} /\ fresh' = TRUE
    /\ UNCHANGED <<conf, todo, rows, reflectors, boots, edits>>

\* ListReflectors and Manager.Reconcile, whose only call this is: a prober for
\* every enabled reflector.  Then the server listens.
StartProbers ==
    /\ pc = "probers"
    /\ probed' = {h \in Host : reflectors[h] = "enabled"}
    /\ pc' = "serving"
    /\ seen' = rows /\ mentioned' = {} /\ fresh' = TRUE
    /\ UNCHANGED <<conf, todo, rows, reflectors, boots, edits>>

\* A crash, a shutdown, or a write of the start that fails.
Stop ==
    /\ pc # "down"
    /\ pc' = "down" /\ todo' = <<>> /\ conf' = NoConf /\ probed' = {} /\ fresh' = FALSE
    /\ UNCHANGED <<rows, reflectors, seen, mentioned, boots, edits>>

-----------------------------------------------------------------------------
(* The requests that edit the targets; how they interleave is the subject of *)
(* TargetLoops.  A key that another row holds is refused (409).              *)

Edit(table) ==
    /\ pc = "serving" /\ edits < MaxEdits
    /\ edits' = edits + 1
    /\ rows' = table /\ seen' = table
    /\ fresh' = FALSE
    /\ UNCHANGED <<pc, conf, todo, reflectors, probed, mentioned, boots>>

CreateTarget(row) ==
    /\ Holders(row.key) = {} /\ Len(rows) < MaxRows
    /\ Edit(Append(rows, row))

UpdateTarget(id, row) ==
    /\ Holders(row.key) \subseteq {id}
    /\ Edit([rows EXCEPT ![id] = row])

DeleteTarget(id) == Edit([rows EXCEPT ![id] = NoRow])

-----------------------------------------------------------------------------
Next ==
    \/ \E c \in [targets : Lists, reflectors : Reflectors], defaults \in Defaults : Start(c, defaults)
    \/ SeedTarget \/ TargetsSeeded \/ SeedReflector \/ PruneReflectors \/ StartProbers
    \/ Stop
    \/ \E row \in Row : CreateTarget(row)
    \/ \E id \in Live : DeleteTarget(id) \/ \E row \in Row : UpdateTarget(id, row)

Spec == Init /\ [][Next]_bvars

-----------------------------------------------------------------------------
(***************************************************************************)
(* Properties.                                                             *)
(***************************************************************************)

\* A start takes nothing from the operator but labels the configuration names:
\* however many starts are broken off, and whatever their configurations, a
\* target keeps its id, its key and whether it is enabled (its history hangs on
\* the id), its label unless its key is mentioned, a deleted target's id stays
\* free, and only mentioned keys that had no row get one.
EditsSurvive ==
    /\ Len(seen) <= Len(rows)
    /\ \A id \in DOMAIN seen :
          IF seen[id] = NoRow THEN rows[id] = NoRow
          ELSE /\ rows[id] # NoRow
               /\ rows[id].key = seen[id].key
               /\ rows[id].enabled = seen[id].enabled
               /\ rows[id].label = seen[id].label \/ seen[id].key \in mentioned
    /\ \A id \in DOMAIN rows \ DOMAIN seen :
          /\ rows[id] # NoRow
          /\ rows[id].key \in mentioned
          /\ rows[id].enabled
          /\ \A known \in DOMAIN seen : seen[known] # NoRow => seen[known].key # rows[id].key

LastLabel(list, key) ==
    list[CHOOSE i \in DOMAIN list : /\ list[i].key = key
                                    /\ \A j \in DOMAIN list : list[j].key = key => j <= i].label

\* When the server begins to listen the configuration is in force, whatever
\* edits and broken starts came before: there is a target, every configured key
\* has one row, labelled by its last entry, no two rows share a key, and the
\* hosts probed are enabled reflectors, none of which has been removed from a
\* configuration that names any ("removed droplets stop being probed",
\* callprobe.go:75-76).
ConfigInForce ==
    pc = "serving" /\ fresh =>
        /\ Live # {}
        /\ \A i, j \in Live : rows[i].key = rows[j].key => i = j
        /\ \A key \in KeysOf(conf.targets) :
              \E id \in Live : rows[id].key = key /\ rows[id].label = LastLabel(conf.targets, key)
        /\ \A h \in probed : conf.reflectors # <<>> => h \in Range(conf.reflectors)
        /\ probed = {h \in Host : reflectors[h] = "enabled"}
=============================================================================
