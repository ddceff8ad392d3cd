---------------------------- MODULE IndexRebuild ----------------------------
(***************************************************************************)
(* RebuildCollection in the shim (shim/src/lib.rs, run_rebuild_collection) *)
(* : the persisted vector index of one collection is read, written anew in *)
(* a temporary directory next to it, and swapped in with two renames.      *)
(*                                                                         *)
(* Every file-system step may fail, the process may crash between any two, *)
(* and between rebuilds the collection goes on changing.  The frontend     *)
(* mutex is held throughout a rebuild, so nothing else touches the index   *)
(* then.  An embedding together with its sequence id is one payload.       *)
(***************************************************************************)
EXTENDS Integers, FiniteSets

CONSTANTS
  Ids,       \* user ids of records
  Payloads,  \* embeddings, with their sequence ids
  Lost,      \* stands for an embedding the index does not hold
  MaxRuns,   \* bound on the number of rebuilds
  MaxTotal,  \* bound on the label counter
  None

ASSUME BoundsAssumption == MaxRuns \in Nat \ {0} /\ MaxTotal \in Nat
ASSUME PayloadsAssumption == Lost \notin Payloads

Entry == [label : 1..MaxTotal, payload : Payloads \cup {Lost}]

ASSUME NoneAssumption == None \notin Entry \cup Payloads \cup {Lost} /\ None \notin Nat

\* What a directory holds: the metadata file and the index.  total is
\* total_elements_added; a record of the map that is None does not exist.
Index == [meta : {"ok", "missing", "invalid"}, total : 0..MaxTotal,
          map : [Ids -> Entry \cup {None}]]

ASSUME NoIndexAssumption == None \notin Index

VARIABLES
  source,   \* the directory of the vector segment, or None
  temp,     \* the temporary directory of this rebuild, or None
  moved,    \* backup or rollback directory of every rebuild, or None
  cache,    \* index the segment manager holds open, or None
  records,  \* history: payload of every record of the collection, or None
  run,      \* number of the rebuild, unique in the names of its directories
  keep,     \* keep_backup
  armed,    \* TempRebuildDirGuard.active
  pc,
  outcome   \* how the last rebuild ended

dirs   == <<source, temp, moved>>
vars   == <<dirs, cache, records, run, keep, armed, pc, outcome>>

Outcomes == {"none", "skipped", "precheck", "rebuilt", "error", "crashed"}
PCs == {"idle", "create", "fill", "save", "reset", "stage", "activate", "rollback",
        "swapped", "failed"}

Has(x, i) == x.map[i] # None
Labels(x) == {x.map[i].label : i \in {j \in Ids : Has(x, j)}}
Empty(x) == \A i \in Ids : ~Has(x, i)
RecordsOf(x) == [i \in Ids |-> IF Has(x, i) THEN x.map[i].payload ELSE None]

\* x with the entry e for record i and the label counter t.
WithRecord(x, i, e, t) == [meta |-> x.meta, total |-> t, map |-> [x.map EXCEPT ![i] = e]]

Damaged(x) == [x EXCEPT !.meta = "missing"]

EmptyIndex(m, t) == [meta |-> m, total |-> t, map |-> [i \in Ids |-> None]]

\* HnswIdMap.validate accepts bijective maps only.
Bijective(x) ==
  \A i, j \in Ids : Has(x, i) /\ Has(x, j) /\ x.map[i].label = x.map[j].label => i = j

-----------------------------------------------------------------------------
(* The collection between rebuilds.                                        *)

Init ==
  /\ source \in {None, EmptyIndex("missing", 0), EmptyIndex("invalid", 0), EmptyIndex("ok", 0)}
  /\ temp = None /\ moved = [r \in 1..MaxRuns |-> None]
  /\ cache = None
  /\ records = [i \in Ids |-> None]
  /\ run = 0 /\ keep = TRUE /\ armed = FALSE
  /\ pc = "idle" /\ outcome = "none"

\* External: a write reaches the index.  A new record takes the next label,
\* an old one keeps its own; Lost is an index file that lost an embedding.
Put(i, p) ==
  /\ pc = "idle" /\ source # None /\ source.meta = "ok"
  /\ LET fresh == source.total + 1
         label == IF Has(source, i) THEN source.map[i].label ELSE fresh IN
     /\ label <= MaxTotal
     /\ source' = WithRecord(source, i, [label |-> label, payload |-> p],
                             IF Has(source, i) THEN source.total ELSE fresh)
  /\ cache' = source' /\ records' = RecordsOf(source')
  /\ UNCHANGED <<temp, moved, run, keep, armed, pc, outcome>>

Delete(i) ==
  /\ pc = "idle" /\ source # None /\ source.meta = "ok" /\ Has(source, i)
  /\ source' = WithRecord(source, i, None, source.total)
  /\ cache' = source' /\ records' = RecordsOf(source')
  /\ UNCHANGED <<temp, moved, run, keep, armed, pc, outcome>>

\* External: a query makes the segment manager open the index.
Open ==
  /\ pc = "idle" /\ cache = None /\ source # None /\ source.meta = "ok"
  /\ cache' = source
  /\ UNCHANGED <<dirs, records, run, keep, armed, pc, outcome>>

-----------------------------------------------------------------------------
(* One rebuild.                                                            *)

Answer(o) == pc' = "idle" /\ outcome' = o

\* Nothing is touched before the temporary directory is created.
Begin(precheck, k) ==
  /\ pc = "idle" /\ run < MaxRuns
  /\ run' = run + 1 /\ keep' = k
  /\ \/ source = None /\ Answer("skipped")
     \/ source # None /\ source.meta = "missing" /\ Answer("skipped")
     \/ source # None /\ source.meta = "ok" /\ Empty(source) /\ Answer("skipped")
     \/ source # None /\ source.meta = "invalid" /\ Answer("error")
     \/ /\ source # None /\ source.meta = "ok" /\ ~Empty(source)
        /\ IF precheck THEN Answer("precheck") ELSE pc' = "create" /\ outcome' = "none"
  /\ UNCHANGED <<dirs, cache, records, armed>>

\* Metadata or index cannot be read.
BeginFails ==
  /\ pc = "idle" /\ run < MaxRuns /\ source # None /\ source.meta = "ok"
  /\ run' = run + 1
  /\ Answer("error")
  /\ UNCHANGED <<dirs, cache, records, keep, armed>>

\* The guard removes the temporary directory when the function returns early
\* (or logs that it could not; the name is never used again).
DropGuard_M == armed' = FALSE /\ UNCHANGED temp
DropGuard ==
  /\ armed' = FALSE
  /\ temp' = IF armed THEN None ELSE temp

FailEarly ==
  /\ Answer("error")
  /\ DropGuard
  /\ UNCHANGED <<source, moved, cache, records, run, keep>>

Create ==
  /\ pc = "create" /\ pc' = "fill"
  /\ temp' = EmptyIndex("missing", 0)
  /\ armed' = TRUE
  /\ UNCHANGED <<source, moved, cache, records, run, keep, outcome>>

\* Records are copied in the order of their old labels; label n + 1 follows n.
Remaining == {i \in Ids : Has(source, i) /\ ~Has(temp, i)}

NewLabel_M(i) == source.map[i].label
NewLabel(i) == temp.total + 1

Fill(i) ==
  /\ pc = "fill" /\ i \in Remaining
  /\ \A j \in Remaining : source.map[i].label <= source.map[j].label
  /\ source.map[i].payload # Lost
  /\ temp' = WithRecord(temp, i, [label |-> NewLabel(i), payload |-> source.map[i].payload],
                        temp.total + 1)
  /\ UNCHANGED <<source, moved, cache, records, run, keep, armed, pc, outcome>>

\* The index does not hold the embedding of a record of the metadata.
FillInconsistent(i) ==
  /\ pc = "fill" /\ i \in Remaining
  /\ \A j \in Remaining : source.map[i].label <= source.map[j].label
  /\ source.map[i].payload = Lost
  /\ Answer("error") /\ DropGuard
  /\ UNCHANGED <<source, moved, cache, records, run, keep>>

Filled == Remaining = {}

Save ==
  /\ pc = "fill" /\ Filled
  /\ temp' = [temp EXCEPT !.meta = "ok"]
  /\ pc' = "reset"
  /\ UNCHANGED <<source, moved, cache, records, run, keep, armed, outcome>>

ResetManager_M == UNCHANGED cache
ResetManager == cache' = None

ResetBefore ==
  /\ pc = "reset" /\ pc' = "stage"
  /\ ResetManager
  /\ UNCHANGED <<dirs, records, run, keep, armed, outcome>>

\* A step before the swap fails.
StepFails ==
  /\ pc \in {"create", "fill", "reset"}
  /\ FailEarly

\* source -> <name>_backup_<suffix> or <name>_rollback_<suffix>.
StageSource_M == moved' = [moved EXCEPT ![run] = IF keep THEN source ELSE None]
StageSource == moved' = [moved EXCEPT ![run] = source]

Stage ==
  /\ pc = "stage" /\ pc' = "activate"
  /\ source' = None /\ StageSource
  /\ UNCHANGED <<temp, cache, records, run, keep, armed, outcome>>

StageFails ==
  /\ pc = "stage" /\ pc' = "failed"
  /\ UNCHANGED <<dirs, cache, records, run, keep, armed, outcome>>

\* <name>.rebuild.<suffix> -> source; the guard is disarmed after the swap.
Activate ==
  /\ pc = "activate" /\ pc' = "swapped"
  /\ source' = temp /\ temp' = None
  /\ UNCHANGED <<moved, cache, records, run, keep, armed, outcome>>

ActivateFails ==
  /\ pc = "activate" /\ pc' = "rollback"
  /\ UNCHANGED <<dirs, cache, records, run, keep, armed, outcome>>

Rollback_M == pc' = "failed" /\ UNCHANGED <<source, moved>>
Rollback ==
  /\ pc' = "failed"
  /\ source' = moved[run] /\ moved' = [moved EXCEPT ![run] = None]

RollbackSource ==
  /\ pc = "rollback" /\ Rollback
  /\ UNCHANGED <<temp, cache, records, run, keep, armed, outcome>>

RollbackFails ==
  /\ pc = "rollback" /\ Answer("error")
  /\ DropGuard
  /\ UNCHANGED <<source, moved, cache, records, run, keep>>

\* The swap failed: reset the manager (a failure only changes the message)
\* and remove the temporary directory.
ReportFailure ==
  /\ pc = "failed" /\ Answer("error")
  /\ cache' \in {cache, None}
  /\ DropGuard
  /\ UNCHANGED <<source, moved, records, run, keep>>

KeepsBackup_M == FALSE
KeepsBackup == keep

\* Without keep_backup the old index goes; when it cannot be removed it is left
\* whole or damaged, with a warning.  The manager is reset again, and a failure
\* of that is an error.
FinishSwap ==
  /\ pc = "swapped"
  /\ IF KeepsBackup
       THEN UNCHANGED moved
       ELSE \E x \in {None, moved[run], Damaged(moved[run])} : moved' = [moved EXCEPT ![run] = x]
  /\ armed' = FALSE
  /\ \/ Answer("rebuilt") /\ ResetManager
     \/ Answer("error") /\ UNCHANGED cache
  /\ UNCHANGED <<source, temp, records, run, keep>>

\* The process dies anywhere, also between two rebuilds.
Crash ==
  /\ Answer("crashed")
  /\ cache' = None /\ temp' = None /\ armed' = FALSE
  /\ UNCHANGED <<source, moved, records, run, keep>>

Collection ==
  \/ \E i \in Ids : Delete(i) \/ \E p \in Payloads \cup {Lost} : Put(i, p)
  \/ Open

Copying == \E i \in Ids : Fill(i) \/ FillInconsistent(i)

Swapping ==
  \/ Stage \/ StageFails \/ Activate \/ ActivateFails \/ RollbackSource \/ RollbackFails
  \/ FinishSwap \/ ReportFailure

Next ==
  \/ Collection
  \/ \E precheck, k \in BOOLEAN : Begin(precheck, k)
  \/ BeginFails \/ Create \/ Copying \/ Save \/ ResetBefore \/ StepFails
  \/ Swapping \/ Crash

Spec == Init /\ [][Next]_vars

-----------------------------------------------------------------------------
(* Properties.                                                             *)

\* Every variable keeps its type, and the label counter its bound.
TypeOK ==
  /\ source \in Index \cup {None} /\ temp \in Index \cup {None}
  /\ moved \in [1..MaxRuns -> Index \cup {None}]
  /\ cache \in Index \cup {None}
  /\ records \in [Ids -> Payloads \cup {Lost, None}]
  /\ run \in 0..MaxRuns /\ keep \in BOOLEAN /\ armed \in BOOLEAN
  /\ pc \in PCs /\ outcome \in Outcomes

Intact(x) == x # None /\ x.meta = "ok" /\ RecordsOf(x) = records

HasRecords == \E i \in Ids : records[i] # None

\* Every record of the collection is in the index, or in the directory the
\* index was moved to, at every moment: a crash between the two renames, a
\* failed rename and a failed rollback lose nothing that could not be moved
\* back by hand.
IndexSurvives ==
  HasRecords => Intact(source) \/ \E r \in 1..MaxRuns : Intact(moved[r])

\* A rebuild that reports an error leaves the collection an intact index in
\* its place; only when the rollback fails as well it is elsewhere.
ErrorKeepsIndex ==
  [][outcome' = "error" /\ outcome # "error" /\ pc # "rollback" /\ HasRecords =>
       Intact(source)']_vars

\* A label the counter hands out next is used by no record, so a later write
\* cannot take over the label of another record.
NextLabelIsFree ==
  source # None => Bijective(source) /\ \A l \in Labels(source) : l <= source.total

\* A completed rebuild has the records it started from, packed under the
\* labels 1 to n, and the backup it was asked to keep has them too.
RebuiltIsComplete ==
  [][pc = "swapped" /\ outcome' = "rebuilt" =>
       /\ Intact(source)' /\ Labels(source') = 1..source'.total
       /\ keep => Intact(moved[run])']_vars

\* The segment manager never serves another index than the one on disk.
CacheIsCurrent == pc = "idle" /\ cache # None => cache = source

\* No rebuild that returns leaves a temporary directory it did not try to remove.
NoTempLeft == pc = "idle" => temp = None

-----------------------------------------------------------------------------
(* The inductive invariant.  What the directories hold at every step of a  *)
(* rebuild, so that each rename and each failure leaves one intact copy.   *)

LabelsOK(x) ==
  \A i \in Ids : Has(x, i) =>
    /\ x.map[i].label <= x.total
    /\ \A j \in Ids : Has(x, j) /\ x.map[i].label = x.map[j].label => i = j

AllLabelsOK ==
  /\ source # None => LabelsOK(source)
  /\ temp # None => LabelsOK(temp)
  /\ \A r \in 1..MaxRuns : moved[r] # None => LabelsOK(moved[r])

SourceInv ==
  /\ source # None => RecordsOf(source) = records /\ (HasRecords => source.meta = "ok")
  /\ pc \in {"create", "fill", "reset", "stage", "swapped", "failed"} =>
       source # None /\ Intact(source)
  /\ pc # "idle" => HasRecords /\ run \in 1..MaxRuns

\* The labels still to be given are below those of the records still to come.
TempInv ==
  /\ pc = "fill" =>
       /\ temp # None
       /\ \A i \in Ids : Has(temp, i) => Has(source, i) /\ temp.map[i].payload = source.map[i].payload
       /\ \A i \in Remaining : temp.total < source.map[i].label
  /\ pc \in {"reset", "stage", "activate"} => Intact(temp)
  /\ pc \in {"idle", "create", "swapped"} => temp = None

MovedInv ==
  /\ pc \in {"activate", "rollback"} => source = None /\ Intact(moved[run])
  /\ pc = "swapped" => moved[run] # None

CacheInv ==
  /\ cache # None => cache = source
  /\ pc \in {"stage", "activate", "rollback", "swapped", "failed"} => cache = None

ArmedInv == pc \notin {"idle", "create"} => armed

IInv ==
  /\ TypeOK /\ AllLabelsOK /\ SourceInv /\ TempInv /\ MovedInv /\ CacheInv /\ ArmedInv
  /\ IndexSurvives

\* The new index is packed at every step of its making, and the old one is intact
\* where it was moved to.
Packed(x) == Labels(x) = 1..x.total

PackedInv ==
  /\ pc \in {"fill", "reset", "stage", "activate"} => Packed(temp)
  /\ pc = "swapped" => Packed(source) /\ Intact(moved[run])
=============================================================================
