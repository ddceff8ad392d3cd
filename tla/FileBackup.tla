------------------------------ MODULE FileBackup ------------------------------
(***************************************************************************)
(* The files a backup writes: ensureEmptyDir and executeBackup of          *)
(* internal/runtime/backup.go, one action per system call that another     *)
(* backup, of any process, can come between.  The backups here all name    *)
(* the same destination: two that name different ones share no file.       *)
(*                                                                         *)
(* A source tree is the sequence of its entries in the order               *)
(* filepath.WalkDir visits them, a directory before what it holds.  It     *)
(* does not change while it is copied: ServerLifecycle and                 *)
(* EmbeddedLifecycle are about that.  A crash is the death of the process; *)
(* what a power failure does to files that were not synced is left out.    *)
(***************************************************************************)
EXTENDS Naturals, Sequences, FiniteSets

CONSTANTS
  Backups,    \* the calls to Backup that name the destination
  Names,      \* the relative paths of a source tree
  Trees,      \* the source trees
  Missing     \* the source directory does not exist

Entries == [name: Names, kind: {"dir", "file", "link"}]

FileBackupAssumption ==
  /\ Trees \subseteq Seq(Entries)
  /\ \A t \in Trees : \A i, j \in DOMAIN t : t[i].name = t[j].name => i = j
  /\ Missing \notin Trees
  /\ Names \cap {"persist", "backup_manifest.json", "other"} = {}

ASSUME FileBackupAssumption

VARIABLES
  place,      \* what stands at the destination path
  disk,       \* the entries below it: a function on the paths that exist
  pc,         \* where each backup is
  source,     \* the source tree of a backup, Missing if there was none
  copied,     \* how many entries of its tree a backup has dealt with
  ran,        \* how a backup ended
  met         \* history: the backups that ran at the same time as this one

vars == <<place, disk, pc, source, copied, ran, met>>

-----------------------------------------------------------------------------
Directory == [kind |-> "dir"]
File(b, whole) == [kind |-> "file", by |-> b, whole |-> whole]

\* A manifest holds the file count and, with IncludeMetadata, the files.
Manifest(b, state, files) ==
  [kind |-> "manifest", by |-> b, state |-> state, files |-> files]

Snapshot == "persist"
ManifestPath == "backup_manifest.json"

\* The entry WalkDir visits next, and the files among those it has visited.
Walking(b) == pc[b] = "walk" /\ copied[b] < Len(source[b])
Current(b) == source[b][copied[b] + 1]
FilesOf(t, n) == {t[i].name : i \in {j \in 1..n : t[j].kind = "file"}}
Listed(b) == IF source[b] = Missing THEN {} ELSE FilesOf(source[b], copied[b])

Put(path, entry) == disk' = [p \in DOMAIN disk \cup {path} |->
                               IF p = path THEN entry ELSE disk[p]]

Goto(b, l) == pc' = [pc EXCEPT ![b] = l]

Return(b, how) ==
  /\ Goto(b, "done")
  /\ ran' = [ran EXCEPT ![b] = how]

Running(b) == pc[b] \notin {"idle", "done"}

-----------------------------------------------------------------------------
Init ==
  /\ \/ place \in {"absent", "file"} /\ disk = <<>>
     \/ place = "directory" /\ disk \in {<<>>, [p \in {"other"} |-> Directory]}
  /\ pc = [b \in Backups |-> "idle"]
  /\ source = [b \in Backups |-> Missing]
  /\ copied = [b \in Backups |-> 0]
  /\ ran = [b \in Backups |-> "no"]
  /\ met = [b \in Backups |-> {}]

\* newBackupPlan looks for the source directory.
Plan(b) ==
  /\ pc[b] = "idle"
  /\ \E t \in Trees \cup {Missing} : source' = [source EXCEPT ![b] = t]
  /\ LET others == {c \in Backups : Running(c)} IN
       met' = [c \in Backups |-> IF c = b THEN others
                                 ELSE IF c \in others THEN met[c] \cup {b}
                                 ELSE met[c]]
  /\ Goto(b, "inspect")
  /\ UNCHANGED <<place, disk, copied, ran>>

\* An error of newBackupPlan or ensureEmptyDir: the snapshot would lie inside
\* the source, a path cannot be resolved, or a system call fails.
Refuse(b) ==
  /\ pc[b] \in {"inspect", "make", "list"}
  /\ Return(b, "refused")
  /\ UNCHANGED <<place, disk, source, copied, met>>

\* ensureEmptyDir: os.Stat, and then os.MkdirAll or os.ReadDir.
Inspect(b) ==
  /\ pc[b] = "inspect"
  /\ \/ place = "absent" /\ Goto(b, "make") /\ UNCHANGED ran
     \/ place = "directory" /\ Goto(b, "list") /\ UNCHANGED ran
     \/ place = "file" /\ Return(b, "refused")
  /\ UNCHANGED <<place, disk, source, copied, met>>

MakeDestination(b) ==
  /\ pc[b] = "make"
  /\ place' = "directory"
  /\ Goto(b, "close")
  /\ UNCHANGED <<disk, source, copied, ran, met>>

Vacant_M == TRUE
Vacant == DOMAIN disk = {}

ListDestination(b) ==
  /\ pc[b] = "list"
  /\ IF Vacant
     THEN Goto(b, "close") /\ UNCHANGED ran
     ELSE Return(b, "refused")
  /\ UNCHANGED <<place, disk, source, copied, met>>

\* The runtime is closed between the check and the copy.
CloseRuntime(b) ==
  /\ pc[b] = "close"
  /\ \/ Goto(b, "snapshot") /\ UNCHANGED ran
     \/ Return(b, "failed")
  /\ UNCHANGED <<place, disk, source, copied, met>>

-----------------------------------------------------------------------------
(* executeBackup *)

MakeSnapshot(b) ==
  /\ pc[b] = "snapshot"
  /\ Put(Snapshot, Directory)
  /\ Goto(b, IF source[b] = Missing THEN "manifest" ELSE "walk")
  /\ UNCHANGED <<place, source, copied, ran, met>>

\* os.MkdirAll accepts a directory that exists, and refuses a file.
CopyDirectory(b) ==
  /\ Walking(b) /\ Current(b).kind = "dir"
  /\ LET path == Current(b).name IN
       IF path \in DOMAIN disk /\ disk[path].kind # "dir"
       THEN Return(b, "failed") /\ UNCHANGED <<disk, copied>>
       ELSE /\ Put(path, Directory)
            /\ copied' = [copied EXCEPT ![b] = @ + 1]
            /\ UNCHANGED <<pc, ran>>
  /\ UNCHANGED <<place, source, met>>

RejectLink(b) ==
  /\ Walking(b) /\ Current(b).kind = "link"
  /\ Return(b, "failed")
  /\ UNCHANGED <<place, disk, source, copied, met>>

\* O_CREATE with O_EXCL: the path must not exist.
MayCreate_M(path) == path \in DOMAIN disk => disk[path].kind = "file"
MayCreate(path) == path \notin DOMAIN disk

CreateFile(b) ==
  /\ Walking(b) /\ Current(b).kind = "file"
  /\ IF MayCreate(Current(b).name)
     THEN /\ Put(Current(b).name, File(b, FALSE))
          /\ Goto(b, "filling")
          /\ UNCHANGED ran
     ELSE Return(b, "failed") /\ UNCHANGED disk
  /\ UNCHANGED <<place, source, copied, met>>

\* io.Copy, Sync, Close, Chtimes: the file is whole.
FillFile(b) ==
  /\ pc[b] = "filling"
  /\ Put(Current(b).name, File(b, TRUE))
  /\ copied' = [copied EXCEPT ![b] = @ + 1]
  /\ Goto(b, "walk")
  /\ UNCHANGED <<place, source, ran, met>>

EndWalk(b) ==
  /\ pc[b] = "walk" /\ copied[b] = Len(source[b])
  /\ Goto(b, "manifest")
  /\ UNCHANGED <<place, disk, source, copied, ran, met>>

\* os.WriteFile is an open that truncates, and a write at the file's start: over
\* bytes another backup wrote meanwhile, a shorter manifest leaves their tail.
OpenManifest(b) ==
  /\ pc[b] = "manifest"
  /\ Put(ManifestPath, Manifest(b, "empty", {}))
  /\ Goto(b, "writing")
  /\ UNCHANGED <<place, source, copied, ran, met>>

WriteManifest(b) ==
  /\ pc[b] = "writing"
  /\ \E state \in IF disk[ManifestPath].state = "empty" THEN {"whole"}
                                                         ELSE {"whole", "torn"} :
       Put(ManifestPath, Manifest(b, state, Listed(b)))
  /\ Return(b, "ok")
  /\ UNCHANGED <<place, source, copied, met>>

\* A system call of the copy fails, or the process dies; the write of a manifest
\* may by then have put down some of its bytes.
GiveUp(b) ==
  /\ Running(b)
  /\ \/ Return(b, "crashed")
     \/ pc[b] \in {"snapshot", "walk", "filling", "manifest", "writing"}
        /\ Return(b, "failed")
  /\ \/ UNCHANGED disk
     \/ pc[b] = "writing" /\ Put(ManifestPath, Manifest(b, "torn", {}))
  /\ UNCHANGED <<place, source, copied, met>>

Step(b) ==
  \/ Plan(b) \/ Refuse(b) \/ Inspect(b) \/ MakeDestination(b) \/ ListDestination(b)
  \/ CloseRuntime(b) \/ MakeSnapshot(b) \/ CopyDirectory(b) \/ RejectLink(b)
  \/ CreateFile(b) \/ FillFile(b) \/ EndWalk(b) \/ OpenManifest(b)
  \/ WriteManifest(b) \/ GiveUp(b)

Next == \E b \in Backups : Step(b)

Spec == Init /\ [][Next]_vars

-----------------------------------------------------------------------------
(* Properties *)

Paths == Names \cup {Snapshot, ManifestPath, "other"}

States == {"idle", "inspect", "make", "list", "close", "snapshot", "walk",
           "filling", "manifest", "writing", "done"}

DiskEntries ==
  {Directory} \cup {File(b, w) : b \in Backups, w \in BOOLEAN}
  \cup {Manifest(b, s, f) : b \in Backups, s \in {"empty", "torn", "whole"},
                            f \in SUBSET Names}

\* Every variable stays in its range: the state of the backups and of the
\* destination backup.go works on.
TypeOK ==
  /\ place \in {"absent", "file", "directory"}
  /\ DOMAIN disk \subseteq Paths
  /\ \A p \in DOMAIN disk : disk[p] \in DiskEntries
  /\ pc \in [Backups -> States]
  /\ source \in [Backups -> Trees \cup {Missing}]
  /\ copied \in [Backups -> Nat]
  /\ ran \in [Backups -> {"no", "ok", "refused", "failed", "crashed"}]
  /\ met \in [Backups -> SUBSET Backups]

Steps(b) == IF source[b] = Missing THEN 0 ELSE Len(source[b])

\* The entry of b's tree is in the snapshot, with the source's contents.
InPlace(b, i) ==
  LET e == source[b][i] IN
    /\ e.name \in DOMAIN disk
    /\ disk[e.name] = IF e.kind = "dir" THEN Directory ELSE File(b, TRUE)

\* Every entry of the tree and nothing that is not of the tree.
HasAll(b) == \A i \in 1..Steps(b) : InPlace(b, i)
HasNoMore(b) ==
  DOMAIN disk \subseteq {source[b][i].name : i \in 1..Steps(b)}
                        \cup {Snapshot, ManifestPath}

\* Whoever finds a manifest that can be read finds the snapshot it describes:
\* the source's every entry, whole, and the files it counts; and, unless another
\* backup to the destination ran at the same time, nothing else.  So a backup
\* that failed or crashed half way leaves no manifest, and a later one to the
\* same destination does not mix with what it left (ensureEmptyDir, and the
\* order of executeBackup).
ManifestIsTrue ==
  ManifestPath \in DOMAIN disk /\ disk[ManifestPath].state = "whole" =>
    LET b == disk[ManifestPath].by IN
      /\ HasAll(b)
      /\ disk[ManifestPath].files = FilesOf(source[b], Steps(b))
      /\ met[b] = {} => HasNoMore(b)

\* Of two backups that copy a file to the same path at most one succeeds, and
\* what it copied stays as it left it, whatever the other does before it fails
\* (the O_EXCL of copyFile).
OneWriterWins ==
  \A b \in Backups : ran[b] = "ok" =>
    /\ HasAll(b)
    /\ \A c \in Backups \ {b} :
         ran[c] = "ok" => FilesOf(source[b], Steps(b))
                          \cap FilesOf(source[c], Steps(c)) = {}

-----------------------------------------------------------------------------
(* The inductive invariant *)

Writing == {"close", "snapshot", "walk", "filling", "manifest", "writing"}

\* How far a backup is: nothing is copied before the walk, and all of the tree
\* after it.
ProgressInv ==
  \A b \in Backups :
    /\ copied[b] \in 0..Steps(b)
    /\ pc[b] \in {"idle", "inspect", "make", "list", "close", "snapshot"} => copied[b] = 0
    /\ pc[b] = "idle" => source[b] = Missing
    /\ pc[b] \in {"walk", "filling"} => source[b] # Missing
    /\ pc[b] \in {"manifest", "writing"} \/ ran[b] = "ok" => copied[b] = Steps(b)
    /\ ran[b] # "no" <=> pc[b] = "done"

\* What stands where: the paths of the trees, the snapshot and the manifest do
\* not get into each other's way, and there is nothing below a destination that
\* is not a directory.
DiskInv ==
  /\ \A p \in DOMAIN disk : disk[p].kind = "manifest" <=> p = ManifestPath
  /\ \A b \in Backups : pc[b] \in {"list"} \cup Writing => place = "directory"
  /\ \A b \in Backups : pc[b] = "writing" => ManifestPath \in DOMAIN disk
  /\ place # "directory" => DOMAIN disk = {}

\* What a backup has dealt with is in place and stays there, and the file it
\* is filling is the one it created.
CopiedInv ==
  \A b \in Backups :
    /\ \A i \in 1..copied[b] : InPlace(b, i)
    /\ pc[b] = "filling" =>
         /\ copied[b] < Steps(b) /\ Current(b).kind = "file"
         /\ Current(b).name \in DOMAIN disk
         /\ disk[Current(b).name] = File(b, FALSE)

WholeInv ==
  ManifestPath \in DOMAIN disk /\ disk[ManifestPath].state = "whole" =>
    LET b == disk[ManifestPath].by IN
      ran[b] = "ok" /\ disk[ManifestPath].files = FilesOf(source[b], Steps(b))

\* The entries a backup has written or is writing.
OwnSteps(b) == 1..(IF pc[b] = "filling" THEN copied[b] + 1 ELSE copied[b])
OwnPaths(b) == {source[b][i].name : i \in OwnSteps(b)} \cup {Snapshot, ManifestPath}

\* A backup that meets no other has the destination to itself from the check of
\* ensureEmptyDir on, and those that come after its success find it taken.
AloneInv ==
  /\ \A b, c \in Backups : b # c /\ Running(b) /\ Running(c) => c \in met[b]
  /\ \A b \in Backups : met[b] = {} =>
       /\ pc[b] = "make" => place = "absent"
       /\ pc[b] \in Writing \/ ran[b] = "ok" => DOMAIN disk \subseteq OwnPaths(b)
       /\ ran[b] = "ok" =>
            /\ place = "directory" /\ ManifestPath \in DOMAIN disk
            /\ \A c \in Backups : pc[c] \notin Writing \cup {"make"}

IInv == TypeOK /\ ProgressInv /\ DiskInv /\ CopiedInv /\ WholeInv /\ AloneInv

=============================================================================
