-------------------------- MODULE FileBackup_proofs --------------------------
(***************************************************************************)
(* Proofs about FileBackup: a manifest describes the snapshot beside it,   *)
(* and two backups that both succeed share no file.  The argument follows  *)
(* the writes: every write below the destination is one of five kinds      *)
(* (Writes), none of which replaces what a backup has put in place.        *)
(***************************************************************************)
EXTENDS FileBackup, TLAPS

(* Entries and trees. *)

LEMMA EntryFacts ==
  /\ Directory.kind = "dir"
  /\ \A b, w : File(b, w).kind = "file" /\ File(b, w).whole = w /\ File(b, w).by = b
  /\ \A b, s, f : /\ Manifest(b, s, f).kind = "manifest" /\ Manifest(b, s, f).by = b
                  /\ Manifest(b, s, f).state = s /\ Manifest(b, s, f).files = f
  BY DEF Directory, File, Manifest

LEMMA DirectoryEntries == \A e \in DiskEntries : e.kind = "dir" => e = Directory
  BY DEF DiskEntries, Directory, File, Manifest

LEMMA DistinctEntries ==
  \A b, c : /\ File(b, FALSE) # File(c, TRUE)
            /\ \A w : File(b, w) # Directory
            /\ \A w, x : File(b, w) = File(c, x) => b = c
  <1>1. \A b, c : File(b, FALSE) # File(c, TRUE)
    BY DEF File
  <1>2. \A b, w : File(b, w) # Directory
    BY EntryFacts
  <1>3. \A b, c, w, x : File(b, w) = File(c, x) => b = c
    <2> SUFFICES ASSUME NEW b, NEW c, NEW w, NEW x, File(b, w) = File(c, x) PROVE b = c
      OBVIOUS
    <2>1. File(b, w).by = b /\ File(c, x).by = c
      BY EntryFacts
    <2> QED
      BY <2>1
  <1> QED
    BY <1>1, <1>2, <1>3

LEMMA PutFacts ==
  ASSUME NEW path, NEW entry, Put(path, entry)
  PROVE  /\ DOMAIN disk' = DOMAIN disk \cup {path}
         /\ disk'[path] = entry
         /\ \A p \in DOMAIN disk : p # path => disk'[p] = disk[p]
  BY DEF Put

\* A tree's entries have distinct names, none of them the snapshot or manifest.
LEMMA TreeFacts ==
  ASSUME TypeOK, NEW b \in Backups
  PROVE  /\ Steps(b) \in Nat
         /\ source[b] # Missing => Steps(b) = Len(source[b]) /\ source[b] \in Trees
         /\ \A i \in 1..Steps(b) :
              /\ source[b][i] \in Entries /\ source[b][i].name \in Names
              /\ source[b][i].name \notin {Snapshot, ManifestPath}
         /\ \A i, j \in 1..Steps(b) : source[b][i].name = source[b][j].name => i = j
  <1>1. CASE source[b] = Missing
    BY <1>1 DEF Steps
  <1>2. CASE source[b] # Missing
    <2>1. source[b] \in Trees /\ source[b] \in Seq(Entries) /\ Steps(b) = Len(source[b])
      BY <1>2, FileBackupAssumption DEF TypeOK, Steps, FileBackupAssumption
    <2>2. Steps(b) \in Nat /\ DOMAIN source[b] = 1..Steps(b)
      BY <2>1
    <2>3. \A i \in 1..Steps(b) : source[b][i] \in Entries
      BY <2>1, <2>2
    <2> QED
      BY <2>1, <2>2, <2>3, FileBackupAssumption
      DEF FileBackupAssumption, Entries, Snapshot, ManifestPath
  <1> QED
    BY <1>1, <1>2

\* The entry a backup that walks its tree is at.
LEMMA CurrentFacts ==
  ASSUME TypeOK, ProgressInv, CopiedInv, NEW b \in Backups, Walking(b) \/ pc[b] = "filling"
  PROVE  /\ copied[b] + 1 \in 1..Steps(b)
         /\ Current(b) = source[b][copied[b] + 1]
         /\ Current(b) \in Entries /\ Current(b).name \in Names
         /\ Current(b).name \notin {Snapshot, ManifestPath}
  <1>1. Current(b) = source[b][copied[b] + 1]
    BY DEF Current
  <1>2. copied[b] \in Nat /\ copied[b] < Steps(b)
    BY TreeFacts DEF TypeOK, Walking, ProgressInv, CopiedInv
  <1>3. copied[b] + 1 \in 1..Steps(b)
    BY <1>2, TreeFacts
  <1> QED
    BY <1>1, <1>3, TreeFacts

-----------------------------------------------------------------------------
(* The writes. *)

Writes(b, path, entry) ==
  \/ pc[b] = "snapshot" /\ path = Snapshot /\ entry = Directory
  \/ /\ Walking(b) /\ path = Current(b).name /\ Current(b).kind = "dir" /\ entry = Directory
     /\ path \in DOMAIN disk => disk[path].kind = "dir"
  \/ /\ Walking(b) /\ path = Current(b).name /\ entry = File(b, FALSE)
     /\ path \notin DOMAIN disk
  \/ pc[b] = "filling" /\ path = Current(b).name /\ entry = File(b, TRUE)
  \/ /\ pc[b] \in {"manifest", "writing"} /\ path = ManifestPath
     /\ \E s \in {"empty", "torn", "whole"}, f \in SUBSET Names : entry = Manifest(b, s, f)

\* The files a manifest lists are of the tree.
LEMMA ListedFacts ==
  ASSUME TypeOK, ProgressInv, NEW b \in Backups
  PROVE  Listed(b) \in SUBSET Names /\ Listed(b) = FilesOf(source[b], copied[b])
  <1>1. copied[b] \in 0..Steps(b)
    BY DEF ProgressInv
  <1>2. Listed(b) = FilesOf(source[b], copied[b])
    BY <1>1 DEF Listed, FilesOf, Steps
  <1>3. \A i \in 1..copied[b] : source[b][i].name \in Names
    BY <1>1, TreeFacts
  <1> QED
    BY <1>2, <1>3 DEF FilesOf

\* Every step leaves what is below the destination alone or makes one write.
LEMMA StepWrites ==
  ASSUME IInv, NEW b \in Backups, Step(b)
  PROVE  UNCHANGED disk \/ \E path, entry : Writes(b, path, entry) /\ Put(path, entry)
  <1>1. CASE MakeSnapshot(b)
    BY <1>1 DEF MakeSnapshot, Writes
  <1>2. CASE CopyDirectory(b)
    BY <1>2 DEF CopyDirectory, Writes
  <1>3. CASE CreateFile(b)
    BY <1>3 DEF CreateFile, MayCreate, Writes
  <1>4. CASE FillFile(b)
    BY <1>4 DEF FillFile, Writes
  <1>5. CASE OpenManifest(b)
    BY <1>5 DEF OpenManifest, Writes
  <1>6. CASE WriteManifest(b)
    BY <1>6, ListedFacts DEF WriteManifest, Writes, IInv
  <1>7. CASE GiveUp(b)
    BY <1>7 DEF GiveUp, Writes
  <1>8. CASE Plan(b) \/ Refuse(b) \/ Inspect(b) \/ MakeDestination(b) \/ ListDestination(b)
             \/ CloseRuntime(b) \/ RejectLink(b) \/ EndWalk(b)
    BY <1>8 DEF Plan, Refuse, Inspect, MakeDestination, ListDestination, CloseRuntime,
       RejectLink, EndWalk
  <1> QED
    BY <1>1, <1>2, <1>3, <1>4, <1>5, <1>6, <1>7, <1>8 DEF Step

\* A write is to a path below the destination, and the entry is a legal one.
LEMMA WriteFacts ==
  ASSUME IInv, NEW b \in Backups, NEW path, NEW entry, Writes(b, path, entry)
  PROVE  /\ path \in Paths /\ entry \in DiskEntries /\ pc[b] \in Writing
         /\ entry.kind = "manifest" <=> path = ManifestPath
         /\ path # ManifestPath => path = Snapshot \/ path = Current(b).name
  <1>1. (pc[b] = "filling" \/ Walking(b)) =>
          Current(b).name \in Names /\ Current(b).name # ManifestPath
    BY CurrentFacts DEF IInv
  <1>2. Directory \in DiskEntries /\ \A w \in BOOLEAN : File(b, w) \in DiskEntries
    BY DEF DiskEntries
  <1>3. \A s \in {"empty", "torn", "whole"}, f \in SUBSET Names : Manifest(b, s, f) \in DiskEntries
    BY DEF DiskEntries
  <1>4. pc[b] \in Writing
    BY DEF Writes, Walking, Writing
  <1>5. Snapshot # ManifestPath
    BY DEF Snapshot, ManifestPath
  <1>6. Names \subseteq Paths /\ Snapshot \in Paths /\ ManifestPath \in Paths
    BY DEF Paths
  <1> HIDE DEF Snapshot, ManifestPath
  <1>7. CASE pc[b] = "snapshot" /\ path = Snapshot /\ entry = Directory
    BY <1>7, <1>2, <1>4, <1>5, <1>6, EntryFacts
  <1>8. CASE path = Current(b).name /\ (pc[b] = "filling" \/ Walking(b))
             /\ (entry = Directory \/ \E w \in BOOLEAN : entry = File(b, w))
    <2>1. entry \in DiskEntries /\ entry.kind # "manifest"
      BY <1>8, <1>2, EntryFacts
    <2> QED
      BY <2>1, <1>8, <1>1, <1>4, <1>6
  <1>9. CASE path = ManifestPath
             /\ \E s \in {"empty", "torn", "whole"}, f \in SUBSET Names : entry = Manifest(b, s, f)
    BY <1>9, <1>3, <1>4, <1>6, EntryFacts
  <1> QED
    BY <1>7, <1>8, <1>9 DEF Writes

\* A backup's step is its own: of the other backups it changes only whom they met.
LEMMA OthersAreLeftAlone ==
  ASSUME TypeOK, NEW b \in Backups, Step(b), NEW c \in Backups, c # b
  PROVE  /\ pc'[c] = pc[c] /\ source'[c] = source[c] /\ copied'[c] = copied[c]
         /\ ran'[c] = ran[c]
         /\ met'[c] = met[c] \/ (Running(c) /\ met'[c] = met[c] \cup {b})
  <1>1. CASE Plan(b)
    <2>1. pc'[c] = pc[c] /\ source'[c] = source[c] /\ copied'[c] = copied[c] /\ ran'[c] = ran[c]
      BY <1>1 DEF TypeOK, Plan, Goto
    <2>2. met'[c] = IF c \in {x \in Backups : Running(x)} THEN met[c] \cup {b} ELSE met[c]
      BY <1>1 DEF Plan
    <2> QED
      BY <2>1, <2>2
  <1>2. CASE Refuse(b) \/ Inspect(b) \/ MakeDestination(b) \/ ListDestination(b)
             \/ CloseRuntime(b)
    BY <1>2 DEF TypeOK, Refuse, Inspect, MakeDestination, ListDestination, CloseRuntime,
       Return, Goto
  <1>3. CASE MakeSnapshot(b) \/ CopyDirectory(b) \/ RejectLink(b) \/ CreateFile(b)
    BY <1>3 DEF TypeOK, MakeSnapshot, CopyDirectory, RejectLink, CreateFile, Return, Goto
  <1>4. CASE FillFile(b) \/ EndWalk(b) \/ OpenManifest(b) \/ WriteManifest(b)
    BY <1>4 DEF TypeOK, FillFile, EndWalk, OpenManifest, WriteManifest, Return, Goto
  <1>5. CASE GiveUp(b)
    BY <1>5 DEF TypeOK, GiveUp, Return, Goto
  <1> QED
    BY <1>1, <1>2, <1>3, <1>4, <1>5 DEF Step

-----------------------------------------------------------------------------
(* The invariant, part by part. *)

LEMMA TypeOKStep == IInv /\ [Next]_vars => TypeOK'
  <1> SUFFICES ASSUME IInv, [Next]_vars PROVE TypeOK'
    OBVIOUS
  <1>1. ASSUME NEW b \in Backups, Step(b) PROVE TypeOK'
    <2>1. DOMAIN disk' \subseteq Paths /\ \A p \in DOMAIN disk' : disk'[p] \in DiskEntries
      <3>1. ASSUME NEW path, NEW entry, Writes(b, path, entry), Put(path, entry)
            PROVE  DOMAIN disk' \subseteq Paths /\ \A p \in DOMAIN disk' : disk'[p] \in DiskEntries
        <4>1. path \in Paths /\ entry \in DiskEntries
          BY <3>1, WriteFacts
        <4>2. /\ DOMAIN disk' = DOMAIN disk \cup {path} /\ disk'[path] = entry
              /\ \A p \in DOMAIN disk : p # path => disk'[p] = disk[p]
          BY <3>1, PutFacts
        <4> QED
          BY <4>1, <4>2 DEF IInv, TypeOK
      <3> QED
        BY <1>1, <3>1, StepWrites DEF IInv, TypeOK
    <2>2. CASE Plan(b)
      BY <2>1, <2>2 DEF Plan, Goto, IInv, TypeOK, States
    <2>3. CASE Refuse(b) \/ Inspect(b) \/ MakeDestination(b) \/ ListDestination(b)
               \/ CloseRuntime(b)
      BY <2>1, <2>3 DEF Refuse, Inspect, MakeDestination, ListDestination, CloseRuntime,
         Return, Goto, IInv, TypeOK, States
    <2>4. CASE CopyDirectory(b) \/ FillFile(b)
      <3>1. copied' \in [Backups -> Nat]
        <4>1. copied' \in {copied, [copied EXCEPT ![b] = copied[b] + 1]}
          BY <2>4 DEF CopyDirectory, FillFile
        <4> QED
          BY <4>1 DEF IInv, TypeOK
      <3> QED
        BY <2>1, <2>4, <3>1 DEF CopyDirectory, FillFile, Return, Goto, IInv, TypeOK, States
    <2>5. CASE MakeSnapshot(b) \/ RejectLink(b) \/ CreateFile(b) \/ EndWalk(b)
      BY <2>1, <2>5 DEF MakeSnapshot, RejectLink, CreateFile, EndWalk, Return, Goto,
         IInv, TypeOK, States
    <2>6. CASE OpenManifest(b) \/ WriteManifest(b) \/ GiveUp(b)
      BY <2>1, <2>6 DEF OpenManifest, WriteManifest, GiveUp, Return, Goto, IInv, TypeOK, States
    <2> QED
      BY <1>1, <2>2, <2>3, <2>4, <2>5, <2>6 DEF Step
  <1>2. CASE UNCHANGED vars
    BY <1>2 DEF IInv, TypeOK, vars
  <1> QED
    BY <1>1, <1>2 DEF Next

\* A step advances its backup by at most one entry of its tree, and a backup keeps
\* the tree it planned with.
LEMMA ProgressFacts ==
  ASSUME IInv, NEW b \in Backups, Step(b)
  PROVE  /\ pc[b] = "idle" \/ source'[b] = source[b]
         /\ copied'[b] = copied[b] \/ (copied'[b] = copied[b] + 1 /\ pc[b] \in {"walk", "filling"})
  BY DEF Step, IInv, TypeOK, Plan, Refuse, Inspect, MakeDestination, ListDestination,
     CloseRuntime, MakeSnapshot, CopyDirectory, RejectLink, CreateFile, FillFile, EndWalk,
     OpenManifest, WriteManifest, GiveUp, Walking

LEMMA ProgressStep == IInv /\ [Next]_vars => ProgressInv'
  <1> SUFFICES ASSUME IInv, [Next]_vars PROVE ProgressInv'
    OBVIOUS
  <1> DEFINE Progress(c) ==
        /\ copied[c] \in 0..Steps(c)
        /\ pc[c] \in {"idle", "inspect", "make", "list", "close", "snapshot"} => copied[c] = 0
        /\ pc[c] = "idle" => source[c] = Missing
        /\ pc[c] \in {"walk", "filling"} => source[c] # Missing
        /\ pc[c] \in {"manifest", "writing"} \/ ran[c] = "ok" => copied[c] = Steps(c)
        /\ ran[c] # "no" <=> pc[c] = "done"
  <1>1. ASSUME NEW b \in Backups, Step(b), NEW c \in Backups PROVE Progress(c)'
    <2>1. CASE c # b
      BY <1>1, <2>1, OthersAreLeftAlone DEF IInv, ProgressInv, Steps
    <2>2. CASE c = b
      <3> USE <2>2
      <3>1. Steps(b) \in Nat /\ Progress(b) /\ copied[b] \in Nat
        BY TreeFacts DEF IInv, ProgressInv, TypeOK
      <3>2. pc[b] = "idle" \/ Steps(b)' = Steps(b)
        BY <1>1, ProgressFacts DEF Steps
      <3>3. CASE Plan(b)
        <4>1. source'[b] \in Trees \cup {Missing} /\ copied'[b] = 0 /\ pc'[b] = "inspect"
              /\ ran'[b] = "no"
          BY <3>1, <3>3 DEF Plan, Goto, IInv, TypeOK
        <4>2. Steps(b)' \in Nat
          BY <4>1, FileBackupAssumption DEF FileBackupAssumption, Steps
        <4> QED
          BY <4>1, <4>2
      <3>4. CASE Refuse(b) \/ Inspect(b) \/ MakeDestination(b) \/ ListDestination(b)
                 \/ CloseRuntime(b)
        BY <3>1, <3>2, <3>4 DEF Refuse, Inspect, MakeDestination, ListDestination, CloseRuntime,
           Return, Goto, IInv, TypeOK
      <3>5. CASE MakeSnapshot(b) \/ RejectLink(b) \/ EndWalk(b) \/ OpenManifest(b)
        BY <3>1, <3>2, <3>5 DEF MakeSnapshot, RejectLink, EndWalk, OpenManifest, Walking,
           Return, Goto, Steps, IInv, TypeOK
      <3>6. CASE CopyDirectory(b) \/ CreateFile(b) \/ FillFile(b)
        <4>1. copied[b] + 1 \in 1..Steps(b)
          BY <3>6, CurrentFacts DEF IInv, CopyDirectory, CreateFile, FillFile
        <4>2. copied'[b] \in {copied[b], copied[b] + 1} /\ source[b] # Missing
              /\ pc[b] \in {"walk", "filling"}
          BY <3>1, <3>6 DEF CopyDirectory, CreateFile, FillFile, Walking, IInv, TypeOK
        <4>3. (pc'[b] \in {"walk", "filling"} /\ ran'[b] = "no")
              \/ (pc'[b] = "done" /\ ran'[b] = "failed")
          BY <3>1, <3>6 DEF CopyDirectory, CreateFile, FillFile, Walking, Return, Goto,
             IInv, TypeOK
        <4> QED
          BY <1>1, <3>1, <3>2, <4>1, <4>2, <4>3, ProgressFacts
      <3>7. CASE WriteManifest(b) \/ GiveUp(b)
        BY <3>1, <3>2, <3>7 DEF WriteManifest, GiveUp, Running, Return, Goto, IInv, TypeOK
      <3> QED
        BY <1>1, <3>3, <3>4, <3>5, <3>6, <3>7 DEF Step
    <2> QED
      BY <2>1, <2>2
  <1>2. CASE UNCHANGED vars
    BY <1>2 DEF IInv, ProgressInv, Steps, vars
  <1> QED
    BY <1>1, <1>2 DEF Next, ProgressInv

LEMMA DiskStep == IInv /\ [Next]_vars => DiskInv'
  <1> SUFFICES ASSUME IInv, [Next]_vars PROVE DiskInv'
    OBVIOUS
  <1>1. ASSUME NEW b \in Backups, Step(b) PROVE DiskInv'
    <2>1. \A p \in DOMAIN disk' : disk'[p].kind = "manifest" <=> p = ManifestPath
      <3>1. ASSUME NEW path, NEW entry, Writes(b, path, entry), Put(path, entry)
            PROVE  \A p \in DOMAIN disk' : disk'[p].kind = "manifest" <=> p = ManifestPath
        <4>1. entry.kind = "manifest" <=> path = ManifestPath
          BY <3>1, WriteFacts
        <4>2. /\ DOMAIN disk' = DOMAIN disk \cup {path} /\ disk'[path] = entry
              /\ \A p \in DOMAIN disk : p # path => disk'[p] = disk[p]
          BY <3>1, PutFacts
        <4> QED
          BY <4>1, <4>2 DEF IInv, DiskInv
      <3> QED
        BY <1>1, <3>1, StepWrites DEF IInv, DiskInv
    <2>2. DOMAIN disk \subseteq DOMAIN disk'
      BY <1>1, StepWrites, PutFacts
    <2>3. place' = place \/ place' = "directory"
      BY <1>1 DEF Step, Plan, Refuse, Inspect, MakeDestination, ListDestination, CloseRuntime,
         MakeSnapshot, CopyDirectory, RejectLink, CreateFile, FillFile, EndWalk, OpenManifest,
         WriteManifest, GiveUp
    <2>4. pc'[b] \in {"list"} \cup Writing => place' = "directory"
      <3>1. CASE pc[b] \in {"list"} \cup Writing
        BY <2>3, <3>1 DEF IInv, DiskInv
      <3>2. CASE pc[b] \notin {"list"} \cup Writing
        <4>1. Plan(b) \/ Refuse(b) \/ Inspect(b) \/ MakeDestination(b) \/ GiveUp(b)
          BY <1>1, <3>2 DEF Step, ListDestination, CloseRuntime, MakeSnapshot, CopyDirectory,
             RejectLink,
             CreateFile, FillFile, EndWalk, OpenManifest, WriteManifest, Walking, Writing
        <4>2. CASE MakeDestination(b)
          BY <4>2 DEF MakeDestination
        <4>3. CASE Plan(b) \/ Refuse(b) \/ Inspect(b) \/ GiveUp(b)
          BY <4>3 DEF Plan, Refuse, Inspect, GiveUp, Return, Goto, Writing, IInv, TypeOK
        <4> QED
          BY <4>1, <4>2, <4>3
      <3> QED
        BY <3>1, <3>2
    <2>5. pc'[b] = "writing" => ManifestPath \in DOMAIN disk'
      <3>1. CASE OpenManifest(b)
        BY <3>1, PutFacts DEF OpenManifest
      <3>2. CASE ~OpenManifest(b)
        BY <1>1, <2>2, <3>2 DEF Step, Plan, Refuse, Inspect, MakeDestination, ListDestination,
         CloseRuntime, MakeSnapshot, CopyDirectory, RejectLink, CreateFile, FillFile, EndWalk,
         WriteManifest, GiveUp, Walking, Running, Return, Goto, IInv, TypeOK, DiskInv
      <3> QED
        BY <3>1, <3>2
    <2>6. place' # "directory" => DOMAIN disk' = {}
      <3>1. CASE UNCHANGED disk
        BY <2>3, <3>1 DEF IInv, DiskInv
      <3>2. CASE \E path, entry : Writes(b, path, entry)
        BY <2>3, <3>2, WriteFacts DEF IInv, DiskInv
      <3> QED
        BY <1>1, <3>1, <3>2, StepWrites
    <2>7. \A c \in Backups : c # b => pc'[c] = pc[c]
      BY <1>1, OthersAreLeftAlone DEF IInv
    <2> QED
      BY <2>1, <2>2, <2>3, <2>4, <2>5, <2>6, <2>7 DEF IInv, DiskInv
  <1>2. CASE UNCHANGED vars
    BY <1>2 DEF IInv, DiskInv, vars
  <1> QED
    BY <1>1, <1>2 DEF Next

\* What was in place stays: no write is to a path that holds another's file, and a
\* directory is written over a directory only.
LEMMA InPlaceStays ==
  ASSUME IInv, NEW b \in Backups, NEW path, NEW entry, Writes(b, path, entry), Put(path, entry),
         NEW c \in Backups, NEW i \in 1..copied[c],
         source'[c] = source[c]
  PROVE  InPlace(c, i)'
  <1>1. InPlace(c, i) /\ i \in 1..Steps(c) /\ i \in Nat /\ i <= copied[c]
    <2>1. copied[c] \in 0..Steps(c) /\ Steps(c) \in Nat /\ InPlace(c, i)
      BY TreeFacts DEF IInv, CopiedInv, ProgressInv
    <2> QED
      BY <2>1
  <1>2. source[c][i].name \in DOMAIN disk /\ source[c][i].name \notin {Snapshot, ManifestPath}
    BY <1>1, TreeFacts DEF InPlace, IInv
  <1>3. disk[source[c][i].name] \in DiskEntries
    BY <1>2 DEF IInv, TypeOK
  <1>4. path = source[c][i].name => entry = disk[path]
    <2> SUFFICES ASSUME path = source[c][i].name PROVE entry = disk[path]
      OBVIOUS
    <2>1. path # Snapshot /\ path # ManifestPath /\ path \in DOMAIN disk
      BY <1>2
    <2>2. CASE entry = Directory /\ disk[path].kind = "dir"
      BY <1>3, <2>2, DirectoryEntries
    <2>3. CASE pc[b] = "filling" /\ path = Current(b).name /\ entry = File(b, TRUE)
      <3>1. disk[path] = File(b, FALSE) /\ path = source[b][copied[b] + 1].name
        BY <2>3 DEF IInv, CopiedInv, Current
      <3>2. disk[path] = Directory \/ disk[path] = File(c, TRUE)
        BY <1>1 DEF InPlace
      <3> QED
        BY <3>1, <3>2, DistinctEntries
    <2> QED
      BY <2>1, <2>2, <2>3 DEF Writes
  <1>5. source[c][i].name \in DOMAIN disk' /\ disk'[source[c][i].name] = disk[source[c][i].name]
    BY <1>2, <1>4, PutFacts
  <1> QED
    BY <1>1, <1>5 DEF InPlace

LEMMA CopiedStep == IInv /\ [Next]_vars => CopiedInv'
  <1> SUFFICES ASSUME IInv, [Next]_vars PROVE CopiedInv'
    OBVIOUS
  <1>1. ASSUME NEW b \in Backups, Step(b), NEW c \in Backups, NEW i \in 1..copied[c]
        PROVE  InPlace(c, i)'
    <2>1. copied[c] # 0 /\ pc[c] # "idle"
      BY DEF IInv, ProgressInv, TypeOK
    <2>2. source'[c] = source[c]
      BY <1>1, <2>1, OthersAreLeftAlone, ProgressFacts DEF IInv
    <2>3. CASE UNCHANGED disk
      BY <2>2, <2>3 DEF InPlace, IInv, CopiedInv
    <2> QED
      BY <1>1, <2>2, <2>3, StepWrites, InPlaceStays
  <1>2. ASSUME NEW b \in Backups, Step(b), NEW i \in Nat,
               i = copied[b] + 1, copied'[b] = i
        PROVE  InPlace(b, i)'
    <2>1. CopyDirectory(b) \/ FillFile(b)
      <3>1. copied' # copied
        BY <1>2 DEF IInv, TypeOK
      <3> QED
        BY <1>2, <3>1 DEF Step, Plan, Refuse, Inspect, MakeDestination, ListDestination,
           CloseRuntime, MakeSnapshot, RejectLink, CreateFile, EndWalk, OpenManifest,
           WriteManifest, GiveUp
    <2>2. Current(b) = source[b][i] /\ source'[b] = source[b]
      BY <1>2, <2>1 DEF Current, CopyDirectory, FillFile
    <2>3. CASE CopyDirectory(b)
      <3>1. Put(Current(b).name, Directory) /\ Current(b).kind = "dir"
        BY <1>2, <2>3 DEF CopyDirectory, IInv, TypeOK
      <3> QED
        BY <2>2, <3>1 DEF InPlace, Put
    <2>4. CASE FillFile(b)
      <3>1. Put(Current(b).name, File(b, TRUE)) /\ Current(b).kind = "file"
        BY <2>4 DEF FillFile, IInv, CopiedInv
      <3> QED
        BY <2>2, <3>1 DEF InPlace, Put
    <2> QED
      BY <2>1, <2>3, <2>4
  <1>3. ASSUME NEW b \in Backups, Step(b), NEW c \in Backups, NEW i \in 1..copied'[c]
        PROVE  InPlace(c, i)'
    <2>1. copied[c] \in Nat
      BY DEF IInv, TypeOK
    <2>2. copied'[c] = copied[c] \/ (c = b /\ copied'[c] = copied[c] + 1)
      BY <1>3, OthersAreLeftAlone, ProgressFacts DEF IInv
    <2>3. i \in 1..copied[c] \/ (c = b /\ i = copied[b] + 1 /\ copied'[b] = copied[b] + 1)
      BY <1>3, <2>1, <2>2
    <2> QED
      BY <1>1, <1>2, <1>3, <2>3
  <1> DEFINE Filling(c) ==
        pc[c] = "filling" =>
          /\ copied[c] < Steps(c) /\ Current(c).kind = "file"
          /\ Current(c).name \in DOMAIN disk
          /\ disk[Current(c).name] = File(c, FALSE)
  <1>4. ASSUME NEW b \in Backups, Step(b) PROVE Filling(b)'
    <2>1. CASE CreateFile(b)
      <3>1. CASE MayCreate(Current(b).name)
        <4>1. Walking(b) /\ Current(b).kind = "file" /\ Put(Current(b).name, File(b, FALSE))
              /\ UNCHANGED <<source, copied>>
          BY <2>1, <3>1 DEF CreateFile
        <4>2. Current(b)' = Current(b) /\ Steps(b)' = Steps(b)
          BY <4>1 DEF Current, Steps
        <4>3. copied[b] < Steps(b)
          BY <4>1, TreeFacts DEF Walking, IInv, ProgressInv
        <4> QED
          BY <4>1, <4>2, <4>3 DEF Put
      <3>2. CASE ~MayCreate(Current(b).name)
        BY <2>1, <3>2 DEF CreateFile, Return, Goto, IInv, TypeOK
      <3> QED
        BY <3>1, <3>2
    <2>2. CASE ~CreateFile(b)
      <3>1. pc'[b] # "filling"
        BY <1>4, <2>2 DEF Step, IInv, TypeOK, Plan, Refuse, Inspect, MakeDestination,
           ListDestination, CloseRuntime, MakeSnapshot, CopyDirectory, RejectLink, FillFile,
           EndWalk, OpenManifest, WriteManifest, GiveUp, Return, Goto, Walking
      <3> QED
        BY <3>1
    <2> QED
      BY <2>1, <2>2
  <1>5. ASSUME NEW b \in Backups, Step(b), NEW c \in Backups, c # b PROVE Filling(c)'
    <2> SUFFICES ASSUME pc'[c] = "filling"
                 PROVE  /\ copied'[c] < Steps(c)' /\ Current(c)'.kind = "file"
                        /\ Current(c)'.name \in DOMAIN disk'
                        /\ disk'[Current(c)'.name] = File(c, FALSE)
      OBVIOUS
    <2>1. pc[c] = "filling" /\ source'[c] = source[c] /\ copied'[c] = copied[c]
      BY <1>5, OthersAreLeftAlone DEF IInv
    <2>2. Current(c)' = Current(c) /\ Steps(c)' = Steps(c)
      BY <2>1 DEF Current, Steps
    <2>3. /\ Current(c).name \notin {Snapshot, ManifestPath}
          /\ copied[c] < Steps(c) /\ Current(c).kind = "file"
          /\ Current(c).name \in DOMAIN disk /\ disk[Current(c).name] = File(c, FALSE)
      BY <2>1, CurrentFacts DEF IInv, CopiedInv
    <2>4. ASSUME NEW path, NEW entry, Writes(b, path, entry) PROVE path # Current(c).name
      <3>1. CASE pc[b] = "filling" /\ path = Current(b).name
        <4>1. disk[Current(b).name] = File(b, FALSE)
          BY <3>1 DEF IInv, CopiedInv
        <4>2. Current(b).name # Current(c).name
          BY <1>5, <2>3, <4>1, DistinctEntries
        <4> QED
          BY <3>1, <4>2
      <3>2. CASE ~(pc[b] = "filling" /\ path = Current(b).name)
        <4>1. disk[Current(c).name].kind = "file" /\ Current(c).name \in DOMAIN disk
          <5>1. File(c, FALSE).kind = "file"
            BY EntryFacts
          <5> QED
            BY <2>3, <5>1
        <4> QED
          BY <2>3, <2>4, <3>2, <4>1 DEF Writes
      <3> QED
        BY <3>1, <3>2
    <2>5. Current(c).name \in DOMAIN disk' /\ disk'[Current(c).name] = disk[Current(c).name]
      <3>1. ASSUME NEW path, NEW entry, Writes(b, path, entry), Put(path, entry)
            PROVE  /\ Current(c).name \in DOMAIN disk'
                   /\ disk'[Current(c).name] = disk[Current(c).name]
        BY <2>1, <2>3, <2>4, <3>1, PutFacts
      <3> QED
        BY <1>5, <2>1, <2>3, <3>1, StepWrites
    <2> QED
      BY <2>1, <2>2, <2>3, <2>5
  <1>6. CASE \E b \in Backups : Step(b)
    BY <1>3, <1>4, <1>5, <1>6 DEF CopiedInv
  <1>7. CASE UNCHANGED vars
    BY <1>7 DEF IInv, CopiedInv, InPlace, Current, Steps, vars
  <1> QED
    BY <1>6, <1>7 DEF Next

\* No step changes how a backup that has ended ended, or what it had planned.
LEMMA EndedStays ==
  ASSUME IInv, [Next]_vars, NEW c \in Backups, ran[c] # "no"
  PROVE  /\ ran'[c] = ran[c] /\ pc'[c] = pc[c] /\ source'[c] = source[c] /\ copied'[c] = copied[c]
         /\ met'[c] = met[c]
  <1>1. pc[c] = "done"
    BY DEF IInv, ProgressInv
  <1>2. ~Step(c)
    BY <1>1 DEF Step, Plan, Refuse, Inspect, MakeDestination, ListDestination, CloseRuntime,
       MakeSnapshot, CopyDirectory, RejectLink, CreateFile, FillFile, EndWalk, OpenManifest,
       WriteManifest, GiveUp, Walking, Running
  <1>3. CASE \E b \in Backups : Step(b)
    BY <1>1, <1>2, <1>3, OthersAreLeftAlone DEF IInv, Running
  <1> QED
    BY <1>3 DEF Next, vars

LEMMA WholeStep == IInv /\ [Next]_vars => WholeInv'
  <1> SUFFICES ASSUME IInv, [Next]_vars, ManifestPath \in DOMAIN disk',
                      NEW m, m = disk'[ManifestPath], m.state = "whole", NEW c, c = m.by
               PROVE  ran'[c] = "ok" /\ m.files = FilesOf(source'[c], Steps(c)')
    BY DEF WholeInv, Steps
  <1>1. CASE ManifestPath \in DOMAIN disk /\ m = disk[ManifestPath]
    <2>1. ran[c] = "ok" /\ m.files = FilesOf(source[c], Steps(c))
      BY <1>1 DEF IInv, WholeInv
    <2>2. c \in Backups
      <3>1. m \in DiskEntries /\ m.kind = "manifest"
        BY <1>1 DEF IInv, TypeOK, DiskInv
      <3> QED
        BY <3>1, EntryFacts DEF DiskEntries
    <2>3. ran'[c] = ran[c] /\ source'[c] = source[c]
      BY <2>1, <2>2, EndedStays
    <2> QED
      BY <2>1, <2>3 DEF Steps
  <1>2. ASSUME NEW b \in Backups, Step(b), NEW path, NEW entry, Writes(b, path, entry),
               Put(path, entry), ~(ManifestPath \in DOMAIN disk /\ m = disk[ManifestPath])
        PROVE  ran'[c] = "ok" /\ m.files = FilesOf(source'[c], Steps(c)')
    <2>1. path = ManifestPath /\ m = entry
      <3>1. /\ DOMAIN disk' = DOMAIN disk \cup {path} /\ disk'[path] = entry
            /\ \A p \in DOMAIN disk : p # path => disk'[p] = disk[p]
        BY <1>2, PutFacts
      <3> QED
        BY <1>2, <3>1
    <2>2. pc[b] \in {"manifest", "writing"}
      <3>1. (Walking(b) \/ pc[b] = "filling") => Current(b).name # ManifestPath
        BY CurrentFacts DEF IInv
      <3>2. Snapshot # ManifestPath
        BY DEF Snapshot, ManifestPath
      <3> QED
        BY <1>2, <2>1, <3>1, <3>2 DEF Writes
    <2>3. OpenManifest(b) \/ GiveUp(b) \/ WriteManifest(b)
      BY <1>2, <2>2 DEF Step, Plan, Refuse, Inspect, MakeDestination, ListDestination,
         CloseRuntime, MakeSnapshot, CopyDirectory, RejectLink, CreateFile, FillFile, EndWalk,
         Walking
    <2>4. ~ \E s \in {"empty", "torn"}, f \in SUBSET Names : Put(ManifestPath, Manifest(b, s, f))
      <3> SUFFICES ASSUME NEW s \in {"empty", "torn"}, NEW f \in SUBSET Names,
                          Put(ManifestPath, Manifest(b, s, f))
                   PROVE  FALSE
        OBVIOUS
      <3>1. m = Manifest(b, s, f)
        BY DEF Put
      <3>2. Manifest(b, s, f).state = s
        BY EntryFacts
      <3> QED
        BY <3>1, <3>2
    <2>5. WriteManifest(b)
      BY <1>1, <1>2, <2>3, <2>4 DEF OpenManifest, GiveUp
    <2>6. PICK state \in {"whole", "torn"} : Put(ManifestPath, Manifest(b, state, Listed(b)))
      BY <2>5 DEF WriteManifest
    <2>7. m = Manifest(b, state, Listed(b))
      BY <2>6 DEF Put
    <2>8. c = b /\ m.files = Listed(b)
      BY <2>7, EntryFacts
    <2>9. Listed(b) = FilesOf(source[b], copied[b]) /\ copied[b] = Steps(b)
      BY <2>2, ListedFacts DEF IInv, ProgressInv
    <2>10. ran'[b] = "ok" /\ source'[b] = source[b] /\ Steps(b)' = Steps(b)
      BY <2>5 DEF WriteManifest, Return, Steps, IInv, TypeOK
    <2> QED
      BY <2>8, <2>9, <2>10 DEF Steps
  <1>3. CASE UNCHANGED disk
    BY <1>1, <1>3
  <1> QED
    BY <1>1, <1>2, <1>3, StepWrites DEF Next, vars

\* The writes of a backup are to paths of its own.
LEMMA OwnWrites ==
  ASSUME IInv, NEW b \in Backups, Step(b), NEW path, NEW entry, Writes(b, path, entry),
         pc'[b] # "done" \/ ran'[b] = "ok", source'[b] = source[b]
  PROVE  path \in OwnPaths(b)'
  <1>1. CASE path \in {Snapshot, ManifestPath}
    BY <1>1 DEF OwnPaths
  <1>2. CASE path \notin {Snapshot, ManifestPath}
    <2>1. (pc[b] = "filling" \/ Walking(b)) /\ path = Current(b).name
      BY <1>2 DEF Writes
    <2>2. path = source[b][copied[b] + 1].name /\ copied[b] \in Nat
      BY <2>1 DEF Current, IInv, TypeOK
    <2>3. CASE CopyDirectory(b) \/ FillFile(b)
      <3>1. copied'[b] = copied[b] + 1
        BY <1>2, <2>3 DEF CopyDirectory, FillFile, Return, Goto, IInv, TypeOK
      <3> QED
        BY <2>2, <3>1 DEF OwnPaths, OwnSteps
    <2>4. CASE CreateFile(b) \/ GiveUp(b)
      <3>1. pc'[b] = "filling" /\ copied'[b] = copied[b]
        BY <2>4 DEF CreateFile, GiveUp, Return, Goto, IInv, TypeOK
      <3> QED
        BY <2>2, <3>1 DEF OwnPaths, OwnSteps
    <2>5. CASE RejectLink(b)
      BY <2>5 DEF RejectLink, Return, Goto, IInv, TypeOK
    <2> QED
      BY <2>1, <2>3, <2>4, <2>5 DEF Step, Plan, Refuse, Inspect, MakeDestination,
         ListDestination, CloseRuntime, MakeSnapshot, EndWalk, OpenManifest, WriteManifest, Walking
  <1> QED
    BY <1>1, <1>2

LEMMA AloneStep == IInv /\ [Next]_vars => AloneInv'
  <1> SUFFICES ASSUME IInv, [Next]_vars PROVE AloneInv'
    OBVIOUS
  <1>1. ASSUME NEW b \in Backups, Step(b), NEW c \in Backups, NEW d \in Backups, c # d,
               Running(c)', Running(d)'
        PROVE  d \in met'[c]
    <2>1. CASE Running(c) /\ Running(d)
      <3>1. d \in met[c]
        BY <1>1, <2>1 DEF IInv, AloneInv
      <3>2. met[c] \subseteq met'[c]
        BY <1>1, <2>1 DEF Step, IInv, TypeOK, Plan, Refuse, Inspect, MakeDestination,
           ListDestination, CloseRuntime, MakeSnapshot, CopyDirectory, RejectLink, CreateFile,
           FillFile, EndWalk, OpenManifest, WriteManifest, GiveUp, Running
      <3> QED
        BY <3>1, <3>2
    <2>2. CASE ~(Running(c) /\ Running(d))
      <3>1. c = b \/ Running(c)
        BY <1>1, OthersAreLeftAlone DEF Running, IInv
      <3>2. d = b \/ Running(d)
        BY <1>1, OthersAreLeftAlone DEF Running, IInv
      <3>3. ~Running(b)
        BY <2>2, <3>1, <3>2
      <3>4. Running(b)'
        BY <1>1, <2>2, <3>1, <3>2
      <3>5. Plan(b)
        BY <1>1, <3>3, <3>4 DEF Step, Refuse, Inspect, MakeDestination, ListDestination,
           CloseRuntime, MakeSnapshot, CopyDirectory, RejectLink, CreateFile, FillFile, EndWalk,
           OpenManifest, WriteManifest, GiveUp, Running, Walking
      <3>6. \A x \in Backups : met'[x] = IF x = b THEN {y \in Backups : Running(y)}
                                         ELSE IF x \in {y \in Backups : Running(y)}
                                              THEN met[x] \cup {b} ELSE met[x]
        BY <3>5 DEF Plan
      <3> QED
        <4>1. CASE c = b
          BY <1>1, <3>2, <3>6, <4>1
        <4>2. CASE d = b
          BY <1>1, <3>1, <3>6, <4>2
        <4> QED
          BY <2>2, <3>1, <3>2, <4>1, <4>2
    <2> QED
      BY <2>1, <2>2
  <1> DEFINE Alone(c) ==
        /\ pc[c] = "make" => place = "absent"
        /\ pc[c] \in Writing \/ ran[c] = "ok" => DOMAIN disk \subseteq OwnPaths(c)
        /\ ran[c] = "ok" =>
             /\ place = "directory" /\ ManifestPath \in DOMAIN disk
             /\ \A d \in Backups : pc[d] \notin Writing \cup {"make"}
  \* The backup that takes the step.
  <1>2. ASSUME NEW b \in Backups, Step(b), met'[b] = {} PROVE Alone(b)'
    <2>1. CASE Plan(b)
      BY <2>1 DEF Plan, Goto, Writing, IInv, TypeOK, ProgressInv
    <2>2. CASE ~Plan(b)
      <3>1. met[b] = {} /\ source'[b] = source[b] /\ Running(b)
        BY <1>2, <2>2 DEF Step, Refuse, Inspect, MakeDestination, ListDestination,
           CloseRuntime, MakeSnapshot, CopyDirectory, RejectLink, CreateFile, FillFile, EndWalk,
           OpenManifest, WriteManifest, GiveUp, Running, Walking
      <3>2. Alone(b)
        BY <3>1 DEF IInv, AloneInv
      <3>3. \A d \in Backups : d # b => ~Running(d) /\ pc'[d] = pc[d]
        BY <1>2, <3>1, OthersAreLeftAlone DEF IInv, AloneInv
      <3>4. pc'[b] = "make" => place' = "absent"
        BY <1>2, <2>2 DEF Step, Refuse, Inspect, MakeDestination, ListDestination,
           CloseRuntime, MakeSnapshot, CopyDirectory, RejectLink, CreateFile, FillFile, EndWalk,
           OpenManifest, WriteManifest, GiveUp, Return, Goto, Walking, IInv, TypeOK
      <3>5. pc'[b] \in Writing \/ ran'[b] = "ok" => DOMAIN disk' \subseteq OwnPaths(b)'
        <4> SUFFICES ASSUME pc'[b] \in Writing \/ ran'[b] = "ok"
                     PROVE  DOMAIN disk' \subseteq OwnPaths(b)'
          OBVIOUS
        <4>1. DOMAIN disk \subseteq OwnPaths(b)'
          <5>1. CASE MakeDestination(b) \/ ListDestination(b)
            <6>1. DOMAIN disk = {}
              BY <3>2, <5>1 DEF MakeDestination, ListDestination, Vacant, Return, Goto, Writing,
                 IInv, DiskInv, TypeOK, ProgressInv
            <6> QED
              BY <6>1
          <5>2. CASE ~(MakeDestination(b) \/ ListDestination(b))
            <6>1. pc[b] \in Writing
              BY <1>2, <2>2, <5>2 DEF Step, Refuse, Inspect, CloseRuntime, MakeSnapshot,
                 CopyDirectory, RejectLink, CreateFile, FillFile, EndWalk, OpenManifest,
                 WriteManifest, GiveUp, Return, Goto, Walking, Writing, IInv, TypeOK, ProgressInv
            <6>2. OwnSteps(b) \subseteq OwnSteps(b)'
              <7>1. copied[b] \in Nat
                BY DEF IInv, TypeOK
              <7>2. CASE pc[b] = "filling"
                <8>1. FillFile(b) \/ GiveUp(b)
                  BY <1>2, <2>2, <5>2, <7>2 DEF Step, Refuse, Inspect, CloseRuntime, MakeSnapshot,
                     CopyDirectory, RejectLink, CreateFile, EndWalk, OpenManifest, WriteManifest,
                     Walking
                <8>2. copied'[b] = copied[b] + 1
                  BY <8>1 DEF FillFile, GiveUp, Return, Goto, Writing, IInv, TypeOK
                <8> QED
                  BY <7>1, <7>2, <8>2 DEF OwnSteps
              <7>3. CASE pc[b] # "filling"
                <8>1. copied'[b] \in {copied[b], copied[b] + 1}
                  BY <1>2, ProgressFacts
                <8> QED
                  BY <7>1, <7>3, <8>1 DEF OwnSteps
              <7> QED
                BY <7>2, <7>3
            <6> QED
              BY <3>1, <3>2, <6>1, <6>2 DEF OwnPaths
          <5> QED
            BY <5>1, <5>2
        <4>2. pc'[b] # "done" \/ ran'[b] = "ok"
          BY DEF Writing
        <4>3. ASSUME NEW path, NEW entry, Writes(b, path, entry), Put(path, entry)
              PROVE  DOMAIN disk' \subseteq OwnPaths(b)'
          <5>1. path \in OwnPaths(b)'
            BY <1>2, <3>1, <4>2, <4>3, OwnWrites
          <5>2. DOMAIN disk' = DOMAIN disk \cup {path}
            BY <4>3, PutFacts
          <5> QED
            BY <4>1, <5>1, <5>2
        <4> QED
          BY <1>2, <4>1, <4>3, StepWrites
      <3>6. ran'[b] = "ok" => WriteManifest(b)
        BY <1>2, <2>2, <3>1 DEF Step, Refuse, Inspect, MakeDestination, ListDestination,
           CloseRuntime, MakeSnapshot, CopyDirectory, RejectLink, CreateFile, FillFile, EndWalk,
           OpenManifest, GiveUp, Return, Goto, Running, IInv, TypeOK, ProgressInv
      <3>7. CASE WriteManifest(b)
        <4>1. place' = "directory" /\ ManifestPath \in DOMAIN disk' /\ pc'[b] = "done"
          BY <3>7 DEF WriteManifest, Put, Return, Goto, Writing, IInv, TypeOK, DiskInv
        <4> QED
          BY <3>3, <3>4, <3>5, <4>1 DEF Running, Writing
      <3> QED
        BY <3>4, <3>5, <3>6, <3>7
    <2> QED
      BY <2>1, <2>2
  \* The others.
  <1>3. ASSUME NEW b \in Backups, Step(b), NEW c \in Backups, c # b, met'[c] = {}
        PROVE  Alone(c)'
    <2>1. /\ pc'[c] = pc[c] /\ source'[c] = source[c] /\ copied'[c] = copied[c]
          /\ ran'[c] = ran[c] /\ met[c] = {} /\ OwnPaths(c)' = OwnPaths(c)
      BY <1>3, OthersAreLeftAlone DEF IInv, OwnPaths, OwnSteps
    <2>2. Alone(c)
      BY <2>1 DEF IInv, AloneInv
    <2>3. CASE Running(c)
      <3>1. ~Running(b) 
        BY <1>3, <2>1, <2>3 DEF IInv, AloneInv
      <3>2. Plan(b)
        BY <1>3, <3>1 DEF Step, Refuse, Inspect, MakeDestination, ListDestination,
           CloseRuntime, MakeSnapshot, CopyDirectory, RejectLink, CreateFile, FillFile, EndWalk,
           OpenManifest, WriteManifest, GiveUp, Running, Walking
      <3>3. UNCHANGED <<place, disk>> /\ ran[c] = "no"
        BY <2>3, <3>2 DEF Plan, Running, IInv, ProgressInv
      <3> QED
        BY <2>1, <2>2, <3>3
    <2>4. CASE ran[c] = "ok"
      <3>1. pc[b] \notin Writing \cup {"make"} /\ place = "directory"
            /\ ManifestPath \in DOMAIN disk
        BY <2>2, <2>4
      <3>2. Plan(b) \/ Refuse(b) \/ Inspect(b) \/ ListDestination(b) \/ GiveUp(b)
        BY <1>3, <3>1 DEF Step, MakeDestination, CloseRuntime, MakeSnapshot, CopyDirectory,
           RejectLink, CreateFile, FillFile, EndWalk, OpenManifest, WriteManifest, Walking, Writing
      <3>3. UNCHANGED <<place, disk>>
        BY <3>1, <3>2 DEF Plan, Refuse, Inspect, ListDestination, GiveUp, Writing
      <3>4. pc'[b] \notin Writing \cup {"make"}
        BY <3>1, <3>2 DEF Plan, Refuse, Inspect, ListDestination, GiveUp, Writing, Vacant, Return,
           Goto, IInv, TypeOK
      <3>5. \A d \in Backups : pc'[d] \notin Writing \cup {"make"}
        BY <1>3, <2>2, <2>4, <3>4, OthersAreLeftAlone DEF IInv
      <3> QED
        BY <2>1, <2>2, <2>4, <3>3, <3>5
    <2>5. CASE ~Running(c) /\ ran[c] # "ok"
      BY <2>1, <2>5 DEF Running, Writing
    <2> QED
      BY <2>3, <2>4, <2>5
  <1>4. CASE \E b \in Backups : Step(b)
    BY <1>1, <1>2, <1>3, <1>4 DEF AloneInv
  <1>5. CASE UNCHANGED vars
    BY <1>5 DEF IInv, AloneInv, OwnPaths, OwnSteps, Running, vars
  <1> QED
    BY <1>4, <1>5 DEF Next

-----------------------------------------------------------------------------
(* The theorems. *)

LEMMA InitIInv == Init => IInv
  <1> SUFFICES ASSUME Init PROVE IInv
    OBVIOUS
  <1>1. TypeOK
    BY DEF Init, TypeOK, States, Paths, DiskEntries
  <1>2. ProgressInv /\ CopiedInv /\ AloneInv
    BY DEF Init, ProgressInv, CopiedInv, AloneInv, Steps, Running, Writing
  <1>3. DiskInv /\ WholeInv
    BY DEF Init, DiskInv, WholeInv, ManifestPath, Directory, Writing
  <1> QED
    BY <1>1, <1>2, <1>3 DEF IInv

LEMMA Inductive == Spec => []IInv
  <1>1. IInv /\ [Next]_vars => IInv'
    BY TypeOKStep, ProgressStep, DiskStep, CopiedStep, WholeStep, AloneStep DEF IInv
  <1> QED
    BY <1>1, InitIInv, PTL DEF Spec

\* Every variable stays in its range, for every set of backups and trees.
THEOREM TypeCorrect == Spec => []TypeOK
  BY Inductive, PTL DEF IInv

\* A manifest that can be read describes the snapshot beside it, and the snapshot
\* is all there is if its backup met no other.
THEOREM ManifestsAreTrue == Spec => []ManifestIsTrue
  <1>1. IInv => ManifestIsTrue
    <2> SUFFICES ASSUME IInv, ManifestPath \in DOMAIN disk, disk[ManifestPath].state = "whole",
                        NEW b, b = disk[ManifestPath].by
                 PROVE  /\ HasAll(b) /\ disk[ManifestPath].files = FilesOf(source[b], Steps(b))
                        /\ met[b] = {} => HasNoMore(b)
      BY DEF ManifestIsTrue
    <2>1. ran[b] = "ok" /\ disk[ManifestPath].files = FilesOf(source[b], Steps(b))
      BY DEF IInv, WholeInv
    <2>2. b \in Backups
      <3>1. disk[ManifestPath] \in DiskEntries /\ disk[ManifestPath].kind = "manifest"
        BY DEF IInv, TypeOK, DiskInv
      <3> QED
        BY <3>1, EntryFacts DEF DiskEntries
    <2>3. copied[b] = Steps(b) /\ pc[b] = "done"
      BY <2>1, <2>2 DEF IInv, ProgressInv
    <2>4. HasAll(b)
      BY <2>2, <2>3 DEF IInv, CopiedInv, HasAll
    <2>5. met[b] = {} => HasNoMore(b)
      BY <2>1, <2>2, <2>3 DEF IInv, AloneInv, OwnPaths, OwnSteps, HasNoMore
    <2> QED
      BY <2>1, <2>4, <2>5
  <1> QED
    BY <1>1, Inductive, PTL

\* What a backup that succeeded copied stays as it left it, and two that succeeded
\* copied no file to the same path.
THEOREM OneWriter == Spec => []OneWriterWins
  <1>1. ASSUME IInv, NEW b \in Backups, ran[b] = "ok" PROVE HasAll(b)
    BY <1>1 DEF IInv, ProgressInv, CopiedInv, HasAll
  <1>2. ASSUME IInv, NEW b \in Backups, NEW c \in Backups \ {b}, ran[b] = "ok", ran[c] = "ok",
               NEW n \in FilesOf(source[b], Steps(b)), n \in FilesOf(source[c], Steps(c))
        PROVE  FALSE
    <2>1. disk[n] = File(b, TRUE) /\ disk[n] = File(c, TRUE)
      <3>1. PICK i \in 1..Steps(b) : source[b][i].kind = "file" /\ n = source[b][i].name
        BY <1>2 DEF FilesOf
      <3>2. PICK j \in 1..Steps(c) : source[c][j].kind = "file" /\ n = source[c][j].name
        BY <1>2 DEF FilesOf
      <3>3. InPlace(b, i) /\ InPlace(c, j)
        BY <1>1, <1>2 DEF HasAll
      <3> QED
        BY <3>1, <3>2, <3>3 DEF InPlace
    <2> QED
      BY <1>2, <2>1, DistinctEntries
  <1>3. IInv => OneWriterWins
    BY <1>1, <1>2 DEF OneWriterWins
  <1> QED
    BY <1>3, Inductive, PTL

=============================================================================
