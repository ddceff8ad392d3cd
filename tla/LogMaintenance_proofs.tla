------------------------ MODULE LogMaintenance_proofs ------------------------
(***************************************************************************)
(* Proofs about LogMaintenance for any collections, segments, requests and *)
(* sizes, and for any bounds on the sequence ids and on time.              *)
(***************************************************************************)
EXTENDS LogMaintenance, FiniteSetTheorems, WellFoundedInduction, TLAPS

USE CollectionsAssumption, SegmentsAssumption, BoundsAssumption, RequestsAssumption

\* A policy only selects rows it was given.
LEMMA SelectedAreRows ==
  ASSUME NEW rows, NEW p PROVE Selected(rows, p) \subseteq rows
  BY DEF Selected

\* A row selected by age counts as written earlier than the age allows.
LEMMA SelectedAreOld ==
  ASSUME NEW rows \in SUBSET Rows, NEW p, p.maxAge # None, NEW r \in Selected(rows, p)
  PROVE  CreatedAtSecs(r) < clockRead - p.maxAge
  BY DEF Selected, OlderThan, Rows

\* The candidates of a collection are rows of its log.
LEMMA CandidatesAreRows ==
  ASSUME TypeOK, NEW c \in Collections
  PROVE  Candidates(c) \in SUBSET Rows /\ Candidates(c) \subseteq log[c]
  BY DEF Candidates, TypeOK

\* Purging through candidates removes nothing a segment has not persisted.
LEMMA PurgeIsSafe ==
  ASSUME TypeOK, NEW c \in Collections, NEW s \in Segments,
         NEW rows \in SUBSET Candidates(c), NEW r \in log[c], r \notin PurgeThrough(c, rows)
  PROVE  r.seq < applied[c][s]
  BY DEF TypeOK, PurgeThrough, Candidates, SafeToPrune, Rows

\* Filling in the result entry of a collection keeps the type of the results.
LEMMA EntryKeepsType ==
  ASSUME results \in [Collections -> ResultType \cup {None}], NEW c \in Collections,
         NEW entry \in ResultType,
         results' = results \/ results' = [results EXCEPT ![c] = entry]
  PROVE  results' \in [Collections -> ResultType \cup {None}]
  OBVIOUS

\* The invariant holds in a new database.
THEOREM InitIInv == Init => IInv
  <1> SUFFICES ASSUME Init PROVE IInv
    OBVIOUS
  <1>1. TypeOK
    <2>1. now \in 0..MaxTime /\ behind \in 0..now /\ lastSeq \in 0..MaxSeq
      BY DEF Init
    <2>2. applied \in [Collections -> [Segments -> 0..MaxSeq]]
      BY DEF Init
    <2>3. recorded \in [Collections -> [Segments -> BOOLEAN]]
      BY DEF Init
    <2>4. log \in [Collections -> SUBSET Rows] /\ written \in [Collections -> SUBSET Rows]
            /\ logBefore \in [Collections -> SUBSET Rows]
      BY DEF Init, NoRows
    <2>5. results \in [Collections -> ResultType \cup {None}]
      BY DEF Init, NoResults
    <2>6. clockRead \in Int /\ startedAt \in 0..MaxTime /\ prunedTotal \in Nat
      BY DEF Init
    <2> QED
      BY <2>1, <2>2, <2>3, <2>4, <2>5, <2>6 DEF Init, TypeOK, Outcomes
  <1>2. FiniteLog
    BY FS_EmptySet DEF Init, FiniteLog, NoRows
  <1> QED
    BY <1>1, <1>2 DEF Init, IInv, Idle, Busy, Stamps, NothingDeletedYet, Recoverable,
                      KnownAreOld, ErrorDeletesNothing, NoRows, NoResults

\* A write extends log and history alike, between the operations.
LEMMA WritePreserves ==
  ASSUME IInv, NEW c \in Collections, Write(c)
  PROVE  IInv'
  <1> USE DEF Write, clock, store, progress, reading, response, IInv, TypeOK
  <1>1. TypeOK'
    BY DEF Rows, ResultType, Outcomes, NoRows, NoResults, Busy, RequestType
  <1>2. Idle'
    BY DEF Idle, Busy, NoResults
  <1>3. Busy'
    BY DEF Idle, Busy, NoResults, RequestType
  <1>4. FiniteLog'
    <2> PICK row : log' = [log EXCEPT ![c] = @ \cup {row}] /\ written' = [written EXCEPT ![c] = @ \cup {row}]
      OBVIOUS
    <2> SUFFICES ASSUME NEW d \in Collections
                 PROVE  log'[d] \subseteq written'[d] /\ IsFiniteSet(log'[d])
      BY DEF FiniteLog
    <2>1. log[d] \subseteq written[d] /\ IsFiniteSet(log[d])
      BY DEF FiniteLog
    <2>2. log'[d] = log[d] \/ log'[d] = log[d] \cup {row}
      OBVIOUS
    <2>3. IsFiniteSet(log'[d])
      BY <2>1, <2>2, FS_AddElement
    <2> QED
      BY <2>1, <2>3
  <1>5. Stamps'
    BY DEF Stamps, Rows, Busy
  <1>6. NothingDeletedYet'
    BY DEF NothingDeletedYet, Busy, Idle, RequestType
  <1>7. Recoverable'
    BY DEF Recoverable, Rows
  <1>8. KnownAreOld'
    BY DEF KnownAreOld, Idle, Busy, NoResults
  <1>9. ErrorDeletesNothing'
    BY DEF ErrorDeletesNothing, NothingDeletedYet, Busy, Idle, RequestType
  <1> QED
    BY <1>1, <1>2, <1>3, <1>4, <1>5, <1>6, <1>7, <1>8, <1>9

\* A segment that catches up needs fewer rows of the log.
LEMMA ApplyPreserves ==
  ASSUME IInv, NEW c \in Collections, NEW s \in Segments, Apply(c, s)
  PROVE  IInv'
  <1> USE DEF Apply, clock, store, progress, reading, response, IInv, TypeOK
  <1>1. TypeOK'
    BY DEF Rows, ResultType, Outcomes, NoRows, NoResults, Busy, RequestType
  <1>2. Idle'
    BY DEF Idle, Busy, NoResults
  <1>3. Busy'
    BY DEF Idle, Busy, NoResults, RequestType
  <1>4. FiniteLog'
    BY DEF FiniteLog
  <1>5. Stamps'
    BY DEF Stamps, Rows, Busy
  <1>6. NothingDeletedYet'
    BY DEF NothingDeletedYet, Busy, Idle, RequestType
  <1>7. Recoverable'
    BY DEF Recoverable, Rows
  <1>8. KnownAreOld'
    BY DEF KnownAreOld, Idle, Busy, NoResults
  <1>9. ErrorDeletesNothing'
    BY DEF ErrorDeletesNothing, NothingDeletedYet, Busy, Idle, RequestType
  <1> QED
    BY <1>1, <1>2, <1>3, <1>4, <1>5, <1>6, <1>7, <1>8, <1>9

\* Time passes.
LEMMA TickPreserves ==
  ASSUME IInv, Tick
  PROVE  IInv'
  <1> USE DEF Tick, clock, store, progress, reading, response, IInv, TypeOK
  <1>1. TypeOK'
    BY DEF Rows, ResultType, Outcomes, NoRows, NoResults, Busy, RequestType
  <1>2. Idle'
    BY DEF Idle, Busy, NoResults
  <1>3. Busy'
    BY DEF Idle, Busy, NoResults, RequestType
  <1>4. FiniteLog'
    BY DEF FiniteLog
  <1>5. Stamps'
    BY DEF Stamps, Rows, Busy
  <1>6. NothingDeletedYet'
    BY DEF NothingDeletedYet, Busy, Idle, RequestType
  <1>7. Recoverable'
    BY DEF Recoverable, Rows
  <1>8. KnownAreOld'
    BY DEF KnownAreOld, Idle, Busy, NoResults
  <1>9. ErrorDeletesNothing'
    BY DEF ErrorDeletesNothing, NothingDeletedYet, Busy, Idle, RequestType
  <1> QED
    BY <1>1, <1>2, <1>3, <1>4, <1>5, <1>6, <1>7, <1>8, <1>9

\* Setting the clock back makes rows look younger, never older.
LEMMA SetClockBackPreserves ==
  ASSUME IInv, SetClockBack
  PROVE  IInv'
  <1> USE DEF SetClockBack, clock, store, progress, reading, response, IInv, TypeOK
  <1>1. TypeOK'
    BY DEF Rows, ResultType, Outcomes, NoRows, NoResults, Busy, RequestType
  <1>2. Idle'
    BY DEF Idle, Busy, NoResults
  <1>3. Busy'
    BY DEF Idle, Busy, NoResults, RequestType
  <1>4. FiniteLog'
    BY DEF FiniteLog
  <1>5. Stamps'
    BY DEF Stamps, Rows, Busy
  <1>6. NothingDeletedYet'
    BY DEF NothingDeletedYet, Busy, Idle, RequestType
  <1>7. Recoverable'
    BY DEF Recoverable, Rows
  <1>8. KnownAreOld'
    BY DEF KnownAreOld, Idle, Busy, NoResults
  <1>9. ErrorDeletesNothing'
    BY DEF ErrorDeletesNothing, NothingDeletedYet, Busy, Idle, RequestType
  <1> QED
    BY <1>1, <1>2, <1>3, <1>4, <1>5, <1>6, <1>7, <1>8, <1>9

\* An operation begins with nothing deleted and no result.
LEMMA BeginPreserves ==
  ASSUME IInv, NEW r \in Requests, NEW scope \in ScopesOf(r), Begin(r, scope)
  PROVE  IInv'
  <1> USE DEF Begin, Finish, ScopesOf, InDatabase, clock, store, progress, reading, response,
              IInv, TypeOK
  <1>1. TypeOK'
    BY DEF Rows, ResultType, Outcomes, NoRows, NoResults, Busy, RequestType
  <1>2. Idle'
    BY DEF Idle, Busy, NoResults
  <1>3. Busy'
    <2>1. ~r.all => \E c \in Collections : scope = {c}
      OBVIOUS
    <2> QED
      BY <2>1 DEF Idle, Busy, NoResults
  <1>4. FiniteLog'
    BY DEF FiniteLog
  <1>5. Stamps'
    BY DEF Stamps, Rows, Busy
  <1>6. NothingDeletedYet'
    BY DEF NothingDeletedYet, Busy, Idle, RequestType
  <1>7. Recoverable'
    BY DEF Recoverable, Rows
  <1>8. KnownAreOld'
    BY DEF KnownAreOld, Idle, Busy, NoResults
  <1>9. ErrorDeletesNothing'
    BY DEF ErrorDeletesNothing, NothingDeletedYet, Busy, Idle, RequestType
  <1> QED
    BY <1>1, <1>2, <1>3, <1>4, <1>5, <1>6, <1>7, <1>8, <1>9

\* A refused request has deleted nothing.
LEMMA RefusePreserves ==
  ASSUME IInv, NEW r \in Requests, Refuse(r)
  PROVE  IInv'
  <1> USE DEF Refuse, Finish, clock, store, progress, reading, response, IInv, TypeOK
  <1>1. TypeOK'
    BY DEF Rows, ResultType, Outcomes, NoRows, NoResults, Busy, RequestType
  <1>2. Idle'
    BY DEF Idle, Busy, NoResults
  <1>3. Busy'
    BY DEF Idle, Busy, NoResults, RequestType
  <1>4. FiniteLog'
    BY DEF FiniteLog
  <1>5. Stamps'
    BY DEF Stamps, Rows, Busy
  <1>6. NothingDeletedYet'
    BY DEF NothingDeletedYet, Busy, Idle, RequestType
  <1>7. Recoverable'
    BY DEF Recoverable, Rows
  <1>8. KnownAreOld'
    BY DEF KnownAreOld, Idle, Busy, NoResults
  <1>9. ErrorDeletesNothing'
    BY DEF ErrorDeletesNothing, NothingDeletedYet, Busy, Idle, RequestType
  <1> QED
    BY <1>1, <1>2, <1>3, <1>4, <1>5, <1>6, <1>7, <1>8, <1>9

\* The migration only adds rows to max_seq_id.
LEMMA MigratePreserves ==
  ASSUME IInv, Migrate
  PROVE  IInv'
  <1> USE DEF Migrate, MigrateOnly, NeedsMigration, clock, store, progress, reading, response,
              IInv, TypeOK
  <1>1. TypeOK'
    BY DEF Rows, ResultType, Outcomes, NoRows, NoResults, Busy, RequestType
  <1>2. Idle'
    BY DEF Idle, Busy, NoResults
  <1>3. Busy'
    BY DEF Idle, Busy, NoResults, RequestType
  <1>4. FiniteLog'
    BY DEF FiniteLog
  <1>5. Stamps'
    BY DEF Stamps, Rows, Busy
  <1>6. NothingDeletedYet'
    BY DEF NothingDeletedYet, Busy, Idle, RequestType
  <1>7. Recoverable'
    BY DEF Recoverable, Rows
  <1>8. KnownAreOld'
    BY DEF KnownAreOld, Idle, Busy, NoResults
  <1>9. ErrorDeletesNothing'
    BY DEF ErrorDeletesNothing, NothingDeletedYet, Busy, Idle, RequestType
  <1> QED
    BY <1>1, <1>2, <1>3, <1>4, <1>5, <1>6, <1>7, <1>8, <1>9

\* A migration that stops half-way has deleted nothing.
LEMMA MigrateFailsPreserves ==
  ASSUME IInv, NEW c \in Collections, MigrateFails(c)
  PROVE  IInv'
  <1> USE DEF MigrateFails, MigrateOnly, NeedsMigration, Finish, clock, store, progress,
              reading, response, IInv, TypeOK
  <1>1. TypeOK'
    BY DEF Rows, ResultType, Outcomes, NoRows, NoResults, Busy, RequestType
  <1>2. Idle'
    BY DEF Idle, Busy, NoResults
  <1>3. Busy'
    BY DEF Idle, Busy, NoResults, RequestType
  <1>4. FiniteLog'
    BY DEF FiniteLog
  <1>5. Stamps'
    BY DEF Stamps, Rows, Busy
  <1>6. NothingDeletedYet'
    BY DEF NothingDeletedYet, Busy, Idle, RequestType
  <1>7. Recoverable'
    BY DEF Recoverable, Rows
  <1>8. KnownAreOld'
    BY DEF KnownAreOld, Idle, Busy, NoResults
  <1>9. ErrorDeletesNothing'
    BY DEF ErrorDeletesNothing, NothingDeletedYet, Busy, Idle, RequestType
  <1> QED
    BY <1>1, <1>2, <1>3, <1>4, <1>5, <1>6, <1>7, <1>8, <1>9

\* An operation that ends before its first target has deleted nothing.
LEMMA ConfigureFailsPreserves ==
  ASSUME IInv, ConfigureFails
  PROVE  IInv'
  <1> USE DEF ConfigureFails, MigrateOnly, NeedsMigration, Finish, clock, store, progress,
              reading, response, IInv, TypeOK
  <1>1. TypeOK'
    BY DEF Rows, ResultType, Outcomes, NoRows, NoResults, Busy, RequestType
  <1>2. Idle'
    BY DEF Idle, Busy, NoResults
  <1>3. Busy'
    BY DEF Idle, Busy, NoResults, RequestType
  <1>4. FiniteLog'
    BY DEF FiniteLog
  <1>5. Stamps'
    BY DEF Stamps, Rows, Busy
  <1>6. NothingDeletedYet'
    BY DEF NothingDeletedYet, Busy, Idle, RequestType
  <1>7. Recoverable'
    BY DEF Recoverable, Rows
  <1>8. KnownAreOld'
    BY DEF KnownAreOld, Idle, Busy, NoResults
  <1>9. ErrorDeletesNothing'
    BY DEF ErrorDeletesNothing, NothingDeletedYet, Busy, Idle, RequestType
  <1> QED
    BY <1>1, <1>2, <1>3, <1>4, <1>5, <1>6, <1>7, <1>8, <1>9

\* A prune deletes candidates only, which every segment has persisted.
LEMMA PrunePreserves ==
  ASSUME IInv, NEW c \in Collections, Prune(c)
  PROVE  IInv'
  <1> USE DEF Prune, Working, Record, Deletes, clock, store, progress, reading, response, IInv,
              TypeOK
  <1>1. TypeOK'
    <2> DEFINE rows == Selected(Candidates(c), request.policy)
    <2>1. rows \in SUBSET Rows /\ Candidates(c) \in SUBSET Rows /\ rows \subseteq log[c]
      BY SelectedAreRows, CandidatesAreRows
    <2>2. Cardinality(rows) \in Nat
      BY <2>1, FS_Subset, FS_CardinalityType DEF FiniteLog
    <2> HIDE DEF rows
    <2>3. log' \in [Collections -> SUBSET Rows]
      BY DEF PurgeThrough, rows
    <2>4. results' \in [Collections -> ResultType \cup {None}]
      BY <2>1 DEF ResultType, Done, rows
    <2>5. prunedTotal' \in Nat
      BY <2>2 DEF rows
    <2> QED
      BY <2>3, <2>4, <2>5
  <1>2. Idle'
    BY DEF Idle, Busy, NoResults
  <1>3. Busy'
    BY DEF Idle, Busy, NoResults, RequestType
  <1>4. FiniteLog'
    <2> SUFFICES ASSUME NEW d \in Collections
                 PROVE  log'[d] \subseteq written'[d] /\ IsFiniteSet(log'[d])
      BY DEF FiniteLog
    <2>1. log[d] \subseteq written[d] /\ IsFiniteSet(log[d])
      BY DEF FiniteLog
    <2>2. log'[d] \subseteq log[d]
      BY DEF PurgeThrough
    <2> QED
      BY <2>1, <2>2, FS_Subset
  <1>5. Stamps'
    BY DEF Stamps, Rows, Busy
  <1>6. NothingDeletedYet'
    BY DEF NothingDeletedYet, Busy, Idle, RequestType
  <1>7. Recoverable'
    <2> DEFINE rows == Selected(Candidates(c), request.policy)
    <2>1. rows \in SUBSET Candidates(c)
      BY SelectedAreRows
    <2> HIDE DEF rows
    <2> SUFFICES ASSUME NEW d \in Collections, NEW s \in Segments, NEW r \in written[d],
                        r.seq > applied[d][s]
                 PROVE  r \in log'[d]
      BY DEF Recoverable
    <2>2. r \in log[d]
      BY DEF Recoverable
    <2>3. CASE d = c /\ log' = [log EXCEPT ![c] = PurgeThrough(c, rows)]
      <3>1. r \in Rows /\ applied[c][s] \in 0..MaxSeq
        BY <2>3
      <3>2. r \in PurgeThrough(c, rows)
        <4> SUFFICES ASSUME r \notin PurgeThrough(c, rows) PROVE FALSE
          OBVIOUS
        <4>1. r \in log[c] /\ r.seq > applied[c][s]
          BY <2>2, <2>3
        <4>2. r.seq < applied[c][s]
          BY <2>1, <4>1, PurgeIsSafe
        <4>3. r.seq \in Int /\ applied[c][s] \in Int
          BY <3>1 DEF Rows
        <4> QED
          BY <4>1, <4>2, <4>3
      <3> QED
        BY <2>3, <3>2
    <2>4. CASE d # c \/ log' = log
      BY <2>2, <2>4
    <2> QED
      BY <2>3, <2>4 DEF rows
  <1>8. KnownAreOld'
    <2> DEFINE rows == Selected(Candidates(c), request.policy)
    <2>1. rows \in SUBSET Rows /\ rows \subseteq written[c]
      BY SelectedAreRows, CandidatesAreRows DEF FiniteLog
    <2>2. ASSUME request.policy.maxAge # None, NEW r \in rows, r.created # None
          PROVE  startedAt - r.made > request.policy.maxAge
      <3>1. r.created < clockRead - request.policy.maxAge
        BY <2>2, SelectedAreOld, CandidatesAreRows DEF CreatedAtSecs
      <3>2. r.made - r.created <= startedAt - clockRead
        BY <2>1, <2>2 DEF Stamps
      <3>3. request.policy.maxAge \in Nat /\ r.created \in Int /\ r.made \in Int
        BY <2>1, <2>2 DEF Busy, RequestType, PolicyType, Limit, Rows
      <3> QED
        BY <3>1, <3>2, <3>3
    <2> HIDE DEF rows
    <2>3. results' = [results EXCEPT ![c] = Done(Candidates(c), rows)] /\ Done(Candidates(c), rows).pruned = rows
      BY DEF rows, Done
    <2> QED
      BY <2>2, <2>3 DEF KnownAreOld, ResultType
  <1>9. ErrorDeletesNothing'
    BY DEF ErrorDeletesNothing, NothingDeletedYet, Busy, Idle, RequestType
  <1> QED
    BY <1>1, <1>2, <1>3, <1>4, <1>5, <1>6, <1>7, <1>8, <1>9

\* A collection that cannot be read keeps its rows.
LEMMA PruneCannotReadPreserves ==
  ASSUME IInv, NEW c \in Collections, PruneCannotRead(c)
  PROVE  IInv'
  <1> USE DEF PruneCannotRead, Working, FailOne, Record, Finish, clock, store, progress,
              reading, response, IInv, TypeOK
  <1>1. TypeOK'
    <2>1. {} \in SUBSET Rows
      BY CandidatesAreRows
    <2>2. results' \in [Collections -> ResultType \cup {None}]
      <3> DEFINE entry == [error |-> TRUE, candidates |-> {}, pruned |-> {}, spanned |-> {}]
      <3>1. entry \in ResultType
        BY <2>1 DEF ResultType
      <3>2. results' = results \/ results' = [results EXCEPT ![c] = entry]
        OBVIOUS
      <3> HIDE DEF entry
      <3> QED
        BY <3>1, <3>2, EntryKeepsType
    <2>3. todo' \subseteq Collections /\ current' \in todo' \cup {None}
      OBVIOUS
    <2> QED
      BY <2>2, <2>3 DEF Outcomes
  <1>2. Idle'
    BY DEF Idle, Busy, NoResults
  <1>3. Busy'
    BY DEF Idle, Busy, NoResults, RequestType
  <1>4. FiniteLog'
    BY DEF FiniteLog
  <1>5. Stamps'
    BY DEF Stamps, Rows, Busy
  <1>6. NothingDeletedYet'
    BY DEF NothingDeletedYet, Busy, Idle, RequestType
  <1>7. Recoverable'
    BY DEF Recoverable, Rows
  <1>8. KnownAreOld'
    <2>1. results' = results \/ results' = [results EXCEPT ![c] = [error |-> TRUE, candidates |-> {}, pruned |-> {}, spanned |-> {}]]
      OBVIOUS
    <2> QED
      BY <2>1 DEF KnownAreOld, ResultType
  <1>9. ErrorDeletesNothing'
    BY DEF ErrorDeletesNothing, NothingDeletedYet, Busy, Idle, RequestType
  <1> QED
    BY <1>1, <1>2, <1>3, <1>4, <1>5, <1>6, <1>7, <1>8, <1>9

\* A collection that cannot be purged keeps its rows.
LEMMA PruneCannotPurgePreserves ==
  ASSUME IInv, NEW c \in Collections, PruneCannotPurge(c)
  PROVE  IInv'
  <1> USE DEF PruneCannotPurge, Working, PurgeFailed, FailOne, Record, Finish, clock, store,
              progress, reading, response, IInv, TypeOK
  <1>1. TypeOK'
    <2> DEFINE rows == Selected(Candidates(c), request.policy)
    <2>1. Candidates(c) \in SUBSET Rows /\ rows \in SUBSET Rows
      BY CandidatesAreRows, SelectedAreRows
    <2>2. results' \in [Collections -> ResultType \cup {None}]
      <3> DEFINE entry == [error |-> TRUE, candidates |-> Candidates(c), pruned |-> {}, spanned |-> rows]
      <3>1. entry \in ResultType
        BY <2>1 DEF ResultType
      <3>2. results' = results \/ results' = [results EXCEPT ![c] = entry]
        OBVIOUS
      <3> HIDE DEF entry
      <3> QED
        BY <3>1, <3>2, EntryKeepsType
    <2>3. todo' \subseteq Collections /\ current' \in todo' \cup {None}
      OBVIOUS
    <2> QED
      BY <2>2, <2>3 DEF Outcomes
  <1>2. Idle'
    BY DEF Idle, Busy, NoResults
  <1>3. Busy'
    BY DEF Idle, Busy, NoResults, RequestType
  <1>4. FiniteLog'
    BY DEF FiniteLog
  <1>5. Stamps'
    BY DEF Stamps, Rows, Busy
  <1>6. NothingDeletedYet'
    BY DEF NothingDeletedYet, Busy, Idle, RequestType
  <1>7. Recoverable'
    BY DEF Recoverable, Rows
  <1>8. KnownAreOld'
    <2> DEFINE rows == Selected(Candidates(c), request.policy)
    <2>1. results' = results \/ results' = [results EXCEPT ![c] = [error |-> TRUE, candidates |-> Candidates(c), pruned |-> {}, spanned |-> rows]]
      OBVIOUS
    <2> QED
      BY <2>1 DEF KnownAreOld, ResultType
  <1>9. ErrorDeletesNothing'
    BY DEF ErrorDeletesNothing, NothingDeletedYet, Busy, Idle, RequestType
  <1> QED
    BY <1>1, <1>2, <1>3, <1>4, <1>5, <1>6, <1>7, <1>8, <1>9

\* A backfill moves segments forward.
LEMMA BackfillPreserves ==
  ASSUME IInv, NEW c \in Collections, Backfill(c)
  PROVE  IInv'
  <1> USE DEF Backfill, Working, clock, store, progress, reading, response, IInv, TypeOK
  <1>1. TypeOK'
    BY DEF Rows, ResultType, Outcomes, NoRows, NoResults, Busy, RequestType
  <1>2. Idle'
    BY DEF Idle, Busy, NoResults
  <1>3. Busy'
    BY DEF Idle, Busy, NoResults, RequestType
  <1>4. FiniteLog'
    BY DEF FiniteLog
  <1>5. Stamps'
    BY DEF Stamps, Rows, Busy
  <1>6. NothingDeletedYet'
    BY DEF NothingDeletedYet, Busy, Idle, RequestType
  <1>7. Recoverable'
    BY DEF Recoverable, Rows
  <1>8. KnownAreOld'
    BY DEF KnownAreOld, Idle, Busy, NoResults
  <1>9. ErrorDeletesNothing'
    BY DEF ErrorDeletesNothing, NothingDeletedYet, Busy, Idle, RequestType
  <1> QED
    BY <1>1, <1>2, <1>3, <1>4, <1>5, <1>6, <1>7, <1>8, <1>9

\* A failed backfill deletes nothing.
LEMMA BackfillFailsPreserves ==
  ASSUME IInv, NEW c \in Collections, BackfillFails(c)
  PROVE  IInv'
  <1> USE DEF BackfillFails, Working, FailOne, Record, Finish, clock, store, progress, reading,
              response, IInv, TypeOK
  <1>1. TypeOK'
    <2>1. {} \in SUBSET Rows
      BY CandidatesAreRows
    <2>2. results' \in [Collections -> ResultType \cup {None}]
      <3> DEFINE entry == [error |-> TRUE, candidates |-> {}, pruned |-> {}, spanned |-> {}]
      <3>1. entry \in ResultType
        BY <2>1 DEF ResultType
      <3>2. results' = results \/ results' = [results EXCEPT ![c] = entry]
        OBVIOUS
      <3> HIDE DEF entry
      <3> QED
        BY <3>1, <3>2, EntryKeepsType
    <2>3. todo' \subseteq Collections /\ current' \in todo' \cup {None}
      OBVIOUS
    <2> QED
      BY <2>2, <2>3 DEF Outcomes
  <1>2. Idle'
    BY DEF Idle, Busy, NoResults
  <1>3. Busy'
    BY DEF Idle, Busy, NoResults, RequestType
  <1>4. FiniteLog'
    BY DEF FiniteLog
  <1>5. Stamps'
    BY DEF Stamps, Rows, Busy
  <1>6. NothingDeletedYet'
    BY DEF NothingDeletedYet, Busy, Idle, RequestType
  <1>7. Recoverable'
    BY DEF Recoverable, Rows
  <1>8. KnownAreOld'
    <2>1. results' = results \/ results' = [results EXCEPT ![c] = [error |-> TRUE, candidates |-> {}, pruned |-> {}, spanned |-> {}]]
      OBVIOUS
    <2> QED
      BY <2>1 DEF KnownAreOld, ResultType
  <1>9. ErrorDeletesNothing'
    BY DEF ErrorDeletesNothing, NothingDeletedYet, Busy, Idle, RequestType
  <1> QED
    BY <1>1, <1>2, <1>3, <1>4, <1>5, <1>6, <1>7, <1>8, <1>9

\* The purge of a compaction deletes what every segment has applied.
LEMMA PurgeCompactedPreserves ==
  ASSUME IInv, NEW c \in Collections, PurgeCompacted(c)
  PROVE  IInv'
  <1> USE DEF PurgeCompacted, Record, Done, clock, store, progress, reading, response, IInv,
              TypeOK
  <1>1. TypeOK'
    BY DEF Rows, ResultType, Outcomes, NoRows, NoResults, Busy, RequestType
  <1>2. Idle'
    BY DEF Idle, Busy, NoResults
  <1>3. Busy'
    BY DEF Idle, Busy, NoResults, RequestType
  <1>4. FiniteLog'
    <2> SUFFICES ASSUME NEW d \in Collections
                 PROVE  log'[d] \subseteq written'[d] /\ IsFiniteSet(log'[d])
      BY DEF FiniteLog
    <2>1. log[d] \subseteq written[d] /\ IsFiniteSet(log[d])
      BY DEF FiniteLog
    <2>2. log'[d] \subseteq log[d]
      OBVIOUS
    <2> QED
      BY <2>1, <2>2, FS_Subset
  <1>5. Stamps'
    BY DEF Stamps, Rows, Busy
  <1>6. NothingDeletedYet'
    BY DEF NothingDeletedYet, Busy, Idle, RequestType
  <1>7. Recoverable'
    BY DEF Recoverable, Rows
  <1>8. KnownAreOld'
    BY DEF KnownAreOld, Idle, Busy, NoResults
  <1>9. ErrorDeletesNothing'
    BY DEF ErrorDeletesNothing, NothingDeletedYet, Busy, Idle, RequestType
  <1> QED
    BY <1>1, <1>2, <1>3, <1>4, <1>5, <1>6, <1>7, <1>8, <1>9

\* A failed purge deletes nothing.
LEMMA PurgeCompactedFailsPreserves ==
  ASSUME IInv, NEW c \in Collections, PurgeCompactedFails(c)
  PROVE  IInv'
  <1> USE DEF PurgeCompactedFails, FailOne, Record, Finish, clock, store, progress, reading,
              response, IInv, TypeOK
  <1>1. TypeOK'
    <2>1. {} \in SUBSET Rows
      BY CandidatesAreRows
    <2>2. results' \in [Collections -> ResultType \cup {None}]
      <3> DEFINE entry == [error |-> TRUE, candidates |-> {}, pruned |-> {}, spanned |-> {}]
      <3>1. entry \in ResultType
        BY <2>1 DEF ResultType
      <3>2. results' = results \/ results' = [results EXCEPT ![c] = entry]
        OBVIOUS
      <3> HIDE DEF entry
      <3> QED
        BY <3>1, <3>2, EntryKeepsType
    <2>3. todo' \subseteq Collections /\ current' \in todo' \cup {None}
      OBVIOUS
    <2> QED
      BY <2>2, <2>3 DEF Outcomes
  <1>2. Idle'
    BY DEF Idle, Busy, NoResults
  <1>3. Busy'
    BY DEF Idle, Busy, NoResults, RequestType
  <1>4. FiniteLog'
    BY DEF FiniteLog
  <1>5. Stamps'
    BY DEF Stamps, Rows, Busy
  <1>6. NothingDeletedYet'
    BY DEF NothingDeletedYet, Busy, Idle, RequestType
  <1>7. Recoverable'
    BY DEF Recoverable, Rows
  <1>8. KnownAreOld'
    <2>1. results' = results \/ results' = [results EXCEPT ![c] = [error |-> TRUE, candidates |-> {}, pruned |-> {}, spanned |-> {}]]
      OBVIOUS
    <2> QED
      BY <2>1 DEF KnownAreOld, ResultType
  <1>9. ErrorDeletesNothing'
    BY DEF ErrorDeletesNothing, NothingDeletedYet, Busy, Idle, RequestType
  <1> QED
    BY <1>1, <1>2, <1>3, <1>4, <1>5, <1>6, <1>7, <1>8, <1>9

\* A completed operation returns success.
LEMMA ReturnPreserves ==
  ASSUME IInv, Return
  PROVE  IInv'
  <1> USE DEF Return, Vacuums, VacuumFails, clock, store, progress, reading, response, IInv,
              TypeOK
  <1>1. TypeOK'
    BY DEF Rows, ResultType, Outcomes, NoRows, NoResults, Busy, RequestType
  <1>2. Idle'
    BY DEF Idle, Busy, NoResults
  <1>3. Busy'
    BY DEF Idle, Busy, NoResults, RequestType
  <1>4. FiniteLog'
    BY DEF FiniteLog
  <1>5. Stamps'
    BY DEF Stamps, Rows, Busy
  <1>6. NothingDeletedYet'
    BY DEF NothingDeletedYet, Busy, Idle, RequestType
  <1>7. Recoverable'
    BY DEF Recoverable, Rows
  <1>8. KnownAreOld'
    BY DEF KnownAreOld, Idle, Busy, NoResults
  <1>9. ErrorDeletesNothing'
    BY DEF ErrorDeletesNothing, NothingDeletedYet, Busy, Idle, RequestType
  <1> QED
    BY <1>1, <1>2, <1>3, <1>4, <1>5, <1>6, <1>7, <1>8, <1>9

\* A crash keeps the database as it is.
LEMMA CrashPreserves ==
  ASSUME IInv, Crash
  PROVE  IInv'
  <1> USE DEF Crash, Finish, clock, store, progress, reading, response, IInv, TypeOK
  <1>1. TypeOK'
    BY DEF Rows, ResultType, Outcomes, NoRows, NoResults, Busy, RequestType
  <1>2. Idle'
    BY DEF Idle, Busy, NoResults
  <1>3. Busy'
    BY DEF Idle, Busy, NoResults, RequestType
  <1>4. FiniteLog'
    BY DEF FiniteLog
  <1>5. Stamps'
    BY DEF Stamps, Rows, Busy
  <1>6. NothingDeletedYet'
    BY DEF NothingDeletedYet, Busy, Idle, RequestType
  <1>7. Recoverable'
    BY DEF Recoverable, Rows
  <1>8. KnownAreOld'
    BY DEF KnownAreOld, Idle, Busy, NoResults
  <1>9. ErrorDeletesNothing'
    BY DEF ErrorDeletesNothing, NothingDeletedYet, Busy, Idle, RequestType
  <1> QED
    BY <1>1, <1>2, <1>3, <1>4, <1>5, <1>6, <1>7, <1>8, <1>9

\* After the answer nothing is left of the operation.
LEMMA AcknowledgePreserves ==
  ASSUME IInv, Acknowledge
  PROVE  IInv'
  <1> USE DEF Acknowledge, clock, store, progress, reading, response, IInv, TypeOK
  <1>1. TypeOK'
    <2>1. logBefore' \in [Collections -> SUBSET Rows]
      BY DEF NoRows
    <2>2. results' \in [Collections -> ResultType \cup {None}]
      BY DEF NoResults
    <2>3. clockRead' \in Int /\ startedAt' \in 0..MaxTime /\ prunedTotal' \in Nat
      OBVIOUS
    <2> QED
      BY <2>1, <2>2, <2>3 DEF Outcomes
  <1>2. Idle'
    BY DEF Idle, Busy, NoResults
  <1>3. Busy'
    BY DEF Idle, Busy, NoResults, RequestType
  <1>4. FiniteLog'
    BY DEF FiniteLog
  <1>5. Stamps'
    BY DEF Stamps, Rows, Busy
  <1>6. NothingDeletedYet'
    BY DEF NothingDeletedYet, Busy, Idle, RequestType
  <1>7. Recoverable'
    BY DEF Recoverable, Rows
  <1>8. KnownAreOld'
    BY DEF KnownAreOld, Idle, Busy, NoResults
  <1>9. ErrorDeletesNothing'
    BY DEF ErrorDeletesNothing, NothingDeletedYet, Busy, Idle, RequestType
  <1> QED
    BY <1>1, <1>2, <1>3, <1>4, <1>5, <1>6, <1>7, <1>8, <1>9

\* Every step keeps the invariant.
LEMMA NextPreserves == IInv /\ [Next]_vars => IInv'
  <1> SUFFICES ASSUME IInv, [Next]_vars PROVE IInv'
    OBVIOUS
  <1>1. CASE Tick \/ SetClockBack
    BY <1>1, TickPreserves, SetClockBackPreserves
  <1>2. CASE Database
    BY <1>2, WritePreserves, ApplyPreserves DEF Database
  <1>3. CASE Start
    BY <1>3, BeginPreserves, RefusePreserves DEF Start
  <1>4. CASE Migrate \/ ConfigureFails \/ Return \/ Crash \/ Acknowledge
    BY <1>4, MigratePreserves, ConfigureFailsPreserves, ReturnPreserves, CrashPreserves,
       AcknowledgePreserves
  <1>5. ASSUME NEW c \in Collections, MigrateFails(c) \/ Target(c)
        PROVE  IInv'
    BY <1>5, MigrateFailsPreserves, PrunePreserves, PruneCannotReadPreserves,
       PruneCannotPurgePreserves, BackfillPreserves, BackfillFailsPreserves,
       PurgeCompactedPreserves, PurgeCompactedFailsPreserves DEF Target
  <1>6. CASE UNCHANGED vars
    BY <1>6 DEF vars, clock, store, progress, reading, response, IInv, TypeOK, Idle, Busy,
                FiniteLog, Stamps, NothingDeletedYet, Recoverable, KnownAreOld,
                ErrorDeletesNothing
  <1> QED
    BY <1>1, <1>2, <1>3, <1>4, <1>5, <1>6 DEF Next

\* The inductive invariant holds in every reachable state.
THEOREM Inductive == Spec => []IInv
  BY InitIInv, NextPreserves, PTL DEF Spec

\* Every variable keeps its type.
THEOREM TypeCorrect == Spec => []TypeOK
  <1>1. IInv => TypeOK
    BY DEF IInv
  <1> QED
    BY <1>1, Inductive, PTL

\* Compaction and pruning never delete a log row that some segment still
\* needs, whatever fails and wherever the process dies.
THEOREM LogStaysRecoverable == Spec => []Recoverable
  <1>1. IInv => Recoverable
    BY DEF IInv
  <1> QED
    BY <1>1, Inductive, PTL

\* An operation that returns an error has deleted nothing.
THEOREM ErrorsDeleteNothing == Spec => []ErrorDeletesNothing
  <1>1. IInv => ErrorDeletesNothing
    BY DEF IInv
  <1> QED
    BY <1>1, Inductive, PTL

-----------------------------------------------------------------------------
(* Sums.  MapThenSumSet and SumFunction are one recursion, over the        *)
(* subsets of a set; an induction is a search for the least bad number.    *)

LEMMA LeastNumber ==
  ASSUME NEW B \in SUBSET Nat, B # {}
  PROVE  \E m \in B : \A k \in B : m <= k
  <1> DEFINE less == OpToRel(<, Nat)
  <1>1. IsWellFoundedOn(less, Nat)
    BY NatLessThanWellFounded
  <1>2. \A k, n \in Nat : k < n => <<k, n>> \in less
    BY DEF OpToRel
  <1> HIDE DEF less
  <1>3. PICK m \in B : \A k \in B : <<k, m>> \notin less
    BY <1>1, WFMin
  <1>4. ASSUME NEW k \in B PROVE m <= k
    <2>1. k \in Nat /\ m \in Nat
      OBVIOUS
    <2>2. ~(k < m)
      BY <1>2, <1>3, <2>1, Zenon
    <2> QED
      BY <2>1, <2>2
  <1> QED
    BY <1>4

Pick(s) == CHOOSE x \in s : TRUE

IsSum(w, S, g) ==
  g = [s \in SUBSET S |-> IF s = {} THEN 0 ELSE w[Pick(s)] + g[s \ {Pick(s)}]]

Total(w, S) == (CHOOSE g : IsSum(w, S, g))[S]

LEMMA SumExists ==
  ASSUME NEW S, IsFiniteSet(S), NEW w
  PROVE  \E g : IsSum(w, S, g)
  <1> DEFINE Upto(n) == {s \in SUBSET S : Cardinality(s) <= n}
             IsPart(n, g) ==
               g = [s \in Upto(n) |-> IF s = {} THEN 0 ELSE w[Pick(s)] + g[s \ {Pick(s)}]]
             Bad == {n \in Nat : ~\E g : IsPart(n, g)}
  <1>1. \A s \in SUBSET S : IsFiniteSet(s) /\ Cardinality(s) \in Nat
    BY FS_Subset, FS_CardinalityType
  <1>2. Bad = {}
    <2> SUFFICES ASSUME Bad # {} PROVE FALSE
      OBVIOUS
    <2>1. PICK m \in Bad : \A k \in Bad : m <= k
      <3> HIDE DEF Bad
      <3>1. Bad \in SUBSET Nat
        BY DEF Bad
      <3> QED
        BY <3>1, LeastNumber
    <2>2. CASE m = 0
      <3>1. \A s \in Upto(0) : s = {}
        BY <1>1, FS_EmptySet
      <3>2. IsPart(0, [s \in Upto(0) |-> 0])
        BY <3>1
      <3> QED
        BY <2>1, <2>2, <3>2
    <2>3. CASE m # 0
      <3>1. m - 1 \in Nat /\ m - 1 \notin Bad
        <4>1. m \in Nat
          BY <2>1
        <4> HIDE DEF Bad
        <4> QED
          BY <2>1, <2>3, <4>1
      <3>2. PICK h : IsPart(m - 1, h)
        BY <3>1
      <3> DEFINE g == [s \in Upto(m) |-> IF s = {} THEN 0 ELSE w[Pick(s)] + h[s \ {Pick(s)}]]
      <3>3. ASSUME NEW s \in Upto(m), s # {} PROVE g[s \ {Pick(s)}] = h[s \ {Pick(s)}]
        <4>1. Pick(s) \in s
          BY <3>3 DEF Pick
        <4>2. Cardinality(s \ {Pick(s)}) = Cardinality(s) - 1
          BY <1>1, <4>1, FS_RemoveElement
        <4>3. s \ {Pick(s)} \in Upto(m - 1) /\ s \ {Pick(s)} \in Upto(m)
          BY <1>1, <3>1, <4>2
        <4> HIDE DEF Upto
        <4> QED
          BY <3>2, <4>3
      <3>4. IsPart(m, g)
        BY <3>3
      <3> QED
        BY <2>1, <3>4
    <2> QED
      BY <2>2, <2>3
  <1>3. PICK g : IsPart(Cardinality(S), g)
    BY <1>1, <1>2
  <1>4. Upto(Cardinality(S)) = SUBSET S
    BY FS_Subset
  <1> QED
    BY <1>3, <1>4 DEF IsSum

\* The sum over a set depends on the weights in it only.
LEMMA SumsAgree ==
  ASSUME NEW S, NEW T, NEW w, NEW v, NEW g, NEW h, IsSum(w, S, g), IsSum(v, T, h),
         \A x \in S \cap T : w[x] = v[x],
         NEW s \in SUBSET (S \cap T), IsFiniteSet(s)
  PROVE  g[s] = h[s]
  <1> DEFINE Bad == {n \in Nat : \E r \in SUBSET (S \cap T) :
                                   IsFiniteSet(r) /\ Cardinality(r) = n /\ g[r] # h[r]}
  <1>1. Bad = {}
    <2> SUFFICES ASSUME Bad # {} PROVE FALSE
      OBVIOUS
    <2>1. PICK m \in Bad : \A k \in Bad : m <= k
      <3>1. Bad \in SUBSET Nat
        OBVIOUS
      <3> HIDE DEF Bad
      <3> QED
        BY <3>1, LeastNumber
    <2>2. PICK r \in SUBSET (S \cap T) : IsFiniteSet(r) /\ Cardinality(r) = m /\ g[r] # h[r]
      BY <2>1
    <2>3. /\ g[r] = IF r = {} THEN 0 ELSE w[Pick(r)] + g[r \ {Pick(r)}]
          /\ h[r] = IF r = {} THEN 0 ELSE v[Pick(r)] + h[r \ {Pick(r)}]
      BY <2>2 DEF IsSum
    <2>4. r # {} /\ Pick(r) \in r
      BY <2>2, <2>3 DEF Pick
    <2>5. w[Pick(r)] = v[Pick(r)]
      BY <2>2, <2>4
    <2>6. IsFiniteSet(r \ {Pick(r)}) /\ Cardinality(r \ {Pick(r)}) = m - 1
      BY <2>2, <2>4, FS_RemoveElement
    <2>7. m - 1 \in Nat
      BY <2>6, FS_CardinalityType
    <2>8. g[r \ {Pick(r)}] # h[r \ {Pick(r)}]
      BY <2>2, <2>3, <2>4, <2>5
    <2>9. m - 1 \in Bad
      BY <2>2, <2>6, <2>7, <2>8
    <2> QED
      BY <2>1, <2>7, <2>9
  <1> QED
    BY <1>1, FS_CardinalityType

LEMMA TotalIsSum ==
  ASSUME NEW S, IsFiniteSet(S), NEW w, NEW v, NEW g, IsSum(v, S, g), \A x \in S : w[x] = v[x],
         NEW s \in SUBSET S
  PROVE  Total(w, s) = g[s]
  <1>1. IsFiniteSet(s)
    BY FS_Subset
  <1>2. \E h : IsSum(w, s, h)
    BY <1>1, SumExists
  <1>3. IsSum(w, s, CHOOSE h : IsSum(w, s, h))
    BY <1>2
  <1> QED
    BY <1>1, <1>3, SumsAgree DEF Total

LEMMA TotalOfEmpty == ASSUME NEW w PROVE Total(w, {}) = 0
  <1>1. PICK g : IsSum(w, {}, g)
    BY SumExists, FS_EmptySet
  <1>2. Total(w, {}) = g[{}]
    BY <1>1, TotalIsSum, FS_EmptySet
  <1> QED
    BY <1>1, <1>2 DEF IsSum

LEMMA TotalUnfolds ==
  ASSUME NEW S, IsFiniteSet(S), NEW w, S # {}
  PROVE  Pick(S) \in S /\ Total(w, S) = w[Pick(S)] + Total(w, S \ {Pick(S)})
  <1>1. PICK g : IsSum(w, S, g)
    BY SumExists
  <1>2. \A s \in SUBSET S : Total(w, s) = g[s]
    BY <1>1, TotalIsSum
  <1>3. Pick(S) \in S
    BY DEF Pick
  <1>4. g[S] = w[Pick(S)] + g[S \ {Pick(S)}]
    BY <1>1 DEF IsSum
  <1> QED
    BY <1>2, <1>3, <1>4

\* Weights that agree on a set have the same total there.
LEMMA TotalsAgree ==
  ASSUME NEW S, IsFiniteSet(S), NEW w, NEW v, \A x \in S : w[x] = v[x]
  PROVE  Total(w, S) = Total(v, S)
  <1>1. PICK g : IsSum(v, S, g)
    BY SumExists
  <1> QED
    BY <1>1, TotalIsSum

LEMMA TotalType ==
  ASSUME NEW D, NEW w \in [D -> Nat], NEW S \in SUBSET D, IsFiniteSet(S)
  PROVE  Total(w, S) \in Nat
  <1> DEFINE Bad == {n \in Nat : \E r \in SUBSET D :
                                   IsFiniteSet(r) /\ Cardinality(r) = n /\ Total(w, r) \notin Nat}
  <1>1. Bad = {}
    <2> SUFFICES ASSUME Bad # {} PROVE FALSE
      OBVIOUS
    <2>1. PICK m \in Bad : \A k \in Bad : m <= k
      <3>1. Bad \in SUBSET Nat
        OBVIOUS
      <3> HIDE DEF Bad
      <3> QED
        BY <3>1, LeastNumber
    <2>2. PICK r \in SUBSET D : IsFiniteSet(r) /\ Cardinality(r) = m /\ Total(w, r) \notin Nat
      BY <2>1
    <2>3. r # {}
      BY <2>2, TotalOfEmpty
    <2>4. Pick(r) \in r /\ Total(w, r) = w[Pick(r)] + Total(w, r \ {Pick(r)})
      BY <2>2, <2>3, TotalUnfolds
    <2>5. IsFiniteSet(r \ {Pick(r)}) /\ Cardinality(r \ {Pick(r)}) = m - 1
      BY <2>2, <2>4, FS_RemoveElement
    <2>6. m - 1 \in Nat
      BY <2>5, FS_CardinalityType
    <2>7. Total(w, r \ {Pick(r)}) \in Nat
      BY <2>1, <2>2, <2>5, <2>6
    <2> QED
      BY <2>2, <2>4, <2>7
  <1> QED
    BY <1>1, FS_CardinalityType

\* An element contributes its weight, whichever order the sum is taken in.
LEMMA TotalSplits ==
  ASSUME NEW D, NEW w \in [D -> Nat], NEW S \in SUBSET D, IsFiniteSet(S), NEW x \in S
  PROVE  Total(w, S) = w[x] + Total(w, S \ {x})
  <1> DEFINE Wrong(r) == \E y \in r : Total(w, r) # w[y] + Total(w, r \ {y})
             Bad == {n \in Nat : \E r \in SUBSET D :
                                   IsFiniteSet(r) /\ Cardinality(r) = n /\ Wrong(r)}
  <1>1. Bad = {}
    <2> SUFFICES ASSUME Bad # {} PROVE FALSE
      OBVIOUS
    <2>1. PICK m \in Bad : \A k \in Bad : m <= k
      <3>1. Bad \in SUBSET Nat
        OBVIOUS
      <3> HIDE DEF Bad
      <3> QED
        BY <3>1, LeastNumber
    <2>2. PICK r \in SUBSET D : IsFiniteSet(r) /\ Cardinality(r) = m /\ Wrong(r)
      BY <2>1
    <2>3. PICK y \in r : Total(w, r) # w[y] + Total(w, r \ {y})
      BY <2>2
    <2>4. /\ Pick(r) \in r /\ Total(w, r) = w[Pick(r)] + Total(w, r \ {Pick(r)})
          /\ Pick(r) # y
      BY <2>2, <2>3, TotalUnfolds
    <2>5. \A z \in r : IsFiniteSet(r \ {z}) /\ Cardinality(r \ {z}) = m - 1
      BY <2>2, FS_RemoveElement
    <2>6. m - 1 \in Nat
      BY <2>3, <2>5, FS_CardinalityType
    <2>7. \A z \in r : ~Wrong(r \ {z})
      <3> SUFFICES ASSUME NEW z \in r, Wrong(r \ {z}) PROVE FALSE
        OBVIOUS
      <3> HIDE DEF Wrong
      <3>1. m - 1 \in Bad
        BY <2>2, <2>5, <2>6
      <3>2. m \in Nat
        BY <2>1
      <3> HIDE DEF Bad
      <3> QED
        BY <2>1, <3>1, <3>2
    <2>8. /\ Total(w, r \ {Pick(r)}) = w[y] + Total(w, (r \ {Pick(r)}) \ {y})
          /\ Total(w, r \ {y}) = w[Pick(r)] + Total(w, (r \ {y}) \ {Pick(r)})
      BY <2>3, <2>4, <2>7
    <2> DEFINE rest == (r \ {y}) \ {Pick(r)}
    <2>9. (r \ {Pick(r)}) \ {y} = rest /\ Total(w, rest) \in Nat
      <3>1. rest \in SUBSET D /\ IsFiniteSet(rest)
        BY <2>2, FS_Subset
      <3> QED
        BY <3>1, TotalType
    <2>10. w[y] \in Nat /\ w[Pick(r)] \in Nat
      BY <2>2, <2>3, <2>4
    <2> HIDE DEF rest
    <2>11. /\ Total(w, r) = w[Pick(r)] + (w[y] + Total(w, rest))
           /\ Total(w, r \ {y}) = w[Pick(r)] + Total(w, rest)
      BY <2>4, <2>8, <2>9 DEF rest
    <2> QED
      BY <2>3, <2>9, <2>10, <2>11
  <1> QED
    BY <1>1, FS_CardinalityType

LEMMA TotalGrows ==
  ASSUME NEW D, NEW w \in [D -> Nat], NEW S \in SUBSET D, IsFiniteSet(S), NEW R \in SUBSET S
  PROVE  Total(w, R) <= Total(w, S)
  <1> DEFINE Bad == {n \in Nat : \E r \in SUBSET D :
                       IsFiniteSet(r) /\ R \subseteq r /\ Cardinality(r) = n
                       /\ ~(Total(w, R) <= Total(w, r))}
  <1>0. IsFiniteSet(R) /\ Total(w, R) \in Nat
    BY FS_Subset, TotalType
  <1>1. Bad = {}
    <2> SUFFICES ASSUME Bad # {} PROVE FALSE
      OBVIOUS
    <2>1. PICK m \in Bad : \A k \in Bad : m <= k
      <3>1. Bad \in SUBSET Nat
        OBVIOUS
      <3> HIDE DEF Bad
      <3> QED
        BY <3>1, LeastNumber
    <2>2. PICK r \in SUBSET D : /\ IsFiniteSet(r) /\ R \subseteq r /\ Cardinality(r) = m
                                /\ ~(Total(w, R) <= Total(w, r))
      BY <2>1
    <2>3. PICK y \in r : y \notin R
      <3>1. Total(w, R) <= Total(w, R)
        BY <1>0
      <3>2. r # R
        BY <2>2, <3>1
      <3> QED
        BY <2>2, <3>2
    <2>4. Total(w, r) = w[y] + Total(w, r \ {y})
      BY <2>2, <2>3, TotalSplits
    <2>5. IsFiniteSet(r \ {y}) /\ Cardinality(r \ {y}) = m - 1
      BY <2>2, <2>3, FS_RemoveElement
    <2>6. m - 1 \in Nat /\ Total(w, r \ {y}) \in Nat
      BY <2>2, <2>5, FS_CardinalityType, TotalType
    <2>7. Total(w, R) <= Total(w, r \ {y})
      BY <2>1, <2>2, <2>3, <2>5, <2>6
    <2> QED
      BY <1>0, <2>2, <2>3, <2>4, <2>6, <2>7
  <1> QED
    BY <1>1, FS_CardinalityType

-----------------------------------------------------------------------------
(* The bytes of a set of rows, and the sum of an answer.                   *)

Weight == [r \in Rows |-> r.bytes]

LEMMA WeightType == Weight \in [Rows -> Nat]
  BY DEF Weight, Rows

LEMMA BytesTotal ==
  ASSUME NEW rows \in SUBSET Rows, IsFiniteSet(rows)
  PROVE  Bytes(rows) = Total(Weight, rows)
  <1> DEFINE IsBytes(g) ==
               g = [s \in SUBSET rows |-> IF s = {} THEN 0
                                          ELSE Pick(s).bytes + g[s \ {Pick(s)}]]
  <1>1. \A s \in SUBSET rows : s # {} => Weight[Pick(s)] = Pick(s).bytes
    BY DEF Pick, Weight
  <1>2. \A g : IsBytes(g) <=> IsSum(Weight, rows, g)
    BY <1>1 DEF IsSum
  <1>3. Bytes(rows) = (CHOOSE g : IsBytes(g))[rows]
    BY DEF Bytes, MapThenSumSet, MapThenFoldSet, Pick
  <1> HIDE DEF IsBytes
  <1>4. IsBytes(CHOOSE g : IsBytes(g))
    BY <1>2, SumExists
  <1> QED
    BY <1>2, <1>3, <1>4, TotalIsSum

LEMMA BytesFacts ==
  ASSUME NEW rows \in SUBSET Rows, IsFiniteSet(rows)
  PROVE  /\ Bytes(rows) \in Nat
         /\ \A part \in SUBSET rows : Bytes(part) \in Nat /\ Bytes(part) <= Bytes(rows)
         /\ \A r \in rows : Bytes(rows) = r.bytes + Bytes(rows \ {r})
  <1>1. \A part \in SUBSET rows : part \in SUBSET Rows /\ IsFiniteSet(part)
    BY FS_Subset
  <1>2. \A part \in SUBSET rows : Bytes(part) = Total(Weight, part) /\ Bytes(part) \in Nat
    BY <1>1, BytesTotal, TotalType, WeightType
  <1>3. \A part \in SUBSET rows : Bytes(part) <= Bytes(rows)
    BY <1>2, TotalGrows, WeightType
  <1>4. \A r \in rows : Bytes(rows) = r.bytes + Bytes(rows \ {r})
    <2> SUFFICES ASSUME NEW r \in rows PROVE Bytes(rows) = r.bytes + Bytes(rows \ {r})
      OBVIOUS
    <2>1. Total(Weight, rows) = Weight[r] + Total(Weight, rows \ {r})
      BY TotalSplits, WeightType
    <2>2. Weight[r] = r.bytes
      BY DEF Weight
    <2>3. rows \ {r} \in SUBSET rows /\ rows \in SUBSET rows
      OBVIOUS
    <2> QED
      BY <1>2, <2>1, <2>2, <2>3
  <1> QED
    BY <1>2, <1>3, <1>4

LEMMA BytesOfNone == Bytes({}) = 0
  BY BytesTotal, TotalOfEmpty, FS_EmptySet

\* A sum to which one collection adds what it counts.
LEMMA SumUpdate ==
  ASSUME NEW D, IsFiniteSet(D), NEW f \in [D -> Nat], NEW h \in [D -> Nat], NEW x \in D,
         f[x] = 0, \A y \in D \ {x} : h[y] = f[y]
  PROVE  SumFunction(h) = SumFunction(f) + h[x]
  <1>1. SumFunction(f) = Total(f, D) /\ SumFunction(h) = Total(h, D)
    BY DEF SumFunction, SumFunctionOnSet, FoldFunctionOnSet, MapThenFoldSet, Total, IsSum, Pick
  <1>2. Total(f, D) = 0 + Total(f, D \ {x}) /\ Total(h, D) = h[x] + Total(h, D \ {x})
    BY TotalSplits
  <1>3. IsFiniteSet(D \ {x})
    BY FS_RemoveElement
  <1>4. Total(f, D \ {x}) = Total(h, D \ {x}) /\ Total(f, D \ {x}) \in Nat
    BY <1>3, TotalsAgree, TotalType
  <1> QED
    BY <1>1, <1>2, <1>4

LEMMA SumOfZeros ==
  ASSUME NEW D, IsFiniteSet(D), NEW f \in [D -> {0}]
  PROVE  SumFunction(f) = 0
  <1>1. SumFunction(f) = Total(f, D)
    BY DEF SumFunction, SumFunctionOnSet, FoldFunctionOnSet, MapThenFoldSet, Total, IsSum, Pick
  <1> DEFINE g == [s \in SUBSET D |-> 0]
  <1>2. IsSum(f, D, g)
    <2>1. \A s \in SUBSET D : s # {} => f[Pick(s)] = 0
      BY DEF Pick
    <2> QED
      BY <2>1 DEF IsSum
  <1>3. Total(f, D) = g[D]
    BY <1>2, TotalIsSum
  <1> QED
    BY <1>1, <1>3

-----------------------------------------------------------------------------
(* What a policy selects.                                                  *)

\* The rows a byte limit gives up are the oldest ones.
LEMMA DownToIsPrefix ==
  ASSUME NEW rows \in SUBSET Rows, IsFiniteSet(rows), NEW limit \in Nat,
         NEW q \in DownTo(rows, limit), NEW r \in rows, r.seq <= q.seq
  PROVE  r \in DownTo(rows, limit)
  <1> DEFINE from(x) == {y \in rows : y.seq >= x.seq}
  <1>1. from(q) \subseteq from(r) /\ from(r) \in SUBSET Rows /\ IsFiniteSet(from(r))
    BY FS_Subset DEF Rows, DownTo
  <1>2. Bytes(from(q)) \in Nat /\ Bytes(from(r)) \in Nat /\ Bytes(from(q)) <= Bytes(from(r))
    BY <1>1, BytesFacts
  <1>3. Bytes(from(q)) > limit
    BY DEF DownTo
  <1>4. Bytes(from(r)) > limit
    BY <1>2, <1>3
  <1> QED
    BY <1>4 DEF DownTo

LEMMA SelectedIsPrefix ==
  ASSUME NEW rows \in SUBSET Rows, IsFiniteSet(rows), NEW p \in PolicyType,
         NEW q \in Selected(rows, p), NEW r \in rows, r.seq <= q.seq
  PROVE  r \in Selected(rows, p)
  <1>1. HasPolicy(p) /\ q \in rows
    BY DEF Selected
  <1>2. p.maxAge # None => r \in OlderThan(rows, p.maxAge)
    BY DEF Selected, OlderThan, Rows
  <1>3. p.maxBytes # None => r \in DownTo(rows, p.maxBytes)
    BY DownToIsPrefix DEF Selected, PolicyType, Limit
  <1>4. p.high # None /\ p.low # None => r \in Watermark(rows, p.high, p.low)
    BY DownToIsPrefix DEF Selected, PolicyType, Limit, Watermark
  <1> QED
    BY <1>1, <1>2, <1>3, <1>4 DEF Selected

\* The purge deletes the rows it is given, and no others, if they are a prefix of
\* the candidates.
LEMMA PurgeDeletesSelected ==
  ASSUME IInv, NEW c \in Collections, NEW p \in PolicyType,
         NEW rows, rows = Selected(Candidates(c), p)
  PROVE  log[c] \ PurgeThrough(c, rows) = rows /\ PurgeThrough(c, rows) \subseteq log[c]
  <1>1. Candidates(c) \in SUBSET Rows /\ IsFiniteSet(Candidates(c)) /\ rows \subseteq log[c]
    BY FS_Subset, SelectedAreRows DEF Candidates, IInv, TypeOK, FiniteLog
  <1>2. ASSUME NEW r \in log[c], NEW q \in rows, r.seq <= q.seq PROVE r \in rows
    <2>1. q \in Candidates(c) /\ q.seq \in Int /\ r.seq \in Int
      BY <1>1, SelectedAreRows DEF Rows, IInv, TypeOK
    <2>2. r \in Candidates(c)
      BY <1>2, <2>1 DEF Candidates, SafeToPrune, IInv, TypeOK
    <2> QED
      BY <1>1, <1>2, <2>2, SelectedIsPrefix
  <1>3. \A r \in rows : r.seq <= r.seq
    BY <1>1 DEF IInv, TypeOK, Rows
  <1> QED
    BY <1>1, <1>2, <1>3 DEF PurgeThrough

\* The bytes that are left fit the limit, and would not with the last row.
LEMMA DownToIsNeeded ==
  ASSUME NEW rows \in SUBSET Rows, IsFiniteSet(rows), OneRowPerSeq(rows), NEW limit \in Nat,
         NEW gone \in SUBSET DownTo(rows, limit)
  PROVE  /\ gone # {} => Bytes(rows \ gone) + Youngest(gone).bytes > limit
         /\ gone = DownTo(rows, limit) => Bytes(rows \ gone) <= limit
  <1>1. gone \subseteq rows /\ IsFiniteSet(rows \ gone) /\ Bytes(rows \ gone) \in Nat
    BY FS_Subset, BytesFacts DEF DownTo
  <1>2. ASSUME gone # {} PROVE Bytes(rows \ gone) + Youngest(gone).bytes > limit
    <2>1. PICK y \in gone : \A q \in gone : q.seq <= y.seq
      <3> DEFINE Ages == {n \in Nat : \E q \in gone : n = MaxSeq - q.seq}
      <3>1. \A q \in gone : q.seq \in 1..MaxSeq
        BY <1>1 DEF Rows
      <3>2. Ages # {} /\ Ages \in SUBSET Nat
        <4>1. PICK q \in gone : TRUE
          BY <1>2
        <4>2. MaxSeq - q.seq \in Nat
          BY <3>1, <4>1
        <4> QED
          BY <4>2
      <3> HIDE DEF Ages
      <3>3. PICK n \in Ages : \A k \in Ages : n <= k
        BY <3>2, LeastNumber
      <3>4. PICK y \in gone : n = MaxSeq - y.seq
        BY <3>3 DEF Ages
      <3>5. \A q \in gone : MaxSeq - q.seq \in Ages
        BY <3>1 DEF Ages
      <3>6. \A q \in gone : q.seq <= y.seq
        BY <3>1, <3>3, <3>4, <3>5
      <3> QED
        BY <3>6
    <2> DEFINE z == Youngest(gone)
    <2>2. z \in gone /\ \A q \in gone : q.seq <= z.seq
      BY <2>1 DEF Youngest
    <2> HIDE DEF z
    <2> DEFINE from == {q \in rows : q.seq >= z.seq}
               kept == (rows \ gone) \cup {z}
    <2>3. from \subseteq kept
      <3> SUFFICES ASSUME NEW q \in from, q \in gone PROVE q = z
        OBVIOUS
      <3>1. q.seq = z.seq
        BY <1>1, <2>2 DEF Rows
      <3> QED
        BY <1>1, <2>2, <3>1 DEF OneRowPerSeq
    <2>4. kept \in SUBSET rows /\ IsFiniteSet(kept) /\ z \in kept /\ kept \ {z} = rows \ gone
      BY <1>1, <2>2, FS_Subset
    <2>5. Bytes(kept) = z.bytes + Bytes(rows \ gone)
      BY <2>4, BytesFacts
    <2>6. Bytes(from) \in Nat /\ Bytes(kept) \in Nat /\ Bytes(from) <= Bytes(kept)
      BY <2>3, <2>4, BytesFacts
    <2>7. Bytes(from) > limit
      BY <2>2 DEF DownTo
    <2>8. z.bytes \in Nat
      BY <1>1, <2>2 DEF Rows
    <2> HIDE DEF from, kept
    <2>9. Bytes(rows \ gone) + z.bytes > limit
      BY <1>1, <2>5, <2>6, <2>7, <2>8
    <2> QED
      BY <2>9 DEF z
  <1>3. ASSUME gone = DownTo(rows, limit) PROVE Bytes(rows \ gone) <= limit
    <2>1. CASE rows \ gone = {}
      BY <2>1, BytesOfNone
    <2>2. CASE rows \ gone # {}
      <3> DEFINE Seqs == {n \in Nat : \E q \in rows \ gone : n = q.seq}
      <3>1. Seqs # {} /\ Seqs \in SUBSET Nat
        BY <2>2 DEF Rows
      <3>2. \A q \in rows \ gone : q.seq \in Seqs
        BY DEF Rows
      <3>3. PICK y \in rows \ gone : \A q \in rows \ gone : y.seq <= q.seq
        <4>1. PICK n \in Seqs : \A k \in Seqs : n <= k
          <5> HIDE DEF Seqs
          <5> QED
            BY <3>1, LeastNumber
        <4> QED
          BY <3>2, <4>1
      <3> DEFINE from == {q \in rows : q.seq >= y.seq}
      <3>4. Bytes(from) <= limit
        <4>1. ~(Bytes(from) > limit)
          BY <1>3, <3>3 DEF DownTo
        <4>2. Bytes(from) \in Nat
          BY BytesFacts
        <4> QED
          BY <4>1, <4>2
      <3>5. rows \ gone \subseteq from /\ from \in SUBSET Rows /\ IsFiniteSet(from)
        BY <3>3, FS_Subset DEF Rows
      <3>6. Bytes(rows \ gone) <= Bytes(from) /\ Bytes(from) \in Nat
        BY <3>5, BytesFacts
      <3> QED
        BY <1>1, <3>4, <3>6
    <2> QED
      BY <2>1, <2>2
  <1> QED
    BY <1>2, <1>3

-----------------------------------------------------------------------------
(* The answer of a prune.                                                  *)

LEMMA SequenceStep == IInv /\ SequenceInv /\ [Next]_vars => SequenceInv'
  <1> SUFFICES ASSUME IInv, SequenceInv, [Next]_vars PROVE SequenceInv'
    OBVIOUS
  <1>1. ASSUME NEW c \in Collections, Write(c) PROVE SequenceInv'
    <2>1. PICK b \in Sizes, t \in {now - behind, None} :
            written' = [written EXCEPT ![c] = @ \cup {[seq |-> lastSeq + 1, created |-> t,
                                                       made |-> now, bytes |-> b]}]
      BY <1>1 DEF Write
    <2> DEFINE row == [seq |-> lastSeq + 1, created |-> t, made |-> now, bytes |-> b]
    <2>2. lastSeq \in Nat /\ lastSeq' = lastSeq + 1 /\ row.seq = lastSeq + 1
      BY <1>1 DEF Write, IInv, TypeOK
    <2>3. \A d \in Collections : \A r \in written'[d] : r \in written[d] \/ r = row
      BY <2>1 DEF IInv, TypeOK
    <2>4. \A d \in Collections : \A r \in written[d] : r.seq \in Int
      BY DEF IInv, TypeOK, Rows
    <2> HIDE DEF row
    <2> QED
      BY <2>2, <2>3, <2>4 DEF SequenceInv, OneRowPerSeq
  <1>2. CASE UNCHANGED <<written, lastSeq>>
    BY <1>2 DEF SequenceInv, OneRowPerSeq
  <1>3. CASE Start
    BY <1>2, <1>3 DEF Start, Refuse, Begin, store
  <1>4. ASSUME NEW c \in Collections, Target(c) PROVE UNCHANGED <<written, lastSeq>>
    BY <1>4 DEF Target, Prune, PruneCannotRead, PruneCannotPurge, Backfill, BackfillFails,
       PurgeCompacted, PurgeCompactedFails, store
  <1>5. ASSUME NEW c \in Collections, MigrateFails(c) PROVE UNCHANGED <<written, lastSeq>>
    BY <1>5 DEF MigrateFails
  <1>6. ASSUME NEW c \in Collections, NEW s \in Segments, Apply(c, s)
        PROVE  UNCHANGED <<written, lastSeq>>
    BY <1>6 DEF Apply
  <1>7. CASE Tick \/ SetClockBack \/ Migrate \/ ConfigureFails \/ Return \/ Crash \/ Acknowledge
    BY <1>2, <1>7 DEF Tick, SetClockBack, Migrate, ConfigureFails, Return, Crash, Acknowledge,
       store
  <1>8. CASE UNCHANGED vars
    BY <1>2, <1>8 DEF vars, store
  <1> QED
    BY <1>1, <1>2, <1>3, <1>4, <1>5, <1>6, <1>7, <1>8 DEF Next, Database

\* What a policy selects depends on the clock's reading only.
LEMMA SelectionStays ==
  ASSUME clockRead' = clockRead, NEW x, NEW p
  PROVE  Selected(x, p)' = Selected(x, p)
  <1>1. \A age : OlderThan(x, age)' = OlderThan(x, age)
    BY DEF OlderThan, CreatedAtSecs
  <1> QED
    BY <1>1 DEF Selected

\* A step of the work on one collection replaces at most that collection's entry.
LEMMA EntryOf ==
  ASSUME IInv, NEW c \in Collections, NEW entry, Record(c, entry)
  PROVE  results'[c] = entry /\ \A d \in Collections : d # c => results'[d] = results[d]
  BY DEF Record, IInv, TypeOK

LEMMA CurrentStep == IInv /\ CurrentInv /\ [Next]_vars => CurrentInv'
  <1> SUFFICES ASSUME IInv, CurrentInv, [Next]_vars, current' # None
               PROVE  request'.op = "compact"
    BY DEF CurrentInv
  <1>1. ASSUME NEW c \in Collections, Target(c) PROVE request'.op = "compact"
    BY <1>1 DEF Target, Prune, PruneCannotRead, PruneCannotPurge, PurgeFailed, Backfill,
       BackfillFails, PurgeCompacted, PurgeCompactedFails, FailOne, Record, Finish, Working
  <1>2. CASE UNCHANGED <<current, request>>
    BY <1>2 DEF CurrentInv
  <1> QED
    BY <1>1, <1>2 DEF Next, Database, Tick, SetClockBack, Write, Apply, Start, Begin, Refuse,
       Migrate, MigrateFails, ConfigureFails, Return, Crash, Acknowledge, Finish, Busy, IInv,
       progress, vars

LEMMA ResultStep == IInv /\ SequenceInv /\ CurrentInv /\ ResultInv /\ [Next]_vars => ResultInv'
  <1> SUFFICES ASSUME IInv, SequenceInv, CurrentInv, ResultInv, [Next]_vars PROVE ResultInv'
    OBVIOUS
  <1>1. ASSUME NEW c \in Collections, Prune(c) PROVE ResultInv'
    <2> DEFINE cand == Candidates(c)
               rows == Selected(cand, request.policy)
    <2>1. /\ UNCHANGED <<request, clockRead>>
          /\ Record(c, Done(cand, rows))
      BY <1>1 DEF Prune, reading
    <2>2. IsFiniteSet(cand) /\ OneRowPerSeq(cand)
      BY FS_Subset DEF Candidates, IInv, FiniteLog, SequenceInv, OneRowPerSeq
    <2>3. results'[c].candidates = cand /\ results'[c].pruned = rows
          /\ \A d \in Collections : d # c => results'[d] = results[d]
      BY <2>1, EntryOf DEF Done
    <2>4. \A x, p : Selected(x, p)' = Selected(x, p)
      BY <2>1, SelectionStays
    <2> HIDE DEF rows, cand
    <2> QED
      BY <2>1, <2>2, <2>3, <2>4 DEF ResultInv, rows
  <1>2. ASSUME UNCHANGED <<request, clockRead>>,
               \A c \in Collections : results'[c] \in {results[c], None} \/ results'[c].error
        PROVE  ResultInv'
    <2>1. \A x, p : Selected(x, p)' = Selected(x, p)
      BY <1>2, SelectionStays
    <2> QED
      BY <1>2, <2>1 DEF ResultInv
  <1>3. CASE results = NoResults /\ results' = NoResults
    BY <1>3 DEF ResultInv, NoResults
  <1>4. ASSUME NEW c \in Collections, NEW cand, NEW span, FailOne(c, cand, span), UNCHANGED clockRead
        PROVE  ResultInv'
    BY <1>2, <1>4, EntryOf DEF FailOne
  <1>5. ASSUME NEW c \in Collections, Target(c), ~Prune(c) PROVE ResultInv'
    <2>1. CASE PurgeCompacted(c)
      <3>1. request.op = "compact" /\ request' = request
        BY <2>1 DEF PurgeCompacted, CurrentInv
      <3> QED
        BY <3>1 DEF ResultInv
    <2>2. CASE Backfill(c)
      BY <1>2, <2>2 DEF Backfill, reading, response
    <2>3. CASE PruneCannotRead(c) \/ PruneCannotPurge(c) \/ BackfillFails(c)
               \/ PurgeCompactedFails(c)
      BY <1>4, <2>3 DEF PruneCannotRead, PruneCannotPurge, PurgeFailed, BackfillFails,
         PurgeCompactedFails, reading
    <2> QED
      BY <1>5, <2>1, <2>2, <2>3 DEF Target
  <1>6. CASE Start
    BY <1>3, <1>6 DEF Start, Begin, Refuse, IInv, Idle
  <1>7. ASSUME NEW c \in Collections, MigrateFails(c) PROVE ResultInv'
    BY <1>3, <1>7 DEF MigrateFails, IInv, Busy
  <1>8. CASE Migrate
    BY <1>3, <1>8 DEF Migrate, response, IInv, Busy
  <1>9. CASE ConfigureFails
    BY <1>3, <1>9 DEF ConfigureFails, IInv, Busy
  <1>10. CASE Acknowledge
    BY <1>10, CollectionsAssumption DEF Acknowledge, ResultInv, NoResults
  <1>11. CASE Tick \/ SetClockBack \/ Database \/ Return \/ Crash \/ UNCHANGED vars
    BY <1>2, <1>11 DEF Tick, SetClockBack, Database, Write, Apply, Return, Crash, reading,
       response,
       vars
  <1> QED
    BY <1>1, <1>5, <1>6, <1>7, <1>8, <1>9, <1>10, <1>11 DEF Next

Reporting == (pc \in {"migrate", "work"} \/ outcome = "ok") /\ request.op = "prune"

\* The report holds as long as it, the log and the targets are left alone.
LEMMA ReportStays ==
  ASSUME ReportInv, UNCHANGED <<log, logBefore, results, prunedTotal, request>>,
         todo' \subseteq todo, Reporting' => Reporting, pc' = "idle" => pc = "idle"
  PROVE  ReportInv'
  <1>1. \A c \in Collections : Reported(c)' = Reported(c)
    BY DEF Reported
  <1>2. [c \in Collections |-> PrunedCount(c)]' = [c \in Collections |-> PrunedCount(c)]
    BY DEF PrunedCount
  <1>3. SumFunction([c \in Collections |-> PrunedCount(c)])'
          = SumFunction([c \in Collections |-> PrunedCount(c)])
    BY <1>2
  <1>4. \A c \in Collections : SpanIsTrue(c)' = SpanIsTrue(c)
    BY DEF SpanIsTrue
  <1> QED
    BY <1>1, <1>3, <1>4 DEF ReportInv, Reporting

\* The entry of a collection that had none adds what it counts to the sum.
LEMMA EntryAdds ==
  ASSUME IInv, ReportInv, Reporting, NEW c \in Collections, c \in todo, NEW entry,
         Record(c, entry), entry # None, IsFiniteSet(entry.pruned)
  PROVE  SumFunction([d \in Collections |-> PrunedCount(d)])'
           = prunedTotal + Cardinality(entry.pruned)
  <1> DEFINE f == [d \in Collections |-> PrunedCount(d)]
             h == [d \in Collections |-> IF d = c THEN Cardinality(entry.pruned)
                                                  ELSE PrunedCount(d)]
  <1>1. \A d \in Collections : results[d] # None => IsFiniteSet(results[d].pruned)
    BY DEF ReportInv, Reporting
  <1>2. \A d \in Collections : PrunedCount(d) \in Nat
    BY <1>1, FS_CardinalityType DEF PrunedCount
  <1>3. f \in [Collections -> Nat] /\ h \in [Collections -> Nat]
    BY <1>2, FS_CardinalityType
  <1>4. results[c] = None /\ prunedTotal = SumFunction(f)
    BY DEF ReportInv, Reporting
  <1>5. f[c] = 0 /\ h[c] = Cardinality(entry.pruned) /\ \A d \in Collections \ {c} : h[d] = f[d]
    BY <1>4 DEF PrunedCount
  <1>6. [d \in Collections |-> PrunedCount(d)]' = h
    BY EntryOf DEF PrunedCount
  <1> HIDE DEF f, h
  <1>7. SumFunction(h) = SumFunction(f) + h[c]
    BY <1>3, <1>5, SumUpdate, CollectionsAssumption
  <1> QED
    BY <1>4, <1>5, <1>6, <1>7

LEMMA PruneReports == ASSUME IInv, ReportInv, NEW c \in Collections, Prune(c) PROVE ReportInv'
  <1> DEFINE rows == Selected(Candidates(c), request.policy)
             entry == Done(Candidates(c), rows)
  <1>1. /\ pc = "work" /\ c \in todo /\ request.op = "prune" /\ Record(c, entry)
        /\ log' = IF Deletes(rows) THEN [log EXCEPT ![c] = PurgeThrough(c, rows)] ELSE log
        /\ prunedTotal' = prunedTotal + Cardinality(rows) /\ UNCHANGED <<request, logBefore>>
    BY DEF Prune, Working
  <1>2. entry.pruned = rows /\ entry.spanned = rows /\ ~entry.error /\ IsFiniteSet(rows)
    BY FS_Subset, SelectedAreRows DEF IInv, FiniteLog, Candidates, Done
  <1>3. entry # None
    <2>1. entry \in ResultType
      BY SelectedAreRows DEF ResultType, Candidates, IInv, TypeOK, Done
    <2> QED
      BY <2>1, NoneAssumption
  <1>4. log[c] \ PurgeThrough(c, rows) = rows /\ PurgeThrough(c, rows) \subseteq log[c]
    <2>1. request.policy \in PolicyType
      BY <1>1, RequestsAssumption DEF IInv, Busy, RequestType
    <2> QED
      BY <2>1, PurgeDeletesSelected
  <1> HIDE DEF rows, entry
  <1>5. Reporting
    BY <1>1 DEF Reporting
  <1>6. SumFunction([d \in Collections |-> PrunedCount(d)])' = prunedTotal'
    BY <1>1, <1>2, <1>3, <1>5, EntryAdds
  <1>7. pc' = "work" /\ todo' = todo \ {c} /\ results'[c] = entry
        /\ \A d \in Collections : d # c => results'[d] = results[d]
    BY <1>1, EntryOf DEF Record
  <1>8. \A d \in Collections : /\ log[d] \subseteq logBefore[d]
                               /\ logBefore[d] \ log[d] = Reported(d)
                               /\ d \in todo => results[d] = None
                               /\ results[d] # None => IsFiniteSet(results[d].pruned)
                               /\ SpanIsTrue(d)
    BY <1>5 DEF ReportInv, Reporting
  <1>9. log'[c] \subseteq logBefore'[c] /\ logBefore'[c] \ log'[c] = Reported(c)'
    <2>1. log[c] = logBefore[c]
      BY <1>1, <1>8 DEF Reported
    <2>2. CASE Deletes(rows)
      BY <1>1, <1>2, <1>3, <1>4, <1>7, <2>1, <2>2 DEF Reported, Deletes, IInv, TypeOK
    <2>3. CASE ~Deletes(rows)
      BY <1>1, <1>2, <1>7, <2>1, <2>3 DEF Reported, Deletes
    <2> QED
      BY <2>2, <2>3
  <1>10. \A d \in Collections : d # c =>
           log'[d] = log[d] /\ logBefore'[d] = logBefore[d] /\ Reported(d)' = Reported(d)
    BY <1>1, <1>7 DEF Reported, IInv, TypeOK
  <1>11. \A d \in Collections : SpanIsTrue(d)'
    BY <1>2, <1>7, <1>8, <1>10 DEF SpanIsTrue
  <1> QED
    BY <1>1, <1>2, <1>6, <1>7, <1>8, <1>9, <1>10, <1>11 DEF ReportInv

\* A collection that fails has an entry that reports no row.
LEMMA FailureReports ==
  ASSUME IInv, ReportInv, NEW c \in Collections, NEW cand \in SUBSET Rows,
         NEW span \in SUBSET log[c], Working("prune", c),
         FailOne(c, cand, span), UNCHANGED <<log, logBefore, prunedTotal>>
  PROVE  ReportInv'
  <1> DEFINE entry == [error |-> TRUE, candidates |-> cand, pruned |-> {}, spanned |-> span]
  <1>1. Reporting /\ c \in todo /\ UNCHANGED request
    BY DEF Working, Reporting, FailOne
  <1>2. CASE ~request.all
    BY <1>2 DEF FailOne, Finish, ReportInv
  <1>3. CASE request.all
    <2>1. Record(c, entry)
      BY <1>3 DEF FailOne
    <2>2. /\ entry.pruned = {} /\ entry.spanned = span /\ entry.error
          /\ IsFiniteSet({}) /\ Cardinality({}) = 0 /\ entry # None
      <3>1. entry \in ResultType
        BY DEF ResultType, IInv, TypeOK
      <3> QED
        BY <3>1, NoneAssumption, FS_EmptySet
    <2> HIDE DEF entry
    <2>3. SumFunction([d \in Collections |-> PrunedCount(d)])' = prunedTotal'
      <3>1. SumFunction([d \in Collections |-> PrunedCount(d)])'
              = prunedTotal + Cardinality(entry.pruned)
        BY <1>1, <2>1, <2>2, EntryAdds
      <3>2. prunedTotal \in Nat /\ prunedTotal' = prunedTotal
        BY DEF IInv, TypeOK
      <3> QED
        BY <2>2, <3>1, <3>2
    <2>4. pc' = "work" /\ todo' = todo \ {c} /\ results'[c] = entry
          /\ \A d \in Collections : d # c => results'[d] = results[d]
      BY <2>1, EntryOf DEF Record
    <2>5. \A d \in Collections : Reported(d)' = Reported(d)
      BY <1>1, <2>2, <2>4 DEF Reported, ReportInv, Reporting
    <2>6. \A d \in Collections : SpanIsTrue(d)'
      BY <1>1, <2>2, <2>4 DEF SpanIsTrue, ReportInv, Reporting
    <2> QED
      BY <1>1, <2>2, <2>3, <2>4, <2>5, <2>6 DEF ReportInv, Reporting
  <1> QED
    BY <1>2, <1>3

LEMMA BeginReports ==
  ASSUME IInv, ReportInv, NEW r \in Requests, NEW scope \in ScopesOf(r), Begin(r, scope)
  PROVE  ReportInv'
  <1>1. results' = NoResults /\ prunedTotal' = 0 /\ logBefore' = log' /\ pc' # "idle"
    BY DEF Begin, Finish, store, IInv, Idle, ReportInv
  <1>2. [d \in Collections |-> PrunedCount(d)]' \in [Collections -> {0}]
    BY <1>1 DEF PrunedCount, NoResults
  <1>3. SumFunction([d \in Collections |-> PrunedCount(d)])' = 0
    BY <1>2, SumOfZeros, CollectionsAssumption
  <1>4. \A d \in Collections : Reported(d)' = {}
    BY <1>1 DEF Reported, NoResults
  <1>5. \A d \in Collections : SpanIsTrue(d)'
    BY <1>1 DEF SpanIsTrue, NoResults
  <1> QED
    BY <1>1, <1>3, <1>4, <1>5 DEF ReportInv, NoResults

LEMMA ReportStep == IInv /\ CurrentInv /\ ReportInv /\ [Next]_vars => ReportInv'
  <1> SUFFICES ASSUME IInv, CurrentInv, ReportInv, [Next]_vars PROVE ReportInv'
    OBVIOUS
  <1>1. ASSUME NEW c \in Collections, Target(c) PROVE ReportInv'
    <2>1. CASE Prune(c)
      BY <2>1, PruneReports
    <2>2. CASE PruneCannotRead(c) \/ PruneCannotPurge(c)
      <3>1. Candidates(c) \in SUBSET Rows /\ Candidates(c) \subseteq log[c]
        BY CandidatesAreRows DEF IInv
      <3>2. Selected(Candidates(c), request.policy) \in SUBSET log[c]
        BY <3>1, SelectedAreRows
      <3> QED
        BY <2>2, <3>1, <3>2, FailureReports DEF PruneCannotRead, PruneCannotPurge, PurgeFailed,
           store
    <2>3. CASE Backfill(c) \/ BackfillFails(c) \/ PurgeCompacted(c) \/ PurgeCompactedFails(c)
      <3>1. request'.op = "compact" /\ pc' # "idle"
        BY <2>3, CollectionsAssumption DEF Backfill, BackfillFails, PurgeCompacted,
           PurgeCompactedFails, Working, FailOne, Record, Finish, CurrentInv
      <3> QED
        BY <3>1 DEF ReportInv
    <2> QED
      BY <1>1, <2>1, <2>2, <2>3 DEF Target
  <1>2. CASE Start
    <2>1. ASSUME NEW r \in Requests, Refuse(r) PROVE ReportInv'
      BY <2>1 DEF Refuse, Finish, ReportInv
    <2> QED
      BY <1>2, <2>1, BeginReports DEF Start
  <1>3. CASE Crash \/ ConfigureFails \/ Acknowledge \/ \E c \in Collections : MigrateFails(c)
    BY <1>3 DEF Crash, ConfigureFails, Acknowledge, MigrateFails, Finish, ReportInv
  <1>4. CASE Migrate \/ Return
    BY <1>4, ReportStays DEF Migrate, Return, store, response, Reporting
  <1>5. CASE Database
    BY <1>5 DEF Database, Write, Apply, progress, response, ReportInv, IInv, Busy
  <1>6. CASE Tick \/ SetClockBack \/ UNCHANGED vars
    BY <1>6, ReportStays DEF Tick, SetClockBack, vars, store, progress, response, Reporting
  <1> QED
    BY <1>1, <1>2, <1>3, <1>4, <1>5, <1>6 DEF Next

LEMMA AnswerInductive == Spec => []AnswerInv
  <1>1. Init => AnswerInv
    BY DEF Init, AnswerInv, SequenceInv, CurrentInv, ResultInv, ReportInv, OneRowPerSeq,
       NoRows, NoResults
  <1>2. IInv /\ AnswerInv /\ [Next]_vars => AnswerInv'
    BY SequenceStep, CurrentStep, ResultStep, ReportStep DEF AnswerInv
  <1> QED
    BY <1>1, <1>2, Inductive, PTL DEF Spec

\* A byte budget is honoured, and no more is given up for it than it takes.
THEOREM BudgetsAreKept == Spec => []PrunedIsNeeded
  <1>1. IInv /\ AnswerInv => PrunedIsNeeded
    <2> SUFFICES ASSUME IInv, ResultInv, NEW c \in Collections, results[c] # None,
                        request.op = "prune", ~results[c].error, request.policy.maxBytes # None
                 PROVE  LET left == Bytes(Kept(c)) IN
                        /\ results[c].pruned # {} =>
                             left + Youngest(results[c].pruned).bytes > request.policy.maxBytes
                        /\ request.policy.maxAge = None /\ request.policy.high = None =>
                             left <= request.policy.maxBytes
      BY DEF PrunedIsNeeded, AnswerInv
    <2> DEFINE rows == results[c].candidates
               gone == results[c].pruned
               limit == request.policy.maxBytes
    <2>1. request.policy \in PolicyType
      BY RequestsAssumption DEF IInv, Busy, Idle, NoResults, RequestType
    <2>2. limit \in Nat
      BY <2>1 DEF PolicyType, Limit
    <2>3. rows \in SUBSET Rows
      BY DEF IInv, TypeOK, ResultType
    <2>4. IsFiniteSet(rows) /\ OneRowPerSeq(rows) /\ gone = Selected(rows, request.policy)
      BY DEF ResultInv
    <2>5. gone \subseteq DownTo(rows, limit)
      BY <2>4 DEF Selected
    <2>6. request.policy.maxAge = None /\ request.policy.high = None => gone = DownTo(rows, limit)
      BY <2>4 DEF Selected, HasPolicy, DownTo
    <2> HIDE DEF rows, gone, limit
    <2>7. /\ gone # {} => Bytes(rows \ gone) + Youngest(gone).bytes > limit
          /\ gone = DownTo(rows, limit) => Bytes(rows \ gone) <= limit
      BY <2>2, <2>3, <2>4, <2>5, DownToIsNeeded
    <2> QED
      BY <2>6, <2>7 DEF rows, gone, limit, Kept
  <1> QED
    BY <1>1, Inductive, AnswerInductive, PTL

\* However the system clock is set back, a maximum age never prunes a row that has
\* a time and is younger; rows without one count as the oldest.
THEOREM OnlyOldRowsArePruned == Spec => []PrunedIsOldEnough
  <1>1. IInv /\ AnswerInv => PrunedIsOldEnough
    <2> SUFFICES ASSUME IInv, ResultInv, NEW c \in Collections, results[c] # None,
                        request.op = "prune", ~results[c].error, OnlyByAge(request.policy)
                 PROVE  UnknownGoFirst(c, clockRead - request.policy.maxAge)
      BY DEF PrunedIsOldEnough, AnswerInv, IInv
    <2> DEFINE rows == results[c].candidates
               cutoff == clockRead - request.policy.maxAge
    <2>1. rows \in SUBSET Rows /\ results[c].pruned = Selected(rows, request.policy)
      BY DEF IInv, TypeOK, ResultType, ResultInv
    <2>2. Selected(rows, request.policy) = OlderThan(rows, request.policy.maxAge)
      BY DEF Selected, OnlyByAge, HasPolicy, OlderThan
    <2>3. cutoff \in Int
      <3>1. request.policy \in PolicyType
        BY DEF IInv, Busy, Idle, NoResults, RequestType
      <3> QED
        BY <3>1 DEF PolicyType, Limit, OnlyByAge, IInv, TypeOK
    <2> SUFFICES ASSUME Epoch < cutoff, NEW r \in Kept(c), r.created = None
                 PROVE  \E q \in Kept(c) : q.seq < r.seq /\ q.created # None /\ q.created >= cutoff
      BY DEF UnknownGoFirst
    <2>4. r \in rows /\ r \notin OlderThan(rows, request.policy.maxAge)
      BY <2>1, <2>2 DEF Kept
    <2>5. PICK q \in rows : q.seq <= r.seq /\ ~(CreatedAtSecs(q) < cutoff)
      BY <2>4 DEF OlderThan
    <2>6. q \in Rows /\ r \in Rows
      BY <2>1, <2>4
    <2>7. q.created # None /\ q.created >= cutoff
      BY <2>3, <2>5, <2>6 DEF CreatedAtSecs, Rows
    <2>8. q \in Kept(c)
      BY <2>1, <2>2, <2>5, <2>6 DEF Kept, OlderThan, Rows
    <2>9. q.seq < r.seq
      <3>1. q # r
        BY <2>7
      <3>2. q.seq # r.seq
        BY <2>4, <3>1 DEF ResultInv, OneRowPerSeq
      <3> QED
        BY <2>5, <2>6, <3>2 DEF Rows
    <2> QED
      BY <2>7, <2>8, <2>9
  <1> QED
    BY <1>1, Inductive, AnswerInductive, PTL

\* What a prune reports is what it did; the range of sequence ids of a collection
\* that could not be purged is that of rows still in its log.
THEOREM ReportsAreTrue == Spec => []ReportIsTrue
  <1>1. AnswerInv => ReportIsTrue
    BY DEF AnswerInv, ReportInv, ReportIsTrue, Reported, PrunedCount
  <1> QED
    BY <1>1, AnswerInductive, PTL
=============================================================================
