------------------------- MODULE IndexRebuild_proofs -------------------------
(***************************************************************************)
(* Proofs about IndexRebuild for any ids and payloads, and for any bounds. *)
(***************************************************************************)
EXTENDS IndexRebuild, TLAPS

USE BoundsAssumption, PayloadsAssumption, NoneAssumption, NoIndexAssumption

\* Setting the entry of a record changes that entry and the counter only.
LEMMA WithRecordFacts ==
  ASSUME NEW x \in Index, NEW i \in Ids, NEW e \in Entry \cup {None}, NEW t \in 0..MaxTotal
  PROVE  /\ WithRecord(x, i, e, t) \in Index /\ WithRecord(x, i, e, t) # None
         /\ WithRecord(x, i, e, t).meta = x.meta /\ WithRecord(x, i, e, t).total = t
         /\ WithRecord(x, i, e, t).map[i] = e
         /\ \A j \in Ids : j # i => WithRecord(x, i, e, t).map[j] = x.map[j]
  <1>1. WithRecord(x, i, e, t) \in Index
    BY DEF WithRecord, Index
  <1> QED
    BY <1>1 DEF WithRecord, Index

\* Damage to the metadata file leaves label counter and map alone.
LEMMA DamagedFacts ==
  ASSUME NEW x \in Index
  PROVE  Damaged(x) \in Index /\ Damaged(x).map = x.map /\ Damaged(x).total = x.total
  BY DEF Damaged, Index

\* So does saving it.
LEMMA SavedFacts ==
  ASSUME NEW x \in Index
  PROVE  LET y == [x EXCEPT !.meta = "ok"]
         IN  y \in Index /\ y.map = x.map /\ y.total = x.total /\ y.meta = "ok"
  BY DEF Index

\* An index without records is an index, and has nothing wrong with its labels.
LEMMA EmptyIsIndex ==
  ASSUME NEW m \in {"ok", "missing", "invalid"}
  PROVE  EmptyIndex(m, 0) \in Index /\ LabelsOK(EmptyIndex(m, 0))
  BY DEF EmptyIndex, Index, LabelsOK, Has

\* The records of an index are payloads.
LEMMA RecordsType ==
  ASSUME NEW x \in Index
  PROVE  RecordsOf(x) \in [Ids -> Payloads \cup {Lost, None}]
  BY DEF RecordsOf, Index, Entry, Has

\* The invariant holds before the first rebuild.
THEOREM InitIInv == Init => IInv
  <1> SUFFICES ASSUME Init PROVE IInv
    OBVIOUS
  <1>1. source \in Index \cup {None} /\ (source # None => LabelsOK(source))
    BY EmptyIsIndex DEF Init
  <1>2. TypeOK
    <2>1. records \in [Ids -> Payloads \cup {Lost, None}]
      BY DEF Init
    <2>2. moved \in [1..MaxRuns -> Index \cup {None}] /\ run \in 0..MaxRuns
      BY DEF Init
    <2> QED
      BY <1>1, <2>1, <2>2 DEF Init, TypeOK, PCs, Outcomes
  <1>3. ~HasRecords
    BY DEF Init, HasRecords
  <1>4. AllLabelsOK
    BY <1>1 DEF Init, AllLabelsOK
  <1>5. source # None => RecordsOf(source) = records
    BY DEF Init, RecordsOf, EmptyIndex, Has
  <1> QED
    BY <1>2, <1>3, <1>4, <1>5 DEF Init, IInv, SourceInv, TempInv, MovedInv, CacheInv, ArmedInv, IndexSurvives

\* A record may take a label that no other record has and the counter covers.
LEMMA WithRecordLabels ==
  ASSUME NEW x \in Index, LabelsOK(x), NEW i \in Ids, NEW e \in Entry,
         NEW t \in 0..MaxTotal, x.total <= t, e.label <= t,
         \A j \in Ids : j # i /\ Has(x, j) => x.map[j].label # e.label
  PROVE  LabelsOK(WithRecord(x, i, e, t))
  <1> DEFINE y == WithRecord(x, i, e, t)
  <1>1. y.total = t /\ y.map[i] = e /\ \A j \in Ids : j # i => y.map[j] = x.map[j]
    BY WithRecordFacts
  <1>2. x.total \in Nat /\ \A j \in Ids : Has(x, j) => x.map[j].label \in 1..MaxTotal
    BY DEF Index, Entry, Has
  <1> HIDE DEF y
  <1>3. ASSUME NEW j \in Ids, Has(y, j)
        PROVE  y.map[j].label <= y.total
    <2>1. CASE j = i
      BY <1>1, <2>1
    <2>2. CASE j # i
      <3>1. Has(x, j) /\ y.map[j] = x.map[j]
        BY <1>1, <1>3, <2>2 DEF Has
      <3>2. x.map[j].label <= x.total
        BY <3>1 DEF LabelsOK
      <3> QED
        BY <1>1, <1>2, <3>1, <3>2
    <2> QED
      BY <2>1, <2>2
  <1>4. ASSUME NEW j \in Ids, NEW k \in Ids, Has(y, j), Has(y, k), y.map[j].label = y.map[k].label
        PROVE  j = k
    <2>1. CASE j # i /\ k # i
      BY <1>1, <1>4, <2>1 DEF LabelsOK, Has
    <2>2. CASE j = i \/ k = i
      BY <1>1, <1>4, <2>2 DEF Has
    <2> QED
      BY <2>1, <2>2
  <1>5. LabelsOK(y)
    BY <1>3, <1>4 DEF LabelsOK
  <1> QED
    BY <1>5 DEF y

\* A write reaches the index and the history alike.
LEMMA PutPreserves ==
  ASSUME IInv, NEW i \in Ids, NEW p \in Payloads \cup {Lost}, Put(i, p)
  PROVE  IInv'
  <1> USE DEF Put, dirs, IInv, TypeOK
  <1> DEFINE label == IF Has(source, i) THEN source.map[i].label ELSE source.total + 1
             total == IF Has(source, i) THEN source.total ELSE source.total + 1
             entry == [label |-> label, payload |-> p]
  <1>a. source \in Index /\ source.total \in Nat /\ LabelsOK(source)
    BY DEF AllLabelsOK, Index
  <1>b. label \in 1..MaxTotal /\ total \in 0..MaxTotal /\ label <= total /\ source.total <= total
    BY <1>a DEF Index, Entry, Has, LabelsOK
  <1>c. entry \in Entry /\ entry.label = label
    BY <1>b DEF Entry
  <1>d. source' = WithRecord(source, i, entry, total)
    OBVIOUS
  <1>e. \A j \in Ids : j # i /\ Has(source, j) => source.map[j].label # label
    <2>1. CASE Has(source, i)
      BY <1>a, <2>1 DEF LabelsOK
    <2>2. CASE ~Has(source, i)
      <3> SUFFICES ASSUME NEW j \in Ids, Has(source, j)
                   PROVE  source.map[j].label # source.total + 1
        BY <2>2
      <3>1. source.map[j].label <= source.total /\ source.map[j].label \in Nat
        BY <1>a DEF LabelsOK, Index, Entry, Has
      <3> QED
        BY <1>a, <3>1
    <2> QED
      BY <2>1, <2>2
  <1> HIDE DEF label, total, entry
  <1>f. source' \in Index /\ source' # None /\ source'.meta = "ok"
    BY <1>a, <1>b, <1>c, <1>d, WithRecordFacts
  <1>g. LabelsOK(source')
    BY <1>a, <1>b, <1>c, <1>d, <1>e, WithRecordLabels
  <1>h. records' = RecordsOf(source)'
    BY DEF RecordsOf, Has
  <1>1. TypeOK'
    BY <1>f, <1>h, RecordsType
  <1>2. AllLabelsOK'
    BY <1>g DEF AllLabelsOK
  <1>3. SourceInv'
    BY <1>f, <1>h DEF SourceInv
  <1>4. TempInv'
    BY DEF TempInv, Remaining, SourceInv, ArmedInv, Intact, HasRecords
  <1>5. MovedInv'
    BY DEF MovedInv, SourceInv, Intact
  <1>6. CacheInv'
    BY DEF CacheInv
  <1>7. ArmedInv'
    BY DEF ArmedInv
  <1>8. IndexSurvives'
    BY <1>f, <1>h DEF IndexSurvives, Intact
  <1> QED
    BY <1>1, <1>2, <1>3, <1>4, <1>5, <1>6, <1>7, <1>8

\* So does a delete.
LEMMA DeletePreserves ==
  ASSUME IInv, NEW i \in Ids, Delete(i)
  PROVE  IInv'
  <1> USE DEF Delete, dirs, IInv, TypeOK
  <1>a. source \in Index /\ source.total \in 0..MaxTotal /\ source' = WithRecord(source, i, None, source.total)
    BY DEF Index
  <1>b. /\ source' \in Index /\ source' # None /\ source'.meta = "ok" /\ source'.total = source.total
        /\ source'.map[i] = None
        /\ \A j \in Ids : j # i => source'.map[j] = source.map[j]
    BY <1>a, WithRecordFacts
  <1>c. records' = RecordsOf(source)'
    BY DEF RecordsOf, Has
  <1>d. LabelsOK(source')
    BY <1>a, <1>b DEF AllLabelsOK, LabelsOK, Has
  <1>1. TypeOK'
    BY <1>b, <1>c, RecordsType
  <1>2. AllLabelsOK'
    BY <1>d DEF AllLabelsOK
  <1>3. SourceInv'
    BY <1>b, <1>c DEF SourceInv
  <1>4. TempInv'
    BY DEF TempInv, Remaining, SourceInv, ArmedInv, Intact, HasRecords
  <1>5. MovedInv'
    BY DEF MovedInv, SourceInv, Intact
  <1>6. CacheInv'
    BY DEF CacheInv
  <1>7. ArmedInv'
    BY DEF ArmedInv
  <1>8. IndexSurvives'
    BY <1>b, <1>c DEF IndexSurvives, Intact
  <1> QED
    BY <1>1, <1>2, <1>3, <1>4, <1>5, <1>6, <1>7, <1>8

\* What is opened is what is on disk.
LEMMA OpenPreserves ==
  ASSUME IInv, Open
  PROVE  IInv'
  <1> USE DEF Open, dirs, IInv, TypeOK
  <1>1. TypeOK'
    BY DEF Index, Entry, PCs, Outcomes, RecordsOf, Has
  <1>2. AllLabelsOK'
    BY DEF AllLabelsOK, LabelsOK, Has, Index, Entry
  <1>3. SourceInv'
    BY DEF SourceInv, Intact, HasRecords, RecordsOf, Has, MovedInv, TempInv
  <1>4. TempInv'
    BY DEF TempInv, Remaining, SourceInv, ArmedInv, Intact, HasRecords
  <1>5. MovedInv'
    BY DEF MovedInv, SourceInv, Intact
  <1>6. CacheInv'
    BY DEF CacheInv
  <1>7. ArmedInv'
    BY DEF ArmedInv
  <1>8. IndexSurvives'
    BY DEF IndexSurvives, SourceInv, MovedInv, Intact, HasRecords
  <1> QED
    BY <1>1, <1>2, <1>3, <1>4, <1>5, <1>6, <1>7, <1>8

\* A rebuild goes on only with an index that has records.
LEMMA BeginPreserves ==
  ASSUME IInv, NEW precheck \in BOOLEAN, NEW k \in BOOLEAN, Begin(precheck, k)
  PROVE  IInv'
  <1> USE DEF Begin, Answer, Empty, dirs, IInv, TypeOK
  <1>1. TypeOK'
    <2>1. run' \in 0..MaxRuns
      OBVIOUS
    <2>2. pc' \in PCs /\ outcome' \in Outcomes
      BY DEF PCs, Outcomes
    <2> QED
      BY <2>1, <2>2
  <1>2. AllLabelsOK'
    BY DEF AllLabelsOK, LabelsOK, Has, Index, Entry
  <1>3. SourceInv'
    <2>1. pc' \in {"idle", "create"} /\ UNCHANGED <<source, records>>
      OBVIOUS
    <2>2. ASSUME pc' = "create"
          PROVE  source # None /\ HasRecords
      <3>1. source # None /\ source \in Index /\ ~Empty(source)
        BY <2>2
      <3>2. PICK i \in Ids : Has(source, i)
        BY <3>1 DEF Empty
      <3>3. source.map[i] \in Entry
        BY <3>1, <3>2 DEF Has, Index
      <3>4. source.map[i].payload # None
        BY <3>3 DEF Entry
      <3>5. RecordsOf(source)[i] # None
        BY <3>2, <3>4 DEF RecordsOf
      <3>6. RecordsOf(source) = records
        BY <3>1 DEF SourceInv
      <3> QED
        BY <3>1, <3>5, <3>6 DEF HasRecords
    <2> QED
      BY <2>1, <2>2 DEF SourceInv, HasRecords, Intact, RecordsOf, Has
  <1>4. TempInv'
    BY DEF TempInv, Remaining, SourceInv, ArmedInv, Intact, HasRecords
  <1>5. MovedInv'
    BY DEF MovedInv, SourceInv, Intact
  <1>6. CacheInv'
    BY DEF CacheInv
  <1>7. ArmedInv'
    BY DEF ArmedInv
  <1>8. IndexSurvives'
    BY DEF IndexSurvives, SourceInv, MovedInv, Intact, HasRecords
  <1> QED
    BY <1>1, <1>2, <1>3, <1>4, <1>5, <1>6, <1>7, <1>8

\* A rebuild that cannot read the index touches nothing.
LEMMA BeginFailsPreserves ==
  ASSUME IInv, BeginFails
  PROVE  IInv'
  <1> USE DEF BeginFails, Answer, dirs, IInv, TypeOK
  <1>1. TypeOK'
    BY DEF Index, Entry, PCs, Outcomes, RecordsOf, Has
  <1>2. AllLabelsOK'
    BY DEF AllLabelsOK, LabelsOK, Has, Index, Entry
  <1>3. SourceInv'
    BY DEF SourceInv, Intact, HasRecords, RecordsOf, Has, MovedInv, TempInv
  <1>4. TempInv'
    BY DEF TempInv, Remaining, SourceInv, ArmedInv, Intact, HasRecords
  <1>5. MovedInv'
    BY DEF MovedInv, SourceInv, Intact
  <1>6. CacheInv'
    BY DEF CacheInv
  <1>7. ArmedInv'
    BY DEF ArmedInv
  <1>8. IndexSurvives'
    BY DEF IndexSurvives, SourceInv, MovedInv, Intact, HasRecords
  <1> QED
    BY <1>1, <1>2, <1>3, <1>4, <1>5, <1>6, <1>7, <1>8

\* The temporary index starts without records.
LEMMA CreatePreserves ==
  ASSUME IInv, Create
  PROVE  IInv'
  <1> USE DEF Create, EmptyIndex, dirs, IInv, TypeOK
  <1>1. TypeOK'
    BY DEF Index, Entry, PCs, Outcomes, RecordsOf, Has
  <1>2. AllLabelsOK'
    BY DEF AllLabelsOK, LabelsOK, Has, Index, Entry
  <1>3. SourceInv'
    BY DEF SourceInv, Intact, HasRecords, RecordsOf, Has, MovedInv, TempInv
  <1>4. TempInv'
    <2>1. source \in Index /\ \A i \in Ids : ~Has(temp', i)
      BY DEF Has, SourceInv
    <2>2. temp' # None /\ temp'.total = 0
      BY NoIndexAssumption, EmptyIsIndex
    <2>3. \A i \in Ids : Has(source, i) => 0 < source.map[i].label
      BY <2>1 DEF Index, Entry, Has
    <2> QED
      BY <2>1, <2>2, <2>3 DEF TempInv, Remaining, Has
  <1>5. MovedInv'
    BY DEF MovedInv, SourceInv, Intact
  <1>6. CacheInv'
    BY DEF CacheInv
  <1>7. ArmedInv'
    BY DEF ArmedInv
  <1>8. IndexSurvives'
    BY DEF IndexSurvives, SourceInv, MovedInv, Intact, HasRecords
  <1> QED
    BY <1>1, <1>2, <1>3, <1>4, <1>5, <1>6, <1>7, <1>8

\* A copied record takes a label below those of the records still to come.
LEMMA FillPreserves ==
  ASSUME IInv, NEW i \in Ids, Fill(i)
  PROVE  IInv'
  <1> USE DEF Fill, NewLabel, dirs, IInv, TypeOK
  <1> DEFINE next == temp.total + 1
             entry == [label |-> next, payload |-> source.map[i].payload]
  <1>a. /\ source \in Index /\ temp \in Index /\ temp.total < source.map[i].label
        /\ LabelsOK(source) /\ LabelsOK(temp)
    BY DEF SourceInv, TempInv, AllLabelsOK
  <1>b. source.map[i] \in Entry /\ temp.total \in 0..MaxTotal
    BY <1>a DEF Remaining, Has, Index
  <1>c. next \in 1..MaxTotal /\ next \in 0..MaxTotal
    BY <1>a, <1>b DEF Entry
  <1>d. entry \in Entry /\ entry.label = next /\ entry.payload = source.map[i].payload
    BY <1>b, <1>c DEF Entry
  <1>e. temp' = WithRecord(temp, i, entry, next)
    OBVIOUS
  <1>f. temp.total <= next /\ entry.label <= next
    BY <1>b, <1>d
  <1>g. \A j \in Ids : j # i /\ Has(temp, j) => temp.map[j].label # entry.label
    <2> SUFFICES ASSUME NEW j \in Ids, Has(temp, j) PROVE temp.map[j].label # next
      BY <1>d
    <2>1. temp.map[j].label <= temp.total /\ temp.map[j].label \in Nat
      BY <1>a DEF LabelsOK, Index, Entry, Has
    <2> QED
      BY <1>b, <2>1
  <1> HIDE DEF entry
  <1>h. /\ temp' \in Index /\ temp' # None /\ temp'.total = next /\ temp'.map[i] = entry
        /\ \A j \in Ids : j # i => temp'.map[j] = temp.map[j]
    <2> HIDE DEF next
    <2>1. entry \in Entry \cup {None}
      BY <1>d
    <2>2. /\ WithRecord(temp, i, entry, next) \in Index /\ WithRecord(temp, i, entry, next) # None
          /\ WithRecord(temp, i, entry, next).total = next
          /\ WithRecord(temp, i, entry, next).map[i] = entry
          /\ \A j \in Ids : j # i => WithRecord(temp, i, entry, next).map[j] = temp.map[j]
      BY <1>a, <1>c, <2>1, WithRecordFacts
    <2> QED
      BY <1>e, <2>2
  <1>i. LabelsOK(temp')
    BY <1>a, <1>c, <1>d, <1>e, <1>f, <1>g, WithRecordLabels
  <1>1. TypeOK'
    BY <1>h
  <1>2. AllLabelsOK'
    BY <1>i DEF AllLabelsOK
  <1>3. SourceInv'
    BY DEF SourceInv, Intact, HasRecords, RecordsOf, Has, MovedInv, TempInv
  <1>4. TempInv'
    <2>1. ASSUME NEW j \in Remaining'
          PROVE  temp'.total < source.map[j].label
      <3>1. j # i /\ j \in Remaining
        BY <1>d, <1>h DEF Remaining, Has
      <3>2. /\ source.map[i].label \in 1..MaxTotal /\ source.map[j].label \in 1..MaxTotal
            /\ temp.total \in Nat
        BY <1>a, <3>1 DEF Remaining, Has, Index, Entry
      <3>3. temp.total < source.map[i].label /\ source.map[i].label <= source.map[j].label
        BY <1>a, <3>1
      <3>4. source.map[i].label # source.map[j].label
        BY <1>a, <3>1 DEF LabelsOK, Remaining
      <3> QED
        BY <1>h, <3>2, <3>3, <3>4
    <2>2. \A j \in Ids : Has(temp', j) =>
            Has(source', j) /\ temp'.map[j].payload = source'.map[j].payload
      BY <1>d, <1>h DEF TempInv, Has, Remaining
    <2> QED
      BY <1>h, <2>1, <2>2 DEF TempInv
  <1>5. MovedInv'
    BY DEF MovedInv, SourceInv, Intact
  <1>6. CacheInv'
    BY DEF CacheInv
  <1>7. ArmedInv'
    BY DEF ArmedInv
  <1>8. IndexSurvives'
    BY DEF IndexSurvives, SourceInv, MovedInv, Intact, HasRecords
  <1> QED
    BY <1>1, <1>2, <1>3, <1>4, <1>5, <1>6, <1>7, <1>8

\* A missing embedding ends the rebuild before the swap.
LEMMA FillInconsistentPreserves ==
  ASSUME IInv, NEW i \in Ids, FillInconsistent(i)
  PROVE  IInv'
  <1> USE DEF FillInconsistent, Answer, DropGuard, dirs, IInv, TypeOK
  <1>1. TypeOK'
    BY DEF Index, Entry, PCs, Outcomes, RecordsOf, Has
  <1>2. AllLabelsOK'
    BY DEF AllLabelsOK, LabelsOK, Has, Index, Entry
  <1>3. SourceInv'
    BY DEF SourceInv, Intact, HasRecords, RecordsOf, Has, MovedInv, TempInv
  <1>4. TempInv'
    BY DEF TempInv, Remaining, SourceInv, ArmedInv, Intact, HasRecords
  <1>5. MovedInv'
    BY DEF MovedInv, SourceInv, Intact
  <1>6. CacheInv'
    BY DEF CacheInv
  <1>7. ArmedInv'
    BY DEF ArmedInv
  <1>8. IndexSurvives'
    BY DEF IndexSurvives, SourceInv, MovedInv, Intact, HasRecords
  <1> QED
    BY <1>1, <1>2, <1>3, <1>4, <1>5, <1>6, <1>7, <1>8

\* A saved temporary index has all the records.
LEMMA SavePreserves ==
  ASSUME IInv, Save
  PROVE  IInv'
  <1> USE DEF Save, Filled, dirs, IInv, TypeOK
  <1>1. TypeOK'
    BY SavedFacts DEF PCs, TempInv
  <1>2. AllLabelsOK'
    <2>1. temp \in Index /\ temp'.map = temp.map /\ temp'.total = temp.total
      BY SavedFacts DEF TempInv
    <2> QED
      BY <2>1 DEF AllLabelsOK, LabelsOK, Has, TempInv
  <1>3. SourceInv'
    BY DEF SourceInv, Intact, HasRecords, RecordsOf, Has, MovedInv, TempInv
  <1>4. TempInv'
    <2>1. temp \in Index /\ temp' \in Index /\ temp'.map = temp.map /\ temp'.meta = "ok"
      BY SavedFacts DEF TempInv
    <2>2. \A i \in Ids : Has(temp, i) = Has(source, i)
      BY DEF TempInv, Filled, Remaining, Has
    <2>3. RecordsOf(temp)' = RecordsOf(source)
      BY <2>1, <2>2 DEF TempInv, RecordsOf, Has
    <2>4. RecordsOf(source) = records
      BY DEF SourceInv, Intact
    <2> QED
      BY <2>1, <2>3, <2>4 DEF TempInv, Intact
  <1>5. MovedInv'
    BY DEF MovedInv, SourceInv, Intact
  <1>6. CacheInv'
    BY DEF CacheInv
  <1>7. ArmedInv'
    BY DEF ArmedInv
  <1>8. IndexSurvives'
    BY DEF IndexSurvives, SourceInv, MovedInv, Intact, HasRecords
  <1> QED
    BY <1>1, <1>2, <1>3, <1>4, <1>5, <1>6, <1>7, <1>8

\* After the reset the manager holds no index open.
LEMMA ResetBeforePreserves ==
  ASSUME IInv, ResetBefore
  PROVE  IInv'
  <1> USE DEF ResetBefore, ResetManager, dirs, IInv, TypeOK
  <1>1. TypeOK'
    BY DEF Index, Entry, PCs, Outcomes, RecordsOf, Has
  <1>2. AllLabelsOK'
    BY DEF AllLabelsOK, LabelsOK, Has, Index, Entry
  <1>3. SourceInv'
    BY DEF SourceInv, Intact, HasRecords, RecordsOf, Has, MovedInv, TempInv
  <1>4. TempInv'
    BY DEF TempInv, Remaining, SourceInv, ArmedInv, Intact, HasRecords
  <1>5. MovedInv'
    BY DEF MovedInv, SourceInv, Intact
  <1>6. CacheInv'
    BY DEF CacheInv
  <1>7. ArmedInv'
    BY DEF ArmedInv
  <1>8. IndexSurvives'
    BY DEF IndexSurvives, SourceInv, MovedInv, Intact, HasRecords
  <1> QED
    BY <1>1, <1>2, <1>3, <1>4, <1>5, <1>6, <1>7, <1>8

\* A failure before the swap leaves the source alone.
LEMMA StepFailsPreserves ==
  ASSUME IInv, StepFails
  PROVE  IInv'
  <1> USE DEF StepFails, FailEarly, Answer, DropGuard, dirs, IInv, TypeOK
  <1>1. TypeOK'
    BY DEF Index, Entry, PCs, Outcomes, RecordsOf, Has
  <1>2. AllLabelsOK'
    BY DEF AllLabelsOK, LabelsOK, Has, Index, Entry
  <1>3. SourceInv'
    BY DEF SourceInv, Intact, HasRecords, RecordsOf, Has, MovedInv, TempInv
  <1>4. TempInv'
    BY DEF TempInv, Remaining, SourceInv, ArmedInv, Intact, HasRecords
  <1>5. MovedInv'
    BY DEF MovedInv, SourceInv, Intact
  <1>6. CacheInv'
    BY DEF CacheInv
  <1>7. ArmedInv'
    BY DEF ArmedInv
  <1>8. IndexSurvives'
    BY DEF IndexSurvives, SourceInv, MovedInv, Intact, HasRecords
  <1> QED
    BY <1>1, <1>2, <1>3, <1>4, <1>5, <1>6, <1>7, <1>8

\* The old index moves aside as it is.
LEMMA StagePreserves ==
  ASSUME IInv, Stage
  PROVE  IInv'
  <1> USE DEF Stage, StageSource, dirs, IInv, TypeOK
  <1>1. TypeOK'
    BY DEF Index, Entry, PCs, Outcomes, RecordsOf, Has
  <1>2. AllLabelsOK'
    BY DEF AllLabelsOK, LabelsOK, Has, Index, Entry
  <1>3. SourceInv'
    BY DEF SourceInv, Intact, HasRecords, RecordsOf, Has, MovedInv, TempInv
  <1>4. TempInv'
    BY DEF TempInv, Remaining, SourceInv, ArmedInv, Intact, HasRecords
  <1>5. MovedInv'
    BY DEF MovedInv, SourceInv, Intact
  <1>6. CacheInv'
    BY DEF CacheInv
  <1>7. ArmedInv'
    BY DEF ArmedInv
  <1>8. IndexSurvives'
    BY DEF IndexSurvives, SourceInv, MovedInv, Intact, HasRecords
  <1> QED
    BY <1>1, <1>2, <1>3, <1>4, <1>5, <1>6, <1>7, <1>8

\* A failed first rename moves nothing.
LEMMA StageFailsPreserves ==
  ASSUME IInv, StageFails
  PROVE  IInv'
  <1> USE DEF StageFails, dirs, IInv, TypeOK
  <1>1. TypeOK'
    BY DEF Index, Entry, PCs, Outcomes, RecordsOf, Has
  <1>2. AllLabelsOK'
    BY DEF AllLabelsOK, LabelsOK, Has, Index, Entry
  <1>3. SourceInv'
    BY DEF SourceInv, Intact, HasRecords, RecordsOf, Has, MovedInv, TempInv
  <1>4. TempInv'
    BY DEF TempInv, Remaining, SourceInv, ArmedInv, Intact, HasRecords
  <1>5. MovedInv'
    BY DEF MovedInv, SourceInv, Intact
  <1>6. CacheInv'
    BY DEF CacheInv
  <1>7. ArmedInv'
    BY DEF ArmedInv
  <1>8. IndexSurvives'
    BY DEF IndexSurvives, SourceInv, MovedInv, Intact, HasRecords
  <1> QED
    BY <1>1, <1>2, <1>3, <1>4, <1>5, <1>6, <1>7, <1>8

\* The new index takes the place of the old one.
LEMMA ActivatePreserves ==
  ASSUME IInv, Activate
  PROVE  IInv'
  <1> USE DEF Activate, dirs, IInv, TypeOK
  <1>1. TypeOK'
    BY DEF Index, Entry, PCs, Outcomes, RecordsOf, Has
  <1>2. AllLabelsOK'
    BY DEF AllLabelsOK, LabelsOK, Has, Index, Entry
  <1>3. SourceInv'
    BY DEF SourceInv, Intact, HasRecords, RecordsOf, Has, MovedInv, TempInv
  <1>4. TempInv'
    BY DEF TempInv, Remaining, SourceInv, ArmedInv, Intact, HasRecords
  <1>5. MovedInv'
    BY DEF MovedInv, SourceInv, Intact
  <1>6. CacheInv'
    BY DEF CacheInv
  <1>7. ArmedInv'
    BY DEF ArmedInv
  <1>8. IndexSurvives'
    BY DEF IndexSurvives, SourceInv, MovedInv, Intact, HasRecords
  <1> QED
    BY <1>1, <1>2, <1>3, <1>4, <1>5, <1>6, <1>7, <1>8

\* A failed second rename leaves the old index aside.
LEMMA ActivateFailsPreserves ==
  ASSUME IInv, ActivateFails
  PROVE  IInv'
  <1> USE DEF ActivateFails, dirs, IInv, TypeOK
  <1>1. TypeOK'
    BY DEF Index, Entry, PCs, Outcomes, RecordsOf, Has
  <1>2. AllLabelsOK'
    BY DEF AllLabelsOK, LabelsOK, Has, Index, Entry
  <1>3. SourceInv'
    BY DEF SourceInv, Intact, HasRecords, RecordsOf, Has, MovedInv, TempInv
  <1>4. TempInv'
    BY DEF TempInv, Remaining, SourceInv, ArmedInv, Intact, HasRecords
  <1>5. MovedInv'
    BY DEF MovedInv, SourceInv, Intact
  <1>6. CacheInv'
    BY DEF CacheInv
  <1>7. ArmedInv'
    BY DEF ArmedInv
  <1>8. IndexSurvives'
    BY DEF IndexSurvives, SourceInv, MovedInv, Intact, HasRecords
  <1> QED
    BY <1>1, <1>2, <1>3, <1>4, <1>5, <1>6, <1>7, <1>8

\* A rollback brings the old index back.
LEMMA RollbackSourcePreserves ==
  ASSUME IInv, RollbackSource
  PROVE  IInv'
  <1> USE DEF RollbackSource, Rollback, dirs, IInv, TypeOK
  <1>1. TypeOK'
    BY DEF PCs, SourceInv
  <1>2. AllLabelsOK'
    BY DEF AllLabelsOK, SourceInv, MovedInv
  <1>3. SourceInv'
    BY DEF SourceInv, Intact, HasRecords, RecordsOf, Has, MovedInv, TempInv
  <1>4. TempInv'
    BY DEF TempInv, Remaining, SourceInv, ArmedInv, Intact, HasRecords
  <1>5. MovedInv'
    BY DEF MovedInv, SourceInv, Intact
  <1>6. CacheInv'
    BY DEF CacheInv
  <1>7. ArmedInv'
    BY DEF ArmedInv
  <1>8. IndexSurvives'
    BY DEF IndexSurvives, SourceInv, MovedInv, Intact, HasRecords
  <1> QED
    BY <1>1, <1>2, <1>3, <1>4, <1>5, <1>6, <1>7, <1>8

\* After a failed rollback the old index is still where it was moved.
LEMMA RollbackFailsPreserves ==
  ASSUME IInv, RollbackFails
  PROVE  IInv'
  <1> USE DEF RollbackFails, Answer, DropGuard, dirs, IInv, TypeOK
  <1>1. TypeOK'
    BY DEF Index, Entry, PCs, Outcomes, RecordsOf, Has
  <1>2. AllLabelsOK'
    BY DEF AllLabelsOK, LabelsOK, Has, Index, Entry
  <1>3. SourceInv'
    BY DEF SourceInv, Intact, HasRecords, RecordsOf, Has, MovedInv, TempInv
  <1>4. TempInv'
    BY DEF TempInv, Remaining, SourceInv, ArmedInv, Intact, HasRecords
  <1>5. MovedInv'
    BY DEF MovedInv, SourceInv, Intact
  <1>6. CacheInv'
    BY DEF CacheInv
  <1>7. ArmedInv'
    BY DEF ArmedInv
  <1>8. IndexSurvives'
    BY DEF IndexSurvives, SourceInv, MovedInv, Intact, HasRecords
  <1> QED
    BY <1>1, <1>2, <1>3, <1>4, <1>5, <1>6, <1>7, <1>8

\* Reporting a failed swap leaves the index in its place.
LEMMA ReportFailurePreserves ==
  ASSUME IInv, ReportFailure
  PROVE  IInv'
  <1> USE DEF ReportFailure, Answer, DropGuard, dirs, IInv, TypeOK
  <1>1. TypeOK'
    BY DEF Index, Entry, PCs, Outcomes, RecordsOf, Has
  <1>2. AllLabelsOK'
    BY DEF AllLabelsOK, LabelsOK, Has, Index, Entry
  <1>3. SourceInv'
    BY DEF SourceInv, Intact, HasRecords, RecordsOf, Has, MovedInv, TempInv
  <1>4. TempInv'
    BY DEF TempInv, Remaining, SourceInv, ArmedInv, Intact, HasRecords
  <1>5. MovedInv'
    BY DEF MovedInv, SourceInv, Intact
  <1>6. CacheInv'
    BY DEF CacheInv
  <1>7. ArmedInv'
    BY DEF ArmedInv
  <1>8. IndexSurvives'
    BY DEF IndexSurvives, SourceInv, MovedInv, Intact, HasRecords
  <1> QED
    BY <1>1, <1>2, <1>3, <1>4, <1>5, <1>6, <1>7, <1>8

\* The old index goes only after the new one is in its place.
LEMMA FinishSwapPreserves ==
  ASSUME IInv, FinishSwap
  PROVE  IInv'
  <1> USE DEF FinishSwap, Answer, KeepsBackup, ResetManager, dirs, IInv, TypeOK
  <1>1. TypeOK'
    <2>1. run \in 1..MaxRuns /\ moved[run] \in Index
      BY DEF SourceInv, MovedInv
    <2>2. \/ moved' = moved
          \/ moved' = [moved EXCEPT ![run] = None]
          \/ moved' = [moved EXCEPT ![run] = Damaged(moved[run])]
      OBVIOUS
    <2>3. /\ Damaged(moved[run]) \in Index /\ Damaged(moved[run]).map = moved[run].map
          /\ Damaged(moved[run]).total = moved[run].total
      BY <2>1, DamagedFacts
    <2>4. moved' \in [1..MaxRuns -> Index \cup {None}]
      BY <2>1, <2>2, <2>3
    <2> QED
      BY <2>4 DEF PCs, Outcomes
  <1>2. AllLabelsOK'
    <2>1. run \in 1..MaxRuns /\ moved[run] \in Index
      BY DEF SourceInv, MovedInv
    <2>2. \/ moved' = moved
          \/ moved' = [moved EXCEPT ![run] = None]
          \/ moved' = [moved EXCEPT ![run] = Damaged(moved[run])]
      OBVIOUS
    <2>3. /\ Damaged(moved[run]) \in Index /\ Damaged(moved[run]).map = moved[run].map
          /\ Damaged(moved[run]).total = moved[run].total
      BY <2>1, DamagedFacts
    <2>4. LabelsOK(moved[run]) => LabelsOK(Damaged(moved[run]))
      BY <2>3 DEF LabelsOK, Has
    <2>5. ASSUME NEW r \in 1..MaxRuns, moved'[r] # None
          PROVE  LabelsOK(moved'[r])
      BY <2>1, <2>2, <2>4, <2>5 DEF AllLabelsOK
    <2> QED
      BY <2>5 DEF AllLabelsOK
  <1>3. SourceInv'
    BY DEF SourceInv, Intact, HasRecords, RecordsOf, Has, MovedInv, TempInv
  <1>4. TempInv'
    BY DEF TempInv, Remaining, SourceInv, ArmedInv, Intact, HasRecords
  <1>5. MovedInv'
    BY DEF MovedInv, SourceInv, Intact
  <1>6. CacheInv'
    BY DEF CacheInv
  <1>7. ArmedInv'
    BY DEF ArmedInv
  <1>8. IndexSurvives'
    BY DEF IndexSurvives, SourceInv, MovedInv, Intact, HasRecords
  <1> QED
    BY <1>1, <1>2, <1>3, <1>4, <1>5, <1>6, <1>7, <1>8

\* A crash leaves every directory but the temporary one as it is.
LEMMA CrashPreserves ==
  ASSUME IInv, Crash
  PROVE  IInv'
  <1> USE DEF Crash, Answer, dirs, IInv, TypeOK
  <1>1. TypeOK'
    BY DEF Index, Entry, PCs, Outcomes, RecordsOf, Has
  <1>2. AllLabelsOK'
    BY DEF AllLabelsOK, LabelsOK, Has, Index, Entry
  <1>3. SourceInv'
    BY DEF SourceInv, Intact, HasRecords, RecordsOf, Has, MovedInv, TempInv
  <1>4. TempInv'
    BY DEF TempInv, Remaining, SourceInv, ArmedInv, Intact, HasRecords
  <1>5. MovedInv'
    BY DEF MovedInv, SourceInv, Intact
  <1>6. CacheInv'
    BY DEF CacheInv
  <1>7. ArmedInv'
    BY DEF ArmedInv
  <1>8. IndexSurvives'
    BY DEF IndexSurvives, SourceInv, MovedInv, Intact, HasRecords
  <1> QED
    BY <1>1, <1>2, <1>3, <1>4, <1>5, <1>6, <1>7, <1>8

\* Every step keeps the invariant.
LEMMA NextPreserves == IInv /\ [Next]_vars => IInv'
  <1> SUFFICES ASSUME IInv, [Next]_vars PROVE IInv'
    OBVIOUS
  <1>1. CASE Collection
    BY <1>1, PutPreserves, DeletePreserves, OpenPreserves DEF Collection
  <1>2. ASSUME NEW precheck \in BOOLEAN, NEW k \in BOOLEAN, Begin(precheck, k)
        PROVE  IInv'
    BY <1>2, BeginPreserves
  <1>3. CASE Copying
    BY <1>3, FillPreserves, FillInconsistentPreserves DEF Copying
  <1>4. CASE BeginFails \/ Create \/ Save \/ ResetBefore \/ StepFails \/ Crash
    BY <1>4, BeginFailsPreserves, CreatePreserves, SavePreserves, ResetBeforePreserves,
       StepFailsPreserves, CrashPreserves
  <1>5. CASE Swapping
    BY <1>5, StagePreserves, StageFailsPreserves, ActivatePreserves, ActivateFailsPreserves,
       RollbackSourcePreserves, RollbackFailsPreserves, ReportFailurePreserves,
       FinishSwapPreserves DEF Swapping
  <1>6. CASE UNCHANGED vars
    BY <1>6 DEF vars, dirs, IInv, TypeOK, AllLabelsOK, SourceInv, TempInv, Remaining,
                MovedInv, CacheInv, ArmedInv, IndexSurvives, HasRecords, Intact, RecordsOf, Has,
                LabelsOK
  <1> QED
    BY <1>1, <1>2, <1>3, <1>4, <1>5, <1>6 DEF Next

\* The inductive invariant holds in every reachable state.
THEOREM Inductive == Spec => []IInv
  BY InitIInv, NextPreserves, PTL DEF Spec

\* Every variable keeps its type; in particular no label passes its bound.
THEOREM TypeCorrect == Spec => []TypeOK
  <1>1. IInv => TypeOK
    BY DEF IInv
  <1> QED
    BY <1>1, Inductive, PTL

\* Whatever fails and wherever the process dies, some directory holds every
\* record of the collection.
THEOREM NothingIsLost == Spec => []IndexSurvives
  <1>1. IInv => IndexSurvives
    BY DEF IInv
  <1> QED
    BY <1>1, Inductive, PTL

\* The label a later write takes is never the label of another record.
THEOREM LabelsStayFree == Spec => []NextLabelIsFree
  <1>1. IInv => NextLabelIsFree
    BY DEF IInv, AllLabelsOK, LabelsOK, NextLabelIsFree, Bijective, Labels, Has
  <1> QED
    BY <1>1, Inductive, PTL

\* The segment manager never holds another index open than the one on disk.
THEOREM CacheStaysCurrent == Spec => []CacheIsCurrent
  <1>1. IInv => CacheIsCurrent
    BY DEF IInv, CacheInv, CacheIsCurrent
  <1> QED
    BY <1>1, Inductive, PTL

\* A rebuild that returns leaves no temporary directory it could remove.
THEOREM NoTempIsLeft == Spec => []NoTempLeft
  <1>1. IInv => NoTempLeft
    BY DEF IInv, TempInv, NoTempLeft
  <1> QED
    BY <1>1, Inductive, PTL

\* A rebuild that reports an error leaves an intact index in its place,
\* unless the rollback failed too.
THEOREM ErrorsKeepTheIndex == Spec => ErrorKeepsIndex
  <1>1. IInv /\ [Next]_vars =>
          (outcome' = "error" /\ outcome # "error" /\ pc # "rollback" /\ HasRecords =>
             Intact(source)')
    <2> SUFFICES ASSUME IInv, Next, outcome' = "error", outcome # "error", pc # "rollback",
                        HasRecords
                 PROVE  Intact(source)'
      BY DEF vars
    <2> QED
      BY DEF IInv, SourceInv, HasRecords, Intact, RecordsOf, Has, Next, Collection, Copying,
             Swapping, Put, Delete, Open, Begin, BeginFails, Create, Fill, FillInconsistent,
             Save, ResetBefore, StepFails, FailEarly, Stage, StageFails, Activate, ActivateFails,
             RollbackSource, Rollback, RollbackFails, ReportFailure, FinishSwap, Crash, Answer,
             dirs
  <1> QED
    BY <1>1, Inductive, PTL DEF Spec, ErrorKeepsIndex

-----------------------------------------------------------------------------
(* The new index.                                                          *)

\* A record that is added under the next label leaves the labels packed.
LEMMA NextLabelPacks ==
  ASSUME NEW x \in Index, NEW y \in Index, NEW i \in Ids, Packed(x), ~Has(x, i), Has(y, i),
         y.map[i].label = x.total + 1, y.total = x.total + 1,
         \A j \in Ids : j # i => y.map[j] = x.map[j]
  PROVE  Packed(y)
  <1>1. x.total \in Nat
    BY DEF Index
  <1>2. \A j \in Ids : Has(y, j) <=> Has(x, j) \/ j = i
    BY DEF Has
  <1>3. Labels(y) = Labels(x) \cup {x.total + 1}
    BY <1>2 DEF Labels, Has
  <1>4. 1..(x.total + 1) = (1..x.total) \cup {x.total + 1}
    BY <1>1
  <1> QED
    BY <1>3, <1>4 DEF Packed

\* The temporary index is packed from its creation to the swap, and then takes
\* the source's place; the old one is moved as it is.
LEMMA PackedStep == IInv /\ PackedInv /\ [Next]_vars => PackedInv'
  <1> SUFFICES ASSUME IInv, PackedInv, [Next]_vars PROVE PackedInv'
    OBVIOUS
  <1>1. CASE Create
    <2> DEFINE fresh == EmptyIndex("missing", 0)
    <2>1. Labels(fresh) = {} /\ fresh.total = 0
      BY DEF EmptyIndex, Labels, Has
    <2>2. 1..0 = {}
      OBVIOUS
    <2>3. Packed(fresh)
      BY <2>1, <2>2 DEF Packed
    <2>4. pc' = "fill" /\ temp' = fresh
      BY <1>1 DEF Create
    <2> HIDE DEF fresh
    <2>5. Packed(temp')
      BY <2>3, <2>4
    <2> QED
      BY <2>4, <2>5 DEF PackedInv
  <1>2. ASSUME NEW i \in Ids, Fill(i) PROVE PackedInv'
    <2> DEFINE next == temp.total + 1
               entry == [label |-> next, payload |-> source.map[i].payload]
    <2>1. temp \in Index /\ temp.total \in 0..MaxTotal /\ ~Has(temp, i) /\ pc = "fill"
      BY <1>2 DEF Fill, Remaining, IInv, TypeOK, TempInv, Index
    <2>2. temp' \in Index /\ temp' = WithRecord(temp, i, entry, next)
      BY <1>2, FillPreserves DEF Fill, NewLabel, IInv, TypeOK, TempInv
    <2>3. temp'.total = next /\ temp'.map[i] = entry /\ \A j \in Ids : j # i => temp'.map[j] = temp.map[j]
      BY <2>1, <2>2 DEF WithRecord, Index
    <2>4. temp'.map[i].label = next /\ Has(temp', i)
      <3>1. entry.label = next /\ source.map[i] \in Entry
        BY <1>2 DEF Fill, Remaining, Has, IInv, TypeOK, SourceInv, Index
      <3>2. next \in 1..MaxTotal
        BY <1>2, <2>1, <3>1 DEF Fill, IInv, TempInv, Entry
      <3>3. entry \in Entry
        BY <1>2, <3>1, <3>2 DEF Entry
      <3> HIDE DEF entry
      <3> QED
        BY <2>3, <3>1, <3>3 DEF Has
    <2>5. Packed(temp)
      BY <2>1 DEF PackedInv
    <2>6. Packed(temp')
      BY <2>1, <2>2, <2>3, <2>4, <2>5, NextLabelPacks
    <2> QED
      BY <1>2, <2>6 DEF Fill, PackedInv
  <1>3. CASE Save
    <2>1. temp \in Index
      BY <1>3 DEF Save, IInv, TypeOK, TempInv
    <2>2. Labels(temp') = Labels(temp) /\ temp'.total = temp.total
      BY <1>3, <2>1, SavedFacts DEF Save, Labels, Has
    <2> QED
      BY <1>3, <2>2 DEF Save, PackedInv, Packed
  <1>4. CASE ResetBefore \/ Stage \/ Activate
    BY <1>4 DEF ResetBefore, Stage, Activate, dirs, PackedInv, IInv, MovedInv, Intact
  <1>5. CASE Collection \/ BeginFails \/ FinishSwap \/ StepFails \/ Crash
             \/ ReportFailure \/ RollbackFails \/ \E i \in Ids : FillInconsistent(i)
    BY <1>5 DEF Collection, Put, Delete, Open, BeginFails, FinishSwap, StepFails, FailEarly, Crash,
                ReportFailure, RollbackFails, FillInconsistent, Answer, PackedInv
  <1>6. ASSUME NEW precheck \in BOOLEAN, NEW k \in BOOLEAN, Begin(precheck, k) PROVE PackedInv'
    BY <1>6 DEF Begin, Answer, PackedInv
  <1>7. CASE StageFails \/ ActivateFails \/ RollbackSource
    BY <1>7 DEF StageFails, ActivateFails, RollbackSource, Rollback, PackedInv
  <1>8. CASE UNCHANGED vars
    BY <1>8 DEF vars, dirs, PackedInv, Packed, Labels, Has, Intact, RecordsOf
  <1> QED
    BY <1>1, <1>2, <1>3, <1>4, <1>5, <1>6, <1>7, <1>8 DEF Next, Copying, Swapping

\* A rebuild that reports success has put in place an index with the collection's
\* records, under the labels 1 to n, and kept the old one when it was asked to.
THEOREM RebuildsAreComplete == Spec => RebuiltIsComplete
  <1>1. Init => PackedInv
    BY DEF Init, PackedInv
  <1>2. IInv /\ PackedInv /\ [Next]_vars =>
          (pc = "swapped" /\ outcome' = "rebuilt" =>
             /\ Intact(source)' /\ Labels(source') = 1..source'.total
             /\ keep => Intact(moved[run])')
    <2> SUFFICES ASSUME IInv, PackedInv, [Next]_vars, pc = "swapped", outcome' = "rebuilt"
                 PROVE  /\ Intact(source)' /\ Labels(source') = 1..source'.total
                        /\ keep => Intact(moved[run])'
      OBVIOUS
    <2>1. Intact(source) /\ Packed(source) /\ Intact(moved[run])
      BY DEF IInv, SourceInv, PackedInv
    <2>2. UNCHANGED <<source, records, run>> /\ (keep => UNCHANGED moved)
      <3>1. ~ \E i \in Ids : Fill(i) \/ FillInconsistent(i)
        BY DEF Fill, FillInconsistent
      <3>2. CASE FinishSwap
        BY <3>2 DEF FinishSwap, KeepsBackup
      <3>3. CASE UNCHANGED vars
        BY <3>3 DEF vars, dirs
      <3>4. CASE Crash
        BY <3>4 DEF Crash, Answer
      <3> QED
        BY <3>1, <3>2, <3>3, <3>4
        DEF Next, Collection, Copying, Swapping, Put, Delete, Open, Begin, BeginFails,
           Create, Save, ResetBefore, StepFails, Stage, StageFails, Activate, ActivateFails,
           RollbackSource, RollbackFails, ReportFailure
    <2> QED
      BY <2>1, <2>2 DEF Intact, Packed, RecordsOf, Has
  <1> QED
    BY <1>1, <1>2, PackedStep, Inductive, PTL DEF Spec, RebuiltIsComplete
=============================================================================
