--------------------------- MODULE LogMaintenance ---------------------------
(***************************************************************************)
(* The write-ahead log of the embedded database and the two operations of  *)
(* the shim that shorten it (shim/src/lib.rs): explicit compaction         *)
(* (run_explicit_compaction) and policy-driven pruning                     *)
(* (run_explicit_wal_prune), for one collection (FailFast) or for every    *)
(* collection in scope (ContinueOnError).                                  *)
(*                                                                         *)
(* The frontend mutex is held from the beginning of an operation to its    *)
(* end, so nothing is written in between; the process may still crash      *)
(* between two collections.  A row is a record; lengths, prefixes and      *)
(* byte totals of the code's vectors of rows are sets of rows here.        *)
(***************************************************************************)
EXTENDS Integers, FiniteSetsExt

CONSTANTS
  Collections,
  DefaultDb,   \* the collections of default_database
  Segments,    \* the segments every collection has
  Vector,      \* the one that keeps its maximum sequence id in a file of its own
  Requests,    \* requests a client may send, see RequestType
  Sizes,       \* estimated sizes of log rows, in bytes
  MaxSeq,      \* bound on the number of rows ever written
  MaxTime,     \* bound on time
  Epoch,       \* second 0 of Unix time, on a scale on which a run begins at 0
  None

ASSUME CollectionsAssumption ==
  IsFiniteSet(Collections) /\ DefaultDb \subseteq Collections /\ None \notin Collections
ASSUME SegmentsAssumption == Vector \in Segments
ASSUME BoundsAssumption ==
  /\ MaxSeq \in Nat /\ MaxTime \in Nat /\ Sizes \subseteq Nat \ {0}
  /\ Epoch \in Int /\ None \notin Int

VARIABLES
  now,       \* real time, in seconds
  behind,    \* how far the system clock has been set back
  lastSeq,   \* the last sequence id the log has handed out
  log,       \* rows of every collection that are in embeddings_queue
  written,   \* history: rows ever written to every collection
  applied,   \* highest sequence id every segment has persisted
  recorded,  \* whether max_seq_id has a row for the segment
  pc,
  request,   \* the request being executed or answered, or None
  todo,      \* targets that are still to be processed
  current,   \* target between the backfill and the purge of a compaction
  clockRead, \* now_secs, read once per prune
  startedAt, \* history: real time of that reading
  results,   \* result entry of every collection, or None
  prunedTotal, warning,
  outcome,   \* how the operation ended
  logBefore  \* history: log at the beginning of the operation

clock    == <<now, behind>>
store    == <<lastSeq, log, written, applied, recorded>>
progress == <<pc, todo, current>>
reading  == <<clockRead, startedAt>>
response == <<results, prunedTotal, warning, outcome>>
vars     == <<clock, store, progress, reading, response, request, logBefore>>

\* created is the time in created_at, None if it is NULL or no time; made is
\* when the row was really written (history).
Rows == [seq : 1..MaxSeq, created : Int \cup {None}, made : 0..MaxTime, bytes : Sizes]

Limit == Nat \cup {None}
PolicyType == [maxAge : Limit, maxBytes : Limit, high : Limit, low : Limit]

\* db is None when the request names no database.
RequestType == [op : {"compact", "prune"}, all : BOOLEAN,
                db : {"default", "other", None}, dryRun : BOOLEAN,
                vacuum : BOOLEAN, policy : PolicyType]

ASSUME RequestsAssumption == Requests \subseteq RequestType

\* pruned are the rows that pruned_count and pruned_bytes count, spanned those
\* that pruned_seq_min and pruned_seq_max enclose.
ResultType == [error : BOOLEAN, candidates : SUBSET Rows, pruned : SUBSET Rows,
               spanned : SUBSET Rows]
ASSUME NoneAssumption == None \notin ResultType

Outcomes == {"none", "ok", "error", "crashed"}

NoRows == [c \in Collections |-> {}]
NoResults == [c \in Collections |-> None]

-----------------------------------------------------------------------------
(* What a request may ask for, and the rows a policy selects.              *)

HasPolicy(p) == p.maxAge # None \/ p.maxBytes # None \/ (p.high # None /\ p.low # None)

PolicyValid(p) ==
  /\ p.maxAge # 0
  /\ (p.high = None) <=> (p.low = None)
  /\ p.high # None => p.low <= p.high

OptionsValid(r) ==
  r.op = "prune" => PolicyValid(r.policy) /\ (r.dryRun \/ HasPolicy(r.policy))

\* Collections a request is about.  A request for one collection looks its
\* name up in default_database when it names no database; a request for all
\* of them goes through every database of the tenant.
InDatabase(db) == IF db = "default" THEN DefaultDb ELSE Collections \ DefaultDb

ScopesOf(r) ==
  IF r.all THEN {IF r.db = None THEN Collections ELSE InDatabase(r.db)}
           ELSE {{c} : c \in InDatabase(IF r.db = None THEN "default" ELSE r.db)}

\* Rows below the maximum sequence id of every segment; a segment without a
\* row in max_seq_id counts as -1.
SafeToPrune_M(c, r) == \A s \in Segments : recorded[c][s] => r.seq < applied[c][s]
SafeToPrune(c, r) == \A s \in Segments : recorded[c][s] /\ r.seq < applied[c][s]

Candidates(c) == {r \in log[c] : SafeToPrune(c, r)}

Bytes(rows) == MapThenSumSet(LAMBDA r : r.bytes, rows)

\* A time that cannot be read is second 0.
CreatedAtSecs(r) == IF r.created = None THEN Epoch ELSE r.created

\* The rows before the first one that is young enough to stay.
OlderThan_M(rows, age) == {r \in rows : CreatedAtSecs(r) <= clockRead - age}
OlderThan(rows, age) ==
  {r \in rows : \A q \in rows : q.seq <= r.seq => CreatedAtSecs(q) < clockRead - age}

\* Rows are given up from the oldest on while more than limit bytes are left.
DownTo_M(rows, limit) == {r \in rows : Bytes({q \in rows : q.seq > r.seq}) >= limit}
DownTo(rows, limit) == {r \in rows : Bytes({q \in rows : q.seq >= r.seq}) > limit}

Watermark(rows, high, low) == IF Bytes(rows) > high THEN DownTo(rows, low) ELSE {}

\* A row goes when every policy that is configured lets it go.
Selected(rows, p) ==
  {r \in rows :
     /\ HasPolicy(p)
     /\ p.maxAge # None => r \in OlderThan(rows, p.maxAge)
     /\ p.maxBytes # None => r \in DownTo(rows, p.maxBytes)
     /\ p.high # None /\ p.low # None => r \in Watermark(rows, p.high, p.low)}

\* purge_logs deletes every row below an exclusive bound.
PurgeThrough(c, rows) == {r \in log[c] : ~\E q \in rows : r.seq <= q.seq}

-----------------------------------------------------------------------------
(* The database before and between the operations.                         *)

Init ==
  /\ now = 0 /\ behind = 0 /\ lastSeq = 0
  /\ log = NoRows /\ written = NoRows
  /\ applied = [c \in Collections |-> [s \in Segments |-> 0]]
  /\ recorded = [c \in Collections |-> [s \in Segments |-> FALSE]]
  /\ pc = "idle" /\ todo = {} /\ current = None
  /\ clockRead = 0 /\ startedAt = 0
  /\ results = NoResults /\ prunedTotal = 0 /\ warning = FALSE /\ outcome = "none"
  /\ request = None /\ logBefore = NoRows

\* A client's write is stamped by the system clock.  External: there are rows
\* with a created_at that is NULL or no time (README.md:490).
Write(c) ==
  /\ pc = "idle" /\ lastSeq < MaxSeq
  /\ \E b \in Sizes, t \in {now - behind, None} :
       LET row == [seq |-> lastSeq + 1, created |-> t, made |-> now, bytes |-> b] IN
       /\ log' = [log EXCEPT ![c] = @ \cup {row}]
       /\ written' = [written EXCEPT ![c] = @ \cup {row}]
  /\ lastSeq' = lastSeq + 1
  /\ UNCHANGED <<clock, applied, recorded, progress, reading, response, request, logBefore>>

\* A segment applies rows of its collection and persists that it did.  Old
\* databases hold vector segments without a row in max_seq_id.
Apply(c, s) ==
  /\ pc = "idle"
  /\ \E r \in written[c] :
       /\ r.seq > applied[c][s]
       /\ applied' = [applied EXCEPT ![c][s] = r.seq]
  /\ \E known \in BOOLEAN :
       /\ ~known => s = Vector /\ ~recorded[c][s]
       /\ recorded' = [recorded EXCEPT ![c][s] = known]
  /\ UNCHANGED <<clock, lastSeq, log, written, progress, reading, response, request, logBefore>>

Tick ==
  /\ now < MaxTime /\ now' = now + 1
  /\ UNCHANGED <<behind, store, progress, reading, response, request, logBefore>>

SetClockBack ==
  /\ behind < now /\ behind' = behind + 1
  /\ UNCHANGED <<now, store, progress, reading, response, request, logBefore>>

-----------------------------------------------------------------------------
(* An operation.                                                           *)

Finish(o) ==
  /\ pc' = "done" /\ todo' = {} /\ current' = None
  /\ outcome' = o

\* The targets are known; an operation without targets is done at once.
Begin(r, scope) ==
  /\ pc = "idle"
  /\ OptionsValid(r)
  /\ request' = r /\ logBefore' = log
  /\ UNCHANGED <<clock, store, reading, results, prunedTotal, warning>>
  /\ IF scope = {}
       THEN Finish("ok")
       ELSE /\ pc' = IF r.op = "prune" THEN "migrate" ELSE "work"
            /\ todo' = scope /\ current' = None
            /\ UNCHANGED outcome

\* The options are refused, or the targets cannot be looked up.
Refuse(r) ==
  /\ pc = "idle"
  /\ request' = r /\ logBefore' = log
  /\ Finish("error")
  /\ UNCHANGED <<clock, store, reading, results, prunedTotal, warning>>

\* Opening the writer of a vector segment fills in its row in max_seq_id.
NeedsMigration(c) == applied[c][Vector] > 0 /\ ~recorded[c][Vector]

MigrateOnly(cs) ==
  recorded' = [c \in Collections |->
                 IF c \in cs /\ NeedsMigration(c)
                   THEN [recorded[c] EXCEPT ![Vector] = TRUE]
                   ELSE recorded[c]]

Migrate ==
  /\ pc = "migrate" /\ pc' = "work"
  /\ MigrateOnly(Collections)
  /\ clockRead' = now - behind /\ startedAt' = now
  /\ UNCHANGED <<clock, lastSeq, log, written, applied, todo, current, response,
                 request, logBefore>>

\* It stops at the first collection it cannot load, whichever the targets are.
MigrateFails(bad) ==
  /\ pc = "migrate" /\ NeedsMigration(bad)
  /\ \E cs \in SUBSET (Collections \ {bad}) : MigrateOnly(cs)
  /\ Finish("error")
  /\ UNCHANGED <<clock, lastSeq, log, written, applied, reading, results, prunedTotal,
                 warning, request, logBefore>>

\* The automatic purge cannot be configured.
ConfigureFails ==
  /\ pc = "migrate" /\ ~request.dryRun
  /\ MigrateOnly(Collections)
  /\ Finish("error")
  /\ UNCHANGED <<clock, lastSeq, log, written, applied, reading, results, prunedTotal,
                 warning, request, logBefore>>

\* The entry of one collection is complete; go on with the next one.
Record(c, entry) ==
  /\ results' = [results EXCEPT ![c] = entry]
  /\ todo' = todo \ {c} /\ current' = None
  /\ pc' = "work"
  /\ UNCHANGED outcome

Done(candidates, rows) ==
  [error |-> FALSE, candidates |-> candidates, pruned |-> rows, spanned |-> rows]

\* One collection failed: FailFast returns, ContinueOnError notes the error.
FailOne(c, candidates, spanned) ==
  /\ IF request.all
       THEN Record(c, [error |-> TRUE, candidates |-> candidates, pruned |-> {},
                       spanned |-> spanned])
       ELSE Finish("error") /\ UNCHANGED results
  /\ UNCHANGED <<warning, request>>

\* The entry of a failed purge counts no row, but keeps the first and the last
\* sequence id of those it meant to delete.
PurgeFailed_M(c, rows) ==
  /\ IF request.all
       THEN Record(c, [error |-> TRUE, candidates |-> Candidates(c), pruned |-> rows,
                       spanned |-> rows])
       ELSE Finish("error") /\ UNCHANGED results
  /\ UNCHANGED <<warning, request>>
PurgeFailed(c, rows) == FailOne(c, Candidates(c), rows)

Working(op, c) == pc = "work" /\ request.op = op /\ c \in todo

Deletes(rows) == ~request.dryRun /\ rows # {}

Prune(c) ==
  /\ Working("prune", c)
  /\ LET rows == Selected(Candidates(c), request.policy) IN
     /\ log' = IF Deletes(rows) THEN [log EXCEPT ![c] = PurgeThrough(c, rows)] ELSE log
     /\ Record(c, Done(Candidates(c), rows))
     /\ prunedTotal' = prunedTotal + Cardinality(rows)
  /\ UNCHANGED <<clock, lastSeq, written, applied, recorded, reading, warning, request,
                 logBefore>>

\* The cutoff or the rows cannot be read.
PruneCannotRead(c) ==
  /\ Working("prune", c)
  /\ FailOne(c, {}, {})
  /\ UNCHANGED <<clock, store, reading, prunedTotal, logBefore>>

PruneCannotPurge(c) ==
  /\ Working("prune", c)
  /\ LET rows == Selected(Candidates(c), request.policy) IN
     /\ ~request.dryRun /\ rows # {}
     /\ PurgeFailed(c, rows)
  /\ UNCHANGED <<clock, store, reading, prunedTotal, logBefore>>

\* External: the compaction manager lets every segment catch up; the vector
\* segment persists what it has applied only now and then.
Backfill(c) ==
  /\ Working("compact", c) /\ current = None
  /\ \E to \in [Segments -> 0..lastSeq] :
       /\ \A s \in Segments : to[s] >= applied[c][s]
       /\ applied' = [applied EXCEPT ![c] = to]
       /\ recorded' = [recorded EXCEPT ![c] = [s \in Segments |-> @[s] \/ to[s] > applied[c][s]]]
  /\ current' = c
  /\ UNCHANGED <<clock, lastSeq, log, written, reading, pc, todo, response, request, logBefore>>

BackfillFails(c) ==
  /\ Working("compact", c) /\ current = None
  /\ FailOne(c, {}, {})
  /\ UNCHANGED <<clock, store, reading, prunedTotal, logBefore>>

\* External: the manager deletes rows that every segment has applied.
PurgeCompacted(c) ==
  /\ current = c
  /\ \E bound \in 0..MaxSeq :
       /\ \A s \in Segments : bound <= applied[c][s]
       /\ log' = [log EXCEPT ![c] = {r \in @ : r.seq > bound}]
  /\ Record(c, Done({}, {}))
  /\ UNCHANGED <<clock, lastSeq, written, applied, recorded, reading, prunedTotal, warning,
                 request, logBefore>>

PurgeCompactedFails(c) ==
  /\ current = c
  /\ FailOne(c, {}, {})
  /\ UNCHANGED <<clock, store, reading, prunedTotal, logBefore>>

Vacuums == request.op = "prune" /\ request.vacuum /\ ~request.dryRun

\* A VACUUM that fails, or that nothing was pruned for, is only a warning.
VacuumFails_M == outcome' = "error" /\ warning' = TRUE
VacuumFails == outcome' = "ok" /\ warning' = TRUE

Return ==
  /\ pc = "work" /\ todo = {} /\ pc' = "done"
  /\ \/ ~(Vacuums /\ prunedTotal > 0) /\ outcome' = "ok" /\ warning' = Vacuums
     \/ Vacuums /\ prunedTotal > 0 /\ outcome' = "ok" /\ warning' = FALSE
     \/ Vacuums /\ prunedTotal > 0 /\ VacuumFails
  /\ UNCHANGED <<clock, store, reading, todo, current, results, prunedTotal, request, logBefore>>

\* The process dies; what SQLite has committed stays.
Crash ==
  /\ pc \in {"migrate", "work"}
  /\ Finish("crashed")
  /\ UNCHANGED <<clock, store, reading, results, prunedTotal, warning, request, logBefore>>

\* The client has the answer, or the program has been restarted.
Acknowledge ==
  /\ pc = "done" /\ pc' = "idle"
  /\ request' = None /\ logBefore' = NoRows
  /\ clockRead' = 0 /\ startedAt' = 0
  /\ results' = NoResults /\ prunedTotal' = 0 /\ warning' = FALSE /\ outcome' = "none"
  /\ UNCHANGED <<clock, store, todo, current>>

Target(c) ==
  \/ Prune(c) \/ PruneCannotRead(c) \/ PruneCannotPurge(c)
  \/ Backfill(c) \/ BackfillFails(c) \/ PurgeCompacted(c) \/ PurgeCompactedFails(c)

Start ==
  \E r \in Requests : Refuse(r) \/ \E scope \in ScopesOf(r) : Begin(r, scope)

Database == \E c \in Collections : Write(c) \/ \E s \in Segments : Apply(c, s)

Next ==
  \/ Tick \/ SetClockBack \/ Database
  \/ Start \/ Migrate \/ ConfigureFails \/ Return \/ Crash \/ Acknowledge
  \/ \E c \in Collections : MigrateFails(c) \/ Target(c)

Spec == Init /\ [][Next]_vars

-----------------------------------------------------------------------------
(* Properties.                                                             *)

\* Every variable keeps its type.
TypeOK ==
  /\ now \in 0..MaxTime /\ behind \in 0..now /\ lastSeq \in 0..MaxSeq
  /\ log \in [Collections -> SUBSET Rows]
  /\ written \in [Collections -> SUBSET Rows]
  /\ applied \in [Collections -> [Segments -> 0..MaxSeq]]
  /\ recorded \in [Collections -> [Segments -> BOOLEAN]]
  /\ pc \in {"idle", "migrate", "work", "done"}
  /\ request \in Requests \cup {None}
  /\ todo \subseteq Collections /\ current \in todo \cup {None}
  /\ clockRead \in Int /\ startedAt \in 0..MaxTime
  /\ results \in [Collections -> ResultType \cup {None}]
  /\ prunedTotal \in Nat /\ warning \in BOOLEAN /\ outcome \in Outcomes
  /\ logBefore \in [Collections -> SUBSET Rows]

\* No maintenance operation, whatever fails and wherever the process dies,
\* deletes a row that some segment has not persisted: after a restart every
\* segment can still be brought up to date from the log.
Recoverable ==
  \A c \in Collections, s \in Segments : \A r \in written[c] :
    r.seq > applied[c][s] => r \in log[c]

Kept(c) == results[c].candidates \ results[c].pruned

\* Every pruned row of which the log knows when it was written was really as old
\* as the policy wants when the prune began.
KnownAreOld ==
  \A c \in Collections :
    results[c] # None /\ request.policy.maxAge # None =>
      \A r \in results[c].pruned :
        r.created # None => startedAt - r.made > request.policy.maxAge

\* A row of unknown age stays only behind one that is too young.
UnknownGoFirst(c, cutoff) ==
  Epoch < cutoff =>
    \A r \in Kept(c) : r.created = None =>
      \E q \in Kept(c) : q.seq < r.seq /\ q.created # None /\ q.created >= cutoff

OnlyByAge(p) == p.maxAge # None /\ p.maxBytes = None /\ p.high = None

\* A prune with a maximum age goes by a system clock that is set back now and
\* then, when it stamps the rows and when it computes their age, and still prunes
\* no row that is too young (comment on created_at in lib.rs).  That is so of rows
\* that have a time; those that have none count as the oldest (README.md:490)
\* however young they are, and all go up to the first row that has to stay.
PrunedIsOldEnough ==
  /\ KnownAreOld
  /\ \A c \in Collections :
       results[c] # None /\ request.op = "prune" /\ ~results[c].error
         /\ OnlyByAge(request.policy) => UnknownGoFirst(c, clockRead - request.policy.maxAge)

Youngest(rows) == CHOOSE r \in rows : \A q \in rows : q.seq <= r.seq

\* A byte budget is honoured and not overshot: the last row that went was
\* needed to get down to it, and when the budget is the only policy, what is
\* left fits.
PrunedIsNeeded ==
  \A c \in Collections :
    results[c] # None /\ request.op = "prune" /\ ~results[c].error
      /\ request.policy.maxBytes # None =>
        LET left == Bytes(Kept(c)) IN
        /\ results[c].pruned # {} =>
             left + Youngest(results[c].pruned).bytes > request.policy.maxBytes
        /\ request.policy.maxAge = None /\ request.policy.high = None =>
             left <= request.policy.maxBytes

\* The sequence ids of an entry enclose what the entry counts, or if it has an
\* error what is still in the log.
SpanIsTrue(c) ==
  results[c] # None =>
    IF results[c].error THEN results[c].pruned = {} /\ results[c].spanned \subseteq log[c]
                        ELSE results[c].spanned = results[c].pruned

\* What a prune reports is what it did: the rows that left the log are the
\* counted ones, the total is their number, and a dry run deletes nothing.  The
\* sequence ids of an entry enclose the counted rows if it has no error; if it
\* has one, no row is counted, and the rows they enclose are all still there.
ReportIsTrue ==
  outcome = "ok" /\ request.op = "prune" =>
    /\ \A c \in Collections :
         logBefore[c] \ log[c] =
           IF results[c] = None \/ request.dryRun THEN {} ELSE results[c].pruned
    /\ \A c \in Collections : SpanIsTrue(c)
    /\ prunedTotal = SumFunction([c \in Collections |->
                       IF results[c] = None THEN 0 ELSE Cardinality(results[c].pruned)])

\* An operation for which the shim answers with an error has deleted no row, so it
\* can simply be repeated; failures after a deletion are warnings or entries.
ErrorDeletesNothing ==
  outcome = "error" => log = logBefore

\* README.md, on CompactAll and PruneAllWAL: "If omitted, scope defaults to
\* default_tenant and default_database".
OmittedScopeIsDefault ==
  \A c \in Collections : results[c] # None /\ request.db = None => c \in DefaultDb

-----------------------------------------------------------------------------
(* The inductive invariant behind TypeOK, Recoverable, KnownAreOld and     *)
(* ErrorDeletesNothing.                                                    *)

Idle == pc = "idle" => request = None /\ results = NoResults

Busy ==
  /\ pc # "idle" => request \in Requests
  /\ pc = "migrate" => results = NoResults
  /\ pc \in {"migrate", "work"} /\ ~request.all => \E c \in Collections : todo \subseteq {c}
  /\ pc # "done" => outcome = "none"
  /\ current # None => pc = "work"

FiniteLog == \A c \in Collections : log[c] \subseteq written[c] /\ IsFiniteSet(log[c])

\* Rows that are stamped are stamped early by at most what the clock was set
\* back by then.
Stamps ==
  \A c \in Collections : \A r \in written[c] : r.created # None =>
    /\ r.made - r.created <= behind
    /\ pc = "work" /\ request.op = "prune" => r.made - r.created <= startedAt - clockRead

NothingDeletedYet ==
  (pc = "migrate" \/ (pc = "work" /\ ~request.all /\ todo # {})) => log = logBefore

IInv ==
  /\ TypeOK /\ Idle /\ Busy /\ FiniteLog /\ Stamps /\ NothingDeletedYet
  /\ Recoverable /\ KnownAreOld /\ ErrorDeletesNothing

(* The further invariant behind PrunedIsOldEnough, PrunedIsNeeded and      *)
(* ReportIsTrue.                                                           *)

OneRowPerSeq(rows) == \A r, q \in rows : r.seq = q.seq => r = q

\* The log hands out a sequence id once.
SequenceInv ==
  \A c \in Collections :
    OneRowPerSeq(written[c]) /\ \A r \in written[c] : r.seq <= lastSeq

\* An entry says what the policy selects of its candidates.
ResultInv ==
  \A c \in Collections :
    results[c] # None /\ request.op = "prune" /\ ~results[c].error =>
      /\ IsFiniteSet(results[c].candidates) /\ OneRowPerSeq(results[c].candidates)
      /\ results[c].pruned = Selected(results[c].candidates, request.policy)

Reported(c) == IF results[c] = None \/ request.dryRun THEN {} ELSE results[c].pruned
PrunedCount(c) == IF results[c] = None THEN 0 ELSE Cardinality(results[c].pruned)

\* The answer keeps up with the log: a collection that is still to be processed
\* has no entry and an untouched log.
ReportInv ==
  /\ pc = "idle" => prunedTotal = 0
  /\ (pc \in {"migrate", "work"} \/ outcome = "ok") /\ request.op = "prune" =>
       /\ \A c \in Collections :
            /\ log[c] \subseteq logBefore[c] /\ logBefore[c] \ log[c] = Reported(c)
            /\ c \in todo => results[c] = None
            /\ results[c] # None => IsFiniteSet(results[c].pruned)
            /\ SpanIsTrue(c)
       /\ prunedTotal = SumFunction([c \in Collections |-> PrunedCount(c)])

\* Only a compaction stops between the two halves of its work on a collection.
CurrentInv == current # None => request.op = "compact"

AnswerInv == SequenceInv /\ CurrentInv /\ ResultInv /\ ReportInv
=============================================================================
