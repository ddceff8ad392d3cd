-------------------------- MODULE EmbeddedLifecycle --------------------------
(***************************************************************************)
(* One Go *Embedded object (internal/runtime/embedded.go, backup.go) used  *)
(* by several goroutines, the native runtimes behind it, and the way an    *)
(* error comes back from the shim: a failing function leaves a message in  *)
(* the process-wide LAST_ERROR slot (shim/src/lib.rs), and the wrapper     *)
(* takes it from there before it releases ffiMu.  A panic in the shim is   *)
(* caught and reported the same way, but poisons the frontend's mutex.     *)
(*                                                                         *)
(* Locks are taken in the order backupMu, stateMu, ffiMu.  A step is what  *)
(* a goroutine does between two points where it may wait, or between two   *)
(* FFI calls.                                                              *)
(***************************************************************************)
EXTENDS Naturals

CONSTANTS
  Callers,    \* goroutines that call the methods of the Embedded
  GC,         \* the finalizer goroutine
  Handles,    \* addresses of native runtimes; freed ones are reused
  MaxWrites,  \* bounds the writes to the directory
  None

Procs == Callers \cup {GC}

\* A message names the call it is about.
Message(p, what) == [by |-> p, about |-> what]
Messages == [by : Procs, about : {"call", "start", "free"}]

ASSUME ProcsAssumption == GC \notin Callers /\ None \notin Procs \cup Messages
ASSUME HandlesAssumption == None \notin Handles /\ Handles # {}
ASSUME WritesAssumption == MaxWrites \in Nat

VARIABLES
  handle,   \* Embedded.handle; None stands for 0
  native,   \* "free", "running" or "poisoned"
  slot,     \* LAST_ERROR
  written,  \* contents of the persistence directory: number of writes
  backupMu, stateMu, ffiMu,  \* holder of each mutex, or None
  pc,
  op,       \* the method a process is executing
  loc,      \* the native handle it holds in a local variable
  snap,     \* contents copied by Backup
  ran,      \* how the copy went
  reopen,   \* how reopenFromConfig went
  answer,   \* what its last data call returned
  said,     \* the message of the error it returned
  closed,   \* history: whether a user's Close has returned
  dropped   \* the program holds no reference to the object any more

locks   == <<backupMu, stateMu, ffiMu>>
shim    == <<native, slot>>
backup  == <<snap, ran, reopen>>
replies == <<answer, said>>
vars    == <<handle, shim, written, locks, pc, op, loc, backup, replies, closed, dropped>>

Backups == {"backup", "backupLeaveClosed"}

PCs == {"idle", "callLock", "callShim", "callFailed",
        "closeState", "closeFfi", "closeCall",
        "waitBackup", "snapshot", "plan", "copy", "copying",
        "start", "starting", "startFailed", "started", "store",
        "return", "collected"}

Live(h) == native[h] # "free"
Goto(p, l) == pc' = [pc EXCEPT ![p] = l]
Says(p, what) == slot' = Message(p, what)

(***************************************************************************)
(* Small pieces of the code below.  An operator whose name has a suffix _M *)
(* is a mutant: the same piece with a plausible bug.                       *)
(***************************************************************************)

BackupMuFree == backupMu = None

\* snapshotBackupInputs refuses an object without a handle.
NotStarted == handle = None

\* A call keeps ffiMu from the load of the handle on ...
CallTakesFfi_M(p) == UNCHANGED ffiMu
CallTakesFfi(p) == ffiMu' = p

\* ... until it has read the message of its error.
KeepFfi_M == ffiMu' = None
KeepFfi == UNCHANGED ffiMu

\* chroma_get_last_error takes the message out of the slot.
Take_M == UNCHANGED slot
Take == slot' = None

\* frontend.lock() of a mutex that a panic has poisoned is an error.
FrontendLocks_M(h) == TRUE
FrontendLocks(h) == native[h] # "poisoned"

\* Freeing a runtime ends it, poisoned or not.  A panic while it is dropped
\* leaves a message that nobody reads.
EndRuntime(h) == native' = [native EXCEPT ![h] = "free"]

FreePanics(p) == slot' \in {slot, Message(p, "free")}

\* StartEmbedded frees the runtime when its persist path is bad.
Discard_M(p) == UNCHANGED shim
Discard(p) == EndRuntime(loc[p]) /\ FreePanics(p)

\* The shim could not start a runtime.
StartFails(p) == Goto(p, "startFailed")

\* reopenFromConfig moves the handle out of the new object, so that the end of
\* that object does not free it.
MoveHandle(p) == UNCHANGED shim

-----------------------------------------------------------------------------
(* StartEmbedded has returned the object to the program.                   *)

Init ==
  /\ handle \in Handles
  /\ native = [h \in Handles |-> IF h = handle THEN "running" ELSE "free"]
  /\ slot = None
  /\ written = 0
  /\ backupMu = None /\ stateMu = None /\ ffiMu = None
  /\ pc = [p \in Procs |-> "idle"]
  /\ op = [p \in Procs |-> "none"]
  /\ loc = [p \in Procs |-> None]
  /\ snap = [p \in Procs |-> 0]
  /\ ran = [p \in Procs |-> "none"]
  /\ reopen = [p \in Procs |-> "none"]
  /\ answer = [p \in Procs |-> "none"]
  /\ said = [p \in Procs |-> None]
  /\ closed = "no"
  /\ dropped = FALSE

Begin(p, o, l) ==
  /\ pc[p] = "idle" /\ p \in Callers /\ ~dropped
  /\ op' = [op EXCEPT ![p] = o]
  /\ answer' = [answer EXCEPT ![p] = "none"]
  /\ said' = [said EXCEPT ![p] = None]
  /\ Goto(p, l)
  /\ UNCHANGED <<handle, shim, written, locks, loc, backup, closed, dropped>>

-----------------------------------------------------------------------------
(* A data or maintenance call: lock ffiMu, load the handle, validate, call *)
(* the shim, read the error.                                               *)

Answers(p, a) ==
  /\ answer' = [answer EXCEPT ![p] = a]
  /\ op' = [op EXCEPT ![p] = "none"]
  /\ Goto(p, "idle")

\* ErrEmbeddedNotStarted, or an invalid request, without a call of the shim.
CallRefused(p) ==
  /\ pc[p] = "callLock"
  /\ ffiMu = None
  /\ Answers(p, IF handle = None THEN "closed" ELSE "rejected")
  /\ UNCHANGED <<handle, shim, written, locks, loc, backup, said, closed, dropped>>

CallLock(p) ==
  /\ pc[p] = "callLock"
  /\ ffiMu = None
  /\ handle # None
  /\ CallTakesFfi(p)
  /\ loc' = [loc EXCEPT ![p] = handle]
  /\ Goto(p, "callShim")
  /\ UNCHANGED <<handle, shim, written, backupMu, stateMu, op, backup, replies, closed, dropped>>

CallSucceeds(p) ==
  /\ pc[p] = "callShim"
  /\ FrontendLocks(loc[p])
  /\ Answers(p, "ok")
  /\ loc' = [loc EXCEPT ![p] = None]
  /\ ffiMu' = None
  /\ UNCHANGED <<handle, shim, written, backupMu, stateMu, backup, said, closed, dropped>>

\* The request is not valid JSON for the shim, the mutex is poisoned, or the
\* frontend returns an error; a panic under the frontend's mutex poisons it.
CallFails(p) ==
  /\ pc[p] = "callShim"
  /\ Says(p, "call")
  /\ \/ UNCHANGED native
     \/ native' = [native EXCEPT ![loc[p]] = "poisoned"]
  /\ KeepFfi
  /\ Goto(p, "callFailed")
  /\ UNCHANGED <<handle, written, backupMu, stateMu, op, loc, backup, replies, closed, dropped>>

\* getLastErrorUnlocked, then the deferred ffiMu.Unlock.
ReadError(p) ==
  /\ said' = [said EXCEPT ![p] = slot]
  /\ Take
  /\ ffiMu' = None

CallReadsError(p) ==
  /\ pc[p] = "callFailed"
  /\ ReadError(p)
  /\ Answers(p, "failed")
  /\ loc' = [loc EXCEPT ![p] = None]
  /\ UNCHANGED <<handle, native, written, backupMu, stateMu, backup, closed, dropped>>

-----------------------------------------------------------------------------
(* Close, by the program, by the finalizer and by Backup.                  *)

CloseState(p) ==
  /\ pc[p] = "closeState"
  /\ stateMu = None
  /\ stateMu' = p
  /\ Goto(p, "closeFfi")
  /\ UNCHANGED <<handle, shim, written, backupMu, ffiMu, op, loc, backup, replies,
                 closed, dropped>>

CloseReturns(p) ==
  \/ /\ op[p] = "close"
     /\ Goto(p, IF p = GC THEN "collected" ELSE "idle")
     /\ op' = [op EXCEPT ![p] = "none"]
     /\ closed' = IF closed = "final" \/ backupMu = None THEN "final" ELSE "racing"
  \/ /\ op[p] \in Backups
     /\ Goto(p, "copy")
     /\ UNCHANGED <<op, closed>>

CloseNothing(p) ==
  /\ pc[p] = "closeFfi"
  /\ ffiMu = None
  /\ handle = None
  /\ stateMu' = None
  /\ CloseReturns(p)
  /\ UNCHANGED <<handle, shim, written, backupMu, ffiMu, loc, backup, replies, dropped>>

CloseSwap(p) ==
  /\ pc[p] = "closeFfi"
  /\ ffiMu = None
  /\ handle # None
  /\ handle' = None
  /\ loc' = [loc EXCEPT ![p] = handle]
  /\ ffiMu' = p
  /\ Goto(p, "closeCall")
  /\ UNCHANGED <<shim, written, backupMu, stateMu, op, backup, replies, closed, dropped>>

CloseCall(p) ==
  /\ pc[p] = "closeCall"
  /\ EndRuntime(loc[p]) /\ FreePanics(p)
  /\ loc' = [loc EXCEPT ![p] = None]
  /\ ffiMu' = None /\ stateMu' = None
  /\ CloseReturns(p)
  /\ UNCHANGED <<handle, written, backupMu, backup, replies, dropped>>

-----------------------------------------------------------------------------
(* Backup.                                                                 *)

LockBackup(p) ==
  /\ pc[p] = "waitBackup"
  /\ BackupMuFree
  /\ backupMu' = p
  /\ Goto(p, "snapshot")
  /\ UNCHANGED <<handle, shim, written, stateMu, ffiMu, op, loc, backup, replies,
                 closed, dropped>>

\* snapshotBackupInputs, under stateMu.RLock.
SnapshotInputs(p) ==
  /\ pc[p] = "snapshot"
  /\ stateMu = None
  /\ IF NotStarted
     THEN Goto(p, "return") /\ ran' = [ran EXCEPT ![p] = "refused"]
     ELSE Goto(p, "plan") /\ UNCHANGED ran
  /\ UNCHANGED <<handle, shim, written, locks, op, loc, snap, reopen, replies, closed, dropped>>

\* newBackupPlan, which asks the shim for its version, and ensureEmptyDir.
PlanBackup(p) ==
  /\ pc[p] = "plan"
  /\ ffiMu = None
  /\ \/ Goto(p, "closeState") /\ UNCHANGED ran
     \/ Goto(p, "return") /\ ran' = [ran EXCEPT ![p] = "refused"]
  /\ UNCHANGED <<handle, shim, written, locks, op, loc, snap, reopen, replies, closed, dropped>>

\* executeBackup.
CopyBegin(p) ==
  /\ pc[p] = "copy"
  /\ snap' = [snap EXCEPT ![p] = written]
  /\ Goto(p, "copying")
  /\ UNCHANGED <<handle, shim, written, locks, op, loc, ran, reopen, replies, closed, dropped>>

CopyEnd(p) ==
  /\ pc[p] = "copying"
  /\ \E o \in {"ok", "failed"} : ran' = [ran EXCEPT ![p] = o]
  /\ Goto(p, IF op[p] = "backup" THEN "start" ELSE "return")
  /\ UNCHANGED <<handle, shim, written, locks, op, loc, snap, reopen, replies, closed, dropped>>

-----------------------------------------------------------------------------
(* reopenFromConfig: StartEmbedded keeps ffiMu from its first FFI call to  *)
(* its last, then the new handle is moved into the old object.             *)

StartLock(p) ==
  /\ pc[p] = "start"
  /\ ffiMu = None
  /\ ffiMu' = p
  /\ Goto(p, "starting")
  /\ UNCHANGED <<handle, shim, written, backupMu, stateMu, op, loc, backup, replies,
                 closed, dropped>>

StartCall(p) ==
  /\ pc[p] = "starting"
  /\ \/ \E h \in Handles :
          /\ ~Live(h)
          /\ native' = [native EXCEPT ![h] = "running"]
          /\ loc' = [loc EXCEPT ![p] = h]
          /\ Goto(p, "started")
          /\ UNCHANGED slot
     \/ /\ Says(p, "start")
        /\ StartFails(p)
        /\ UNCHANGED <<native, loc>>
  /\ UNCHANGED <<handle, written, locks, op, backup, replies, closed, dropped>>

StartReadsError(p) ==
  /\ pc[p] = "startFailed"
  /\ ReadError(p)
  /\ reopen' = [reopen EXCEPT ![p] = "failed"]
  /\ Goto(p, "return")
  /\ UNCHANGED <<handle, native, written, backupMu, stateMu, op, loc, snap, ran, answer,
                 closed, dropped>>

\* normalizePersistPath.
Started(p) ==
  /\ pc[p] = "started"
  /\ ffiMu' = None
  /\ \/ /\ Goto(p, "store")
        /\ UNCHANGED <<shim, loc, reopen>>
     \/ /\ Discard(p)
        /\ loc' = [loc EXCEPT ![p] = None]
        /\ reopen' = [reopen EXCEPT ![p] = "badPath"]
        /\ Goto(p, "return")
  /\ UNCHANGED <<handle, written, backupMu, stateMu, op, snap, ran, replies, closed, dropped>>

Store(p) ==
  /\ pc[p] = "store"
  /\ stateMu = None
  /\ handle' = loc[p]
  /\ MoveHandle(p)
  /\ loc' = [loc EXCEPT ![p] = None]
  /\ reopen' = [reopen EXCEPT ![p] = "ok"]
  /\ Goto(p, "return")
  /\ UNCHANGED <<written, locks, op, snap, ran, replies, closed, dropped>>

\* The deferred backupMu.Unlock; the call's local variables disappear.
Return(p) ==
  /\ pc[p] = "return"
  /\ backupMu' = None
  /\ Goto(p, "idle")
  /\ op' = [op EXCEPT ![p] = "none"]
  /\ snap' = [snap EXCEPT ![p] = 0]
  /\ ran' = [ran EXCEPT ![p] = "none"]
  /\ reopen' = [reopen EXCEPT ![p] = "none"]
  /\ UNCHANGED <<handle, shim, written, stateMu, ffiMu, loc, replies, closed, dropped>>

-----------------------------------------------------------------------------
(* The environment.                                                        *)

\* A native runtime that has not been freed may write to the directory, in a
\* call or from a task of its own.
RuntimeWrites ==
  /\ \E h \in Handles : Live(h)
  /\ written < MaxWrites
  /\ written' = written + 1
  /\ UNCHANGED <<handle, shim, locks, pc, op, loc, backup, replies, closed, dropped>>

\* runtime.KeepAlive keeps the object reachable until its methods return.
Drop ==
  /\ ~dropped
  /\ \A p \in Procs : pc[p] = "idle"
  /\ dropped' = TRUE
  /\ Goto(GC, "closeState")
  /\ op' = [op EXCEPT ![GC] = "close"]
  /\ UNCHANGED <<handle, shim, written, locks, loc, backup, replies, closed>>

Terminated == pc[GC] = "collected" /\ UNCHANGED vars

-----------------------------------------------------------------------------

DataCall(p) == CallRefused(p) \/ CallLock(p) \/ CallSucceeds(p) \/ CallFails(p) \/ CallReadsError(p)
CloseMethod(p) == CloseState(p) \/ CloseNothing(p) \/ CloseSwap(p) \/ CloseCall(p)
TakeBackup(p) ==
  LockBackup(p) \/ SnapshotInputs(p) \/ PlanBackup(p) \/ CopyBegin(p) \/ CopyEnd(p) \/ Return(p)
Reopen(p) == StartLock(p) \/ StartCall(p) \/ StartReadsError(p) \/ Started(p) \/ Store(p)

Call(p) ==
  \/ Begin(p, "call", "callLock")
  \/ Begin(p, "close", "closeState")
  \/ \E o \in Backups : Begin(p, o, "waitBackup")

Step(p) == DataCall(p) \/ CloseMethod(p) \/ TakeBackup(p) \/ Reopen(p)

Next == (\E p \in Procs : Call(p) \/ Step(p)) \/ RuntimeWrites \/ Drop \/ Terminated

Spec == Init /\ [][Next]_vars

-----------------------------------------------------------------------------
(* Properties.                                                             *)

HoldsHandle == {"callShim", "callFailed", "closeCall", "started", "store"}

\* Every variable has its type, and a process that is about to call the shim
\* with a handle has one: a failed start never leads to a call on handle 0.
TypeOK ==
  /\ handle \in Handles \cup {None}
  /\ native \in [Handles -> {"free", "running", "poisoned"}]
  /\ slot \in Messages \cup {None}
  /\ written \in 0..MaxWrites
  /\ backupMu \in Procs \cup {None}
  /\ stateMu \in Procs \cup {None}
  /\ ffiMu \in Procs \cup {None}
  /\ pc \in [Procs -> PCs]
  /\ op \in [Procs -> Backups \cup {"none", "call", "close"}]
  /\ loc \in [Procs -> Handles \cup {None}]
  /\ snap \in [Procs -> 0..MaxWrites]
  /\ ran \in [Procs -> {"none", "ok", "failed", "refused"}]
  /\ reopen \in [Procs -> {"none", "ok", "failed", "badPath"}]
  /\ answer \in [Procs -> {"none", "ok", "failed", "closed", "rejected"}]
  /\ said \in [Procs -> Messages \cup {None}]
  /\ closed \in {"no", "racing", "final"}
  /\ dropped \in BOOLEAN
  /\ \A p \in Procs : pc[p] \in HoldsHandle => loc[p] \in Handles

\* The shim is never called with the handle of a freed runtime.
NoCallOnFreedHandle == \A p \in Procs : pc[p] \in HoldsHandle => Live(loc[p])

\* An error is reported with the message of the very call that failed, never
\* with none and never with another goroutine's, although all calls of the
\* process share one slot and a panicking free leaves a message in it.
ErrorIsOwn ==
  \A p \in Procs :
    /\ answer[p] = "failed" => said[p] = Message(p, "call")
    /\ reopen[p] = "failed" => said[p] = Message(p, "start")

\* Between calls the slot is empty but for the message of a free that
\* panicked: every other failure has been read by the call it is about.
SlotIsClean == ffiMu = None => slot = None \/ slot.about = "free"

\* At most one native runtime has the persistence directory open.
OneRuntime == \A g, h \in Handles : Live(g) /\ Live(h) => g = h

\* No failure path of a reopen leaks a runtime.
NoOrphanRuntime ==
  \A h \in Handles : Live(h) => h = handle \/ \E p \in Procs : loc[p] = h

\* What Backup has copied is what the directory holds until the copy ends,
\* also when the runtime it closed was poisoned by a panic.
SnapshotMatches == \A p \in Procs : pc[p] = "copying" => snap[p] = written

\* A Close that returns while no Backup is in progress is final: not even a
\* Backup that was waiting brings the runtime back.
FinalClose == closed = "final" => handle = None /\ \A h \in Handles : ~Live(h)

\* The embedded client as its callers see it.
Status == IF handle = None THEN "closed" ELSE IF native[handle] = "poisoned" THEN "broken" ELSE "open"

Service == INSTANCE EmbeddedService
  WITH Callers <- Procs, NoError <- None, status <- Status,
       said <- [p \in Procs |-> IF answer[p] = "failed" THEN said[p].by ELSE None]

\* Every call takes effect at one instant, on the runtime the object has at
\* that instant, and tells the truth about it: success only on a runtime that
\* is open and was not broken by a panic, "not started" only when it is closed.
ServiceContract == Service!Spec

-----------------------------------------------------------------------------
(* The inductive invariant: who holds which mutex, who owns which native   *)
(* handle, and whose message is in the slot.                               *)

ClosePCs == {"closeState", "closeFfi", "closeCall"}

\* From the end of a Backup's own Close to the end of its reopen.
AwayPCs == {"copy", "copying", "start", "starting", "startFailed", "started", "store"}
Away(p) == pc[p] \in AwayPCs

\* A Backup that has seen a handle and is going to close it.
Committed(p) == \/ pc[p] \in AwayPCs \cup {"plan"}
                \/ pc[p] \in ClosePCs /\ op[p] \in Backups

InBackup(p) == Committed(p) \/ pc[p] \in {"snapshot", "return"}

\* The steps at which a process owns the handle in loc: no one else frees it.
OwnerPCs == {"closeCall", "started", "store"}
InCall == {"callShim", "callFailed"}

MutexInv ==
  \A p \in Procs :
    /\ backupMu = p <=> InBackup(p)
    /\ stateMu = p <=> pc[p] \in {"closeFfi", "closeCall"}
    /\ ffiMu = p <=> pc[p] \in InCall \cup {"closeCall", "starting", "startFailed", "started"}
    /\ pc[p] \in ClosePCs => op[p] \in Backups \cup {"close"}
    /\ pc[p] = "waitBackup" \/ InBackup(p) => op[p] \in Backups
    /\ pc[p] # "return" => reopen[p] = "none"
    /\ pc[p] \notin {"idle", "collected"} => answer[p] = "none"

OwnershipInv ==
  /\ handle # None => Live(handle)
  /\ \A p \in Procs :
       /\ loc[p] # None <=> pc[p] \in HoldsHandle
       /\ pc[p] \in OwnerPCs \/ Away(p) => handle = None
       /\ pc[p] \in InCall => loc[p] = handle
       /\ pc[p] \in {"started", "store"} => native[loc[p]] = "running"
  /\ \A p, q \in Procs : Away(p) => pc[q] # "closeCall"
  /\ \A h \in Handles :
       Live(h) => h = handle \/ \E p \in Procs : pc[p] \in OwnerPCs /\ loc[p] = h

SlotInv ==
  /\ \A p \in Procs :
       /\ pc[p] = "callFailed" => slot = Message(p, "call")
       /\ pc[p] = "startFailed" => slot = Message(p, "start")
  /\ slot # None /\ slot.about # "free" =>
       \E p \in Procs : pc[p] \in {"callFailed", "startFailed"}

FinalInv ==
  /\ closed = "final" =>
       handle = None /\ \A p \in Procs : ~Committed(p) /\ pc[p] # "closeCall"
  /\ dropped => \A p \in Callers : pc[p] = "idle"
  /\ pc[GC] # "idle" => dropped
  /\ pc[GC] \in ClosePCs \cup {"idle", "collected"}
  /\ pc[GC] \in ClosePCs => op[GC] = "close"
  /\ answer[GC] = "none"
  /\ pc[GC] = "collected" => closed = "final"

IInv ==
  TypeOK /\ NoCallOnFreedHandle /\ ErrorIsOwn /\ MutexInv /\ OwnershipInv /\ SlotInv /\ FinalInv
=============================================================================
