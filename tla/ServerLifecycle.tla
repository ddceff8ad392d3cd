--------------------------- MODULE ServerLifecycle ---------------------------
(***************************************************************************)
(* One Go *Server object (internal/runtime/chroma.go, backup.go,           *)
(* compaction.go, rebuild.go, wal_prune.go) used by several goroutines,    *)
(* and the native handles the Rust shim gives it (shim/src/lib.rs).        *)
(*                                                                         *)
(* Three mutexes are involved, taken in the order backupMu, stateMu,       *)
(* ffiMu.  A step is what a goroutine does between two points where it may *)
(* have to wait for a mutex, or inside a region another goroutine can see. *)
(* The directory's contents and the configuration file are abstracted to   *)
(* a few distinguishable values.                                           *)
(***************************************************************************)

CONSTANTS
  Callers,   \* goroutines that call the methods of the Server
  GC,        \* the finalizer goroutine
  Handles,   \* addresses of native handles; the allocator reuses freed ones
  Configs,   \* contents the configuration file may have
  None

Procs == Callers \cup {GC}

ASSUME ProcsAssumption == GC \notin Callers /\ None \notin Procs /\ "service" \notin Procs
ASSUME HandlesAssumption == None \notin Handles /\ Handles # {}
ASSUME ConfigsAssumption == Configs # {}

VARIABLES
  handle,      \* Server.handle; None stands for 0
  native,      \* state of every native handle, see NativeStates
  startedWith, \* configuration a native handle was started with
  configFile,  \* current contents of config.ConfigPath
  shownAddr,   \* configuration whose port and address the object reports
  shownTLS,    \* configuration whose TLS flag the object reports
  contents,    \* contents of the persistence directory
  backupMu, stateMu, ffiMu,   \* holder of each mutex, or None
  pc,          \* where every process is
  op,          \* the method it is executing
  loc,         \* the native handle it holds in a local variable
  planned,     \* backupPlan.sourcePathExists
  snap,        \* contents copied to the snapshot directory
  ran,         \* outcome of the backup or of the maintenance operation
  restart,     \* outcome of restartFromConfig
  closed,      \* history: whether a user's Close has returned
  dropped      \* the program holds no reference to the object any more

locks  == <<backupMu, stateMu, ffiMu>>
shown  == <<shownAddr, shownTLS>>
shim   == <<native, startedWith>>
result == <<planned, snap, ran, restart>>
vars   == <<handle, shim, configFile, shown, contents, locks, pc, op, loc,
            result, closed, dropped>>

\* "exited": the server task ended by itself, shutdown_tx is still there;
\* "signalled": shutdown_tx has been taken; "embedded": an embedded runtime.
NativeStates == {"free", "running", "exited", "signalled", "embedded"}

Contents == {"absent", "old", "new"}

Exclusive == {"backup", "backupLeaveStopped", "maintenance"}

PCs == {"idle", "stopCall", "closeState", "closeFfi", "closeCall",
        "waitBackup", "snapshot", "plan", "copy", "copying",
        "embStart", "embRun", "embCall", "embClose",
        "restart", "restartRead", "restartStore", "return", "collected"}

Live(h) == native[h] # "free"

Goto(p, l) == pc' = [pc EXCEPT ![p] = l]

\* Places at which a process is about to use the native handle in loc.
HoldsServer   == {"stopCall", "closeCall", "restartRead", "restartStore"}
HoldsEmbedded == {"embRun", "embCall", "embClose"}

(***************************************************************************)
(* Small pieces of the methods below.  An operator whose name has a suffix *)
(* _M is a mutant: the same piece with a plausible bug.                    *)
(***************************************************************************)

BackupMuFree_M == TRUE
BackupMuFree == backupMu = None

\* The check for a zero handle in snapshotBackupInputs.
NotStarted_M == FALSE
NotStarted == handle = None

\* Stop keeps ffiMu from the load of the handle to the end of the call.
StopTakesFfi_M(p) == UNCHANGED ffiMu
StopTakesFfi(p) == ffiMu' = p

\* chroma_server_stop takes shutdown_tx; a second call is ALREADY_STOPPED.
ShimStop(state) == IF state \in {"running", "exited"} THEN "signalled" ELSE state

\* chroma_server_stop, then chroma_server_free whatever stop returned: the
\* drop of the tokio runtime waits for its tasks.
StopAndFree_M(state) == IF state = "signalled" THEN state ELSE "free"
StopAndFree(state) == "free"

FreeEmbedded(state) == "free"

\* Close of an object whose handle is already zero.
CloseNothing_M(p) == UNCHANGED stateMu
CloseNothing(p) == stateMu' = None

\* The temporary embedded runtime did not start: restart, then report.
EmbStartFails_M(p) == ran' = [ran EXCEPT ![p] = "failed"] /\ Goto(p, "return")
EmbStartFails(p) == ran' = [ran EXCEPT ![p] = "failed"] /\ Goto(p, "restart")

\* StartServer stops and frees the new handle when its persist path is bad.
DiscardStarted_M(p) == UNCHANGED native
DiscardStarted(p) == native' = [native EXCEPT ![loc[p]] = "free"]

\* restartFromConfig replaces port, addr, config, persistPath, but not tls.
RefreshShown_M(p) == UNCHANGED shown
RefreshShown(p) == shownAddr' = startedWith[loc[p]] /\ UNCHANGED shownTLS

-----------------------------------------------------------------------------
(* StartServer has returned the object to the program.                     *)

Init ==
  /\ configFile \in Configs
  /\ handle \in Handles
  /\ native = [h \in Handles |-> IF h = handle THEN "running" ELSE "free"]
  /\ startedWith = [h \in Handles |-> configFile]
  /\ shownAddr = configFile /\ shownTLS = configFile
  /\ contents \in Contents
  /\ backupMu = None /\ stateMu = None /\ ffiMu = None
  /\ pc = [p \in Procs |-> "idle"]
  /\ op = [p \in Procs |-> "none"]
  /\ loc = [p \in Procs |-> None]
  /\ planned = [p \in Procs |-> FALSE]
  /\ snap = [p \in Procs |-> "absent"]
  /\ ran = [p \in Procs |-> "none"]
  /\ restart = [p \in Procs |-> "none"]
  /\ closed = "no"
  /\ dropped = FALSE

Begin(p, o, l) ==
  /\ pc[p] = "idle" /\ p \in Callers /\ ~dropped
  /\ op' = [op EXCEPT ![p] = o]
  /\ Goto(p, l)
  /\ UNCHANGED <<handle, shim, configFile, shown, contents, locks, loc,
                 result, closed, dropped>>

-----------------------------------------------------------------------------
(* Stop: load the handle and call the shim, both under ffiMu.              *)

StopLoad(p) ==
  /\ pc[p] = "idle" /\ p \in Callers /\ ~dropped
  /\ ffiMu = None
  /\ handle # None           \* otherwise ErrServerNotStarted at once
  /\ StopTakesFfi(p)
  /\ loc' = [loc EXCEPT ![p] = handle]
  /\ Goto(p, "stopCall")
  /\ UNCHANGED <<handle, shim, configFile, shown, contents, backupMu, stateMu,
                 op, result, closed, dropped>>

StopCall(p) ==
  /\ pc[p] = "stopCall"
  /\ native' = [native EXCEPT ![loc[p]] = ShimStop(@)]
  /\ ffiMu' = None
  /\ loc' = [loc EXCEPT ![p] = None]
  /\ Goto(p, "idle")
  /\ UNCHANGED <<handle, startedWith, configFile, shown, contents, backupMu,
                 stateMu, op, result, closed, dropped>>

-----------------------------------------------------------------------------
(* Close, called by the program, by the finalizer, and by the exclusive    *)
(* operations: stateMu, then ffiMu, then swap the handle out, stop, free.  *)

CloseState(p) ==
  /\ pc[p] = "closeState"
  /\ stateMu = None
  /\ stateMu' = p
  /\ Goto(p, "closeFfi")
  /\ UNCHANGED <<handle, shim, configFile, shown, contents, backupMu, ffiMu,
                 op, loc, result, closed, dropped>>

\* Where Close returns to, and what its caller may conclude.
CloseReturns(p) ==
  \/ /\ op[p] = "close"
     /\ Goto(p, IF p = GC THEN "collected" ELSE "idle")
     /\ op' = [op EXCEPT ![p] = "none"]
     /\ closed' = IF closed = "final" \/ backupMu = None THEN "final" ELSE "racing"
  \/ /\ op[p] \in Exclusive
     /\ Goto(p, IF op[p] = "maintenance" THEN "embStart" ELSE "copy")
     /\ UNCHANGED <<op, closed>>

CloseSwap(p) ==
  /\ pc[p] = "closeFfi"
  /\ ffiMu = None
  /\ handle' = None
  /\ loc' = [loc EXCEPT ![p] = handle]
  /\ IF handle = None
     THEN /\ CloseNothing(p)
          /\ CloseReturns(p)
          /\ UNCHANGED ffiMu
     ELSE /\ ffiMu' = p
          /\ Goto(p, "closeCall")
          /\ UNCHANGED <<stateMu, op, closed>>
  /\ UNCHANGED <<shim, configFile, shown, contents, backupMu, result, dropped>>

\* ALREADY_STOPPED is not an error.
CloseCall(p) ==
  /\ pc[p] = "closeCall"
  /\ native' = [native EXCEPT ![loc[p]] = StopAndFree(@)]
  /\ loc' = [loc EXCEPT ![p] = None]
  /\ ffiMu' = None /\ stateMu' = None
  /\ CloseReturns(p)
  /\ UNCHANGED <<handle, startedWith, configFile, shown, contents, backupMu,
                 result, dropped>>

-----------------------------------------------------------------------------
(* The exclusive operations: Backup, and runCompaction, runRebuild and     *)
(* runWALPrune, which have the same steps.                                 *)

LockBackup(p) ==
  /\ pc[p] = "waitBackup"
  /\ BackupMuFree
  /\ backupMu' = p
  /\ Goto(p, "snapshot")
  /\ UNCHANGED <<handle, shim, configFile, shown, contents, stateMu, ffiMu,
                 op, loc, result, closed, dropped>>

\* snapshotBackupInputs: a read of the object under stateMu.RLock.
SnapshotInputs(p) ==
  /\ pc[p] = "snapshot"
  /\ stateMu = None
  /\ IF NotStarted
     THEN /\ Goto(p, "return")
          /\ ran' = [ran EXCEPT ![p] = "refused"]
     ELSE /\ Goto(p, IF op[p] = "maintenance" THEN "closeState" ELSE "plan")
          /\ UNCHANGED ran
  /\ UNCHANGED <<handle, shim, configFile, shown, contents, locks, op, loc,
                 planned, snap, restart, closed, dropped>>

\* newBackupPlan and ensureEmptyDir, before the server is closed.  The plan asks
\* the shim for its version; that wait for ffiMu is left out, so the plan may be
\* ready earlier than in the code.
PlanBackup(p) ==
  /\ pc[p] = "plan"
  /\ \/ /\ planned' = [planned EXCEPT ![p] = contents # "absent"]
        /\ Goto(p, "closeState")
        /\ UNCHANGED ran
     \/ /\ ran' = [ran EXCEPT ![p] = "refused"]
        /\ Goto(p, "return")
        /\ UNCHANGED planned
  /\ UNCHANGED <<handle, shim, configFile, shown, contents, locks, op, loc,
                 snap, restart, closed, dropped>>

\* executeBackup: the copy, or an empty directory when the plan saw none.
CopyBegin(p) ==
  /\ pc[p] = "copy"
  /\ snap' = [snap EXCEPT ![p] = IF planned[p] THEN contents ELSE "absent"]
  /\ Goto(p, "copying")
  /\ UNCHANGED <<handle, shim, configFile, shown, contents, locks, op, loc,
                 planned, ran, restart, closed, dropped>>

CopyEnd(p) ==
  /\ pc[p] = "copying"
  /\ \E o \in {"ok", "failed"} : ran' = [ran EXCEPT ![p] = o]
  /\ Goto(p, IF op[p] = "backup" THEN "restart" ELSE "return")
  /\ UNCHANGED <<handle, shim, configFile, shown, contents, locks, op, loc,
                 planned, snap, restart, closed, dropped>>

-----------------------------------------------------------------------------
(* The temporary embedded runtime of a maintenance operation.              *)

\* The shim returns a new handle, at an address that is not in use.
Allocate(p, h, state) ==
  /\ ~Live(h)
  /\ native' = [native EXCEPT ![h] = state]
  /\ startedWith' = [startedWith EXCEPT ![h] = configFile]
  /\ loc' = [loc EXCEPT ![p] = h]

EmbStart(p) ==
  /\ pc[p] = "embStart"
  /\ ffiMu = None
  /\ \/ /\ \E h \in Handles : Allocate(p, h, "embedded")
        /\ Goto(p, "embRun")
        /\ UNCHANGED ran
     \/ /\ EmbStartFails(p)
        /\ UNCHANGED <<native, startedWith, loc>>
  /\ UNCHANGED <<handle, configFile, shown, contents, locks, op, planned,
                 snap, restart, closed, dropped>>

\* The operation itself: one FFI call that keeps ffiMu.
EmbRun(p) ==
  /\ pc[p] = "embRun"
  /\ ffiMu = None
  /\ ffiMu' = p
  /\ Goto(p, "embCall")
  /\ UNCHANGED <<handle, shim, configFile, shown, contents, backupMu, stateMu,
                 op, loc, result, closed, dropped>>

EmbCall(p) ==
  /\ pc[p] = "embCall"
  /\ ffiMu' = None
  /\ \E o \in {"ok", "failed"} : ran' = [ran EXCEPT ![p] = o]
  /\ Goto(p, "embClose")
  /\ UNCHANGED <<handle, shim, configFile, shown, contents, backupMu, stateMu,
                 op, loc, planned, snap, restart, closed, dropped>>

\* Embedded.Close of an object no other goroutine knows.
EmbClose(p) ==
  /\ pc[p] = "embClose"
  /\ ffiMu = None
  /\ native' = [native EXCEPT ![loc[p]] = FreeEmbedded(@)]
  /\ loc' = [loc EXCEPT ![p] = None]
  /\ Goto(p, "restart")
  /\ UNCHANGED <<handle, startedWith, configFile, shown, contents, locks, op,
                 result, closed, dropped>>

-----------------------------------------------------------------------------
(* restartFromConfig: StartServer, then move its handle into the object.   *)

RestartFails(p) ==
  /\ restart' = [restart EXCEPT ![p] = "failed"]
  /\ Goto(p, "return")

StartServer(p) ==
  /\ pc[p] = "restart"
  /\ ffiMu = None
  /\ \/ /\ \E h \in Handles : Allocate(p, h, "running")
        /\ Goto(p, "restartRead")
        /\ UNCHANGED restart
     \/ /\ RestartFails(p)
        /\ UNCHANGED <<native, startedWith, loc>>
  /\ UNCHANGED <<handle, configFile, shown, contents, locks, op, planned,
                 snap, ran, closed, dropped>>

\* Port, address, persist path and TLS are read from the new handle; a
\* persist path that cannot be normalised stops and frees it.
ReadStarted(p) ==
  /\ pc[p] = "restartRead"
  /\ ffiMu = None
  /\ \/ /\ Goto(p, "restartStore")
        /\ UNCHANGED <<native, loc, restart>>
     \/ /\ DiscardStarted(p)
        /\ loc' = [loc EXCEPT ![p] = None]
        /\ RestartFails(p)
  /\ UNCHANGED <<handle, startedWith, configFile, shown, contents, locks, op,
                 planned, snap, ran, closed, dropped>>

StoreRestarted(p) ==
  /\ pc[p] = "restartStore"
  /\ stateMu = None
  /\ handle' = loc[p]
  /\ loc' = [loc EXCEPT ![p] = None]
  /\ RefreshShown(p)
  /\ restart' = [restart EXCEPT ![p] = "ok"]
  /\ Goto(p, "return")
  /\ UNCHANGED <<shim, configFile, contents, locks, op, planned,
                 snap, ran, closed, dropped>>

\* The deferred backupMu.Unlock; the call's local variables disappear.
Return(p) ==
  /\ pc[p] = "return"
  /\ backupMu' = None
  /\ Goto(p, "idle")
  /\ op' = [op EXCEPT ![p] = "none"]
  /\ planned' = [planned EXCEPT ![p] = FALSE]
  /\ snap' = [snap EXCEPT ![p] = "absent"]
  /\ ran' = [ran EXCEPT ![p] = "none"]
  /\ restart' = [restart EXCEPT ![p] = "none"]
  /\ UNCHANGED <<handle, shim, configFile, shown, contents, stateMu, ffiMu,
                 loc, closed, dropped>>

-----------------------------------------------------------------------------
(* The environment.                                                        *)

\* The server task ends on its own: start only waited 250 ms for that.
ServerExits ==
  /\ \E h \in Handles : /\ native[h] = "running"
                        /\ native' = [native EXCEPT ![h] = "exited"]
  /\ UNCHANGED <<handle, startedWith, configFile, shown, contents, locks, pc,
                 op, loc, result, closed, dropped>>

\* A native runtime that has not been freed may write to the directory.
RuntimeWrites ==
  /\ \E h \in Handles : Live(h)
  /\ contents' \in Contents \ {"absent", contents}
  /\ UNCHANGED <<handle, shim, configFile, shown, locks, pc, op, loc, result,
                 closed, dropped>>

EditConfigFile ==
  /\ configFile' \in Configs \ {configFile}
  /\ UNCHANGED <<handle, shim, shown, contents, locks, pc, op, loc, result,
                 closed, dropped>>

\* The object becomes unreachable once no method is running on it
\* (runtime.KeepAlive), and its finalizer calls Close.
Drop ==
  /\ ~dropped
  /\ \A p \in Procs : pc[p] = "idle"
  /\ dropped' = TRUE
  /\ Goto(GC, "closeState")
  /\ op' = [op EXCEPT ![GC] = "close"]
  /\ UNCHANGED <<handle, shim, configFile, shown, contents, locks, loc,
                 result, closed>>

Terminated == pc[GC] = "collected" /\ UNCHANGED vars

-----------------------------------------------------------------------------

CloseMethod(p) == CloseState(p) \/ CloseSwap(p) \/ CloseCall(p)

BackupSteps(p) ==
  LockBackup(p) \/ SnapshotInputs(p) \/ PlanBackup(p) \/ CopyBegin(p) \/ CopyEnd(p)

RunMaintenance(p) == EmbStart(p) \/ EmbRun(p) \/ EmbCall(p) \/ EmbClose(p)

RestartFromConfig(p) == StartServer(p) \/ ReadStarted(p) \/ StoreRestarted(p)

Step(p) ==
  \/ StopCall(p)
  \/ CloseMethod(p)
  \/ BackupSteps(p)
  \/ RunMaintenance(p)
  \/ RestartFromConfig(p)
  \/ Return(p)

Call(p) ==
  \/ StopLoad(p)
  \/ Begin(p, "close", "closeState")
  \/ \E o \in Exclusive : Begin(p, o, "waitBackup")

Environment == ServerExits \/ RuntimeWrites \/ EditConfigFile \/ Drop \/ Terminated

Next == (\E p \in Procs : Call(p) \/ Step(p)) \/ Environment

\* A goroutine that can run is eventually scheduled, FFI calls return, and
\* Go's mutexes hand over to a waiter that has starved for a millisecond.
Fairness == \A p \in Procs : SF_vars(Step(p))

Spec == Init /\ [][Next]_vars

FairSpec == Spec /\ Fairness

-----------------------------------------------------------------------------
(* Properties.                                                             *)

\* Every variable has its type, and a process that is about to make a call on
\* a native handle has one: a failed start never leads to a call on handle 0.
TypeOK ==
  /\ handle \in Handles \cup {None}
  /\ native \in [Handles -> NativeStates]
  /\ startedWith \in [Handles -> Configs]
  /\ configFile \in Configs /\ shownAddr \in Configs /\ shownTLS \in Configs
  /\ contents \in Contents
  /\ backupMu \in Procs \cup {None}
  /\ stateMu \in Procs \cup {None}
  /\ ffiMu \in Procs \cup {None}
  /\ pc \in [Procs -> PCs]
  /\ op \in [Procs -> Exclusive \cup {"none", "close"}]
  /\ loc \in [Procs -> Handles \cup {None}]
  /\ planned \in [Procs -> BOOLEAN]
  /\ snap \in [Procs -> Contents]
  /\ ran \in [Procs -> {"none", "ok", "failed", "refused"}]
  /\ restart \in [Procs -> {"none", "ok", "failed"}]
  /\ closed \in {"no", "racing", "final"}
  /\ dropped \in BOOLEAN
  /\ \A p \in Procs : pc[p] \in HoldsServer \cup HoldsEmbedded => loc[p] \in Handles

\* No FFI call is made on a freed handle or on a handle of the other kind:
\* between the load of a handle and the call, no Close can free it.
NoCallOnFreedHandle ==
  \A p \in Procs :
    /\ pc[p] \in HoldsServer => native[loc[p]] \notin {"free", "embedded"}
    /\ pc[p] \in HoldsEmbedded => native[loc[p]] = "embedded"

\* At most one native runtime has the persistence directory open, whatever
\* mix of backups, maintenance operations, stops and closes is in progress.
OneRuntime == \A g, h \in Handles : Live(g) /\ Live(h) => g = h

\* Every live runtime is reachable, from the object or from a call in progress
\* that will store or free it: no failure path of a restart leaks one.
NoOrphanRuntime ==
  \A h \in Handles : Live(h) => h = handle \/ \E p \in Procs : loc[p] = h

\* While Backup copies the directory, no native runtime is alive.
SnapshotQuiescent ==
  \A p \in Procs : pc[p] \in {"copy", "copying"} => \A h \in Handles : ~Live(h)

\* What a backup copied is what the directory holds until the copy ends,
\* provided that the plan saw the directory.
SnapshotMatches ==
  \A p \in Procs : pc[p] = "copying" /\ planned[p] => snap[p] = contents

\* A Close that returns while no exclusive operation is in progress is final:
\* nothing brings the server back, not even an operation that was waiting.
FinalClose == closed = "final" => handle = None /\ \A h \in Handles : ~Live(h)

\* "If restart fails, the server remains stopped": at the return of an
\* operation that reports a failed restart, the object has no handle.
FailedRestartLeavesStopped ==
  \A p \in Procs : pc[p] = "return" /\ restart[p] = "failed" => handle = None

\* "The server is restarted after the operation, even if it fails": once the
\* server was closed for it, an operation returns only after a restart attempt.
RestartAttempted ==
  \A p \in Procs :
    pc[p] = "return" /\ op[p] \in {"backup", "maintenance"} /\ ran[p] # "refused"
      => restart[p] # "none"

\* Port and address are those of the runtime the object holds, also after the
\* configuration file was edited and the server restarted from it.
AddressIsCurrent == handle # None => shownAddr = startedWith[handle]

\* After the finalizer has run, no native runtime is left.
CollectedFreesAll == pc[GC] = "collected" => \A h \in Handles : ~Live(h)

\* Every call of a method returns: no set of callers deadlocks.
OperationsFinish == \A p \in Procs : pc[p] # "idle" ~> pc[p] \in {"idle", "collected"}

\* The parties that have the directory open.
ServiceUp == \E h \in Handles : native[h] \notin {"free", "embedded"}

InSession(p) == pc[p] \in HoldsEmbedded \cup {"copying"}

Accessors == (IF ServiceUp THEN {"service"} ELSE {}) \cup {p \in Procs : InSession(p)}

Directory == INSTANCE DirectoryAccess
  WITH Service <- "service", Sessions <- Procs, accessors <- Accessors

\* The directory has one user at a time and is handed over through nobody.
DirectoryHandover == Directory!Spec

-----------------------------------------------------------------------------
(* The inductive invariant: who holds which mutex, and who owns which      *)
(* native handle.                                                          *)

ClosePCs == {"closeState", "closeFfi", "closeCall"}

\* From the end of an exclusive operation's own Close to the end of its restart.
AwayPCs == {"copy", "copying", "embStart", "restart", "restartRead", "restartStore"}
           \cup HoldsEmbedded

Away(p) == pc[p] \in AwayPCs

\* An exclusive operation that has seen a handle and is going to close it.
Committed(p) == \/ pc[p] \in AwayPCs \cup {"plan"}
                \/ pc[p] \in ClosePCs /\ op[p] \in Exclusive

InExclusive(p) == Committed(p) \/ pc[p] \in {"snapshot", "return"}

\* The steps at which a process owns the handle in loc: no one else frees it.
OwnerPCs == {"closeCall", "restartRead", "restartStore"} \cup HoldsEmbedded

MutexInv ==
  \A p \in Procs :
    /\ backupMu = p <=> InExclusive(p)
    /\ stateMu = p <=> pc[p] \in {"closeFfi", "closeCall"}
    /\ ffiMu = p <=> pc[p] \in {"stopCall", "closeCall", "embCall"}
    /\ pc[p] \in ClosePCs => op[p] \in Exclusive \cup {"close"}
    /\ pc[p] = "waitBackup" \/ InExclusive(p) => op[p] \in Exclusive

OwnershipInv ==
  /\ handle # None => native[handle] \notin {"free", "embedded"}
  /\ \A p \in Procs :
       /\ loc[p] # None <=> pc[p] \in HoldsServer \cup HoldsEmbedded
       /\ pc[p] \in OwnerPCs \/ Away(p) => handle = None
       /\ pc[p] = "stopCall" => loc[p] = handle
  /\ \A p, q \in Procs : Away(p) => pc[q] # "closeCall"
  /\ \A h \in Handles :
       Live(h) => h = handle \/ \E p \in Procs : pc[p] \in OwnerPCs /\ loc[p] = h

FinalInv ==
  /\ closed = "final" =>
       handle = None /\ \A p \in Procs : ~Committed(p) /\ pc[p] # "closeCall"
  /\ dropped => \A p \in Callers : pc[p] = "idle"
  /\ pc[GC] # "idle" => dropped
  /\ pc[GC] \in ClosePCs \cup {"idle", "collected"}
  /\ pc[GC] \in ClosePCs => op[GC] = "close"
  /\ pc[GC] = "collected" => closed = "final"

IInv == TypeOK /\ NoCallOnFreedHandle /\ MutexInv /\ OwnershipInv /\ FinalInv

\* The outcome of a restart is known only at the return, and only a backup
\* plans and copies.
StageInv ==
  \A p \in Procs :
    /\ restart[p] # "none" => pc[p] = "return"
    /\ pc[p] \in {"plan", "copy", "copying"} => op[p] # "maintenance"

\* What an operation reports, and what the object shows.
ReportInv ==
  StageInv /\ SnapshotMatches /\ FailedRestartLeavesStopped /\ RestartAttempted
  /\ AddressIsCurrent

-----------------------------------------------------------------------------
(* What the documentation says and the code does not do.                   *)

\* chroma.go: "TLS returns true if the server was started with TLS configured."
TLSIsCurrent == handle # None => shownTLS = startedWith[handle]
=============================================================================
