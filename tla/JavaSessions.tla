---------------------------- MODULE JavaSessions ----------------------------
(***************************************************************************)
(* The Java sessions over one persistence directory: ServerSession and     *)
(* EmbeddedSession (java/core), with the stages of MaintenanceExecutor and *)
(* BackupExecutor and the handles of the JNA and Panama runtimes.          *)
(*                                                                         *)
(* A session never changes its native handle.  An exclusive operation      *)
(* frees it, starts a new runtime and returns a new session; the old one   *)
(* is marked closed.  The static FFI lock makes every FFI call one step;   *)
(* the lock of a session (lifecycleLock, backupLock) is held for a whole   *)
(* operation, but not by the accessors and the operations of an            *)
(* EmbeddedSession, which only look at the closed flag.                    *)
(***************************************************************************)

CONSTANTS
  Threads,
  Sessions,  \* session objects that can be created
  Handles,   \* addresses of native runtimes; freed ones are reused
  None

ASSUME NoneAssumption == None \notin Threads \cup Sessions \cup Handles
ASSUME ServiceAssumption == "service" \notin Threads
ASSUME SomeAssumption == Sessions # {} /\ Handles # {}

VARIABLES
  native,  \* state of every native runtime
  owner,   \* history: session a runtime was started for, None for a temporary one
  kind,    \* "unused", "server" or "embedded"
  hnd,     \* the final field handle
  closed,  \* the AtomicBoolean
  lock,    \* holder of the session's lock, or None
  known,   \* sessions the program has a reference to
  pc,
  self,    \* the session a thread works on
  op,      \* the method it executes
  loc,     \* the temporary embedded runtime
  ran,     \* how the operation went up to the restart
  restart, \* outcome of the restart
  made     \* the session the restart has created

runtimes == <<native, owner>>
objects  == <<kind, hnd>>
threads  == <<self, op>>
result   == <<ran, restart, made>>
vars     == <<runtimes, objects, closed, lock, known, pc, threads, loc, result>>

NativeStates == {"free", "server", "stopped", "embedded"}
Kinds == {"unused", "server", "embedded"}
Backups == {"backup", "backupLeaveInactive"}
Ops == Backups \cup {"maintenance"}
PCs == {"idle", "read", "closeLock", "closeStop", "closeFree", "opLock", "opStop", "opFree",
        "copy", "copying", "embStart", "embRun", "embClose", "restart", "finish"}

TearDownPCs == {"closeStop", "closeFree", "opStop", "opFree"}
TemporaryPCs == {"embRun", "embClose"}
AwayPCs == {"copy", "copying", "embStart", "restart"} \cup TemporaryPCs
HoldingPCs == TearDownPCs \cup AwayPCs \cup {"finish"}

Live(h) == native[h] # "free"
Own(t) == hnd[self[t]]
Goto(t, l) == pc' = [pc EXCEPT ![t] = l]
Unused == {s \in Sessions : kind[s] = "unused"}

(***************************************************************************)
(* Small pieces of the methods; _M is the same piece with a plausible bug. *)
(***************************************************************************)

\* compareAndSet(false, true) of close.
MayClose_M(s) == TRUE
MayClose(s) == ~closed[s]

\* freeAction runs whatever stopAction did.
AfterStopFails_M(t) == Goto(t, "closeFree") /\ lock' = [lock EXCEPT ![self[t]] = None]
AfterStopFails(t) == Goto(t, "closeFree") /\ UNCHANGED lock

\* closed.set(true) after the operation, on success and on failure.
Invalidate_M(t) == closed' = [closed EXCEPT ![self[t]] = (ran[t] = "ok")]
Invalidate(t) == closed' = [closed EXCEPT ![self[t]] = TRUE]

Release(h) == native' = [native EXCEPT ![h] = "free"] /\ owner' = [owner EXCEPT ![h] = None]

\* closeServerAction frees in a finally block.
FreeAfterStop(t) == Release(Own(t))

\* The session's lock.
LockFree_M(s) == TRUE
LockFree(s) == lock[s] = None

\* "server remains stopped": nothing is restarted when the temporary runtime
\* does not start.
EmbStartFails(t) == ran' = [ran EXCEPT ![t] = "noRuntime"] /\ Goto(t, "finish")

\* The unlock in the finally block of close, executeMaintenanceOp and backup.
Unlock(t) == lock' = [lock EXCEPT ![self[t]] = None]

\* embedded.close() of the temporary session.
FreeTemporary == "free"

\* A failed copy does not keep BackupExecutor from restarting.
AfterCopy_M(t, o) == IF op[t] = "backup" /\ o = "ok" THEN "restart" ELSE "finish"
AfterCopy(t, o) == IF op[t] = "backup" THEN "restart" ELSE "finish"

-----------------------------------------------------------------------------
(* A server or an embedded session has been started.                       *)
Init ==
  \E s \in Sessions, h \in Handles, k \in {"server", "embedded"} :
    /\ native = [g \in Handles |-> IF g = h THEN k ELSE "free"]
    /\ owner = [g \in Handles |-> IF g = h THEN s ELSE None]
    /\ kind = [r \in Sessions |-> IF r = s THEN k ELSE "unused"]
    /\ hnd = [r \in Sessions |-> IF r = s THEN h ELSE None]
    /\ closed = [r \in Sessions |-> FALSE]
    /\ lock = [r \in Sessions |-> None]
    /\ known = {s}
    /\ pc = [t \in Threads |-> "idle"]
    /\ self = [t \in Threads |-> s]
    /\ op = [t \in Threads |-> "none"]
    /\ loc = [t \in Threads |-> None]
    /\ ran = [t \in Threads |-> "none"]
    /\ restart = [t \in Threads |-> "none"]
    /\ made = [t \in Threads |-> None]

Begin(t, s, o, l) ==
  /\ pc[t] = "idle"
  /\ s \in known
  /\ self' = [self EXCEPT ![t] = s]
  /\ op' = [op EXCEPT ![t] = o]
  /\ Goto(t, l)
  /\ UNCHANGED <<runtimes, objects, closed, lock, known, loc, result>>

\* Accessors of a server, maintenance operations of an embedded session:
\* ensureOpen, then an FFI call, without the session's lock.
EnsureOpen(t, s) == ~closed[s] /\ Begin(t, s, "read", "read")

Call(t) ==
  \E s \in Sessions :
    \/ EnsureOpen(t, s)
    \/ Begin(t, s, "close", "closeLock")
    \/ \E o \in Ops :
         /\ Unused # {}  \* bounds the sessions
         /\ kind[s] = "embedded" => o \in Backups
         /\ Begin(t, s, o, "opLock")

Read(t) ==
  /\ pc[t] = "read"
  /\ Goto(t, "idle")
  /\ UNCHANGED <<runtimes, objects, closed, lock, known, threads, loc, result>>

-----------------------------------------------------------------------------
(* close().                                                                *)

CloseLock(t) ==
  /\ pc[t] = "closeLock"
  /\ LockFree(self[t])
  /\ MayClose(self[t])
  /\ closed' = [closed EXCEPT ![self[t]] = TRUE]
  /\ lock' = [lock EXCEPT ![self[t]] = t]
  /\ Goto(t, IF kind[self[t]] = "server" THEN "closeStop" ELSE "closeFree")
  /\ UNCHANGED <<runtimes, objects, known, threads, loc, result>>

CloseNothing(t) ==
  /\ pc[t] = "closeLock"
  /\ LockFree(self[t])
  /\ closed[self[t]]
  /\ Goto(t, "idle")
  /\ UNCHANGED <<runtimes, objects, closed, lock, known, threads, loc, result>>

CloseStop(t) ==
  /\ pc[t] = "closeStop"
  /\ \/ /\ native' = [native EXCEPT ![Own(t)] = "stopped"]
        /\ Goto(t, "closeFree")
        /\ UNCHANGED lock
     \/ /\ AfterStopFails(t)
        /\ UNCHANGED native
  /\ UNCHANGED <<owner, objects, closed, known, threads, loc, result>>

CloseFree(t) ==
  /\ pc[t] = "closeFree"
  /\ Release(Own(t))
  /\ Unlock(t)
  /\ Goto(t, "idle")
  /\ UNCHANGED <<objects, closed, known, threads, loc, result>>

-----------------------------------------------------------------------------
(* executeMaintenanceOp and backup, up to the end of the old runtime.      *)

\* The session is closed, or the options are refused before anything is done
\* (a null argument, PreValidationFailure): it stays as it is.
OpRefused(t) ==
  /\ pc[t] = "opLock"
  /\ LockFree(self[t])
  /\ Goto(t, "idle")
  /\ UNCHANGED <<runtimes, objects, closed, lock, known, threads, loc, result>>

OpLock(t) ==
  /\ pc[t] = "opLock"
  /\ LockFree(self[t])
  /\ ~closed[self[t]]
  /\ lock' = [lock EXCEPT ![self[t]] = t]
  /\ Goto(t, IF kind[self[t]] = "server" THEN "opStop" ELSE "opFree")
  /\ UNCHANGED <<runtimes, objects, closed, known, threads, loc, result>>

OpStop(t) ==
  /\ pc[t] = "opStop"
  /\ \/ /\ native' = [native EXCEPT ![Own(t)] = "stopped"]
        /\ UNCHANGED ran
     \/ /\ ran' = [ran EXCEPT ![t] = "notClosed"]
        /\ UNCHANGED native
  /\ Goto(t, "opFree")
  /\ UNCHANGED <<owner, objects, closed, lock, known, threads, loc, restart, made>>

OpFree(t) ==
  /\ pc[t] = "opFree"
  /\ FreeAfterStop(t)
  /\ Goto(t, IF ran[t] = "notClosed" THEN "finish"
             ELSE IF op[t] = "maintenance" THEN "embStart" ELSE "copy")
  /\ UNCHANGED <<objects, closed, lock, known, threads, loc, result>>

-----------------------------------------------------------------------------
(* The work, between the old runtime and the new one.                      *)

CopyBegin(t) ==
  /\ pc[t] = "copy"
  /\ Goto(t, "copying")
  /\ UNCHANGED <<runtimes, objects, closed, lock, known, threads, loc, result>>

CopyEnd(t) ==
  /\ pc[t] = "copying"
  /\ \E o \in {"ok", "failed"} :
       /\ ran' = [ran EXCEPT ![t] = o]
       /\ Goto(t, AfterCopy(t, o))
  /\ UNCHANGED <<runtimes, objects, closed, lock, known, threads, loc, restart, made>>

EmbStart(t) ==
  /\ pc[t] = "embStart"
  /\ \/ \E h \in Handles :
          /\ ~Live(h)
          /\ native' = [native EXCEPT ![h] = "embedded"]
          /\ loc' = [loc EXCEPT ![t] = h]
          /\ Goto(t, "embRun")
          /\ UNCHANGED ran
     \/ /\ EmbStartFails(t)
        /\ UNCHANGED <<native, loc>>
  /\ UNCHANGED <<owner, objects, closed, lock, known, threads, restart, made>>

EmbRun(t) ==
  /\ pc[t] = "embRun"
  /\ \E o \in {"ok", "failed"} : ran' = [ran EXCEPT ![t] = o]
  /\ Goto(t, "embClose")
  /\ UNCHANGED <<runtimes, objects, closed, lock, known, threads, loc, restart, made>>

EmbClose(t) ==
  /\ pc[t] = "embClose"
  /\ native' = [native EXCEPT ![loc[t]] = FreeTemporary]
  /\ loc' = [loc EXCEPT ![t] = None]
  /\ Goto(t, "restart")
  /\ UNCHANGED <<owner, objects, closed, lock, known, threads, result>>

\* doStartServer or doStartEmbedded: a new runtime and a session around it.
Restart(t) ==
  /\ pc[t] = "restart"
  /\ \/ \E h \in Handles, s \in Unused :
          /\ ~Live(h)
          /\ native' = [native EXCEPT ![h] = kind[self[t]]]
          /\ owner' = [owner EXCEPT ![h] = s]
          /\ kind' = [kind EXCEPT ![s] = kind[self[t]]]
          /\ hnd' = [hnd EXCEPT ![s] = h]
          /\ made' = [made EXCEPT ![t] = s]
          /\ restart' = [restart EXCEPT ![t] = "ok"]
     \/ /\ restart' = [restart EXCEPT ![t] = "failed"]
        /\ UNCHANGED <<runtimes, objects, made>>
  /\ Goto(t, "finish")
  /\ UNCHANGED <<closed, lock, known, threads, loc, ran>>

\* The old session is invalidated and the result returned or the error
\* thrown: only a result carries the new session.
Finish(t) ==
  /\ pc[t] = "finish"
  /\ Invalidate(t)
  /\ Unlock(t)
  /\ known' = known \cup (IF ran[t] = "ok" THEN {made[t]} \ {None} ELSE {})
  /\ ran' = [ran EXCEPT ![t] = "none"]
  /\ restart' = [restart EXCEPT ![t] = "none"]
  /\ made' = [made EXCEPT ![t] = None]
  /\ Goto(t, "idle")
  /\ UNCHANGED <<runtimes, objects, threads, loc>>

-----------------------------------------------------------------------------

CloseSteps(t) == CloseLock(t) \/ CloseNothing(t) \/ CloseStop(t) \/ CloseFree(t)
TakeDown(t) == OpRefused(t) \/ OpLock(t) \/ OpStop(t) \/ OpFree(t)
Work(t) == CopyBegin(t) \/ CopyEnd(t) \/ EmbStart(t) \/ EmbRun(t) \/ EmbClose(t)
BringUp(t) == Restart(t) \/ Finish(t)

Step(t) == Read(t) \/ CloseSteps(t) \/ TakeDown(t) \/ Work(t) \/ BringUp(t)

Next == \E t \in Threads : Call(t) \/ Step(t)

Spec == Init /\ [][Next]_vars

-----------------------------------------------------------------------------
(* Properties.                                                             *)

\* Every variable has its type; created sessions have a handle, and so has a
\* thread that is about to call the temporary runtime.
TypeOK ==
  /\ native \in [Handles -> NativeStates]
  /\ owner \in [Handles -> Sessions \cup {None}]
  /\ kind \in [Sessions -> Kinds]
  /\ hnd \in [Sessions -> Handles \cup {None}]
  /\ closed \in [Sessions -> BOOLEAN]
  /\ lock \in [Sessions -> Threads \cup {None}]
  /\ known \subseteq Sessions
  /\ pc \in [Threads -> PCs]
  /\ self \in [Threads -> Sessions]
  /\ op \in [Threads -> Ops \cup {"none", "read", "close"}]
  /\ loc \in [Threads -> Handles \cup {None}]
  /\ ran \in [Threads -> {"none", "ok", "failed", "notClosed", "noRuntime"}]
  /\ restart \in [Threads -> {"none", "ok", "failed"}]
  /\ made \in [Threads -> Sessions \cup {None}]
  /\ \A s \in Sessions : kind[s] = "unused" <=> hnd[s] = None
  /\ \A t \in Threads : pc[t] \in TemporaryPCs => loc[t] \in Handles

\* stop, free and the calls on the temporary runtime reach the very runtime
\* they are meant for, although addresses are reused: never one that was
\* freed, or a newer session's.
LifecycleCallsLive ==
  \A t \in Threads :
    /\ pc[t] \in TearDownPCs => Live(Own(t)) /\ owner[Own(t)] = self[t]
    /\ pc[t] \in {"closeStop", "opStop"} => native[Own(t)] = "server"
    /\ pc[t] \in TemporaryPCs => native[loc[t]] = "embedded" /\ owner[loc[t]] = None

InUse(s) == kind[s] # "unused" /\ lock[s] = None

\* A session that says it is open has its runtime running, whichever way the
\* operations on it ended (success, refused options, any failure).
OpenMeansAlive ==
  \A s \in Sessions : InUse(s) /\ ~closed[s] =>
    native[hnd[s]] = kind[s] /\ owner[hnd[s]] = s

\* A session that says it is closed has no runtime left, even when stop threw.
ClosedMeansFreed ==
  \A s \in Sessions : InUse(s) /\ closed[s] => \A h \in Handles : owner[h] # s

\* At most one native runtime is alive: no two sessions of the chain overlap,
\* and none overlaps with the temporary runtime.
OneRuntime == \A g, h \in Handles : Live(g) /\ Live(h) => g = h

\* While BackupExecutor copies the directory, no native runtime is alive.
SnapshotQuiescent == \A t \in Threads : pc[t] = "copying" => \A h \in Handles : ~Live(h)

\* BackupExecutorTest: "restart must be attempted even after copy failure".
BackupRestarts ==
  \A t \in Threads :
    pc[t] = "finish" /\ op[t] = "backup" /\ ran[t] # "notClosed" => restart[t] # "none"

\* The parties that have the directory open: sessions, and the threads with a
\* temporary runtime or a copy.
Accessors ==
  (IF \E h \in Handles : owner[h] # None THEN {"service"} ELSE {})
  \cup {t \in Threads : pc[t] \in TemporaryPCs \cup {"copying"}}

Directory == INSTANCE DirectoryAccess
  WITH Service <- "service", Sessions <- Threads, accessors <- Accessors

\* The directory has one user at a time and is handed over through nobody.
DirectoryHandover == Directory!Spec

-----------------------------------------------------------------------------
(* The inductive invariant: locks, and the chain of sessions.  At any time *)
(* one session at most is active, except that the new one of a restart     *)
(* exists next to the old one until the operation returns.                 *)

Created(s) == kind[s] # "unused"
Active(s) == Created(s) /\ (~closed[s] \/ lock[s] # None)

LockInv ==
  /\ \A s \in Sessions, t \in Threads : lock[s] = t <=> pc[t] \in HoldingPCs /\ self[t] = s
  /\ \A t \in Threads :
       /\ pc[t] \in {"closeStop", "closeFree"} => closed[self[t]] /\ ran[t] = "none"
       /\ pc[t] \in HoldingPCs \ {"closeStop", "closeFree"} => ~closed[self[t]]
       /\ pc[t] \in {"closeStop", "opStop"} => kind[self[t]] = "server"

KnownInv ==
  /\ \A s \in known : Created(s)
  /\ \A s \in Sessions : closed[s] => s \in known
  /\ \A t \in Threads :
       /\ self[t] \in known
       /\ made[t] # None => pc[t] = "finish" /\ made[t] \notin known /\ Created(made[t])
       /\ pc[t] \notin HoldingPCs \/ pc[t] = "opStop" => ran[t] = "none"
       /\ pc[t] # "finish" => restart[t] = "none"

OwnerInv ==
  /\ \A h \in Handles :
       owner[h] # None => Live(h) /\ Created(owner[h]) /\ hnd[owner[h]] = h
  /\ \A h \in Handles :
       Live(h) => owner[h] # None \/ \E t \in Threads : pc[t] \in TemporaryPCs /\ loc[t] = h
  /\ \A t \in Threads : pc[t] \in AwayPCs \cup {"finish"} => \A h \in Handles : owner[h] # self[t]

ChainInv ==
  \A r, s \in Sessions : Active(r) /\ Active(s) /\ r # s =>
    \E t \in Threads :
      /\ pc[t] = "finish"
      /\ \/ r = self[t] /\ s = made[t]
         \/ s = self[t] /\ r = made[t]

IInv ==
  /\ TypeOK /\ LockInv /\ KnownInv /\ OwnerInv /\ ChainInv
  /\ LifecycleCallsLive /\ OpenMeansAlive /\ ClosedMeansFreed

\* A backup never gets to the temporary runtime of a maintenance operation.
StageInv == \A t \in Threads : pc[t] \in {"embStart"} \cup TemporaryPCs => op[t] # "backup"

-----------------------------------------------------------------------------
(* What comments and tests say and the code does not do.                   *)

\* ServerSession: "concurrent reads may see stale data but won't
\* use-after-free".
ReadsAreSafe == \A t \in Threads : pc[t] = "read" => Live(Own(t))
=============================================================================
