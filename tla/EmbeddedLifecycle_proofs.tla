---------------------- MODULE EmbeddedLifecycle_proofs ----------------------
(***************************************************************************)
(* Proofs about EmbeddedLifecycle for any number of callers and handles.   *)
(***************************************************************************)
EXTENDS EmbeddedLifecycle, TLAPS

USE ProcsAssumption, HandlesAssumption, WritesAssumption

\* The object StartEmbedded returns satisfies the invariant.
THEOREM InitIInv == Init => IInv
  <1> SUFFICES ASSUME Init PROVE IInv
    OBVIOUS
  <1> USE DEF Init, Procs, HoldsHandle, Live
  <1>1. TypeOK
    <2>1. native \in [Handles -> {"free", "running", "poisoned"}]
      OBVIOUS
    <2>2. /\ 0 \in 0..MaxWrites
          /\ snap \in [Procs -> 0..MaxWrites]
      OBVIOUS
    <2>3. /\ pc \in [Procs -> PCs]
          /\ op \in [Procs -> Backups \cup {"none", "call", "close"}]
          /\ loc \in [Procs -> Handles \cup {None}]
      BY DEF PCs
    <2>4. /\ said \in [Procs -> Messages \cup {None}]
          /\ ran \in [Procs -> {"none", "ok", "failed", "refused"}]
          /\ reopen \in [Procs -> {"none", "ok", "failed", "badPath"}]
          /\ answer \in [Procs -> {"none", "ok", "failed", "closed", "rejected"}]
      OBVIOUS
    <2> HIDE DEF Procs
    <2> QED
      BY <2>1, <2>2, <2>3, <2>4 DEF TypeOK
  <1>2. NoCallOnFreedHandle
    BY DEF NoCallOnFreedHandle
  <1>3. ErrorIsOwn
    BY DEF ErrorIsOwn
  <1>4. MutexInv
    BY DEF MutexInv, InBackup, Committed, AwayPCs, ClosePCs, InCall
  <1>5. OwnershipInv
    BY DEF OwnershipInv, Away, AwayPCs, OwnerPCs, InCall
  <1>6. SlotInv
    BY DEF SlotInv
  <1>7. FinalInv
    BY DEF FinalInv, ClosePCs
  <1> QED
    BY <1>1, <1>2, <1>3, <1>4, <1>5, <1>6, <1>7 DEF IInv


\* A call that begins holds nothing.
LEMMA BeginCallPreserves == ASSUME IInv, NEW p \in Procs, Begin(p, "call", "callLock") PROVE IInv'
  <1> USE DEF Begin, Goto, locks, shim, backup, replies, IInv, TypeOK, HoldsHandle
  <1>1. TypeOK'
    BY DEF Messages, PCs, Backups
  <1>2. NoCallOnFreedHandle'
    BY DEF NoCallOnFreedHandle, MutexInv, OwnershipInv, OwnerPCs, Away, AwayPCs, InCall, InBackup, Committed, Live
  <1>3. ErrorIsOwn'
    BY DEF ErrorIsOwn, MutexInv, SlotInv, Message, InBackup, Committed, AwayPCs
  <1>4. MutexInv'
    BY DEF MutexInv, InBackup, Committed, AwayPCs, ClosePCs, InCall, Backups
  <1>5. OwnershipInv'
    BY DEF NoCallOnFreedHandle, MutexInv, InBackup, Committed, InCall, OwnershipInv, OwnerPCs, Away, AwayPCs, ClosePCs, Live
  <1>6. SlotInv'
    BY DEF SlotInv, MutexInv, InCall, Message
  <1>7. FinalInv'
    BY DEF MutexInv, InBackup, Committed, AwayPCs, ClosePCs, OwnershipInv, Away, OwnerPCs, Backups, FinalInv, Procs, InCall
  <1> QED
    BY <1>1, <1>2, <1>3, <1>4, <1>5, <1>6, <1>7

\* Neither does a Close ...
LEMMA BeginClosePreserves == ASSUME IInv, NEW p \in Procs, Begin(p, "close", "closeState") PROVE IInv'
  <1> USE DEF Begin, Goto, locks, shim, backup, replies, IInv, TypeOK, HoldsHandle
  <1>1. TypeOK'
    BY DEF Messages, PCs, Backups
  <1>2. NoCallOnFreedHandle'
    BY DEF NoCallOnFreedHandle, MutexInv, OwnershipInv, OwnerPCs, Away, AwayPCs, InCall, InBackup, Committed, Live
  <1>3. ErrorIsOwn'
    BY DEF ErrorIsOwn, MutexInv, SlotInv, Message, InBackup, Committed, AwayPCs
  <1>4. MutexInv'
    BY DEF MutexInv, InBackup, Committed, AwayPCs, ClosePCs, InCall, Backups
  <1>5. OwnershipInv'
    BY DEF NoCallOnFreedHandle, MutexInv, InBackup, Committed, InCall, OwnershipInv, OwnerPCs, Away, AwayPCs, ClosePCs, Live
  <1>6. SlotInv'
    BY DEF SlotInv, MutexInv, InCall, Message
  <1>7. FinalInv'
    BY DEF MutexInv, InBackup, Committed, AwayPCs, ClosePCs, OwnershipInv, Away, OwnerPCs, Backups, FinalInv, Procs, InCall
  <1> QED
    BY <1>1, <1>2, <1>3, <1>4, <1>5, <1>6, <1>7

\* ... nor a Backup.
LEMMA BeginBackupPreserves == ASSUME IInv, NEW p \in Procs, NEW o \in Backups, Begin(p, o, "waitBackup") PROVE IInv'
  <1> USE DEF Begin, Goto, locks, shim, backup, replies, IInv, TypeOK, HoldsHandle
  <1>1. TypeOK'
    BY DEF Messages, PCs, Backups
  <1>2. NoCallOnFreedHandle'
    BY DEF NoCallOnFreedHandle, MutexInv, OwnershipInv, OwnerPCs, Away, AwayPCs, InCall, InBackup, Committed, Live
  <1>3. ErrorIsOwn'
    BY DEF ErrorIsOwn, MutexInv, SlotInv, Message, InBackup, Committed, AwayPCs
  <1>4. MutexInv'
    BY DEF MutexInv, InBackup, Committed, AwayPCs, ClosePCs, InCall, Backups
  <1>5. OwnershipInv'
    BY DEF NoCallOnFreedHandle, MutexInv, InBackup, Committed, InCall, OwnershipInv, OwnerPCs, Away, AwayPCs, ClosePCs, Live
  <1>6. SlotInv'
    BY DEF SlotInv, MutexInv, InCall, Message
  <1>7. FinalInv'
    BY DEF MutexInv, InBackup, Committed, AwayPCs, ClosePCs, OwnershipInv, Away, OwnerPCs, Backups, FinalInv, Procs, InCall
  <1> QED
    BY <1>1, <1>2, <1>3, <1>4, <1>5, <1>6, <1>7

\* A refused call has changed nothing.
LEMMA CallRefusedPreserves == ASSUME IInv, NEW p \in Procs, CallRefused(p) PROVE IInv'
  <1> USE DEF CallRefused, Answers, Goto, locks, shim, backup, replies, IInv, TypeOK, HoldsHandle
  <1>1. TypeOK'
    BY DEF Messages, PCs, Backups
  <1>2. NoCallOnFreedHandle'
    BY DEF NoCallOnFreedHandle, MutexInv, OwnershipInv, OwnerPCs, Away, AwayPCs, InCall, InBackup, Committed, Live
  <1>3. ErrorIsOwn'
    BY DEF ErrorIsOwn, MutexInv, SlotInv, Message, InBackup, Committed, AwayPCs
  <1>4. MutexInv'
    BY DEF MutexInv, InBackup, Committed, AwayPCs, ClosePCs, InCall, Backups
  <1>5. OwnershipInv'
    BY DEF NoCallOnFreedHandle, MutexInv, InBackup, Committed, InCall, OwnershipInv, OwnerPCs, Away, AwayPCs, ClosePCs, Live
  <1>6. SlotInv'
    BY DEF SlotInv, MutexInv, InCall, Message
  <1>7. FinalInv'
    BY DEF MutexInv, InBackup, Committed, AwayPCs, ClosePCs, OwnershipInv, Away, OwnerPCs, Backups, FinalInv, Procs, InCall
  <1> QED
    BY <1>1, <1>2, <1>3, <1>4, <1>5, <1>6, <1>7

\* From here on the call holds ffiMu, so its handle stays the object's.
LEMMA CallLockPreserves == ASSUME IInv, NEW p \in Procs, CallLock(p) PROVE IInv'
  <1> USE DEF CallLock, CallTakesFfi, Goto, locks, shim, backup, replies, IInv, TypeOK, HoldsHandle
  <1>1. TypeOK'
    BY DEF Messages, PCs, Backups
  <1>2. NoCallOnFreedHandle'
    BY DEF NoCallOnFreedHandle, MutexInv, OwnershipInv, OwnerPCs, Away, AwayPCs, InCall, InBackup, Committed, Live
  <1>3. ErrorIsOwn'
    BY DEF ErrorIsOwn, MutexInv, SlotInv, Message, InBackup, Committed, AwayPCs
  <1>4. MutexInv'
    BY DEF MutexInv, InBackup, Committed, AwayPCs, ClosePCs, InCall, Backups
  <1>5. OwnershipInv'
    BY DEF NoCallOnFreedHandle, MutexInv, InBackup, Committed, InCall, OwnershipInv, OwnerPCs, Away, AwayPCs, ClosePCs, Live
  <1>6. SlotInv'
    BY DEF SlotInv, MutexInv, InCall, Message
  <1>7. FinalInv'
    BY DEF MutexInv, InBackup, Committed, AwayPCs, ClosePCs, OwnershipInv, Away, OwnerPCs, Backups, FinalInv, Procs, InCall
  <1> QED
    BY <1>1, <1>2, <1>3, <1>4, <1>5, <1>6, <1>7

\* A call that succeeds leaves the slot as it was.
LEMMA CallSucceedsPreserves == ASSUME IInv, NEW p \in Procs, CallSucceeds(p) PROVE IInv'
  <1> USE DEF CallSucceeds, Answers, FrontendLocks, Goto, locks, shim, backup, replies, IInv, TypeOK, HoldsHandle
  <1>1. TypeOK'
    BY DEF Messages, PCs, Backups
  <1>2. NoCallOnFreedHandle'
    BY DEF NoCallOnFreedHandle, MutexInv, OwnershipInv, OwnerPCs, Away, AwayPCs, InCall, InBackup, Committed, Live
  <1>3. ErrorIsOwn'
    BY DEF ErrorIsOwn, MutexInv, SlotInv, Message, InBackup, Committed, AwayPCs
  <1>4. MutexInv'
    BY DEF MutexInv, InBackup, Committed, AwayPCs, ClosePCs, InCall, Backups
  <1>5. OwnershipInv'
    BY DEF NoCallOnFreedHandle, MutexInv, InBackup, Committed, InCall, OwnershipInv, OwnerPCs, Away, AwayPCs, ClosePCs, Live
  <1>6. SlotInv'
    BY DEF SlotInv, MutexInv, InCall, Message
  <1>7. FinalInv'
    BY DEF MutexInv, InBackup, Committed, AwayPCs, ClosePCs, OwnershipInv, Away, OwnerPCs, Backups, FinalInv, Procs, InCall
  <1> QED
    BY <1>1, <1>2, <1>3, <1>4, <1>5, <1>6, <1>7

\* A call that fails leaves its message while it holds ffiMu.
LEMMA CallFailsPreserves == ASSUME IInv, NEW p \in Procs, CallFails(p) PROVE IInv'
  <1> USE DEF CallFails, KeepFfi, Says, Message, Goto, locks, shim, backup, replies, IInv, TypeOK, HoldsHandle
  <1>1. TypeOK'
    BY DEF Messages, PCs, Backups
  <1>2. NoCallOnFreedHandle'
    BY DEF NoCallOnFreedHandle, MutexInv, OwnershipInv, OwnerPCs, Away, AwayPCs, InCall, InBackup, Committed, Live
  <1>3. ErrorIsOwn'
    BY DEF ErrorIsOwn, MutexInv, SlotInv, Message, InBackup, Committed, AwayPCs
  <1>4. MutexInv'
    BY DEF MutexInv, InBackup, Committed, AwayPCs, ClosePCs, InCall, Backups
  <1>5. OwnershipInv'
    BY DEF NoCallOnFreedHandle, MutexInv, InBackup, Committed, InCall, OwnershipInv, OwnerPCs, Away, AwayPCs, ClosePCs, Live
  <1>6. SlotInv'
    BY DEF SlotInv, MutexInv, InCall, Message
  <1>7. FinalInv'
    BY DEF MutexInv, InBackup, Committed, AwayPCs, ClosePCs, OwnershipInv, Away, OwnerPCs, Backups, FinalInv, Procs, InCall
  <1> QED
    BY <1>1, <1>2, <1>3, <1>4, <1>5, <1>6, <1>7

\* The message in the slot is the caller's, and it is taken.
LEMMA CallReadsErrorPreserves == ASSUME IInv, NEW p \in Procs, CallReadsError(p) PROVE IInv'
  <1> USE DEF CallReadsError, ReadError, Take, Answers, Message, Goto, locks, shim, backup, replies, IInv, TypeOK, HoldsHandle
  <1>1. TypeOK'
    BY DEF Messages, PCs, Backups
  <1>2. NoCallOnFreedHandle'
    BY DEF NoCallOnFreedHandle, MutexInv, OwnershipInv, OwnerPCs, Away, AwayPCs, InCall, InBackup, Committed, Live
  <1>3. ErrorIsOwn'
    BY DEF ErrorIsOwn, MutexInv, SlotInv, Message, InBackup, Committed, AwayPCs
  <1>4. MutexInv'
    BY DEF MutexInv, InBackup, Committed, AwayPCs, ClosePCs, InCall, Backups
  <1>5. OwnershipInv'
    BY DEF NoCallOnFreedHandle, MutexInv, InBackup, Committed, InCall, OwnershipInv, OwnerPCs, Away, AwayPCs, ClosePCs, Live
  <1>6. SlotInv'
    BY DEF SlotInv, MutexInv, InCall, Message
  <1>7. FinalInv'
    BY DEF MutexInv, InBackup, Committed, AwayPCs, ClosePCs, OwnershipInv, Away, OwnerPCs, Backups, FinalInv, Procs, InCall
  <1> QED
    BY <1>1, <1>2, <1>3, <1>4, <1>5, <1>6, <1>7

\* Close takes stateMu, which nobody held.
LEMMA CloseStatePreserves == ASSUME IInv, NEW p \in Procs, CloseState(p) PROVE IInv'
  <1> USE DEF CloseState, Goto, locks, shim, backup, replies, IInv, TypeOK, HoldsHandle
  <1>1. TypeOK'
    BY DEF Messages, PCs, Backups
  <1>2. NoCallOnFreedHandle'
    BY DEF NoCallOnFreedHandle, MutexInv, OwnershipInv, OwnerPCs, Away, AwayPCs, InCall, InBackup, Committed, Live
  <1>3. ErrorIsOwn'
    BY DEF ErrorIsOwn, MutexInv, SlotInv, Message, InBackup, Committed, AwayPCs
  <1>4. MutexInv'
    BY DEF MutexInv, InBackup, Committed, AwayPCs, ClosePCs, InCall, Backups
  <1>5. OwnershipInv'
    BY DEF NoCallOnFreedHandle, MutexInv, InBackup, Committed, InCall, OwnershipInv, OwnerPCs, Away, AwayPCs, ClosePCs, Live
  <1>6. SlotInv'
    BY DEF SlotInv, MutexInv, InCall, Message
  <1>7. FinalInv'
    BY DEF MutexInv, InBackup, Committed, AwayPCs, ClosePCs, OwnershipInv, Away, OwnerPCs, Backups, FinalInv, Procs, InCall
  <1> QED
    BY <1>1, <1>2, <1>3, <1>4, <1>5, <1>6, <1>7

\* A Close of a closed object is final when no Backup is committed.
LEMMA CloseNothingPreserves == ASSUME IInv, NEW p \in Procs, CloseNothing(p) PROVE IInv'
  <1> USE DEF CloseNothing, CloseReturns, Goto, locks, shim, backup, replies, IInv, TypeOK, HoldsHandle
  <1>1. TypeOK'
    BY DEF Messages, PCs, Backups
  <1>2. NoCallOnFreedHandle'
    BY DEF NoCallOnFreedHandle, MutexInv, OwnershipInv, OwnerPCs, Away, AwayPCs, InCall, InBackup, Committed, Live
  <1>3. ErrorIsOwn'
    BY DEF ErrorIsOwn, MutexInv, SlotInv, Message, InBackup, Committed, AwayPCs
  <1>4. MutexInv'
    BY DEF MutexInv, InBackup, Committed, AwayPCs, ClosePCs, InCall, Backups
  <1>5. OwnershipInv'
    BY DEF NoCallOnFreedHandle, MutexInv, InBackup, Committed, InCall, OwnershipInv, OwnerPCs, Away, AwayPCs, ClosePCs, Live
  <1>6. SlotInv'
    BY DEF SlotInv, MutexInv, InCall, Message
  <1>7. FinalInv'
    BY DEF MutexInv, InBackup, Committed, AwayPCs, ClosePCs, OwnershipInv, Away, OwnerPCs, Backups, FinalInv, Procs, InCall
  <1> QED
    BY <1>1, <1>2, <1>3, <1>4, <1>5, <1>6, <1>7

\* Close swaps the handle out: it is now the only one to know it.
LEMMA CloseSwapPreserves == ASSUME IInv, NEW p \in Procs, CloseSwap(p) PROVE IInv'
  <1> USE DEF CloseSwap, Goto, locks, shim, backup, replies, IInv, TypeOK, HoldsHandle
  <1>1. TypeOK'
    BY DEF Messages, PCs, Backups
  <1>2. NoCallOnFreedHandle'
    BY DEF NoCallOnFreedHandle, MutexInv, OwnershipInv, OwnerPCs, Away, AwayPCs, InCall, InBackup, Committed, Live
  <1>3. ErrorIsOwn'
    BY DEF ErrorIsOwn, MutexInv, SlotInv, Message, InBackup, Committed, AwayPCs
  <1>4. MutexInv'
    BY DEF MutexInv, InBackup, Committed, AwayPCs, ClosePCs, InCall, Backups
  <1>5. OwnershipInv'
    BY DEF NoCallOnFreedHandle, MutexInv, InBackup, Committed, InCall, OwnershipInv, OwnerPCs, Away, AwayPCs, ClosePCs, Live
  <1>6. SlotInv'
    BY DEF SlotInv, MutexInv, InCall, Message
  <1>7. FinalInv'
    BY DEF MutexInv, InBackup, Committed, AwayPCs, ClosePCs, OwnershipInv, Away, OwnerPCs, Backups, FinalInv, Procs, InCall
  <1> QED
    BY <1>1, <1>2, <1>3, <1>4, <1>5, <1>6, <1>7

\* Close frees the handle it swapped out, and no one else uses it.
LEMMA CloseCallPreserves == ASSUME IInv, NEW p \in Procs, CloseCall(p) PROVE IInv'
  <1> USE DEF CloseCall, CloseReturns, EndRuntime, FreePanics, Message, Goto, locks, shim, backup, replies, IInv, TypeOK, HoldsHandle
  <1>1. TypeOK'
    BY DEF Messages, PCs, Backups
  <1>2. NoCallOnFreedHandle'
    BY DEF NoCallOnFreedHandle, MutexInv, OwnershipInv, OwnerPCs, Away, AwayPCs, InCall, InBackup, Committed, Live
  <1>3. ErrorIsOwn'
    BY DEF ErrorIsOwn, MutexInv, SlotInv, Message, InBackup, Committed, AwayPCs
  <1>4. MutexInv'
    BY DEF MutexInv, InBackup, Committed, AwayPCs, ClosePCs, InCall, Backups
  <1>5. OwnershipInv'
    BY DEF NoCallOnFreedHandle, MutexInv, InBackup, Committed, InCall, OwnershipInv, OwnerPCs, Away, AwayPCs, ClosePCs, Live
  <1>6. SlotInv'
    BY DEF SlotInv, MutexInv, InCall, Message
  <1>7. FinalInv'
    BY DEF MutexInv, InBackup, Committed, AwayPCs, ClosePCs, OwnershipInv, Away, OwnerPCs, Backups, FinalInv, Procs, InCall
  <1> QED
    BY <1>1, <1>2, <1>3, <1>4, <1>5, <1>6, <1>7

\* backupMu admits one Backup.
LEMMA LockBackupPreserves == ASSUME IInv, NEW p \in Procs, LockBackup(p) PROVE IInv'
  <1> USE DEF LockBackup, BackupMuFree, Goto, locks, shim, backup, replies, IInv, TypeOK, HoldsHandle
  <1>1. TypeOK'
    BY DEF Messages, PCs, Backups
  <1>2. NoCallOnFreedHandle'
    BY DEF NoCallOnFreedHandle, MutexInv, OwnershipInv, OwnerPCs, Away, AwayPCs, InCall, InBackup, Committed, Live
  <1>3. ErrorIsOwn'
    BY DEF ErrorIsOwn, MutexInv, SlotInv, Message, InBackup, Committed, AwayPCs
  <1>4. MutexInv'
    BY DEF MutexInv, InBackup, Committed, AwayPCs, ClosePCs, InCall, Backups
  <1>5. OwnershipInv'
    BY DEF NoCallOnFreedHandle, MutexInv, InBackup, Committed, InCall, OwnershipInv, OwnerPCs, Away, AwayPCs, ClosePCs, Live
  <1>6. SlotInv'
    BY DEF SlotInv, MutexInv, InCall, Message
  <1>7. FinalInv'
    BY DEF MutexInv, InBackup, Committed, AwayPCs, ClosePCs, OwnershipInv, Away, OwnerPCs, Backups, FinalInv, Procs, InCall
  <1> QED
    BY <1>1, <1>2, <1>3, <1>4, <1>5, <1>6, <1>7

\* A Backup that saw a handle is committed; the object was not closed for good.
LEMMA SnapshotInputsPreserves == ASSUME IInv, NEW p \in Procs, SnapshotInputs(p) PROVE IInv'
  <1> USE DEF SnapshotInputs, NotStarted, Goto, locks, shim, backup, replies, IInv, TypeOK, HoldsHandle
  <1>1. TypeOK'
    BY DEF Messages, PCs, Backups
  <1>2. NoCallOnFreedHandle'
    BY DEF NoCallOnFreedHandle, MutexInv, OwnershipInv, OwnerPCs, Away, AwayPCs, InCall, InBackup, Committed, Live
  <1>3. ErrorIsOwn'
    BY DEF ErrorIsOwn, MutexInv, SlotInv, Message, InBackup, Committed, AwayPCs
  <1>4. MutexInv'
    BY DEF MutexInv, InBackup, Committed, AwayPCs, ClosePCs, InCall, Backups
  <1>5. OwnershipInv'
    BY DEF NoCallOnFreedHandle, MutexInv, InBackup, Committed, InCall, OwnershipInv, OwnerPCs, Away, AwayPCs, ClosePCs, Live
  <1>6. SlotInv'
    BY DEF SlotInv, MutexInv, InCall, Message
  <1>7. FinalInv'
    BY DEF MutexInv, InBackup, Committed, AwayPCs, ClosePCs, OwnershipInv, Away, OwnerPCs, Backups, FinalInv, Procs, InCall
  <1> QED
    BY <1>1, <1>2, <1>3, <1>4, <1>5, <1>6, <1>7

\* Planning changes nothing that other callers see.
LEMMA PlanBackupPreserves == ASSUME IInv, NEW p \in Procs, PlanBackup(p) PROVE IInv'
  <1> USE DEF PlanBackup, Goto, locks, shim, backup, replies, IInv, TypeOK, HoldsHandle
  <1>1. TypeOK'
    BY DEF Messages, PCs, Backups
  <1>2. NoCallOnFreedHandle'
    BY DEF NoCallOnFreedHandle, MutexInv, OwnershipInv, OwnerPCs, Away, AwayPCs, InCall, InBackup, Committed, Live
  <1>3. ErrorIsOwn'
    BY DEF ErrorIsOwn, MutexInv, SlotInv, Message, InBackup, Committed, AwayPCs
  <1>4. MutexInv'
    BY DEF MutexInv, InBackup, Committed, AwayPCs, ClosePCs, InCall, Backups
  <1>5. OwnershipInv'
    BY DEF NoCallOnFreedHandle, MutexInv, InBackup, Committed, InCall, OwnershipInv, OwnerPCs, Away, AwayPCs, ClosePCs, Live
  <1>6. SlotInv'
    BY DEF SlotInv, MutexInv, InCall, Message
  <1>7. FinalInv'
    BY DEF MutexInv, InBackup, Committed, AwayPCs, ClosePCs, OwnershipInv, Away, OwnerPCs, Backups, FinalInv, Procs, InCall
  <1> QED
    BY <1>1, <1>2, <1>3, <1>4, <1>5, <1>6, <1>7

\* Nor does starting to copy.
LEMMA CopyBeginPreserves == ASSUME IInv, NEW p \in Procs, CopyBegin(p) PROVE IInv'
  <1> USE DEF CopyBegin, Goto, locks, shim, backup, replies, IInv, TypeOK, HoldsHandle
  <1>1. TypeOK'
    BY DEF Messages, PCs, Backups
  <1>2. NoCallOnFreedHandle'
    BY DEF NoCallOnFreedHandle, MutexInv, OwnershipInv, OwnerPCs, Away, AwayPCs, InCall, InBackup, Committed, Live
  <1>3. ErrorIsOwn'
    BY DEF ErrorIsOwn, MutexInv, SlotInv, Message, InBackup, Committed, AwayPCs
  <1>4. MutexInv'
    BY DEF MutexInv, InBackup, Committed, AwayPCs, ClosePCs, InCall, Backups
  <1>5. OwnershipInv'
    BY DEF NoCallOnFreedHandle, MutexInv, InBackup, Committed, InCall, OwnershipInv, OwnerPCs, Away, AwayPCs, ClosePCs, Live
  <1>6. SlotInv'
    BY DEF SlotInv, MutexInv, InCall, Message
  <1>7. FinalInv'
    BY DEF MutexInv, InBackup, Committed, AwayPCs, ClosePCs, OwnershipInv, Away, OwnerPCs, Backups, FinalInv, Procs, InCall
  <1> QED
    BY <1>1, <1>2, <1>3, <1>4, <1>5, <1>6, <1>7

\* Nor does the end of the copy.
LEMMA CopyEndPreserves == ASSUME IInv, NEW p \in Procs, CopyEnd(p) PROVE IInv'
  <1> USE DEF CopyEnd, Goto, locks, shim, backup, replies, IInv, TypeOK, HoldsHandle
  <1>1. TypeOK'
    BY DEF Messages, PCs, Backups
  <1>2. NoCallOnFreedHandle'
    BY DEF NoCallOnFreedHandle, MutexInv, OwnershipInv, OwnerPCs, Away, AwayPCs, InCall, InBackup, Committed, Live
  <1>3. ErrorIsOwn'
    BY DEF ErrorIsOwn, MutexInv, SlotInv, Message, InBackup, Committed, AwayPCs
  <1>4. MutexInv'
    BY DEF MutexInv, InBackup, Committed, AwayPCs, ClosePCs, InCall, Backups
  <1>5. OwnershipInv'
    BY DEF NoCallOnFreedHandle, MutexInv, InBackup, Committed, InCall, OwnershipInv, OwnerPCs, Away, AwayPCs, ClosePCs, Live
  <1>6. SlotInv'
    BY DEF SlotInv, MutexInv, InCall, Message
  <1>7. FinalInv'
    BY DEF MutexInv, InBackup, Committed, AwayPCs, ClosePCs, OwnershipInv, Away, OwnerPCs, Backups, FinalInv, Procs, InCall
  <1> QED
    BY <1>1, <1>2, <1>3, <1>4, <1>5, <1>6, <1>7

\* The start of the new runtime holds ffiMu from its first call to its last.
LEMMA StartLockPreserves == ASSUME IInv, NEW p \in Procs, StartLock(p) PROVE IInv'
  <1> USE DEF StartLock, Goto, locks, shim, backup, replies, IInv, TypeOK, HoldsHandle
  <1>1. TypeOK'
    BY DEF Messages, PCs, Backups
  <1>2. NoCallOnFreedHandle'
    BY DEF NoCallOnFreedHandle, MutexInv, OwnershipInv, OwnerPCs, Away, AwayPCs, InCall, InBackup, Committed, Live
  <1>3. ErrorIsOwn'
    BY DEF ErrorIsOwn, MutexInv, SlotInv, Message, InBackup, Committed, AwayPCs
  <1>4. MutexInv'
    BY DEF MutexInv, InBackup, Committed, AwayPCs, ClosePCs, InCall, Backups
  <1>5. OwnershipInv'
    BY DEF NoCallOnFreedHandle, MutexInv, InBackup, Committed, InCall, OwnershipInv, OwnerPCs, Away, AwayPCs, ClosePCs, Live
  <1>6. SlotInv'
    BY DEF SlotInv, MutexInv, InCall, Message
  <1>7. FinalInv'
    BY DEF MutexInv, InBackup, Committed, AwayPCs, ClosePCs, OwnershipInv, Away, OwnerPCs, Backups, FinalInv, Procs, InCall
  <1> QED
    BY <1>1, <1>2, <1>3, <1>4, <1>5, <1>6, <1>7

\* A new runtime gets an unused address, and the object has no handle.
LEMMA StartCallPreserves == ASSUME IInv, NEW p \in Procs, StartCall(p) PROVE IInv'
  <1> USE DEF StartCall, StartFails, Says, Message, Goto, locks, shim, backup, replies, IInv, TypeOK, HoldsHandle
  <1>1. TypeOK'
    BY DEF Messages, PCs, Backups
  <1>2. NoCallOnFreedHandle'
    BY DEF NoCallOnFreedHandle, MutexInv, OwnershipInv, OwnerPCs, Away, AwayPCs, InCall, InBackup, Committed, Live
  <1>3. ErrorIsOwn'
    BY DEF ErrorIsOwn, MutexInv, SlotInv, Message, InBackup, Committed, AwayPCs
  <1>4. MutexInv'
    BY DEF MutexInv, InBackup, Committed, AwayPCs, ClosePCs, InCall, Backups
  <1>5. OwnershipInv'
    BY DEF NoCallOnFreedHandle, MutexInv, InBackup, Committed, InCall, OwnershipInv, OwnerPCs, Away, AwayPCs, ClosePCs, Live
  <1>6. SlotInv'
    BY DEF SlotInv, MutexInv, InCall, Message
  <1>7. FinalInv'
    BY DEF MutexInv, InBackup, Committed, AwayPCs, ClosePCs, OwnershipInv, Away, OwnerPCs, Backups, FinalInv, Procs, InCall
  <1> QED
    BY <1>1, <1>2, <1>3, <1>4, <1>5, <1>6, <1>7

\* A failed start reports its own message.
LEMMA StartReadsErrorPreserves == ASSUME IInv, NEW p \in Procs, StartReadsError(p) PROVE IInv'
  <1> USE DEF StartReadsError, ReadError, Take, Message, Goto, locks, shim, backup, replies, IInv, TypeOK, HoldsHandle
  <1>1. TypeOK'
    BY DEF Messages, PCs, Backups
  <1>2. NoCallOnFreedHandle'
    BY DEF NoCallOnFreedHandle, MutexInv, OwnershipInv, OwnerPCs, Away, AwayPCs, InCall, InBackup, Committed, Live
  <1>3. ErrorIsOwn'
    BY DEF ErrorIsOwn, MutexInv, SlotInv, Message, InBackup, Committed, AwayPCs
  <1>4. MutexInv'
    BY DEF MutexInv, InBackup, Committed, AwayPCs, ClosePCs, InCall, Backups
  <1>5. OwnershipInv'
    BY DEF NoCallOnFreedHandle, MutexInv, InBackup, Committed, InCall, OwnershipInv, OwnerPCs, Away, AwayPCs, ClosePCs, Live
  <1>6. SlotInv'
    BY DEF SlotInv, MutexInv, InCall, Message
  <1>7. FinalInv'
    BY DEF MutexInv, InBackup, Committed, AwayPCs, ClosePCs, OwnershipInv, Away, OwnerPCs, Backups, FinalInv, Procs, InCall
  <1> QED
    BY <1>1, <1>2, <1>3, <1>4, <1>5, <1>6, <1>7

\* The new runtime is kept or freed.
LEMMA StartedPreserves == ASSUME IInv, NEW p \in Procs, Started(p) PROVE IInv'
  <1> USE DEF Started, Discard, EndRuntime, FreePanics, Message, Goto, locks, shim, backup, replies, IInv, TypeOK, HoldsHandle
  <1>1. TypeOK'
    BY DEF Messages, PCs, Backups
  <1>2. NoCallOnFreedHandle'
    BY DEF NoCallOnFreedHandle, MutexInv, OwnershipInv, OwnerPCs, Away, AwayPCs, InCall, InBackup, Committed, Live
  <1>3. ErrorIsOwn'
    BY DEF ErrorIsOwn, MutexInv, SlotInv, Message, InBackup, Committed, AwayPCs
  <1>4. MutexInv'
    BY DEF MutexInv, InBackup, Committed, AwayPCs, ClosePCs, InCall, Backups
  <1>5. OwnershipInv'
    BY DEF NoCallOnFreedHandle, MutexInv, InBackup, Committed, InCall, OwnershipInv, OwnerPCs, Away, AwayPCs, ClosePCs, Live
  <1>6. SlotInv'
    BY DEF SlotInv, MutexInv, InCall, Message
  <1>7. FinalInv'
    BY DEF MutexInv, InBackup, Committed, AwayPCs, ClosePCs, OwnershipInv, Away, OwnerPCs, Backups, FinalInv, Procs, InCall
  <1> QED
    BY <1>1, <1>2, <1>3, <1>4, <1>5, <1>6, <1>7

\* The object takes over the only handle.
LEMMA StorePreserves == ASSUME IInv, NEW p \in Procs, Store(p) PROVE IInv'
  <1> USE DEF Store, MoveHandle, Goto, locks, shim, backup, replies, IInv, TypeOK, HoldsHandle
  <1>1. TypeOK'
    BY DEF Messages, PCs, Backups
  <1>2. NoCallOnFreedHandle'
    BY DEF NoCallOnFreedHandle, MutexInv, OwnershipInv, OwnerPCs, Away, AwayPCs, InCall, InBackup, Committed, Live
  <1>3. ErrorIsOwn'
    BY DEF ErrorIsOwn, MutexInv, SlotInv, Message, InBackup, Committed, AwayPCs
  <1>4. MutexInv'
    BY DEF MutexInv, InBackup, Committed, AwayPCs, ClosePCs, InCall, Backups
  <1>5. OwnershipInv'
    BY DEF NoCallOnFreedHandle, MutexInv, InBackup, Committed, InCall, OwnershipInv, OwnerPCs, Away, AwayPCs, ClosePCs, Live
  <1>6. SlotInv'
    BY DEF SlotInv, MutexInv, InCall, Message
  <1>7. FinalInv'
    BY DEF MutexInv, InBackup, Committed, AwayPCs, ClosePCs, OwnershipInv, Away, OwnerPCs, Backups, FinalInv, Procs, InCall
  <1> QED
    BY <1>1, <1>2, <1>3, <1>4, <1>5, <1>6, <1>7

\* A Backup that returns holds no lock and no handle.
LEMMA ReturnPreserves == ASSUME IInv, NEW p \in Procs, Return(p) PROVE IInv'
  <1> USE DEF Return, Goto, locks, shim, backup, replies, IInv, TypeOK, HoldsHandle
  <1>1. TypeOK'
    BY DEF Messages, PCs, Backups
  <1>2. NoCallOnFreedHandle'
    BY DEF NoCallOnFreedHandle, MutexInv, OwnershipInv, OwnerPCs, Away, AwayPCs, InCall, InBackup, Committed, Live
  <1>3. ErrorIsOwn'
    BY DEF ErrorIsOwn, MutexInv, SlotInv, Message, InBackup, Committed, AwayPCs
  <1>4. MutexInv'
    BY DEF MutexInv, InBackup, Committed, AwayPCs, ClosePCs, InCall, Backups
  <1>5. OwnershipInv'
    BY DEF NoCallOnFreedHandle, MutexInv, InBackup, Committed, InCall, OwnershipInv, OwnerPCs, Away, AwayPCs, ClosePCs, Live
  <1>6. SlotInv'
    BY DEF SlotInv, MutexInv, InCall, Message
  <1>7. FinalInv'
    BY DEF MutexInv, InBackup, Committed, AwayPCs, ClosePCs, OwnershipInv, Away, OwnerPCs, Backups, FinalInv, Procs, InCall
  <1> QED
    BY <1>1, <1>2, <1>3, <1>4, <1>5, <1>6, <1>7

\* A write of a runtime changes the directory only.
LEMMA RuntimeWritesPreserves == IInv /\ RuntimeWrites => IInv'
  <1> SUFFICES ASSUME IInv, RuntimeWrites PROVE IInv' OBVIOUS
  <1> USE DEF RuntimeWrites, Goto, locks, shim, backup, replies, IInv, TypeOK, HoldsHandle
  <1>1. TypeOK'
    BY DEF Messages, PCs, Backups
  <1>2. NoCallOnFreedHandle'
    BY DEF NoCallOnFreedHandle, MutexInv, OwnershipInv, OwnerPCs, Away, AwayPCs, InCall, InBackup, Committed, Live
  <1>3. ErrorIsOwn'
    BY DEF ErrorIsOwn, MutexInv, SlotInv, Message, InBackup, Committed, AwayPCs
  <1>4. MutexInv'
    BY DEF MutexInv, InBackup, Committed, AwayPCs, ClosePCs, InCall, Backups
  <1>5. OwnershipInv'
    BY DEF NoCallOnFreedHandle, MutexInv, InBackup, Committed, InCall, OwnershipInv, OwnerPCs, Away, AwayPCs, ClosePCs, Live
  <1>6. SlotInv'
    BY DEF SlotInv, MutexInv, InCall, Message
  <1>7. FinalInv'
    BY DEF MutexInv, InBackup, Committed, AwayPCs, ClosePCs, OwnershipInv, Away, OwnerPCs, Backups, FinalInv, Procs, InCall
  <1> QED
    BY <1>1, <1>2, <1>3, <1>4, <1>5, <1>6, <1>7

\* The finalizer starts when no method is running.
LEMMA DropPreserves == IInv /\ Drop => IInv'
  <1> SUFFICES ASSUME IInv, Drop PROVE IInv' OBVIOUS
  <1> USE DEF Drop, Goto, locks, shim, backup, replies, IInv, TypeOK, HoldsHandle
  <1>1. TypeOK'
    BY DEF Messages, PCs, Backups
  <1>2. NoCallOnFreedHandle'
    BY DEF NoCallOnFreedHandle, MutexInv, OwnershipInv, OwnerPCs, Away, AwayPCs, InCall, InBackup, Committed, Live
  <1>3. ErrorIsOwn'
    BY DEF ErrorIsOwn, MutexInv, SlotInv, Message, InBackup, Committed, AwayPCs
  <1>4. MutexInv'
    BY DEF MutexInv, InBackup, Committed, AwayPCs, ClosePCs, InCall, Backups, FinalInv, Procs
  <1>5. OwnershipInv'
    BY DEF NoCallOnFreedHandle, MutexInv, InBackup, Committed, InCall, OwnershipInv, OwnerPCs, Away, AwayPCs, ClosePCs, Live
  <1>6. SlotInv'
    BY DEF SlotInv, MutexInv, InCall, Message
  <1>7. FinalInv'
    BY DEF MutexInv, InBackup, Committed, AwayPCs, ClosePCs, OwnershipInv, Away, OwnerPCs, Backups, FinalInv, Procs, InCall
  <1> QED
    BY <1>1, <1>2, <1>3, <1>4, <1>5, <1>6, <1>7

-----------------------------------------------------------------------------

\* Every step of a caller or of the finalizer preserves the invariant.
LEMMA StepPreserves == ASSUME IInv, NEW p \in Procs, Call(p) \/ Step(p) PROVE IInv'
  <1>1. CASE Call(p)
    BY <1>1, BeginCallPreserves, BeginClosePreserves, BeginBackupPreserves DEF Call
  <1>2. CASE DataCall(p)
    BY <1>2, CallRefusedPreserves, CallLockPreserves, CallSucceedsPreserves,
       CallFailsPreserves, CallReadsErrorPreserves DEF DataCall
  <1>3. CASE CloseMethod(p)
    BY <1>3, CloseStatePreserves, CloseNothingPreserves, CloseSwapPreserves,
       CloseCallPreserves DEF CloseMethod
  <1>4. CASE TakeBackup(p)
    BY <1>4, LockBackupPreserves, SnapshotInputsPreserves, PlanBackupPreserves,
       CopyBeginPreserves, CopyEndPreserves, ReturnPreserves DEF TakeBackup
  <1>5. CASE Reopen(p)
    BY <1>5, StartLockPreserves, StartCallPreserves, StartReadsErrorPreserves,
       StartedPreserves, StorePreserves DEF Reopen
  <1> QED
    BY <1>1, <1>2, <1>3, <1>4, <1>5 DEF Step

\* So does a stuttering step.
LEMMA StutterPreserves == IInv /\ UNCHANGED vars => IInv'
  BY DEF vars, locks, shim, backup, replies, IInv, TypeOK, NoCallOnFreedHandle, ErrorIsOwn,
         MutexInv, InBackup, Committed, OwnershipInv, Away, Live, SlotInv, FinalInv

\* The invariant is inductive.
LEMMA NextPreserves == IInv /\ [Next]_vars => IInv'
  BY StepPreserves, RuntimeWritesPreserves, DropPreserves, StutterPreserves DEF Next, Terminated

\* The inductive invariant holds for every number of callers and handles.
THEOREM Inductive == Spec => []IInv
  BY InitIInv, NextPreserves, PTL DEF Spec

\* Every variable keeps its type, and a failed start is never called.
THEOREM TypeCorrect == Spec => []TypeOK
  <1>1. IInv => TypeOK
    BY DEF IInv
  <1> QED
    BY <1>1, Inductive, PTL

\* No method of an Embedded calls the shim on a handle that Close has freed.
THEOREM NeverCallsFreedHandle == Spec => []NoCallOnFreedHandle
  <1>1. IInv => NoCallOnFreedHandle
    BY DEF IInv
  <1> QED
    BY <1>1, Inductive, PTL

\* Every error carries the message of the call that failed.
THEOREM ErrorsAreOwn == Spec => []ErrorIsOwn
  <1>1. IInv => ErrorIsOwn
    BY DEF IInv
  <1> QED
    BY <1>1, Inductive, PTL

\* No failure leaves its message in the slot when ffiMu is released, but for
\* that of a free.
THEOREM SlotStaysClean == Spec => []SlotIsClean
  <1>1. IInv => SlotIsClean
    BY DEF IInv, TypeOK, SlotInv, MutexInv, InCall, SlotIsClean
  <1> QED
    BY <1>1, Inductive, PTL

\* At most one process owns a handle in a local variable, and none does while
\* the object has one.
LEMMA OwnersExclude ==
  ASSUME IInv, NEW p \in Procs, pc[p] \in OwnerPCs
  PROVE  handle = None /\ \A q \in Procs : pc[q] \in OwnerPCs => q = p
  BY DEF IInv, MutexInv, OwnershipInv, OwnerPCs, Away, AwayPCs, InBackup, Committed

\* At most one native runtime has the persistence directory open.
THEOREM OneRuntimeOnly == Spec => []OneRuntime
  <1>1. IInv => OneRuntime
    BY OwnersExclude DEF IInv, OwnershipInv, OneRuntime
  <1> QED
    BY <1>1, Inductive, PTL

\* Every live native runtime is still reachable, so it can be freed.
THEOREM NoOrphans == Spec => []NoOrphanRuntime
  <1>1. IInv => NoOrphanRuntime
    BY DEF IInv, OwnershipInv, NoOrphanRuntime
  <1> QED
    BY <1>1, Inductive, PTL

\* A Close that returns outside every Backup is never undone.
THEOREM CloseIsFinal == Spec => []FinalClose
  <1>1. IInv => FinalClose
    BY DEF IInv, OwnershipInv, FinalInv, FinalClose, Committed, OwnerPCs, AwayPCs,
           HandlesAssumption
  <1> QED
    BY <1>1, Inductive, PTL

-----------------------------------------------------------------------------
(* The embedded client implements EmbeddedService.                         *)

\* The caller whose error an answer carries.
Blamed == [p \in Procs |-> IF answer[p] = "failed" THEN said[p].by ELSE None]

\* A caller that has the handle of the object in hand reaches the service as
\* it is now.
LEMMA CallReachesService ==
  ASSUME IInv, NEW p \in Procs, pc[p] \in InCall
  PROVE  loc[p] = handle /\ Status # "closed" /\ answer[p] = "none"
  <1>1. loc[p] = handle /\ loc[p] \in Handles
    BY DEF IInv, OwnershipInv, TypeOK, InCall, HoldsHandle
  <1> QED
    BY <1>1, HandlesAssumption DEF Status, IInv, MutexInv, InCall

\* A step that neither answers nor moves the handle is not seen.
LEMMA UnseenStep ==
  ASSUME IInv, UNCHANGED answer,
         \A q \in Procs : answer[q] = "failed" => said'[q] = said[q]
  PROVE  Blamed' = Blamed
  BY DEF Blamed

\* Beginning a call is asking the service.
LEMMA CallAsks == ASSUME IInv, NEW p \in Procs, Call(p) PROVE Service!Ask(p)
  <1> USE DEF IInv, TypeOK
  <1>1. /\ answer' = [answer EXCEPT ![p] = "none"]
        /\ said' = [said EXCEPT ![p] = None]
        /\ UNCHANGED <<handle, native>>
    BY DEF Call, Begin, shim
  <1>2. Blamed' = [Blamed EXCEPT ![p] = None]
    BY <1>1 DEF Blamed
  <1> QED
    BY <1>1, <1>2 DEF Service!Ask, Status, Blamed

\* A data call answers at one step, and breaks the service at most once.
LEMMA DataCallImplements ==
  ASSUME IInv, NEW p \in Procs, DataCall(p)
  PROVE  \/ Service!Answer(p) \/ Service!Change
         \/ UNCHANGED <<Status, answer, Blamed>>
  <1> USE DEF IInv, TypeOK
  <1>1. CASE CallRefused(p)
    <2>1. /\ answer[p] = "none"
          /\ answer' = [answer EXCEPT ![p] = IF handle = None THEN "closed" ELSE "rejected"]
          /\ UNCHANGED <<said, handle, native>>
      BY <1>1 DEF CallRefused, Answers, replies, shim, MutexInv
    <2>2. Blamed' = [Blamed EXCEPT ![p] = None] /\ Status' = Status
      BY <2>1 DEF Blamed, Status
    <2>3. CASE handle = None
      BY <2>1, <2>2, <2>3 DEF Service!Answer, Service!Reply, Status, Blamed
    <2>4. CASE handle # None
      BY <2>1, <2>2, <2>4 DEF Service!Answer, Service!Reply, Status, Blamed
    <2> QED
      BY <2>3, <2>4
  <1>2. CASE CallLock(p)
    BY <1>2, UnseenStep DEF CallLock, replies, shim, Status
  <1>3. CASE CallSucceeds(p)
    <2>1. loc[p] = handle /\ Status # "closed" /\ answer[p] = "none"
      BY <1>3, CallReachesService DEF CallSucceeds, InCall
    <2>2. Status = "open"
      BY <1>3, <2>1 DEF CallSucceeds, FrontendLocks, Status
    <2>3. answer' = [answer EXCEPT ![p] = "ok"] /\ UNCHANGED <<said, handle, native>>
      BY <1>3 DEF CallSucceeds, Answers, shim
    <2>4. Blamed' = [Blamed EXCEPT ![p] = None] /\ Status' = Status
      BY <2>3 DEF Blamed, Status
    <2> QED
      BY <2>1, <2>2, <2>3, <2>4 DEF Service!Answer, Service!Reply, Blamed
  <1>4. CASE CallFails(p)
    <2>1. loc[p] = handle /\ Status # "closed"
      BY <1>4, CallReachesService DEF CallFails, InCall
    <2>2. UNCHANGED <<answer, said, handle>> /\ Blamed' = Blamed
      BY <1>4, UnseenStep DEF CallFails, replies
    <2>3. CASE UNCHANGED native
      BY <2>2, <2>3 DEF Status
    <2>4. CASE native' = [native EXCEPT ![loc[p]] = "poisoned"]
      <3>1. Status' = "broken" /\ Status \in {"open", "broken"}
        BY <2>1, <2>2, <2>4 DEF Status
      <3> QED
        BY <2>2, <3>1 DEF Service!Change, Blamed
    <2> QED
      BY <1>4, <2>3, <2>4 DEF CallFails
  <1>5. CASE CallReadsError(p)
    <2>1. Status # "closed" /\ answer[p] = "none"
      BY <1>5, CallReachesService DEF CallReadsError, InCall
    <2>2. slot = Message(p, "call")
      BY <1>5 DEF CallReadsError, SlotInv
    <2>3. /\ answer' = [answer EXCEPT ![p] = "failed"]
          /\ said' = [said EXCEPT ![p] = Message(p, "call")]
          /\ UNCHANGED <<handle, native>>
      BY <1>5, <2>2 DEF CallReadsError, ReadError, Answers
    <2>4. Blamed' = [Blamed EXCEPT ![p] = p] /\ Status' = Status
      BY <2>3 DEF Blamed, Status, Message
    <2> QED
      BY <2>1, <2>3, <2>4 DEF Service!Answer, Service!Reply, Blamed
  <1> QED
    BY <1>1, <1>2, <1>3, <1>4, <1>5 DEF DataCall

\* Close, Backup and reopen change the service between closed and open.
LEMMA LifecycleImplements ==
  ASSUME IInv, NEW p \in Procs, CloseMethod(p) \/ TakeBackup(p) \/ Reopen(p)
  PROVE  Service!Change \/ UNCHANGED <<Status, answer, Blamed>>
  <1> USE DEF IInv, TypeOK
  <1>1. CASE CloseState(p) \/ CloseNothing(p) \/ TakeBackup(p) \/ StartLock(p)
    BY <1>1, UnseenStep DEF CloseState, CloseNothing, TakeBackup, LockBackup, SnapshotInputs,
       PlanBackup, CopyBegin, CopyEnd, Return, StartLock, replies, shim, Status
  <1>2. CASE CloseSwap(p)
    <2>1. UNCHANGED <<answer, said>> /\ Blamed' = Blamed
      BY <1>2, UnseenStep DEF CloseSwap, replies
    <2>2. Status # "closed" /\ Status' = "closed"
      BY <1>2 DEF CloseSwap, Status
    <2> QED
      BY <2>1, <2>2 DEF Service!Change, Blamed
  <1>3. CASE CloseCall(p) \/ StartCall(p) \/ StartReadsError(p) \/ Started(p)
    <2>1. UNCHANGED <<answer, handle>>
      BY <1>3 DEF CloseCall, StartCall, StartReadsError, Started, replies
    <2>2. handle = None
      BY <1>3 DEF CloseCall, StartCall, StartReadsError, Started, OwnershipInv, OwnerPCs, Away,
                  AwayPCs
    <2>3. \A q \in Procs : answer[q] = "failed" => said'[q] = said[q]
      BY <1>3 DEF CloseCall, StartCall, StartReadsError, ReadError, Started, replies, MutexInv
    <2> QED
      BY <2>1, <2>2, <2>3, UnseenStep DEF Status
  <1>4. CASE Store(p)
    <2>1. UNCHANGED <<answer, said>> /\ Blamed' = Blamed
      BY <1>4, UnseenStep DEF Store, replies
    <2>2. handle = None /\ loc[p] \in Handles /\ native[loc[p]] = "running"
      BY <1>4 DEF Store, OwnershipInv, OwnerPCs, HoldsHandle
    <2>3. Status = "closed" /\ Status' = "open"
      BY <1>4, <2>2, HandlesAssumption DEF Store, MoveHandle, shim, Status
    <2> QED
      BY <2>1, <2>3 DEF Service!Change, Blamed
  <1> QED
    BY <1>1, <1>2, <1>3, <1>4 DEF CloseMethod, Reopen

\* The embedded client answers every call at one instant and truthfully: it
\* implements the service its callers are promised.
THEOREM Refinement == Spec => ServiceContract
  <1>1. Init => Service!Init
    BY HandlesAssumption DEF Init, Service!Init, Status
  <1>2. IInv /\ [Next]_vars => [Service!Next]_<<Status, answer, Blamed>>
    <2> SUFFICES ASSUME IInv, [Next]_vars
                 PROVE  Service!Next \/ UNCHANGED <<Status, answer, Blamed>>
      OBVIOUS
    <2>1. ASSUME NEW p \in Procs, Call(p) \/ Step(p)
          PROVE  Service!Next \/ UNCHANGED <<Status, answer, Blamed>>
      BY <2>1, CallAsks, DataCallImplements, LifecycleImplements DEF Step, Service!Next
    <2>2. CASE RuntimeWrites \/ Drop \/ UNCHANGED vars
      BY <2>2, UnseenStep DEF RuntimeWrites, Drop, vars, replies, shim, Status
    <2> QED
      BY <2>1, <2>2 DEF Next, Terminated
  <1>3. IInv /\ [Next]_vars => [Service!Next]_<<Status, answer,
          [p \in Procs |-> IF answer[p] = "failed" THEN said[p].by ELSE None]>>
    BY <1>2 DEF Blamed
  <1> QED
    BY <1>1, <1>3, Inductive, PTL DEF Spec, ServiceContract, Service!Spec
=============================================================================
