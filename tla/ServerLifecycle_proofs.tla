----------------------- MODULE ServerLifecycle_proofs -----------------------
(***************************************************************************)
(* Proofs about ServerLifecycle for any number of callers, handles and     *)
(* configurations.                                                         *)
(***************************************************************************)
EXTENDS ServerLifecycle, TLAPS

USE ProcsAssumption, HandlesAssumption, ConfigsAssumption

\* The object StartServer returns satisfies the invariant.
THEOREM InitIInv == Init => IInv
  <1> SUFFICES ASSUME Init PROVE IInv
    OBVIOUS
  <1> USE DEF Init, Procs, HoldsServer, HoldsEmbedded, Live
  <1>1. TypeOK
    BY DEF TypeOK, NativeStates, Contents, PCs
  <1>2. NoCallOnFreedHandle
    BY DEF NoCallOnFreedHandle
  <1>3. MutexInv
    BY DEF MutexInv, InExclusive, Committed, AwayPCs, ClosePCs
  <1>4. OwnershipInv
    BY DEF OwnershipInv, Away, AwayPCs, OwnerPCs
  <1>5. FinalInv
    BY DEF FinalInv, ClosePCs
  <1> QED
    BY <1>1, <1>2, <1>3, <1>4, <1>5 DEF IInv

\* Calling Close takes no lock and touches no handle.
LEMMA BeginClosePreserves == ASSUME IInv, NEW p \in Procs, Begin(p, "close", "closeState") PROVE IInv'
  <1> USE DEF Begin, Goto, locks, shown, shim, result, IInv, TypeOK, HoldsServer, HoldsEmbedded
  <1>1. TypeOK'
    BY DEF NativeStates, Contents, PCs, Exclusive
  <1>2. NoCallOnFreedHandle'
    BY DEF NoCallOnFreedHandle, MutexInv, OwnershipInv, OwnerPCs, Away, AwayPCs, Live,
       InExclusive, Committed
  <1>3. MutexInv'
    BY DEF MutexInv, InExclusive, Committed, AwayPCs, ClosePCs, Exclusive
  <1>4. OwnershipInv'
    BY DEF NoCallOnFreedHandle, MutexInv, InExclusive, Committed, OwnershipInv, OwnerPCs, Away,
       AwayPCs, ClosePCs, Live
  <1>5. FinalInv'
    BY DEF MutexInv, InExclusive, Committed, AwayPCs, ClosePCs, OwnershipInv, Away, OwnerPCs,
       Exclusive, FinalInv, Procs
  <1> QED
    BY <1>1, <1>2, <1>3, <1>4, <1>5

\* Neither does calling Backup or a maintenance operation.
LEMMA BeginExclPreserves == ASSUME IInv, NEW p \in Procs, NEW o \in Exclusive, Begin(p, o, "waitBackup") PROVE IInv'
  <1> USE DEF Begin, Goto, locks, shown, shim, result, IInv, TypeOK, HoldsServer, HoldsEmbedded
  <1>1. TypeOK'
    BY DEF NativeStates, Contents, PCs, Exclusive
  <1>2. NoCallOnFreedHandle'
    BY DEF NoCallOnFreedHandle, MutexInv, OwnershipInv, OwnerPCs, Away, AwayPCs, Live,
       InExclusive, Committed
  <1>3. MutexInv'
    BY DEF MutexInv, InExclusive, Committed, AwayPCs, ClosePCs, Exclusive
  <1>4. OwnershipInv'
    BY DEF NoCallOnFreedHandle, MutexInv, InExclusive, Committed, OwnershipInv, OwnerPCs, Away,
       AwayPCs, ClosePCs, Live
  <1>5. FinalInv'
    BY DEF MutexInv, InExclusive, Committed, AwayPCs, ClosePCs, OwnershipInv, Away, OwnerPCs,
       Exclusive, FinalInv, Procs
  <1> QED
    BY <1>1, <1>2, <1>3, <1>4, <1>5

\* Stop holds ffiMu from here on, so its handle stays the object's.
LEMMA StopLoadPreserves == ASSUME IInv, NEW p \in Procs, StopLoad(p) PROVE IInv'
  <1> USE DEF StopLoad, StopTakesFfi, Goto, locks, shown, shim, result, IInv, TypeOK,
              HoldsServer, HoldsEmbedded
  <1>1. TypeOK'
    BY DEF NativeStates, Contents, PCs, Exclusive
  <1>2. NoCallOnFreedHandle'
    BY DEF NoCallOnFreedHandle, MutexInv, OwnershipInv, OwnerPCs, Away, AwayPCs, Live,
       InExclusive, Committed
  <1>3. MutexInv'
    BY DEF MutexInv, InExclusive, Committed, AwayPCs, ClosePCs, Exclusive
  <1>4. OwnershipInv'
    BY DEF NoCallOnFreedHandle, MutexInv, InExclusive, Committed, OwnershipInv, OwnerPCs, Away,
       AwayPCs, ClosePCs, Live
  <1>5. FinalInv'
    BY DEF MutexInv, InExclusive, Committed, AwayPCs, ClosePCs, OwnershipInv, Away, OwnerPCs,
       Exclusive, FinalInv, Procs
  <1> QED
    BY <1>1, <1>2, <1>3, <1>4, <1>5

\* The stop call leaves its handle allocated.
LEMMA StopCallPreserves == ASSUME IInv, NEW p \in Procs, StopCall(p) PROVE IInv'
  <1> USE DEF StopCall, ShimStop, Goto, locks, shown, shim, result, IInv, TypeOK, HoldsServer,
              HoldsEmbedded
  <1>1. TypeOK'
    BY DEF NativeStates, Contents, PCs, Exclusive
  <1>2. NoCallOnFreedHandle'
    BY DEF NoCallOnFreedHandle, MutexInv, OwnershipInv, OwnerPCs, Away, AwayPCs, Live,
       InExclusive, Committed
  <1>3. MutexInv'
    BY DEF MutexInv, InExclusive, Committed, AwayPCs, ClosePCs, Exclusive
  <1>4. OwnershipInv'
    BY DEF NoCallOnFreedHandle, MutexInv, InExclusive, Committed, OwnershipInv, OwnerPCs, Away,
       AwayPCs, ClosePCs, Live
  <1>5. FinalInv'
    BY DEF MutexInv, InExclusive, Committed, AwayPCs, ClosePCs, OwnershipInv, Away, OwnerPCs,
       Exclusive, FinalInv, Procs
  <1> QED
    BY <1>1, <1>2, <1>3, <1>4, <1>5

\* Close takes stateMu, which nobody held.
LEMMA CloseStatePreserves == ASSUME IInv, NEW p \in Procs, CloseState(p) PROVE IInv'
  <1> USE DEF CloseState, Goto, locks, shown, shim, result, IInv, TypeOK, HoldsServer,
              HoldsEmbedded
  <1>1. TypeOK'
    BY DEF NativeStates, Contents, PCs, Exclusive
  <1>2. NoCallOnFreedHandle'
    BY DEF NoCallOnFreedHandle, MutexInv, OwnershipInv, OwnerPCs, Away, AwayPCs, Live,
       InExclusive, Committed
  <1>3. MutexInv'
    BY DEF MutexInv, InExclusive, Committed, AwayPCs, ClosePCs, Exclusive
  <1>4. OwnershipInv'
    BY DEF NoCallOnFreedHandle, MutexInv, InExclusive, Committed, OwnershipInv, OwnerPCs, Away,
       AwayPCs, ClosePCs, Live
  <1>5. FinalInv'
    BY DEF MutexInv, InExclusive, Committed, AwayPCs, ClosePCs, OwnershipInv, Away, OwnerPCs,
       Exclusive, FinalInv, Procs
  <1> QED
    BY <1>1, <1>2, <1>3, <1>4, <1>5

\* Close swaps the handle out: it is now the only one to know it.
LEMMA CloseSwapPreserves == ASSUME IInv, NEW p \in Procs, CloseSwap(p) PROVE IInv'
  <1> USE DEF CloseSwap, CloseReturns, CloseNothing, Goto, locks, shown, shim, result, IInv,
              TypeOK, HoldsServer, HoldsEmbedded
  <1>1. TypeOK'
    BY DEF NativeStates, Contents, PCs, Exclusive
  <1>2. NoCallOnFreedHandle'
    BY DEF NoCallOnFreedHandle, MutexInv, OwnershipInv, OwnerPCs, Away, AwayPCs, Live,
       InExclusive, Committed
  <1>3. MutexInv'
    BY DEF MutexInv, InExclusive, Committed, AwayPCs, ClosePCs, Exclusive
  <1>4. OwnershipInv'
    BY DEF NoCallOnFreedHandle, MutexInv, InExclusive, Committed, OwnershipInv, OwnerPCs, Away,
       AwayPCs, ClosePCs, Live
  <1>5. FinalInv'
    BY DEF MutexInv, InExclusive, Committed, AwayPCs, ClosePCs, OwnershipInv, Away, OwnerPCs,
       Exclusive, FinalInv, Procs
  <1> QED
    BY <1>1, <1>2, <1>3, <1>4, <1>5

\* Close frees the handle it swapped out, and no one else uses it.
LEMMA CloseCallPreserves == ASSUME IInv, NEW p \in Procs, CloseCall(p) PROVE IInv'
  <1> USE DEF CloseCall, CloseReturns, StopAndFree, Goto, locks, shown, shim, result, IInv,
              TypeOK, HoldsServer, HoldsEmbedded
  <1>1. TypeOK'
    BY DEF NativeStates, Contents, PCs, Exclusive
  <1>2. NoCallOnFreedHandle'
    BY DEF NoCallOnFreedHandle, MutexInv, OwnershipInv, OwnerPCs, Away, AwayPCs, Live,
       InExclusive, Committed
  <1>3. MutexInv'
    BY DEF MutexInv, InExclusive, Committed, AwayPCs, ClosePCs, Exclusive
  <1>4. OwnershipInv'
    BY DEF NoCallOnFreedHandle, MutexInv, InExclusive, Committed, OwnershipInv, OwnerPCs, Away,
       AwayPCs, ClosePCs, Live
  <1>5. FinalInv'
    BY DEF MutexInv, InExclusive, Committed, AwayPCs, ClosePCs, OwnershipInv, Away, OwnerPCs,
       Exclusive, FinalInv, Procs
  <1> QED
    BY <1>1, <1>2, <1>3, <1>4, <1>5

\* backupMu admits one exclusive operation.
LEMMA LockBackupPreserves == ASSUME IInv, NEW p \in Procs, LockBackup(p) PROVE IInv'
  <1> USE DEF LockBackup, BackupMuFree, Goto, locks, shown, shim, result, IInv, TypeOK,
              HoldsServer, HoldsEmbedded
  <1>1. TypeOK'
    BY DEF NativeStates, Contents, PCs, Exclusive
  <1>2. NoCallOnFreedHandle'
    BY DEF NoCallOnFreedHandle, MutexInv, OwnershipInv, OwnerPCs, Away, AwayPCs, Live,
       InExclusive, Committed
  <1>3. MutexInv'
    BY DEF MutexInv, InExclusive, Committed, AwayPCs, ClosePCs, Exclusive
  <1>4. OwnershipInv'
    BY DEF NoCallOnFreedHandle, MutexInv, InExclusive, Committed, OwnershipInv, OwnerPCs, Away,
       AwayPCs, ClosePCs, Live
  <1>5. FinalInv'
    BY DEF MutexInv, InExclusive, Committed, AwayPCs, ClosePCs, OwnershipInv, Away, OwnerPCs,
       Exclusive, FinalInv, Procs
  <1> QED
    BY <1>1, <1>2, <1>3, <1>4, <1>5

\* An operation that saw a handle is committed; the object was not closed for good.
LEMMA SnapshotInputsPreserves == ASSUME IInv, NEW p \in Procs, SnapshotInputs(p) PROVE IInv'
  <1> USE DEF SnapshotInputs, NotStarted, Goto, locks, shown, shim, result, IInv, TypeOK,
              HoldsServer, HoldsEmbedded
  <1>1. TypeOK'
    BY DEF NativeStates, Contents, PCs, Exclusive
  <1>2. NoCallOnFreedHandle'
    BY DEF NoCallOnFreedHandle, MutexInv, OwnershipInv, OwnerPCs, Away, AwayPCs, Live,
       InExclusive, Committed
  <1>3. MutexInv'
    BY DEF MutexInv, InExclusive, Committed, AwayPCs, ClosePCs, Exclusive
  <1>4. OwnershipInv'
    BY DEF NoCallOnFreedHandle, MutexInv, InExclusive, Committed, OwnershipInv, OwnerPCs, Away,
       AwayPCs, ClosePCs, Live
  <1>5. FinalInv'
    BY DEF MutexInv, InExclusive, Committed, AwayPCs, ClosePCs, OwnershipInv, Away, OwnerPCs,
       Exclusive, FinalInv, Procs
  <1> QED
    BY <1>1, <1>2, <1>3, <1>4, <1>5

\* Planning a backup changes nothing that other callers see.
LEMMA PlanBackupPreserves == ASSUME IInv, NEW p \in Procs, PlanBackup(p) PROVE IInv'
  <1> USE DEF PlanBackup, Goto, locks, shown, shim, result, IInv, TypeOK, HoldsServer,
              HoldsEmbedded
  <1>1. TypeOK'
    <2>1. planned' \in [Procs -> BOOLEAN]
      <3>1. planned \in [Procs -> BOOLEAN] /\ (contents # "absent") \in BOOLEAN
        OBVIOUS
      <3>2. CASE planned' = [planned EXCEPT ![p] = contents # "absent"]
        BY ONLY <3>1, <3>2
      <3> QED
        BY <3>1, <3>2
    <2> QED
      BY <2>1 DEF NativeStates, Contents, PCs, Exclusive
  <1>2. NoCallOnFreedHandle'
    BY DEF NoCallOnFreedHandle, MutexInv, OwnershipInv, OwnerPCs, Away, AwayPCs, Live,
       InExclusive, Committed
  <1>3. MutexInv'
    BY DEF MutexInv, InExclusive, Committed, AwayPCs, ClosePCs, Exclusive
  <1>4. OwnershipInv'
    BY DEF NoCallOnFreedHandle, MutexInv, InExclusive, Committed, OwnershipInv, OwnerPCs, Away,
       AwayPCs, ClosePCs, Live
  <1>5. FinalInv'
    BY DEF MutexInv, InExclusive, Committed, AwayPCs, ClosePCs, OwnershipInv, Away, OwnerPCs,
       Exclusive, FinalInv, Procs
  <1> QED
    BY <1>1, <1>2, <1>3, <1>4, <1>5

\* Nor does starting to copy.
LEMMA CopyBeginPreserves == ASSUME IInv, NEW p \in Procs, CopyBegin(p) PROVE IInv'
  <1> USE DEF CopyBegin, Goto, locks, shown, shim, result, IInv, TypeOK, HoldsServer,
              HoldsEmbedded
  <1>1. TypeOK'
    BY DEF NativeStates, Contents, PCs, Exclusive
  <1>2. NoCallOnFreedHandle'
    BY DEF NoCallOnFreedHandle, MutexInv, OwnershipInv, OwnerPCs, Away, AwayPCs, Live,
       InExclusive, Committed
  <1>3. MutexInv'
    BY DEF MutexInv, InExclusive, Committed, AwayPCs, ClosePCs, Exclusive
  <1>4. OwnershipInv'
    BY DEF NoCallOnFreedHandle, MutexInv, InExclusive, Committed, OwnershipInv, OwnerPCs, Away,
       AwayPCs, ClosePCs, Live
  <1>5. FinalInv'
    BY DEF MutexInv, InExclusive, Committed, AwayPCs, ClosePCs, OwnershipInv, Away, OwnerPCs,
       Exclusive, FinalInv, Procs
  <1> QED
    BY <1>1, <1>2, <1>3, <1>4, <1>5

\* Nor does the end of the copy.
LEMMA CopyEndPreserves == ASSUME IInv, NEW p \in Procs, CopyEnd(p) PROVE IInv'
  <1> USE DEF CopyEnd, Goto, locks, shown, shim, result, IInv, TypeOK, HoldsServer, HoldsEmbedded
  <1>1. TypeOK'
    BY DEF NativeStates, Contents, PCs, Exclusive
  <1>2. NoCallOnFreedHandle'
    BY DEF NoCallOnFreedHandle, MutexInv, OwnershipInv, OwnerPCs, Away, AwayPCs, Live,
       InExclusive, Committed
  <1>3. MutexInv'
    BY DEF MutexInv, InExclusive, Committed, AwayPCs, ClosePCs, Exclusive
  <1>4. OwnershipInv'
    BY DEF NoCallOnFreedHandle, MutexInv, InExclusive, Committed, OwnershipInv, OwnerPCs, Away,
       AwayPCs, ClosePCs, Live
  <1>5. FinalInv'
    BY DEF MutexInv, InExclusive, Committed, AwayPCs, ClosePCs, OwnershipInv, Away, OwnerPCs,
       Exclusive, FinalInv, Procs
  <1> QED
    BY <1>1, <1>2, <1>3, <1>4, <1>5

\* The embedded runtime gets an unused address; the object has no handle.
LEMMA EmbStartPreserves == ASSUME IInv, NEW p \in Procs, EmbStart(p) PROVE IInv'
  <1> USE DEF EmbStart, Allocate, EmbStartFails, Goto, locks, shown, shim, result, IInv, TypeOK,
              HoldsServer, HoldsEmbedded
  <1>1. TypeOK'
    BY DEF NativeStates, Contents, PCs, Exclusive
  <1>2. NoCallOnFreedHandle'
    BY DEF NoCallOnFreedHandle, MutexInv, OwnershipInv, OwnerPCs, Away, AwayPCs, Live,
       InExclusive, Committed
  <1>3. MutexInv'
    BY DEF MutexInv, InExclusive, Committed, AwayPCs, ClosePCs, Exclusive
  <1>4. OwnershipInv'
    BY DEF NoCallOnFreedHandle, MutexInv, InExclusive, Committed, OwnershipInv, OwnerPCs, Away,
       AwayPCs, ClosePCs, Live
  <1>5. FinalInv'
    BY DEF MutexInv, InExclusive, Committed, AwayPCs, ClosePCs, OwnershipInv, Away, OwnerPCs,
       Exclusive, FinalInv, Procs
  <1> QED
    BY <1>1, <1>2, <1>3, <1>4, <1>5

\* The maintenance call holds ffiMu.
LEMMA EmbRunPreserves == ASSUME IInv, NEW p \in Procs, EmbRun(p) PROVE IInv'
  <1> USE DEF EmbRun, Goto, locks, shown, shim, result, IInv, TypeOK, HoldsServer, HoldsEmbedded
  <1>1. TypeOK'
    BY DEF NativeStates, Contents, PCs, Exclusive
  <1>2. NoCallOnFreedHandle'
    BY DEF NoCallOnFreedHandle, MutexInv, OwnershipInv, OwnerPCs, Away, AwayPCs, Live,
       InExclusive, Committed
  <1>3. MutexInv'
    BY DEF MutexInv, InExclusive, Committed, AwayPCs, ClosePCs, Exclusive
  <1>4. OwnershipInv'
    BY DEF NoCallOnFreedHandle, MutexInv, InExclusive, Committed, OwnershipInv, OwnerPCs, Away,
       AwayPCs, ClosePCs, Live
  <1>5. FinalInv'
    BY DEF MutexInv, InExclusive, Committed, AwayPCs, ClosePCs, OwnershipInv, Away, OwnerPCs,
       Exclusive, FinalInv, Procs
  <1> QED
    BY <1>1, <1>2, <1>3, <1>4, <1>5

\* The maintenance call leaves the embedded handle allocated.
LEMMA EmbCallPreserves == ASSUME IInv, NEW p \in Procs, EmbCall(p) PROVE IInv'
  <1> USE DEF EmbCall, Goto, locks, shown, shim, result, IInv, TypeOK, HoldsServer, HoldsEmbedded
  <1>1. TypeOK'
    BY DEF NativeStates, Contents, PCs, Exclusive
  <1>2. NoCallOnFreedHandle'
    BY DEF NoCallOnFreedHandle, MutexInv, OwnershipInv, OwnerPCs, Away, AwayPCs, Live,
       InExclusive, Committed
  <1>3. MutexInv'
    BY DEF MutexInv, InExclusive, Committed, AwayPCs, ClosePCs, Exclusive
  <1>4. OwnershipInv'
    BY DEF NoCallOnFreedHandle, MutexInv, InExclusive, Committed, OwnershipInv, OwnerPCs, Away,
       AwayPCs, ClosePCs, Live
  <1>5. FinalInv'
    BY DEF MutexInv, InExclusive, Committed, AwayPCs, ClosePCs, OwnershipInv, Away, OwnerPCs,
       Exclusive, FinalInv, Procs
  <1> QED
    BY <1>1, <1>2, <1>3, <1>4, <1>5

\* The embedded handle is freed by the operation that owns it.
LEMMA EmbClosePreserves == ASSUME IInv, NEW p \in Procs, EmbClose(p) PROVE IInv'
  <1> USE DEF EmbClose, FreeEmbedded, Goto, locks, shown, shim, result, IInv, TypeOK,
              HoldsServer, HoldsEmbedded
  <1>1. TypeOK'
    BY DEF NativeStates, Contents, PCs, Exclusive
  <1>2. NoCallOnFreedHandle'
    BY DEF NoCallOnFreedHandle, MutexInv, OwnershipInv, OwnerPCs, Away, AwayPCs, Live,
       InExclusive, Committed
  <1>3. MutexInv'
    BY DEF MutexInv, InExclusive, Committed, AwayPCs, ClosePCs, Exclusive
  <1>4. OwnershipInv'
    BY DEF NoCallOnFreedHandle, MutexInv, InExclusive, Committed, OwnershipInv, OwnerPCs, Away,
       AwayPCs, ClosePCs, Live
  <1>5. FinalInv'
    BY DEF MutexInv, InExclusive, Committed, AwayPCs, ClosePCs, OwnershipInv, Away, OwnerPCs,
       Exclusive, FinalInv, Procs
  <1> QED
    BY <1>1, <1>2, <1>3, <1>4, <1>5

\* The restarted server gets an unused address; the object has no handle.
LEMMA StartServerPreserves == ASSUME IInv, NEW p \in Procs, StartServer(p) PROVE IInv'
  <1> USE DEF StartServer, Allocate, RestartFails, Goto, locks, shown, shim, result, IInv,
              TypeOK, HoldsServer, HoldsEmbedded
  <1>1. TypeOK'
    BY DEF NativeStates, Contents, PCs, Exclusive
  <1>2. NoCallOnFreedHandle'
    BY DEF NoCallOnFreedHandle, MutexInv, OwnershipInv, OwnerPCs, Away, AwayPCs, Live,
       InExclusive, Committed
  <1>3. MutexInv'
    BY DEF MutexInv, InExclusive, Committed, AwayPCs, ClosePCs, Exclusive
  <1>4. OwnershipInv'
    BY DEF NoCallOnFreedHandle, MutexInv, InExclusive, Committed, OwnershipInv, OwnerPCs, Away,
       AwayPCs, ClosePCs, Live
  <1>5. FinalInv'
    BY DEF MutexInv, InExclusive, Committed, AwayPCs, ClosePCs, OwnershipInv, Away, OwnerPCs,
       Exclusive, FinalInv, Procs
  <1> QED
    BY <1>1, <1>2, <1>3, <1>4, <1>5

\* The new handle is kept, or freed by the operation that owns it.
LEMMA ReadStartedPreserves == ASSUME IInv, NEW p \in Procs, ReadStarted(p) PROVE IInv'
  <1> USE DEF ReadStarted, DiscardStarted, RestartFails, Goto, locks, shown, shim, result, IInv,
              TypeOK, HoldsServer, HoldsEmbedded
  <1>1. TypeOK'
    BY DEF NativeStates, Contents, PCs, Exclusive
  <1>2. NoCallOnFreedHandle'
    BY DEF NoCallOnFreedHandle, MutexInv, OwnershipInv, OwnerPCs, Away, AwayPCs, Live,
       InExclusive, Committed
  <1>3. MutexInv'
    BY DEF MutexInv, InExclusive, Committed, AwayPCs, ClosePCs, Exclusive
  <1>4. OwnershipInv'
    BY DEF NoCallOnFreedHandle, MutexInv, InExclusive, Committed, OwnershipInv, OwnerPCs, Away,
       AwayPCs, ClosePCs, Live
  <1>5. FinalInv'
    BY DEF MutexInv, InExclusive, Committed, AwayPCs, ClosePCs, OwnershipInv, Away, OwnerPCs,
       Exclusive, FinalInv, Procs
  <1> QED
    BY <1>1, <1>2, <1>3, <1>4, <1>5

\* Storing the new handle passes its ownership to the object.
LEMMA StoreRestartedPreserves == ASSUME IInv, NEW p \in Procs, StoreRestarted(p) PROVE IInv'
  <1> USE DEF StoreRestarted, RefreshShown, Goto, locks, shown, shim, result, IInv, TypeOK,
              HoldsServer, HoldsEmbedded
  <1>1. TypeOK'
    BY DEF NativeStates, Contents, PCs, Exclusive
  <1>2. NoCallOnFreedHandle'
    BY DEF NoCallOnFreedHandle, MutexInv, OwnershipInv, OwnerPCs, Away, AwayPCs, Live,
       InExclusive, Committed
  <1>3. MutexInv'
    BY DEF MutexInv, InExclusive, Committed, AwayPCs, ClosePCs, Exclusive
  <1>4. OwnershipInv'
    BY DEF NoCallOnFreedHandle, MutexInv, InExclusive, Committed, OwnershipInv, OwnerPCs, Away,
       AwayPCs, ClosePCs, Live
  <1>5. FinalInv'
    BY DEF MutexInv, InExclusive, Committed, AwayPCs, ClosePCs, OwnershipInv, Away, OwnerPCs,
       Exclusive, FinalInv, Procs
  <1> QED
    BY <1>1, <1>2, <1>3, <1>4, <1>5

\* The operation releases backupMu and owns no handle.
LEMMA ReturnPreserves == ASSUME IInv, NEW p \in Procs, Return(p) PROVE IInv'
  <1> USE DEF Return, Goto, locks, shown, shim, result, IInv, TypeOK, HoldsServer, HoldsEmbedded
  <1>1. TypeOK'
    BY DEF NativeStates, Contents, PCs, Exclusive
  <1>2. NoCallOnFreedHandle'
    BY DEF NoCallOnFreedHandle, MutexInv, OwnershipInv, OwnerPCs, Away, AwayPCs, Live,
       InExclusive, Committed
  <1>3. MutexInv'
    BY DEF MutexInv, InExclusive, Committed, AwayPCs, ClosePCs, Exclusive
  <1>4. OwnershipInv'
    BY DEF NoCallOnFreedHandle, MutexInv, InExclusive, Committed, OwnershipInv, OwnerPCs, Away,
       AwayPCs, ClosePCs, Live
  <1>5. FinalInv'
    BY DEF MutexInv, InExclusive, Committed, AwayPCs, ClosePCs, OwnershipInv, Away, OwnerPCs,
       Exclusive, FinalInv, Procs
  <1> QED
    BY <1>1, <1>2, <1>3, <1>4, <1>5

\* A server task that ends leaves its handle allocated.
LEMMA ServerExitsPreserves == IInv /\ ServerExits => IInv'
  <1> SUFFICES ASSUME IInv, ServerExits PROVE IInv' OBVIOUS
  <1> USE DEF ServerExits, Goto, locks, shown, shim, result, IInv, TypeOK, HoldsServer,
              HoldsEmbedded
  <1>1. TypeOK'
    BY DEF NativeStates, Contents, PCs, Exclusive
  <1>2. NoCallOnFreedHandle'
    BY DEF NoCallOnFreedHandle, MutexInv, OwnershipInv, OwnerPCs, Away, AwayPCs, Live,
       InExclusive, Committed
  <1>3. MutexInv'
    BY DEF MutexInv, InExclusive, Committed, AwayPCs, ClosePCs, Exclusive
  <1>4. OwnershipInv'
    BY DEF NoCallOnFreedHandle, MutexInv, InExclusive, Committed, OwnershipInv, OwnerPCs, Away,
       AwayPCs, ClosePCs, Live
  <1>5. FinalInv'
    BY DEF MutexInv, InExclusive, Committed, AwayPCs, ClosePCs, OwnershipInv, Away, OwnerPCs,
       Exclusive, FinalInv, Procs
  <1> QED
    BY <1>1, <1>2, <1>3, <1>4, <1>5

\* What a runtime writes does not concern the handles.
LEMMA RuntimeWritesPreserves == IInv /\ RuntimeWrites => IInv'
  <1> SUFFICES ASSUME IInv, RuntimeWrites PROVE IInv' OBVIOUS
  <1> USE DEF RuntimeWrites, Goto, locks, shown, shim, result, IInv, TypeOK, HoldsServer,
              HoldsEmbedded
  <1>1. TypeOK'
    BY DEF NativeStates, Contents, PCs, Exclusive
  <1>2. NoCallOnFreedHandle'
    BY DEF NoCallOnFreedHandle, MutexInv, OwnershipInv, OwnerPCs, Away, AwayPCs, Live,
       InExclusive, Committed
  <1>3. MutexInv'
    BY DEF MutexInv, InExclusive, Committed, AwayPCs, ClosePCs, Exclusive
  <1>4. OwnershipInv'
    BY DEF NoCallOnFreedHandle, MutexInv, InExclusive, Committed, OwnershipInv, OwnerPCs, Away,
       AwayPCs, ClosePCs, Live
  <1>5. FinalInv'
    BY DEF MutexInv, InExclusive, Committed, AwayPCs, ClosePCs, OwnershipInv, Away, OwnerPCs,
       Exclusive, FinalInv, Procs
  <1> QED
    BY <1>1, <1>2, <1>3, <1>4, <1>5

\* Neither does an edit of the configuration file.
LEMMA EditConfigFilePreserves == IInv /\ EditConfigFile => IInv'
  <1> SUFFICES ASSUME IInv, EditConfigFile PROVE IInv' OBVIOUS
  <1> USE DEF EditConfigFile, Goto, locks, shown, shim, result, IInv, TypeOK, HoldsServer,
              HoldsEmbedded
  <1>1. TypeOK'
    BY DEF NativeStates, Contents, PCs, Exclusive
  <1>2. NoCallOnFreedHandle'
    BY DEF NoCallOnFreedHandle, MutexInv, OwnershipInv, OwnerPCs, Away, AwayPCs, Live,
       InExclusive, Committed
  <1>3. MutexInv'
    BY DEF MutexInv, InExclusive, Committed, AwayPCs, ClosePCs, Exclusive
  <1>4. OwnershipInv'
    BY DEF NoCallOnFreedHandle, MutexInv, InExclusive, Committed, OwnershipInv, OwnerPCs, Away,
       AwayPCs, ClosePCs, Live
  <1>5. FinalInv'
    BY DEF MutexInv, InExclusive, Committed, AwayPCs, ClosePCs, OwnershipInv, Away, OwnerPCs,
       Exclusive, FinalInv, Procs
  <1> QED
    BY <1>1, <1>2, <1>3, <1>4, <1>5

\* The finalizer starts when no method is running.
LEMMA DropPreserves == IInv /\ Drop => IInv'
  <1> SUFFICES ASSUME IInv, Drop PROVE IInv' OBVIOUS
  <1> USE DEF Drop, Goto, locks, shown, shim, result, IInv, TypeOK, HoldsServer, HoldsEmbedded
  <1>1. TypeOK'
    BY DEF NativeStates, Contents, PCs, Exclusive
  <1>2. NoCallOnFreedHandle'
    BY DEF NoCallOnFreedHandle, MutexInv, OwnershipInv, OwnerPCs, Away, AwayPCs, Live,
       InExclusive, Committed
  <1>3. MutexInv'
    BY DEF MutexInv, InExclusive, Committed, AwayPCs, ClosePCs, Exclusive
  <1>4. OwnershipInv'
    BY DEF NoCallOnFreedHandle, MutexInv, InExclusive, Committed, OwnershipInv, OwnerPCs, Away,
       AwayPCs, ClosePCs, Live
  <1>5. FinalInv'
    BY DEF MutexInv, InExclusive, Committed, AwayPCs, ClosePCs, OwnershipInv, Away, OwnerPCs,
       Exclusive, FinalInv, Procs
  <1> QED
    BY <1>1, <1>2, <1>3, <1>4, <1>5

-----------------------------------------------------------------------------

\* Every step of a caller or of the finalizer preserves the invariant.
LEMMA StepPreserves == ASSUME IInv, NEW p \in Procs, Call(p) \/ Step(p) PROVE IInv'
  <1>1. CASE Call(p)
    BY <1>1, BeginClosePreserves, BeginExclPreserves, StopLoadPreserves DEF Call
  <1>2. CASE StopCall(p) \/ CloseMethod(p)
    BY <1>2, StopCallPreserves, CloseStatePreserves, CloseSwapPreserves,
       CloseCallPreserves DEF CloseMethod
  <1>3. CASE BackupSteps(p)
    BY <1>3, LockBackupPreserves, SnapshotInputsPreserves, PlanBackupPreserves,
       CopyBeginPreserves, CopyEndPreserves DEF BackupSteps
  <1>4. CASE RunMaintenance(p)
    BY <1>4, EmbStartPreserves, EmbRunPreserves, EmbCallPreserves,
       EmbClosePreserves DEF RunMaintenance
  <1>5. CASE RestartFromConfig(p) \/ Return(p)
    BY <1>5, StartServerPreserves, ReadStartedPreserves, StoreRestartedPreserves,
       ReturnPreserves DEF RestartFromConfig
  <1> QED
    BY <1>1, <1>2, <1>3, <1>4, <1>5 DEF Step

\* So does a stuttering step.
LEMMA StutterPreserves == IInv /\ UNCHANGED vars => IInv'
  BY DEF vars, locks, shown, shim, result, IInv, TypeOK, NoCallOnFreedHandle, MutexInv,
         InExclusive, Committed, OwnershipInv, Away, Live, FinalInv

\* The invariant is inductive.
LEMMA NextPreserves == IInv /\ [Next]_vars => IInv'
  <1> SUFFICES ASSUME IInv, [Next]_vars PROVE IInv'
    OBVIOUS
  <1>1. CASE \E p \in Procs : Call(p) \/ Step(p)
    BY <1>1, StepPreserves
  <1>2. CASE ServerExits \/ RuntimeWrites \/ EditConfigFile \/ Drop
    BY <1>2, ServerExitsPreserves, RuntimeWritesPreserves,
       EditConfigFilePreserves, DropPreserves
  <1>3. CASE UNCHANGED vars
    BY <1>3, StutterPreserves
  <1> QED
    BY <1>1, <1>2, <1>3 DEF Next, Environment, Terminated

\* The inductive invariant holds for every number of callers and handles.
THEOREM Inductive == Spec => []IInv
  BY InitIInv, NextPreserves, PTL DEF Spec

\* Every variable keeps its type, and no call is made on a null handle.
THEOREM TypeCorrect == Spec => []TypeOK
  <1>1. IInv => TypeOK
    BY DEF IInv
  <1> QED
    BY <1>1, Inductive, PTL

\* No method of a Server, in any interleaving with the others, calls the shim
\* on a handle that Close has freed.
THEOREM NeverCallsFreedHandle == Spec => []NoCallOnFreedHandle
  <1>1. IInv => NoCallOnFreedHandle
    BY DEF IInv
  <1> QED
    BY <1>1, Inductive, PTL

\* At most one process owns a handle in a local variable, and none does while
\* the object has one.
LEMMA OwnersExclude ==
  ASSUME IInv, NEW p \in Procs, pc[p] \in OwnerPCs
  PROVE  handle = None /\ \A q \in Procs : pc[q] \in OwnerPCs => q = p
  BY DEF IInv, MutexInv, OwnershipInv, OwnerPCs, Away, AwayPCs, InExclusive, Committed,
         HoldsEmbedded

\* At most one native runtime has the persistence directory open.
THEOREM OneRuntimeOnly == Spec => []OneRuntime
  <1>1. IInv => OneRuntime
    BY OwnersExclude DEF IInv, OwnershipInv, OneRuntime
  <1> QED
    BY <1>1, Inductive, PTL

\* Every live native runtime is still reachable, so it can be freed.
THEOREM NoOrphans == Spec => []NoOrphanRuntime
  <1>1. IInv => NoOrphanRuntime
    BY DEF IInv, OwnershipInv, NoOrphanRuntime
  <1> QED
    BY <1>1, Inductive, PTL

\* During a copy the object has no handle, and no one owns one.
LEMMA CopyAlone == IInv => SnapshotQuiescent
  <1> SUFFICES ASSUME IInv, NEW p \in Procs, pc[p] \in {"copy", "copying"},
                      NEW h \in Handles, Live(h)
               PROVE  FALSE
    BY DEF SnapshotQuiescent
  <1>1. Away(p)
    BY DEF Away, AwayPCs
  <1>2. handle = None
    BY <1>1 DEF IInv, OwnershipInv
  <1>3. PICK q \in Procs : pc[q] \in OwnerPCs /\ loc[q] = h
    BY <1>2 DEF IInv, OwnershipInv, HandlesAssumption
  <1>4. pc[q] # "closeCall"
    BY <1>1 DEF IInv, OwnershipInv
  <1>5. backupMu = p /\ backupMu = q
    BY <1>1, <1>3, <1>4 DEF IInv, MutexInv, InExclusive, Committed, Away, OwnerPCs, AwayPCs
  <1> QED
    BY <1>3, <1>5 DEF OwnerPCs, HoldsEmbedded

\* Backup copies the directory only while no native runtime is alive.
THEOREM SnapshotsAreQuiescent == Spec => []SnapshotQuiescent
  BY CopyAlone, Inductive, PTL

\* A Close that returns outside every exclusive operation is never undone.
THEOREM CloseIsFinal == Spec => []FinalClose
  <1>1. IInv => FinalClose
    BY DEF IInv, OwnershipInv, FinalInv, FinalClose, Committed, OwnerPCs, AwayPCs,
           HandlesAssumption
  <1> QED
    BY <1>1, Inductive, PTL

\* The finalizer leaves no native runtime behind.
THEOREM FinalizerFreesAll == Spec => []CollectedFreesAll
  <1>1. IInv => CollectedFreesAll
    BY DEF IInv, OwnershipInv, FinalInv, CollectedFreesAll, Committed, OwnerPCs, AwayPCs,
           HandlesAssumption
  <1> QED
    BY <1>1, Inductive, PTL

-----------------------------------------------------------------------------
(* What operations report, and what the object shows.                      *)
\* The outcome of a restart is noted at the way to the return, and the stages of a
\* backup are reached by a backup only.
LEMMA OutcomesAreKept ==
  ASSUME IInv, ReportInv, NEW p \in Procs, Call(p) \/ Step(p)
  PROVE  StageInv'
  <1> USE DEF Goto, IInv, TypeOK, ReportInv, StageInv
  <1>1. CASE Call(p)
    BY <1>1 DEF Call, Begin, StopLoad, StopTakesFfi, shim, result, locks, MutexInv, ClosePCs,
       Exclusive
  <1>2. CASE StopCall(p)
    BY <1>2 DEF StopCall, result, MutexInv, ClosePCs, Exclusive
  <1>3. CASE CloseMethod(p)
    BY <1>3 DEF CloseMethod, CloseState, CloseSwap, CloseCall, CloseReturns, CloseNothing, shim,
       result, locks, MutexInv, ClosePCs, Exclusive
  <1>4. CASE LockBackup(p)
    BY <1>4 DEF LockBackup, shim, result, MutexInv, ClosePCs, Exclusive
  <1>5. CASE SnapshotInputs(p)
    BY <1>5 DEF SnapshotInputs, NotStarted, shim, locks, MutexInv, ClosePCs, Exclusive
  <1>6. CASE PlanBackup(p)
    BY <1>6 DEF PlanBackup, shim, locks, MutexInv, ClosePCs, Exclusive
  <1>7. CASE CopyBegin(p) \/ CopyEnd(p)
    BY <1>7 DEF CopyBegin, CopyEnd, shim, locks, MutexInv, ClosePCs, Exclusive
  <1>8. CASE EmbStart(p)
    BY <1>8 DEF EmbStart, Allocate, EmbStartFails, locks, MutexInv, ClosePCs, Exclusive
  <1>9. CASE EmbRun(p) \/ EmbCall(p) \/ EmbClose(p)
    BY <1>9 DEF EmbRun, EmbCall, EmbClose, shim, result, locks, MutexInv, ClosePCs, Exclusive
  <1>10. CASE StartServer(p)
    BY <1>10 DEF StartServer, Allocate, RestartFails, locks, MutexInv, ClosePCs, Exclusive
  <1>11. CASE ReadStarted(p)
    BY <1>11 DEF ReadStarted, RestartFails, locks, MutexInv, ClosePCs, Exclusive
  <1>12. CASE StoreRestarted(p)
    BY <1>12 DEF StoreRestarted, RefreshShown, shim, locks, MutexInv, ClosePCs, Exclusive
  <1>13. CASE Return(p)
    BY <1>13 DEF Return, shim, MutexInv, ClosePCs, Exclusive
  <1> QED
    BY <1>1, <1>2, <1>3, <1>4, <1>5, <1>6, <1>7, <1>8, <1>9, <1>10, <1>11, <1>12, <1>13
    DEF Step, BackupSteps, RunMaintenance, RestartFromConfig

\* No runtime is alive that could change the directory before the copy ends.
LEMMA CopiesStayEqual ==
  ASSUME IInv, ReportInv, NEW p \in Procs, Call(p) \/ Step(p)
  PROVE  SnapshotMatches'
  <1> USE DEF Goto, IInv, TypeOK, ReportInv, StageInv, SnapshotMatches
  <1>1. CASE Call(p)
    BY <1>1 DEF Call, Begin, StopLoad, StopTakesFfi, shim, result, locks
  <1>2. CASE StopCall(p)
    BY <1>2 DEF StopCall, result
  <1>3. CASE CloseMethod(p)
    BY <1>3 DEF CloseMethod, CloseState, CloseSwap, CloseCall, CloseReturns, CloseNothing, shim,
       result, locks
  <1>4. CASE LockBackup(p)
    BY <1>4 DEF LockBackup, shim, result
  <1>5. CASE SnapshotInputs(p)
    BY <1>5 DEF SnapshotInputs, NotStarted, shim, locks
  <1>6. CASE PlanBackup(p)
    BY <1>6 DEF PlanBackup, shim, locks
  <1>7. CASE CopyBegin(p) \/ CopyEnd(p)
    BY <1>7 DEF CopyBegin, CopyEnd, shim, locks
  <1>8. CASE EmbStart(p)
    BY <1>8 DEF EmbStart, Allocate, EmbStartFails, locks
  <1>9. CASE EmbRun(p) \/ EmbCall(p) \/ EmbClose(p)
    BY <1>9 DEF EmbRun, EmbCall, EmbClose, shim, result, locks
  <1>10. CASE StartServer(p)
    BY <1>10 DEF StartServer, Allocate, RestartFails, locks
  <1>11. CASE ReadStarted(p)
    BY <1>11 DEF ReadStarted, RestartFails, locks
  <1>12. CASE StoreRestarted(p)
    BY <1>12 DEF StoreRestarted, RefreshShown, shim, locks
  <1>13. CASE Return(p)
    BY <1>13 DEF Return, shim
  <1> QED
    BY <1>1, <1>2, <1>3, <1>4, <1>5, <1>6, <1>7, <1>8, <1>9, <1>10, <1>11, <1>12, <1>13
    DEF Step, BackupSteps, RunMaintenance, RestartFromConfig

\* Only the operation that holds backupMu brings a handle back.
LEMMA FailuresStayStopped ==
  ASSUME IInv, ReportInv, NEW p \in Procs, Call(p) \/ Step(p)
  PROVE  FailedRestartLeavesStopped'
  <1> USE DEF Goto, IInv, TypeOK, ReportInv, StageInv, FailedRestartLeavesStopped
  <1>1. CASE Call(p)
    BY <1>1 DEF Call, Begin, StopLoad, StopTakesFfi, shim, result, locks, MutexInv, InExclusive,
       Committed, OwnershipInv, Away, AwayPCs, HoldsEmbedded, HoldsServer, OwnerPCs
  <1>2. CASE StopCall(p)
    BY <1>2 DEF StopCall, result, MutexInv, InExclusive, Committed, OwnershipInv, Away, AwayPCs,
       HoldsEmbedded, HoldsServer, OwnerPCs
  <1>3. CASE CloseMethod(p)
    BY <1>3 DEF CloseMethod, CloseState, CloseSwap, CloseCall, CloseReturns, CloseNothing, shim,
       result, locks, MutexInv, InExclusive, Committed, OwnershipInv, Away, AwayPCs,
       HoldsEmbedded, HoldsServer, OwnerPCs
  <1>4. CASE LockBackup(p)
    BY <1>4 DEF LockBackup, shim, result, MutexInv, InExclusive, Committed, OwnershipInv, Away,
       AwayPCs, HoldsEmbedded, HoldsServer, OwnerPCs
  <1>5. CASE SnapshotInputs(p)
    BY <1>5 DEF SnapshotInputs, NotStarted, shim, locks, MutexInv, InExclusive, Committed,
       OwnershipInv, Away, AwayPCs, HoldsEmbedded, HoldsServer, OwnerPCs
  <1>6. CASE PlanBackup(p)
    BY <1>6 DEF PlanBackup, shim, locks, MutexInv, InExclusive, Committed, OwnershipInv, Away,
       AwayPCs, HoldsEmbedded, HoldsServer, OwnerPCs
  <1>7. CASE CopyBegin(p) \/ CopyEnd(p)
    BY <1>7 DEF CopyBegin, CopyEnd, shim, locks, MutexInv, InExclusive, Committed, OwnershipInv,
       Away, AwayPCs, HoldsEmbedded, HoldsServer, OwnerPCs
  <1>8. CASE EmbStart(p)
    BY <1>8 DEF EmbStart, Allocate, EmbStartFails, locks, MutexInv, InExclusive, Committed,
       OwnershipInv, Away, AwayPCs, HoldsEmbedded, HoldsServer, OwnerPCs
  <1>9. CASE EmbRun(p) \/ EmbCall(p) \/ EmbClose(p)
    BY <1>9 DEF EmbRun, EmbCall, EmbClose, shim, result, locks, MutexInv, InExclusive,
       Committed, OwnershipInv, Away, AwayPCs, HoldsEmbedded, HoldsServer, OwnerPCs
  <1>10. CASE StartServer(p)
    BY <1>10 DEF StartServer, Allocate, RestartFails, locks, MutexInv, InExclusive, Committed,
       OwnershipInv, Away, AwayPCs, HoldsEmbedded, HoldsServer, OwnerPCs
  <1>11. CASE ReadStarted(p)
    BY <1>11 DEF ReadStarted, RestartFails, locks, MutexInv, InExclusive, Committed,
       OwnershipInv, Away, AwayPCs, HoldsEmbedded, HoldsServer, OwnerPCs
  <1>12. CASE StoreRestarted(p)
    BY <1>12 DEF StoreRestarted, RefreshShown, shim, locks, MutexInv, InExclusive, Committed,
       OwnershipInv, Away, AwayPCs, HoldsEmbedded, HoldsServer, OwnerPCs
  <1>13. CASE Return(p)
    BY <1>13 DEF Return, shim, MutexInv, InExclusive, Committed, OwnershipInv, Away, AwayPCs,
       HoldsEmbedded, HoldsServer, OwnerPCs
  <1> QED
    BY <1>1, <1>2, <1>3, <1>4, <1>5, <1>6, <1>7, <1>8, <1>9, <1>10, <1>11, <1>12, <1>13
    DEF Step, BackupSteps, RunMaintenance, RestartFromConfig

\* Past its Close an operation reaches the return through a restart only.
LEMMA RestartsAreAttempted ==
  ASSUME IInv, ReportInv, NEW p \in Procs, Call(p) \/ Step(p)
  PROVE  RestartAttempted'
  <1> USE DEF Goto, IInv, TypeOK, ReportInv, StageInv, RestartAttempted
  <1>1. CASE Call(p)
    BY <1>1 DEF Call, Begin, StopLoad, StopTakesFfi, shim, result, locks, Exclusive, MutexInv,
       InExclusive, Committed, AwayPCs
  <1>2. CASE StopCall(p)
    BY <1>2 DEF StopCall, result, Exclusive, MutexInv, InExclusive, Committed, AwayPCs
  <1>3. CASE CloseMethod(p)
    BY <1>3 DEF CloseMethod, CloseState, CloseSwap, CloseCall, CloseReturns, CloseNothing, shim,
       result, locks, Exclusive, MutexInv, InExclusive, Committed, AwayPCs
  <1>4. CASE LockBackup(p)
    BY <1>4 DEF LockBackup, shim, result, Exclusive, MutexInv, InExclusive, Committed, AwayPCs
  <1>5. CASE SnapshotInputs(p)
    BY <1>5 DEF SnapshotInputs, NotStarted, shim, locks, Exclusive, MutexInv, InExclusive,
       Committed, AwayPCs
  <1>6. CASE PlanBackup(p)
    BY <1>6 DEF PlanBackup, shim, locks, Exclusive, MutexInv, InExclusive, Committed, AwayPCs
  <1>7. CASE CopyBegin(p) \/ CopyEnd(p)
    BY <1>7 DEF CopyBegin, CopyEnd, shim, locks, Exclusive, MutexInv, InExclusive, Committed,
       AwayPCs
  <1>8. CASE EmbStart(p)
    BY <1>8 DEF EmbStart, Allocate, EmbStartFails, locks, Exclusive, MutexInv, InExclusive,
       Committed, AwayPCs
  <1>9. CASE EmbRun(p) \/ EmbCall(p) \/ EmbClose(p)
    BY <1>9 DEF EmbRun, EmbCall, EmbClose, shim, result, locks, Exclusive, MutexInv,
       InExclusive, Committed, AwayPCs
  <1>10. CASE StartServer(p)
    BY <1>10 DEF StartServer, Allocate, RestartFails, locks, Exclusive, MutexInv, InExclusive,
       Committed, AwayPCs
  <1>11. CASE ReadStarted(p)
    BY <1>11 DEF ReadStarted, RestartFails, locks, Exclusive, MutexInv, InExclusive, Committed,
       AwayPCs
  <1>12. CASE StoreRestarted(p)
    BY <1>12 DEF StoreRestarted, RefreshShown, shim, locks, Exclusive, MutexInv, InExclusive,
       Committed, AwayPCs
  <1>13. CASE Return(p)
    BY <1>13 DEF Return, shim, Exclusive, MutexInv, InExclusive, Committed, AwayPCs
  <1> QED
    BY <1>1, <1>2, <1>3, <1>4, <1>5, <1>6, <1>7, <1>8, <1>9, <1>10, <1>11, <1>12, <1>13
    DEF Step, BackupSteps, RunMaintenance, RestartFromConfig

\* A handle that the object has is live, so no start writes over its configuration.
LEMMA AddressStaysCurrent ==
  ASSUME IInv, ReportInv, NEW p \in Procs, Call(p) \/ Step(p)
  PROVE  AddressIsCurrent'
  <1> USE DEF Goto, IInv, TypeOK, ReportInv, StageInv, AddressIsCurrent, shown
  <1>1. CASE Call(p)
    BY <1>1 DEF Call, Begin, StopLoad, StopTakesFfi, shim, result, locks, OwnershipInv, Live
  <1>2. CASE StopCall(p)
    BY <1>2 DEF StopCall, result, OwnershipInv, Live
  <1>3. CASE CloseMethod(p)
    BY <1>3 DEF CloseMethod, CloseState, CloseSwap, CloseCall, CloseReturns, CloseNothing, shim,
       result, locks, OwnershipInv, Live
  <1>4. CASE LockBackup(p)
    BY <1>4 DEF LockBackup, shim, result, OwnershipInv, Live
  <1>5. CASE SnapshotInputs(p)
    BY <1>5 DEF SnapshotInputs, NotStarted, shim, locks, OwnershipInv, Live
  <1>6. CASE PlanBackup(p)
    BY <1>6 DEF PlanBackup, shim, locks, OwnershipInv, Live
  <1>7. CASE CopyBegin(p) \/ CopyEnd(p)
    BY <1>7 DEF CopyBegin, CopyEnd, shim, locks, OwnershipInv, Live
  <1>8. CASE EmbStart(p)
    BY <1>8 DEF EmbStart, Allocate, EmbStartFails, locks, OwnershipInv, Live
  <1>9. CASE EmbRun(p) \/ EmbCall(p) \/ EmbClose(p)
    BY <1>9 DEF EmbRun, EmbCall, EmbClose, shim, result, locks, OwnershipInv, Live
  <1>10. CASE StartServer(p)
    BY <1>10 DEF StartServer, Allocate, RestartFails, locks, OwnershipInv, Live
  <1>11. CASE ReadStarted(p)
    BY <1>11 DEF ReadStarted, RestartFails, locks, OwnershipInv, Live
  <1>12. CASE StoreRestarted(p)
    BY <1>12 DEF StoreRestarted, RefreshShown, shim, locks, OwnershipInv, Live
  <1>13. CASE Return(p)
    BY <1>13 DEF Return, shim, OwnershipInv, Live
  <1> QED
    BY <1>1, <1>2, <1>3, <1>4, <1>5, <1>6, <1>7, <1>8, <1>9, <1>10, <1>11, <1>12, <1>13
    DEF Step, BackupSteps, RunMaintenance, RestartFromConfig

\* Nothing the environment does disturbs a copy or a report: a runtime that
\* writes is alive, and none is during a copy.
LEMMA EnvironmentKeepsReports ==
  ASSUME IInv, ReportInv, Environment \/ UNCHANGED vars
  PROVE  ReportInv'
  <1> USE DEF ReportInv, StageInv, SnapshotMatches, FailedRestartLeavesStopped, RestartAttempted,
              AddressIsCurrent
  <1>1. CASE ServerExits
    BY <1>1 DEF ServerExits, shown, locks, result
  <1>2. CASE RuntimeWrites
    <2>1. \A p \in Procs : pc[p] # "copying"
      BY <1>2, CopyAlone DEF RuntimeWrites, SnapshotQuiescent
    <2> QED
      BY <1>2, <2>1 DEF RuntimeWrites, shim, shown, locks, result
  <1>3. CASE EditConfigFile
    BY <1>3 DEF EditConfigFile, shim, shown, locks, result
  <1>4. CASE Drop
    BY <1>4 DEF Drop, Goto, shim, shown, locks, result, IInv, TypeOK, Procs, Exclusive
  <1>5. CASE UNCHANGED vars
    BY <1>5 DEF vars, shim, shown, locks, result
  <1> QED
    BY <1>1, <1>2, <1>3, <1>4, <1>5 DEF Environment, Terminated

\* Reports and accessors are true on every path of every operation.
THEOREM ReportsAreTrue == Spec => []ReportInv
  <1>1. Init => ReportInv
    BY DEF Init, ReportInv, StageInv, SnapshotMatches, FailedRestartLeavesStopped,
       RestartAttempted,
           AddressIsCurrent
  <1>2. IInv /\ ReportInv /\ [Next]_vars => ReportInv'
    <2> SUFFICES ASSUME IInv, ReportInv, [Next]_vars PROVE ReportInv'
      OBVIOUS
    <2>1. CASE \E p \in Procs : Call(p) \/ Step(p)
      BY <2>1, OutcomesAreKept, CopiesStayEqual, FailuresStayStopped, RestartsAreAttempted,
         AddressStaysCurrent DEF ReportInv
    <2>2. CASE Environment \/ UNCHANGED vars
      BY <2>2, EnvironmentKeepsReports
    <2> QED
      BY <2>1, <2>2 DEF Next
  <1> QED
    BY <1>1, <1>2, Inductive, PTL DEF Spec

\* What a backup has copied is what the directory still holds when it ends.
THEOREM SnapshotsMatch == Spec => []SnapshotMatches
  <1>1. ReportInv => SnapshotMatches
    BY DEF ReportInv
  <1> QED
    BY <1>1, ReportsAreTrue, PTL

\* An operation that reports a failed restart leaves the object without a handle.
THEOREM FailedRestartsStop == Spec => []FailedRestartLeavesStopped
  <1>1. ReportInv => FailedRestartLeavesStopped
    BY DEF ReportInv
  <1> QED
    BY <1>1, ReportsAreTrue, PTL

\* Whatever fails after the Close of an operation, it tries to restart.
THEOREM RestartsFollow == Spec => []RestartAttempted
  <1>1. ReportInv => RestartAttempted
    BY DEF ReportInv
  <1> QED
    BY <1>1, ReportsAreTrue, PTL

\* The address the object shows is that of the runtime it has.
THEOREM AddressesAreCurrent == Spec => []AddressIsCurrent
  <1>1. ReportInv => AddressIsCurrent
    BY DEF ReportInv
  <1> QED
    BY <1>1, ReportsAreTrue, PTL

-----------------------------------------------------------------------------
(* The lifecycle implements DirectoryAccess.                               *)

\* The users of the directory depend on native and pc only.
LEMMA SameAccessors ==
  ASSUME ServiceUp' <=> ServiceUp, \A p \in Procs : InSession(p)' <=> InSession(p)
  PROVE  Accessors' = Accessors
  BY DEF Accessors

\* A session excludes the service and every other session.
LEMMA SessionExcludes ==
  ASSUME IInv, NEW p \in Procs, InSession(p)
  PROVE  ~ServiceUp /\ \A q \in Procs : InSession(q) => q = p
  <1>1. Away(p)
    BY DEF InSession, Away, AwayPCs
  <1>2. ASSUME NEW q \in Procs, Away(q) PROVE q = p
    BY <1>1, <1>2 DEF IInv, MutexInv, InExclusive, Committed, Away
  <1>3. ASSUME NEW h \in Handles, native[h] \notin {"free", "embedded"} PROVE FALSE
    <2>1. PICK q \in Procs : pc[q] \in OwnerPCs /\ loc[q] = h
      BY <1>1, <1>3 DEF IInv, OwnershipInv, Live
    <2>2. pc[q] \in {"restartRead", "restartStore"}
      BY <1>1, <1>3, <2>1 DEF IInv, OwnershipInv, NoCallOnFreedHandle, OwnerPCs
    <2>3. q = p
      BY <1>2, <2>2 DEF Away, AwayPCs
    <2> QED
      BY <2>2, <2>3 DEF InSession, HoldsEmbedded
  <1> QED
    BY <1>2, <1>3 DEF ServiceUp, InSession, Away, AwayPCs

\* Some process has closed the server and not opened its session, or closed
\* its session and not restarted the server.
Between == \E p \in Procs : pc[p] \in {"copy", "embStart", "restart"}

\* Between two users the directory belongs to nobody.
LEMMA NobodyWhileBetween == IInv /\ Between => Accessors = {}
  <1> SUFFICES ASSUME IInv, NEW p \in Procs, pc[p] \in {"copy", "embStart", "restart"}
               PROVE  Accessors = {}
    BY DEF Between
  <1>1. Away(p)
    BY DEF Away, AwayPCs
  <1>2. ASSUME NEW q \in Procs, Away(q) PROVE q = p
    BY <1>1, <1>2 DEF IInv, MutexInv, InExclusive, Committed, Away
  <1>3. ASSUME NEW q \in Procs, pc[q] \in OwnerPCs PROVE FALSE
    BY <1>1, <1>2, <1>3 DEF IInv, OwnershipInv, OwnerPCs, Away, AwayPCs, HoldsEmbedded
  <1>4. \A h \in Handles : ~Live(h)
    BY <1>1, <1>3 DEF IInv, OwnershipInv
  <1> QED
    BY <1>2, <1>4 DEF Accessors, ServiceUp, InSession, Live, Away, AwayPCs, HoldsEmbedded

\* The directory never has two users.
LEMMA AtMostOneAccessor ==
  IInv => Accessors = {} \/ \E a \in Procs \cup {"service"} : Accessors = {a}
  <1> SUFFICES ASSUME IInv
               PROVE  Accessors = {} \/ \E a \in Procs \cup {"service"} : Accessors = {a}
    OBVIOUS
  <1>1. CASE \E p \in Procs : InSession(p)
    BY <1>1, SessionExcludes DEF Accessors
  <1>2. CASE \A p \in Procs : ~InSession(p)
    BY <1>2 DEF Accessors
  <1> QED
    BY <1>1, <1>2

\* A step that frees the only live handle outside a session leaves nobody.
LEMMA FreeLeavesNobody ==
  ASSUME IInv, NEW p \in Procs, pc[p] \in {"closeCall", "restartRead"},
         native' = [native EXCEPT ![loc[p]] = "free"],
         pc' \in [Procs -> PCs], \A q \in Procs \ {p} : pc'[q] = pc[q],
         pc'[p] \notin HoldsEmbedded \cup {"copying"}
  PROVE  Accessors' = {}
  <1>1. ServiceUp
    BY DEF ServiceUp, IInv, NoCallOnFreedHandle, TypeOK, HoldsServer
  <1>2. \A q \in Procs : ~InSession(q)
    BY <1>1, SessionExcludes
  <1>3. \A h \in Handles : Live(h) => h = loc[p]
    BY OwnersExclude DEF IInv, OwnershipInv, OwnerPCs
  <1> QED
    BY <1>2, <1>3 DEF Accessors, ServiceUp, InSession, Live, IInv, TypeOK

\* Every step keeps the users, or starts from nobody, or ends with nobody.
LEMMA HandoverStep ==
  ASSUME IInv, IInv', NEW p \in Procs, Call(p) \/ Step(p)
  PROVE  Accessors' = Accessors \/ Accessors = {} \/ Accessors' = {}
  <1> USE DEF Goto, HoldsServer, HoldsEmbedded
  <1>0. TypeOK
    BY DEF IInv
  <1>1. CASE Call(p)
    <2>1. UNCHANGED native /\ pc'[p] \in {"closeState", "waitBackup", "stopCall"} /\ pc[p] = "idle"
          /\ \A q \in Procs \ {p} : pc'[q] = pc[q]
      BY <1>0, <1>1 DEF Call, StopLoad, Begin, shim, TypeOK
    <2> QED
      BY <2>1, SameAccessors DEF ServiceUp, InSession
  <1>2. CASE StopCall(p)
    <2>1. ServiceUp' <=> ServiceUp
      BY <1>0, <1>2 DEF StopCall, ShimStop, ServiceUp, IInv, NoCallOnFreedHandle, TypeOK
    <2>2. \A q \in Procs : InSession(q)' <=> InSession(q)
      BY <1>0, <1>2 DEF StopCall, InSession, TypeOK
    <2> QED
      BY <2>1, <2>2, SameAccessors
  <1>3. CASE CloseState(p) \/ CloseSwap(p)
    <2>1. UNCHANGED native
      BY <1>3 DEF CloseState, CloseSwap, shim
    <2>2. \A q \in Procs : InSession(q)' <=> InSession(q)
      BY <1>0, <1>3 DEF CloseState, CloseSwap, CloseReturns, InSession, TypeOK
    <2> QED
      BY <2>1, <2>2, SameAccessors DEF ServiceUp
  <1>4. CASE CloseCall(p)
    <2>1. native' = [native EXCEPT ![loc[p]] = "free"]
      BY <1>4 DEF CloseCall, StopAndFree
    <2>2. pc' \in [Procs -> PCs] /\ \A q \in Procs \ {p} : pc'[q] = pc[q]
      BY <1>0, <1>4 DEF CloseCall, CloseReturns, TypeOK, PCs
    <2>3. pc'[p] \notin HoldsEmbedded \cup {"copying"} /\ pc[p] = "closeCall"
      BY <1>0, <1>4 DEF CloseCall, CloseReturns, TypeOK
    <2> QED
      BY <2>1, <2>2, <2>3, FreeLeavesNobody
  <1>5. CASE CopyBegin(p) \/ EmbStart(p) \/ StartServer(p)
    BY <1>5, NobodyWhileBetween DEF CopyBegin, EmbStart, StartServer, Between
  <1>6. CASE CopyEnd(p)
    <2>1. InSession(p) /\ UNCHANGED native
      BY <1>6 DEF CopyEnd, InSession, shim
    <2>2. ~ServiceUp /\ \A q \in Procs : InSession(q) => q = p
      BY <2>1, SessionExcludes
    <2> QED
      BY <1>0, <1>6, <2>1, <2>2 DEF CopyEnd, Accessors, ServiceUp, InSession, TypeOK
  <1>7. CASE EmbClose(p)
    <2>1. pc'[p] = "restart"
      BY <1>0, <1>7 DEF EmbClose, TypeOK
    <2>2. (IInv /\ Between => Accessors = {})'
      BY NobodyWhileBetween, PTL
    <2> QED
      BY <2>1, <2>2 DEF Between
  <1>8. CASE ReadStarted(p)
    <2>1. CASE Goto(p, "restartStore") /\ UNCHANGED native
      <3>1. \A q \in Procs : InSession(q)' <=> InSession(q)
        BY <1>0, <1>8, <2>1 DEF ReadStarted, InSession, TypeOK
      <3> QED
        BY <2>1, <3>1, SameAccessors DEF ServiceUp
    <2>2. CASE DiscardStarted(p) /\ RestartFails(p)
      <3>1. pc' = [pc EXCEPT ![p] = "return"] /\ pc[p] = "restartRead"
        BY <1>8, <2>2 DEF ReadStarted, RestartFails
      <3> QED
        BY <1>0, <2>2, <3>1, FreeLeavesNobody DEF DiscardStarted, TypeOK, PCs
    <2> QED
      BY <1>8, <2>1, <2>2 DEF ReadStarted
  <1>9. CASE LockBackup(p) \/ SnapshotInputs(p) \/ PlanBackup(p) \/ EmbRun(p) \/ EmbCall(p)
             \/ StoreRestarted(p) \/ Return(p)
    <2>1. UNCHANGED native
      BY <1>9 DEF LockBackup, SnapshotInputs, PlanBackup, EmbRun, EmbCall, StoreRestarted,
                  Return, shim
    <2>2. \A q \in Procs : InSession(q)' <=> InSession(q)
      BY <1>0, <1>9 DEF LockBackup, SnapshotInputs, PlanBackup, EmbRun, EmbCall,
                        StoreRestarted, Return, InSession, TypeOK
    <2> QED
      BY <2>1, <2>2, SameAccessors DEF ServiceUp
  <1> QED
    BY <1>1, <1>2, <1>3, <1>4, <1>5, <1>6, <1>7, <1>8, <1>9
    DEF Step, CloseMethod, BackupSteps, RunMaintenance, RestartFromConfig

\* A step of the environment leaves the users of the directory as they were.
LEMMA EnvironmentKeeps ==
  ASSUME IInv, Environment \/ UNCHANGED vars PROVE Accessors' = Accessors
  <1> USE DEF HoldsEmbedded
  <1>1. CASE ServerExits
    BY <1>1, SameAccessors DEF ServerExits, ServiceUp, InSession, IInv, TypeOK
  <1>2. CASE Drop
    BY <1>2, SameAccessors DEF Drop, Goto, shim, ServiceUp, InSession, IInv, TypeOK, Procs
  <1>3. CASE RuntimeWrites \/ EditConfigFile \/ UNCHANGED vars
    BY <1>3, SameAccessors DEF RuntimeWrites, EditConfigFile, vars, shim, ServiceUp, InSession
  <1> QED
    BY <1>1, <1>2, <1>3 DEF Environment, Terminated

\* The managed server implements the exclusive use of its directory: running
\* service, backup copies and temporary runtimes follow one another, and each
\* has let go of the directory before the next one takes it.
THEOREM Refinement == Spec => DirectoryHandover
  <1>1. Init => Directory!Init
    BY DEF Init, Directory!Init, Accessors, ServiceUp, InSession, HoldsEmbedded
  <1>2. IInv /\ IInv' /\ [Next]_vars => [Directory!Next]_Accessors
    <2> SUFFICES ASSUME IInv, IInv', [Next]_vars
                 PROVE  Directory!Next \/ Accessors' = Accessors
      OBVIOUS
    <2>1. Accessors' = Accessors \/ Accessors = {} \/ Accessors' = {}
      BY HandoverStep, EnvironmentKeeps DEF Next
    <2>2. Accessors = {} \/ \E a \in Procs \cup {"service"} : Accessors = {a}
      BY AtMostOneAccessor
    <2>3. (Accessors = {} \/ \E a \in Procs \cup {"service"} : Accessors = {a})'
      BY AtMostOneAccessor, PTL
    <2> QED
      BY <2>1, <2>2, <2>3 DEF Directory!Next, Directory!Acquire, Directory!Release
  <1> QED
    BY <1>1, <1>2, Inductive, PTL DEF Spec, DirectoryHandover, Directory!Spec
=============================================================================
