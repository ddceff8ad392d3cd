------------------------- MODULE JavaSessions_proofs -------------------------
(***************************************************************************)
(* Proofs about JavaSessions for any number of threads, sessions and       *)
(* handles, with a library that has every symbol of the binding.           *)
(***************************************************************************)
EXTENDS JavaSessions, TLAPS

USE NoneAssumption, SomeAssumption

\* The session a start returns satisfies the invariant.
THEOREM InitIInv == Init => IInv
  <1> SUFFICES ASSUME Init PROVE IInv
    OBVIOUS
  <1> USE DEF Init, Live, Own, Created, Active, TearDownPCs, TemporaryPCs, AwayPCs, HoldingPCs, InUse
  <1>1. TypeOK
    BY DEF TypeOK, NativeStates, Kinds, PCs
  <1>2. LockInv
    BY DEF LockInv
  <1>3. KnownInv
    BY DEF KnownInv
  <1>4. OwnerInv
    BY DEF OwnerInv
  <1>5. ChainInv
    BY DEF ChainInv
  <1>6. LifecycleCallsLive /\ OpenMeansAlive /\ ClosedMeansFreed
    BY DEF LifecycleCallsLive, OpenMeansAlive, ClosedMeansFreed
  <1> QED
    BY <1>1, <1>2, <1>3, <1>4, <1>5, <1>6 DEF IInv

\* One thread at a time is inside an exclusive section, on whatever session:
\* its session is the active one.
LEMMA OneHolder ==
  ASSUME IInv, NEW t \in Threads, NEW u \in Threads,
         pc[t] \in HoldingPCs, pc[u] \in HoldingPCs
  PROVE  t = u
  <1>1. lock[self[t]] = t /\ lock[self[u]] = u /\ self[t] \in known /\ self[u] \in known
    BY DEF IInv, TypeOK, LockInv, KnownInv
  <1>2. Active(self[t]) /\ Active(self[u])
    BY <1>1 DEF Active, IInv, KnownInv
  <1>3. CASE self[t] # self[u]
    BY <1>1, <1>2, <1>3 DEF IInv, TypeOK, ChainInv, KnownInv
  <1> QED
    BY <1>1, <1>3

\* Calling a method changes the calling thread only.
LEMMA BeginPreserves ==
  ASSUME IInv, NEW t \in Threads, NEW s \in Sessions, NEW o \in Ops \cup {"read", "close"}, NEW l \in {"read", "closeLock", "opLock"},
         Begin(t, s, o, l)
  PROVE  IInv'
  <1> USE DEF Begin, Goto, runtimes, objects, threads, result, IInv, TypeOK,
              Live, Own, Created, TearDownPCs, TemporaryPCs, AwayPCs, HoldingPCs
  <1>1. TypeOK'
    BY DEF NativeStates, Kinds, PCs, Ops, Backups, KnownInv, LockInv
  <1>2. LockInv'
    BY DEF LockInv, KnownInv, Ops, Backups
  <1>3. KnownInv'
    BY DEF KnownInv, LockInv
  <1>4. OwnerInv'
    BY DEF OwnerInv, KnownInv, LockInv, LifecycleCallsLive
  <1>5. ChainInv'
    BY SMTT(30) DEF ChainInv, Active, KnownInv, LockInv, OwnerInv
  <1>6. LifecycleCallsLive'
    BY DEF LifecycleCallsLive, LockInv, KnownInv, OwnerInv, OpenMeansAlive, InUse
  <1>7. OpenMeansAlive'
    BY DEF OpenMeansAlive, InUse, LockInv, KnownInv, OwnerInv, LifecycleCallsLive
  <1>8. ClosedMeansFreed'
    BY DEF ClosedMeansFreed, OpenMeansAlive, InUse, LockInv, KnownInv, OwnerInv, LifecycleCallsLive
  <1> QED
    BY <1>1, <1>2, <1>3, <1>4, <1>5, <1>6, <1>7, <1>8

\* An accessor changes nothing but the thread.
LEMMA ReadPreserves ==
  ASSUME IInv, NEW t \in Threads, Read(t)
  PROVE  IInv'
  <1> USE DEF Read, Goto, runtimes, objects, threads, result, IInv, TypeOK,
              Live, Own, Created, TearDownPCs, TemporaryPCs, AwayPCs, HoldingPCs
  <1>1. TypeOK'
    BY DEF NativeStates, Kinds, PCs, Ops, Backups, KnownInv, LockInv
  <1>2. LockInv'
    BY DEF LockInv, KnownInv, Ops, Backups
  <1>3. KnownInv'
    BY DEF KnownInv, LockInv
  <1>4. OwnerInv'
    BY DEF OwnerInv, KnownInv, LockInv, LifecycleCallsLive
  <1>5. ChainInv'
    BY SMTT(30) DEF ChainInv, Active, KnownInv, LockInv, OwnerInv
  <1>6. LifecycleCallsLive'
    BY DEF LifecycleCallsLive, LockInv, KnownInv, OwnerInv, OpenMeansAlive, InUse
  <1>7. OpenMeansAlive'
    BY DEF OpenMeansAlive, InUse, LockInv, KnownInv, OwnerInv, LifecycleCallsLive
  <1>8. ClosedMeansFreed'
    BY DEF ClosedMeansFreed, OpenMeansAlive, InUse, LockInv, KnownInv, OwnerInv, LifecycleCallsLive
  <1> QED
    BY <1>1, <1>2, <1>3, <1>4, <1>5, <1>6, <1>7, <1>8

\* The first close takes the lock and marks the session closed.
LEMMA CloseLockPreserves ==
  ASSUME IInv, NEW t \in Threads, CloseLock(t)
  PROVE  IInv'
  <1> USE DEF CloseLock, MayClose, LockFree, Goto, runtimes, objects, threads, result, IInv, TypeOK,
              Live, Own, Created, TearDownPCs, TemporaryPCs, AwayPCs, HoldingPCs
  <1>1. TypeOK'
    BY DEF NativeStates, Kinds, PCs, Ops, Backups, KnownInv, LockInv
  <1>2. LockInv'
    BY DEF LockInv, KnownInv, Ops, Backups
  <1>3. KnownInv'
    BY DEF KnownInv, LockInv
  <1>4. OwnerInv'
    BY DEF OwnerInv, KnownInv, LockInv, LifecycleCallsLive
  <1>5. ChainInv'
    BY SMTT(30) DEF ChainInv, Active, KnownInv, LockInv, OwnerInv
  <1>6. LifecycleCallsLive'
    BY DEF LifecycleCallsLive, LockInv, KnownInv, OwnerInv, OpenMeansAlive, InUse
  <1>7. OpenMeansAlive'
    BY DEF OpenMeansAlive, InUse, LockInv, KnownInv, OwnerInv, LifecycleCallsLive
  <1>8. ClosedMeansFreed'
    BY DEF ClosedMeansFreed, OpenMeansAlive, InUse, LockInv, KnownInv, OwnerInv, LifecycleCallsLive
  <1> QED
    BY <1>1, <1>2, <1>3, <1>4, <1>5, <1>6, <1>7, <1>8

\* A second close does nothing.
LEMMA CloseNothingPreserves ==
  ASSUME IInv, NEW t \in Threads, CloseNothing(t)
  PROVE  IInv'
  <1> USE DEF CloseNothing, LockFree, Goto, runtimes, objects, threads, result, IInv, TypeOK,
              Live, Own, Created, TearDownPCs, TemporaryPCs, AwayPCs, HoldingPCs
  <1>1. TypeOK'
    BY DEF NativeStates, Kinds, PCs, Ops, Backups, KnownInv, LockInv
  <1>2. LockInv'
    BY DEF LockInv, KnownInv, Ops, Backups
  <1>3. KnownInv'
    BY DEF KnownInv, LockInv
  <1>4. OwnerInv'
    BY DEF OwnerInv, KnownInv, LockInv, LifecycleCallsLive
  <1>5. ChainInv'
    BY SMTT(30) DEF ChainInv, Active, KnownInv, LockInv, OwnerInv
  <1>6. LifecycleCallsLive'
    BY DEF LifecycleCallsLive, LockInv, KnownInv, OwnerInv, OpenMeansAlive, InUse
  <1>7. OpenMeansAlive'
    BY DEF OpenMeansAlive, InUse, LockInv, KnownInv, OwnerInv, LifecycleCallsLive
  <1>8. ClosedMeansFreed'
    BY DEF ClosedMeansFreed, OpenMeansAlive, InUse, LockInv, KnownInv, OwnerInv, LifecycleCallsLive
  <1> QED
    BY <1>1, <1>2, <1>3, <1>4, <1>5, <1>6, <1>7, <1>8

\* stopAction runs on the session's own runtime, or throws.
LEMMA CloseStopPreserves ==
  ASSUME IInv, NEW t \in Threads, CloseStop(t)
  PROVE  IInv'
  <1> USE DEF CloseStop, AfterStopFails, Goto, runtimes, objects, threads, result, IInv, TypeOK,
              Live, Own, Created, TearDownPCs, TemporaryPCs, AwayPCs, HoldingPCs
  <1>1. TypeOK'
    BY DEF NativeStates, Kinds, PCs, Ops, Backups, KnownInv, LockInv
  <1>2. LockInv'
    BY DEF LockInv, KnownInv, Ops, Backups
  <1>3. KnownInv'
    BY DEF KnownInv, LockInv
  <1>4. OwnerInv'
    BY DEF OwnerInv, KnownInv, LockInv, LifecycleCallsLive
  <1>5. ChainInv'
    BY SMTT(30) DEF ChainInv, Active, KnownInv, LockInv, OwnerInv
  <1>6. LifecycleCallsLive'
    BY DEF LifecycleCallsLive, LockInv, KnownInv, OwnerInv, OpenMeansAlive, InUse
  <1>7. OpenMeansAlive'
    BY DEF OpenMeansAlive, InUse, LockInv, KnownInv, OwnerInv, LifecycleCallsLive
  <1>8. ClosedMeansFreed'
    BY DEF ClosedMeansFreed, OpenMeansAlive, InUse, LockInv, KnownInv, OwnerInv, LifecycleCallsLive
  <1> QED
    BY <1>1, <1>2, <1>3, <1>4, <1>5, <1>6, <1>7, <1>8

\* freeAction ends the runtime, and the session with it.
LEMMA CloseFreePreserves ==
  ASSUME IInv, NEW t \in Threads, CloseFree(t)
  PROVE  IInv'
  <1> USE DEF CloseFree, Release, Unlock, Goto, runtimes, objects, threads, result, IInv, TypeOK,
              Live, Own, Created, TearDownPCs, TemporaryPCs, AwayPCs, HoldingPCs
  <1>1. TypeOK'
    BY DEF NativeStates, Kinds, PCs, Ops, Backups, KnownInv, LockInv
  <1>2. LockInv'
    BY DEF LockInv, KnownInv, Ops, Backups
  <1>3. KnownInv'
    BY DEF KnownInv, LockInv
  <1>4. OwnerInv'
    BY DEF OwnerInv, KnownInv, LockInv, LifecycleCallsLive
  <1>5. ChainInv'
    BY SMTT(30) DEF ChainInv, Active, KnownInv, LockInv, OwnerInv
  <1>6. LifecycleCallsLive'
    BY DEF LifecycleCallsLive, LockInv, KnownInv, OwnerInv, OpenMeansAlive, InUse
  <1>7. OpenMeansAlive'
    BY DEF OpenMeansAlive, InUse, LockInv, KnownInv, OwnerInv, LifecycleCallsLive
  <1>8. ClosedMeansFreed'
    BY DEF ClosedMeansFreed, OpenMeansAlive, InUse, LockInv, KnownInv, OwnerInv, LifecycleCallsLive
  <1> QED
    BY <1>1, <1>2, <1>3, <1>4, <1>5, <1>6, <1>7, <1>8

\* A refused operation leaves the session as it was.
LEMMA OpRefusedPreserves ==
  ASSUME IInv, NEW t \in Threads, OpRefused(t)
  PROVE  IInv'
  <1> USE DEF OpRefused, LockFree, Goto, runtimes, objects, threads, result, IInv, TypeOK,
              Live, Own, Created, TearDownPCs, TemporaryPCs, AwayPCs, HoldingPCs
  <1>1. TypeOK'
    BY DEF NativeStates, Kinds, PCs, Ops, Backups, KnownInv, LockInv
  <1>2. LockInv'
    BY DEF LockInv, KnownInv, Ops, Backups
  <1>3. KnownInv'
    BY DEF KnownInv, LockInv
  <1>4. OwnerInv'
    BY DEF OwnerInv, KnownInv, LockInv, LifecycleCallsLive
  <1>5. ChainInv'
    BY SMTT(30) DEF ChainInv, Active, KnownInv, LockInv, OwnerInv
  <1>6. LifecycleCallsLive'
    BY DEF LifecycleCallsLive, LockInv, KnownInv, OwnerInv, OpenMeansAlive, InUse
  <1>7. OpenMeansAlive'
    BY DEF OpenMeansAlive, InUse, LockInv, KnownInv, OwnerInv, LifecycleCallsLive
  <1>8. ClosedMeansFreed'
    BY DEF ClosedMeansFreed, OpenMeansAlive, InUse, LockInv, KnownInv, OwnerInv, LifecycleCallsLive
  <1> QED
    BY <1>1, <1>2, <1>3, <1>4, <1>5, <1>6, <1>7, <1>8

\* An operation takes the lock of an open session.
LEMMA OpLockPreserves ==
  ASSUME IInv, NEW t \in Threads, OpLock(t)
  PROVE  IInv'
  <1> USE DEF OpLock, LockFree, Goto, runtimes, objects, threads, result, IInv, TypeOK,
              Live, Own, Created, TearDownPCs, TemporaryPCs, AwayPCs, HoldingPCs
  <1>1. TypeOK'
    BY DEF NativeStates, Kinds, PCs, Ops, Backups, KnownInv, LockInv
  <1>2. LockInv'
    BY DEF LockInv, KnownInv, Ops, Backups
  <1>3. KnownInv'
    BY DEF KnownInv, LockInv
  <1>4. OwnerInv'
    BY DEF OwnerInv, KnownInv, LockInv, LifecycleCallsLive
  <1>5. ChainInv'
    BY SMTT(30) DEF ChainInv, Active, KnownInv, LockInv, OwnerInv
  <1>6. LifecycleCallsLive'
    BY DEF LifecycleCallsLive, LockInv, KnownInv, OwnerInv, OpenMeansAlive, InUse
  <1>7. OpenMeansAlive'
    BY DEF OpenMeansAlive, InUse, LockInv, KnownInv, OwnerInv, LifecycleCallsLive
  <1>8. ClosedMeansFreed'
    BY DEF ClosedMeansFreed, OpenMeansAlive, InUse, LockInv, KnownInv, OwnerInv, LifecycleCallsLive
  <1> QED
    BY <1>1, <1>2, <1>3, <1>4, <1>5, <1>6, <1>7, <1>8

\* The old runtime is stopped, or the operation is going to fail.
LEMMA OpStopPreserves ==
  ASSUME IInv, NEW t \in Threads, OpStop(t)
  PROVE  IInv'
  <1> USE DEF OpStop, Goto, runtimes, objects, threads, result, IInv, TypeOK,
              Live, Own, Created, TearDownPCs, TemporaryPCs, AwayPCs, HoldingPCs
  <1>1. TypeOK'
    BY SMTT(60) DEF NativeStates, Kinds, PCs, Ops, Backups, KnownInv, LockInv
  <1>2. LockInv'
    BY DEF LockInv, KnownInv, Ops, Backups
  <1>3. KnownInv'
    BY DEF KnownInv, LockInv
  <1>4. OwnerInv'
    BY SMTT(60) DEF OwnerInv, KnownInv, LockInv, LifecycleCallsLive
  <1>5. ChainInv'
    BY SMTT(30) DEF ChainInv, Active, KnownInv, LockInv, OwnerInv
  <1>6. LifecycleCallsLive'
    BY DEF LifecycleCallsLive, LockInv, KnownInv, OwnerInv, OpenMeansAlive, InUse
  <1>7. OpenMeansAlive'
    BY DEF OpenMeansAlive, InUse, LockInv, KnownInv, OwnerInv, LifecycleCallsLive
  <1>8. ClosedMeansFreed'
    BY DEF ClosedMeansFreed, OpenMeansAlive, InUse, LockInv, KnownInv, OwnerInv, LifecycleCallsLive
  <1> QED
    BY <1>1, <1>2, <1>3, <1>4, <1>5, <1>6, <1>7, <1>8

\* The old runtime is freed either way.
LEMMA OpFreePreserves ==
  ASSUME IInv, NEW t \in Threads, OpFree(t)
  PROVE  IInv'
  <1> USE DEF OpFree, FreeAfterStop, Release, Goto, runtimes, objects, threads, result, IInv, TypeOK,
              Live, Own, Created, TearDownPCs, TemporaryPCs, AwayPCs, HoldingPCs
  <1>1. TypeOK'
    BY DEF NativeStates, Kinds, PCs, Ops, Backups, KnownInv, LockInv
  <1>2. LockInv'
    BY DEF LockInv, KnownInv, Ops, Backups
  <1>3. KnownInv'
    BY DEF KnownInv, LockInv
  <1>4. OwnerInv'
    BY DEF OwnerInv, KnownInv, LockInv, LifecycleCallsLive
  <1>5. ChainInv'
    BY SMTT(30) DEF ChainInv, Active, KnownInv, LockInv, OwnerInv
  <1>6. LifecycleCallsLive'
    BY DEF LifecycleCallsLive, LockInv, KnownInv, OwnerInv, OpenMeansAlive, InUse
  <1>7. OpenMeansAlive'
    BY DEF OpenMeansAlive, InUse, LockInv, KnownInv, OwnerInv, LifecycleCallsLive
  <1>8. ClosedMeansFreed'
    BY DEF ClosedMeansFreed, OpenMeansAlive, InUse, LockInv, KnownInv, OwnerInv, LifecycleCallsLive
  <1> QED
    BY <1>1, <1>2, <1>3, <1>4, <1>5, <1>6, <1>7, <1>8

\* The copy begins when no runtime is left.
LEMMA CopyBeginPreserves ==
  ASSUME IInv, NEW t \in Threads, CopyBegin(t)
  PROVE  IInv'
  <1> USE DEF CopyBegin, Goto, runtimes, objects, threads, result, IInv, TypeOK,
              Live, Own, Created, TearDownPCs, TemporaryPCs, AwayPCs, HoldingPCs
  <1>1. TypeOK'
    BY DEF NativeStates, Kinds, PCs, Ops, Backups, KnownInv, LockInv
  <1>2. LockInv'
    BY DEF LockInv, KnownInv, Ops, Backups
  <1>3. KnownInv'
    BY DEF KnownInv, LockInv
  <1>4. OwnerInv'
    BY DEF OwnerInv, KnownInv, LockInv, LifecycleCallsLive
  <1>5. ChainInv'
    BY SMTT(30) DEF ChainInv, Active, KnownInv, LockInv, OwnerInv
  <1>6. LifecycleCallsLive'
    BY DEF LifecycleCallsLive, LockInv, KnownInv, OwnerInv, OpenMeansAlive, InUse
  <1>7. OpenMeansAlive'
    BY DEF OpenMeansAlive, InUse, LockInv, KnownInv, OwnerInv, LifecycleCallsLive
  <1>8. ClosedMeansFreed'
    BY DEF ClosedMeansFreed, OpenMeansAlive, InUse, LockInv, KnownInv, OwnerInv, LifecycleCallsLive
  <1> QED
    BY <1>1, <1>2, <1>3, <1>4, <1>5, <1>6, <1>7, <1>8

\* The copy ends, well or not.
LEMMA CopyEndPreserves ==
  ASSUME IInv, NEW t \in Threads, CopyEnd(t)
  PROVE  IInv'
  <1> USE DEF CopyEnd, AfterCopy, Goto, runtimes, objects, threads, result, IInv, TypeOK,
              Live, Own, Created, TearDownPCs, TemporaryPCs, AwayPCs, HoldingPCs
  <1>1. TypeOK'
    BY DEF NativeStates, Kinds, PCs, Ops, Backups, KnownInv, LockInv
  <1>2. LockInv'
    BY DEF LockInv, KnownInv, Ops, Backups
  <1>3. KnownInv'
    BY DEF KnownInv, LockInv
  <1>4. OwnerInv'
    BY DEF OwnerInv, KnownInv, LockInv, LifecycleCallsLive
  <1>5. ChainInv'
    BY SMTT(30) DEF ChainInv, Active, KnownInv, LockInv, OwnerInv
  <1>6. LifecycleCallsLive'
    BY DEF LifecycleCallsLive, LockInv, KnownInv, OwnerInv, OpenMeansAlive, InUse
  <1>7. OpenMeansAlive'
    BY DEF OpenMeansAlive, InUse, LockInv, KnownInv, OwnerInv, LifecycleCallsLive
  <1>8. ClosedMeansFreed'
    BY DEF ClosedMeansFreed, OpenMeansAlive, InUse, LockInv, KnownInv, OwnerInv, LifecycleCallsLive
  <1> QED
    BY <1>1, <1>2, <1>3, <1>4, <1>5, <1>6, <1>7, <1>8

\* The temporary runtime takes a free address, or does not start.
LEMMA EmbStartPreserves ==
  ASSUME IInv, NEW t \in Threads, EmbStart(t)
  PROVE  IInv'
  <1> USE DEF EmbStart, EmbStartFails, Goto, runtimes, objects, threads, result, IInv, TypeOK,
              Live, Own, Created, TearDownPCs, TemporaryPCs, AwayPCs, HoldingPCs
  <1>1. TypeOK'
    <2>1. CASE EmbStartFails(t) /\ UNCHANGED <<native, loc>>
      BY <2>1 DEF PCs
    <2>2. CASE \E h \in Handles :
                 /\ native' = [native EXCEPT ![h] = "embedded"]
                 /\ loc' = [loc EXCEPT ![t] = h]
                 /\ Goto(t, "embRun")
                 /\ UNCHANGED ran
      BY <2>2 DEF NativeStates, PCs
    <2> QED
      BY <2>1, <2>2
  <1>2. LockInv'
    BY DEF LockInv, KnownInv, Ops, Backups
  <1>3. KnownInv'
    BY DEF KnownInv, LockInv
  <1>4. OwnerInv'
    BY DEF OwnerInv, KnownInv, LockInv, LifecycleCallsLive
  <1>5. ChainInv'
    BY SMTT(30) DEF ChainInv, Active, KnownInv, LockInv, OwnerInv
  <1>6. LifecycleCallsLive'
    BY DEF LifecycleCallsLive, LockInv, KnownInv, OwnerInv, OpenMeansAlive, InUse
  <1>7. OpenMeansAlive'
    BY DEF OpenMeansAlive, InUse, LockInv, KnownInv, OwnerInv, LifecycleCallsLive
  <1>8. ClosedMeansFreed'
    BY DEF ClosedMeansFreed, OpenMeansAlive, InUse, LockInv, KnownInv, OwnerInv, LifecycleCallsLive
  <1> QED
    BY <1>1, <1>2, <1>3, <1>4, <1>5, <1>6, <1>7, <1>8

\* The operation on the temporary runtime returns.
LEMMA EmbRunPreserves ==
  ASSUME IInv, NEW t \in Threads, EmbRun(t)
  PROVE  IInv'
  <1> USE DEF EmbRun, Goto, runtimes, objects, threads, result, IInv, TypeOK,
              Live, Own, Created, TearDownPCs, TemporaryPCs, AwayPCs, HoldingPCs
  <1>1. TypeOK'
    BY DEF NativeStates, Kinds, PCs, Ops, Backups, KnownInv, LockInv
  <1>2. LockInv'
    BY DEF LockInv, KnownInv, Ops, Backups
  <1>3. KnownInv'
    BY DEF KnownInv, LockInv
  <1>4. OwnerInv'
    BY DEF OwnerInv, KnownInv, LockInv, LifecycleCallsLive
  <1>5. ChainInv'
    BY SMTT(30) DEF ChainInv, Active, KnownInv, LockInv, OwnerInv
  <1>6. LifecycleCallsLive'
    BY DEF LifecycleCallsLive, LockInv, KnownInv, OwnerInv, OpenMeansAlive, InUse
  <1>7. OpenMeansAlive'
    BY DEF OpenMeansAlive, InUse, LockInv, KnownInv, OwnerInv, LifecycleCallsLive
  <1>8. ClosedMeansFreed'
    BY DEF ClosedMeansFreed, OpenMeansAlive, InUse, LockInv, KnownInv, OwnerInv, LifecycleCallsLive
  <1> QED
    BY <1>1, <1>2, <1>3, <1>4, <1>5, <1>6, <1>7, <1>8

\* The temporary runtime is freed.
LEMMA EmbClosePreserves ==
  ASSUME IInv, NEW t \in Threads, EmbClose(t)
  PROVE  IInv'
  <1> USE DEF EmbClose, FreeTemporary, Goto, runtimes, objects, threads, result, IInv, TypeOK,
              Live, Own, Created, TearDownPCs, TemporaryPCs, AwayPCs, HoldingPCs
  <1>1. TypeOK'
    BY DEF NativeStates, Kinds, PCs, Ops, Backups, KnownInv, LockInv
  <1>2. LockInv'
    BY DEF LockInv, KnownInv, Ops, Backups
  <1>3. KnownInv'
    BY DEF KnownInv, LockInv
  <1>4. OwnerInv'
    BY DEF OwnerInv, KnownInv, LockInv, LifecycleCallsLive
  <1>5. ChainInv'
    BY SMTT(30) DEF ChainInv, Active, KnownInv, LockInv, OwnerInv
  <1>6. LifecycleCallsLive'
    BY OneHolder DEF LifecycleCallsLive, LockInv, KnownInv, OwnerInv, OpenMeansAlive, InUse
  <1>7. OpenMeansAlive'
    BY DEF OpenMeansAlive, InUse, LockInv, KnownInv, OwnerInv, LifecycleCallsLive
  <1>8. ClosedMeansFreed'
    BY DEF ClosedMeansFreed, OpenMeansAlive, InUse, LockInv, KnownInv, OwnerInv, LifecycleCallsLive
  <1> QED
    BY <1>1, <1>2, <1>3, <1>4, <1>5, <1>6, <1>7, <1>8

\* A new session exists next to the old one until the call returns.
LEMMA RestartPreserves ==
  ASSUME IInv, NEW t \in Threads, Restart(t)
  PROVE  IInv'
  <1> USE DEF Restart, Unused, Goto, runtimes, objects, threads, result, IInv, TypeOK,
              Live, Own, Created, TearDownPCs, TemporaryPCs, AwayPCs, HoldingPCs
  <1>1. TypeOK'
    BY SMTT(60) DEF NativeStates, Kinds, PCs, Ops, Backups, KnownInv, LockInv
  <1>2. LockInv'
    BY DEF LockInv, KnownInv, Ops, Backups
  <1>3. KnownInv'
    BY DEF KnownInv, LockInv
  <1>4. OwnerInv'
    BY SMTT(60) DEF OwnerInv, KnownInv, LockInv, LifecycleCallsLive, Kinds
  <1>5. ChainInv'
    BY SMTT(30) DEF ChainInv, Active, KnownInv, LockInv, OwnerInv
  <1>6. LifecycleCallsLive'
    BY DEF LifecycleCallsLive, LockInv, KnownInv, OwnerInv, OpenMeansAlive, InUse
  <1>7. OpenMeansAlive'
    BY DEF OpenMeansAlive, InUse, LockInv, KnownInv, OwnerInv, LifecycleCallsLive
  <1>8. ClosedMeansFreed'
    BY DEF ClosedMeansFreed, OpenMeansAlive, InUse, LockInv, KnownInv, OwnerInv, LifecycleCallsLive
  <1> QED
    BY <1>1, <1>2, <1>3, <1>4, <1>5, <1>6, <1>7, <1>8

\* The old session is invalidated; the new one is the active one.
LEMMA FinishPreserves ==
  ASSUME IInv, NEW t \in Threads, Finish(t)
  PROVE  IInv'
  <1> USE DEF Finish, Invalidate, Unlock, Goto, runtimes, objects, threads, result, IInv, TypeOK,
              Live, Own, Created, TearDownPCs, TemporaryPCs, AwayPCs, HoldingPCs
  <1>1. TypeOK'
    BY DEF NativeStates, Kinds, PCs, Ops, Backups, KnownInv, LockInv
  <1>2. LockInv'
    BY DEF LockInv, KnownInv, Ops, Backups
  <1>3. KnownInv'
    BY OneHolder DEF KnownInv, LockInv
  <1>4. OwnerInv'
    BY DEF OwnerInv, KnownInv, LockInv, LifecycleCallsLive
  <1>5. ChainInv'
    BY SMTT(30) DEF ChainInv, Active, KnownInv, LockInv, OwnerInv
  <1>6. LifecycleCallsLive'
    BY DEF LifecycleCallsLive, LockInv, KnownInv, OwnerInv, OpenMeansAlive, InUse
  <1>7. OpenMeansAlive'
    BY DEF OpenMeansAlive, InUse, LockInv, KnownInv, OwnerInv, LifecycleCallsLive
  <1>8. ClosedMeansFreed'
    BY DEF ClosedMeansFreed, OpenMeansAlive, InUse, LockInv, KnownInv, OwnerInv, LifecycleCallsLive
  <1> QED
    BY <1>1, <1>2, <1>3, <1>4, <1>5, <1>6, <1>7, <1>8

\* Every step preserves the invariant.
LEMMA StepPreserves ==
  ASSUME IInv, NEW t \in Threads, Call(t) \/ Step(t)
  PROVE  IInv'
  <1>1. CASE Call(t)
    BY <1>1, BeginPreserves DEF Call, EnsureOpen
  <1>2. CASE Read(t) \/ CloseSteps(t)
    BY <1>2, ReadPreserves, CloseLockPreserves, CloseNothingPreserves, CloseStopPreserves,
       CloseFreePreserves DEF CloseSteps
  <1>3. CASE TakeDown(t)
    BY <1>3, OpRefusedPreserves, OpLockPreserves, OpStopPreserves, OpFreePreserves
       DEF TakeDown
  <1>4. CASE Work(t)
    BY <1>4, CopyBeginPreserves, CopyEndPreserves, EmbStartPreserves, EmbRunPreserves,
       EmbClosePreserves DEF Work
  <1>5. CASE BringUp(t)
    BY <1>5, RestartPreserves, FinishPreserves DEF BringUp
  <1> QED
    BY <1>1, <1>2, <1>3, <1>4, <1>5 DEF Step

\* The invariant is inductive.
LEMMA NextPreserves == IInv /\ [Next]_vars => IInv'
  <1> SUFFICES ASSUME IInv, [Next]_vars PROVE IInv'
    OBVIOUS
  <1>1. CASE Next
    BY <1>1, StepPreserves DEF Next
  <1>2. CASE UNCHANGED vars
    BY <1>2 DEF vars, runtimes, objects, threads, result, IInv, TypeOK, LockInv, KnownInv,
       OwnerInv, ChainInv, Active, Created, Live, Own, LifecycleCallsLive, OpenMeansAlive,
       ClosedMeansFreed, InUse
  <1> QED
    BY <1>1, <1>2

\* The inductive invariant holds for any number of threads, sessions, handles.
THEOREM Inductive == Spec => []IInv
  BY InitIInv, NextPreserves, PTL DEF Spec

\* Every variable keeps its type; a temporary runtime that did not start is
\* never called.
THEOREM TypeCorrect == Spec => []TypeOK
  <1>1. IInv => TypeOK
    BY DEF IInv
  <1> QED
    BY <1>1, Inductive, PTL

\* Stop, free and the maintenance calls reach live runtimes of their own.
THEOREM LifecycleIsExact == Spec => []LifecycleCallsLive
  <1>1. IInv => LifecycleCallsLive
    BY DEF IInv
  <1> QED
    BY <1>1, Inductive, PTL

\* A session that says it is open has its runtime, whatever failed.
THEOREM OpenFlagsAreTrue == Spec => []OpenMeansAlive
  <1>1. IInv => OpenMeansAlive
    BY DEF IInv
  <1> QED
    BY <1>1, Inductive, PTL

\* A session that says it is closed has no runtime left, whatever failed.
THEOREM ClosedFlagsAreTrue == Spec => []ClosedMeansFreed
  <1>1. IInv => ClosedMeansFreed
    BY DEF IInv
  <1> QED
    BY <1>1, Inductive, PTL

\* A live runtime belongs to an active session, or to the thread that holds
\* one; and all of them are the same.
LEMMA AtMostOne == IInv => OneRuntime
  <1> SUFFICES ASSUME IInv, NEW g \in Handles, NEW h \in Handles, Live(g), Live(h), g # h
               PROVE  FALSE
    BY DEF OneRuntime
  <1> USE DEF IInv, TypeOK
  <1>1. \A k \in Handles : owner[k] # None => Active(owner[k]) /\ hnd[owner[k]] = k
    BY DEF OwnerInv, ClosedMeansFreed, InUse, Active, Created
  <1>2. \A t \in Threads : pc[t] \in HoldingPCs =>
          lock[self[t]] = t /\ self[t] \in known /\ Active(self[t])
    BY DEF LockInv, KnownInv, Active
  <1>3. CASE owner[g] # None /\ owner[h] # None
    <2>1. PICK t \in Threads : pc[t] = "finish" /\ (owner[g] = self[t] \/ owner[h] = self[t])
      BY <1>1, <1>3 DEF ChainInv
    <2> QED
      BY <2>1 DEF OwnerInv
  <1>4. ASSUME NEW a \in Handles, NEW b \in Handles, owner[a] # None, owner[b] = None, Live(b)
        PROVE  FALSE
    <2>1. PICK t \in Threads : pc[t] \in TemporaryPCs
      BY <1>4 DEF OwnerInv
    <2>2. Active(owner[a]) /\ Active(self[t]) /\ owner[a] # self[t]
      BY <1>1, <1>2, <1>4, <2>1 DEF OwnerInv, HoldingPCs, AwayPCs
    <2>3. PICK u \in Threads : pc[u] = "finish" /\ (self[t] = self[u] \/ self[t] = made[u])
      BY <2>2, <1>4 DEF ChainInv
    <2>4. self[t] = self[u]
      BY <2>3, <1>2, <2>1 DEF KnownInv, HoldingPCs, AwayPCs
    <2> QED
      BY <2>1, <2>3, OneHolder DEF HoldingPCs, AwayPCs, TemporaryPCs
  <1>5. CASE owner[g] = None /\ owner[h] = None
    BY <1>5, OneHolder DEF OwnerInv, HoldingPCs, AwayPCs
  <1> QED
    BY <1>3, <1>4, <1>5

\* At most one native runtime is alive.
THEOREM OneRuntimeOnly == Spec => []OneRuntime
  BY AtMostOne, Inductive, PTL

\* While a thread is between the old runtime and the new one, no session has a
\* runtime: its own was freed, and every other one is closed.
LEMMA AwayAlone ==
  ASSUME IInv, NEW t \in Threads, pc[t] \in AwayPCs
  PROVE  \A h \in Handles : owner[h] = None
  <1> SUFFICES ASSUME NEW h \in Handles, owner[h] # None PROVE FALSE
    OBVIOUS
  <1> USE DEF IInv, TypeOK
  <1>1. pc[t] \in HoldingPCs
    BY DEF HoldingPCs
  <1>2. self[t] \in known /\ Active(self[t])
    BY <1>1 DEF LockInv, KnownInv, Active
  <1>3. Active(owner[h]) /\ owner[h] # self[t]
    BY DEF OwnerInv, ClosedMeansFreed, InUse, Active, Created
  <1>4. PICK u \in Threads : pc[u] = "finish" /\ (self[t] = self[u] \/ self[t] = made[u])
    BY <1>2, <1>3 DEF ChainInv
  <1> QED
    BY <1>1, <1>2, <1>4, OneHolder DEF HoldingPCs, AwayPCs, TemporaryPCs, KnownInv

\* A thread that copies is the only holder, and no session has a runtime.
LEMMA CopyAlone == IInv => SnapshotQuiescent
  <1> SUFFICES ASSUME IInv, NEW t \in Threads, pc[t] = "copying", NEW h \in Handles, Live(h)
               PROVE  FALSE
    BY DEF SnapshotQuiescent
  <1>1. pc[t] \in HoldingPCs /\ pc[t] \in AwayPCs
    BY DEF HoldingPCs, AwayPCs
  <1>2. owner[h] = None
    BY <1>1, AwayAlone
  <1>3. PICK u \in Threads : pc[u] \in TemporaryPCs
    BY <1>2 DEF IInv, OwnerInv
  <1> QED
    BY <1>1, <1>3, OneHolder DEF HoldingPCs, AwayPCs, TemporaryPCs

\* A Java backup copies the directory only while no native runtime is alive.
THEOREM SnapshotsAreQuiescent == Spec => []SnapshotQuiescent
  BY CopyAlone, Inductive, PTL

-----------------------------------------------------------------------------
(* Restarts after a backup.                                                *)

\* A backup keeps to its own stages, and reaches the end by a restart unless the
\* old runtime could not be stopped.
LEMMA BackupStep ==
  ASSUME IInv, StageInv, BackupRestarts, NEW t \in Threads, Call(t) \/ Step(t)
  PROVE  StageInv' /\ BackupRestarts'
  <1> USE DEF Goto, StageInv, BackupRestarts, IInv, TypeOK, TemporaryPCs, Ops, Backups
  <1>1. CASE Call(t)
    BY <1>1 DEF Call, EnsureOpen, Begin, result
  <1>2. CASE Read(t) \/ CloseSteps(t)
    BY <1>2 DEF Read, CloseSteps, CloseLock, CloseNothing, CloseStop, CloseFree,
                AfterStopFails, threads, result
  <1>3. CASE OpRefused(t) \/ OpLock(t) \/ OpStop(t)
    BY <1>3 DEF OpRefused, OpLock, OpStop, threads, result
  <1>4. CASE OpFree(t)
    BY <1>4 DEF OpFree, threads, result
  <1>5. CASE CopyBegin(t) \/ CopyEnd(t)
    BY <1>5 DEF CopyBegin, CopyEnd, AfterCopy, threads, result
  <1>6. CASE EmbStart(t)
    BY <1>6 DEF EmbStart, EmbStartFails, threads
  <1>7. CASE EmbRun(t) \/ EmbClose(t)
    BY <1>7 DEF EmbRun, EmbClose, threads, result
  <1>8. CASE Restart(t)
    BY <1>8 DEF Restart, threads
  <1>9. CASE Finish(t)
    BY <1>9 DEF Finish, threads
  <1> QED
    BY <1>1, <1>2, <1>3, <1>4, <1>5, <1>6, <1>7, <1>8, <1>9 DEF Step, TakeDown, Work, BringUp

\* A restart is attempted after every backup that asks for one, also when the
\* copy fails.
THEOREM RestartsFollowBackups == Spec => []BackupRestarts
  <1>1. Init => StageInv /\ BackupRestarts
    BY DEF Init, StageInv, BackupRestarts, TemporaryPCs
  <1>2. IInv /\ StageInv /\ BackupRestarts /\ [Next]_vars => StageInv' /\ BackupRestarts'
    <2> SUFFICES ASSUME IInv, StageInv, BackupRestarts, [Next]_vars
                 PROVE  StageInv' /\ BackupRestarts'
      OBVIOUS
    <2>1. CASE Next
      BY <2>1, BackupStep DEF Next
    <2>2. CASE UNCHANGED vars
      BY <2>2 DEF vars, threads, result, StageInv, BackupRestarts
    <2> QED
      BY <2>1, <2>2
  <1> QED
    BY <1>1, <1>2, Inductive, PTL DEF Spec

-----------------------------------------------------------------------------
(* The sessions implement DirectoryAccess.                                 *)

\* A thread with the temporary runtime or with a copy in progress.
Inside(t) == pc[t] \in TemporaryPCs \cup {"copying"}

\* A session of the chain with a runtime.
ServiceUp == \E h \in Handles : owner[h] # None

\* A thread inside excludes the sessions' runtimes and every other thread.
LEMMA InsideExcludes ==
  ASSUME IInv, NEW t \in Threads, Inside(t)
  PROVE  ~ServiceUp /\ \A u \in Threads : Inside(u) => u = t
  <1>1. \A u \in Threads : Inside(u) => pc[u] \in AwayPCs /\ pc[u] \in HoldingPCs
    BY DEF Inside, AwayPCs, HoldingPCs, TemporaryPCs
  <1> QED
    BY <1>1, AwayAlone, OneHolder DEF ServiceUp

\* The directory never has two users.
LEMMA AtMostOneAccessor ==
  IInv => Accessors = {} \/ \E a \in Threads \cup {"service"} : Accessors = {a}
  <1> SUFFICES ASSUME IInv
               PROVE  Accessors = {} \/ \E a \in Threads \cup {"service"} : Accessors = {a}
    OBVIOUS
  <1>1. CASE \E t \in Threads : Inside(t)
    BY <1>1, InsideExcludes DEF Accessors, Inside, ServiceUp
  <1>2. CASE \A t \in Threads : ~Inside(t)
    BY <1>2 DEF Accessors, Inside
  <1> QED
    BY <1>1, <1>2

\* The users depend on the owners and on who is inside only.
LEMMA SameAccessors ==
  ASSUME UNCHANGED owner, \A t \in Threads : Inside(t)' <=> Inside(t)
  PROVE  Accessors' = Accessors
  BY DEF Accessors, Inside

\* Between the old runtime, the work and the new runtime nobody has the directory.
LEMMA NobodyWhileBetween ==
  ASSUME IInv, NEW t \in Threads, pc[t] \in {"copy", "embStart", "restart"}
  PROVE  Accessors = {}
  <1>1. \A u \in Threads : ~Inside(u)
    BY OneHolder DEF Inside, HoldingPCs, AwayPCs, TemporaryPCs
  <1>2. ~ServiceUp
    BY AwayAlone DEF ServiceUp, AwayPCs
  <1> QED
    BY <1>1, <1>2 DEF Accessors, Inside, ServiceUp

\* The end of a session's runtime leaves nobody.
LEMMA ReleaseLeavesNobody ==
  ASSUME IInv, NEW t \in Threads, pc[t] \in {"closeFree", "opFree"}, Release(Own(t)),
         pc' \in [Threads -> PCs], \A u \in Threads \ {t} : pc'[u] = pc[u],
         pc'[t] \notin TemporaryPCs \cup {"copying"}
  PROVE  Accessors' = {}
  <1>1. Live(Own(t)) /\ Own(t) \in Handles
    BY DEF IInv, LifecycleCallsLive, TearDownPCs, TypeOK, KnownInv, Own, Created
  <1>2. \A h \in Handles : owner[h] # None => h = Own(t)
    BY <1>1, AtMostOne DEF OneRuntime, IInv, OwnerInv
  <1>3. \A u \in Threads : ~Inside(u)
    BY OneHolder DEF Inside, HoldingPCs, TearDownPCs, AwayPCs, TemporaryPCs
  <1> QED
    BY <1>2, <1>3 DEF Release, Accessors, Inside, IInv, TypeOK

\* The end of the work leaves nobody.
LEMMA LeavingLeavesNobody ==
  ASSUME IInv, NEW t \in Threads, Inside(t), UNCHANGED owner,
         \A u \in Threads \ {t} : pc'[u] = pc[u],
         pc'[t] \notin TemporaryPCs \cup {"copying"}
  PROVE  Accessors' = {}
  BY InsideExcludes DEF Accessors, Inside, ServiceUp

\* Every step keeps the users, or starts from nobody, or ends with nobody.
LEMMA HandoverStep ==
  ASSUME IInv, IInv', NEW t \in Threads, Call(t) \/ Step(t)
  PROVE  Accessors' = Accessors \/ Accessors = {} \/ Accessors' = {}
  <1> USE DEF Goto
  <1>0. TypeOK
    BY DEF IInv
  <1>1. CASE Call(t) \/ Read(t) \/ CloseLock(t) \/ CloseNothing(t) \/ CloseStop(t)
             \/ OpRefused(t) \/ OpLock(t) \/ OpStop(t) \/ EmbRun(t) \/ Finish(t)
    <2>1. UNCHANGED owner
      BY <1>1 DEF Call, EnsureOpen, Begin, Read, CloseLock, CloseNothing, CloseStop, OpRefused,
                  OpLock, OpStop, EmbRun, Finish, runtimes
    <2>2. \A u \in Threads : Inside(u)' <=> Inside(u)
      BY <1>0, <1>1 DEF Call, EnsureOpen, Begin, Read, CloseLock, CloseNothing, CloseStop,
                        AfterStopFails, OpRefused, OpLock, OpStop, EmbRun, Finish, Inside,
                        TemporaryPCs, TypeOK
    <2> QED
      BY <2>1, <2>2, SameAccessors
  <1>2. CASE CloseFree(t) \/ OpFree(t)
    <2>1. pc[t] \in {"closeFree", "opFree"} /\ Release(Own(t))
      BY <1>2 DEF CloseFree, OpFree, FreeAfterStop
    <2>2. pc' \in [Threads -> PCs] /\ \A u \in Threads \ {t} : pc'[u] = pc[u]
      BY <1>0, <1>2 DEF CloseFree, OpFree, TypeOK, PCs
    <2>3. pc'[t] \notin TemporaryPCs \cup {"copying"}
      BY <1>0, <1>2 DEF CloseFree, OpFree, TemporaryPCs, TypeOK
    <2> QED
      BY <2>1, <2>2, <2>3, ReleaseLeavesNobody
  <1>3. CASE CopyBegin(t) \/ EmbStart(t) \/ Restart(t)
    BY <1>3, NobodyWhileBetween DEF CopyBegin, EmbStart, Restart
  <1>4. CASE CopyEnd(t) \/ EmbClose(t)
    <2>1. Inside(t) /\ UNCHANGED owner
      BY <1>4 DEF CopyEnd, EmbClose, Inside, TemporaryPCs, runtimes
    <2>2. \A u \in Threads \ {t} : pc'[u] = pc[u]
      BY <1>0, <1>4 DEF CopyEnd, EmbClose, TypeOK
    <2>3. pc'[t] \notin TemporaryPCs \cup {"copying"}
      BY <1>0, <1>4 DEF CopyEnd, AfterCopy, EmbClose, TemporaryPCs, TypeOK
    <2> QED
      BY <2>1, <2>2, <2>3, LeavingLeavesNobody
  <1> QED
    BY <1>1, <1>2, <1>3, <1>4 DEF Step, CloseSteps, TakeDown, Work, BringUp

\* The sessions implement the exclusive use of their directory: runtimes of
\* sessions, copies and temporary runtimes follow one another, and each has let
\* go of the directory before the next one takes it.
THEOREM Refinement == Spec => DirectoryHandover
  <1>1. Init => Directory!Init
    BY DEF Init, Directory!Init, Accessors, TemporaryPCs
  <1>2. IInv /\ IInv' /\ [Next]_vars => [Directory!Next]_Accessors
    <2> SUFFICES ASSUME IInv, IInv', [Next]_vars
                 PROVE  Directory!Next \/ Accessors' = Accessors
      OBVIOUS
    <2>1. Accessors' = Accessors \/ Accessors = {} \/ Accessors' = {}
      BY HandoverStep, SameAccessors DEF Next, vars, runtimes, Inside
    <2>2. Accessors = {} \/ \E a \in Threads \cup {"service"} : Accessors = {a}
      BY AtMostOneAccessor
    <2>3. (Accessors = {} \/ \E a \in Threads \cup {"service"} : Accessors = {a})'
      BY AtMostOneAccessor, PTL
    <2> QED
      BY <2>1, <2>2, <2>3 DEF Directory!Next, Directory!Acquire, Directory!Release
  <1> QED
    BY <1>1, <1>2, Inductive, PTL DEF Spec, DirectoryHandover, Directory!Spec
=============================================================================
