------------------------- MODULE ShimServer_proofs -------------------------
(***************************************************************************)
(* Proofs about ShimServer for any number of handles, ports and clients.   *)
(***************************************************************************)
EXTENDS ShimServer, TLAPS

USE NoneAssumption

\* Before the first start there is no runtime.
THEOREM InitIInv == Init => IInv
  BY DEF Init, IInv, TypeOK, CallInv, RuntimeInv, ListenerInv, Unused, Alive, Ended

\* A start that is refused has made nothing.
LEMMA StartRefusedPreserves == ASSUME IInv, StartRefused PROVE IInv'
  <1> USE DEF StartRefused, Goto, call, tasks, IInv, TypeOK, Alive, Ended
  <1>1. TypeOK'
    OBVIOUS
  <1>2. CallInv'
    BY DEF CallInv, RuntimeInv, Unused
  <1>3. RuntimeInv'
    BY DEF CallInv, RuntimeInv, ListenerInv, Unused
  <1>4. ListenerInv'
    BY DEF CallInv, RuntimeInv, ListenerInv, Unused
  <1> QED
    BY <1>1, <1>2, <1>3, <1>4

\* A new runtime is in the hands of the call that spawned it.
LEMMA SpawnPreserves == ASSUME IInv, NEW h \in Handles, NEW p \in Ports, Spawn(h, p) PROVE IInv'
  <1> USE DEF Spawn, Goto, call, tasks, IInv, TypeOK, Alive, Ended
  <1>1. TypeOK'
    OBVIOUS
  <1>2. CallInv'
    BY DEF CallInv, RuntimeInv, Unused
  <1>3. RuntimeInv'
    BY DEF CallInv, RuntimeInv, ListenerInv, Unused
  <1>4. ListenerInv'
    BY DEF CallInv, RuntimeInv, ListenerInv, Unused
  <1> QED
    BY <1>1, <1>2, <1>3, <1>4

\* A start fails on a task that has ended by itself.
LEMMA StartFailedPreserves == ASSUME IInv, StartFailed PROVE IInv'
  <1> USE DEF StartFailed, Goto, call, tasks, IInv, TypeOK, Alive, Ended
  <1>1. TypeOK'
    OBVIOUS
  <1>2. CallInv'
    BY DEF CallInv, RuntimeInv, Unused
  <1>3. RuntimeInv'
    BY DEF CallInv, RuntimeInv, ListenerInv, Unused
  <1>4. ListenerInv'
    BY DEF CallInv, RuntimeInv, ListenerInv, Unused
  <1> QED
    BY <1>1, <1>2, <1>3, <1>4

\* Giving up the wait only moves the call on.
LEMMA GiveUpWaitingPreserves == ASSUME IInv, GiveUpWaiting PROVE IInv'
  <1> USE DEF GiveUpWaiting, Goto, call, tasks, IInv, TypeOK, Alive, Ended
  <1>1. TypeOK'
    OBVIOUS
  <1>2. CallInv'
    BY DEF CallInv, RuntimeInv, Unused
  <1>3. RuntimeInv'
    BY DEF CallInv, RuntimeInv, ListenerInv, Unused
  <1>4. ListenerInv'
    BY DEF CallInv, RuntimeInv, ListenerInv, Unused
  <1> QED
    BY <1>1, <1>2, <1>3, <1>4

\* The handle passes from the call to the caller.
LEMMA ReturnHandlePreserves == ASSUME IInv, ReturnHandle PROVE IInv'
  <1> USE DEF ReturnHandle, Goto, call, tasks, IInv, TypeOK, Alive, Ended
  <1>1. TypeOK'
    BY DEF CallInv
  <1>2. CallInv'
    BY DEF CallInv, RuntimeInv, Unused
  <1>3. RuntimeInv'
    BY DEF CallInv, RuntimeInv, ListenerInv, Unused
  <1>4. ListenerInv'
    BY DEF CallInv, RuntimeInv, ListenerInv, Unused
  <1> QED
    BY <1>1, <1>2, <1>3, <1>4

\* A stop takes the sender of a handle that is out.
LEMMA StopPreserves == ASSUME IInv, NEW h \in Handles, Stop(h) PROVE IInv'
  <1> USE DEF Stop, TakeTx, Goto, call, tasks, IInv, TypeOK, Alive, Ended
  <1>1. TypeOK'
    OBVIOUS
  <1>2. CallInv'
    BY DEF CallInv, RuntimeInv, Unused
  <1>3. RuntimeInv'
    BY DEF CallInv, RuntimeInv, ListenerInv, Unused
  <1>4. ListenerInv'
    BY DEF CallInv, RuntimeInv, ListenerInv, Unused
  <1> QED
    BY <1>1, <1>2, <1>3, <1>4

\* A free begins to drop a handle that is out until it is done.
LEMMA FreePreserves == ASSUME IInv, NEW h \in Handles, Free(h) PROVE IInv'
  <1> USE DEF Free, Goto, call, tasks, IInv, TypeOK, Alive, Ended
  <1>1. TypeOK'
    OBVIOUS
  <1>2. CallInv'
    BY DEF CallInv, RuntimeInv, Unused
  <1>3. RuntimeInv'
    BY DEF CallInv, RuntimeInv, ListenerInv, Unused
  <1>4. ListenerInv'
    BY DEF CallInv, RuntimeInv, ListenerInv, Unused
  <1> QED
    BY <1>1, <1>2, <1>3, <1>4

\* Only a free cancels a task: the one of a failed start has ended.
LEMMA CancelTaskPreserves == ASSUME IInv, CancelTask PROVE IInv'
  <1> USE DEF CancelTask, EndTask, Goto, call, tasks, IInv, TypeOK, Alive, Ended
  <1>1. TypeOK'
    OBVIOUS
  <1>2. CallInv'
    BY DEF CallInv, RuntimeInv, Unused
  <1>3. RuntimeInv'
    BY DEF CallInv, RuntimeInv, ListenerInv, Unused
  <1>4. ListenerInv'
    BY DEF CallInv, RuntimeInv, ListenerInv, Unused
  <1> QED
    BY <1>1, <1>2, <1>3, <1>4

\* A runtime that is dropped has neither tasks nor a listener.
LEMMA DroppedPreserves == ASSUME IInv, Dropped PROVE IInv'
  <1> USE DEF Dropped, Drained, Goto, call, tasks, IInv, TypeOK, Alive, Ended
  <1>1. TypeOK'
    OBVIOUS
  <1>2. CallInv'
    BY DEF CallInv, RuntimeInv, Unused
  <1>3. RuntimeInv'
    BY DEF CallInv, RuntimeInv, ListenerInv, Unused
  <1>4. ListenerInv'
    BY DEF CallInv, RuntimeInv, ListenerInv, Unused
  <1> QED
    BY <1>1, <1>2, <1>3, <1>4

\* A listener belongs to a task that serves.
LEMMA BindPreserves == ASSUME IInv, NEW h \in Handles, Bind(h) PROVE IInv'
  <1> USE DEF Bind, Goto, call, tasks, IInv, TypeOK, Alive, Ended
  <1>1. TypeOK'
    OBVIOUS
  <1>2. CallInv'
    BY DEF CallInv, RuntimeInv, Unused
  <1>3. RuntimeInv'
    BY DEF CallInv, RuntimeInv, ListenerInv, Unused
  <1>4. ListenerInv'
    BY DEF CallInv, RuntimeInv, ListenerInv, Unused
  <1> QED
    BY <1>1, <1>2, <1>3, <1>4

\* A task that ends gives its port back ...
LEMMA TaskEndsPreserves == ASSUME IInv, NEW h \in Handles, TaskEnds(h) PROVE IInv'
  <1> USE DEF TaskEnds, EndTask, Goto, call, tasks, IInv, TypeOK, Alive, Ended
  <1>1. TypeOK'
    OBVIOUS
  <1>2. CallInv'
    BY DEF CallInv, RuntimeInv, Unused
  <1>3. RuntimeInv'
    BY DEF CallInv, RuntimeInv, ListenerInv, Unused
  <1>4. ListenerInv'
    BY DEF CallInv, RuntimeInv, ListenerInv, Unused
  <1> QED
    BY <1>1, <1>2, <1>3, <1>4

\* ... also when it ends because of a stop.
LEMMA StopTaskPreserves == ASSUME IInv, NEW h \in Handles, StopTask(h) PROVE IInv'
  <1> USE DEF StopTask, SeesShutdown, EndTask, Goto, call, tasks, IInv, TypeOK, Alive, Ended
  <1>1. TypeOK'
    OBVIOUS
  <1>2. CallInv'
    BY DEF CallInv, RuntimeInv, Unused
  <1>3. RuntimeInv'
    BY DEF CallInv, RuntimeInv, ListenerInv, Unused
  <1>4. ListenerInv'
    BY DEF CallInv, RuntimeInv, ListenerInv, Unused
  <1> QED
    BY <1>1, <1>2, <1>3, <1>4

\* Only a runtime that serves accepts, so none that is unused does.
LEMMA AcceptPreserves == ASSUME IInv, NEW h \in Handles, NEW c \in Clients, Accept(h, c) PROVE IInv'
  <1> USE DEF Accept, Goto, call, tasks, IInv, TypeOK, Alive, Ended
  <1>1. TypeOK'
    OBVIOUS
  <1>2. CallInv'
    BY DEF CallInv, RuntimeInv, Unused
  <1>3. RuntimeInv'
    BY DEF CallInv, RuntimeInv, ListenerInv, Unused
  <1>4. ListenerInv'
    BY DEF CallInv, RuntimeInv, ListenerInv, Unused
  <1> QED
    BY <1>1, <1>2, <1>3, <1>4

\* A connection ends.
LEMMA ConnectionEndsPreserves == ASSUME IInv, NEW h \in Handles, NEW c \in Clients, ConnectionEnds(h, c) PROVE IInv'
  <1> USE DEF ConnectionEnds, Goto, call, tasks, IInv, TypeOK, Alive, Ended
  <1>1. TypeOK'
    OBVIOUS
  <1>2. CallInv'
    BY DEF CallInv, RuntimeInv, Unused
  <1>3. RuntimeInv'
    BY DEF CallInv, RuntimeInv, ListenerInv, Unused
  <1>4. ListenerInv'
    BY DEF CallInv, RuntimeInv, ListenerInv, Unused
  <1> QED
    BY <1>1, <1>2, <1>3, <1>4

\* Another process is no runtime.
LEMMA OtherListensPreserves == ASSUME IInv, NEW p \in Ports, OtherListens(p) PROVE IInv'
  <1> USE DEF OtherListens, Goto, call, tasks, IInv, TypeOK, Alive, Ended
  <1>1. TypeOK'
    OBVIOUS
  <1>2. CallInv'
    BY DEF CallInv, RuntimeInv, Unused
  <1>3. RuntimeInv'
    BY DEF CallInv, RuntimeInv, ListenerInv, Unused
  <1>4. ListenerInv'
    BY DEF CallInv, RuntimeInv, ListenerInv, Unused
  <1> QED
    BY <1>1, <1>2, <1>3, <1>4

\* Every step preserves the invariant.
LEMMA NextPreserves == IInv /\ [Next]_vars => IInv'
  <1> SUFFICES ASSUME IInv, [Next]_vars PROVE IInv'
    OBVIOUS
  <1>1. CASE Start
    BY <1>1, StartRefusedPreserves, SpawnPreserves, StartFailedPreserves,
       GiveUpWaitingPreserves, ReturnHandlePreserves DEF Start
  <1>2. CASE Finish
    BY <1>2, CancelTaskPreserves, DroppedPreserves DEF Finish
  <1>3. CASE Environment
    BY <1>3, OtherListensPreserves DEF Environment
  <1>4. ASSUME NEW h \in Handles, Stop(h) \/ Free(h) PROVE IInv'
    BY <1>4, StopPreserves, FreePreserves
  <1>5. ASSUME NEW h \in Handles, Tasks(h) PROVE IInv'
    BY <1>5, BindPreserves, TaskEndsPreserves, StopTaskPreserves, AcceptPreserves,
       ConnectionEndsPreserves DEF Tasks
  <1>6. CASE UNCHANGED vars
    BY <1>6 DEF vars, call, tasks, IInv, TypeOK, CallInv, RuntimeInv, ListenerInv, Unused
  <1> QED
    BY <1>1, <1>2, <1>3, <1>4, <1>5, <1>6 DEF Next

\* The invariant of the shim's runtimes holds in every reachable state.
THEOREM Inductive == Spec => []IInv
  <1>1. IInv /\ [Next]_vars => IInv'
    BY NextPreserves
  <1> QED
    BY InitIInv, <1>1, PTL DEF Spec

\* When no call is in progress with it, a runtime that is not out has no task,
\* no connection and no listener.
THEOREM NothingRunsAfterFree == Spec => []QuietAfterFree
  <1>1. IInv => QuietAfterFree
    <2> SUFFICES ASSUME IInv PROVE QuietAfterFree
      OBVIOUS
    <2>1. \A h \in Handles : h \notin out /\ h # runtime => Unused(h)
      BY DEF IInv, RuntimeInv
    <2>2. ASSUME NEW p \in Ports PROVE port[p] \in out \cup {runtime, "other", None}
      <3>1. CASE port[p] \in Handles
        BY <3>1, <2>1 DEF IInv, ListenerInv, Unused
      <3> QED
        BY <3>1 DEF IInv, TypeOK
    <2> QED
      BY <2>1, <2>2 DEF QuietAfterFree
  <1> QED
    BY <1>1, Inductive, PTL

-----------------------------------------------------------------------------
(* The runtimes of the shim implement NativeServer.                        *)

\* What a caller sees: the state of every handle and the last reply.
Seen == [h \in Handles |-> ServerState(h)]
Said == IF reply \in {"refused", "exited", "panicked"} THEN "failed" ELSE reply

\* Starting: nothing is seen of a new runtime until its handle is returned.
LEMMA StartImplements ==
  ASSUME IInv, Start PROVE Native!Next \/ UNCHANGED <<Seen, Said>>
  <1> USE DEF IInv, TypeOK, call, tasks, Goto
  <1>1. CASE StartRefused
    BY <1>1 DEF StartRefused, Native!Next, Native!StartFails, Seen, Said, ServerState
  <1>2. ASSUME NEW h \in Handles, NEW p \in Ports, Spawn(h, p) PROVE UNCHANGED <<Seen, Said>>
    <2>1. h \notin out
      BY <1>2 DEF Spawn, RuntimeInv, Unused
    <2> QED
      BY <1>2, <2>1 DEF Spawn, Seen, Said, ServerState
  <1>3. CASE StartFailed \/ GiveUpWaiting
    BY <1>3 DEF StartFailed, GiveUpWaiting, Seen, Said, ServerState
  <1>4. CASE ReturnHandle
    <2>1. PICK h \in Handles : h = runtime /\ h \notin out /\ tx[h] # "taken"
      BY <1>4 DEF ReturnHandle, CallInv, RuntimeInv
    <2> DEFINE s == IF task[h] \in Ended THEN "exited" ELSE "running"
    <2>2. h \in out' /\ tx'[h] # "taken" /\ task' = task
      BY <1>4, <2>1 DEF ReturnHandle
    <2>3. ServerState(h)' = s
      BY <2>2 DEF ServerState
    <2>4. Seen' = [Seen EXCEPT ![h] = s]
      BY <1>4, <2>1, <2>3 DEF ReturnHandle, Seen, ServerState
    <2>5. Seen[h] = "free" /\ Said' = "handle"
      BY <1>4, <2>1 DEF ReturnHandle, Seen, Said, ServerState
    <2> QED
      BY <2>1, <2>4, <2>5 DEF Native!Next, Native!Start, Seen, Said
  <1> QED
    BY <1>1, <1>2, <1>3, <1>4 DEF Start

\* A stop is seen at once, a free when it has returned.
LEMMA StopImplements ==
  ASSUME IInv, NEW h \in Handles, Stop(h) PROVE Native!Next
  <1> USE DEF IInv, TypeOK, call, tasks, Stop
  <1>1. h \in out /\ tx[h] \in {"held", "taken"}
    BY DEF RuntimeInv
  <1>2. CASE tx[h] = "held"
    <2>1. Seen' = [Seen EXCEPT ![h] = "signalled"] /\ Said' = "stopped"
      BY <1>1, <1>2 DEF TakeTx, Seen, Said, ServerState
    <2>2. Seen[h] \in {"running", "exited"}
      BY <1>1, <1>2 DEF Seen, ServerState
    <2> QED
      BY <2>1, <2>2 DEF Native!Next, Native!Stop, Seen, Said
  <1>3. CASE tx[h] = "taken"
    <2>1. Seen' = Seen /\ Said' = "alreadyStopped" /\ Seen[h] = "signalled"
      BY <1>1, <1>3 DEF Seen, Said, ServerState
    <2> QED
      BY <2>1 DEF Native!Next, Native!StopAgain, Seen, Said
  <1> QED
    BY <1>1, <1>2, <1>3

\* What a start that failed had made was never seen.
LEMMA DroppedImplements ==
  ASSUME IInv, Dropped PROVE Native!Next
  <1> USE DEF IInv, TypeOK, call, tasks, Dropped, Goto
  <1>1. runtime \in Handles
    BY DEF CallInv
  <1>2. CASE runtime \in out
    <2>1. Seen' = [Seen EXCEPT ![runtime] = "free"] /\ Said' = "freed"
      BY <1>1, <1>2 DEF Seen, Said, ServerState
    <2>2. Seen[runtime] # "free"
      BY <1>1, <1>2 DEF Seen, ServerState
    <2> QED
      BY <1>1, <2>1, <2>2 DEF Native!Next, Native!Free, Seen, Said
  <1>3. CASE runtime \notin out
    <2>1. Seen' = Seen
      BY <1>1, <1>3 DEF Seen, ServerState
    <2>2. Said' = "failed"
      BY <1>1, <1>3 DEF Said, CallInv
    <2> QED
      BY <2>1, <2>2 DEF Native!Next, Native!StartFails, Seen, Said
  <1> QED
    BY <1>2, <1>3

\* A task that ends before a stop is seen as an exit, any other as nothing.
LEMMA EndTaskImplements ==
  ASSUME IInv, NEW h \in Handles, task[h] \in Alive, NEW how \in Ended, EndTask(h, how),
         UNCHANGED <<out, tx, reply>>
  PROVE  Native!Next \/ UNCHANGED <<Seen, Said>>
  <1> USE DEF IInv, TypeOK, EndTask
  <1>1. CASE h \in out /\ tx[h] # "taken"
    <2>1. Seen' = [Seen EXCEPT ![h] = "exited"] /\ Said' = Said
      BY <1>1 DEF Seen, Said, ServerState
    <2>2. Seen[h] = "running"
      BY <1>1 DEF Seen, ServerState, Alive, Ended
    <2> QED
      BY <2>1, <2>2 DEF Native!Next, Native!Exit, Seen, Said
  <1>2. CASE ~(h \in out /\ tx[h] # "taken")
    BY <1>2 DEF Seen, Said, ServerState
  <1> QED
    BY <1>1, <1>2

\* The tasks are seen only when they end.
LEMMA TasksImplement ==
  ASSUME IInv, NEW h \in Handles, Tasks(h)
  PROVE  Native!Next \/ UNCHANGED <<Seen, Said>>
  <1> USE DEF IInv, TypeOK, call, tasks
  <1>1. CASE Bind(h)
    BY <1>1 DEF Bind, Seen, Said, ServerState, Ended
  <1>2. CASE TaskEnds(h)
    BY <1>2, EndTaskImplements DEF TaskEnds, Ended
  <1>3. CASE StopTask(h)
    BY <1>3, EndTaskImplements DEF StopTask, SeesShutdown, Ended
  <1>4. ASSUME NEW c \in Clients, Accept(h, c) \/ ConnectionEnds(h, c)
        PROVE  UNCHANGED <<Seen, Said>>
    BY <1>4 DEF Accept, ConnectionEnds, Seen, Said, ServerState
  <1> QED
    BY <1>1, <1>2, <1>3, <1>4 DEF Tasks

\* Whatever the tasks do meanwhile, the shim keeps its promise about handles
\* and replies.
THEOREM Refinement == Spec => ServerContract
  <1>1. Init => Native!Init
    BY DEF Init, Native!Init, ServerState
  <1>2. IInv /\ [Next]_vars => [Native!Next]_<<Seen, Said>>
    <2> SUFFICES ASSUME IInv, [Next]_vars
                 PROVE  Native!Next \/ UNCHANGED <<Seen, Said>>
      OBVIOUS
    <2>1. CASE Start
      BY <2>1, StartImplements
    <2>2. CASE CancelTask
      <3>1. runtime \in Handles
        BY <2>2 DEF CancelTask, IInv, TypeOK, CallInv
      <3> QED
        BY <2>2, <3>1, EndTaskImplements DEF CancelTask, Ended, call
    <2>3. CASE Dropped
      BY <2>3, DroppedImplements
    <2>4. ASSUME NEW h \in Handles, Stop(h) \/ Tasks(h)
          PROVE  Native!Next \/ UNCHANGED <<Seen, Said>>
      BY <2>4, StopImplements, TasksImplement
    <2>5. ASSUME NEW h \in Handles, Free(h) PROVE UNCHANGED <<Seen, Said>>
      BY <2>5 DEF Free, tasks, Seen, Said, ServerState
    <2>6. CASE Environment \/ UNCHANGED vars
      BY <2>6 DEF Environment, OtherListens, vars, call, tasks, Seen, Said, ServerState
    <2> QED
      BY <2>1, <2>2, <2>3, <2>4, <2>5, <2>6 DEF Next, Finish
  <1>3. IInv /\ [Next]_vars => [Native!Next]_<<[h \in Handles |-> ServerState(h)],
          IF reply \in {"refused", "exited", "panicked"} THEN "failed" ELSE reply>>
    BY <1>2 DEF Seen, Said
  <1> QED
    BY <1>1, <1>3, Inductive, PTL DEF Spec, ServerContract, Native!Spec
=============================================================================
