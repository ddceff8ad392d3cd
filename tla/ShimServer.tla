----------------------------- MODULE ShimServer -----------------------------
(***************************************************************************)
(* The server runtimes of the shim (shim/src/lib.rs): chroma_server_start, *)
(* _start_from_string, _stop and _free, and the tokio tasks that run in    *)
(* the background of those calls: one server task per runtime and one task *)
(* per client connection.                                                  *)
(*                                                                         *)
(* A wrapper makes one call at a time (ffiMu in Go, the FFI lock in Java), *)
(* so there is one call in progress, in pc; the tasks interleave with it.  *)
(* The listening socket and the connection tasks belong to upstream code.  *)
(***************************************************************************)

CONSTANTS
  Handles,   \* runtimes; the address of a freed handle is used again
  Ports,     \* ports a configuration may ask for
  Clients,   \* HTTP clients
  None

ASSUME NoneAssumption == None \notin Handles /\ "other" \notin Handles

VARIABLES
  pc,       \* where the call in progress is, "idle" between calls
  runtime,  \* the runtime the call in progress builds or drops
  reply,    \* reply to the last call that has returned
  out,      \* handles that were returned and have not been freed
  task,     \* the server task of every runtime
  tx,       \* shutdown_tx: "held", or "taken" by a stop
  asked,    \* the port in the configuration of a runtime
  conns,    \* clients whose connection task runs on a runtime
  port      \* who listens on a port: a runtime, "other", or None

call  == <<pc, runtime>>
tasks == <<task, conns, port>>
vars  == <<call, reply, out, tasks, tx, asked>>

Alive == {"starting", "serving"}
Ended == {"exited", "panicked", "shutdown"}

\* Nothing of the runtime is left.
Unused(h) == task[h] = "none" /\ conns[h] = {} /\ tx[h] = "none"

Goto(l) == pc' = l

\* The listener is dropped with the server task.
EndTask(h, how) ==
  /\ task' = [task EXCEPT ![h] = how]
  /\ port' = [p \in Ports |-> IF port[p] = h THEN None ELSE port[p]]

Init ==
  /\ pc = "idle" /\ runtime = None /\ reply = "none"
  /\ out = {}
  /\ task = [h \in Handles |-> "none"]
  /\ tx = [h \in Handles |-> "none"]
  /\ asked = [h \in Handles |-> None]
  /\ conns = [h \in Handles |-> {}]
  /\ port = [p \in Ports |-> None]

-----------------------------------------------------------------------------
(* Start, from a file or from a string.                                    *)

\* The configuration does not parse, or the runtime, the storage paths or one
\* of the C strings cannot be made: nothing has been spawned.
StartRefused ==
  /\ pc = "idle"
  /\ reply' = "refused"
  /\ UNCHANGED <<call, out, tasks, tx, asked>>

Spawn(h, p) ==
  /\ pc = "idle"
  /\ Unused(h)
  /\ runtime' = h
  /\ task' = [task EXCEPT ![h] = "starting"]
  /\ tx' = [tx EXCEPT ![h] = "held"]
  /\ asked' = [asked EXCEPT ![h] = p]
  /\ Goto("wait")
  /\ UNCHANGED <<reply, out, conns, port>>

\* The wait of 250 ms looks at the task before it looks at the clock.
StartFailed ==
  /\ pc = "wait" /\ task[runtime] \in Ended
  /\ Goto("drop")
  /\ UNCHANGED <<runtime, reply, out, tasks, tx, asked>>

StartTimesOut_M == FALSE
StartTimesOut == task[runtime] \in Alive

\* The task counts as healthy from here on, although it may end before the
\* call returns, and at any time after.
GiveUpWaiting ==
  /\ pc = "wait" /\ StartTimesOut
  /\ Goto("return")
  /\ UNCHANGED <<runtime, reply, out, tasks, tx, asked>>

ReturnHandle ==
  /\ pc = "return"
  /\ out' = out \cup {runtime}
  /\ runtime' = None
  /\ reply' = "handle"
  /\ Goto("idle")
  /\ UNCHANGED <<tasks, tx, asked>>

-----------------------------------------------------------------------------
(* Stop and free.                                                          *)

\* The result of the send is ignored: the task may be gone already.
TakeTx_M(h) == UNCHANGED tx
TakeTx(h) == tx' = [tx EXCEPT ![h] = "taken"]

Stop(h) ==
  /\ pc = "idle" /\ h \in out
  /\ IF tx[h] = "held"
       THEN TakeTx(h) /\ reply' = "stopped"
       ELSE UNCHANGED tx /\ reply' = "alreadyStopped"
  /\ UNCHANGED <<call, out, tasks, asked>>

Free(h) ==
  /\ pc = "idle" /\ h \in out
  /\ runtime' = h
  /\ Goto("drop")
  /\ UNCHANGED <<reply, out, tasks, tx, asked>>

\* Dropping the tokio runtime cancels every task where it next yields, and
\* waits for all of them; a start that failed drops its runtime too.
CancelTask ==
  /\ pc = "drop" /\ task[runtime] \in Alive
  /\ EndTask(runtime, "shutdown")
  /\ UNCHANGED <<call, reply, out, conns, tx, asked>>

Drained_M(h) == task[h] \in Ended
Drained(h) == task[h] \in Ended /\ conns[h] = {}

Dropped ==
  /\ pc = "drop" /\ Drained(runtime)
  /\ reply' = IF runtime \in out THEN "freed" ELSE task[runtime]
  /\ out' = out \ {runtime}
  /\ task' = [task EXCEPT ![runtime] = "none"]
  /\ tx' = [tx EXCEPT ![runtime] = "none"]
  /\ runtime' = None
  /\ Goto("idle")
  /\ asked' = [asked EXCEPT ![runtime] = None]
  /\ UNCHANGED <<conns, port>>

-----------------------------------------------------------------------------
(* The tasks.                                                              *)

\* External: the listener is bound, unless someone else has the port.
Bind(h) ==
  /\ task[h] = "starting" /\ port[asked[h]] = None
  /\ task' = [task EXCEPT ![h] = "serving"]
  /\ port' = [port EXCEPT ![asked[h]] = h]
  /\ UNCHANGED <<call, reply, out, conns, tx, asked>>

\* External: the entry point returns or panics, for one because the port is
\* taken; early, late or never.
TaskEnds(h) ==
  /\ task[h] \in Alive
  /\ \E how \in {"exited", "panicked"} : EndTask(h, how)
  /\ UNCHANGED <<call, reply, out, conns, tx, asked>>

\* The biased select looks for the shutdown signal before it polls the entry
\* point, however far that has come.
SeesShutdown_M(h) == task[h] = "serving"
SeesShutdown(h) == task[h] \in Alive

StopTask(h) ==
  /\ tx[h] = "taken" /\ SeesShutdown(h)
  /\ EndTask(h, "shutdown")
  /\ UNCHANGED <<call, reply, out, conns, tx, asked>>

\* External: a connection has a task of its own, which a stop does not end.
Accept(h, c) ==
  /\ task[h] = "serving" /\ ~(pc = "drop" /\ runtime = h)
  /\ conns' = [conns EXCEPT ![h] = @ \cup {c}]
  /\ UNCHANGED <<call, reply, out, task, port, tx, asked>>

ConnectionEnds(h, c) ==
  /\ c \in conns[h]
  /\ conns' = [conns EXCEPT ![h] = @ \ {c}]
  /\ UNCHANGED <<call, reply, out, task, port, tx, asked>>

\* The part of ConnectionEnds the runtime itself brings about.
CancelConnection(c) == pc = "drop" /\ ConnectionEnds(runtime, c)

-----------------------------------------------------------------------------
(* The environment: another process uses a port.                          *)

OtherListens(p) ==
  /\ \/ port[p] = None /\ port' = [port EXCEPT ![p] = "other"]
     \/ port[p] = "other" /\ port' = [port EXCEPT ![p] = None]
  /\ UNCHANGED <<call, reply, out, task, conns, tx, asked>>

Start ==
  \/ StartRefused \/ StartFailed \/ GiveUpWaiting \/ ReturnHandle
  \/ \E h \in Handles, p \in Ports : Spawn(h, p)

Finish == CancelTask \/ Dropped

Tasks(h) ==
  \/ Bind(h) \/ TaskEnds(h) \/ StopTask(h)
  \/ \E c \in Clients : Accept(h, c) \/ ConnectionEnds(h, c)

Environment == \E p \in Ports : OtherListens(p)

Next ==
  \/ Start \/ Finish \/ Environment
  \/ \E h \in Handles : Stop(h) \/ Free(h) \/ Tasks(h)

\* A call that has begun goes on, tokio polls tasks that have been woken, and
\* a poll comes back.  Nothing makes the entry point get anywhere, nothing
\* makes a client hang up, and nobody has to call anything.
Fairness ==
  /\ WF_vars(StartFailed \/ GiveUpWaiting) /\ WF_vars(ReturnHandle)
  /\ WF_vars(Finish) /\ \A c \in Clients : WF_vars(CancelConnection(c))
  /\ \A h \in Handles : WF_vars(StopTask(h))

Spec == Init /\ [][Next]_vars /\ Fairness

-----------------------------------------------------------------------------
(* Properties.                                                             *)

\* What a caller sees of a handle.
ServerState(h) ==
  IF h \notin out THEN "free"
  ELSE IF tx[h] = "taken" THEN "signalled"
  ELSE IF task[h] \in Ended THEN "exited"
  ELSE "running"

Native == INSTANCE NativeServer WITH
  server <- [h \in Handles |-> ServerState(h)],
  reply <- IF reply \in {"refused", "exited", "panicked"} THEN "failed" ELSE reply

\* The shim keeps its promise about handles and replies (doc comments of
\* chroma_server_start, _stop and _free): a handle is good until it is freed,
\* the first stop succeeds even when the server task has ended by itself, and
\* only the first one; a start that returns NULL changes no handle.
ServerContract == Native!Spec

\* Once free has returned, or start has returned NULL, no task of that runtime
\* runs: nothing serves a request or writes to the directory, and the port can
\* be bound by a successor that uses the same configuration.
QuietAfterFree ==
  /\ \A h \in Handles : h \notin out /\ h # runtime => Unused(h)
  /\ \A p \in Ports : port[p] \in out \cup {runtime, "other", None}

\* A stopped server ends, even one whose entry point never gets to serve.
StopTakesEffect == \A h \in Handles : tx[h] = "taken" ~> task[h] \notin Alive

\* Every call returns, although a server that starts gives no sign of being
\* ready and may never end, and although clients never hang up.
CallsReturn == pc # "idle" ~> pc = "idle"

-----------------------------------------------------------------------------
(* The inductive invariant behind QuietAfterFree and ServerContract.       *)

\* Every variable keeps its type.
TypeOK ==
  /\ pc \in {"idle", "wait", "return", "drop"}
  /\ runtime \in Handles \cup {None}
  /\ reply \in {"none", "refused", "handle", "stopped", "alreadyStopped", "freed"} \cup Ended
  /\ out \subseteq Handles
  /\ task \in [Handles -> {"none"} \cup Alive \cup Ended]
  /\ tx \in [Handles -> {"none", "held", "taken"}]
  /\ asked \in [Handles -> Ports \cup {None}]
  /\ conns \in [Handles -> SUBSET Clients]
  /\ port \in [Ports -> Handles \cup {"other", None}]

\* A runtime that is being started has not been handed out, and one that is
\* given up during a start has ended by itself.
CallInv ==
  /\ (pc = "idle") <=> (runtime = None)
  /\ pc \in {"wait", "return"} => runtime \notin out
  /\ pc = "drop" /\ runtime \notin out => task[runtime] \in {"exited", "panicked"}

\* A runtime exists exactly while it is out or the call in progress has it.
RuntimeInv ==
  \A h \in Handles :
    /\ h \in out \/ h = runtime => task[h] # "none" /\ tx[h] # "none"
    /\ h \notin out /\ h # runtime => Unused(h)
    /\ h \notin out => tx[h] # "taken"
    /\ task[h] = "shutdown" => h \in out

ListenerInv == \A p \in Ports : port[p] \in Handles => task[port[p]] = "serving"

IInv == TypeOK /\ CallInv /\ RuntimeInv /\ ListenerInv
=============================================================================
