---------------------------- MODULE NativeServer ----------------------------
(***************************************************************************)
(* What the shim promises its callers about server handles: the four       *)
(* states a handle goes through, and what a caller may conclude from every *)
(* reply.  ServerLifecycle and JavaSessions are written against this.      *)
(***************************************************************************)
CONSTANTS Handles

VARIABLES
  server,   \* state of every handle
  reply     \* reply to the last call that has returned

States == {"free", "running", "exited", "signalled"}

Init == server = [h \in Handles |-> "free"] /\ reply = "none"

\* The server may have ended since the wait for an early end was given up.
Start(h) ==
  /\ server[h] = "free"
  /\ \E s \in {"running", "exited"} : server' = [server EXCEPT ![h] = s]
  /\ reply' = "handle"

StartFails == reply' = "failed" /\ UNCHANGED server

Exit(h) ==
  /\ server[h] = "running"
  /\ server' = [server EXCEPT ![h] = "exited"]
  /\ UNCHANGED reply

Stop(h) ==
  /\ server[h] \in {"running", "exited"}
  /\ server' = [server EXCEPT ![h] = "signalled"]
  /\ reply' = "stopped"

StopAgain(h) == server[h] = "signalled" /\ reply' = "alreadyStopped" /\ UNCHANGED server

Free(h) ==
  /\ server[h] # "free"
  /\ server' = [server EXCEPT ![h] = "free"]
  /\ reply' = "freed"

Next ==
  \/ StartFails
  \/ \E h \in Handles : Start(h) \/ Exit(h) \/ Stop(h) \/ StopAgain(h) \/ Free(h)

Spec == Init /\ [][Next]_<<server, reply>>
=============================================================================
