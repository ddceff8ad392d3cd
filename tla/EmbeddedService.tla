--------------------------- MODULE EmbeddedService ---------------------------
(***************************************************************************)
(* What the in-process client promises to its callers: a call is answered  *)
(* once, by the service as it is at one instant.  It succeeds only on a    *)
(* service that is open and sound; it learns that the service is closed    *)
(* only when it is; and the error it gets is its own.                      *)
(***************************************************************************)
CONSTANTS Callers, NoError

VARIABLES
  status,  \* "open", "broken" by a panic, or "closed"
  answer,  \* the answer to every caller's last call, "none" while it waits
  said     \* caller whose error the answer carries

Init ==
  /\ status = "open"
  /\ answer = [p \in Callers |-> "none"]
  /\ said = [p \in Callers |-> NoError]

Ask(p) ==
  /\ answer' = [answer EXCEPT ![p] = "none"]
  /\ said' = [said EXCEPT ![p] = NoError]
  /\ UNCHANGED status

Reply(p, a, e) ==
  /\ answer[p] = "none"
  /\ answer' = [answer EXCEPT ![p] = a]
  /\ said' = [said EXCEPT ![p] = e]
  /\ UNCHANGED status

Answer(p) ==
  \/ status = "open" /\ Reply(p, "ok", NoError)
  \/ status = "closed" /\ Reply(p, "closed", NoError)
  \/ status # "closed" /\ Reply(p, "rejected", NoError)
  \/ status # "closed" /\ Reply(p, "failed", p)

Change ==
  /\ \/ status = "open" /\ status' = "broken"
     \/ status # "closed" /\ status' = "closed"
     \/ status = "closed" /\ status' = "open"
  /\ UNCHANGED <<answer, said>>

Next == Change \/ \E p \in Callers : Ask(p) \/ Answer(p)

Spec == Init /\ [][Next]_<<status, answer, said>>
=============================================================================
