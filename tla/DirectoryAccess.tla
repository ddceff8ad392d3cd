--------------------------- MODULE DirectoryAccess ---------------------------
(***************************************************************************)
(* What the managed server promises about its persistence directory: it is *)
(* used either by the running service or by one exclusive session (a       *)
(* backup copy, or a temporary embedded runtime), and it changes hands     *)
(* only through an instant at which nobody uses it.                        *)
(***************************************************************************)
CONSTANTS
  Service,   \* the managed server's native runtime
  Sessions   \* callers that may open an exclusive session

VARIABLE accessors   \* the parties whose runtime or copy has the directory open

Init == accessors = {Service}

Acquire(a) == accessors = {} /\ accessors' = {a}

Release(a) == accessors = {a} /\ accessors' = {}

Next == \E a \in Sessions \cup {Service} : Acquire(a) \/ Release(a)

Spec == Init /\ [][Next]_accessors
=============================================================================
