-------------------------- MODULE MCServerLifecycle --------------------------
(***************************************************************************)
(* Small instances of ServerLifecycle for TLC.                             *)
(***************************************************************************)
EXTENDS ServerLifecycle, TLC

CONSTANTS c1, c2, h1, h2

MCCallers == {c1, c2}
MCHandles == {h1, h2}

\* Callers and handles are interchangeable (used without liveness only).
MCSymmetry == Permutations(MCCallers) \cup Permutations(MCHandles)
=============================================================================
