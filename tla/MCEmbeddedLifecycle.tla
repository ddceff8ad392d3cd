------------------------- MODULE MCEmbeddedLifecycle -------------------------
(* A small instance of EmbeddedLifecycle for TLC.                          *)
EXTENDS EmbeddedLifecycle, TLC

CONSTANTS c1, c2, c3, h1, h2

MCCallers == {c1, c2, c3}
MCHandles == {h1, h2}

\* Callers and handles are interchangeable.
MCSymmetry == Permutations(MCCallers) \cup Permutations(MCHandles)
=============================================================================
