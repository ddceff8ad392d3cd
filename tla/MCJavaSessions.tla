--------------------------- MODULE MCJavaSessions ---------------------------
(* Small instances of JavaSessions for TLC.                                *)
EXTENDS JavaSessions, TLC

CONSTANTS t1, t2, t3, s1, s2, s3, h1, h2

MCThreads == {t1, t2}
ThreeThreads == {t1, t2, t3}
MCSessions == {s1, s2, s3}
MCHandles == {h1, h2}

\* Threads, sessions and handles are interchangeable.
MCSymmetry == Permutations(Threads) \cup Permutations(MCSessions) \cup Permutations(MCHandles)
=============================================================================
