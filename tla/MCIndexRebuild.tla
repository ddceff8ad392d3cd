--------------------------- MODULE MCIndexRebuild ---------------------------
(* A small instance of IndexRebuild for TLC.                               *)
EXTENDS IndexRebuild, TLC

CONSTANTS i1, i2, p1, p2

MCIds == {i1, i2}
MCSymmetry == Permutations(MCIds) \cup Permutations({p1, p2})
=============================================================================
