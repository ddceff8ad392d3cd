SPECIFICATION Spec
CONSTANTS
  c1 = c1
  c2 = c2
  Collections = {c1, c2}
  DefaultDb = {c1}
  Segments = {"metadata", "vector"}
  Vector = "vector"
  Requests <- AllRequests
  Sizes = {1, 2}
  MaxSeq = 3
  MaxTime = 2
  Epoch <- MCEpoch
  None = None
CONSTRAINT
  Focus
INVARIANTS
  Recoverable
  PrunedIsOldEnough
  PrunedIsNeeded
  ReportIsTrue
  ErrorDeletesNothing
