SPECIFICATION Spec
CONSTANTS
  c1 = c1
  c2 = c2
  Collections = {c1, c2}
  DefaultDb = {c1}
  Segments = {"metadata", "vector"}
  Vector = "vector"
  Requests <- ScopeRequests
  Sizes = {1}
  MaxSeq = 3
  MaxTime = 0
  Epoch <- MCEpoch
  None = None
INVARIANTS
  OmittedScopeIsDefault
