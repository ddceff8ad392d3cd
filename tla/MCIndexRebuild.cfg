SPECIFICATION Spec
CONSTANTS
  i1 = i1
  i2 = i2
  p1 = p1
  p2 = p2
  Ids <- MCIds
  Payloads = {p1, p2}
  Lost = Lost
  MaxRuns = 2
  MaxTotal = 3
  None = None
SYMMETRY MCSymmetry
INVARIANTS
  IndexSurvives
  NextLabelIsFree
  CacheIsCurrent
  NoTempLeft
PROPERTIES
  ErrorKeepsIndex
  RebuiltIsComplete
