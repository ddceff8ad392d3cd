SPECIFICATION FairSpec
CONSTANTS
  c1 = c1
  c2 = c2
  h1 = h1
  h2 = h2
  GC = gc
  None = None
  Callers <- MCCallers
  Handles <- MCHandles
  Configs = {k1}
PROPERTIES
  OperationsFinish
