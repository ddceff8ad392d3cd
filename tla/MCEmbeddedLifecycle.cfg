SPECIFICATION Spec
CONSTANTS
  c1 = c1
  c2 = c2
  c3 = c3
  h1 = h1
  h2 = h2
  None = None
  GC = gc
  Callers <- MCCallers
  Handles <- MCHandles
  MaxWrites = 2
SYMMETRY MCSymmetry
INVARIANTS
  NoCallOnFreedHandle
  ErrorIsOwn
  SlotIsClean
  NoOrphanRuntime
PROPERTIES
  ServiceContract
