SPECIFICATION Spec
CONSTANTS
  c1 = c1
  c2 = c2
  h1 = h1
  h2 = h2
  None = None
  Callers <- MCCallers
  Handles <- MCHandles
  Configs = {k1, k2}
  GC = gc
SYMMETRY MCSymmetry
INVARIANTS
  NoCallOnFreedHandle
  OneRuntime
  NoOrphanRuntime
  SnapshotMatches
  FinalClose
  FailedRestartLeavesStopped
  RestartAttempted
  AddressIsCurrent
  CollectedFreesAll
PROPERTIES
  DirectoryHandover
