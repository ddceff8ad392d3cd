SPECIFICATION Spec
CONSTANTS
  t1 = t1
  t2 = t2
  t3 = t3
  s1 = s1
  s2 = s2
  s3 = s3
  h1 = h1
  h2 = h2
  None = None
  Threads <- ThreeThreads
  Sessions <- MCSessions
  Handles <- MCHandles
SYMMETRY MCSymmetry
INVARIANTS
  LifecycleCallsLive
  OpenMeansAlive
  ClosedMeansFreed
  BackupRestarts
PROPERTIES
  DirectoryHandover
