SPECIFICATION Spec
CONSTANTS
  b1 = b1
  b2 = b2
  b3 = b3
  missing = missing
  Backups <- AllBackups
  Names <- AllNames
  Trees <- AllTrees
  Missing = missing
SYMMETRY Sym
INVARIANTS
  ManifestIsTrue
  OneWriterWins
CHECK_DEADLOCK FALSE
