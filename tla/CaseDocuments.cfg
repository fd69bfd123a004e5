SPECIFICATION Spec
CONSTANTS
  Tasks = {t1}
  Names = {n1, n2}
  MaxFiles = 2
  Requests = {r1, r2}
  MaxCalls = 3
  MaxVersions = 2
  MaxTicks = 1
  MaxPhases = 2
  MayBreak = TRUE
SYMMETRY RequestSymmetry
INVARIANTS
  FilesIntact
  RowFollows
PROPERTIES
  FilesKept
  StaysLocked
CHECK_DEADLOCK FALSE
