SPECIFICATION Spec
CONSTANTS
  p1 = p1
  a = a
  b = b
  blank = blank
  w1 = w1
  s1 = s1
  Loop = loop
  Blank = blank
  Absent = Absent
  None = None
  Paths <- MCPaths
  Contents <- MCContents
  Size <- MCSize
  Workers <- MCWorkers
  Syncs <- MCSync
  MaxClock = 3
  MaxQueue = 1
SYMMETRY MCSymmetry
INVARIANTS
  TypeOK
  SkipIsRight
  KeptIndexed
PROPERTIES
  SyncRepairs
CHECK_DEADLOCK FALSE
