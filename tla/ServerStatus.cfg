SPECIFICATION FairSpec
CONSTANTS
  p1 = p1
  p2 = p2
  portA = portA
  None = None
  Pids <- MCTwo
  Ports <- MCPort
  Overlap = FALSE
  MaxStarts = 3
INVARIANTS
  TypeOK
  SingleServer
  ReadyTellsTruth
  ScanDoneIsSaved
PROPERTIES
  ClaimStands
  SignalledStops
CHECK_DEADLOCK FALSE
