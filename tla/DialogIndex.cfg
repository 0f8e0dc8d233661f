SPECIFICATION Spec
CONSTANTS
  d1 = d1
  d2 = d2
  d3 = d3
  None = None
  Ids <- MCIds
  MaxBusy = 1
  MaxFaults = 2
SYMMETRY MCSymmetry
INVARIANTS
  TypeOK
  CurrentListed
  IndexMatchesDisk
  ListedIsWhole
PROPERTIES
  NoUpdateLost
CHECK_DEADLOCK FALSE
