SPECIFICATION PagingSpec
CONSTANTS
  MaxRows = 6
  MaxBlocks = 1
  MaxTurns = 2
  MaxLost = 1
  MaxLimit = 2
  Null = Null
INVARIANTS
  PagingTypeOK
  PositionsAgree
  PagesTile
  CallsComeAlong
  EventsCounted
  TurnsInOrder
CHECK_DEADLOCK FALSE
