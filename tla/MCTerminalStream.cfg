SPECIFICATION FairSpec
CONSTANTS
  MaxOutputs = 2
  Kept = 1
  MaxMoves = 3
  None = None
INVARIANTS TypeOK NothingMissing
PROPERTIES Followed
CHECK_DEADLOCK FALSE
