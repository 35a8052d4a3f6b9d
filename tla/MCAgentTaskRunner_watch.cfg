SPECIFICATION FairSpec
CONSTANTS
  p1 = p1
  p2 = p2
  None = None
  Ops <- Slots
  MaxRounds = 2
  RoundBound = 2
  ShowerInterval = 2
  MaxDropouts = 1
  UserOps = {"start", "reject"}
  StartStates = {"idle"}
  Faults = {"lost", "disk"}
PROPERTIES LostHookCovered
CHECK_DEADLOCK FALSE
