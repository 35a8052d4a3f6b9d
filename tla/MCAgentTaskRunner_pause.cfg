SPECIFICATION Spec
CONSTANTS
  p1 = p1
  p2 = p2
  None = None
  Ops <- Slots
  MaxRounds = 1
  RoundBound = 1
  ShowerInterval = 0
  MaxDropouts = 1
  UserOps = {"start", "stop", "resume"}
  StartStates = {"idle"}
  Faults = {"unwatched", "session"}
SYMMETRY SlotSym
INVARIANTS OneVerdictPass
CHECK_DEADLOCK FALSE
