SPECIFICATION Spec
CONSTANTS
  p1 = p1
  p2 = p2
  None = None
  Ops <- Slots
  MaxRounds = 2
  RoundBound = 1
  ShowerInterval = 0
  MaxDropouts = 1
  UserOps = {"start", "stop", "resume"}
  StartStates = {"idle"}
  Faults = {}
SYMMETRY SlotSym
INVARIANTS VerdictSpentOnce
CHECK_DEADLOCK FALSE
