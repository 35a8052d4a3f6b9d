SPECIFICATION Spec
CONSTANTS
  p1 = p1
  p2 = p2
  None = None
  Ops <- Slots
  MaxRounds = 1
  RoundBound = 2
  ShowerInterval = 0
  MaxDropouts = 1
  UserOps = {"start", "resend", "reject"}
  StartStates = {"idle"}
  Faults = {"disk", "write", "shell", "unwatched"}
SYMMETRY SlotSym
INVARIANTS TypeOK ChipsMatchRounds
PROPERTIES ImplementsLoop
CHECK_DEADLOCK FALSE
