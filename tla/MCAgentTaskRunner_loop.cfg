SPECIFICATION Spec
CONSTANTS
  p1 = p1
  p2 = p2
  None = None
  Ops <- Slots
  MaxRounds = 2
  RoundBound = 2
  ShowerInterval = 0
  MaxDropouts = 1
  UserOps = {"start", "stop", "reset", "reject"}
  StartStates = {"idle", "completed", "failed"}
  Faults = {}
SYMMETRY SlotSym
INVARIANTS RunsOnlyWhenAsked OneEvaluation VerdictSpentOnce EvaluationDriven
PROPERTIES ImplementsLoop
CHECK_DEADLOCK FALSE
