SPECIFICATION Spec
CONSTANTS
  w1 = w1
  w2 = w2
  w3 = w3
  comment = comment
  assignment = assignment
  None = None
  Attempts = {w1, w2, w3}
  Actions = {comment, assignment}
  Appends = {comment}
  Versioned = {}
  MaxEntries = 2
  AppendWindow = 1
  Tolerance = 2
  MaxTime = 1
  MaxLives = 2
  Faults = {"save"}
SYMMETRY AttemptSym
INVARIANTS TypeOK NoRepeatInDoubt NotAppliedIsTrue DoubtIsKept DoubtIsListed
CHECK_DEADLOCK FALSE
