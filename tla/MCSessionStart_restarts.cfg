SPECIFICATION Spec
CONSTANTS
  r1 = r1
  r2 = r2
  None = None
  MaxStarts = 3
  Kinds = {"pty"}
  Restarters = {r1, r2}
INVARIANT EveryProcessOwned
CHECK_DEADLOCK FALSE
