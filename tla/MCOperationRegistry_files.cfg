\* Two files of one key outlive a restart.
CONSTANTS
  o1 = o1
  o2 = o2
  o3 = o3
  k1 = k1
  k2 = k2
  w1 = w1
  Ops = {o1, o2, o3}
  Keys = {k1}
  Workspaces = {}
  None = None
  DiskFails = {}
  MaxRestarts = 1
SPECIFICATION Spec
CHECK_DEADLOCK FALSE
INVARIANTS NoSecondRun
