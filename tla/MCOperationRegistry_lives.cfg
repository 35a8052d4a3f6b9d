\* Every file operation but a progress update's may fail; the process restarts at
\* any moment.
CONSTANTS
  o1 = o1
  o2 = o2
  o3 = o3
  k1 = k1
  k2 = k2
  w1 = w1
  Ops = {o1, o2}
  Keys = {k1, k2}
  Workspaces = {w1}
  None = None
  DiskFails = {"accept", "finish", "rm", "read"}
  MaxRestarts = 1
SPECIFICATION Spec
CHECK_DEADLOCK FALSE
INVARIANTS TypeOK IndexSound NoSecondRun AnsweredIsDurable OneResult
PROPERTIES Settles ForgottenWithWorkspace
