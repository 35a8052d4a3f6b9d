SPECIFICATION FairSpec
CONSTANTS
  r1 = r1
  r2 = r2
  None = None
  MaxStarts = 3
  Kinds = {"pty", "ssh", "system"}
  Restarters = {r1, r2}
INVARIANTS TypeOK OneConnect NoOrphan NoGhost ReplayIsFresh DisconnectHolds ActivationAnswered
PROPERTIES ReconnectBegins
CHECK_DEADLOCK FALSE
