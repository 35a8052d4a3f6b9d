SPECIFICATION Spec
CONSTANTS
  m1 = m1
  m2 = m2
  e1 = e1
  None = None
  Damaged = Damaged
  Mutations = {m1, m2}
  Edits = {e1}
  MaxLives = 3
  MaxDamage = 1
  Faults = {"write", "rename", "backup", "copy", "rm"}
INVARIANTS TypeOK AckedSurvive WithdrawnStaysOut OneDamageSurvivable
PROPERTIES RecoveryKeepsNewest OriginalBytesKept EditReachesDisk
CHECK_DEADLOCK FALSE
