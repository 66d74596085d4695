SPECIFICATION Spec
CONSTANTS
  Keys <- OneKey
  Values = {0, 1, 4}
  windowSize = 6
  threshold = 2
  minSamples = 2
  Precision = 5
  cooldown = 2
  BufSize = 1
  MaxTime = 4
  MaxAlerts = 3
INVARIANTS
  TypeOK
  WindowIsRecent
  NoExcursionMissed
  ShiftIsAbsorbed
  FewValuesNeverAlert
PROPERTIES
  OneAlertPerExcursion
CHECK_DEADLOCK FALSE
