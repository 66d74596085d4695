SPECIFICATION Spec
CONSTANTS
  Services <- TwoServices
  Keys <- ThereAndBack
  EdgeTTL = 1
  EventBufSize = 2
  MaxTime = 3
  MaxCalls = 2
INVARIANTS
  GaugeIsCurrent
CHECK_DEADLOCK FALSE
