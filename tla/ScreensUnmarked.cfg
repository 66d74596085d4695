SPECIFICATION ScreensSpec
CONSTANTS
  Services <- TwoServices
  Calls <- OneCall
  Heights <- LowAndHigh
  MinRows = 1
  ChanSize = 1
  MaxCount = 1
INVARIANTS
  NewAlertsBlink
CHECK_DEADLOCK FALSE
