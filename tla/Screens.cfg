SPECIFICATION FairScreensSpec
CONSTANTS
  Services <- TwoServices
  Calls <- OneCall
  Heights <- LowAndHigh
  MinRows = 1
  ChanSize = 1
  MaxCount = 1
INVARIANTS
  TypeOK
  SelectionDrawn
  LogOfCall
PROPERTIES
  KeepsUp
CHECK_DEADLOCK FALSE
