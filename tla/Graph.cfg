SPECIFICATION FairSpec
CONSTANTS
  Services <- TwoServices
  Keys <- ThereAndBack
  EdgeTTL = 1
  EventBufSize = 1
  MaxTime = 3
  MaxCalls = 2
INVARIANTS
  TypeOK
  Consistent
  Announced
  CallsConserved
PROPERTIES
  FreshEdgesStay
  FeedReturns
  StaleEdgesGo
CHECK_DEADLOCK FALSE
