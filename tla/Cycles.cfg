SPECIFICATION FairSpec
CONSTANTS
  Services <- ThreeServices
  Calls <- Tangle
  MaxSearches = 4
INVARIANTS
  TypeOK
  ReportsAreCycles
  NoTangleMissed
PROPERTIES
  NeverTwice
  SearchEnds
CHECK_DEADLOCK FALSE
