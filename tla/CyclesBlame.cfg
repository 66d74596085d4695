SPECIFICATION Spec
CONSTANTS
  Services <- FourServices
  Calls <- Outsider
  MaxSearches = 5
INVARIANTS
  BlamedEdgeIsOnCycle
CHECK_DEADLOCK FALSE
