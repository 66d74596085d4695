SPECIFICATION Spec
CONSTANTS
  h1 = h1
  h2 = h2
  h3 = h3
  c1 = c1
  c2 = c2
  api = api
  Hosts <- ThreeHosts
  Services <- OneService
  Callers <- TwoCallers
  Static <- Table
  ttl = 2
  maxSize = 2
  MaxFlight = 1
  MaxTime = 4
SYMMETRY Symmetry
INVARIANTS
  TypeOK
  WithinSize
  AnswersAreRecent
PROPERTIES
  FreshStay
CHECK_DEADLOCK FALSE
