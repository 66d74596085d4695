SPECIFICATION FairSpec
CONSTANTS
  s1 = s1
  s2 = s2
  s3 = s3
  Sources <- OneSource
  Kinds = {"stdin", "file"}
  Cap = 1
  ErrCap = 1
  MaxLines = 2
  MayFail <- AllFail
  Interrupts = TRUE
INVARIANTS
  LinesInOrder
PROPERTIES
  CancelEnds
  DrainEnds
  AllStop
