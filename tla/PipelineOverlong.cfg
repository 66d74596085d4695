SPECIFICATION Spec
CONSTANTS
  s1 = s1
  s2 = s2
  s3 = s3
  Sources <- OneSource
  Kinds = {"stdin"}
  Cap = 1
  ErrCap = 1
  MaxLines = 2
  MayFail <- NoneFails
  Interrupts = FALSE
INVARIANTS
  NoLineDropped
