SPECIFICATION Spec
CONSTANTS
  s1 = s1
  s2 = s2
  s3 = s3
  Sources <- TwoSources
  Kinds = {"docker"}
  Cap = 1
  ErrCap = 1
  MaxLines = 1
  MayFail <- AllFail
  Interrupts = TRUE
SYMMETRY SourceSymmetry
INVARIANTS
  NoPanic
  ErrorReported
  GapFree
  CleanFinish
  Inv
PROPERTIES
  Delivers
