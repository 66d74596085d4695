SPECIFICATION FairSpec
CONSTANTS
  Times <- SomeTimes
  Numerals <- SomeNumerals
  Durations <- SomeDurations
  LowerCase <- SomeCases
  Configs <- SomeConfigs
  Lines <- SomeLines
INVARIANTS
  ExitTells
  WiredAsConfigured
  
PROPERTIES
  ToldToEnds
CHECK_DEADLOCK FALSE
