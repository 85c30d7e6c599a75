SPECIFICATION Spec
CONSTANTS
  ConfigFiles <- MCConfigFiles
  FlagFormats <- MCFlagFormats
  MaxCommands = 2
CHECK_DEADLOCK FALSE
INVARIANTS
  TypeOK
  SuccessIsComplete
  FailureKeepsPrefix
  EngineGetsRunnable
  ValidatePredictsRun
