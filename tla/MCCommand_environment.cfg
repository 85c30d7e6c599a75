SPECIFICATION Spec
CONSTANTS
  ConfigFiles <- ReferenceFiles
  FlagFormats <- DefaultFormats
  MaxCommands = 2
CHECK_DEADLOCK FALSE
INVARIANTS
  ReferencesResolve
