CONSTANTS
  MaxRuns = 2
  MaxCommands = 2
  Commands = {"attach", "read", "call"}
SPECIFICATION UploadSpec
INVARIANTS
  RepliesInStep
  HooksLeadToDebugger
  DoneMeansInstalled
PROPERTY UploadEnds
CHECK_DEADLOCK FALSE
