CONSTANTS
  DBG_NBR_POINTS = 2
  SlotBase = 32
  CmdBkpt = 50
  PollLoop = 52
  LastCode = 11
  MaxNest = 2
  ARM_BKPT = ARM_BKPT
  PatchWord = PatchWord
  Code <- MCCode
  Entry <- MCEntry
  Exit <- MCExit
  Word <- MCWord
  HostWord <- MCHostWord
  InitText <- MCInitText
  Flow <- MCFlow
  Unmapped <- MCUnmapped
  Rules <- AllRules
  WriteAddr <- MCWriteAddr
  GdbRules <- AllButAsking
SPECIFICATION FairGdbSpec
INVARIANTS
  BeliefsHold
PROPERTIES
  StepIsOne
  StepEnds
