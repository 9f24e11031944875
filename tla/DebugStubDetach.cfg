CONSTANTS
  DBG_NBR_POINTS = 2
  SlotBase = 32
  CmdBkpt = 50
  PollLoop = 52
  LastCode = 10
  MaxNest = 4
  ARM_BKPT = ARM_BKPT
  PatchWord = PatchWord
  Code <- MCCode
  Entry <- MCEntry
  Exit <- MCExit
  Word <- MCWord
  HostWord <- MCHostWord
  InitText <- MCInitText
  Flow <- MCFlow
  Unmapped <- MCUnmapped
  Rules <- AllRules
SPECIFICATION FairStubSpec
PROPERTIES
  DetachMovesOn
