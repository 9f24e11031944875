CONSTANTS
  DBG_NBR_POINTS = 2
  SlotBase = 32
  CmdBkpt = 50
  PollLoop = 52
  LastCode = 9
  MaxNest = 2
  ARM_BKPT = ARM_BKPT
  PatchWord = PatchWord
  Code <- MCCode
  Entry <- MCEntry
  Exit <- MCExit
  Word <- MCWord
  HostWord <- MCHostWord
  InitText <- MCInitText
  Flow <- MCFlow
  Unmapped <- MCUnmapped
  Rules <- AttachFreshOnly
  WriteAddr <- MCWriteAddr
  GdbRules <- AskStoppedOnly
SPECIFICATION GdbSpec
INVARIANTS
  GdbTypeOK
  StopsAreReal
