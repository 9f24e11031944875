CONSTANTS
  DBG_NBR_POINTS = 2
  SlotBase = 32
  ARM_BKPT = ARM_BKPT
  PatchWord = PatchWord
  Code <- MCCode
  Word <- MCWord
  HostWord <- MCHostWord
  InitText <- MCInitText
SPECIFICATION TableSpec
INVARIANTS
  TableTypeOK
  DistinctAddresses
PROPERTIES
  SpareSlotsUntouched
  ImplementsMap
