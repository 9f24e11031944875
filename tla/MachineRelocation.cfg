CONSTANTS
  Tasks = {"reloc"}
  SectionSize = 2
  Sections = 3
  Size = 4
  Byte = {0, 1, 2}
  Zero = 0
  Words = 4
  dcache_line = 2
  icache_line = 2
  Slots = {1}
  Code = {0, 1}
  MaxRoutines = 2
  Value = {1, 2}
  Flags = {"none", "zero"}
  Fault = 100
  Elsewhere = {200}
  Command <- MCCommand
  Rest <- MCRest
  Place = {0, 1000}
  Sample <- MCSample
SPECIFICATION Spec
INVARIANT RelocatedBranchKeepsTarget
CHECK_DEADLOCK FALSE
