-------------------------------- MODULE Mmu --------------------------------
(***************************************************************************)
(* mmu.c: the checks of a memory range against the first-level page table, *)
(* and cmd_write, which relies on one of them.  A section is a megabyte    *)
(* and an address has 32 bits in the code; here both sizes are parameters. *)
(* Arithmetic on addresses is modulo the address space.                    *)
(***************************************************************************)
EXTENDS Integers

CONSTANTS
  SectionSize,   \* MMU_PAGE_SECTION_SIZE
  Sections       \* entries of the page table

(* With one section there would be none for the first to be followed by.   *)
ASSUME MmuAssumption == SectionSize \in Nat \ {0} /\ Sections \in Nat \ {0, 1}

Memory == SectionSize * Sections
Addr   == 0 .. Memory - 1

(* Pages are not used (the code assumes sections); ap is 0 or not.         *)
UNMAPPED == 0
SECTION  == 2
mmu_section_descriptor == [type : {UNMAPPED, SECTION}, ap : {0, 1}]

VARIABLES
  translation_table,   \* the descriptors
  protect,             \* control register: S (system) or R (ROM) bit set
  probe                \* the last probe: its range and its outcome

mmuVars == <<translation_table, protect, probe>>

Outcome == {"none", "done", "refused", "abort"}
NoProbe == [op |-> "none", addr |-> 0, length |-> 0, outcome |-> "none"]

-----------------------------------------------------------------------------
(***************************************************************************)
(* Plausible slips.                                                        *)
(***************************************************************************)
(* Whole sections only, wherever the range begins.                         *)
SectionsOfLength(addr, length) == (length + SectionSize - 1) \div SectionSize

(* Access bits ignored.                                                    *)
ReadableIfMapped(d) == d.type # UNMAPPED

(* The end of a section taken for its beginning by an aligned address.     *)
SectionEndRoundedUp(addr) ==
  (((addr + SectionSize - 1) \div SectionSize) * SectionSize) % Memory

-----------------------------------------------------------------------------
(***************************************************************************)
(* The number of sections of a range: the rest of the first one, then      *)
(* whole ones, then the beginning of the last.                             *)
(***************************************************************************)
section_end(addr) == (((addr + SectionSize) \div SectionSize) * SectionSize) % Memory
FirstPart(addr)   == (section_end(addr) - addr) % Memory

SectionsFrom(length) ==
  length \div SectionSize + (IF length % SectionSize # 0 THEN 1 ELSE 0)

sections_nr(addr, length) ==
  IF length > FirstPart(addr)
  THEN 1 + SectionsFrom(length - FirstPart(addr))
  ELSE SectionsFrom(length)

(***************************************************************************)
(* What a descriptor must be like.  A mapped section without access bits   *)
(* can be read, and never written, when S or R is set.                     *)
(***************************************************************************)
Readable(d) == d.type # UNMAPPED /\ (protect \/ d.ap # 0)
Writable(d) == d.type # UNMAPPED /\ d.ap # 0

(* The descriptor read for section n; beyond the table is other memory.    *)
Entry(n, junk) == IF n < Sections THEN translation_table[n] ELSE junk

Section(addr, i, junk) == Entry(addr \div SectionSize + i, junk)

mmu_probe_read(addr, length, junk) ==
  \A i \in 0 .. sections_nr(addr, length) - 1 : Readable(Section(addr, i, junk))
mmu_probe_write(addr, length, junk) ==
  \A i \in 0 .. sections_nr(addr, length) - 1 : Writable(Section(addr, i, junk))

-----------------------------------------------------------------------------
(***************************************************************************)
(* Behaviour: HBOOT's page table stays as it is while a host asks.         *)
(***************************************************************************)
MmuInit ==
  /\ translation_table \in [0 .. Sections - 1 -> mmu_section_descriptor]
  /\ protect \in BOOLEAN
  /\ probe = NoProbe

Asked(op, addr, length, outcome) ==
  /\ probe = NoProbe
  /\ probe' = [op |-> op, addr |-> addr, length |-> length, outcome |-> outcome]
  /\ UNCHANGED <<translation_table, protect>>

ProbeRead(addr, length, junk) ==
  Asked("read", addr, length, IF mmu_probe_read(addr, length, junk) THEN "done" ELSE "refused")

(* Nothing calls mmu_probe_write.                                          *)
ProbeWrite(addr, length, junk) ==
  Asked("probe write", addr, length,
        IF mmu_probe_write(addr, length, junk) THEN "done" ELSE "refused")

(* The bytes of a range; it may run around the end of memory.              *)
Bytes(addr, length) == {(addr + i) % Memory : i \in 0 .. length - 1}
SectionOf(a)        == translation_table[a \div SectionSize]

(* cmd_write asks mmu_probe_read.  A store the page table does not allow   *)
(* is a data abort, which the debugger does not handle.                    *)
write_probed(addr, length, junk) ==
  Asked("write", addr, length,
        IF ~mmu_probe_read(addr, length, junk) THEN "refused"
        ELSE IF \A a \in Bytes(addr, length) : Writable(SectionOf(a)) THEN "done"
        ELSE "abort")

MmuNext ==
  \E addr \in Addr, length \in Addr, junk \in mmu_section_descriptor :
    \/ ProbeRead(addr, length, junk)
    \/ ProbeWrite(addr, length, junk)
    \/ write_probed(addr, length, junk)

MmuSpec == MmuInit /\ [][MmuNext]_mmuVars
-----------------------------------------------------------------------------
(***************************************************************************)
(* Properties.                                                             *)
(***************************************************************************)
(* The bytes of the last probe that are below the end of memory.           *)
Below  == {a \in probe.addr .. probe.addr + probe.length - 1 : a < Memory}
Inside == probe.addr + probe.length <= Memory

(* The descriptors stay what the page table holds, and a probe is of 32-bit *)
(* arguments.                                                              *)
MmuTypeOK ==
  /\ translation_table \in [0 .. Sections - 1 -> mmu_section_descriptor]
  /\ protect \in BOOLEAN
  /\ probe \in [op : {"none", "read", "probe write", "write"}, addr : Addr, length : Addr,
                outcome : Outcome]

(* A probe looks at every section its range touches, and at no other:      *)
(* ranges that are empty, that end on a section boundary or begin just     *)
(* before one, and those in the last section, where section_end wraps      *)
(* (mmu.c:209-252).  Of a range that runs past the end of memory, at least *)
(* the part below it has been looked at.                                   *)
ProbeReadExact ==
  probe.op = "read" =>
    /\ probe.outcome = "done" => \A a \in Below : Readable(SectionOf(a))
    /\ Inside /\ (\A a \in Below : Readable(SectionOf(a))) => probe.outcome = "done"

(* The same of the probe nothing uses yet (mmu.c:259-297).                 *)
ProbeWriteExact ==
  probe.op = "probe write" =>
    /\ probe.outcome = "done" => \A a \in Below : Writable(SectionOf(a))
    /\ Inside /\ (\A a \in Below : Writable(SectionOf(a))) => probe.outcome = "done"

(* cmd_write asks whether the range can be read (dbg.c:321).  The answer   *)
(* is the right one, and the write goes through, but for two cases: S or R *)
(* protects sections from writing, or the range runs around the end of     *)
(* memory.                                                                 *)
WriteAbortsOnlyIfProtected ==
  probe.op = "write" /\ probe.outcome = "abort" => protect \/ ~Inside
=============================================================================
