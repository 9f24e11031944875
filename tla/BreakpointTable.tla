--------------------------- MODULE BreakpointTable ---------------------------
(***************************************************************************)
(* The table of software breakpoints of the debugger (dbg.c): the array    *)
(* status.bp with its fill level status.bp_size, the memory the            *)
(* breakpoints are planted in, and the operations on them.                 *)
(*                                                                         *)
(* Addresses are word addresses.  A slot keeps the three fields the code   *)
(* reads back: the address, and the two words of the trampoline that       *)
(* executes the displaced instruction out of line,                         *)
(*   original_instruction[0], the displaced instruction  ("original")      *)
(*   original_instruction[1], a branch back to address+4 ("back")          *)
(* The fields type and enabled are written and never read.                 *)
(***************************************************************************)
EXTENDS Integers, ArmBranch

CONSTANTS
  DBG_NBR_POINTS,  \* number of slots, 64 in the code
  SlotBase,        \* word address of status.bp
  Code,            \* word addresses of HBOOT's code, mapped and writable
  Word,            \* the instruction words that can be in memory
  HostWord,        \* the words among them the host writes with CMD_WRITE
  ARM_BKPT,        \* the breakpoint instruction
  InitText         \* HBOOT's code as it is loaded

Slot == 0 .. DBG_NBR_POINTS - 1

SlotWords   == 5                                 \* sizeof (breakpoint) / 4
OrigAddr(i) == SlotBase + SlotWords * i + 2      \* &bp[i].original_instruction[0]
BackAddr(i) == SlotBase + SlotWords * i + 3      \* &bp[i].original_instruction[1]

NULL     == 0      \* the null address, and the word memset leaves in a slot
NoBranch == -1     \* the content of "back" in a slot of zeros: not a branch

ASSUME TableAssumption ==
  /\ DBG_NBR_POINTS \in Nat \ {0}
  /\ SlotBase \in Nat
  /\ Code \subseteq Nat \ {NULL}
  /\ ARM_BKPT \in Word
  /\ NULL \in Word
  /\ HostWord \subseteq Word
  /\ InitText \in [Code -> Word \ {ARM_BKPT}]

(***************************************************************************)
(* The debugger is linked next to HBOOT, so that every trampoline can      *)
(* branch back.                                                            *)
(***************************************************************************)
ASSUME LinkAssumption ==
  /\ \A i \in Slot : OrigAddr(i) \in WordAddr /\ BackAddr(i) \in WordAddr
  /\ \A i \in Slot : OrigAddr(i) \notin Code /\ BackAddr(i) \notin Code
  /\ \A i \in Slot, a \in Code : a + 1 \in WordAddr /\ Reaches(BackAddr(i), a + 1)

VARIABLES
  mem,      \* HBOOT's code in memory
  bp,       \* status.bp
  bp_size   \* status.bp_size

tableVars == <<mem, bp, bp_size>>

Breakpoint == [address  : Code \cup {NULL},
               original : Word,
               back     : NoBranch .. OffsetSpace - 1]

EmptySlot == [address |-> NULL, original |-> NULL, back |-> NoBranch]

Active == 0 .. bp_size - 1

ArmedAddresses == {bp[i].address : i \in Active}

TableInit ==
  /\ mem = InitText
  /\ bp = [i \in Slot |-> EmptySlot]
  /\ bp_size = 0

-----------------------------------------------------------------------------
(***************************************************************************)
(* Plausible slips in this code, each of which some run detects.           *)
(***************************************************************************)
TableFullLate == bp_size > DBG_NBR_POINTS

FreeWithoutMove(a) ==
  /\ bp_size' = bp_size - 1
  /\ UNCHANGED bp

FreeThenClear(a) ==
  LET i == CHOOSE j \in Active : bp[j].address = a IN
  /\ bp' = [bp EXCEPT ![i] = bp[bp_size - 1], ![bp_size - 1] = EmptySlot]
  /\ bp_size' = bp_size - 1

InsertAllocFirst(a, error) ==
  /\ error = IF bp_size < DBG_NBR_POINTS THEN "SUCCESS" ELSE "NO_MEMORY_AVAILABLE"
  /\ IF bp_size < DBG_NBR_POINTS
     THEN /\ bp' = [bp EXCEPT ![bp_size] =
                      [address  |-> a,
                       original |-> mem[a],
                       back     |-> cpu_get_branch(BackAddr(bp_size), a + 1)]]
          /\ bp_size' = bp_size + 1
          /\ mem' = [mem EXCEPT ![a] = ARM_BKPT]
     ELSE UNCHANGED tableVars

InsertFullFirst(a, error) ==
  \/ /\ bp_size >= DBG_NBR_POINTS
     /\ error = "NO_MEMORY_AVAILABLE"
     /\ UNCHANGED tableVars
  \/ /\ bp_size < DBG_NBR_POINTS
     /\ \E i \in Active : bp[i].address = a
     /\ error = "BREAKPOINT_ALREADY_EXISTS"
     /\ UNCHANGED tableVars
  \/ /\ \A i \in Active : bp[i].address # a
     /\ InsertAllocFirst(a, error)
     /\ error = "SUCCESS"

RemoveKeepsEntry(a, error) ==
  /\ error = IF \E i \in Active : bp[i].address = a THEN "SUCCESS" ELSE "NO_BREAKPOINT"
  /\ mem' = IF error = "SUCCESS"
            THEN [mem EXCEPT ![a] = bp[CHOOSE i \in Active : bp[i].address = a].original]
            ELSE mem
  /\ UNCHANGED <<bp, bp_size>>

-----------------------------------------------------------------------------
(***************************************************************************)
(* The operations of dbg.c.                                                *)
(***************************************************************************)

(* memset(&status, 0, sizeof (status)); continue_address is in DebugStub.  *)
dbg_init ==
  /\ bp' = [i \in Slot |-> EmptySlot]
  /\ bp_size' = 0

HasBreakpoint(a) == \E i \in Active : bp[i].address = a

(* The first slot with this address; NULL when ~HasBreakpoint(a).          *)
get_breakpoint(a) ==
  CHOOSE i \in Active : /\ bp[i].address = a
                        /\ \A j \in 0 .. i - 1 : bp[j].address # a

(* alloc_breakpoint returns NULL, or takes the slot at bp_size.            *)
TableFull == bp_size >= DBG_NBR_POINTS

alloc_breakpoint == /\ ~TableFull
                    /\ bp_size' = bp_size + 1

(* The last entry is copied over the one that goes; its slot keeps the     *)
(* copy.                                                                   *)
free_breakpoint(a) ==
  /\ bp' = [bp EXCEPT ![get_breakpoint(a)] = bp[bp_size - 1]]
  /\ bp_size' = bp_size - 1

Trampoline(i, a) ==
  [address  |-> a,
   original |-> mem[a],
   back     |-> cpu_get_branch(BackAddr(i), a + 1)]

insert_breakpoint(a, error) ==
  \/ /\ HasBreakpoint(a)
     /\ error = "BREAKPOINT_ALREADY_EXISTS"
     /\ UNCHANGED tableVars
  \/ /\ ~HasBreakpoint(a)
     /\ TableFull
     /\ error = "NO_MEMORY_AVAILABLE"
     /\ UNCHANGED tableVars
  \/ /\ ~HasBreakpoint(a)
     /\ alloc_breakpoint
     /\ error = "SUCCESS"
     /\ bp' = [bp EXCEPT ![bp_size] = Trampoline(bp_size, a)]
     /\ mem' = [mem EXCEPT ![a] = ARM_BKPT]

remove_breakpoint(a, error) ==
  \/ /\ ~HasBreakpoint(a)
     /\ error = "NO_BREAKPOINT"
     /\ UNCHANGED tableVars
  \/ /\ HasBreakpoint(a)
     /\ error = "SUCCESS"
     /\ mem' = [mem EXCEPT ![a] = bp[get_breakpoint(a)].original]
     /\ free_breakpoint(a)

(* The memory a CMD_WRITE of one word changes (cmd_write).                 *)
write_word(a, w) == mem' = [mem EXCEPT ![a] = w]

-----------------------------------------------------------------------------
(***************************************************************************)
(* The steps of the table: any operation in any order.  What each answers  *)
(* is kept in TableCommands.                                               *)
(***************************************************************************)
ErrorCode == {"SUCCESS", "UNKNOWN_CMD", "BREAKPOINT_ALREADY_EXISTS",
              "NO_BREAKPOINT", "NO_MEMORY_AVAILABLE", "UNMAPPED_MEMORY"}

InsertStep == \E a \in Code, error \in ErrorCode : insert_breakpoint(a, error)
RemoveStep == \E a \in Code, error \in ErrorCode : remove_breakpoint(a, error)
WriteStep  == \E a \in Code, w \in HostWord : write_word(a, w) /\ UNCHANGED <<bp, bp_size>>
InitStep   == dbg_init /\ UNCHANGED mem

TableNext == InsertStep \/ RemoveStep \/ WriteStep \/ InitStep

-----------------------------------------------------------------------------
(***************************************************************************)
(* Properties.                                                             *)
(***************************************************************************)

(* The memory, the slots and the fill level keep their types.              *)
TableTypeOK ==
  /\ mem \in [Code -> Word]
  /\ bp \in [Slot -> Breakpoint]
  /\ bp_size \in 0 .. DBG_NBR_POINTS

(* No address has two entries, whatever the order of insertions and        *)
(* removals: get_breakpoint and free_breakpoint look entries up by address *)
(* and stop at the first, so that a second entry would be unreachable and  *)
(* its instruction would be restored at the wrong time.                    *)
DistinctAddresses ==
  \A i, j \in Active : bp[i].address = bp[j].address => i = j

(* Every entry in use is for an address of HBOOT's code.                   *)
ActiveInCode == \A i \in Active : bp[i].address \in Code

(* No operation but dbg_init disturbs the slots beyond the new fill level: *)
(* a target stopped at a breakpoint that is then removed resumes through   *)
(* the trampoline left in its slot (breakpoint_handler read the address of *)
(* that slot into continue_address when the target stopped).               *)
SpareSlotsUntouched ==
  [][~dbg_init => \A i \in Slot : i >= bp_size' => bp'[i] = bp[i]]_tableVars

(* What the table stands for: the instruction displaced at each address.   *)
Saved == [a \in ArmedAddresses |-> bp[get_breakpoint(a)].original]

(* The trampoline of every entry in use returns to the instruction after   *)
(* the breakpoint.  dbg.c:165-166 names one limit of the trampoline, the   *)
(* instructions that manipulate PC.                                        *)
TrampolineReturns ==
  \A i \in Active :
    /\ bp[i].back \in BranchField
    /\ BranchTarget(BackAddr(i), bp[i].back) = bp[i].address + 1
=============================================================================
