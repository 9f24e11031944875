----------------------------- MODULE DebugStub -----------------------------
(***************************************************************************)
(* The debugger on the target: breakpoint_handler and the commands of      *)
(* dbg.c, around HBOOT.                                                    *)
(*                                                                         *)
(* There is one thread of control, the processor's, with its program       *)
(* counter pc.  It is in HBOOT's handler code (Code), in HBOOT's command   *)
(* loop (Exit), in a trampoline of the breakpoint table, at the two points *)
(* of cmd_breakpoint that a host can tell apart (before and after its      *)
(* bkpt), or in the polling loop of breakpoint_handler (PollLoop); NULL    *)
(* stands for any other place: the target has run away and only a reset    *)
(* brings it back.  A command of the host is handled without interruption  *)
(* at the two places that receive one, the command loop, where             *)
(* cmd_dispatcher is called with no context, and the polling loop.         *)
(*                                                                         *)
(* "stack" holds the activations that are not finished, oldest first: the  *)
(* stops, each with the pc of the saved context, and the calls of          *)
(* cmd_breakpoint and cmd_call that have not returned.                     *)
(***************************************************************************)
EXTENDS BreakpointTable, Sequences

CONSTANTS
  Entry,      \* where the command loop and CMD_CALL enter HBOOT's handler
  Exit,       \* HBOOT's command loop
  Flow,       \* for each word, the displacements from it to the next one
  Unmapped,   \* addresses without a mapping
  CmdBkpt,    \* the bkpt instruction of cmd_breakpoint
  PollLoop,   \* the polling loop of breakpoint_handler
  Rules,      \* what this host refrains from
  MaxNest     \* bound of the model: the activations at one time

(***************************************************************************)
(* The rules of use.  Nothing in the code enforces them.                   *)
(*   AttachFirst   no breakpoint before CMD_ATTACH has installed the       *)
(*                 abort handler                                           *)
(*   AttachFresh   no CMD_ATTACH with breakpoints set or while stopped     *)
(*   KeepSlots     no removal that moves another breakpoint to its slot    *)
(*   KeepLiveSlot  no insertion into the slot the target resumes through   *)
(*   NoOverwrite   no CMD_WRITE over a breakpoint or the current stop      *)
(*   NoNest        no CMD_CALL while stopped, and no CMD_BREAKPOINT while  *)
(*                 stopped in HBOOT's code                                 *)
(*   PlainOnly     no breakpoint on an instruction that manipulates PC     *)
(*   MappedOnly    no breakpoint on an address without a mapping           *)
(***************************************************************************)
AllRules == {"AttachFirst", "AttachFresh", "KeepSlots", "KeepLiveSlot",
             "NoOverwrite", "NoNest", "PlainOnly", "MappedOnly"}

CmdRet == CmdBkpt + 1

SlotAddr == {OrigAddr(i) : i \in Slot} \cup {BackAddr(i) : i \in Slot}

ASSUME ProgramAssumption ==
  /\ Flow \in [Word -> SUBSET Int]
  /\ Entry \in Code
  /\ \A a \in Code : a + 1 \in Code \cup {Exit}
  /\ \A a \in Code : \A d \in Flow[InitText[a]] : a + d \in Code \cup {Exit}
  /\ \A w \in HostWord : Flow[w] = {1}
  /\ ARM_BKPT \notin HostWord

ASSUME LayoutAssumption ==
  /\ Exit \in Nat \ (Code \cup {NULL})
  /\ Unmapped \subseteq Nat \ (Code \cup {NULL, Exit})
  /\ CmdBkpt \in Nat /\ PollLoop \in Nat
  /\ {CmdBkpt, CmdRet, PollLoop} \cap (Code \cup SlotAddr \cup {NULL, Exit}) = {}
  /\ PollLoop \notin {CmdBkpt, CmdRet}
  /\ Exit \notin SlotAddr /\ NULL \notin SlotAddr

ASSUME HostAssumption == Rules \subseteq AllRules /\ MaxNest \in Nat

VARIABLES
  continue_address,  \* status.continue_address
  hooked,            \* the prefetch abort vector leads to the debugger
  pc,                \* the program counter
  stack,             \* the unfinished activations
  last,              \* history: the last word of HBOOT executed
  released           \* history: the command that let the target go, until
                     \* the target has executed an instruction

targetVars == <<continue_address, hooked, pc, stack, last, released>>
stubVars   == <<tableVars, targetVars>>

Stop(a)     == [what |-> "stop", pc |-> a]
Activity(c) == [what |-> c, pc |-> NULL]

Top == stack[Len(stack)]
Pop == SubSeq(stack, 1, Len(stack) - 1)

Idle      == pc = Exit /\ stack = <<>>
Stopped   == pc = PollLoop                \* cmd_dispatcher has a context
Listening == Idle \/ Stopped

(* HBOOT's program with the breakpoints taken out.                          *)
Text == [a \in Code |-> IF HasBreakpoint(a)
                        THEN bp[get_breakpoint(a)].original
                        ELSE mem[a]]

StoppedAt(a) == \E i \in 1 .. Len(stack) : stack[i] = Stop(a)

StubInit ==
  /\ TableInit
  /\ continue_address = NULL
  /\ hooked = FALSE
  /\ pc = Exit
  /\ stack = <<>>
  /\ last = NULL
  /\ released = "no"

-----------------------------------------------------------------------------
(***************************************************************************)
(* Plausible slips in this code, each of which some run detects.           *)
(***************************************************************************)
TrapReturnsToBreakpoint ==
  /\ stack' = Append(stack, Stop(pc))
  /\ pc' = PollLoop
  /\ continue_address' = pc

TrapSkipsInstruction ==
  /\ stack' = Append(stack, Stop(pc))
  /\ pc' = PollLoop
  /\ continue_address' = pc + 1

ReturnToPolling(activity) ==
  /\ stack # <<>>
  /\ Top = Activity(activity)
  /\ stack' = Pop
  /\ pc' = PollLoop

-----------------------------------------------------------------------------
(***************************************************************************)
(* The processor.                                                          *)
(***************************************************************************)

(* Where execution goes with the program counter p and the activations s   *)
(* below: the registers of a stop in HBOOT do not fit the end of           *)
(* cmd_breakpoint, nor the reverse.                                        *)
Land(p, s) ==
  LET inCommand == s # <<>> /\ s[Len(s)].what = "cmd_breakpoint" IN
  IF \/ inCommand /\ p \in {CmdBkpt, CmdRet}
     \/ ~inCommand /\ p \in Code \cup {Exit} \cup SlotAddr
  THEN p ELSE NULL

(* A call made while a command is handled goes back to where the command   *)
(* was received.                                                           *)
Return(activity) ==
  /\ stack # <<>>
  /\ Top = Activity(activity)
  /\ stack' = Pop
  /\ pc' = IF Pop = <<>> THEN Exit ELSE PollLoop

(* An instruction in place.                                                *)
ExecuteCode ==
  /\ pc \in Code
  /\ mem[pc] # ARM_BKPT
  /\ last' = mem[pc]
  /\ pc' \in {pc + d : d \in Flow[mem[pc]]}
  /\ released' = "no"
  /\ UNCHANGED <<tableVars, continue_address, hooked, stack>>

(* A displaced instruction in its slot: unless it goes on to the next word *)
(* it jumps relative to the slot.                                          *)
ExecuteSlot ==
  /\ \E i \in Slot :
       /\ pc = OrigAddr(i)
       /\ bp[i].original # ARM_BKPT
       /\ last' = bp[i].original
       /\ pc' \in {IF d = 1 THEN BackAddr(i) ELSE NULL : d \in Flow[bp[i].original]}
  /\ released' = "no"
  /\ UNCHANGED <<tableVars, continue_address, hooked, stack>>

ExecuteBack ==
  /\ \E i \in Slot :
       /\ pc = BackAddr(i)
       /\ pc' = IF bp[i].back \in BranchField
                THEN Land(BranchTarget(pc, bp[i].back), stack)
                ELSE NULL
  /\ UNCHANGED <<tableVars, continue_address, hooked, stack, last, released>>

AtBkpt ==
  \/ pc \in Code /\ mem[pc] = ARM_BKPT
  \/ \E i \in Slot : pc = OrigAddr(i) /\ bp[i].original = ARM_BKPT
  \/ pc = CmdBkpt

(* save_context, dbg_event_handler, and breakpoint_handler up to its loop. *)
breakpoint_handler ==
  /\ stack' = Append(stack, Stop(pc))
  /\ pc' = PollLoop
  /\ continue_address' = IF HasBreakpoint(pc)
                         THEN OrigAddr(get_breakpoint(pc))
                         ELSE pc + 1

Trap ==
  /\ AtBkpt
  /\ hooked
  /\ breakpoint_handler
  /\ UNCHANGED <<tableVars, hooked, last, released>>

(* HBOOT's own abort handler does not come back.                           *)
UnhookedTrap ==
  /\ AtBkpt
  /\ ~hooked
  /\ pc' = NULL
  /\ UNCHANGED <<tableVars, continue_address, hooked, stack, last, released>>

EndOfCmdBreakpoint ==
  /\ pc = CmdRet
  /\ Return("cmd_breakpoint")
  /\ released' = "no"
  /\ UNCHANGED <<tableVars, continue_address, hooked, last>>

EndOfCmdCall ==
  /\ pc = Exit
  /\ Return("cmd_call")
  /\ UNCHANGED <<tableVars, continue_address, hooked, last, released>>

CpuStep ==
  \/ ExecuteCode \/ ExecuteSlot \/ ExecuteBack
  \/ Trap \/ UnhookedTrap
  \/ EndOfCmdBreakpoint \/ EndOfCmdCall

(* HBOOT's command loop runs a fastboot command that is not for the        *)
(* debugger.                                                               *)
FastbootCommand ==
  /\ Idle
  /\ pc' = Entry
  /\ UNCHANGED <<tableVars, continue_address, hooked, stack, last, released>>

(* Battery out, or a reboot, and the debugger loaded again.                *)
PowerCycle ==
  /\ mem' = InitText
  /\ dbg_init
  /\ continue_address' = NULL
  /\ hooked' = FALSE
  /\ pc' = Exit
  /\ stack' = <<>>
  /\ last' = NULL
  /\ released' = "no"

-----------------------------------------------------------------------------
(***************************************************************************)
(* The commands.  Each answers with an error code; cmd_call and            *)
(* cmd_fastboot_reboot do not answer.                                      *)
(***************************************************************************)
Keeps(rule, condition) == rule \in Rules => condition

(* What the rules leave a host free to send.                               *)
MayAttach     == Keeps("AttachFresh", bp_size = 0 /\ ~Stopped)
MayWrite(a)   == Keeps("NoOverwrite", ~HasBreakpoint(a) /\ ~StoppedAt(a))
MayRemove(a)  == Keeps("KeepSlots", HasBreakpoint(a) => get_breakpoint(a) = bp_size - 1)
MayCall       == Keeps("NoNest", ~Stopped)
MayInsert(a)  ==
  /\ Keeps("AttachFirst", hooked)
  /\ Keeps("PlainOnly", a \in Code => Flow[Text[a]] = {1})
  /\ Keeps("KeepLiveSlot",
           ~(/\ Stopped
             /\ bp_size < DBG_NBR_POINTS
             /\ continue_address \in {OrigAddr(bp_size), BackAddr(bp_size)}))
MayBreak ==
  /\ Keeps("AttachFirst", hooked)
  /\ Keeps("NoNest", Stopped => Top.pc = CmdBkpt)

cmd_attach ==
  /\ MayAttach
  /\ dbg_init
  /\ continue_address' = NULL
  /\ hooked' = TRUE
  /\ released' = "no"
  /\ UNCHANGED <<mem, pc, stack, last>>

(* The end of breakpoint_handler and restore_context.                      *)
Resume(p) ==
  /\ pc' = Land(p, Pop)
  /\ stack' = Pop

(* The saved context keeps the pc of the stop.                             *)
cmd_detach ==
  /\ IF Stopped
     THEN Resume(Top.pc) /\ released' = "detach"
     ELSE UNCHANGED <<pc, stack>> /\ released' = "no"
  /\ UNCHANGED <<tableVars, continue_address, hooked, last>>

cmd_breakpoint_continue(error) ==
  /\ \/ /\ ~Stopped
        /\ error = "NO_BREAKPOINT"
        /\ released' = "no"
        /\ UNCHANGED <<pc, stack>>
     \/ /\ Stopped
        /\ error = "SUCCESS"
        /\ released' = "continue"
        /\ Resume(continue_address)
  /\ UNCHANGED <<tableVars, continue_address, hooked, last>>

(* cmd_read, cmd_get_registers, cmd_flashlight and an unknown type.        *)
NoEffect ==
  /\ released' = "no"
  /\ UNCHANGED <<tableVars, continue_address, hooked, pc, stack, last>>

cmd_write(a, w, error) ==
  /\ MayWrite(a)
  /\ \/ /\ a \in Unmapped
        /\ error = "UNMAPPED_MEMORY"
        /\ UNCHANGED tableVars
     \/ /\ a \in Code
        /\ error = "SUCCESS"
        /\ write_word(a, w)
        /\ UNCHANGED <<bp, bp_size>>
  /\ released' = "no"
  /\ UNCHANGED <<continue_address, hooked, pc, stack, last>>

cmd_insert_breakpoint(a, error) ==
  /\ a \in Code \/ TableFull
  /\ MayInsert(a)
  /\ insert_breakpoint(a, error)
  /\ released' = "no"
  /\ UNCHANGED <<continue_address, hooked, pc, stack, last>>

(* insert_breakpoint does not probe the address: it takes a slot and       *)
(* faults when it reads the word.  Only a power cycle follows, so that     *)
(* what it has written to the table is left out.                           *)
InsertUnmapped ==
  /\ Keeps("MappedOnly", FALSE)
  /\ Unmapped # {} /\ ~TableFull
  /\ pc' = NULL
  /\ released' = "no"
  /\ UNCHANGED <<tableVars, continue_address, hooked, stack, last>>

cmd_remove_breakpoint(a, error) ==
  /\ MayRemove(a)
  /\ remove_breakpoint(a, error)
  /\ released' = "no"
  /\ UNCHANGED <<continue_address, hooked, pc, stack, last>>

(* cmd_breakpoint up to its bkpt instruction.                              *)
cmd_breakpoint ==
  /\ MayBreak
  /\ Len(stack) + 2 <= MaxNest
  /\ stack' = Append(stack, Activity("cmd_breakpoint"))
  /\ pc' = CmdBkpt
  /\ released' = "no"
  /\ UNCHANGED <<tableVars, continue_address, hooked, last>>

(* cmd_call up to the function it calls.                                   *)
cmd_call ==
  /\ MayCall
  /\ Len(stack) + 2 <= MaxNest
  /\ stack' = Append(stack, Activity("cmd_call"))
  /\ pc' = Entry
  /\ released' = "no"
  /\ UNCHANGED <<tableVars, continue_address, hooked, last>>

cmd_fastboot_reboot == PowerCycle

(***************************************************************************)
(* The dispatcher runs where a command is received.                        *)
(***************************************************************************)
WriteCommand ==
  /\ Listening
  /\ \E a \in Code \cup Unmapped, w \in HostWord, error \in ErrorCode : cmd_write(a, w, error)

InsertCommand ==
  /\ Listening
  /\ \E a \in Code \cup Unmapped, error \in ErrorCode : cmd_insert_breakpoint(a, error)

RemoveCommand ==
  /\ Listening
  /\ \E a \in Code \cup Unmapped, error \in ErrorCode : cmd_remove_breakpoint(a, error)

ContinueCommand ==
  /\ Listening
  /\ \E error \in ErrorCode : cmd_breakpoint_continue(error)

cmd_dispatcher ==
  \/ Listening /\ cmd_attach
  \/ Listening /\ cmd_detach
  \/ ContinueCommand
  \/ Listening /\ NoEffect
  \/ WriteCommand
  \/ InsertCommand
  \/ RemoveCommand
  \/ Listening /\ InsertUnmapped
  \/ Listening /\ cmd_breakpoint
  \/ Listening /\ cmd_call
  \/ Listening /\ cmd_fastboot_reboot

StubNext == CpuStep \/ FastbootCommand \/ PowerCycle \/ cmd_dispatcher

StubSpec     == StubInit /\ [][StubNext]_stubVars
FairStubSpec == StubSpec /\ WF_stubVars(CpuStep)

-----------------------------------------------------------------------------
(***************************************************************************)
(* Properties.                                                             *)
(***************************************************************************)

(* Every variable keeps its type, for a host that keeps no rule.           *)
StubTypeOK ==
  /\ TableTypeOK
  /\ continue_address \in Nat
  /\ hooked \in BOOLEAN
  /\ pc \in Code \cup SlotAddr \cup {Exit, NULL, CmdBkpt, CmdRet, PollLoop}
  /\ stack \in Seq([what : {"stop", "cmd_breakpoint", "cmd_call"}, pc : Nat])
  /\ pc = PollLoop => stack # <<>> /\ Top.what = "stop"
  /\ last \in Word
  /\ released \in {"no", "continue", "detach"}

(* HBOOT's program can be had back at any time by removing the breakpoints *)
(* that are set: memory and table together change it only at an address    *)
(* the host writes, whatever is inserted, removed, moved, nested, resumed  *)
(* or written over.  Of the rules only AttachFresh is needed.              *)
TextPreserved ==
  [][\/ Text' = Text
     \/ \E a \in Code, w \in HostWord : /\ cmd_write(a, w, "SUCCESS")
                                       /\ Text' = [Text EXCEPT ![a] = w]
     \/ PowerCycle]_stubVars

(* An address with a breakpoint does stop the target: the bkpt instruction *)
(* is in memory, and the abort vector leads to the debugger.  The two are  *)
(* set by different commands and by a write of any address in between.     *)
ArmedStops ==
  \A a \in Code : HasBreakpoint(a) => mem[a] = ARM_BKPT /\ hooked

(* The way out of a stop, fixed in continue_address when the target stops, *)
(* still executes the displaced instruction and comes back behind it, even *)
(* after the breakpoint itself has been removed and others inserted.       *)
WayOut(a) ==
  \E i \in Slot :
    /\ continue_address = OrigAddr(i)
    /\ bp[i].address = a
    /\ bp[i].original = Text[a]
    /\ bp[i].back \in BranchField
    /\ BranchTarget(BackAddr(i), bp[i].back) = a + 1

StopHasWayOut ==
  Stopped => \/ Top.pc \in Code /\ WayOut(Top.pc)
             \/ Top.pc = CmdBkpt /\ continue_address = CmdRet

(* For a host that keeps the rules the target is HBOOT: stops,             *)
(* trampolines and commands do not add, lose, repeat or change an          *)
(* instruction it executes.                                                *)
Position(p) ==
  IF p \in Code \cup {Exit} THEN p
  ELSE IF p \in {CmdBkpt, CmdRet} THEN Exit
  ELSE IF \E i \in Slot : p = OrigAddr(i)
       THEN bp[CHOOSE i \in Slot : p = OrigAddr(i)].address
  ELSE IF \E i \in Slot : p = BackAddr(i)
       THEN bp[CHOOSE i \in Slot : p = BackAddr(i)].address + 1
  ELSE NULL

At == Position(IF Stopped THEN Top.pc ELSE pc)

Target == INSTANCE Hboot WITH text <- Text, at <- At

Transparent == Target!HbootSpec

(* A target the host continues executes its next instruction, or leaves    *)
(* cmd_breakpoint, without a further command: it does not stop again at    *)
(* the breakpoint it is at.                                                *)
ContinueMovesOn == released = "continue" ~> released # "continue"

(* dbg.c:90 says of the end of breakpoint_handler "Continue execution, and *)
(* also if the debugger is detaching": a target the host detaches from     *)
(* goes on like one that is continued.                                     *)
DetachMovesOn == released = "detach" ~> released # "detach"
=============================================================================
