--------------------------- MODULE DebugStubProofs ---------------------------
(***************************************************************************)
(* Theorems about the debugger on the target, for every program, layout    *)
(* and table size, and for every host that keeps the rules they name.      *)
(***************************************************************************)
EXTENDS DebugStub, BreakpointTableProofs, SequenceTheorems

(***************************************************************************)
(* The inductive invariant behind the types.  That a step in HBOOT's code  *)
(* stays in it needs every word to be at its own address, in memory and in *)
(* the table (WordsAtHome); that a return from a command finds the polling *)
(* loop needs every such call to sit on a stop (CallsOnStops).             *)
(***************************************************************************)
WordsOf(a) == {InitText[a], ARM_BKPT} \cup HostWord

WordsAtHome ==
  /\ \A a \in Code : mem[a] \in WordsOf(a)
  /\ \A i \in Active : bp[i].original \in WordsOf(bp[i].address)

Frame == [what : {"stop", "cmd_breakpoint", "cmd_call"}, pc : Nat]

PlaceInProgram == Code \cup SlotAddr \cup {Exit, NULL, CmdBkpt, CmdRet}

CallsOnStops(s) ==
  \A i \in 1 .. Len(s) : i > 1 /\ s[i].what # "stop" => s[i - 1].what = "stop"

TargetInv ==
  /\ continue_address \in Nat
  /\ hooked \in BOOLEAN
  /\ pc \in PlaceInProgram \cup {PollLoop}
  /\ stack \in Seq(Frame)
  /\ pc = PollLoop => stack # <<>> /\ Top.what = "stop"
  /\ last \in Word
  /\ released \in {"no", "continue", "detach"}
  /\ CallsOnStops(stack)

StubInv ==
  /\ TableInv
  /\ WordsAtHome
  /\ TargetInv

(***************************************************************************)
(* What each step does to the table.                                       *)
(***************************************************************************)
TableStep ==
  \/ UNCHANGED tableVars
  \/ Listening /\ InsertStep
  \/ Listening /\ RemoveStep
  \/ Listening /\ WriteStep
  \/ dbg_init /\ (UNCHANGED mem \/ mem' = InitText)

LEMMA StubTableStep == TableInv /\ StubNext => TableStep
<1> SUFFICES ASSUME TableInv, StubNext PROVE TableStep
  OBVIOUS
<1>1. CASE CpuStep
  BY <1>1 DEF CpuStep, ExecuteCode, ExecuteSlot, ExecuteBack, Trap, UnhookedTrap,
              EndOfCmdBreakpoint, EndOfCmdCall, TableStep
<1>2. CASE FastbootCommand
  BY <1>2 DEF FastbootCommand, TableStep
<1>3. CASE PowerCycle
  BY <1>3 DEF PowerCycle, TableStep
<1>4. CASE cmd_dispatcher
  <2>1. CASE Listening /\ cmd_attach
    BY <2>1 DEF cmd_attach, TableStep
  <2>2. CASE Listening /\ (cmd_detach \/ NoEffect \/ InsertUnmapped \/ cmd_breakpoint \/ cmd_call)
    BY <2>2 DEF cmd_detach, NoEffect, InsertUnmapped, cmd_breakpoint, cmd_call, TableStep
  <2>3. CASE ContinueCommand
    BY <2>3 DEF ContinueCommand, cmd_breakpoint_continue, TableStep
  <2>4. CASE WriteCommand
    BY <2>4 DEF WriteCommand, cmd_write, WriteStep, TableStep
  <2>5. CASE InsertCommand
    <3>1. PICK a \in Code \cup Unmapped, error \in ErrorCode : cmd_insert_breakpoint(a, error)
      BY <2>5 DEF InsertCommand
    <3>2. CASE a \in Code
      BY <2>5, <3>1, <3>2 DEF InsertCommand, cmd_insert_breakpoint, InsertStep, TableStep
    <3>3. CASE a \notin Code
      <4>1. TableFull
        BY <3>1, <3>3 DEF cmd_insert_breakpoint
      <4>2. insert_breakpoint(a, error)
        BY <3>1 DEF cmd_insert_breakpoint
      <4> QED
        BY <4>1, <4>2 DEF insert_breakpoint, alloc_breakpoint, TableStep
    <3> QED
      BY <3>2, <3>3
  <2>6. CASE RemoveCommand
    <3>1. PICK a \in Code \cup Unmapped, error \in ErrorCode : cmd_remove_breakpoint(a, error)
      BY <2>6 DEF RemoveCommand
    <3>2. CASE a \in Code
      BY <2>6, <3>1, <3>2 DEF RemoveCommand, cmd_remove_breakpoint, RemoveStep, TableStep
    <3>3. CASE a \notin Code
      BY <3>1, <3>3 DEF cmd_remove_breakpoint, remove_breakpoint, HasBreakpoint,
                        TableInv, ActiveInCode, TableStep
    <3> QED
      BY <3>2, <3>3
  <2>7. CASE Listening /\ cmd_fastboot_reboot
    BY <2>7 DEF cmd_fastboot_reboot, PowerCycle, TableStep
  <2> QED
    BY <1>4, <2>1, <2>2, <2>3, <2>4, <2>5, <2>6, <2>7 DEF cmd_dispatcher
<1> QED
  BY <1>1, <1>2, <1>3, <1>4 DEF StubNext

LEMMA TableInvKept == TableInv /\ TableStep => TableInv'
<1> SUFFICES ASSUME TableInv, TableStep PROVE TableInv'
  OBVIOUS
<1>1. CASE dbg_init /\ mem' = InitText
  <2>1. TableInit'
    BY <1>1 DEF dbg_init, TableInit
  <2> QED
    BY <2>1, TableInvInit, PTL
<1>2. CASE [TableNext]_tableVars
  BY <1>2, TableInvNext
<1> QED
  BY <1>1, <1>2 DEF TableStep, TableNext, InitStep

LEMMA WordsKept == TableInv /\ WordsAtHome /\ TableStep => WordsAtHome'
<1> SUFFICES ASSUME TableInv, WordsAtHome, TableStep PROVE WordsAtHome'
  OBVIOUS
<1> USE DEF TableInv
<1>1. CASE UNCHANGED tableVars
  BY <1>1 DEF tableVars, WordsAtHome, Active
<1>2. CASE InsertStep
  <2>1. PICK a \in Code, error \in ErrorCode : insert_breakpoint(a, error)
    BY <1>2 DEF InsertStep
  <2>2. CASE /\ alloc_breakpoint
             /\ bp' = [bp EXCEPT ![bp_size] = Trampoline(bp_size, a)]
             /\ mem' = [mem EXCEPT ![a] = ARM_BKPT]
    <3>1. bp_size \in Slot /\ bp_size \in Nat /\ bp_size' = bp_size + 1
      BY <2>2, TableAssumption DEF TableTypeOK, alloc_breakpoint, TableFull, Slot
    <3>2. \A b \in Code : mem'[b] \in WordsOf(b)
      BY <2>2 DEF WordsAtHome, WordsOf, TableTypeOK
    <3>3. Trampoline(bp_size, a).original = mem[a] /\ Trampoline(bp_size, a).address = a
      BY DEF Trampoline
    <3>4. bp'[bp_size] = Trampoline(bp_size, a) /\ \A i \in Active : bp'[i] = bp[i]
      BY <2>2, <3>1, ActiveIsSlot DEF TableTypeOK
    <3>5. \A i \in Active' : i \in Active \/ i = bp_size
      BY <3>1 DEF Active
    <3> QED
      BY <3>2, <3>3, <3>4, <3>5 DEF WordsAtHome
  <2> QED
    BY <1>1, <2>1, <2>2 DEF insert_breakpoint
<1>3. CASE RemoveStep
  <2>1. PICK a \in Code, error \in ErrorCode : remove_breakpoint(a, error)
    BY <1>3 DEF RemoveStep
  <2>2. CASE /\ HasBreakpoint(a)
             /\ mem' = [mem EXCEPT ![a] = bp[get_breakpoint(a)].original]
             /\ free_breakpoint(a)
    <3> DEFINE g == get_breakpoint(a)
    <3>1. g \in Active /\ bp[g].address = a
      BY <2>2, GetBreakpointFinds
    <3>2. bp_size \in Nat /\ bp_size' = bp_size - 1 /\ g \in Slot /\ bp_size - 1 \in Active
      BY <2>2, <3>1, ActiveIsSlot DEF free_breakpoint, TableTypeOK, Active
    <3>3. \A b \in Code : mem'[b] \in WordsOf(b)
      BY <2>2, <3>1 DEF WordsAtHome, TableTypeOK
    <3>4. bp' = [bp EXCEPT ![g] = bp[bp_size - 1]]
      BY <2>2 DEF free_breakpoint
    <3> HIDE DEF g
    <3>5. \A i \in Active' : i \in Active /\ (bp'[i] = bp[i] \/ bp'[i] = bp[bp_size - 1])
      BY <3>2, <3>4, ActiveIsSlot DEF TableTypeOK, Active
    <3> QED
      BY <3>2, <3>3, <3>5 DEF WordsAtHome
  <2> QED
    BY <1>1, <2>1, <2>2 DEF remove_breakpoint
<1>4. CASE WriteStep
  BY <1>4 DEF WriteStep, write_word, WordsAtHome, WordsOf, TableTypeOK, Active
<1>5. CASE dbg_init /\ (UNCHANGED mem \/ mem' = InitText)
  <2>1. Active' = {}
    BY <1>5 DEF dbg_init, Active
  <2>2. \A a \in Code : mem'[a] \in WordsOf(a)
    BY <1>5 DEF WordsAtHome, WordsOf
  <2> QED
    BY <2>1, <2>2 DEF WordsAtHome
<1> QED
  BY <1>1, <1>2, <1>3, <1>4, <1>5 DEF TableStep

-----------------------------------------------------------------------------
(***************************************************************************)
(* The program counter and the activations.                                *)
(***************************************************************************)
LEMMA PlacesAreNat ==
  /\ PlaceInProgram \subseteq Nat
  /\ PollLoop \in Nat \ PlaceInProgram
  /\ \A i \in Slot : OrigAddr(i) \in SlotAddr /\ BackAddr(i) \in SlotAddr
<1>1. SlotAddr \subseteq Nat
  BY TableAssumption DEF SlotAddr, OrigAddr, BackAddr, SlotWords, Slot
<1>2. \A i \in Slot : OrigAddr(i) \in SlotAddr /\ BackAddr(i) \in SlotAddr
  BY DEF SlotAddr
<1>3. Code \cup {Exit, NULL, CmdBkpt, CmdRet, PollLoop} \subseteq Nat
  BY TableAssumption, LayoutAssumption DEF NULL, CmdRet
<1>4. PollLoop \notin PlaceInProgram
  BY LayoutAssumption DEF PlaceInProgram
<1> QED
  BY <1>1, <1>2, <1>3, <1>4 DEF PlaceInProgram

LEMMA LandsInProgram ==
  ASSUME NEW p, NEW s
  PROVE  Land(p, s) \in PlaceInProgram
BY DEF Land, PlaceInProgram

LEMMA PopProperties ==
  ASSUME TargetInv, stack # <<>>
  PROVE  /\ Pop \in Seq(Frame)
         /\ CallsOnStops(Pop)
         /\ Top \in Frame
         /\ Top.what # "stop" /\ Pop # <<>> => Pop[Len(Pop)].what = "stop"
<1>1. /\ stack \in Seq(Frame)
      /\ Len(stack) \in Nat \ {0}
      /\ \A i \in 1 .. Len(stack) : stack[i] \in Frame
  BY EmptySeq, ElementOfSeq DEF TargetInv
<1>2. /\ Pop \in Seq(Frame)
      /\ Len(Pop) = Len(stack) - 1
      /\ \A i \in 1 .. Len(stack) - 1 : Pop[i] = stack[i]
  <2>1. \A i \in 1 .. Len(stack) - 1 : stack[i] \in Frame
    BY <1>1
  <2> DEFINE n == Len(stack) - 1
  <2>2. n \in Nat
    BY <1>1
  <2>3. \A i \in 1 .. n : stack[i] \in Frame
    BY <2>1
  <2>4. Pop = SubSeq(stack, 1, n)
    BY DEF Pop
  <2>5. /\ SubSeq(stack, 1, n) \in Seq(Frame)
        /\ Len(SubSeq(stack, 1, n)) = IF 1 <= n THEN n - 1 + 1 ELSE 0
        /\ \A i \in 1 .. n - 1 + 1 : SubSeq(stack, 1, n)[i] = stack[1 + i - 1]
    <3> HIDE DEF n
    <3> QED
      BY <2>2, <2>3, SubSeqProperties
  <2>6. Len(Pop) = n
    <3> HIDE DEF n
    <3> QED
      BY <2>2, <2>4, <2>5
  <2>7. ASSUME NEW i \in 1 .. n
        PROVE  Pop[i] = stack[i]
    <3>1. i \in 1 .. n - 1 + 1 /\ 1 + i - 1 = i
      <4> HIDE DEF n
      <4> QED
        BY <2>2
    <3> HIDE DEF n
    <3> QED
      BY <2>4, <2>5, <3>1
  <2> QED
    BY <2>4, <2>5, <2>6, <2>7
<1>3. CallsOnStops(Pop)
  BY <1>1, <1>2 DEF TargetInv, CallsOnStops
<1>4. Top \in Frame
  BY <1>1 DEF Top
<1>5. ASSUME Top.what # "stop", Pop # <<>>
      PROVE  Pop[Len(Pop)].what = "stop"
  <2>1. Len(Pop) > 0
    BY <1>2, <1>5, EmptySeq
  <2>2. Len(stack) > 1 /\ Len(stack) \in 1 .. Len(stack) /\ stack[Len(stack)].what # "stop"
    BY <1>1, <1>2, <1>5, <2>1 DEF Top
  <2>3. stack[Len(stack) - 1].what = "stop"
    BY <2>2 DEF TargetInv, CallsOnStops
  <2> QED
    BY <1>1, <1>2, <2>1, <2>3
<1> QED
  BY <1>2, <1>3, <1>4, <1>5

LEMMA PushProperties ==
  ASSUME TargetInv, NEW f \in Frame,
         f.what = "stop" \/ stack = <<>> \/ Top.what = "stop"
  PROVE  /\ Append(stack, f) \in Seq(Frame)
         /\ Append(stack, f) # <<>>
         /\ Append(stack, f)[Len(Append(stack, f))] = f
         /\ CallsOnStops(Append(stack, f))
<1>1. stack \in Seq(Frame) /\ Len(stack) \in Nat /\ (stack # <<>> => Len(stack) > 0)
  BY EmptySeq, LenProperties DEF TargetInv
<1>2. /\ Append(stack, f) \in Seq(Frame)
      /\ Append(stack, f) # <<>>
      /\ Len(Append(stack, f)) = Len(stack) + 1
      /\ \A i \in 1 .. Len(stack) : Append(stack, f)[i] = stack[i]
      /\ Append(stack, f)[Len(stack) + 1] = f
  BY <1>1, AppendProperties
<1>3. CallsOnStops(Append(stack, f))
  <2> SUFFICES ASSUME NEW i \in 1 .. Len(stack) + 1, i > 1, Append(stack, f)[i].what # "stop"
               PROVE  Append(stack, f)[i - 1].what = "stop"
    BY <1>2 DEF CallsOnStops
  <2>1. CASE i <= Len(stack)
    BY <1>1, <1>2, <2>1 DEF TargetInv, CallsOnStops
  <2>2. CASE i = Len(stack) + 1
    <3>1. Len(stack) > 0 /\ stack # <<>>
      BY <1>1, <2>2, EmptySeq
    <3>2. stack[Len(stack)].what = "stop"
      BY <1>2, <2>2, <3>1 DEF Top
    <3> QED
      BY <1>1, <1>2, <2>2, <3>1, <3>2
  <2> QED
    BY <1>1, <2>1, <2>2
<1> QED
  BY <1>2, <1>3

LEMMA ReturnKeeps ==
  ASSUME TargetInv, NEW c \in {"cmd_breakpoint", "cmd_call"}, Return(c)
  PROVE  /\ stack' \in Seq(Frame)
         /\ CallsOnStops(stack')
         /\ pc' \in PlaceInProgram \cup {PollLoop}
         /\ pc' = PollLoop => stack' # <<>> /\ Top'.what = "stop"
<1>1. stack # <<>> /\ Top.what = c /\ stack' = Pop
  BY DEF Return, Activity
<1>2. pc' = IF Pop = <<>> THEN Exit ELSE PollLoop
  BY DEF Return
<1>3. Exit # PollLoop /\ Exit \in PlaceInProgram
  BY PlacesAreNat DEF PlaceInProgram
<1>4. Top' = stack'[Len(stack')]
  BY DEF Top
<1> QED
  BY <1>1, <1>2, <1>3, <1>4, PopProperties

LEMMA ResumeKeeps ==
  ASSUME TargetInv, Stopped, NEW p, Resume(p)
  PROVE  /\ stack' \in Seq(Frame)
         /\ CallsOnStops(stack')
         /\ pc' \in PlaceInProgram
BY PopProperties, LandsInProgram DEF TargetInv, Stopped, Resume

LEMMA TrapKeeps ==
  ASSUME TableInv, TargetInv, breakpoint_handler
  PROVE  /\ continue_address' \in Nat
         /\ stack' \in Seq(Frame)
         /\ CallsOnStops(stack')
         /\ stack' # <<>> /\ Top'.what = "stop"
<1>1. pc \in Nat
  BY PlacesAreNat DEF TargetInv
<1>2. Stop(pc) \in Frame /\ Stop(pc).what = "stop"
  BY <1>1 DEF Stop, Frame
<1>3. stack' = Append(stack, Stop(pc)) /\ Top' = stack'[Len(stack')]
  BY DEF breakpoint_handler, Top
<1>4. continue_address' \in Nat
  <2>1. CASE HasBreakpoint(pc)
    <3>1. get_breakpoint(pc) \in Slot
      BY <2>1, GetBreakpointFinds, ActiveIsSlot DEF TableInv
    <3>2. OrigAddr(get_breakpoint(pc)) \in Nat
      BY <3>1, PlacesAreNat DEF PlaceInProgram
    <3> QED
      BY <2>1, <3>2 DEF breakpoint_handler
  <2>2. CASE ~HasBreakpoint(pc)
    BY <1>1, <2>2 DEF breakpoint_handler
  <2> QED
    BY <2>1, <2>2
<1> QED
  BY <1>2, <1>3, <1>4, PushProperties

LEMMA CallKeeps ==
  ASSUME TargetInv, Listening, NEW c \in {"cmd_breakpoint", "cmd_call"},
         stack' = Append(stack, Activity(c))
  PROVE  stack' \in Seq(Frame) /\ CallsOnStops(stack')
<1>1. Activity(c) \in Frame
  BY PlacesAreNat DEF Activity, Frame, PlaceInProgram
<1>2. stack = <<>> \/ Top.what = "stop"
  BY DEF TargetInv, Listening, Idle, Stopped
<1> QED
  BY <1>1, <1>2, PushProperties

-----------------------------------------------------------------------------
(***************************************************************************)
(* TargetInv holds initially, and every action keeps it.                   *)
(***************************************************************************)
LEMMA TargetInvInit == StubInit => TargetInv
<1> SUFFICES ASSUME StubInit PROVE TargetInv
  OBVIOUS
<1>1. stack \in Seq(Frame) /\ Len(stack) = 0
  BY EmptySeq DEF StubInit
<1>2. pc \in PlaceInProgram /\ pc # PollLoop /\ 0 \in Nat
  BY PlacesAreNat DEF StubInit, PlaceInProgram
<1>3. CallsOnStops(stack)
  BY <1>1 DEF CallsOnStops
<1> QED
  BY <1>1, <1>2, <1>3, TableAssumption DEF StubInit, TargetInv, NULL

(* An instruction in place leads to HBOOT's code or to its command loop.   *)
LEMMA ExecuteCodeStays ==
  ASSUME TableInv, WordsAtHome, ExecuteCode
  PROVE  pc' \in Code \cup {Exit} /\ last' \in Word
<1>1. pc \in Code /\ mem[pc] \in WordsOf(pc) /\ mem[pc] # ARM_BKPT
  BY DEF ExecuteCode, WordsAtHome
<1>2. last' \in Word
  BY <1>1 DEF ExecuteCode, TableInv, TableTypeOK
<1>3. PICK d \in Flow[mem[pc]] : pc' = pc + d
  BY DEF ExecuteCode
<1>4. CASE mem[pc] = InitText[pc]
  BY <1>1, <1>2, <1>3, <1>4, ProgramAssumption
<1>5. CASE mem[pc] \in HostWord
  BY <1>1, <1>2, <1>3, <1>5, ProgramAssumption
<1> QED
  BY <1>1, <1>4, <1>5 DEF WordsOf

LEMMA CpuStepKeeps ==
  ASSUME StubInv, CpuStep
  PROVE  TargetInv'
<1> USE DEF StubInv
<1>0. /\ Code \cup {Exit, NULL} \subseteq PlaceInProgram
      /\ \A i \in Slot : OrigAddr(i) \in PlaceInProgram /\ BackAddr(i) \in PlaceInProgram
      /\ PollLoop \notin PlaceInProgram
  BY PlacesAreNat DEF PlaceInProgram
<1>1. CASE ExecuteCode
  BY <1>0, <1>1, ExecuteCodeStays DEF ExecuteCode, TargetInv, Top
<1>2. CASE ExecuteSlot
  <2>1. PICK i \in Slot :
          /\ last' = bp[i].original
          /\ pc' \in {IF d = 1 THEN BackAddr(i) ELSE NULL : d \in Flow[bp[i].original]}
    BY <1>2 DEF ExecuteSlot
  <2>2. last' \in Word
    BY <2>1 DEF TableInv, TableTypeOK, Breakpoint
  <2>3. pc' \in PlaceInProgram
    BY <1>0, <2>1
  <2> QED
    BY <1>0, <1>2, <2>2, <2>3 DEF ExecuteSlot, TargetInv, Top
<1>3. CASE ExecuteBack
  <2>1. pc' \in PlaceInProgram
    BY <1>0, <1>3, LandsInProgram DEF ExecuteBack
  <2> QED
    BY <1>0, <1>3, <2>1 DEF ExecuteBack, TargetInv, Top
<1>4. CASE Trap
  BY <1>4, TrapKeeps DEF Trap, breakpoint_handler, TargetInv
<1>5. CASE UnhookedTrap
  BY <1>0, <1>5 DEF UnhookedTrap, TargetInv, Top
<1>6. CASE EndOfCmdBreakpoint
  BY <1>6, ReturnKeeps DEF EndOfCmdBreakpoint, TargetInv
<1>7. CASE EndOfCmdCall
  BY <1>7, ReturnKeeps DEF EndOfCmdCall, TargetInv
<1> QED
  BY <1>1, <1>2, <1>3, <1>4, <1>5, <1>6, <1>7 DEF CpuStep

LEMMA RestartKeeps ==
  ASSUME PowerCycle
  PROVE  TargetInv'
<1>1. stack' \in Seq(Frame) /\ Len(stack') = 0
  BY EmptySeq DEF PowerCycle
<1>2. pc' \in PlaceInProgram /\ pc' # PollLoop /\ 0 \in Nat
  BY PlacesAreNat DEF PowerCycle, PlaceInProgram
<1>3. CallsOnStops(stack')
  BY <1>1 DEF CallsOnStops
<1> QED
  BY <1>1, <1>2, <1>3, TableAssumption DEF PowerCycle, TargetInv, NULL

LEMMA CommandKeeps ==
  ASSUME StubInv, cmd_dispatcher
  PROVE  TargetInv'
<1> USE DEF StubInv
<1>0. /\ {Entry, CmdBkpt, NULL} \subseteq PlaceInProgram
      /\ PollLoop \notin PlaceInProgram
      /\ NULL \in Nat
  BY PlacesAreNat, ProgramAssumption DEF PlaceInProgram, NULL
<1>1. CASE Listening /\ cmd_attach
  BY <1>0, <1>1 DEF cmd_attach, TargetInv, Top
<1>2. CASE Listening /\ cmd_detach
  <2>1. CASE Stopped
    BY <1>0, <1>2, <2>1, ResumeKeeps DEF cmd_detach, TargetInv
  <2>2. CASE ~Stopped
    BY <1>2, <2>2 DEF cmd_detach, TargetInv, Top
  <2> QED
    BY <2>1, <2>2
<1>3. CASE ContinueCommand
  <2>1. PICK error \in ErrorCode : cmd_breakpoint_continue(error)
    BY <1>3 DEF ContinueCommand
  <2>2. CASE Stopped
    BY <1>0, <2>1, <2>2, ResumeKeeps DEF cmd_breakpoint_continue, TargetInv
  <2>3. CASE ~Stopped
    BY <2>1, <2>3 DEF cmd_breakpoint_continue, TargetInv, Top
  <2> QED
    BY <2>2, <2>3
<1>4. CASE Listening /\ NoEffect
  BY <1>4 DEF NoEffect, TargetInv, Top
<1>5. CASE WriteCommand
  BY <1>5 DEF WriteCommand, cmd_write, TargetInv, Top
<1>6. CASE InsertCommand
  BY <1>6 DEF InsertCommand, cmd_insert_breakpoint, TargetInv, Top
<1>7. CASE RemoveCommand
  BY <1>7 DEF RemoveCommand, cmd_remove_breakpoint, TargetInv, Top
<1>8. CASE Listening /\ InsertUnmapped
  BY <1>0, <1>8 DEF InsertUnmapped, TargetInv, Top
<1>9. CASE Listening /\ cmd_breakpoint
  <2>1. stack' \in Seq(Frame) /\ CallsOnStops(stack')
    BY <1>9, CallKeeps DEF cmd_breakpoint
  <2> QED
    BY <1>0, <1>9, <2>1 DEF cmd_breakpoint, TargetInv
<1>10. CASE Listening /\ cmd_call
  <2>1. stack' \in Seq(Frame) /\ CallsOnStops(stack')
    BY <1>10, CallKeeps DEF cmd_call
  <2> QED
    BY <1>0, <1>10, <2>1 DEF cmd_call, TargetInv
<1>11. CASE Listening /\ cmd_fastboot_reboot
  BY <1>11, RestartKeeps DEF cmd_fastboot_reboot
<1> QED
  BY <1>1, <1>2, <1>3, <1>4, <1>5, <1>6, <1>7, <1>8, <1>9, <1>10, <1>11
  DEF cmd_dispatcher

LEMMA StubInvInit == StubInit => StubInv
<1> SUFFICES ASSUME StubInit PROVE StubInv
  OBVIOUS
<1>1. TableInv
  BY TableInvInit DEF StubInit
<1>2. WordsAtHome
  BY DEF StubInit, TableInit, WordsAtHome, WordsOf, Active
<1> QED
  BY <1>1, <1>2, TargetInvInit DEF StubInv

LEMMA StubInvNext == StubInv /\ [StubNext]_stubVars => StubInv'
<1> SUFFICES ASSUME StubInv, [StubNext]_stubVars PROVE StubInv'
  OBVIOUS
<1>1. CASE UNCHANGED stubVars
  BY <1>1 DEF stubVars, targetVars, tableVars, StubInv, TableInv, TableTypeOK,
              DistinctAddresses, ActiveInCode, Active, WordsAtHome, TargetInv, Top
<1>2. CASE StubNext
  <2>1. TableInv' /\ WordsAtHome'
    BY <1>2, StubTableStep, TableInvKept, WordsKept DEF StubInv
  <2>2. CASE FastbootCommand
    <3>1. Entry \in PlaceInProgram /\ PollLoop \notin PlaceInProgram
      BY PlacesAreNat, ProgramAssumption DEF PlaceInProgram
    <3> QED
      BY <2>1, <2>2, <3>1 DEF FastbootCommand, StubInv, TargetInv
  <2> QED
    BY <1>2, <2>1, <2>2, CpuStepKeeps, RestartKeeps, CommandKeeps DEF StubNext, StubInv
<1> QED
  BY <1>1, <1>2

(* The invariant holds in every reachable state.                           *)
THEOREM StubInvariant == StubSpec => []StubInv
<1> QED
  BY StubInvInit, StubInvNext, PTL DEF StubSpec

(* The types hold in every reachable state, for a host that keeps no rule. *)
THEOREM StubTypeCorrect == StubSpec => []StubTypeOK
<1>1. StubInv => StubTypeOK
  BY DEF StubInv, TableInv, TargetInv, StubTypeOK, Frame, PlaceInProgram
<1> QED
  BY <1>1, StubInvariant, PTL

-----------------------------------------------------------------------------
(***************************************************************************)
(* An armed address stops the target, for a host that attaches before it   *)
(* inserts and does not write over what it inserted.                       *)
(***************************************************************************)
LEMMA ArmedStopsTable ==
  ASSUME StubInv, ArmedStops, hooked' = hooked,
         \/ UNCHANGED tableVars
         \/ InsertStep /\ hooked
         \/ RemoveStep
  PROVE  ArmedStops'
<1> USE DEF StubInv, TableInv
<1>1. CASE UNCHANGED tableVars
  BY <1>1 DEF tableVars, ArmedStops, HasBreakpoint, Active
<1>2. CASE InsertStep /\ hooked
  <2>1. PICK a \in Code, error \in ErrorCode : insert_breakpoint(a, error)
    BY <1>2 DEF InsertStep
  <2>2. CASE /\ alloc_breakpoint
             /\ bp' = [bp EXCEPT ![bp_size] = Trampoline(bp_size, a)]
             /\ mem' = [mem EXCEPT ![a] = ARM_BKPT]
    <3>1. bp_size \in Slot /\ bp_size \in Nat /\ bp_size' = bp_size + 1
      BY <2>2, TableAssumption DEF TableTypeOK, alloc_breakpoint, TableFull, Slot
    <3>2. bp'[bp_size].address = a /\ \A i \in Active : bp'[i] = bp[i]
      BY <2>2, <3>1, ActiveIsSlot DEF TableTypeOK, Trampoline
    <3>3. \A i \in Active' : i \in Active \/ i = bp_size
      BY <3>1 DEF Active
    <3>4. \A b \in Code : HasBreakpoint(b)' => HasBreakpoint(b) \/ b = a
      BY <3>2, <3>3 DEF HasBreakpoint
    <3> QED
      BY <1>2, <2>2, <3>4 DEF ArmedStops, TableTypeOK
  <2> QED
    BY <1>1, <2>1, <2>2 DEF insert_breakpoint
<1>3. CASE RemoveStep
  <2>1. PICK a \in Code, error \in ErrorCode : remove_breakpoint(a, error)
    BY <1>3 DEF RemoveStep
  <2>2. CASE /\ HasBreakpoint(a)
             /\ mem' = [mem EXCEPT ![a] = bp[get_breakpoint(a)].original]
             /\ free_breakpoint(a)
    <3> DEFINE g == get_breakpoint(a)
    <3>1. g \in Active /\ bp[g].address = a
      BY <2>2, GetBreakpointFinds
    <3>2. bp_size \in Nat /\ bp_size' = bp_size - 1 /\ g \in Slot /\ bp_size - 1 \in Active
      BY <2>2, <3>1, ActiveIsSlot DEF free_breakpoint, TableTypeOK, Active
    <3>3. bp' = [bp EXCEPT ![g] = bp[bp_size - 1]]
      BY <2>2 DEF free_breakpoint
    <3> HIDE DEF g
    <3>4. \A i \in Active' : /\ i \in Active /\ i # bp_size - 1
                            /\ bp'[i] = IF i = g THEN bp[bp_size - 1] ELSE bp[i]
      BY <3>2, <3>3, ActiveIsSlot DEF TableTypeOK, Active
    <3>5. ASSUME NEW b \in Code, HasBreakpoint(b)'
          PROVE  b # a /\ HasBreakpoint(b)
      <4>1. PICK i \in Active' : bp'[i].address = b
        BY <3>5 DEF HasBreakpoint
      <4>2. CASE i = g
        BY <3>1, <3>2, <3>4, <4>1, <4>2 DEF DistinctAddresses, HasBreakpoint
      <4>3. CASE i # g
        BY <3>1, <3>4, <4>1, <4>3 DEF DistinctAddresses, HasBreakpoint
      <4> QED
        BY <4>2, <4>3
    <3> QED
      BY <2>2, <3>5 DEF ArmedStops, TableTypeOK
  <2> QED
    BY <1>1, <2>1, <2>2 DEF remove_breakpoint
<1> QED
  BY <1>1, <1>2, <1>3

LEMMA ArmedStopsNext ==
  ASSUME "AttachFirst" \in Rules, "NoOverwrite" \in Rules,
         StubInv, ArmedStops, [StubNext]_stubVars
  PROVE  ArmedStops'
<1>1. CASE UNCHANGED tableVars /\ hooked' = hooked
  BY <1>1 DEF tableVars, ArmedStops, HasBreakpoint, Active
<1>2. CASE dbg_init
  BY <1>2 DEF dbg_init, ArmedStops, HasBreakpoint, Active
<1>3. CASE CpuStep \/ FastbootCommand
  BY <1>1, <1>3 DEF CpuStep, ExecuteCode, ExecuteSlot, ExecuteBack, Trap, UnhookedTrap,
                    EndOfCmdBreakpoint, EndOfCmdCall, FastbootCommand
<1>4. CASE cmd_dispatcher
  <2>1. CASE Listening /\ (cmd_attach \/ cmd_fastboot_reboot)
    BY <1>2, <2>1 DEF cmd_attach, cmd_fastboot_reboot, PowerCycle
  <2>2. CASE Listening /\ (cmd_detach \/ NoEffect \/ InsertUnmapped \/ cmd_breakpoint \/ cmd_call)
    BY <1>1, <2>2 DEF cmd_detach, NoEffect, InsertUnmapped, cmd_breakpoint, cmd_call
  <2>3. CASE ContinueCommand
    BY <1>1, <2>3 DEF ContinueCommand, cmd_breakpoint_continue
  <2>4. CASE WriteCommand
    <3>1. PICK a \in Code \cup Unmapped, w \in HostWord, error \in ErrorCode : cmd_write(a, w, error)
      BY <2>4 DEF WriteCommand
    <3>2. ~HasBreakpoint(a) /\ hooked' = hooked
      BY <3>1 DEF cmd_write, MayWrite, Keeps
    <3>3. \/ UNCHANGED tableVars
          \/ mem' = [mem EXCEPT ![a] = w] /\ UNCHANGED <<bp, bp_size>>
      BY <3>1 DEF cmd_write, write_word
    <3>4. CASE mem' = [mem EXCEPT ![a] = w] /\ UNCHANGED <<bp, bp_size>>
      BY <3>2, <3>4 DEF ArmedStops, HasBreakpoint, Active, StubInv, TableInv, TableTypeOK
    <3> QED
      BY <1>1, <3>2, <3>3, <3>4
  <2>5. CASE InsertCommand
    <3>1. hooked /\ hooked' = hooked
      BY <2>5 DEF InsertCommand, cmd_insert_breakpoint, MayInsert, Keeps
    <3>2. UNCHANGED tableVars \/ InsertStep
      <4>1. PICK a \in Code \cup Unmapped, error \in ErrorCode : cmd_insert_breakpoint(a, error)
        BY <2>5 DEF InsertCommand
      <4>2. (a \in Code \/ TableFull) /\ insert_breakpoint(a, error)
        BY <4>1 DEF cmd_insert_breakpoint
      <4>3. TableFull => UNCHANGED tableVars
        BY <4>2 DEF insert_breakpoint, alloc_breakpoint
      <4> QED
        BY <4>2, <4>3 DEF InsertStep
    <3> QED
      BY <3>1, <3>2, ArmedStopsTable
  <2>6. CASE RemoveCommand
    <3>1. PICK a \in Code \cup Unmapped, error \in ErrorCode : cmd_remove_breakpoint(a, error)
      BY <2>6 DEF RemoveCommand
    <3>2. remove_breakpoint(a, error) /\ hooked' = hooked
      BY <3>1 DEF cmd_remove_breakpoint
    <3>3. CASE a \in Code
      BY <3>2, <3>3, ArmedStopsTable DEF RemoveStep
    <3>4. CASE a \notin Code
      BY <1>1, <3>2, <3>4 DEF remove_breakpoint, HasBreakpoint, StubInv, TableInv, ActiveInCode
    <3> QED
      BY <3>3, <3>4
  <2> QED
    BY <1>4, <2>1, <2>2, <2>3, <2>4, <2>5, <2>6 DEF cmd_dispatcher
<1> QED
  BY <1>1, <1>2, <1>3, <1>4 DEF StubNext, PowerCycle, stubVars, targetVars

(* An address with a breakpoint stops the target: its bkpt instruction is  *)
(* in memory and the abort vector leads to the debugger.                   *)
THEOREM ArmedAddressesStop ==
  ASSUME "AttachFirst" \in Rules, "NoOverwrite" \in Rules
  PROVE  StubSpec => []ArmedStops
<1>1. StubInit => ArmedStops
  BY DEF StubInit, TableInit, ArmedStops, HasBreakpoint, Active
<1>2. StubInv /\ ArmedStops /\ [StubNext]_stubVars => ArmedStops'
  BY ArmedStopsNext
<1> QED
  BY <1>1, <1>2, StubInvariant, PTL DEF StubSpec

-----------------------------------------------------------------------------
(***************************************************************************)
(* HBOOT's program changes only where the host writes, for a host that     *)
(* attaches with no breakpoint set.                                        *)
(***************************************************************************)
TextEntries ==
  /\ \A i \in Active : Text[bp[i].address] = bp[i].original
  /\ \A b \in Code : ~HasBreakpoint(b) => Text[b] = mem[b]

LEMMA TextByEntry == TableInv => TextEntries
<1> SUFFICES ASSUME TableInv PROVE TextEntries
  OBVIOUS
<1>1. \A i \in Active : /\ bp[i].address \in Code
                       /\ HasBreakpoint(bp[i].address)
                       /\ get_breakpoint(bp[i].address) = i
  BY SavedByIndex DEF TableInv, ActiveInCode
<1> QED
  BY <1>1 DEF Text, TextEntries

(* Two texts are the same when they agree on every address.                *)
LEMMA SameText ==
  ASSUME \A a \in Code : Text'[a] = Text[a]
  PROVE  Text' = Text
BY DEF Text

LEMMA InsertKeepsText ==
  ASSUME TableInv, TableInv', NEW a \in Code, NEW error, insert_breakpoint(a, error)
  PROVE  Text' = Text
<1>0. TextEntries /\ TextEntries'
  BY TextByEntry, PTL
<1> USE DEF TableInv
<1>1. CASE UNCHANGED tableVars
  BY <1>1 DEF tableVars, Text, HasBreakpoint, Active, get_breakpoint
<1>2. CASE /\ ~HasBreakpoint(a)
           /\ alloc_breakpoint
           /\ bp' = [bp EXCEPT ![bp_size] = Trampoline(bp_size, a)]
           /\ mem' = [mem EXCEPT ![a] = ARM_BKPT]
  <2>1. bp_size \in Slot /\ bp_size \in Nat /\ bp_size' = bp_size + 1
    BY <1>2, TableAssumption DEF TableTypeOK, alloc_breakpoint, TableFull, Slot
  <2>2. /\ bp'[bp_size].address = a
        /\ bp'[bp_size].original = mem[a]
        /\ \A i \in Active : bp'[i] = bp[i]
    BY <1>2, <2>1, ActiveIsSlot DEF TableTypeOK, Trampoline
  <2>3. bp_size \in Active' /\ \A i \in Active : i \in Active'
    BY <2>1 DEF Active
  <2>4. \A i \in Active' : i \in Active \/ i = bp_size
    BY <2>1 DEF Active
  <2>5. /\ \A i \in Active : Text[bp[i].address] = bp[i].original
        /\ \A b \in Code : ~HasBreakpoint(b) => Text[b] = mem[b]
    BY <1>0 DEF TextEntries
  <2>6. /\ \A i \in Active' : Text'[bp'[i].address] = bp'[i].original
        /\ \A b \in Code : ~HasBreakpoint(b)' => Text'[b] = mem'[b]
    BY <1>0 DEF TextEntries
  <2> SUFFICES ASSUME NEW b \in Code PROVE Text'[b] = Text[b]
    BY SameText
  <2>7. CASE b = a
    BY <1>2, <2>2, <2>3, <2>5, <2>6, <2>7
  <2>8. CASE b # a /\ HasBreakpoint(b)
    BY <2>2, <2>3, <2>5, <2>6, <2>8 DEF HasBreakpoint
  <2>9. CASE b # a /\ ~HasBreakpoint(b)
    <3>1. ~HasBreakpoint(b)'
      BY <2>2, <2>4, <2>9 DEF HasBreakpoint
    <3> QED
      BY <1>2, <2>5, <2>6, <2>9, <3>1 DEF TableTypeOK
  <2> QED
    BY <2>7, <2>8, <2>9
<1> QED
  BY <1>1, <1>2 DEF insert_breakpoint

LEMMA RemoveKeepsText ==
  ASSUME TableInv, TableInv', NEW a \in Code, NEW error, remove_breakpoint(a, error)
  PROVE  Text' = Text
<1>0. TextEntries /\ TextEntries'
  BY TextByEntry, PTL
<1> USE DEF TableInv
<1>1. CASE UNCHANGED tableVars
  BY <1>1 DEF tableVars, Text, HasBreakpoint, Active, get_breakpoint
<1>2. CASE /\ HasBreakpoint(a)
           /\ mem' = [mem EXCEPT ![a] = bp[get_breakpoint(a)].original]
           /\ free_breakpoint(a)
  <2> DEFINE g == get_breakpoint(a)
  <2>1. g \in Active /\ bp[g].address = a
    BY <1>2, GetBreakpointFinds
  <2>2. /\ bp_size \in Nat /\ bp_size' = bp_size - 1
        /\ g \in Slot /\ g \in Nat /\ g <= bp_size - 1
        /\ bp_size - 1 \in Active
    BY <1>2, <2>1, ActiveIsSlot DEF free_breakpoint, TableTypeOK, Active
  <2>3. /\ bp' = [bp EXCEPT ![g] = bp[bp_size - 1]]
        /\ mem' = [mem EXCEPT ![a] = bp[g].original]
    BY <1>2 DEF free_breakpoint
  <2> HIDE DEF g
  <2>4. \A i \in Active' : /\ i \in Active /\ i # bp_size - 1
                          /\ bp'[i] = IF i = g THEN bp[bp_size - 1] ELSE bp[i]
    BY <2>2, <2>3, ActiveIsSlot DEF TableTypeOK, Active
  <2>5. \A i \in Active : i # bp_size - 1 => i \in Active'
    BY <2>2 DEF Active
  <2>6. /\ \A i \in Active : Text[bp[i].address] = bp[i].original
        /\ \A b \in Code : ~HasBreakpoint(b) => Text[b] = mem[b]
    BY <1>0 DEF TextEntries
  <2>7. /\ \A i \in Active' : Text'[bp'[i].address] = bp'[i].original
        /\ \A b \in Code : ~HasBreakpoint(b)' => Text'[b] = mem'[b]
    BY <1>0 DEF TextEntries
  <2>8. ASSUME NEW b \in Code, HasBreakpoint(b)'
        PROVE  b # a /\ HasBreakpoint(b)
    <3>1. PICK i \in Active' : bp'[i].address = b
      BY <2>8 DEF HasBreakpoint
    <3>2. CASE i = g
      BY <2>1, <2>2, <2>4, <3>1, <3>2 DEF DistinctAddresses, HasBreakpoint
    <3>3. CASE i # g
      BY <2>1, <2>4, <3>1, <3>3 DEF DistinctAddresses, HasBreakpoint
    <3> QED
      BY <3>2, <3>3
  <2>9. ASSUME NEW i \in Active, i # g
        PROVE  \E j \in Active' : bp'[j] = bp[i]
    <3>1. CASE i = bp_size - 1
      <4>1. g \in Active' /\ bp'[g] = bp[i]
        BY <2>1, <2>4, <2>5, <2>9, <3>1
      <4> QED
        BY <4>1
    <3>2. CASE i # bp_size - 1
      BY <2>4, <2>5, <2>9, <3>2
    <3> QED
      BY <3>1, <3>2
  <2> SUFFICES ASSUME NEW b \in Code PROVE Text'[b] = Text[b]
    BY SameText
  <2>10. CASE b = a
    <3>1. ~HasBreakpoint(b)'
      BY <2>8, <2>10
    <3> QED
      BY <2>1, <2>3, <2>6, <2>7, <2>10, <3>1 DEF TableTypeOK
  <2>11. CASE b # a /\ HasBreakpoint(b)
    <3>1. PICK i \in Active : bp[i].address = b
      BY <2>11 DEF HasBreakpoint
    <3>2. PICK j \in Active' : bp'[j] = bp[i]
      BY <2>1, <2>9, <2>11, <3>1
    <3> QED
      BY <2>6, <2>7, <3>1, <3>2
  <2>12. CASE b # a /\ ~HasBreakpoint(b)
    <3>1. ~HasBreakpoint(b)'
      BY <2>8, <2>12
    <3> QED
      BY <2>3, <2>6, <2>7, <2>12, <3>1 DEF TableTypeOK
  <2> QED
    BY <2>10, <2>11, <2>12
<1> QED
  BY <1>1, <1>2 DEF remove_breakpoint

LEMMA WriteChangesText ==
  ASSUME TableInv, NEW a \in Code, NEW w \in HostWord, NEW error, cmd_write(a, w, error)
  PROVE  \/ Text' = Text
         \/ cmd_write(a, w, "SUCCESS") /\ Text' = [Text EXCEPT ![a] = w]
<1>1. /\ mem' = [mem EXCEPT ![a] = w] /\ UNCHANGED <<bp, bp_size>>
      /\ cmd_write(a, w, "SUCCESS")
  BY LayoutAssumption DEF cmd_write, write_word
<1>2. /\ \A b : HasBreakpoint(b)' <=> HasBreakpoint(b)
      /\ \A b : get_breakpoint(b)' = get_breakpoint(b)
  BY <1>1 DEF HasBreakpoint, Active, get_breakpoint
<1>3. \A b \in Code : mem'[b] = IF b = a THEN w ELSE mem[b]
  BY <1>1 DEF TableInv, TableTypeOK
<1>4. CASE HasBreakpoint(a)
  BY <1>1, <1>2, <1>3, <1>4 DEF Text
<1>5. CASE ~HasBreakpoint(a)
  BY <1>1, <1>2, <1>3, <1>5 DEF Text
<1> QED
  BY <1>1, <1>4, <1>5

LEMMA StubKeepsText ==
  ASSUME "AttachFresh" \in Rules, StubInv, StubInv', StubNext
  PROVE  \/ Text' = Text
         \/ \E a \in Code, w \in HostWord : /\ cmd_write(a, w, "SUCCESS")
                                           /\ Text' = [Text EXCEPT ![a] = w]
         \/ PowerCycle
<1>1. CASE UNCHANGED tableVars
  BY <1>1 DEF tableVars, Text, HasBreakpoint, Active, get_breakpoint
<1>2. CASE CpuStep \/ FastbootCommand
  BY <1>1, <1>2 DEF CpuStep, ExecuteCode, ExecuteSlot, ExecuteBack, Trap, UnhookedTrap,
                    EndOfCmdBreakpoint, EndOfCmdCall, FastbootCommand
<1>3. CASE cmd_dispatcher
  <2>1. CASE Listening /\ cmd_attach
    <3>1. UNCHANGED mem /\ Active = {} /\ Active' = {}
      BY <2>1 DEF cmd_attach, MayAttach, Keeps, dbg_init, Active
    <3> QED
      BY <3>1 DEF Text, HasBreakpoint
  <2>2. CASE Listening /\ (cmd_detach \/ NoEffect \/ InsertUnmapped \/ cmd_breakpoint \/ cmd_call)
    BY <1>1, <2>2 DEF cmd_detach, NoEffect, InsertUnmapped, cmd_breakpoint, cmd_call
  <2>3. CASE ContinueCommand
    BY <1>1, <2>3 DEF ContinueCommand, cmd_breakpoint_continue
  <2>4. CASE WriteCommand
    <3>1. PICK a \in Code \cup Unmapped, w \in HostWord, error \in ErrorCode : cmd_write(a, w, error)
      BY <2>4 DEF WriteCommand
    <3>2. CASE a \in Code
      BY <3>1, <3>2, WriteChangesText DEF StubInv
    <3>3. CASE a \notin Code
      BY <1>1, <3>1, <3>3 DEF cmd_write
    <3> QED
      BY <3>2, <3>3
  <2>5. CASE InsertCommand
    <3>1. PICK a \in Code \cup Unmapped, error \in ErrorCode : cmd_insert_breakpoint(a, error)
      BY <2>5 DEF InsertCommand
    <3>2. (a \in Code \/ TableFull) /\ insert_breakpoint(a, error)
      BY <3>1 DEF cmd_insert_breakpoint
    <3>3. CASE a \in Code
      BY <3>2, <3>3, InsertKeepsText DEF StubInv
    <3>4. CASE TableFull
      BY <1>1, <3>2, <3>4 DEF insert_breakpoint, alloc_breakpoint
    <3> QED
      BY <3>2, <3>3, <3>4
  <2>6. CASE RemoveCommand
    <3>1. PICK a \in Code \cup Unmapped, error \in ErrorCode : cmd_remove_breakpoint(a, error)
      BY <2>6 DEF RemoveCommand
    <3>2. remove_breakpoint(a, error)
      BY <3>1 DEF cmd_remove_breakpoint
    <3>3. CASE a \in Code
      BY <3>2, <3>3, RemoveKeepsText DEF StubInv
    <3>4. CASE a \notin Code
      BY <1>1, <3>2, <3>4 DEF remove_breakpoint, HasBreakpoint, StubInv, TableInv, ActiveInCode
    <3> QED
      BY <3>3, <3>4
  <2> QED
    BY <1>3, <2>1, <2>2, <2>3, <2>4, <2>5, <2>6 DEF cmd_dispatcher, cmd_fastboot_reboot
<1> QED
  BY <1>2, <1>3 DEF StubNext

(* HBOOT's program, breakpoints taken out, changes only at an address the  *)
(* host writes, for a host that attaches with no breakpoint set.           *)
THEOREM TextIsPreserved ==
  ASSUME "AttachFresh" \in Rules
  PROVE  StubSpec => TextPreserved
<1> DEFINE Kept == \/ Text' = Text
                   \/ \E a \in Code, w \in HostWord : /\ cmd_write(a, w, "SUCCESS")
                                                     /\ Text' = [Text EXCEPT ![a] = w]
                   \/ PowerCycle
<1>1. StubInv /\ StubInv' /\ [StubNext]_stubVars => [Kept]_stubVars
  BY StubKeepsText
<1> QED
  BY <1>1, StubInvariant, PTL DEF StubSpec, TextPreserved
=============================================================================
