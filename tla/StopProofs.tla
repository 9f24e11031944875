----------------------------- MODULE StopProofs -----------------------------
(***************************************************************************)
(* Where the target stops, and that it can always leave the stop.          *)
(***************************************************************************)
EXTENDS DebugStubProofs

-----------------------------------------------------------------------------
(***************************************************************************)
(* The places of the layout are different ones.                            *)
(***************************************************************************)
LEMMA PlacesApart ==
  /\ PollLoop \notin Code \cup SlotAddr \cup {Exit, NULL, CmdBkpt, CmdRet}
  /\ {CmdBkpt, CmdRet} \cap (Code \cup SlotAddr \cup {Exit, NULL}) = {}
  /\ CmdBkpt # CmdRet /\ CmdRet = CmdBkpt + 1
  /\ Code \cap SlotAddr = {} /\ Exit \notin Code \cup SlotAddr
  /\ NULL \notin Code \cup SlotAddr \cup {Exit}
  /\ Entry \in Code
<1>1. Code \cap SlotAddr = {}
  BY LinkAssumption DEF SlotAddr
<1>2. CmdBkpt # CmdRet /\ CmdRet = CmdBkpt + 1
  BY LayoutAssumption DEF CmdRet
<1>3. NULL \notin Code
  BY TableAssumption
<1> QED
  BY <1>1, <1>2, <1>3, LayoutAssumption, ProgramAssumption

LEMMA SlotPlaces ==
  /\ \A i \in Slot : OrigAddr(i) \in SlotAddr /\ BackAddr(i) \in SlotAddr
  /\ \A i, j \in Slot : /\ OrigAddr(i) = OrigAddr(j) => i = j
                        /\ BackAddr(i) = BackAddr(j) => i = j
                        /\ OrigAddr(i) # BackAddr(j)
BY PlacesAreNat, TableAssumption, SMT DEF OrigAddr, BackAddr, SlotWords, Slot

(***************************************************************************)
(* What Append and Pop do to the activations.                              *)
(***************************************************************************)
LEMMA Pushed ==
  ASSUME TargetInv, NEW f \in Frame
  PROVE  LET s == Append(stack, f)
         IN /\ Len(stack) \in Nat /\ Len(s) = Len(stack) + 1
            /\ \A i \in 1 .. Len(stack) : s[i] = stack[i]
            /\ s[Len(stack) + 1] = f
            /\ s # <<>>
BY AppendProperties, LenProperties DEF TargetInv

LEMMA Popped ==
  ASSUME TargetInv, stack # <<>>
  PROVE  /\ Len(stack) \in Nat /\ Len(stack) >= 1 /\ Len(Pop) = Len(stack) - 1
         /\ \A i \in 1 .. Len(stack) - 1 : Pop[i] = stack[i]
         /\ Pop = <<>> <=> Len(stack) = 1
         /\ Top = stack[Len(stack)]
<1> DEFINE n == Len(stack) - 1
<1>1. /\ stack \in Seq(Frame) /\ n \in Nat
      /\ \A i \in 1 .. Len(stack) : stack[i] \in Frame
  BY EmptySeq, ElementOfSeq, LenProperties DEF TargetInv
<1>2. \A i \in 1 .. n : stack[i] \in Frame
  BY <1>1
<1>3. Pop = SubSeq(stack, 1, n)
  BY DEF Pop
<1>4. n + 1 = Len(stack) /\ Len(stack) \in Nat
  BY <1>1, LenProperties
<1> HIDE DEF n
<1>5. /\ SubSeq(stack, 1, n) \in Seq(Frame)
      /\ Len(SubSeq(stack, 1, n)) = IF 1 <= n THEN n - 1 + 1 ELSE 0
      /\ \A i \in 1 .. n - 1 + 1 : SubSeq(stack, 1, n)[i] = stack[1 + i - 1]
  BY <1>1, <1>2, SubSeqProperties
<1>6. Len(Pop) = n /\ Pop \in Seq(Frame)
  BY <1>1, <1>3, <1>5
<1>7. \A i \in 1 .. n : Pop[i] = stack[i]
  <2> SUFFICES ASSUME NEW i \in 1 .. n PROVE Pop[i] = stack[i]
    OBVIOUS
  <2>1. i \in 1 .. n - 1 + 1 /\ 1 + i - 1 = i
    BY <1>1
  <2> QED
    BY <1>3, <1>5, <2>1
<1>8. Pop = <<>> <=> n = 0
  BY <1>6, EmptySeq
<1>9. Len(stack) - 1 = n /\ Len(stack) >= 1
  BY <1>1, <1>4
<1> QED
  BY <1>4, <1>6, <1>7, <1>8, <1>9 DEF Top

-----------------------------------------------------------------------------
(***************************************************************************)
(* A stop is where a bkpt instruction can be, for every host.              *)
(***************************************************************************)
StopPlace == Code \cup SlotAddr \cup {CmdBkpt}

StopsInProgram ==
  \A i \in 1 .. Len(stack) : stack[i].what = "stop" => stack[i].pc \in StopPlace

StackStep ==
  \/ stack' = stack
  \/ stack' = <<>>
  \/ stack # <<>> /\ stack' = Pop
  \/ stack' = Append(stack, Activity("cmd_breakpoint"))
  \/ stack' = Append(stack, Activity("cmd_call"))
  \/ stack' = Append(stack, Stop(pc)) /\ pc \in StopPlace

LEMMA StubStackStep ==
  ASSUME StubInv, [StubNext]_stubVars
  PROVE  StackStep
<1> USE DEF StackStep
<1>1. CASE UNCHANGED stubVars
  BY <1>1 DEF stubVars, targetVars
<1>2. CASE ExecuteCode \/ ExecuteSlot \/ ExecuteBack \/ UnhookedTrap \/ FastbootCommand
  BY <1>2 DEF ExecuteCode, ExecuteSlot, ExecuteBack, UnhookedTrap, FastbootCommand
<1>3. CASE Trap
  <2>1. pc \in StopPlace
    BY <1>3, PlacesAreNat DEF Trap, AtBkpt, StopPlace
  <2> QED
    BY <1>3, <2>1 DEF Trap, breakpoint_handler
<1>4. CASE EndOfCmdBreakpoint \/ EndOfCmdCall
  BY <1>4 DEF EndOfCmdBreakpoint, EndOfCmdCall, Return
<1>5. CASE PowerCycle
  BY <1>5 DEF PowerCycle
<1>6. CASE cmd_dispatcher
  <2>1. Stopped => stack # <<>>
    BY DEF StubInv, TargetInv, Stopped
  <2>2. CASE Listening /\ (cmd_attach \/ NoEffect \/ InsertUnmapped)
    BY <2>2 DEF cmd_attach, NoEffect, InsertUnmapped
  <2>3. CASE Listening /\ cmd_detach
    BY <2>1, <2>3 DEF cmd_detach, Resume
  <2>4. CASE ContinueCommand
    BY <2>1, <2>4 DEF ContinueCommand, cmd_breakpoint_continue, Resume
  <2>5. CASE WriteCommand \/ InsertCommand \/ RemoveCommand
    BY <2>5 DEF WriteCommand, cmd_write, InsertCommand, cmd_insert_breakpoint,
                RemoveCommand, cmd_remove_breakpoint
  <2>6. CASE Listening /\ (cmd_breakpoint \/ cmd_call \/ cmd_fastboot_reboot)
    BY <2>6 DEF cmd_breakpoint, cmd_call, cmd_fastboot_reboot, PowerCycle
  <2> QED
    BY <1>6, <2>2, <2>3, <2>4, <2>5, <2>6 DEF cmd_dispatcher
<1> QED
  BY <1>1, <1>2, <1>3, <1>4, <1>5, <1>6 DEF StubNext, CpuStep

LEMMA StopsStayInProgram ==
  StubInv /\ StopsInProgram /\ [StubNext]_stubVars => StopsInProgram'
<1> SUFFICES ASSUME StubInv, StopsInProgram, [StubNext]_stubVars PROVE StopsInProgram'
  OBVIOUS
<1>0. TargetInv /\ StackStep
  BY StubStackStep DEF StubInv
<1>1. CASE stack' = stack
  BY <1>1 DEF StopsInProgram
<1>2. CASE stack' = <<>>
  <2>1. Len(stack') = 0
    BY <1>2
  <2> QED
    BY <2>1 DEF StopsInProgram
<1>3. CASE stack # <<>> /\ stack' = Pop
  BY <1>0, <1>3, Popped DEF StopsInProgram
<1>4. ASSUME NEW f \in Frame, f.what = "stop" => f.pc \in StopPlace, stack' = Append(stack, f)
      PROVE  StopsInProgram'
  <2>1. /\ Len(stack) \in Nat /\ Len(stack') = Len(stack) + 1
        /\ \A i \in 1 .. Len(stack) : stack'[i] = stack[i]
        /\ stack'[Len(stack) + 1] = f
    BY <1>0, <1>4, Pushed
  <2>2. ASSUME NEW i \in 1 .. Len(stack')
        PROVE  i \in 1 .. Len(stack) \/ i = Len(stack) + 1
    BY <2>1
  <2> QED
    BY <1>4, <2>1, <2>2 DEF StopsInProgram
<1>5. /\ Activity("cmd_breakpoint") \in Frame /\ Activity("cmd_breakpoint").what # "stop"
      /\ Activity("cmd_call") \in Frame /\ Activity("cmd_call").what # "stop"
      /\ Stop(pc) \in Frame /\ Stop(pc).pc = pc
  BY <1>0, PlacesAreNat DEF Activity, Stop, Frame, TargetInv, PlaceInProgram
<1> QED
  BY <1>0, <1>1, <1>2, <1>3, <1>4, <1>5 DEF StackStep

(* Every stop is at an address of HBOOT, in a trampoline or at the bkpt of *)
(* cmd_breakpoint.                                                         *)
THEOREM StopsAreInProgram == StubSpec => []StopsInProgram
<1>1. StubInit => StopsInProgram
  BY DEF StubInit, StopsInProgram
<1> QED
  BY <1>1, StopsStayInProgram, StubInvariant, PTL DEF StubSpec

-----------------------------------------------------------------------------
(***************************************************************************)
(* The breakpoints while the target runs: every entry in use is a working  *)
(* trampoline, and every bkpt instruction in HBOOT belongs to an entry.    *)
(***************************************************************************)
SlotSound(i) ==
  /\ bp[i].address \in Code
  /\ bp[i].original # ARM_BKPT
  /\ bp[i].back \in BranchField
  /\ BranchTarget(BackAddr(i), bp[i].back) = bp[i].address + 1

ArmedInv ==
  /\ \A i \in Active : SlotSound(i)
  /\ \A a \in Code : mem[a] = ARM_BKPT => HasBreakpoint(a)

(* For a host that does not write over breakpoints and removes the last    *)
(* one only.                                                               *)
OrderlyHost == {"NoOverwrite", "KeepSlots", "KeepLiveSlot", "AttachFresh", "NoNest"} \subseteq Rules

LEMMA TrampolineSound ==
  ASSUME NEW i \in Slot, NEW a \in Code
  PROVE  /\ cpu_get_branch(BackAddr(i), a + 1) \in BranchField
         /\ BranchTarget(BackAddr(i), cpu_get_branch(BackAddr(i), a + 1)) = a + 1
<1>1. /\ BackAddr(i) \in WordAddr /\ a + 1 \in WordAddr
      /\ Reaches(BackAddr(i), a + 1)
  BY LinkAssumption
<1>2. BackAddr(i) \in Int /\ a + 1 \in Int
  BY <1>1, WordAddrIsNat
<1> QED
  BY <1>1, <1>2, BranchFieldType, BranchRoundTrip

LEMMA InsertKeepsArmed ==
  ASSUME TableInv, ArmedInv, NEW a \in Code, NEW error, insert_breakpoint(a, error)
  PROVE  /\ ArmedInv'
         /\ bp' = bp \/ (bp_size < DBG_NBR_POINTS /\ \A i \in Slot : i # bp_size => bp'[i] = bp[i])
<1> USE DEF TableInv
<1>1. CASE UNCHANGED tableVars
  BY <1>1 DEF tableVars, ArmedInv, SlotSound, HasBreakpoint, Active
<1>2. CASE /\ ~HasBreakpoint(a)
           /\ alloc_breakpoint
           /\ bp' = [bp EXCEPT ![bp_size] = Trampoline(bp_size, a)]
           /\ mem' = [mem EXCEPT ![a] = ARM_BKPT]
  <2>1. bp_size \in Slot /\ bp_size \in Nat /\ bp_size' = bp_size + 1 /\ bp_size < DBG_NBR_POINTS
    BY <1>2, TableAssumption DEF TableTypeOK, alloc_breakpoint, TableFull, Slot
  <2>2. /\ bp'[bp_size] = Trampoline(bp_size, a)
        /\ \A i \in Slot : i # bp_size => bp'[i] = bp[i]
    BY <1>2, <2>1 DEF TableTypeOK
  <2>3. \A i \in Active' : (i \in Active /\ i # bp_size /\ i \in Slot) \/ i = bp_size
    BY <2>1, ActiveIsSlot DEF Active
  <2>4. Active \subseteq Active' /\ bp_size \in Active' /\ \A i \in Active : i # bp_size /\ i \in Slot
    BY <2>1, ActiveIsSlot DEF Active
  <2>5. mem[a] # ARM_BKPT
    BY <1>2 DEF ArmedInv
  <2>6. ASSUME NEW i \in Slot, i = bp_size PROVE SlotSound(i)'
    <3>1. bp'[i] = Trampoline(i, a)
      BY <2>2, <2>6
    <3> QED
      BY <2>5, <3>1, TrampolineSound DEF SlotSound, Trampoline
  <2>7. \A i \in Active : SlotSound(i)'
    BY <2>2, <2>4 DEF ArmedInv, SlotSound
  <2>8. ASSUME NEW b \in Code, mem'[b] = ARM_BKPT PROVE HasBreakpoint(b)'
    <3>1. CASE b = a
      BY <2>2, <2>4, <3>1 DEF HasBreakpoint, Trampoline
    <3>2. CASE b # a
      <4>1. mem[b] = ARM_BKPT
        BY <1>2, <2>8, <3>2 DEF TableTypeOK
      <4>2. PICK i \in Active : bp[i].address = b
        BY <4>1 DEF ArmedInv, HasBreakpoint
      <4> QED
        BY <2>2, <2>4, <4>2 DEF HasBreakpoint
    <3> QED
      BY <3>1, <3>2
  <2>9. ArmedInv'
    BY <2>1, <2>3, <2>6, <2>7, <2>8 DEF ArmedInv
  <2> QED
    BY <2>1, <2>2, <2>9
<1> QED
  BY <1>1, <1>2 DEF insert_breakpoint, tableVars

LEMMA RemoveKeepsArmed ==
  ASSUME TableInv, ArmedInv, NEW a \in Code, NEW error, remove_breakpoint(a, error),
         HasBreakpoint(a) => get_breakpoint(a) = bp_size - 1
  PROVE  ArmedInv' /\ bp' = bp
<1> USE DEF TableInv
<1>1. CASE UNCHANGED tableVars
  BY <1>1 DEF tableVars, ArmedInv, SlotSound, HasBreakpoint, Active
<1>2. CASE /\ HasBreakpoint(a)
           /\ mem' = [mem EXCEPT ![a] = bp[get_breakpoint(a)].original]
           /\ free_breakpoint(a)
  <2> DEFINE g == bp_size - 1
  <2>1. get_breakpoint(a) = g
    BY <1>2
  <2>2. g \in Active /\ bp[g].address = a
    BY <1>2, <2>1, GetBreakpointFinds
  <2>3. bp' = [bp EXCEPT ![g] = bp[g]] /\ bp_size' = bp_size - 1
    BY <1>2, <2>1 DEF free_breakpoint
  <2>4. bp' = bp
    BY <2>3 DEF TableTypeOK
  <2>5. bp_size \in Nat /\ \A i \in Active : i \in Active' \/ i = g
    BY <2>3 DEF TableTypeOK, Active
  <2>6. Active' \subseteq Active
    BY <2>3, <2>5 DEF Active
  <2>7. ASSUME NEW b \in Code, mem'[b] = ARM_BKPT PROVE HasBreakpoint(b)'
    <3>1. b # a
      BY <1>2, <2>1, <2>2, <2>7 DEF ArmedInv, SlotSound, TableTypeOK
    <3>2. mem[b] = ARM_BKPT
      BY <1>2, <2>7, <3>1 DEF TableTypeOK
    <3>3. PICK i \in Active : bp[i].address = b
      BY <3>2 DEF ArmedInv, HasBreakpoint
    <3> QED
      BY <2>2, <2>4, <2>5, <3>1, <3>3 DEF HasBreakpoint
  <2>8. ArmedInv'
    BY <2>4, <2>6, <2>7 DEF ArmedInv, SlotSound
  <2> QED
    BY <2>4, <2>8
<1> QED
  BY <1>1, <1>2 DEF remove_breakpoint, tableVars

LEMMA WriteKeepsArmed ==
  ASSUME TableInv, ArmedInv, NEW a \in Code, NEW w \in HostWord, write_word(a, w),
         UNCHANGED <<bp, bp_size>>
  PROVE  ArmedInv'
<1>1. w # ARM_BKPT
  BY ProgramAssumption
<1>2. \A b \in Code : mem'[b] = ARM_BKPT => mem[b] = ARM_BKPT
  BY <1>1 DEF write_word, TableInv, TableTypeOK
<1> QED
  BY <1>2 DEF ArmedInv, SlotSound, HasBreakpoint, Active

(* HBOOT's own words are no bkpt instructions.                             *)
LEMMA TextIsPlain ==
  ASSUME TableInv, ArmedInv, NEW a \in Code
  PROVE  Text[a] # ARM_BKPT
<1>1. CASE HasBreakpoint(a)
  BY <1>1, GetBreakpointFinds DEF Text, ArmedInv, SlotSound
<1>2. CASE ~HasBreakpoint(a)
  BY <1>2 DEF Text, ArmedInv
<1> QED
  BY <1>1, <1>2

-----------------------------------------------------------------------------
(***************************************************************************)
(* The activations.  Either HBOOT runs or is stopped, under calls the host *)
(* has made, or the command loop is in calls of cmd_breakpoint, each in    *)
(* the stop of the one before.  A trampoline that is executed works, and   *)
(* so does the one a stop is to be left through.                           *)
(***************************************************************************)
InHboot(s) ==
  \A i \in 1 .. Len(s) :
    \/ s[i] = Activity("cmd_call")
    \/ i = Len(s) /\ s[i].what = "stop" /\ s[i].pc \in Code

InCommands(s) ==
  \A i \in 1 .. Len(s) :
    \/ s[i] = Activity("cmd_breakpoint")
    \/ s[i] = Stop(CmdBkpt) /\ i > 1 /\ s[i - 1] = Activity("cmd_breakpoint")

PlainBelow(s) == \A i \in 1 .. Len(s) : s[i] = Activity("cmd_call")

StackInv ==
  /\ InHboot(stack) \/ InCommands(stack)
  /\ pc \in Code \cup SlotAddr \cup {Exit} => PlainBelow(stack)
  /\ pc \in {CmdBkpt, CmdRet} =>
       InCommands(stack) /\ stack # <<>> /\ Top = Activity("cmd_breakpoint")
  /\ (\E i \in 1 .. Len(stack) : stack[i] = Stop(CmdBkpt)) => continue_address = CmdRet
  /\ \A i \in Slot : pc \in {OrigAddr(i), BackAddr(i)} => SlotSound(i)
  /\ Stopped /\ Top.pc \in Code => WayOut(Top.pc)

-----------------------------------------------------------------------------
LEMMA PlainIsHboot == \A s : PlainBelow(s) => InHboot(s)
BY DEF PlainBelow, InHboot

LEMMA PushShape ==
  ASSUME TargetInv
  PROVE  /\ \A a \in Code : PlainBelow(stack) => InHboot(Append(stack, Stop(a)))
         /\ PlainBelow(stack) => PlainBelow(Append(stack, Activity("cmd_call")))
         /\ stack = <<>> \/ (InCommands(stack) /\ Top = Stop(CmdBkpt)) =>
              InCommands(Append(stack, Activity("cmd_breakpoint")))
         /\ InCommands(stack) /\ stack # <<>> /\ Top = Activity("cmd_breakpoint") =>
              InCommands(Append(stack, Stop(CmdBkpt)))
<1>1. /\ \A a \in Code \cup {CmdBkpt} : Stop(a) \in Frame /\ Stop(a).what = "stop" /\ Stop(a).pc = a
      /\ Activity("cmd_call") \in Frame /\ Activity("cmd_breakpoint") \in Frame
  BY PlacesAreNat DEF Stop, Activity, Frame, PlaceInProgram
<1>2. Len(stack) \in Nat
  BY LenProperties DEF TargetInv
<1>3. ASSUME NEW f \in Frame
      PROVE  /\ Len(Append(stack, f)) = Len(stack) + 1
             /\ \A i \in 1 .. Len(Append(stack, f)) :
                  \/ i \in 1 .. Len(stack) /\ Append(stack, f)[i] = stack[i]
                  \/ i = Len(stack) + 1 /\ Append(stack, f)[i] = f
             /\ \A i \in 1 .. Len(stack) : Append(stack, f)[i] = stack[i]
  BY <1>2, Pushed
<1>4. ASSUME NEW a \in Code, PlainBelow(stack) PROVE InHboot(Append(stack, Stop(a)))
  BY <1>1, <1>3, <1>4 DEF PlainBelow, InHboot
<1>5. ASSUME PlainBelow(stack) PROVE PlainBelow(Append(stack, Activity("cmd_call")))
  BY <1>1, <1>3, <1>5 DEF PlainBelow
<1>6. ASSUME stack = <<>> \/ InCommands(stack)
      PROVE  InCommands(Append(stack, Activity("cmd_breakpoint")))
  <2>1. InCommands(stack)
    BY <1>6, EmptySeq DEF InCommands
  <2> DEFINE s == Append(stack, Activity("cmd_breakpoint"))
  <2>2. ASSUME NEW i \in 1 .. Len(s)
        PROVE  \/ s[i] = Activity("cmd_breakpoint")
               \/ s[i] = Stop(CmdBkpt) /\ i > 1 /\ s[i - 1] = Activity("cmd_breakpoint")
    <3>1. CASE i \in 1 .. Len(stack) /\ s[i] = stack[i]
      <4>1. i > 1 => s[i - 1] = stack[i - 1]
        BY <1>1, <1>2, <1>3, <3>1
      <4> QED
        BY <2>1, <3>1, <4>1 DEF InCommands
    <3>2. CASE i = Len(stack) + 1 /\ s[i] = Activity("cmd_breakpoint")
      BY <3>2
    <3> QED
      BY <1>1, <1>3, <3>1, <3>2
  <2> QED
    BY <2>2 DEF InCommands
<1>7. ASSUME InCommands(stack), stack # <<>>, Top = Activity("cmd_breakpoint")
      PROVE  InCommands(Append(stack, Stop(CmdBkpt)))
  <2> DEFINE s == Append(stack, Stop(CmdBkpt))
  <2>1. Len(stack) >= 1 /\ stack[Len(stack)] = Activity("cmd_breakpoint")
    BY <1>7, Popped DEF Top
  <2>2. ASSUME NEW i \in 1 .. Len(s)
        PROVE  \/ s[i] = Activity("cmd_breakpoint")
               \/ s[i] = Stop(CmdBkpt) /\ i > 1 /\ s[i - 1] = Activity("cmd_breakpoint")
    <3>1. CASE i \in 1 .. Len(stack) /\ s[i] = stack[i]
      <4>1. i > 1 => s[i - 1] = stack[i - 1]
        BY <1>1, <1>2, <1>3, <3>1
      <4> QED
        BY <1>7, <3>1, <4>1 DEF InCommands
    <3>2. CASE i = Len(stack) + 1 /\ s[i] = Stop(CmdBkpt)
      <4>1. i - 1 = Len(stack) /\ Len(stack) \in 1 .. Len(stack) /\ i > 1
        BY <1>2, <2>1, <3>2
      <4>2. s[i - 1] = stack[Len(stack)]
        BY <1>1, <1>3, <4>1
      <4> QED
        BY <2>1, <3>2, <4>1, <4>2
    <3> QED
      BY <1>1, <1>3, <3>1, <3>2
  <2> QED
    BY <2>2 DEF InCommands
<1> QED
  BY <1>4, <1>5, <1>6, <1>7

LEMMA PopShape ==
  ASSUME TargetInv, stack # <<>>
  PROVE  /\ InHboot(stack) => PlainBelow(Pop)
         /\ InCommands(stack) => InCommands(Pop)
         /\ InCommands(stack) /\ Top = Stop(CmdBkpt) =>
              Pop # <<>> /\ Pop[Len(Pop)] = Activity("cmd_breakpoint")
         /\ InCommands(stack) /\ Top = Activity("cmd_breakpoint") /\ Pop # <<>> =>
              Pop[Len(Pop)] = Stop(CmdBkpt)
<1>1. /\ Len(stack) \in Nat /\ Len(stack) >= 1 /\ Len(Pop) = Len(stack) - 1
      /\ \A i \in 1 .. Len(stack) - 1 : Pop[i] = stack[i]
      /\ Pop = <<>> <=> Len(stack) = 1
      /\ Top = stack[Len(stack)]
  BY Popped
<1>2. Stop(CmdBkpt) # Activity("cmd_breakpoint") /\ Activity("cmd_breakpoint").what # "stop"
  BY DEF Stop, Activity
<1>3. ASSUME InHboot(stack) PROVE PlainBelow(Pop)
  <2> SUFFICES ASSUME NEW i \in 1 .. Len(Pop) PROVE Pop[i] = Activity("cmd_call")
    BY DEF PlainBelow
  <2>1. i \in 1 .. Len(stack) /\ i # Len(stack) /\ Pop[i] = stack[i]
    BY <1>1
  <2> QED
    BY <1>3, <2>1 DEF InHboot
<1>4. ASSUME InCommands(stack) PROVE InCommands(Pop)
  <2> SUFFICES ASSUME NEW i \in 1 .. Len(Pop)
               PROVE  \/ Pop[i] = Activity("cmd_breakpoint")
                      \/ /\ Pop[i] = Stop(CmdBkpt) /\ i > 1
                         /\ Pop[i - 1] = Activity("cmd_breakpoint")
    BY DEF InCommands
  <2>1. i \in 1 .. Len(stack) /\ Pop[i] = stack[i] /\ (i > 1 => Pop[i - 1] = stack[i - 1])
    BY <1>1
  <2> QED
    BY <1>4, <2>1 DEF InCommands
<1>5. ASSUME InCommands(stack), Top = Stop(CmdBkpt)
      PROVE  Pop # <<>> /\ Pop[Len(Pop)] = Activity("cmd_breakpoint")
  <2>1. Len(stack) \in 1 .. Len(stack)
    BY <1>1
  <2>2. Len(stack) > 1 /\ stack[Len(stack) - 1] = Activity("cmd_breakpoint")
    BY <1>1, <1>2, <1>5, <2>1 DEF InCommands
  <2>3. Len(stack) - 1 \in 1 .. Len(stack) - 1
    BY <1>1, <2>2
  <2> QED
    BY <1>1, <2>2, <2>3
<1>6. ASSUME InCommands(stack), Top = Activity("cmd_breakpoint"), Pop # <<>>
      PROVE  Pop[Len(Pop)] = Stop(CmdBkpt)
  <2>1. Pop[Len(Pop)].what = "stop"
    BY <1>2, <1>6, PopProperties
  <2>2. Len(Pop) \in 1 .. Len(Pop)
    BY <1>1, <1>6
  <2> QED
    BY <1>2, <1>4, <1>6, <2>1, <2>2 DEF InCommands
<1> QED
  BY <1>3, <1>4, <1>5, <1>6

(* Where a resumed target lands.                                           *)
LEMMA LandsWell ==
  ASSUME TargetInv, stack # <<>>, NEW p
  PROVE  /\ PlainBelow(Pop) /\ p \in Code \cup {Exit} \cup SlotAddr => Land(p, Pop) = p
         /\ /\ Pop # <<>> /\ Pop[Len(Pop)] = Activity("cmd_breakpoint")
            /\ p \in {CmdBkpt, CmdRet}
            => Land(p, Pop) = p
<1>1. Len(Pop) \in Nat /\ (Pop # <<>> => Len(Pop) \in 1 .. Len(Pop))
  BY Popped
<1>2. /\ Activity("cmd_call").what # "cmd_breakpoint"
      /\ Activity("cmd_breakpoint").what = "cmd_breakpoint"
  BY DEF Activity
<1> QED
  BY <1>1, <1>2 DEF Land, PlainBelow

LEMMA LandsPlain ==
  ASSUME TargetInv, PlainBelow(stack), NEW p \in Code \cup {Exit} \cup SlotAddr
  PROVE  Land(p, stack) = p
<1>1. stack # <<>> => Len(stack) \in 1 .. Len(stack)
  BY Popped
<1>2. Activity("cmd_call").what # "cmd_breakpoint"
  BY DEF Activity
<1> QED
  BY <1>1, <1>2 DEF Land, PlainBelow

-----------------------------------------------------------------------------
(***************************************************************************)
(* The invariant, and what keeps its parts.                                *)
(***************************************************************************)
WayInv == ArmedInv /\ StackInv

(* The target is stopped in HBOOT's code or in cmd_breakpoint.             *)
LEMMA StopShape ==
  ASSUME TargetInv, StackInv, Stopped
  PROVE  /\ stack # <<>>
         /\ \/ InHboot(stack) /\ Top.pc \in Code
            \/ InCommands(stack) /\ Top = Stop(CmdBkpt) /\ Top.pc = CmdBkpt
<1>1. stack # <<>> /\ Top.what = "stop"
  BY DEF TargetInv, Stopped
<1>2. Len(stack) \in 1 .. Len(stack) /\ Top = stack[Len(stack)]
  BY <1>1, Popped
<1>3. /\ Activity("cmd_call").what # "stop" /\ Activity("cmd_breakpoint").what # "stop"
      /\ Stop(CmdBkpt).pc = CmdBkpt
  BY DEF Activity, Stop
<1>4. CASE InHboot(stack)
  BY <1>1, <1>2, <1>3, <1>4 DEF InHboot
<1>5. CASE InCommands(stack)
  BY <1>1, <1>2, <1>3, <1>5 DEF InCommands
<1> QED
  BY <1>1, <1>4, <1>5 DEF StackInv

(* No stop in cmd_breakpoint below HBOOT's activations.                    *)
LEMMA NoCommandStop ==
  ASSUME NEW s, InHboot(s)
  PROVE  ~ \E i \in 1 .. Len(s) : s[i] = Stop(CmdBkpt)
<1>1. /\ Activity("cmd_call").what = "cmd_call" /\ Stop(CmdBkpt).what = "stop"
      /\ Stop(CmdBkpt).pc = CmdBkpt /\ CmdBkpt \notin Code
  BY PlacesApart DEF Activity, Stop
<1> QED
  BY <1>1 DEF InHboot

LEMMA SameTable ==
  ASSUME UNCHANGED tableVars
  PROVE  /\ ArmedInv => ArmedInv'
         /\ \A i \in Slot : SlotSound(i)' <=> SlotSound(i)
         /\ Text' = Text
BY DEF tableVars, ArmedInv, SlotSound, HasBreakpoint, Active, Text, get_breakpoint

(* The target runs, or has run away.                                       *)
LEMMA RunsOn ==
  ASSUME TargetInv, WayInv, UNCHANGED <<tableVars, continue_address, stack>>,
         \/ pc' = NULL
         \/ PlainBelow(stack) /\ pc' \in Code \cup {Exit}
         \/ PlainBelow(stack) /\ \E i \in Slot : pc' = BackAddr(i) /\ SlotSound(i)
  PROVE  WayInv'
<1>1. ArmedInv' /\ \A i \in Slot : SlotSound(i)' <=> SlotSound(i)
  BY SameTable DEF WayInv
<1>2. /\ pc' \in Code \cup SlotAddr \cup {Exit, NULL}
      /\ pc' \notin {PollLoop, CmdBkpt, CmdRet}
      /\ pc' = NULL \/ PlainBelow(stack)
  BY PlacesApart, SlotPlaces
<1>3. \A i \in Slot : pc' \in {OrigAddr(i), BackAddr(i)} => SlotSound(i)
  BY PlacesApart, SlotPlaces
<1>4. NULL \notin Code \cup SlotAddr \cup {Exit}
  BY PlacesApart
<1>5. /\ InHboot(stack)' \/ InCommands(stack)'
      /\ (\E i \in 1 .. Len(stack) : stack[i] = Stop(CmdBkpt))' => continue_address' = CmdRet
  BY DEF WayInv, StackInv, InHboot, InCommands
<1>6. pc' \in Code \cup SlotAddr \cup {Exit} => PlainBelow(stack)'
  BY <1>2, <1>4 DEF PlainBelow
<1>7. ~Stopped'
  BY <1>2 DEF Stopped
<1> QED
  BY <1>1, <1>2, <1>3, <1>5, <1>6, <1>7 DEF WayInv, StackInv

(* A command is received and the target stays where it is.                 *)
LEMMA WayKept ==
  ASSUME WayOut(Top.pc), Top' = Top, Text'[Top.pc] = Text[Top.pc],
         continue_address' = continue_address,
         \A i \in Slot : continue_address = OrigAddr(i) => bp'[i] = bp[i]
  PROVE  WayOut(Top.pc)'
BY DEF WayOut

LEMMA StaysPut ==
  ASSUME TargetInv, StackInv, Listening, UNCHANGED <<pc, stack, continue_address>>,
         Stopped /\ Top.pc \in Code =>
           /\ Text'[Top.pc] = Text[Top.pc]
           /\ \A i \in Slot : continue_address = OrigAddr(i) => bp'[i] = bp[i]
  PROVE  StackInv'
<1>1. pc \in {Exit, PollLoop} /\ pc' = pc
  BY DEF Listening, Idle, Stopped
<1>2. Top' = Top /\ (Stopped' <=> Stopped)
  BY DEF Top, Stopped
<1>3. pc' \notin SlotAddr /\ pc' \notin {CmdBkpt, CmdRet}
  BY <1>1, PlacesApart
<1>4. /\ InHboot(stack)' \/ InCommands(stack)'
      /\ (\E i \in 1 .. Len(stack) : stack[i] = Stop(CmdBkpt))' => continue_address' = CmdRet
      /\ pc' \in Code \cup SlotAddr \cup {Exit} => PlainBelow(stack)'
  BY DEF StackInv, InHboot, InCommands, PlainBelow
<1>5. Stopped' /\ Top'.pc \in Code => WayOut(Top.pc)'
  BY <1>2, WayKept DEF StackInv
<1>6. \A i \in Slot : pc' \notin {OrigAddr(i), BackAddr(i)}
  BY <1>3, SlotPlaces
<1> QED
  BY <1>3, <1>4, <1>5, <1>6 DEF StackInv

(* A stop is left for HBOOT's code, a working trampoline or cmd_breakpoint. *)
LEMMA Resumes ==
  ASSUME TargetInv, WayInv, Stopped, NEW p, Resume(p),
         UNCHANGED <<tableVars, continue_address>>,
         \/ Top.pc \in Code /\ p \in Code \cup {Exit}
         \/ Top.pc \in Code /\ \E i \in Slot : p = OrigAddr(i) /\ SlotSound(i)
         \/ Top.pc = CmdBkpt /\ p \in {CmdBkpt, CmdRet}
  PROVE  WayInv' /\ pc' = p
<1>1. /\ stack # <<>> /\ stack' = Pop /\ pc' = Land(p, Pop)
      /\ \/ InHboot(stack) /\ Top.pc \in Code
         \/ InCommands(stack) /\ Top = Stop(CmdBkpt) /\ Top.pc = CmdBkpt
  BY StopShape DEF Resume, WayInv
<1>2. ArmedInv' /\ \A i \in Slot : SlotSound(i)' <=> SlotSound(i)
  BY SameTable DEF WayInv
<1>3. CmdBkpt \notin Code
  BY PlacesApart
<1>4. CASE InHboot(stack) /\ Top.pc \in Code
  <2>1. PlainBelow(Pop)
    BY <1>1, <1>4, PopShape
  <2>2. p \in Code \cup {Exit} \cup SlotAddr
    BY <1>3, <1>4, SlotPlaces
  <2>3. pc' = p
    BY <1>1, <2>1, <2>2, LandsWell
  <2>4. InHboot(stack)' /\ PlainBelow(stack)'
    BY <1>1, <2>1, PlainIsHboot DEF InHboot, PlainBelow
  <2>5. ~(\E i \in 1 .. Len(stack) : stack[i] = Stop(CmdBkpt))'
    BY <1>1, <2>1, PlainIsHboot, NoCommandStop
  <2>6. pc' \notin {PollLoop, CmdBkpt, CmdRet}
    BY <2>2, <2>3, PlacesApart
  <2>7. \A i \in Slot : pc' \in {OrigAddr(i), BackAddr(i)} => SlotSound(i)
    BY <1>3, <1>4, <2>3, PlacesApart, SlotPlaces
  <2> QED
    BY <1>2, <2>3, <2>4, <2>5, <2>6, <2>7 DEF WayInv, StackInv, Stopped
<1>5. CASE InCommands(stack) /\ Top = Stop(CmdBkpt) /\ Top.pc = CmdBkpt
  <2>1. InCommands(Pop) /\ Pop # <<>> /\ Pop[Len(Pop)] = Activity("cmd_breakpoint")
    BY <1>1, <1>5, PopShape
  <2>2. p \in {CmdBkpt, CmdRet}
    BY <1>3, <1>5
  <2>3. pc' = p
    BY <1>1, <2>1, <2>2, LandsWell
  <2>4. InCommands(stack)' /\ stack' # <<>> /\ Top' = Activity("cmd_breakpoint")
    BY <1>1, <2>1 DEF InCommands, Top
  <2>5. /\ pc' \notin Code \cup SlotAddr \cup {Exit, PollLoop}
        /\ \A i \in Slot : pc' \notin {OrigAddr(i), BackAddr(i)}
    BY <2>2, <2>3, PlacesApart, SlotPlaces
  <2>6. (\E i \in 1 .. Len(stack) : stack[i] = Stop(CmdBkpt))' => continue_address' = CmdRet
    BY <1>1, Popped DEF WayInv, StackInv
  <2> QED
    BY <1>2, <2>3, <2>4, <2>5, <2>6 DEF WayInv, StackInv, Stopped
<1> QED
  BY <1>1, <1>4, <1>5

(* The target stops at a breakpoint or in cmd_breakpoint.                  *)
LEMMA TrapStops ==
  ASSUME TableInv, TargetInv, WayInv, Trap
  PROVE  WayInv'
<1>1. /\ stack' = Append(stack, Stop(pc)) /\ pc' = PollLoop
      /\ UNCHANGED tableVars
      /\ continue_address' = IF HasBreakpoint(pc) THEN OrigAddr(get_breakpoint(pc)) ELSE pc + 1
  BY DEF Trap, breakpoint_handler
<1>2. ArmedInv' /\ Text' = Text /\ UNCHANGED <<bp, bp_size, mem>>
  BY <1>1, SameTable DEF WayInv, tableVars
<1>3. Stop(pc) \in Frame /\ Stop(pc).pc = pc
  BY PlacesAreNat DEF TargetInv, Stop, Frame
<1>4. stack' # <<>> /\ Top' = Stop(pc)
  BY <1>1, <1>3, Pushed DEF Top
<1>5. /\ pc' \notin Code \cup SlotAddr \cup {Exit, CmdBkpt, CmdRet}
      /\ \A i \in Slot : pc' \notin {OrigAddr(i), BackAddr(i)}
  BY <1>1, PlacesApart, SlotPlaces
<1>6. CASE pc \in Code /\ mem[pc] = ARM_BKPT
  <2>1. PlainBelow(stack) /\ HasBreakpoint(pc)
    BY <1>6 DEF WayInv, StackInv, ArmedInv
  <2>2. InHboot(stack')
    BY <1>1, <1>6, <2>1, PushShape
  <2>3. ~(\E i \in 1 .. Len(stack) : stack[i] = Stop(CmdBkpt))'
    BY <2>2, NoCommandStop
  <2> DEFINE g == get_breakpoint(pc)
  <2>4. g \in Active /\ g \in Slot /\ bp[g].address = pc
    BY <2>1, GetBreakpointFinds, ActiveIsSlot DEF TableInv
  <2>5. continue_address' = OrigAddr(g) /\ Text[pc] = bp[g].original /\ SlotSound(g)
    BY <1>1, <1>6, <2>1, <2>4 DEF Text, WayInv, ArmedInv
  <2> HIDE DEF g
  <2>6. Top'.pc = pc
    BY <1>3, <1>4
  <2>7. /\ continue_address' = OrigAddr(g)
        /\ bp'[g].address = Top'.pc
        /\ bp'[g].original = Text'[Top'.pc]
        /\ bp'[g].back \in BranchField
        /\ BranchTarget(BackAddr(g), bp'[g].back) = Top'.pc + 1
    BY <1>2, <2>4, <2>5, <2>6 DEF SlotSound
  <2>8. WayOut(Top.pc)'
    BY <2>4, <2>7 DEF WayOut
  <2> QED
    BY <1>2, <1>5, <2>2, <2>3, <2>8 DEF WayInv, StackInv, InHboot
<1>7. CASE \E i \in Slot : pc = OrigAddr(i) /\ bp[i].original = ARM_BKPT
  BY <1>7 DEF WayInv, StackInv, SlotSound
<1>8. CASE pc = CmdBkpt
  <2>1. InCommands(stack) /\ stack # <<>> /\ Top = Activity("cmd_breakpoint")
    BY <1>8 DEF WayInv, StackInv
  <2>2. InCommands(stack')
    BY <1>1, <1>8, <2>1, PushShape
  <2>3. ~HasBreakpoint(pc)
    BY <1>8, PlacesApart DEF HasBreakpoint, TableInv, ActiveInCode
  <2>4. continue_address' = CmdRet /\ Top'.pc \notin Code
    BY <1>1, <1>3, <1>4, <1>8, <2>3, PlacesApart
  <2> QED
    BY <1>2, <1>5, <2>2, <2>4 DEF WayInv, StackInv, InCommands
<1> QED
  BY <1>6, <1>7, <1>8 DEF Trap, AtBkpt

(* A call of the host returns.                                             *)
LEMMA CallsReturn ==
  ASSUME TargetInv, WayInv, UNCHANGED <<tableVars, continue_address>>,
         \/ pc = CmdRet /\ Return("cmd_breakpoint")
         \/ pc = Exit /\ Return("cmd_call")
  PROVE  /\ WayInv' /\ pc' \in {Exit, PollLoop}
         /\ pc' = PollLoop => pc = CmdRet /\ Top'.pc = CmdBkpt
<1>1. /\ stack # <<>> /\ stack' = Pop
      /\ pc' = IF Pop = <<>> THEN Exit ELSE PollLoop
      /\ Top.what # "stop"
  BY DEF Return, Activity
<1>2. ArmedInv'
  BY SameTable DEF WayInv
<1>3. /\ pc' \in {Exit, PollLoop} /\ pc' \notin Code \cup SlotAddr \cup {CmdBkpt, CmdRet}
      /\ \A i \in Slot : pc' \notin {OrigAddr(i), BackAddr(i)}
      /\ Exit # PollLoop
  BY <1>1, PlacesApart, SlotPlaces
<1>4. (\E i \in 1 .. Len(stack) : stack[i] = Stop(CmdBkpt))' => continue_address' = CmdRet
  BY <1>1, Popped DEF WayInv, StackInv
<1>5. Pop = <<>> => PlainBelow(stack') /\ ~Stopped'
  BY <1>1, <1>3 DEF PlainBelow, Stopped
<1>6. CASE pc = CmdRet /\ Return("cmd_breakpoint")
  <2>1. InCommands(stack) /\ Top = Activity("cmd_breakpoint")
    BY <1>6 DEF WayInv, StackInv
  <2>2. InCommands(stack')
    BY <1>1, <2>1, PopShape
  <2>3. Pop # <<>> => Top'.pc = CmdBkpt /\ pc' # Exit
    <3>1. Pop # <<>> => Pop[Len(Pop)] = Stop(CmdBkpt)
      BY <1>1, <2>1, PopShape
    <3> QED
      BY <1>1, <1>3, <3>1 DEF Top, Stop
  <2>4. CmdBkpt \notin Code
    BY PlacesApart
  <2> QED
    BY <1>1, <1>2, <1>3, <1>4, <1>5, <1>6, <2>2, <2>3, <2>4
    DEF WayInv, StackInv, InCommands, PlainBelow
<1>7. CASE pc = Exit /\ Return("cmd_call")
  <2>1. PlainBelow(stack)
    BY <1>7 DEF WayInv, StackInv
  <2>2. PlainBelow(Pop)
    BY <1>1, <2>1, PlainIsHboot, PopShape
  <2>3. Pop = <<>>
    <3>1. Pop # <<>> => Len(Pop) \in 1 .. Len(Pop)
      BY <1>1, Popped
    <3>2. Activity("cmd_call").what # "stop"
      BY DEF Activity
    <3> QED
      BY <1>1, <2>2, <3>1, <3>2, PopProperties DEF PlainBelow
  <2>4. InHboot(stack') /\ PlainBelow(stack')
    BY <1>1, <2>2, PlainIsHboot
  <2> QED
    BY <1>1, <1>2, <1>3, <1>4, <1>5, <2>3, <2>4 DEF WayInv, StackInv, InHboot, PlainBelow
<1> QED
  BY <1>6, <1>7

(* HBOOT is loaded, or the table is emptied with the target not stopped.   *)
LEMMA Restarts ==
  ASSUME TableInv, WayInv, stack' = <<>>, pc' = Exit, bp_size' = 0,
         mem' = InitText \/ (mem' = mem /\ bp_size = 0)
  PROVE  WayInv'
<1>1. Active' = {} /\ (bp_size = 0 => Active = {})
  BY DEF Active
<1>2. \A a \in Code : mem'[a] # ARM_BKPT
  BY <1>1, TableAssumption DEF WayInv, ArmedInv, HasBreakpoint
<1>3. ArmedInv'
  BY <1>1, <1>2 DEF ArmedInv
<1>4. Len(stack') = 0
  BY EmptySeq
<1>5. /\ InHboot(stack)' /\ PlainBelow(stack)'
      /\ ~(\E i \in 1 .. Len(stack) : stack[i] = Stop(CmdBkpt))'
  BY <1>4 DEF InHboot, PlainBelow
<1>6. /\ pc' \notin {CmdBkpt, CmdRet, PollLoop}
      /\ \A i \in Slot : pc' \notin {OrigAddr(i), BackAddr(i)}
  BY PlacesApart, SlotPlaces
<1> QED
  BY <1>3, <1>5, <1>6 DEF WayInv, StackInv, Stopped

(* The host starts a call.                                                 *)
LEMMA CallsStart ==
  ASSUME TargetInv, WayInv, Listening, UNCHANGED <<tableVars, continue_address>>,
         \/ /\ stack' = Append(stack, Activity("cmd_breakpoint")) /\ pc' = CmdBkpt
            /\ Stopped => Top.pc = CmdBkpt
         \/ stack' = Append(stack, Activity("cmd_call")) /\ pc' = Entry /\ ~Stopped
  PROVE  WayInv'
<1>1. ArmedInv'
  BY SameTable DEF WayInv
<1>2. ~Stopped => stack = <<>> /\ PlainBelow(stack)
  BY EmptySeq DEF Listening, Idle, PlainBelow
<1>3. /\ Activity("cmd_breakpoint") \in Frame /\ Activity("cmd_call") \in Frame
      /\ Activity("cmd_breakpoint") # Stop(CmdBkpt)
  BY PlacesAreNat DEF Activity, Stop, Frame, PlaceInProgram
<1>4. CASE /\ stack' = Append(stack, Activity("cmd_breakpoint")) /\ pc' = CmdBkpt
           /\ Stopped => Top.pc = CmdBkpt
  <2>1. stack = <<>> \/ (InCommands(stack) /\ Top = Stop(CmdBkpt))
    BY <1>2, <1>4, StopShape, PlacesApart DEF WayInv
  <2>2. InCommands(stack')
    BY <1>4, <2>1, PushShape
  <2>3. stack' # <<>> /\ Top' = Activity("cmd_breakpoint")
    BY <1>3, <1>4, Pushed DEF Top
  <2>4. ASSUME NEW i \in 1 .. Len(stack'), stack'[i] = Stop(CmdBkpt)
        PROVE  continue_address' = CmdRet
    <3>1. i \in 1 .. Len(stack) \/ i = Len(stack) + 1
      BY <1>3, <1>4, Pushed
    <3>2. i \in 1 .. Len(stack) /\ stack[i] = Stop(CmdBkpt)
      BY <1>3, <1>4, <2>4, <3>1, Pushed
    <3> QED
      BY <3>2 DEF WayInv, StackInv
  <2>5. /\ pc' \notin Code \cup SlotAddr \cup {Exit, PollLoop}
        /\ \A i \in Slot : pc' \notin {OrigAddr(i), BackAddr(i)}
    BY <1>4, PlacesApart, SlotPlaces
  <2> QED
    BY <1>1, <2>2, <2>3, <2>4, <2>5 DEF WayInv, StackInv, InCommands, Stopped
<1>5. CASE stack' = Append(stack, Activity("cmd_call")) /\ pc' = Entry /\ ~Stopped
  <2>1. PlainBelow(stack')
    BY <1>2, <1>5, PushShape
  <2>2. InHboot(stack') /\ ~(\E i \in 1 .. Len(stack) : stack[i] = Stop(CmdBkpt))'
    BY <2>1, PlainIsHboot, NoCommandStop
  <2>3. /\ pc' \in Code /\ pc' \notin {CmdBkpt, CmdRet, PollLoop}
        /\ \A i \in Slot : pc' \notin {OrigAddr(i), BackAddr(i)}
    BY <1>5, PlacesApart, SlotPlaces
  <2> QED
    BY <1>1, <2>1, <2>2, <2>3 DEF WayInv, StackInv, InHboot, PlainBelow, Stopped
<1> QED
  BY <1>4, <1>5

-----------------------------------------------------------------------------
(***************************************************************************)
(* Every action keeps the invariant, for an orderly host.                  *)
(***************************************************************************)
LEMMA CpuStepKeepsWay ==
  ASSUME StubInv, WayInv, CpuStep
  PROVE  WayInv'
<1> USE DEF StubInv
<1>1. CASE ExecuteCode
  <2>1. pc' \in Code \cup {Exit}
    BY <1>1, ExecuteCodeStays
  <2>2. PlainBelow(stack)
    BY <1>1 DEF ExecuteCode, WayInv, StackInv
  <2> QED
    BY <1>1, <2>1, <2>2, RunsOn DEF ExecuteCode
<1>2. CASE ExecuteSlot
  <2>1. PICK i \in Slot :
          /\ pc = OrigAddr(i)
          /\ pc' \in {IF d = 1 THEN BackAddr(i) ELSE NULL : d \in Flow[bp[i].original]}
    BY <1>2 DEF ExecuteSlot
  <2>2. SlotSound(i) /\ PlainBelow(stack)
    BY <2>1, SlotPlaces DEF WayInv, StackInv
  <2>3. pc' = NULL \/ pc' = BackAddr(i)
    BY <2>1
  <2> QED
    BY <1>2, <2>2, <2>3, RunsOn DEF ExecuteSlot
<1>3. CASE ExecuteBack
  <2>1. PICK i \in Slot : /\ pc = BackAddr(i)
                          /\ pc' = IF bp[i].back \in BranchField
                                   THEN Land(BranchTarget(pc, bp[i].back), stack)
                                   ELSE NULL
    BY <1>3 DEF ExecuteBack
  <2>2. SlotSound(i) /\ PlainBelow(stack)
    BY <2>1, SlotPlaces DEF WayInv, StackInv
  <2>3. bp[i].address + 1 \in Code \cup {Exit}
    BY <2>2, ProgramAssumption DEF SlotSound
  <2>4. pc' = bp[i].address + 1
    BY <2>1, <2>2, <2>3, LandsPlain DEF SlotSound
  <2> QED
    BY <1>3, <2>2, <2>3, <2>4, RunsOn DEF ExecuteBack
<1>4. CASE Trap
  BY <1>4, TrapStops
<1>5. CASE UnhookedTrap
  BY <1>5, RunsOn DEF UnhookedTrap
<1>6. CASE EndOfCmdBreakpoint \/ EndOfCmdCall
  BY <1>6, CallsReturn DEF EndOfCmdBreakpoint, EndOfCmdCall
<1> QED
  BY <1>1, <1>2, <1>3, <1>4, <1>5, <1>6 DEF CpuStep

LEMMA WriteKeepsWay ==
  ASSUME "NoOverwrite" \in Rules, StubInv, WayInv, WriteCommand
  PROVE  WayInv'
<1> USE DEF StubInv
<1>1. PICK a \in Code \cup Unmapped, w \in HostWord, error \in ErrorCode : cmd_write(a, w, error)
  BY DEF WriteCommand
<1>2. Listening /\ UNCHANGED <<pc, stack, continue_address, bp>>
  BY <1>1 DEF WriteCommand, cmd_write, tableVars
<1>3. CASE a \in Unmapped /\ UNCHANGED tableVars
  <2>1. ArmedInv' /\ Text' = Text
    BY <1>3, SameTable DEF WayInv
  <2> QED
    BY <1>2, <2>1, StaysPut DEF WayInv
<1>4. CASE a \in Code /\ write_word(a, w) /\ UNCHANGED <<bp, bp_size>>
  <2>1. ArmedInv'
    BY <1>4, WriteKeepsArmed DEF WayInv
  <2>2. ASSUME Stopped, Top.pc \in Code PROVE Text'[Top.pc] = Text[Top.pc]
    <3>1. stack # <<>> /\ Top.what = "stop" /\ Top \in Frame
      BY <2>2, PopProperties DEF TargetInv, Stopped
    <3>2. Top = Stop(Top.pc)
      BY <3>1 DEF Frame, Stop
    <3>3. Top = stack[Len(stack)] /\ Len(stack) \in 1 .. Len(stack)
      BY <3>1, Popped
    <3>4. StoppedAt(Top.pc)
      BY <3>2, <3>3 DEF StoppedAt
    <3>5. ~StoppedAt(a)
      BY <1>1 DEF cmd_write, MayWrite, Keeps
    <3>6. Top.pc # a
      BY <3>4, <3>5
    <3>7. mem'[Top.pc] = mem[Top.pc]
      BY <1>4, <2>2, <3>6 DEF write_word, TableInv, TableTypeOK
    <3>8. /\ HasBreakpoint(Top.pc)' <=> HasBreakpoint(Top'.pc)
          /\ UNCHANGED <<bp, bp_size, Active>>
      BY <1>4 DEF Active, HasBreakpoint
    <3> QED
      BY <2>2, <3>7, <3>8 DEF Text, HasBreakpoint, get_breakpoint
  <2> QED
    BY <1>2, <2>1, <2>2, StaysPut DEF WayInv
<1> QED
  BY <1>1, <1>3, <1>4 DEF cmd_write

LEMMA InsertKeepsWay ==
  ASSUME "KeepLiveSlot" \in Rules, StubInv, StubInv', WayInv, InsertCommand
  PROVE  WayInv'
<1> USE DEF StubInv
<1>1. PICK a \in Code \cup Unmapped, error \in ErrorCode : cmd_insert_breakpoint(a, error)
  BY DEF InsertCommand
<1>2. /\ Listening /\ UNCHANGED <<pc, stack, continue_address>>
      /\ a \in Code \/ TableFull
      /\ insert_breakpoint(a, error)
  BY <1>1 DEF InsertCommand, cmd_insert_breakpoint
<1>3. CASE a \in Code
  <2>1. /\ ArmedInv' /\ Text' = Text
        /\ \/ bp' = bp
           \/ bp_size < DBG_NBR_POINTS /\ \A i \in Slot : i # bp_size => bp'[i] = bp[i]
    BY <1>2, <1>3, InsertKeepsArmed, InsertKeepsText DEF WayInv
  <2>2. ASSUME Stopped, NEW i \in Slot, continue_address = OrigAddr(i) PROVE bp'[i] = bp[i]
    <3>1. bp_size < DBG_NBR_POINTS => i # bp_size
      BY <1>1, <2>2 DEF cmd_insert_breakpoint, MayInsert, Keeps
    <3> QED
      BY <2>1, <3>1
  <2> QED
    BY <1>2, <2>1, <2>2, StaysPut DEF WayInv
<1>4. CASE TableFull
  <2>1. UNCHANGED tableVars
    BY <1>2, <1>4 DEF insert_breakpoint, alloc_breakpoint
  <2>2. ArmedInv' /\ Text' = Text /\ bp' = bp
    BY <2>1, SameTable DEF WayInv, tableVars
  <2> QED
    BY <1>2, <2>2, StaysPut DEF WayInv
<1> QED
  BY <1>2, <1>3, <1>4

LEMMA RemoveKeepsWay ==
  ASSUME "KeepSlots" \in Rules, StubInv, StubInv', WayInv, RemoveCommand
  PROVE  WayInv'
<1> USE DEF StubInv
<1>1. PICK a \in Code \cup Unmapped, error \in ErrorCode : cmd_remove_breakpoint(a, error)
  BY DEF RemoveCommand
<1>2. /\ Listening /\ UNCHANGED <<pc, stack, continue_address>>
      /\ remove_breakpoint(a, error)
      /\ HasBreakpoint(a) => get_breakpoint(a) = bp_size - 1
  BY <1>1 DEF RemoveCommand, cmd_remove_breakpoint, MayRemove, Keeps
<1>3. CASE a \in Code
  <2>1. ArmedInv' /\ bp' = bp
    BY <1>2, <1>3, RemoveKeepsArmed DEF WayInv
  <2>2. Text' = Text
    BY <1>2, <1>3, RemoveKeepsText
  <2> QED
    BY <1>2, <2>1, <2>2, StaysPut DEF WayInv
<1>4. CASE a \notin Code
  <2>1. UNCHANGED tableVars
    BY <1>2, <1>4 DEF remove_breakpoint, HasBreakpoint, TableInv, ActiveInCode
  <2>2. ArmedInv' /\ Text' = Text /\ bp' = bp
    BY <2>1, SameTable DEF WayInv, tableVars
  <2> QED
    BY <1>2, <2>2, StaysPut DEF WayInv
<1> QED
  BY <1>3, <1>4

LEMMA ContinueKeepsWay ==
  ASSUME StubInv, WayInv, ContinueCommand
  PROVE  WayInv'
<1> USE DEF StubInv
<1>1. UNCHANGED <<tableVars, continue_address>> /\ Listening
  BY DEF ContinueCommand, cmd_breakpoint_continue
<1>2. ArmedInv' /\ Text' = Text /\ bp' = bp
  BY <1>1, SameTable DEF WayInv, tableVars
<1>3. CASE UNCHANGED <<pc, stack>>
  BY <1>1, <1>2, <1>3, StaysPut DEF WayInv
<1>4. CASE Stopped /\ Resume(continue_address)
  <2>1. CASE InHboot(stack) /\ Top.pc \in Code
    <3>1. PICK i \in Slot : /\ continue_address = OrigAddr(i)
                            /\ bp[i].address = Top.pc
                            /\ bp[i].original = Text[Top.pc]
                            /\ bp[i].back \in BranchField
                            /\ BranchTarget(BackAddr(i), bp[i].back) = Top.pc + 1
      BY <1>4, <2>1 DEF WayInv, StackInv, WayOut
    <3>2. SlotSound(i)
      BY <2>1, <3>1, TextIsPlain DEF SlotSound, WayInv
    <3> QED
      BY <1>1, <1>4, <2>1, <3>1, <3>2, Resumes
  <2>2. CASE InCommands(stack) /\ Top = Stop(CmdBkpt) /\ Top.pc = CmdBkpt
    <3>1. stack # <<>> /\ Len(stack) \in 1 .. Len(stack) /\ stack[Len(stack)] = Stop(CmdBkpt)
      BY <1>4, <2>2, StopShape, Popped DEF WayInv
    <3>2. continue_address = CmdRet
      BY <3>1 DEF WayInv, StackInv
    <3> QED
      BY <1>1, <1>4, <2>2, <3>2, Resumes
  <2> QED
    BY <1>4, <2>1, <2>2, StopShape DEF WayInv
<1> QED
  BY <1>3, <1>4 DEF ContinueCommand, cmd_breakpoint_continue

LEMMA CommandKeepsWay ==
  ASSUME OrderlyHost, StubInv, StubInv', WayInv, cmd_dispatcher
  PROVE  WayInv'
<1> USE DEF StubInv
<1>0. {"NoOverwrite", "KeepSlots", "KeepLiveSlot", "AttachFresh", "NoNest"} \subseteq Rules
  BY DEF OrderlyHost
<1>1. CASE Listening /\ cmd_attach
  <2>1. bp_size = 0 /\ ~Stopped
    BY <1>0, <1>1 DEF cmd_attach, MayAttach, Keeps
  <2> QED
    BY <1>1, <2>1, Restarts DEF cmd_attach, dbg_init, Listening, Idle
<1>2. CASE Listening /\ cmd_detach
  <2>1. UNCHANGED <<tableVars, continue_address>>
    BY <1>2 DEF cmd_detach
  <2>2. CASE Stopped /\ Resume(Top.pc)
    <3>1. Top.pc \in Code \/ Top.pc = CmdBkpt
      BY <2>2, StopShape DEF WayInv
    <3> QED
      BY <2>1, <2>2, <3>1, Resumes
  <2>3. CASE UNCHANGED <<pc, stack>>
    <3>1. ArmedInv' /\ Text' = Text /\ bp' = bp
      BY <2>1, SameTable DEF WayInv, tableVars
    <3> QED
      BY <1>2, <2>1, <2>3, <3>1, StaysPut DEF WayInv
  <2> QED
    BY <1>2, <2>2, <2>3 DEF cmd_detach
<1>3. CASE ContinueCommand
  BY <1>3, ContinueKeepsWay
<1>4. CASE Listening /\ NoEffect
  <2>1. ArmedInv' /\ Text' = Text /\ bp' = bp
    BY <1>4, SameTable DEF NoEffect, WayInv, tableVars
  <2> QED
    BY <1>4, <2>1, StaysPut DEF NoEffect, WayInv
<1>5. CASE WriteCommand
  BY <1>0, <1>5, WriteKeepsWay
<1>6. CASE InsertCommand
  BY <1>0, <1>6, InsertKeepsWay
<1>7. CASE RemoveCommand
  BY <1>0, <1>7, RemoveKeepsWay
<1>8. CASE Listening /\ InsertUnmapped
  BY <1>8, RunsOn DEF InsertUnmapped
<1>9. CASE Listening /\ cmd_breakpoint
  BY <1>0, <1>9, CallsStart DEF cmd_breakpoint, MayBreak, Keeps
<1>10. CASE Listening /\ cmd_call
  BY <1>0, <1>10, CallsStart DEF cmd_call, MayCall, Keeps
<1>11. CASE Listening /\ cmd_fastboot_reboot
  BY <1>11, Restarts DEF cmd_fastboot_reboot, PowerCycle, dbg_init
<1> QED
  BY <1>1, <1>2, <1>3, <1>4, <1>5, <1>6, <1>7, <1>8, <1>9, <1>10, <1>11 DEF cmd_dispatcher

LEMMA WayInvNext ==
  ASSUME OrderlyHost, StubInv, StubInv', WayInv, [StubNext]_stubVars
  PROVE  WayInv'
<1> USE DEF StubInv
<1>1. CASE UNCHANGED stubVars
  <2>1. ArmedInv' /\ Text' = Text /\ \A i \in Slot : SlotSound(i)' <=> SlotSound(i)
    BY <1>1, SameTable DEF stubVars, WayInv
  <2>2. WayOut(Top.pc)' <=> WayOut(Top.pc)
    BY <1>1, <2>1 DEF stubVars, tableVars, targetVars, WayOut, Top
  <2> QED
    BY <1>1, <2>1, <2>2 DEF stubVars, targetVars, WayInv, StackInv, InHboot, InCommands,
                            PlainBelow, Top, Stopped
<1>2. CASE CpuStep
  BY <1>2, CpuStepKeepsWay
<1>3. CASE FastbootCommand
  <2>1. PlainBelow(stack) /\ pc' \in Code
    BY <1>3, PlacesApart DEF FastbootCommand, Idle, WayInv, StackInv
  <2> QED
    BY <1>3, <2>1, RunsOn DEF FastbootCommand
<1>4. CASE PowerCycle
  BY <1>4, Restarts DEF PowerCycle, dbg_init
<1>5. CASE cmd_dispatcher
  BY <1>5, CommandKeepsWay
<1> QED
  BY <1>1, <1>2, <1>3, <1>4, <1>5 DEF StubNext

LEMMA WayInvInit == StubInit => WayInv
<1> SUFFICES ASSUME StubInit PROVE WayInv
  OBVIOUS
<1>1. /\ Active = {} /\ mem = InitText /\ stack = <<>> /\ pc = Exit
  BY DEF StubInit, TableInit, Active
<1>2. ArmedInv
  BY <1>1, TableAssumption DEF ArmedInv
<1>3. Len(stack) = 0
  BY <1>1, EmptySeq
<1>4. InHboot(stack) /\ PlainBelow(stack) /\ ~ \E i \in 1 .. Len(stack) : stack[i] = Stop(CmdBkpt)
  BY <1>3 DEF InHboot, PlainBelow
<1>5. /\ pc \notin {CmdBkpt, CmdRet, PollLoop}
      /\ \A i \in Slot : pc \notin {OrigAddr(i), BackAddr(i)}
  BY <1>1, PlacesApart, SlotPlaces
<1> QED
  BY <1>2, <1>4, <1>5 DEF WayInv, StackInv, Stopped

(* A stop has a way out: for a host that does not write over breakpoints   *)
(* and stops, removes only the breakpoint set last, does not insert into   *)
(* the slot the target is to leave through, attaches with no breakpoint    *)
(* set and does not nest its calls, continue_address leads through a       *)
(* trampoline that executes the displaced word and returns behind it.      *)
THEOREM StopsHaveWayOut ==
  ASSUME OrderlyHost
  PROVE  StubSpec => []StopHasWayOut
<1>1. StubInv /\ StubInv' /\ WayInv /\ [StubNext]_stubVars => WayInv'
  BY WayInvNext
<1>2. ASSUME StubInv, WayInv PROVE StopHasWayOut
  <2>1. SUFFICES ASSUME Stopped
                 PROVE  \/ Top.pc \in Code /\ WayOut(Top.pc)
                        \/ Top.pc = CmdBkpt /\ continue_address = CmdRet
    BY DEF StopHasWayOut
  <2>2. CASE Top.pc \in Code
    BY <1>2, <2>1, <2>2 DEF WayInv, StackInv
  <2>3. CASE Top = Stop(CmdBkpt) /\ Top.pc = CmdBkpt
    <3>1. Len(stack) \in 1 .. Len(stack) /\ stack[Len(stack)] = Stop(CmdBkpt)
      BY <1>2, <2>1, <2>3, StopShape, Popped DEF WayInv, StubInv
    <3> QED
      BY <1>2, <2>3, <3>1 DEF WayInv, StackInv
  <2> QED
    BY <1>2, <2>1, <2>2, <2>3, StopShape DEF WayInv, StubInv
<1> QED
  BY <1>1, <1>2, WayInvInit, StubInvariant, PTL DEF StubSpec
=============================================================================
