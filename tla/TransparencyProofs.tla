-------------------------- MODULE TransparencyProofs --------------------------
(***************************************************************************)
(* For a host that keeps every rule the debugged target is HBOOT: each     *)
(* step of DebugStub is a step of Hboot or none.                           *)
(***************************************************************************)
EXTENDS StopProofs

CarefulHost == AllRules \subseteq Rules

-----------------------------------------------------------------------------
(***************************************************************************)
(* Where the target is, by where the processor is.                         *)
(***************************************************************************)
Positions ==
  /\ \A p \in Code \cup {Exit} : Position(p) = p
  /\ Position(CmdBkpt) = Exit /\ Position(CmdRet) = Exit
  /\ \A i \in Slot : /\ Position(OrigAddr(i)) = bp[i].address
                     /\ Position(BackAddr(i)) = bp[i].address + 1

LEMMA PositionsHold == Positions
<1>1. Position(CmdBkpt) = Exit /\ Position(CmdRet) = Exit
  BY PlacesApart DEF Position
<1>2. ASSUME NEW i \in Slot PROVE Position(OrigAddr(i)) = bp[i].address
  <2>1. OrigAddr(i) \notin Code \cup {Exit, CmdBkpt, CmdRet}
    BY PlacesApart, SlotPlaces
  <2>2. (CHOOSE j \in Slot : OrigAddr(i) = OrigAddr(j)) = i
    BY SlotPlaces
  <2> QED
    BY <2>1, <2>2 DEF Position
<1>3. ASSUME NEW i \in Slot PROVE Position(BackAddr(i)) = bp[i].address + 1
  <2>1. /\ BackAddr(i) \notin Code \cup {Exit, CmdBkpt, CmdRet}
        /\ ~ \E j \in Slot : BackAddr(i) = OrigAddr(j)
    BY PlacesApart, SlotPlaces
  <2>2. (CHOOSE j \in Slot : BackAddr(i) = BackAddr(j)) = i
    BY SlotPlaces
  <2> QED
    BY <2>1, <2>2 DEF Position
<1>4. \A p \in Code \cup {Exit} : Position(p) = p
  BY DEF Position
<1> QED
  BY <1>1, <1>2, <1>3, <1>4 DEF Positions

AtFacts ==
  /\ pc \in Code \cup {Exit} => At = pc
  /\ pc \in {CmdBkpt, CmdRet} => At = Exit
  /\ \A i \in Slot : /\ pc = OrigAddr(i) => At = bp[i].address
                     /\ pc = BackAddr(i) => At = bp[i].address + 1
  /\ Stopped /\ Top.pc \in Code => At = Top.pc
  /\ Stopped /\ Top.pc = CmdBkpt => At = Exit

LEMMA AtFactsHold == AtFacts
<1>1. pc \in Code \cup SlotAddr \cup {Exit, CmdBkpt, CmdRet} => ~Stopped
  BY PlacesApart DEF Stopped
<1>2. pc \in Code \cup SlotAddr \cup {Exit, CmdBkpt, CmdRet} => At = Position(pc)
  BY <1>1 DEF At
<1>3. Stopped => At = Position(Top.pc)
  BY DEF At
<1>4. \A i \in Slot : OrigAddr(i) \in SlotAddr /\ BackAddr(i) \in SlotAddr
  BY SlotPlaces
<1> QED
  BY <1>2, <1>3, <1>4, PositionsHold DEF Positions, AtFacts

-----------------------------------------------------------------------------
(***************************************************************************)
(* Steps of HBOOT.                                                         *)
(***************************************************************************)
HbootStep == [Target!HbootNext]_<<Text, At, last>>

LEMMA Stutters ==
  ASSUME UNCHANGED <<Text, At, last>>
  PROVE  HbootStep
BY DEF HbootStep

LEMMA Executes ==
  ASSUME At \in Code, last' = Text[At], NEW d \in Flow[Text[At]], At' = At + d,
         UNCHANGED Text
  PROVE  HbootStep
BY DEF HbootStep, Target!HbootNext, Target!Execute

LEMMA Starts ==
  ASSUME At = Exit, At' = Entry, UNCHANGED <<Text, last>>
  PROVE  HbootStep
BY DEF HbootStep, Target!HbootNext, Target!Start

LEMMA Patches ==
  ASSUME NEW a \in Code, NEW w \in HostWord, Text' = [Text EXCEPT ![a] = w],
         UNCHANGED <<At, last>>
  PROVE  HbootStep
BY DEF HbootStep, Target!HbootNext, Target!Patch

-----------------------------------------------------------------------------
(***************************************************************************)
(* The target has not run away and will not: what a trampoline executes,   *)
(* or is to execute, is the word of HBOOT at its address, and that word    *)
(* goes on to the next one; wherever a bkpt is next the vector is set.     *)
(***************************************************************************)
Goes(w) == Flow[w] = {1}

PlainInv ==
  /\ \A i \in Active : Goes(bp[i].original)
  /\ \A i \in Slot : pc = OrigAddr(i) =>
       Text[bp[i].address] = bp[i].original /\ Goes(bp[i].original)
  /\ Stopped /\ Top.pc \in Code => Goes(Text[Top.pc])
  /\ pc \in {CmdBkpt, CmdRet, PollLoop} => hooked
  /\ pc # NULL

CarefulInv == StubInv /\ WayInv /\ ArmedStops /\ PlainInv

ActivePlain == \A i \in Active : Goes(bp[i].original)

(* What is next is an instruction of HBOOT or the end of a call.           *)
LEMMA RunsPlain ==
  ASSUME ActivePlain', pc' \in {CmdBkpt, CmdRet} => hooked',
         pc' \in Code \cup {Exit, CmdBkpt, CmdRet} \/ \E i \in Slot : pc' = BackAddr(i)
  PROVE  PlainInv'
<1>1. pc' # NULL /\ pc' # PollLoop /\ \A i \in Slot : pc' # OrigAddr(i)
  BY PlacesApart, SlotPlaces
<1> QED
  BY <1>1 DEF PlainInv, ActivePlain, Stopped

LEMMA SameActive ==
  ASSUME PlainInv, UNCHANGED tableVars
  PROVE  ActivePlain' /\ Text' = Text /\ bp' = bp
<1>1. UNCHANGED <<bp, bp_size>>
  BY DEF tableVars
<1> QED
  BY <1>1, SameTable DEF PlainInv, ActivePlain, Active

(* A command that leaves the target where it is, stopped or not.           *)
LEMMA StaysPlain ==
  ASSUME TargetInv, StackInv, PlainInv, Listening, UNCHANGED <<pc, stack>>,
         ActivePlain', hooked => hooked',
         Stopped /\ Top.pc \in Code => Text'[Top.pc] = Text[Top.pc]
  PROVE  PlainInv' /\ At' = At
<1>1. pc \in {Exit, PollLoop}
  BY DEF Listening, Idle, Stopped
<1>2. Top' = Top /\ (Stopped' <=> Stopped)
  BY DEF Top, Stopped
<1>3. pc' # NULL /\ \A i \in Slot : pc' # OrigAddr(i)
  BY <1>1, PlacesApart, SlotPlaces
<1>4. Stopped' /\ Top'.pc \in Code => Goes(Text'[Top'.pc])
  BY <1>2 DEF PlainInv
<1>5. pc' \in {CmdBkpt, CmdRet, PollLoop} => hooked'
  BY DEF PlainInv
<1>6. PlainInv'
  BY <1>3, <1>4, <1>5 DEF PlainInv, ActivePlain
<1>7. At' = At
  <2>1. AtFacts /\ AtFacts'
    BY AtFactsHold, PTL
  <2>2. Stopped => Top.pc \in Code \/ Top.pc = CmdBkpt
    BY StopShape
  <2> QED
    BY <1>1, <1>2, <2>1, <2>2 DEF AtFacts, Stopped
<1> QED
  BY <1>6, <1>7

-----------------------------------------------------------------------------
(***************************************************************************)
(* The processor's steps.                                                  *)
(***************************************************************************)
LEMMA ExecutesInPlace ==
  ASSUME CarefulInv, ExecuteCode
  PROVE  PlainInv' /\ HbootStep
<1> USE DEF CarefulInv
<1>1. /\ pc \in Code /\ mem[pc] # ARM_BKPT /\ last' = mem[pc]
      /\ pc' \in {pc + d : d \in Flow[mem[pc]]}
      /\ UNCHANGED tableVars
  BY DEF ExecuteCode
<1>2. pc' \in Code \cup {Exit}
  BY ExecuteCodeStays DEF StubInv
<1>3. ActivePlain' /\ Text' = Text
  BY <1>1, SameActive
<1>4. PlainInv'
  BY <1>2, <1>3, RunsPlain, PlacesApart
<1>5. Text[pc] = mem[pc]
  BY <1>1 DEF ArmedStops, Text
<1>6. At = pc /\ At' = pc'
  <2>1. AtFacts /\ AtFacts'
    BY AtFactsHold, PTL
  <2> QED
    BY <1>1, <1>2, <2>1 DEF AtFacts
<1>7. PICK d \in Flow[mem[pc]] : pc' = pc + d
  BY <1>1
<1>8. HbootStep
  BY <1>1, <1>3, <1>5, <1>6, <1>7, Executes
<1> QED
  BY <1>4, <1>8

LEMMA ExecutesInSlot ==
  ASSUME CarefulInv, ExecuteSlot
  PROVE  PlainInv' /\ HbootStep
<1> USE DEF CarefulInv
<1>1. PICK i \in Slot :
        /\ pc = OrigAddr(i)
        /\ last' = bp[i].original
        /\ pc' \in {IF d = 1 THEN BackAddr(i) ELSE NULL : d \in Flow[bp[i].original]}
  BY DEF ExecuteSlot
<1>2. UNCHANGED tableVars
  BY DEF ExecuteSlot
<1>3. /\ Text[bp[i].address] = bp[i].original /\ Flow[bp[i].original] = {1}
      /\ bp[i].address \in Code
  BY <1>1 DEF PlainInv, Goes, WayInv, StackInv, SlotSound
<1>4. pc' = BackAddr(i)
  BY <1>1, <1>3
<1>5. ActivePlain' /\ Text' = Text /\ bp' = bp
  BY <1>2, SameActive
<1>6. PlainInv'
  BY <1>4, <1>5, RunsPlain, PlacesApart, SlotPlaces
<1>7. At = bp[i].address /\ At' = bp[i].address + 1
  <2>1. AtFacts /\ AtFacts'
    BY AtFactsHold, PTL
  <2> QED
    BY <1>1, <1>4, <1>5, <2>1 DEF AtFacts
<1>8. 1 \in Flow[Text[At]]
  BY <1>3, <1>7
<1>9. HbootStep
  BY <1>1, <1>3, <1>5, <1>7, <1>8, Executes
<1> QED
  BY <1>6, <1>9

LEMMA ExecutesBack ==
  ASSUME CarefulInv, ExecuteBack
  PROVE  PlainInv' /\ HbootStep
<1> USE DEF CarefulInv, StubInv
<1>1. PICK i \in Slot : /\ pc = BackAddr(i)
                        /\ pc' = IF bp[i].back \in BranchField
                                 THEN Land(BranchTarget(pc, bp[i].back), stack)
                                 ELSE NULL
  BY DEF ExecuteBack
<1>2. SlotSound(i) /\ PlainBelow(stack)
  BY <1>1, SlotPlaces DEF WayInv, StackInv
<1>3. bp[i].address + 1 \in Code \cup {Exit}
  BY <1>2, ProgramAssumption DEF SlotSound
<1>4. pc' = bp[i].address + 1
  BY <1>1, <1>2, <1>3, LandsPlain DEF SlotSound
<1>5. ActivePlain' /\ Text' = Text /\ UNCHANGED last
  BY SameActive DEF ExecuteBack
<1>6. PlainInv'
  BY <1>3, <1>4, <1>5, RunsPlain, PlacesApart
<1>7. At' = At
  <2>1. AtFacts /\ AtFacts'
    BY AtFactsHold, PTL
  <2> QED
    BY <1>1, <1>3, <1>4, <2>1 DEF AtFacts
<1> QED
  BY <1>5, <1>6, <1>7, Stutters

LEMMA TrapsInPlace ==
  ASSUME CarefulInv, Trap
  PROVE  PlainInv' /\ HbootStep
<1> USE DEF CarefulInv, StubInv
<1>1. stack' = Append(stack, Stop(pc)) /\ pc' = PollLoop /\ UNCHANGED <<tableVars, last>>
  BY DEF Trap, breakpoint_handler
<1>2. hooked /\ hooked'
  BY DEF Trap
<1>3. ActivePlain' /\ Text' = Text
  BY <1>1, SameActive
<1>4. Stop(pc) \in Frame /\ Stop(pc).pc = pc
  BY PlacesAreNat DEF TargetInv, Stop, Frame
<1>5. Stopped' /\ Top'.pc = pc
  BY <1>1, <1>4, Pushed DEF Top, Stopped
<1>6. AtFacts /\ AtFacts'
  BY AtFactsHold, PTL
<1>7. pc' # NULL /\ \A i \in Slot : pc' # OrigAddr(i)
  BY <1>1, PlacesApart, SlotPlaces, PlacesAreNat DEF PlaceInProgram
<1>8. CASE pc \in Code /\ mem[pc] = ARM_BKPT
  <2>1. HasBreakpoint(pc)
    BY <1>8 DEF WayInv, ArmedInv
  <2>2. get_breakpoint(pc) \in Active /\ Text[pc] = bp[get_breakpoint(pc)].original
    BY <1>8, <2>1, GetBreakpointFinds DEF Text
  <2>3. Goes(Text[pc])
    BY <2>2 DEF PlainInv
  <2>4. PlainInv'
    BY <1>2, <1>3, <1>5, <1>7, <2>3 DEF PlainInv, ActivePlain
  <2>5. At' = At
    BY <1>5, <1>6, <1>8 DEF AtFacts
  <2> QED
    BY <1>1, <1>3, <2>4, <2>5, Stutters
<1>9. CASE \E i \in Slot : pc = OrigAddr(i) /\ bp[i].original = ARM_BKPT
  BY <1>9 DEF WayInv, StackInv, SlotSound
<1>10. CASE pc = CmdBkpt
  <2>1. CmdBkpt \notin Code
    BY PlacesApart
  <2>2. PlainInv'
    BY <1>2, <1>3, <1>5, <1>7, <1>10, <2>1 DEF PlainInv, ActivePlain
  <2>3. At' = At
    BY <1>5, <1>6, <1>10 DEF AtFacts
  <2> QED
    BY <1>1, <1>3, <2>2, <2>3, Stutters
<1> QED
  BY <1>8, <1>9, <1>10 DEF Trap, AtBkpt

(* Every bkpt the target comes to is handled.                              *)
LEMMA NoUnhookedTrap == CarefulInv => ~UnhookedTrap
<1> SUFFICES ASSUME CarefulInv, AtBkpt PROVE hooked
  BY DEF UnhookedTrap
<1> USE DEF CarefulInv
<1>1. CASE pc \in Code /\ mem[pc] = ARM_BKPT
  BY <1>1 DEF WayInv, ArmedInv, ArmedStops
<1>2. CASE \E i \in Slot : pc = OrigAddr(i) /\ bp[i].original = ARM_BKPT
  BY <1>2 DEF WayInv, StackInv, SlotSound
<1>3. CASE pc = CmdBkpt
  BY <1>3 DEF PlainInv
<1> QED
  BY <1>1, <1>2, <1>3 DEF AtBkpt

LEMMA ReturnsInPlace ==
  ASSUME CarefulInv, EndOfCmdBreakpoint \/ EndOfCmdCall
  PROVE  PlainInv' /\ HbootStep
<1> USE DEF CarefulInv, StubInv
<1>1. /\ UNCHANGED <<tableVars, continue_address, hooked, last>>
      /\ \/ pc = CmdRet /\ Return("cmd_breakpoint")
         \/ pc = Exit /\ Return("cmd_call")
  BY DEF EndOfCmdBreakpoint, EndOfCmdCall
<1>2. /\ pc' \in {Exit, PollLoop}
      /\ pc' = PollLoop => pc = CmdRet /\ Top'.pc = CmdBkpt
  BY <1>1, CallsReturn
<1>3. ActivePlain' /\ Text' = Text
  BY <1>1, SameActive
<1>4. AtFacts /\ AtFacts'
  BY AtFactsHold, PTL
<1>5. At = Exit
  BY <1>1, <1>4 DEF AtFacts
<1>6. CASE pc' = Exit
  <2>1. PlainInv'
    BY <1>3, <1>6, RunsPlain, PlacesApart
  <2>2. At' = Exit
    BY <1>4, <1>6 DEF AtFacts
  <2> QED
    BY <1>1, <1>3, <1>5, <2>1, <2>2, Stutters
<1>7. CASE pc' = PollLoop
  <2>1. Stopped' /\ Top'.pc = CmdBkpt /\ CmdBkpt \notin Code /\ hooked'
    BY <1>1, <1>2, <1>7, PlacesApart DEF Stopped, PlainInv
  <2>2. pc' # NULL /\ \A i \in Slot : pc' # OrigAddr(i)
    BY <1>7, PlacesApart, SlotPlaces, PlacesAreNat DEF PlaceInProgram
  <2>3. PlainInv'
    BY <1>3, <2>1, <2>2 DEF PlainInv, ActivePlain
  <2>4. At' = Exit
    BY <1>4, <2>1 DEF AtFacts
  <2> QED
    BY <1>1, <1>3, <1>5, <2>3, <2>4, Stutters
<1> QED
  BY <1>2, <1>6, <1>7

LEMMA StartsHboot ==
  ASSUME CarefulInv, pc = Exit, pc' = Entry, UNCHANGED <<tableVars, last>>
  PROVE  PlainInv' /\ HbootStep
<1> USE DEF CarefulInv
<1>1. ActivePlain' /\ Text' = Text
  BY SameActive
<1>2. PlainInv'
  BY <1>1, RunsPlain, PlacesApart
<1>3. At = Exit /\ At' = Entry
  <2>1. AtFacts /\ AtFacts'
    BY AtFactsHold, PTL
  <2> QED
    BY <2>1, PlacesApart DEF AtFacts
<1> QED
  BY <1>1, <1>2, <1>3, Starts

LEMMA RestartsHboot ==
  ASSUME PowerCycle
  PROVE  PlainInv' /\ HbootStep
<1>1. Active' = {} /\ pc' = Exit /\ mem' = InitText /\ last' = NULL
  BY DEF PowerCycle, dbg_init, Active
<1>2. ActivePlain'
  BY <1>1 DEF ActivePlain
<1>3. PlainInv'
  BY <1>1, <1>2, RunsPlain, PlacesApart
<1>4. Text' = InitText
  BY <1>1, TableAssumption DEF Text, HasBreakpoint
<1>5. At' = Exit
  <2>1. AtFacts'
    BY AtFactsHold, PTL
  <2> QED
    BY <1>1, <2>1 DEF AtFacts
<1>6. HbootStep
  BY <1>1, <1>4, <1>5 DEF HbootStep, Target!HbootNext, Target!Restart
<1> QED
  BY <1>3, <1>6

-----------------------------------------------------------------------------
(***************************************************************************)
(* The commands.                                                           *)
(***************************************************************************)
LEMMA ContinuesInPlace ==
  ASSUME CarefulInv, ContinueCommand
  PROVE  PlainInv' /\ HbootStep
<1> USE DEF CarefulInv, StubInv
<1>1. UNCHANGED <<tableVars, continue_address, hooked, last>> /\ Listening
  BY DEF ContinueCommand, cmd_breakpoint_continue
<1>2. ActivePlain' /\ Text' = Text /\ bp' = bp
  BY <1>1, SameActive
<1>3. AtFacts /\ AtFacts'
  BY AtFactsHold, PTL
<1>4. CASE UNCHANGED <<pc, stack>>
  <2>1. PlainInv' /\ At' = At
    BY <1>1, <1>2, <1>4, StaysPlain DEF WayInv
  <2> QED
    BY <1>1, <1>2, <2>1, Stutters
<1>5. CASE Stopped /\ Resume(continue_address)
  <2>1. CASE InHboot(stack) /\ Top.pc \in Code
    <3>1. PICK i \in Slot : /\ continue_address = OrigAddr(i)
                            /\ bp[i].address = Top.pc
                            /\ bp[i].original = Text[Top.pc]
                            /\ bp[i].back \in BranchField
                            /\ BranchTarget(BackAddr(i), bp[i].back) = Top.pc + 1
      BY <1>5, <2>1 DEF WayInv, StackInv, WayOut
    <3>2. SlotSound(i)
      BY <2>1, <3>1, TextIsPlain DEF SlotSound, WayInv
    <3>3. pc' = OrigAddr(i)
      BY <1>1, <1>5, <2>1, <3>1, <3>2, Resumes
    <3>4. Goes(Text[Top.pc])
      BY <1>5, <2>1 DEF PlainInv
    <3>5. pc' # NULL /\ pc' \notin {CmdBkpt, CmdRet, PollLoop} /\ ~Stopped'
      BY <3>3, PlacesApart, SlotPlaces DEF Stopped
    <3>6. ASSUME NEW j \in Slot, pc' = OrigAddr(j)
          PROVE  Text'[bp'[j].address] = bp'[j].original /\ Goes(bp'[j].original)
      <4>1. j = i
        BY <3>3, <3>6, SlotPlaces
      <4> QED
        BY <1>2, <3>1, <3>4, <4>1
    <3>7. PlainInv'
      BY <1>2, <3>5, <3>6 DEF PlainInv, ActivePlain
    <3>8. At' = At
      BY <1>2, <1>3, <1>5, <2>1, <3>1, <3>3 DEF AtFacts
    <3> QED
      BY <1>1, <1>2, <3>7, <3>8, Stutters
  <2>2. CASE InCommands(stack) /\ Top = Stop(CmdBkpt) /\ Top.pc = CmdBkpt
    <3>1. stack # <<>> /\ Len(stack) \in 1 .. Len(stack) /\ stack[Len(stack)] = Stop(CmdBkpt)
      BY <1>5, <2>2, StopShape, Popped DEF WayInv
    <3>2. continue_address = CmdRet
      BY <3>1 DEF WayInv, StackInv
    <3>3. pc' = CmdRet
      BY <1>1, <1>5, <2>2, <3>2, Resumes
    <3>4. hooked
      BY <1>5 DEF PlainInv, Stopped
    <3>5. PlainInv'
      BY <1>1, <1>2, <3>3, <3>4, RunsPlain
    <3>6. At' = At
      BY <1>3, <1>5, <2>2, <3>3 DEF AtFacts
    <3> QED
      BY <1>1, <1>2, <3>5, <3>6, Stutters
  <2> QED
    BY <1>5, <2>1, <2>2, StopShape DEF WayInv
<1> QED
  BY <1>4, <1>5 DEF ContinueCommand, cmd_breakpoint_continue

LEMMA DetachesInPlace ==
  ASSUME CarefulInv, Listening, cmd_detach
  PROVE  PlainInv' /\ HbootStep
<1> USE DEF CarefulInv, StubInv
<1>1. UNCHANGED <<tableVars, continue_address, hooked, last>>
  BY DEF cmd_detach
<1>2. ActivePlain' /\ Text' = Text
  BY <1>1, SameActive
<1>3. CASE UNCHANGED <<pc, stack>>
  <2>1. PlainInv' /\ At' = At
    BY <1>1, <1>2, <1>3, StaysPlain DEF WayInv
  <2> QED
    BY <1>1, <1>2, <2>1, Stutters
<1>4. CASE Stopped /\ Resume(Top.pc)
  <2>1. Top.pc \in Code \/ Top.pc = CmdBkpt
    BY <1>4, StopShape DEF WayInv
  <2>2. pc' = Top.pc
    BY <1>1, <1>4, <2>1, Resumes
  <2>3. hooked
    BY <1>4 DEF PlainInv, Stopped
  <2>4. PlainInv'
    BY <1>1, <1>2, <2>1, <2>2, <2>3, RunsPlain
  <2>5. AtFacts /\ AtFacts'
    BY AtFactsHold, PTL
  <2>6. At' = At
    BY <1>4, <2>1, <2>2, <2>5 DEF AtFacts
  <2> QED
    BY <1>1, <1>2, <2>4, <2>6, Stutters
<1> QED
  BY <1>3, <1>4 DEF cmd_detach

LEMMA AttachesInPlace ==
  ASSUME "AttachFresh" \in Rules, CarefulInv, Listening, cmd_attach
  PROVE  PlainInv' /\ HbootStep
<1> USE DEF CarefulInv, StubInv
<1>1. /\ bp_size = 0 /\ ~Stopped /\ bp_size' = 0 /\ mem' = mem /\ hooked'
      /\ UNCHANGED <<pc, stack, last>>
  BY DEF cmd_attach, dbg_init, MayAttach, Keeps
<1>2. Active = {} /\ Active' = {}
  BY <1>1 DEF Active
<1>3. ActivePlain' /\ Text' = Text
  BY <1>1, <1>2 DEF ActivePlain, Text, HasBreakpoint
<1>4. PlainInv' /\ At' = At
  BY <1>1, <1>3, StaysPlain DEF WayInv
<1> QED
  BY <1>1, <1>3, <1>4, Stutters

LEMMA WritesPatch ==
  ASSUME "NoOverwrite" \in Rules, CarefulInv, WriteCommand
  PROVE  PlainInv' /\ HbootStep
<1> USE DEF CarefulInv, StubInv
<1>1. PICK a \in Code \cup Unmapped, w \in HostWord, error \in ErrorCode : cmd_write(a, w, error)
  BY DEF WriteCommand
<1>2. Listening /\ UNCHANGED <<pc, stack, hooked, last, bp, bp_size>>
  BY <1>1 DEF WriteCommand, cmd_write, tableVars
<1>3. ActivePlain'
  BY <1>2 DEF PlainInv, ActivePlain, Active
<1>4. CASE UNCHANGED tableVars
  <2>1. Text' = Text
    BY <1>4, SameActive
  <2>2. PlainInv' /\ At' = At
    BY <1>2, <1>3, <2>1, StaysPlain DEF WayInv
  <2> QED
    BY <1>2, <2>1, <2>2, Stutters
<1>5. CASE a \in Code
  <2>1. Text' = Text \/ Text' = [Text EXCEPT ![a] = w]
    BY <1>1, <1>5, WriteChangesText
  <2>2. ASSUME Stopped, Top.pc \in Code PROVE Text'[Top.pc] = Text[Top.pc]
    <3>1. stack # <<>> /\ Top.what = "stop" /\ Top \in Frame
      BY <2>2, PopProperties DEF TargetInv, Stopped
    <3>2. Top = Stop(Top.pc)
      BY <3>1 DEF Frame, Stop
    <3>3. Top = stack[Len(stack)] /\ Len(stack) \in 1 .. Len(stack)
      BY <3>1, Popped
    <3>4. StoppedAt(Top.pc)
      BY <3>2, <3>3 DEF StoppedAt
    <3>5. ~StoppedAt(a)
      BY <1>1 DEF cmd_write, MayWrite, Keeps
    <3>6. Top.pc # a
      BY <3>4, <3>5
    <3> QED
      BY <2>1, <2>2, <3>6 DEF Text
  <2>3. PlainInv' /\ At' = At
    BY <1>2, <1>3, <2>2, StaysPlain DEF WayInv
  <2> QED
    BY <1>2, <1>5, <2>1, <2>3, Stutters, Patches
<1> QED
  BY <1>1, <1>4, <1>5 DEF cmd_write

LEMMA InsertsInPlace ==
  ASSUME "PlainOnly" \in Rules, CarefulInv, StubInv', InsertCommand
  PROVE  PlainInv' /\ HbootStep
<1> USE DEF CarefulInv, StubInv
<1>1. PICK a \in Code \cup Unmapped, error \in ErrorCode : cmd_insert_breakpoint(a, error)
  BY DEF InsertCommand
<1>2. /\ Listening /\ UNCHANGED <<pc, stack, hooked, last>>
      /\ a \in Code \/ TableFull
      /\ insert_breakpoint(a, error)
  BY <1>1 DEF InsertCommand, cmd_insert_breakpoint
<1>3. CASE UNCHANGED tableVars
  <2>1. ActivePlain' /\ Text' = Text
    BY <1>3, SameActive
  <2>2. PlainInv' /\ At' = At
    BY <1>2, <2>1, StaysPlain DEF WayInv
  <2> QED
    BY <1>2, <2>1, <2>2, Stutters
<1>4. CASE /\ ~HasBreakpoint(a) /\ alloc_breakpoint
           /\ bp' = [bp EXCEPT ![bp_size] = Trampoline(bp_size, a)]
  <2>1. a \in Code /\ bp_size \in Slot /\ bp_size \in Nat /\ bp_size' = bp_size + 1
    BY <1>2, <1>4, TableAssumption DEF alloc_breakpoint, TableFull, TableInv, TableTypeOK, Slot
  <2>2. Goes(mem[a])
    BY <1>1, <1>4, <2>1 DEF cmd_insert_breakpoint, MayInsert, Keeps, Goes, Text
  <2>3. bp'[bp_size].original = mem[a] /\ \A i \in Slot : i # bp_size => bp'[i] = bp[i]
    BY <1>4, <2>1 DEF TableInv, TableTypeOK, Trampoline
  <2>4. \A i \in Active' : i = bp_size \/ (i \in Active /\ i \in Slot /\ i # bp_size)
    BY <2>1, ActiveIsSlot DEF Active, TableInv
  <2>5. ActivePlain'
    BY <2>2, <2>3, <2>4 DEF ActivePlain, PlainInv
  <2>6. Text' = Text
    BY <1>2, <2>1, InsertKeepsText
  <2>7. PlainInv' /\ At' = At
    BY <1>2, <2>5, <2>6, StaysPlain DEF WayInv
  <2> QED
    BY <1>2, <2>6, <2>7, Stutters
<1> QED
  BY <1>2, <1>3, <1>4 DEF insert_breakpoint

LEMMA RemovesInPlace ==
  ASSUME "KeepSlots" \in Rules, CarefulInv, StubInv', RemoveCommand
  PROVE  PlainInv' /\ HbootStep
<1> USE DEF CarefulInv, StubInv
<1>1. PICK a \in Code \cup Unmapped, error \in ErrorCode : cmd_remove_breakpoint(a, error)
  BY DEF RemoveCommand
<1>2. /\ Listening /\ UNCHANGED <<pc, stack, hooked, last>>
      /\ remove_breakpoint(a, error)
      /\ HasBreakpoint(a) => get_breakpoint(a) = bp_size - 1
  BY <1>1 DEF RemoveCommand, cmd_remove_breakpoint, MayRemove, Keeps
<1>3. CASE UNCHANGED tableVars
  <2>1. ActivePlain' /\ Text' = Text
    BY <1>3, SameActive
  <2>2. PlainInv' /\ At' = At
    BY <1>2, <2>1, StaysPlain DEF WayInv
  <2> QED
    BY <1>2, <2>1, <2>2, Stutters
<1>4. CASE HasBreakpoint(a) /\ free_breakpoint(a)
  <2>1. a \in Code
    BY <1>4 DEF HasBreakpoint, TableInv, ActiveInCode
  <2>2. bp' = bp
    BY <1>2, <2>1, RemoveKeepsArmed DEF WayInv
  <2>3. bp_size' = bp_size - 1 /\ bp_size \in Nat
    BY <1>4 DEF free_breakpoint, TableInv, TableTypeOK
  <2>4. Active' \subseteq Active
    BY <2>3 DEF Active
  <2>5. ActivePlain'
    BY <2>2, <2>4 DEF ActivePlain, PlainInv
  <2>6. Text' = Text
    BY <1>2, <2>1, RemoveKeepsText
  <2>7. PlainInv' /\ At' = At
    BY <1>2, <2>5, <2>6, StaysPlain DEF WayInv
  <2> QED
    BY <1>2, <2>6, <2>7, Stutters
<1> QED
  BY <1>2, <1>3, <1>4 DEF remove_breakpoint

LEMMA CallsCmdBreakpoint ==
  ASSUME "AttachFirst" \in Rules, "NoNest" \in Rules, CarefulInv, Listening, cmd_breakpoint
  PROVE  PlainInv' /\ HbootStep
<1> USE DEF CarefulInv
<1>1. /\ pc' = CmdBkpt /\ hooked /\ (Stopped => Top.pc = CmdBkpt)
      /\ UNCHANGED <<tableVars, hooked, last>>
  BY DEF cmd_breakpoint, MayBreak, Keeps
<1>2. ActivePlain' /\ Text' = Text
  BY <1>1, SameActive
<1>3. PlainInv'
  BY <1>1, <1>2, RunsPlain
<1>4. AtFacts /\ AtFacts'
  BY AtFactsHold, PTL
<1>5. At = Exit /\ At' = Exit
  BY <1>1, <1>4 DEF AtFacts, Listening, Idle
<1> QED
  BY <1>1, <1>2, <1>3, <1>5, Stutters

-----------------------------------------------------------------------------
LEMMA CarefulRules ==
  ASSUME CarefulHost
  PROVE  OrderlyHost /\ \A r \in AllRules : r \in Rules
BY DEF CarefulHost, OrderlyHost, AllRules

LEMMA CommandIsTransparent ==
  ASSUME CarefulHost, CarefulInv, StubInv', cmd_dispatcher
  PROVE  PlainInv' /\ HbootStep
<1>0. /\ "AttachFirst" \in Rules /\ "AttachFresh" \in Rules /\ "KeepSlots" \in Rules
      /\ "NoOverwrite" \in Rules /\ "NoNest" \in Rules /\ "PlainOnly" \in Rules
      /\ "MappedOnly" \in Rules
  BY CarefulRules DEF AllRules
<1>1. CASE Listening /\ cmd_attach
  BY <1>0, <1>1, AttachesInPlace
<1>2. CASE Listening /\ cmd_detach
  BY <1>2, DetachesInPlace
<1>3. CASE ContinueCommand
  BY <1>3, ContinuesInPlace
<1>4. CASE Listening /\ NoEffect
  <2>1. UNCHANGED <<tableVars, hooked, pc, stack, last>>
    BY <1>4 DEF NoEffect
  <2>2. ActivePlain' /\ Text' = Text
    BY <2>1, SameActive DEF CarefulInv
  <2>3. PlainInv' /\ At' = At
    BY <1>4, <2>1, <2>2, StaysPlain DEF CarefulInv, StubInv, WayInv
  <2> QED
    BY <2>1, <2>2, <2>3, Stutters
<1>5. CASE WriteCommand
  BY <1>0, <1>5, WritesPatch
<1>6. CASE InsertCommand
  BY <1>0, <1>6, InsertsInPlace
<1>7. CASE RemoveCommand
  BY <1>0, <1>7, RemovesInPlace
<1>8. CASE Listening /\ InsertUnmapped
  BY <1>0, <1>8 DEF InsertUnmapped, Keeps
<1>9. CASE Listening /\ cmd_breakpoint
  BY <1>0, <1>9, CallsCmdBreakpoint
<1>10. CASE Listening /\ cmd_call
  BY <1>0, <1>10, StartsHboot DEF cmd_call, MayCall, Keeps, Listening, Idle
<1>11. CASE Listening /\ cmd_fastboot_reboot
  BY <1>11, RestartsHboot DEF cmd_fastboot_reboot
<1> QED
  BY <1>1, <1>2, <1>3, <1>4, <1>5, <1>6, <1>7, <1>8, <1>9, <1>10, <1>11 DEF cmd_dispatcher

LEMMA CpuStepIsTransparent ==
  ASSUME CarefulInv, CpuStep
  PROVE  PlainInv' /\ HbootStep
BY ExecutesInPlace, ExecutesInSlot, ExecutesBack, TrapsInPlace, NoUnhookedTrap,
   ReturnsInPlace DEF CpuStep

LEMMA StepIsTransparent ==
  ASSUME CarefulHost, CarefulInv, StubInv', [StubNext]_stubVars
  PROVE  PlainInv' /\ HbootStep
<1>1. CASE UNCHANGED stubVars
  <2>1. UNCHANGED <<tableVars, mem, bp, bp_size, hooked, pc, stack, last>>
    BY <1>1 DEF stubVars, tableVars, targetVars
  <2>2. ActivePlain' /\ Text' = Text
    BY <2>1, SameActive DEF CarefulInv
  <2>3. PlainInv'
    BY <2>1, <2>2 DEF CarefulInv, PlainInv, ActivePlain, Stopped, Top
  <2>4. At' = At
    BY <2>1 DEF At, Position, Stopped, Top
  <2> QED
    BY <2>1, <2>2, <2>3, <2>4, Stutters
<1>2. CASE CpuStep
  BY <1>2, CpuStepIsTransparent
<1>3. CASE FastbootCommand
  BY <1>3, StartsHboot DEF FastbootCommand, Idle
<1>4. CASE PowerCycle
  BY <1>4, RestartsHboot
<1>5. CASE cmd_dispatcher
  BY <1>5, CommandIsTransparent
<1> QED
  BY <1>1, <1>2, <1>3, <1>4, <1>5 DEF StubNext

LEMMA StartIsTransparent == StubInit => PlainInv /\ ArmedStops /\ Target!HbootInit
<1> SUFFICES ASSUME StubInit PROVE PlainInv /\ ArmedStops /\ Target!HbootInit
  OBVIOUS
<1>1. Active = {} /\ pc = Exit /\ mem = InitText /\ last = NULL
  BY DEF StubInit, TableInit, Active
<1>2. pc \notin {NULL, CmdBkpt, CmdRet, PollLoop} /\ \A i \in Slot : pc # OrigAddr(i)
  BY <1>1, PlacesApart, SlotPlaces
<1>3. PlainInv /\ ArmedStops
  BY <1>1, <1>2 DEF PlainInv, ArmedStops, HasBreakpoint, Stopped
<1>4. Text = InitText
  BY <1>1, TableAssumption DEF Text, HasBreakpoint
<1>5. At = Exit
  BY <1>1, AtFactsHold DEF AtFacts
<1> QED
  BY <1>1, <1>3, <1>4, <1>5 DEF Target!HbootInit

(* A debugged target is HBOOT: for a host that keeps every rule, stops,    *)
(* trampolines and commands add, lose, repeat and change no instruction,   *)
(* whatever the program, its addresses, the number of slots and the order  *)
(* of the commands.                                                        *)
THEOREM StubIsTransparent ==
  ASSUME CarefulHost
  PROVE  StubSpec => Transparent
<1>1. StubInit => PlainInv /\ ArmedStops /\ WayInv /\ Target!HbootInit
  BY StartIsTransparent, WayInvInit
<1>2. /\ StubInv /\ StubInv' /\ WayInv /\ ArmedStops /\ PlainInv /\ [StubNext]_stubVars
         => WayInv' /\ ArmedStops' /\ PlainInv' /\ HbootStep
  <2> SUFFICES ASSUME StubInv, StubInv', WayInv, ArmedStops, PlainInv, [StubNext]_stubVars
               PROVE  WayInv' /\ ArmedStops' /\ PlainInv' /\ HbootStep
    OBVIOUS
  <2>1. OrderlyHost /\ "AttachFirst" \in Rules /\ "NoOverwrite" \in Rules
    BY CarefulRules DEF AllRules
  <2>2. WayInv' /\ ArmedStops'
    BY <2>1, WayInvNext, ArmedStopsNext
  <2>3. PlainInv' /\ HbootStep
    BY StepIsTransparent DEF CarefulInv
  <2> QED
    BY <2>2, <2>3
<1>3. HbootStep <=> [Target!HbootNext]_Target!hbootVars
  BY DEF HbootStep, Target!hbootVars
<1> QED
  BY <1>1, <1>2, <1>3, StubInvariant, PTL DEF StubSpec, Transparent, Target!HbootSpec
=============================================================================
