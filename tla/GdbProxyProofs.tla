--------------------------- MODULE GdbProxyProofs ---------------------------
(***************************************************************************)
(* Theorems about the proxy, for every program, layout and table size.     *)
(***************************************************************************)
EXTENDS GdbProxy, TransparencyProofs

(***************************************************************************)
(* What is on the line is a command the target knows, and is the one the   *)
(* proxy waits for, if it still is on the line.                            *)
(***************************************************************************)
CommandName == {"none", "attach", "breakpoint", "detach", "read", "get_registers", "write",
                "insert_breakpoint", "remove_breakpoint", "breakpoint_continue"}

CommandType == [cmd : CommandName, addr : Code \cup Unmapped \cup {NULL},
                word : HostWord \cup {NULL}]

LineInv ==
  /\ line \in CommandType
  /\ line.cmd \in {"write", "insert_breakpoint", "remove_breakpoint"} =>
       line.addr \in Code \cup Unmapped
  /\ line.cmd = "write" => line.word \in HostWord
  /\ shown \subseteq Code \cup Unmapped
  /\ break_pc \in Code \cup {NULL}

OneStepPhase == {"step", "continued", "poll", "stepped"}

PhaseInv ==
  /\ phase = "off" => shown = {} /\ ~told
  /\ phase = "ready" => line = NoCommand
  /\ phase = "attached" => line.cmd = "attach" /\ shown = {} /\ ~told
  /\ phase = "broken" => line.cmd = "breakpoint"
  /\ phase = "registers" => line.cmd = "get_registers"
  /\ phase = "done" => line.cmd \in {"read", "write", "detach"}
  /\ phase = "inserted" => line = NoCommand \/ line.cmd = "insert_breakpoint"
  /\ phase = "removed" => line.cmd = "remove_breakpoint"
  /\ phase = "step" => /\ Stepping
                       /\ \/ line = NoCommand
                          \/ line.cmd = "insert_breakpoint" /\ line.addr = break_pc
  /\ phase = "continued" => line.cmd = "breakpoint_continue"
  /\ phase = "poll" => line.cmd = "get_registers"
  /\ phase = "stepped" => line.cmd = "remove_breakpoint" /\ line.addr = break_pc /\ Stepping
  /\ phase \notin OneStepPhase => ~Stepping
  /\ phase \in {"attached", "broken", "continued", "poll", "step", "stepped"} => ~told
  /\ phase = "done" /\ told => line.cmd # "detach"

ProxyInv == LineInv /\ PhaseInv

LEMMA NullApart == NULL \notin Code \cup Unmapped /\ NULL \in Nat
BY TableAssumption, LayoutAssumption DEF NULL

LEMMA CommandsTyped ==
  /\ \A c \in CommandName : Plain(c) \in CommandType /\ Plain(c).cmd = c
  /\ \A c \in CommandName, a \in Code \cup Unmapped \cup {NULL}, w \in HostWord \cup {NULL} :
       /\ Command(c, a, w) \in CommandType
       /\ Command(c, a, w).cmd = c /\ Command(c, a, w).addr = a /\ Command(c, a, w).word = w
  /\ NoCommand \in CommandType /\ NoCommand.cmd = "none"
BY DEF Plain, Command, NoCommand, CommandType, CommandName

LEMMA ProxyInvInit == GdbInit => ProxyInv
BY CommandsTyped, NullApart DEF GdbInit, ProxyInv, LineInv, PhaseInv, Stepping, OneStepPhase

LEMMA RequestKeepsProxyInv ==
  ASSUME ProxyInv, Request
  PROVE  ProxyInv'
<1> USE CommandsTyped, NullApart DEF Ask, Send, ProxyInv, LineInv, PhaseInv, Stepping, OneStepPhase, CommandName
<1>1. CASE handle_get_registers
  BY <1>1 DEF handle_get_registers
<1>2. CASE handle_read_memory
  BY <1>2 DEF handle_read_memory
<1>3. CASE handle_write_memory
  BY <1>3, GdbAssumption DEF handle_write_memory
<1>4. CASE handle_insert_breakpoint
  BY <1>4 DEF handle_insert_breakpoint
<1>5. CASE handle_remove_breakpoint
  BY <1>5 DEF handle_remove_breakpoint
<1>6. CASE handle_continue
  BY <1>6 DEF handle_continue
<1>7. CASE handle_step
  BY <1>7 DEF handle_step
<1>8. CASE handle_detach
  BY <1>8 DEF handle_detach
<1>9. CASE handle_get_stop_reason
  BY <1>9 DEF handle_get_stop_reason
<1> QED
  BY <1>1, <1>2, <1>3, <1>4, <1>5, <1>6, <1>7, <1>8, <1>9 DEF Request

LEMMA ReplyKeepsProxyInv ==
  ASSUME ProxyInv, Reply, line # NoCommand
  PROVE  ProxyInv'
<1> USE CommandsTyped, NullApart DEF Send, Forget, ProxyInv, LineInv, PhaseInv, Stepping, OneStepPhase, CommandName
<1>1. CASE PollReply
  BY <1>1 DEF PollReply
<1>2. CASE RegistersReply
  BY <1>2 DEF RegistersReply
<1>3. CASE LastReply
  <2>1. /\ shown' \subseteq Code \cup Unmapped
        /\ line' = NoCommand /\ phase' = "ready" /\ break_pc' = NULL
    BY <1>3 DEF LastReply
  <2>2. LineInv'
    BY <2>1
  <2> QED
    BY <2>1, <2>2
<1>4. CASE NextCommand
  BY <1>4 DEF NextCommand
<1>5. CASE NobodyReads
  BY <1>5 DEF NobodyReads
<1> QED
  BY <1>1, <1>2, <1>3, <1>4, <1>5 DEF Reply

LEMMA ProxyInvNext == ProxyInv /\ [GdbNext]_gdbVars => ProxyInv'
<1> SUFFICES ASSUME ProxyInv, [GdbNext]_gdbVars PROVE ProxyInv'
  OBVIOUS
<1>1. CASE UNCHANGED proxyVars
  BY <1>1 DEF proxyVars, ProxyInv, LineInv, PhaseInv, Stepping
<1>2. CASE Request
  BY <1>2, RequestKeepsProxyInv
<1>3. CASE Handle
  BY <1>3, ReplyKeepsProxyInv DEF Handle
<1>4. CASE HandleFault \/ Run
  BY <1>4, CommandsTyped, NullApart
  DEF HandleFault, Run, ProxyInv, LineInv, PhaseInv, Stepping, OneStepPhase
<1>5. CASE Start \/ Close \/ GiveUp \/ Unplugged
  BY <1>5, CommandsTyped, NullApart
  DEF Start, Close, GiveUp, Unplugged, Forget, Ask, Send, ProxyInv, LineInv, PhaseInv,
      Stepping, OneStepPhase, CommandName
<1> QED
  BY <1>1, <1>2, <1>3, <1>4, <1>5 DEF GdbNext, gdbVars, OwnCommand

THEOREM ProxyInvariant == GdbSpec => []ProxyInv
<1> QED
  BY ProxyInvInit, ProxyInvNext, PTL DEF GdbSpec

-----------------------------------------------------------------------------
(***************************************************************************)
(* To the target the proxy is one of the hosts of DebugStub.               *)
(***************************************************************************)
LEMMA ServeIsCommand ==
  ASSUME ProxyInv, Listening, Serve
  PROVE  cmd_dispatcher
<1> USE DEF ProxyInv, LineInv
<1>1. CASE \E error \in ErrorCode :
             \/ line.cmd = "write" /\ cmd_write(line.addr, line.word, error)
             \/ line.cmd = "insert_breakpoint" /\ cmd_insert_breakpoint(line.addr, error)
             \/ line.cmd = "remove_breakpoint" /\ cmd_remove_breakpoint(line.addr, error)
             \/ line.cmd = "breakpoint_continue" /\ cmd_breakpoint_continue(error)
  BY <1>1 DEF cmd_dispatcher, WriteCommand, InsertCommand, RemoveCommand, ContinueCommand
<1> QED
  BY <1>1 DEF Serve, cmd_dispatcher

LEMMA GdbStepIsStubStep == ProxyInv /\ [GdbNext]_gdbVars => [StubNext]_stubVars
<1> SUFFICES ASSUME ProxyInv, GdbNext PROVE [StubNext]_stubVars
  BY DEF gdbVars
<1>1. CASE Handle
  BY <1>1, ServeIsCommand DEF Handle, StubNext
<1>2. CASE HandleFault
  BY <1>2 DEF HandleFault, StubNext, cmd_dispatcher
<1>3. CASE Run \/ OwnCommand \/ Unplugged
  BY <1>3 DEF Run, OwnCommand, Unplugged, StubNext
<1>4. CASE UNCHANGED stubVars
  BY <1>4
<1> QED
  BY <1>1, <1>2, <1>3, <1>4 DEF GdbNext, Start, Close, GiveUp

(* The proxy gives the target no step that DebugStub does not know, so     *)
(* that all that holds of every host holds of the proxy.                   *)
THEOREM ProxyIsHost == GdbSpec => StubSpec
<1>1. GdbInit => StubInit
  BY DEF GdbInit
<1> QED
  BY <1>1, GdbStepIsStubStep, ProxyInvariant, PTL DEF GdbSpec, StubSpec

(* Under the proxy too every address with a breakpoint stops the target.   *)
THEOREM ProxyArmedAddressesStop ==
  ASSUME "AttachFirst" \in Rules, "NoOverwrite" \in Rules
  PROVE  GdbSpec => []ArmedStops
BY ProxyIsHost, ArmedAddressesStop

(* Behind a proxy whose GDB keeps every rule the target is HBOOT, whatever *)
(* GDB asks for and whenever the proxy dies in the middle of a request.    *)
THEOREM ProxyIsTransparent ==
  ASSUME CarefulHost
  PROVE  GdbSpec => Transparent
BY ProxyIsHost, StubIsTransparent

-----------------------------------------------------------------------------
(***************************************************************************)
(* The breakpoints GDB believes in.  While a step is under way there is    *)
(* one more, of which GDB knows nothing, and it is none of GDB's: that is  *)
(* what StepFresh is for.  Room is for the answer OK to be true.           *)
(***************************************************************************)
BeliefInv ==
  /\ phase # "off" => /\ shown \subseteq Planted
                      /\ Planted \subseteq shown \cup inherited \cup {break_pc}
                      /\ Stepping => break_pc \notin shown
  /\ phase = "inserted" => \/ line = NoCommand
                           \/ HasBreakpoint(line.addr)
                           \/ ~TableFull

PlantedIsArmed == Planted = ArmedAddresses

LEMMA PlantedByAddress == TableInv => PlantedIsArmed
BY DEF TableInv, ActiveInCode, Planted, PlantedIsArmed, HasBreakpoint, ArmedAddresses

LEMMA SameTableSamePlanted ==
  ASSUME UNCHANGED <<bp, bp_size>>
  PROVE  /\ Planted' = Planted
         /\ TableFull' <=> TableFull
         /\ \A a : HasBreakpoint(a)' <=> HasBreakpoint(a)
BY DEF Planted, HasBreakpoint, Active, TableFull

(* An insertion plants its address, or is refused for want of room.        *)
LEMMA InsertPlants ==
  ASSUME TableInv, TableInv', NEW a \in Code, NEW error, insert_breakpoint(a, error)
  PROVE  /\ Planted \subseteq Planted'
         /\ Planted' \subseteq Planted \cup {a}
         /\ HasBreakpoint(a) \/ ~TableFull => a \in Planted'
<1>1. PlantedIsArmed /\ PlantedIsArmed'
  BY PlantedByAddress, PTL
<1>2. Planted = DOMAIN Saved /\ Planted' = DOMAIN Saved'
  BY <1>1 DEF PlantedIsArmed, Saved
<1>3. CASE error = "SUCCESS"
  <2>1. Map!Arm(a)
    BY <1>3, InsertRefines DEF Map!Insert
  <2> QED
    BY <1>2, <2>1 DEF Map!Arm, Map!Armed
<1>4. CASE error # "SUCCESS"
  <2>1. UNCHANGED <<bp, bp_size>> /\ (HasBreakpoint(a) \/ ~TableFull => HasBreakpoint(a))
    BY <1>4 DEF insert_breakpoint, tableVars
  <2> QED
    BY <2>1, SameTableSamePlanted DEF Planted
<1> QED
  BY <1>3, <1>4

LEMMA RemoveUnplants ==
  ASSUME TableInv, TableInv', NEW a, NEW error, remove_breakpoint(a, error)
  PROVE  Planted' = Planted \ {a}
<1>1. PlantedIsArmed /\ PlantedIsArmed'
  BY PlantedByAddress, PTL
<1>2. CASE error = "SUCCESS"
  <2>1. HasBreakpoint(a) /\ a \in Code
    BY <1>2 DEF remove_breakpoint, HasBreakpoint, TableInv, ActiveInCode
  <2>2. Map!Remove(a, error)
    BY <2>1, RemoveRefines
  <2> QED
    BY <1>1, <1>2, <2>2 DEF Map!Remove, Map!Armed, PlantedIsArmed, Saved
<1>3. CASE error # "SUCCESS"
  BY <1>3, SameTableSamePlanted DEF remove_breakpoint, tableVars, Planted
<1> QED
  BY <1>2, <1>3

(* What a command does to the breakpoints.                                 *)
LEMMA ServePlants ==
  ASSUME StubInv, StubInv', ProxyInv, Serve, line # NoCommand
  PROVE  /\ line.cmd \notin {"attach", "insert_breakpoint", "remove_breakpoint"} =>
              UNCHANGED <<bp, bp_size>>
         /\ line.cmd = "attach" => Planted' = {}
         /\ line.cmd = "insert_breakpoint" =>
              /\ Planted \subseteq Planted'
              /\ Planted' \subseteq Planted \cup {line.addr}
              /\ HasBreakpoint(line.addr) \/ ~TableFull => line.addr \in Planted'
         /\ line.cmd = "remove_breakpoint" => Planted' = Planted \ {line.addr}
<1> USE DEF StubInv
<1>1. CASE line.cmd = "attach"
  BY <1>1 DEF Serve, cmd_attach, dbg_init, Planted, HasBreakpoint, Active
<1>2. CASE line.cmd = "insert_breakpoint"
  <2>1. PICK error \in ErrorCode : cmd_insert_breakpoint(line.addr, error)
    BY <1>2 DEF Serve
  <2>2. insert_breakpoint(line.addr, error) /\ (line.addr \in Code \/ TableFull)
    BY <2>1 DEF cmd_insert_breakpoint
  <2>3. CASE line.addr \in Code
    BY <1>2, <2>2, <2>3, InsertPlants
  <2>4. CASE line.addr \notin Code
    <3>1. ~HasBreakpoint(line.addr) /\ TableFull
      BY <2>2, <2>4 DEF HasBreakpoint, TableInv, ActiveInCode
    <3>2. UNCHANGED <<bp, bp_size>>
      BY <2>2, <3>1 DEF insert_breakpoint, alloc_breakpoint, tableVars
    <3> QED
      BY <1>2, <3>1, <3>2, SameTableSamePlanted
  <2> QED
    BY <2>3, <2>4
<1>3. CASE line.cmd = "remove_breakpoint"
  <2>1. PICK error \in ErrorCode : cmd_remove_breakpoint(line.addr, error)
    BY <1>3 DEF Serve
  <2> QED
    BY <1>3, <2>1, RemoveUnplants DEF cmd_remove_breakpoint
<1>4. CASE line.cmd \notin {"attach", "insert_breakpoint", "remove_breakpoint"}
  BY <1>4 DEF Serve, cmd_breakpoint, cmd_detach, NoEffect, cmd_write, cmd_breakpoint_continue,
              tableVars
<1> QED
  BY <1>1, <1>2, <1>3, <1>4

LEMMA HandleKeepsBelief ==
  ASSUME StubInv, StubInv', ProxyInv, BeliefInv, Handle
  PROVE  BeliefInv'
<1> USE DEF ProxyInv, PhaseInv, BeliefInv, Stepping, Send, OneStepPhase
<1>0. line # NoCommand /\ Serve /\ Reply
  BY DEF Handle
<1>1. UNCHANGED <<bp, bp_size>> => /\ Planted' = Planted
                                   /\ TableFull' <=> TableFull
                                   /\ \A a : HasBreakpoint(a)' <=> HasBreakpoint(a)
  BY SameTableSamePlanted
<1>2. CASE PollReply
  BY <1>0, <1>1, <1>2, ServePlants DEF PollReply
<1>3. CASE RegistersReply
  BY <1>0, <1>1, <1>3, ServePlants DEF RegistersReply, Forget
<1>4. CASE LastReply
  <2>1. phase' = "ready" /\ break_pc' = NULL /\ inherited' = inherited
    BY <1>4 DEF LastReply
  <2>2. CASE phase = "inserted"
    <3>1. shown' = shown \cup {line.addr}
      BY <1>4, <2>2 DEF LastReply
    <3>2. /\ Planted \subseteq Planted' /\ line.addr \in Planted'
          /\ Planted' \subseteq Planted \cup {line.addr}
      BY <1>0, <2>2, ServePlants
    <3> QED
      BY <2>1, <2>2, <3>1, <3>2
  <2>3. CASE phase = "removed"
    <3>1. shown' = shown \ {line.addr}
      BY <1>4, <2>3 DEF LastReply
    <3> QED
      BY <1>0, <2>1, <2>3, <3>1, ServePlants
  <2>4. CASE phase = "stepped"
    <3>1. shown' = shown /\ Planted' = Planted \ {break_pc}
      BY <1>0, <1>4, <2>4, ServePlants DEF LastReply
    <3> QED
      BY <2>1, <2>4, <3>1
  <2>5. CASE phase \in {"done", "broken"}
    <3>1. shown' = shown /\ Planted' = Planted
      BY <1>0, <1>1, <1>4, <2>5, ServePlants DEF LastReply
    <3> QED
      BY <2>1, <2>5, <3>1
  <2> QED
    BY <1>4, <2>2, <2>3, <2>4, <2>5 DEF LastReply
<1>5. CASE NextCommand
  BY <1>0, <1>1, <1>5, ServePlants DEF NextCommand
<1>6. CASE NobodyReads
  BY <1>6 DEF NobodyReads
<1> QED
  BY <1>0, <1>2, <1>3, <1>4, <1>5, <1>6 DEF Reply

LEMMA BeliefNext ==
  ASSUME "Room" \in GdbRules, "StepFresh" \in GdbRules
  PROVE  StubInv /\ StubInv' /\ ProxyInv /\ BeliefInv /\ [GdbNext]_gdbVars => BeliefInv'
<1> SUFFICES ASSUME StubInv, StubInv', ProxyInv, BeliefInv, [GdbNext]_gdbVars
             PROVE  BeliefInv'
  OBVIOUS
<1> USE DEF ProxyInv, PhaseInv, BeliefInv, Stepping, Send, OneStepPhase
<1>1. UNCHANGED <<bp, bp_size>> => /\ Planted' = Planted
                                   /\ TableFull' <=> TableFull
                                   /\ \A a : HasBreakpoint(a)' <=> HasBreakpoint(a)
  BY SameTableSamePlanted
<1>2. CASE UNCHANGED <<tableVars, proxyVars>>
  BY <1>1, <1>2 DEF tableVars, proxyVars
<1>3. CASE Request /\ UNCHANGED stubVars
  <2>1. /\ Planted' = Planted /\ (TableFull' <=> TableFull)
        /\ \A a : HasBreakpoint(a)' <=> HasBreakpoint(a)
    BY <1>1, <1>3 DEF stubVars, tableVars
  <2>2. CASE handle_insert_breakpoint
    <3>1. PICK a \in Code \cup Unmapped : /\ HasBreakpoint(a) \/ ~TableFull
                                          /\ line' = Command("insert_breakpoint", a, NULL)
                                          /\ phase' = "inserted"
      BY <2>2 DEF handle_insert_breakpoint, KeepsGdb
    <3>2. line.addr' = a
      BY <3>1 DEF Command
    <3>3. HasBreakpoint(line.addr)' \/ ~TableFull'
      <4>1. UNCHANGED <<bp, bp_size>>
        BY <1>3 DEF stubVars, tableVars
      <4>2. HasBreakpoint(a) => HasBreakpoint(line.addr)'
        BY <3>2, <4>1 DEF HasBreakpoint, Active
      <4> QED
        BY <2>1, <3>1, <4>2
    <3>4. /\ shown' \subseteq Planted'
          /\ Planted' \subseteq shown' \cup inherited' \cup {break_pc'}
          /\ break_pc' # NULL => break_pc' \notin shown'
      BY <2>1, <2>2 DEF handle_insert_breakpoint, Ask
    <3> QED
      BY <3>3, <3>4
  <2>3. CASE handle_step
    <3>1. /\ break_pc = NULL /\ NULL \notin Planted
          /\ shown \subseteq Planted /\ Planted \subseteq shown \cup inherited
      BY <2>3, NullApart DEF handle_step, Ask, Planted
    <3>2. /\ break_pc' \notin Planted /\ phase' = "step"
          /\ shown' = shown /\ inherited' = inherited
      BY <2>3 DEF handle_step, KeepsGdb, Planted
    <3> QED
      BY <2>1, <3>1, <3>2
  <2> QED
    BY <1>3, <2>1, <2>2, <2>3
    DEF Request, Ask, handle_get_stop_reason, handle_get_registers, handle_read_memory,
        handle_write_memory,
        handle_remove_breakpoint, handle_continue, handle_detach
<1>4. CASE Handle
  BY <1>4, HandleKeepsBelief
<1>5. CASE HandleFault \/ Run
  <2>1. UNCHANGED <<bp, bp_size, phase, shown, inherited, break_pc>> /\ line' \in {line, NoCommand}
    <3>1. CASE HandleFault
      BY <3>1 DEF HandleFault, InsertUnmapped, tableVars
    <3>2. CASE Run
      BY <3>2 DEF Run, CpuStep, ExecuteCode, ExecuteSlot, ExecuteBack, Trap, UnhookedTrap,
                  EndOfCmdBreakpoint, EndOfCmdCall, tableVars
    <3> QED
      BY <1>5, <3>1, <3>2
  <2> QED
    BY <1>1, <2>1
<1>6. CASE Start
  BY <1>1, <1>6 DEF Start, stubVars, tableVars
<1>7. CASE Close \/ GiveUp \/ Unplugged
  BY <1>7 DEF Close, GiveUp, Unplugged
<1> QED
  BY <1>2, <1>3, <1>4, <1>5, <1>6, <1>7
  DEF GdbNext, OwnCommand, FastbootCommand, gdbVars, stubVars

(* GDB and the target agree on breakpoints, whatever GDB asks for and      *)
(* whenever the proxy dies: for a GDB that leaves room in the table and    *)
(* does not step onto a breakpoint of its own.                             *)
THEOREM GdbBeliefsHold ==
  ASSUME "Room" \in GdbRules, "StepFresh" \in GdbRules
  PROVE  GdbSpec => []BeliefsHold
<1>1. GdbInit => BeliefInv
  BY DEF GdbInit, BeliefInv
<1>2. GdbSpec => []StubInv
  BY ProxyIsHost, StubInvariant
<1>3. StubInv /\ StubInv' /\ ProxyInv /\ BeliefInv /\ [GdbNext]_gdbVars => BeliefInv'
  BY BeliefNext
<1>4. ProxyInv /\ BeliefInv => BeliefsHold
  BY NullApart DEF ProxyInv, PhaseInv, BeliefInv, BeliefsHold, Stepping, OneStepPhase, Planted
<1>5. GdbSpec => []BeliefInv
  BY <1>1, <1>2, <1>3, ProxyInvariant, PTL DEF GdbSpec
<1> QED
  BY <1>4, <1>5, ProxyInvariant, PTL

-----------------------------------------------------------------------------
(***************************************************************************)
(* A stop GDB has been told of lasts: from the polling loop only a command *)
(* leads on, and the bkpt of cmd_breakpoint leads to the polling loop,     *)
(* since an attach came before it.                                         *)
(***************************************************************************)
RealInv ==
  /\ told /\ (phase = "ready" \/ line # NoCommand) => AtStop
  /\ phase = "broken" => hooked
  /\ phase = "stepped" => Stopped

LEMMA StoppedWaits == Stopped => ~CpuStep /\ ~FastbootCommand
<1> SUFFICES ASSUME Stopped PROVE ~CpuStep /\ ~FastbootCommand
  OBVIOUS
<1>1. pc \notin Code /\ pc \notin {Exit, CmdBkpt, CmdRet}
      /\ \A i \in Slot : pc # OrigAddr(i) /\ pc # BackAddr(i)
  BY PlacesAreNat, LayoutAssumption DEF Stopped
<1> QED
  BY <1>1 DEF CpuStep, ExecuteCode, ExecuteSlot, ExecuteBack, Trap, UnhookedTrap, AtBkpt,
              EndOfCmdBreakpoint, EndOfCmdCall, FastbootCommand, Idle

LEMMA StopLasts ==
  ASSUME CpuStep \/ FastbootCommand
  PROVE  hooked' = hooked /\ (AtStop => AtStop')
<1>1. hooked' = hooked
  BY DEF CpuStep, ExecuteCode, ExecuteSlot, ExecuteBack, Trap, UnhookedTrap,
         EndOfCmdBreakpoint, EndOfCmdCall, FastbootCommand
<1>2. CASE pc = CmdBkpt /\ hooked
  <2>1. pc \notin Code /\ pc \notin {Exit, CmdRet}
        /\ \A i \in Slot : pc # OrigAddr(i) /\ pc # BackAddr(i)
    BY <1>2, PlacesAreNat, LayoutAssumption DEF CmdRet
  <2>2. Trap
    BY <1>2, <2>1 DEF CpuStep, ExecuteCode, ExecuteSlot, ExecuteBack, UnhookedTrap,
                      EndOfCmdBreakpoint, EndOfCmdCall, FastbootCommand, Idle
  <2> QED
    BY <1>1, <2>2 DEF Trap, breakpoint_handler, AtStop, Stopped
<1> QED
  BY <1>1, <1>2, StoppedWaits DEF AtStop

LEMMA HandleKeepsReal ==
  ASSUME ProxyInv, RealInv, Handle
  PROVE  RealInv'
<1> USE DEF ProxyInv, PhaseInv, RealInv, Send
<1>0. line # NoCommand /\ Serve /\ Reply /\ Listening
  BY DEF Handle
<1>1. told => Stopped
  BY <1>0, LayoutAssumption DEF AtStop, Listening, Idle, Stopped
<1>2. line.cmd \notin {"breakpoint", "breakpoint_continue", "detach"} => pc' = pc
  BY <1>0 DEF Serve, cmd_attach, NoEffect, cmd_write, cmd_insert_breakpoint,
              cmd_remove_breakpoint
<1>9. line.cmd \notin {"breakpoint", "breakpoint_continue", "detach"} /\ Stopped => Stopped'
  BY <1>2 DEF Stopped
<1>3. CASE PollReply
  <2>1. phase = "poll" /\ ~told /\ (Stopped => Stopped')
    BY <1>9, <1>3 DEF PollReply
  <2>2. Stopped \/ UNCHANGED told
    BY <1>3, Zenon DEF PollReply
  <2>3. told' => Stopped
    BY <2>1, <2>2, Zenon
  <2>4. phase' \in {"poll", "stepped", "ready"} /\ (phase' = "stepped" => Stopped)
    BY <1>3 DEF PollReply
  <2> QED
    BY <2>1, <2>3, <2>4 DEF AtStop
<1>4. CASE RegistersReply
  <2>1. phase = "registers" /\ (Stopped => Stopped')
    BY <1>9, <1>4 DEF RegistersReply
  <2>2. phase' \in {"ready", "off"}
    BY <1>4 DEF RegistersReply
  <2>3. told' => told
    BY <1>4, Zenon DEF RegistersReply, Forget
  <2> QED
    BY <1>1, <2>1, <2>2, <2>3 DEF AtStop
<1>5. CASE LastReply
  <2>1. CASE phase = "broken"
    <3>1. cmd_breakpoint
      BY <1>0, <2>1 DEF Serve
    <3> QED
      BY <1>5, <2>1, <3>1 DEF LastReply, cmd_breakpoint, AtStop
  <2>2. CASE phase # "broken"
    <3>1. phase \in {"done", "inserted", "removed", "stepped"} /\ phase' = "ready"
      BY <1>5, <2>2 DEF LastReply
    <3>2. told' => told \/ phase = "stepped"
      BY <1>5, <2>2, Zenon DEF LastReply
    <3>3. told' => Stopped'
      BY <1>0, <1>1, <1>9, <3>1, <3>2
    <3> QED
      BY <3>1, <3>3 DEF AtStop
  <2> QED
    BY <2>1, <2>2
<1>6. CASE NextCommand
  <2>1. phase = "attached" => hooked'
    BY <1>0 DEF Serve, cmd_attach
  <2> QED
    BY <1>6, <2>1 DEF NextCommand
<1>7. CASE NobodyReads
  BY <1>7 DEF NobodyReads
<1> QED
  BY <1>0, <1>3, <1>4, <1>5, <1>6, <1>7 DEF Reply

LEMMA RealNext ==
  ASSUME "AskStopped" \in GdbRules, ProxyInv, RealInv, [GdbNext]_gdbVars
  PROVE  RealInv'
<1> USE DEF ProxyInv, PhaseInv, RealInv, Send
<1>1. CASE UNCHANGED gdbVars
  BY <1>1 DEF gdbVars, proxyVars, stubVars, targetVars, AtStop, Stopped
<1>2. CASE Request /\ UNCHANGED stubVars
  <2>1. (AtStop' <=> AtStop) /\ (Stopped' <=> Stopped) /\ hooked' = hooked
    BY <1>2 DEF stubVars, targetVars, AtStop, Stopped
  <2>2. CASE handle_get_stop_reason
    BY <2>1, <2>2 DEF handle_get_stop_reason, Ask, KeepsGdb
  <2> QED
    BY <1>2, <2>1, <2>2
    DEF Request, Ask, handle_get_registers, handle_read_memory,
        handle_write_memory,
        handle_insert_breakpoint, handle_remove_breakpoint, handle_continue, handle_step,
        handle_detach
<1>3. CASE Handle
  BY <1>3, HandleKeepsReal
<1>4. CASE HandleFault
  BY <1>4, CommandsTyped DEF HandleFault, InsertUnmapped
<1>5. CASE Run \/ OwnCommand
  <2>1. /\ UNCHANGED <<phase, line, told>>
        /\ CpuStep \/ FastbootCommand
    BY <1>5 DEF Run, OwnCommand, proxyVars
  <2> QED
    BY <2>1, StopLasts, StoppedWaits
<1>6. CASE Start \/ Close \/ GiveUp \/ Unplugged
  BY <1>6 DEF Start, Close, GiveUp, Unplugged, Forget
<1> QED
  BY <1>1, <1>2, <1>3, <1>4, <1>5, <1>6 DEF GdbNext

(* What GDB is told of stops is so, for a GDB that asks for the reason of  *)
(* a stop (AskStopped) only where there was one, and keeps no other rule.  *)
THEOREM GdbStopsAreReal ==
  ASSUME "AskStopped" \in GdbRules
  PROVE  GdbSpec => []StopsAreReal
<1>1. GdbInit => RealInv
  BY DEF GdbInit, RealInv
<1>2. RealInv => StopsAreReal
  BY DEF RealInv, StopsAreReal
<1>3. ProxyInv /\ RealInv /\ [GdbNext]_gdbVars => RealInv'
  BY RealNext
<1> QED
  BY <1>1, <1>2, <1>3, ProxyInvariant, PTL DEF GdbSpec

-----------------------------------------------------------------------------
(***************************************************************************)
(* The types of the proxy.  That the pc it reads is a place where a bkpt   *)
(* instruction can be is a fact about the target's stops.                  *)
(***************************************************************************)
Phase == {"off", "ready", "attached", "broken", "registers", "done", "inserted",
          "removed", "step", "continued", "poll", "stepped"}

ProxyTypes ==
  /\ phase \in Phase
  /\ r15 \in StopPlace \cup {NULL}
  /\ inherited \subseteq Code
  /\ executed \in 0 .. 2

LEMMA StopInProgram ==
  ASSUME TargetInv, StopsInProgram, Stopped
  PROVE  Top.pc \in StopPlace
<1>1. stack # <<>> /\ Top.what = "stop"
  BY DEF TargetInv, Stopped
<1>2. Top = stack[Len(stack)] /\ Len(stack) \in 1 .. Len(stack)
  BY <1>1, Popped
<1> QED
  BY <1>1, <1>2 DEF StopsInProgram

LEMMA ProxyTypesNext ==
  ASSUME TargetInv, StopsInProgram, ProxyTypes, [GdbNext]_gdbVars
  PROVE  ProxyTypes'
<1> USE DEF ProxyTypes
<1>1. CASE UNCHANGED gdbVars
  BY <1>1 DEF gdbVars, proxyVars
<1>2. CASE Request
  BY <1>2 DEF Request, Ask, Send, Phase, handle_get_stop_reason, handle_get_registers,
              handle_read_memory,
              handle_write_memory, handle_insert_breakpoint, handle_remove_breakpoint,
              handle_continue, handle_step, handle_detach
<1>3. CASE Handle
  <2>1. CASE PollReply
    BY <2>1 DEF PollReply, Send, Phase
  <2>2. CASE RegistersReply
    BY <2>2, StopInProgram DEF RegistersReply, Send, Forget, Phase
  <2>3. CASE LastReply \/ NobodyReads
    BY <2>3 DEF LastReply, NobodyReads, Send, Phase
  <2>4. CASE NextCommand
    BY <2>4 DEF NextCommand, Send, Phase
  <2> QED
    BY <1>3, <2>1, <2>2, <2>3, <2>4 DEF Handle, Reply
<1>4. CASE HandleFault \/ OwnCommand
  BY <1>4 DEF HandleFault, OwnCommand, proxyVars
<1>5. CASE Run
  BY <1>5 DEF Run
<1>6. CASE Start
  BY <1>6 DEF Start, Send, Phase, Planted
<1>7. CASE Close \/ GiveUp \/ Unplugged
  BY <1>7 DEF Close, GiveUp, Unplugged, Send, Forget, Phase
<1> QED
  BY <1>1, <1>2, <1>3, <1>4, <1>5, <1>6, <1>7 DEF GdbNext

ToldType == told \in BOOLEAN

LEMMA ToldNext == ToldType /\ [GdbNext]_gdbVars => ToldType'
<1> SUFFICES ASSUME told \in BOOLEAN, [GdbNext]_gdbVars PROVE told' \in BOOLEAN
  BY Zenon DEF ToldType
<1>1. CASE UNCHANGED gdbVars
  <2>1. UNCHANGED told
    BY <1>1, Zenon DEF gdbVars, proxyVars
  <2> QED
    BY <2>1, Zenon
<1>2. CASE Request
  <2>1. CASE handle_get_registers \/ handle_read_memory \/ handle_write_memory
    <3>1. UNCHANGED told
      BY <2>1, Zenon DEF handle_get_registers, handle_read_memory, handle_write_memory
    <3> QED
      BY <3>1, Zenon
  <2>2. CASE handle_insert_breakpoint \/ handle_remove_breakpoint
    <3>1. UNCHANGED told
      BY <2>2, Zenon DEF handle_insert_breakpoint, handle_remove_breakpoint
    <3> QED
      BY <3>1, Zenon
  <2>3. CASE handle_continue \/ handle_step \/ handle_detach
    <3>1. told' = FALSE
      BY <2>3, Zenon DEF handle_continue, handle_step, handle_detach
    <3> QED
      BY <3>1, Zenon
  <2>4. CASE handle_get_stop_reason
    <3>1. told' = TRUE
      BY <2>4, Zenon DEF handle_get_stop_reason
    <3> QED
      BY <3>1, Zenon
  <2> QED
    BY <1>2, <2>1, <2>2, <2>3, <2>4, Zenon DEF Request
<1>3. CASE Handle
  BY <1>3, Zenon DEF Handle, Reply, PollReply, RegistersReply, LastReply, NobodyReads,
                     NextCommand, Forget
<1>4. CASE HandleFault \/ OwnCommand \/ Run \/ Start
  BY <1>4, Zenon DEF HandleFault, OwnCommand, Run, Start, proxyVars
<1>5. CASE Close \/ GiveUp \/ Unplugged
  BY <1>5, Zenon DEF Close, GiveUp, Unplugged, Forget
<1> QED
  BY <1>1, <1>2, <1>3, <1>4, <1>5, Zenon DEF GdbNext

(* Every variable of the proxy keeps its type, for a GDB and a target that *)
(* keep no rule.                                                           *)
THEOREM ProxyTypeCorrect == GdbSpec => []GdbTypeOK
<1>0. GdbInit => ToldType
  BY Zenon DEF GdbInit, ToldType
<1>1. GdbInit => ProxyTypes
  BY DEF GdbInit, ProxyTypes, Phase
<1>2. StubInv /\ StopsInProgram /\ ProxyTypes /\ [GdbNext]_gdbVars => ProxyTypes'
  BY ProxyTypesNext DEF StubInv
<1>3. ProxyInv /\ ProxyTypes /\ ToldType => GdbTypeOK
  <2> SUFFICES ASSUME ProxyInv, ProxyTypes, ToldType PROVE GdbTypeOK
    OBVIOUS
  <2>1. told \in BOOLEAN
    BY DEF ToldType
  <2>2. /\ line.addr \in Code \cup Unmapped \cup {NULL}
        /\ line.word \in HostWord \cup {NULL}
        /\ break_pc \in Code \cup {NULL}
        /\ shown \subseteq Code \cup Unmapped
    BY DEF ProxyInv, LineInv, CommandType
  <2>3. /\ phase \in Phase /\ inherited \subseteq Code /\ executed \in 0 .. 2
        /\ r15 \in Code \cup {NULL, CmdBkpt} \cup SlotAddr
    BY DEF ProxyTypes, StopPlace
  <2> QED
    BY <2>1, <2>2, <2>3, Zenon DEF GdbTypeOK, Phase
<1> QED
  BY <1>0, <1>1, <1>2, <1>3, ToldNext, ProxyIsHost, StubInvariant, StopsAreInProgram, ProxyInvariant,
     PTL DEF GdbSpec

-----------------------------------------------------------------------------
(***************************************************************************)
(* A step.  Between the continue and the stop that ends it the target is   *)
(* at one of four places, if the breakpoint of the step is there and the   *)
(* instruction goes on to the next word: about to execute the instruction  *)
(* in its slot, about to branch back, at the breakpoint, or stopped there. *)
(* Without the breakpoint it runs on, and cannot stop at that address.     *)
(***************************************************************************)
Stepped     == break_pc - 1
StepIsTaken == executed = 1 /\ last = Text[Stepped]

AtStep ==
  /\ executed = 0
  /\ \E i \in Slot : /\ pc = OrigAddr(i)
                     /\ bp[i].address = Stepped
                     /\ bp[i].original = Text[Stepped]

PastStep ==
  /\ StepIsTaken
  /\ \/ \E i \in Slot : pc = BackAddr(i) /\ bp[i].address = Stepped
     \/ pc = break_pc
     \/ Stopped /\ Top.pc = break_pc

Midway ==
  IF HasBreakpoint(break_pc) THEN AtStep \/ PastStep
  ELSE Stopped => Top.pc # break_pc

StepInv ==
  /\ phase \in {"step", "continued"} /\ Stepping =>
       Stopped /\ Top.pc = Stepped /\ Stepped \in Code /\ executed = 0
  /\ phase = "poll" /\ Stepping /\ Goes(Text[Stepped]) => Midway
  /\ phase = "stepped" =>
       Stopped /\ (Top.pc = break_pc /\ Goes(Text[Stepped]) => StepIsTaken)

StopsWell == StubInv /\ WayInv /\ ArmedStops

LEMMA BreakAddress ==
  ASSUME ProxyInv, Stepping
  PROVE  break_pc \in Code /\ break_pc \in Nat /\ Stepped + 1 = break_pc /\ Stepped \in Int
<1>1. break_pc \in Code
  BY DEF ProxyInv, LineInv, Stepping
<1>2. break_pc \in Nat
  BY <1>1, TableAssumption
<1> QED
  BY <1>1, <1>2 DEF Stepped

LEMMA RunLeavesTable ==
  ASSUME Run
  PROVE  /\ CpuStep /\ UNCHANGED <<tableVars, break_pc, phase, hooked>>
         /\ UNCHANGED <<mem, bp, bp_size>> /\ Text' = Text /\ Stepped' = Stepped
         /\ HasBreakpoint(break_pc)' <=> HasBreakpoint(break_pc)
<1>1. CpuStep /\ UNCHANGED <<break_pc, phase>>
  BY DEF Run
<1>2. UNCHANGED <<tableVars, hooked>>
  BY <1>1 DEF CpuStep, ExecuteCode, ExecuteSlot, ExecuteBack, Trap, UnhookedTrap,
              EndOfCmdBreakpoint, EndOfCmdCall
<1>3. UNCHANGED <<mem, bp, bp_size>>
  BY <1>2 DEF tableVars
<1>4. Text' = Text
  BY <1>2, SameTable
<1>5. HasBreakpoint(break_pc)' <=> HasBreakpoint(break_pc)
  BY <1>1, <1>3 DEF HasBreakpoint, Active
<1> QED
  BY <1>1, <1>2, <1>3, <1>4, <1>5 DEF Stepped

(* The instruction of the step, in its slot.                               *)
LEMMA StepExecutes ==
  ASSUME StopsWell, Run, Stepping, Goes(Text[Stepped]), AtStep
  PROVE  PastStep'
<1> USE DEF StopsWell
<1>1. /\ CpuStep /\ UNCHANGED <<break_pc, bp>> /\ Text' = Text /\ Stepped' = Stepped
  BY RunLeavesTable
<1>2. PICK i \in Slot : /\ pc = OrigAddr(i)
                        /\ bp[i].address = Stepped
                        /\ bp[i].original = Text[Stepped]
  BY DEF AtStep
<1>3. bp[i].original # ARM_BKPT
  BY <1>2 DEF WayInv, StackInv, SlotSound
<1>4. /\ pc \notin Code \cup {Exit, CmdBkpt, CmdRet}
      /\ \A j \in Slot : pc # BackAddr(j) /\ (pc = OrigAddr(j) => j = i)
  BY <1>2, PlacesApart, SlotPlaces
<1>5. ~AtBkpt
  BY <1>3, <1>4 DEF AtBkpt
<1>6. ExecuteSlot
  BY <1>1, <1>4, <1>5
  DEF CpuStep, ExecuteCode, ExecuteBack, Trap, UnhookedTrap, EndOfCmdBreakpoint, EndOfCmdCall
<1>7. /\ last' = bp[i].original
      /\ pc' \in {IF d = 1 THEN BackAddr(i) ELSE NULL : d \in Flow[bp[i].original]}
  BY <1>4, <1>6 DEF ExecuteSlot
<1>8. pc' = BackAddr(i)
  BY <1>2, <1>7 DEF Goes
<1>9. executed' = 1
  BY <1>2, <1>5 DEF Run, AtStep
<1> QED
  BY <1>1, <1>2, <1>7, <1>8, <1>9 DEF PastStep, StepIsTaken

(* From the slot to the breakpoint on the next word, and the stop there.   *)
LEMMA StepReturns ==
  ASSUME StopsWell, ProxyInv, Run, Stepping, HasBreakpoint(break_pc), PastStep
  PROVE  PastStep'
<1> USE DEF StopsWell, StubInv
<1>1. /\ CpuStep /\ UNCHANGED <<break_pc, bp>> /\ Text' = Text /\ Stepped' = Stepped
  BY RunLeavesTable
<1>2. break_pc \in Code /\ Stepped + 1 = break_pc
  BY BreakAddress
<1>3. ~Stopped
  BY <1>1, StoppedWaits
<1>4. CASE \E i \in Slot : pc = BackAddr(i) /\ bp[i].address = Stepped
  <2>1. PICK i \in Slot : pc = BackAddr(i) /\ bp[i].address = Stepped
    BY <1>4
  <2>2. /\ pc \notin Code \cup {Exit, CmdBkpt, CmdRet}
        /\ \A j \in Slot : pc # OrigAddr(j) /\ (pc = BackAddr(j) => j = i)
    BY <2>1, PlacesApart, SlotPlaces
  <2>3. ExecuteBack
    BY <1>1, <2>2
    DEF AtBkpt, CpuStep, ExecuteCode, ExecuteSlot, Trap, UnhookedTrap, EndOfCmdBreakpoint,
        EndOfCmdCall
  <2>4. SlotSound(i) /\ PlainBelow(stack)
    BY <2>1, SlotPlaces DEF WayInv, StackInv
  <2>5. pc' = Land(BranchTarget(pc, bp[i].back), stack) /\ last' = last
    BY <2>2, <2>3, <2>4 DEF ExecuteBack, SlotSound
  <2>6. pc' = break_pc
    BY <1>2, <2>1, <2>4, <2>5, LandsPlain DEF SlotSound
  <2>7. executed' = executed
    BY <2>2 DEF Run
  <2> QED
    BY <1>1, <2>5, <2>6, <2>7 DEF PastStep, StepIsTaken
<1>5. CASE pc = break_pc
  <2>1. /\ pc \notin {Exit, CmdBkpt, CmdRet}
        /\ \A j \in Slot : pc # OrigAddr(j) /\ pc # BackAddr(j)
    BY <1>2, <1>5, PlacesApart, SlotPlaces
  <2>2. mem[pc] = ARM_BKPT /\ hooked
    BY <1>2, <1>5 DEF ArmedStops
  <2>3. Trap
    BY <1>1, <2>1, <2>2
    DEF CpuStep, ExecuteCode, ExecuteSlot, ExecuteBack, UnhookedTrap, EndOfCmdBreakpoint,
        EndOfCmdCall
  <2>4. stack' = Append(stack, Stop(pc)) /\ Stopped' /\ last' = last
    BY <2>3 DEF Trap, breakpoint_handler, Stopped
  <2>5. Stop(pc) \in Frame /\ Stop(pc).pc = pc
    BY PlacesAreNat DEF TargetInv, Stop, Frame
  <2>6. Top'.pc = break_pc'
    BY <1>1, <1>5, <2>4, <2>5, Pushed DEF Top
  <2>7. executed' = executed
    BY <1>2, <1>5, <2>2 DEF Run, AtBkpt
  <2> QED
    BY <1>1, <2>4, <2>6, <2>7 DEF PastStep, StepIsTaken
<1> QED
  BY <1>3, <1>4, <1>5 DEF PastStep

(* Where the target can come to a stop.                                    *)
LEMMA StopsSomewhere ==
  ASSUME StopsWell, CpuStep, Stopped'
  PROVE  \/ pc \in Code /\ HasBreakpoint(pc) /\ Top'.pc = pc
         \/ Top'.pc = CmdBkpt
<1> USE DEF StopsWell, StubInv
<1>1. CASE Trap
  <2>1. stack' = Append(stack, Stop(pc))
    BY <1>1 DEF Trap, breakpoint_handler
  <2>2. Stop(pc) \in Frame /\ Stop(pc).pc = pc
    BY PlacesAreNat DEF TargetInv, Stop, Frame
  <2>3. Top'.pc = pc
    BY <2>1, <2>2, Pushed DEF Top
  <2>4. CASE pc \in Code /\ mem[pc] = ARM_BKPT
    BY <2>3, <2>4 DEF WayInv, ArmedInv
  <2>5. CASE \E i \in Slot : pc = OrigAddr(i) /\ bp[i].original = ARM_BKPT
    BY <2>5 DEF WayInv, StackInv, SlotSound
  <2> QED
    BY <1>1, <2>3, <2>4, <2>5 DEF Trap, AtBkpt
<1>2. CASE EndOfCmdBreakpoint \/ EndOfCmdCall
  BY <1>2, CallsReturn DEF EndOfCmdBreakpoint, EndOfCmdCall, Stopped
<1>3. CASE ExecuteCode
  BY <1>3, ExecuteCodeStays, PlacesApart DEF Stopped
<1>4. CASE ExecuteSlot \/ ExecuteBack \/ UnhookedTrap
  BY <1>4, PlacesApart, SlotPlaces DEF ExecuteSlot, ExecuteBack, UnhookedTrap, Land, Stopped
<1> QED
  BY <1>1, <1>2, <1>3, <1>4 DEF CpuStep

(* The processor's part of a step.                                         *)
LEMMA RunStaysMidway ==
  ASSUME StopsWell, ProxyInv, Run, Stepping, Midway, Goes(Text[Stepped])
  PROVE  Midway'
<1>1. /\ CpuStep /\ break_pc' = break_pc
      /\ HasBreakpoint(break_pc)' <=> HasBreakpoint(break_pc)
  BY RunLeavesTable
<1>2. CASE HasBreakpoint(break_pc)
  BY <1>1, <1>2, StepExecutes, StepReturns DEF Midway
<1>3. CASE ~HasBreakpoint(break_pc)
  <2>1. break_pc # CmdBkpt
    BY BreakAddress, PlacesApart
  <2>2. Stopped' => Top'.pc # break_pc
    BY <1>1, <1>3, <2>1, StopsSomewhere
  <2> QED
    BY <1>1, <1>3, <2>2 DEF Midway
<1> QED
  BY <1>2, <1>3

(* The continue of a step.                                                 *)
LEMMA StepSetsOff ==
  ASSUME StopsWell, ProxyInv, StepInv, Handle, phase = "continued", Stepping
  PROVE  Midway'
<1> USE DEF StopsWell, StubInv
<1>1. line.cmd = "breakpoint_continue" /\ NextCommand /\ Serve
  BY DEF Handle, Reply, PollReply, RegistersReply, LastReply, NobodyReads, ProxyInv, PhaseInv
<1>2. UNCHANGED <<break_pc, executed>>
  BY <1>1 DEF NextCommand
<1>3. /\ Stopped /\ Top.pc = Stepped /\ Stepped \in Code /\ executed = 0
  BY DEF StepInv
<1>4. Resume(continue_address) /\ UNCHANGED <<tableVars, continue_address>>
  BY <1>1, <1>3 DEF Serve, cmd_breakpoint_continue
<1>5. PICK i \in Slot : /\ continue_address = OrigAddr(i)
                        /\ bp[i].address = Stepped
                        /\ bp[i].original = Text[Stepped]
                        /\ bp[i].back \in BranchField
                        /\ BranchTarget(BackAddr(i), bp[i].back) = Stepped + 1
  BY <1>3 DEF WayInv, StackInv, WayOut
<1>6. SlotSound(i)
  BY <1>3, <1>5, TextIsPlain DEF SlotSound, WayInv
<1>7. pc' = OrigAddr(i)
  BY <1>3, <1>4, <1>5, <1>6, Resumes
<1>8. ~Stopped'
  BY <1>7, PlacesApart, SlotPlaces DEF Stopped
<1>9. bp' = bp /\ Text' = Text /\ Stepped' = Stepped
  BY <1>2, <1>4, SameTable DEF tableVars, Stepped
<1>10. AtStep'
  BY <1>2, <1>3, <1>5, <1>7, <1>9 DEF AtStep
<1> QED
  BY <1>8, <1>10 DEF Midway

LEMMA MidwayStopTaken ==
  ASSUME Midway, Stopped, Top.pc = break_pc
  PROVE  StepIsTaken
<1>1. pc \notin SlotAddr
  BY PlacesApart DEF Stopped
<1> QED
  BY <1>1, SlotPlaces DEF Midway, AtStep, PastStep

(* What neither moves the target nor touches the step.                     *)
StepVars == <<pc, stack, last, mem, bp, bp_size, break_pc, executed>>

LEMMA SameStep ==
  ASSUME UNCHANGED StepVars
  PROVE  /\ Stopped' <=> Stopped
         /\ Top' = Top /\ Stepped' = Stepped /\ Text' = Text
         /\ Midway' <=> Midway
         /\ StepIsTaken' <=> StepIsTaken
<1>1. UNCHANGED tableVars
  BY DEF tableVars, StepVars
<1>2. Text' = Text /\ Stepped' = Stepped /\ Top' = Top /\ (Stopped' <=> Stopped)
  BY <1>1, SameTable DEF Stepped, Top, Stopped, StepVars
<1>3. HasBreakpoint(break_pc)' <=> HasBreakpoint(break_pc)
  BY DEF HasBreakpoint, Active, StepVars
<1>4. StepIsTaken' <=> StepIsTaken
  BY <1>2 DEF StepIsTaken, StepVars
<1>5. (AtStep' <=> AtStep) /\ (PastStep' <=> PastStep)
  BY <1>2, <1>4 DEF AtStep, PastStep, StepVars
<1> QED
  BY <1>2, <1>3, <1>4, <1>5 DEF Midway, StepVars

LEMMA HandleKeepsStep ==
  ASSUME StopsWell, ProxyInv, StepInv, Handle
  PROVE  StepInv'
<1> USE DEF ProxyInv, PhaseInv, OneStepPhase, Send
<1>0. line # NoCommand /\ Serve /\ Reply
  BY DEF Handle
<1>1. CASE PollReply
  <2>1. line.cmd = "get_registers" /\ phase = "poll" /\ UNCHANGED <<break_pc, executed>>
    BY <1>1 DEF PollReply
  <2>2. UNCHANGED StepVars
    BY <1>0, <2>1 DEF Serve, NoEffect, tableVars, StepVars
  <2>3. \/ phase' = "poll"
        \/ phase' = "stepped" /\ Stopped /\ Stepping
        \/ phase' = "ready"
    BY <1>1 DEF PollReply
  <2>4. Stepping' <=> Stepping
    BY <2>1 DEF Stepping
  <2> QED
    BY <2>1, <2>2, <2>3, <2>4, SameStep, MidwayStopTaken DEF StepInv
<1>2. CASE RegistersReply \/ LastReply \/ NobodyReads
  <2>1. phase' \in {"ready", "off"}
    BY <1>2 DEF RegistersReply, LastReply, NobodyReads
  <2> QED
    BY <2>1 DEF StepInv
<1>3. CASE NextCommand
  <2>1. UNCHANGED <<break_pc, executed>> /\ (Stepping' <=> Stepping)
    BY <1>3 DEF NextCommand, Stepping
  <2>2. CASE phase = "attached"
    BY <1>3, <2>2 DEF NextCommand, StepInv
  <2>3. CASE phase = "step"
    <3>1. line.cmd = "insert_breakpoint" /\ phase' = "continued" /\ Stepping
      BY <1>0, <1>3, <2>3, CommandsTyped DEF NextCommand
    <3>2. UNCHANGED <<pc, stack>>
      BY <1>0, <3>1 DEF Serve, cmd_insert_breakpoint
    <3>3. (Stopped' <=> Stopped) /\ Top' = Top /\ Stepped' = Stepped
      BY <2>1, <3>2 DEF Stopped, Top, Stepped
    <3> QED
      BY <2>1, <2>3, <3>1, <3>3 DEF StepInv
  <2>4. CASE phase = "continued"
    <3>1. phase' = "poll"
      BY <1>3, <2>4 DEF NextCommand
    <3>2. Stepping => Midway'
      BY <2>4, StepSetsOff
    <3> QED
      BY <2>1, <3>1, <3>2 DEF StepInv
  <2> QED
    BY <1>3, <2>2, <2>3, <2>4 DEF NextCommand
<1> QED
  BY <1>0, <1>1, <1>2, <1>3 DEF Reply

LEMMA StepInvNext ==
  ASSUME "ReadFirst" \in GdbRules, StopsWell, ProxyInv, StepInv, [GdbNext]_gdbVars
  PROVE  StepInv'
<1> USE DEF ProxyInv, PhaseInv, OneStepPhase, Send
<1>1. CASE UNCHANGED <<phase, StepVars>>
  <2>1. Stepping' <=> Stepping
    BY <1>1 DEF Stepping, StepVars
  <2> QED
    BY <1>1, <2>1, SameStep DEF StepInv, StepVars
<1>2. CASE Request /\ UNCHANGED stubVars
  <2>1. CASE handle_step
    <3>1. /\ Stopped /\ r15 = Top.pc /\ r15 \in Code /\ break_pc' = r15 + 1
          /\ executed' = 0 /\ phase' = "step"
      BY <2>1 DEF handle_step, KeepsGdb
    <3>2. Stopped' /\ Top' = Top
      BY <1>2, <3>1 DEF stubVars, targetVars, Stopped, Top
    <3>3. Stepped' = r15
      BY <3>1, TableAssumption DEF Stepped
    <3> QED
      BY <3>1, <3>2, <3>3 DEF StepInv
  <2>2. CASE ~handle_step
    <3>1. ~Stepping' /\ phase' \notin {"poll", "stepped"}
      BY <1>2, <2>2
      DEF Request, Ask, handle_get_stop_reason, handle_get_registers, handle_read_memory,
          handle_write_memory,
          handle_insert_breakpoint, handle_remove_breakpoint, handle_continue, handle_detach,
          Stepping
    <3> QED
      BY <3>1 DEF StepInv
  <2> QED
    BY <2>1, <2>2
<1>3. CASE Handle
  BY <1>3, HandleKeepsStep
<1>4. CASE HandleFault
  <2>1. phase' = phase /\ UNCHANGED <<break_pc, executed>> /\ (Stepping' <=> Stepping)
    BY <1>4 DEF HandleFault, Stepping
  <2>2. phase \notin {"continued", "poll", "stepped"}
    BY <1>4 DEF HandleFault
  <2>3. phase # "step"
    <3>1. line.addr \in Unmapped /\ break_pc \in Code \cup {NULL}
      BY <1>4 DEF HandleFault, LineInv
    <3>2. line # NoCommand
      BY <1>4, CommandsTyped DEF HandleFault
    <3> QED
      BY <3>1, <3>2, LayoutAssumption
  <2> QED
    BY <2>1, <2>2, <2>3 DEF StepInv
<1>5. CASE Run
  <2>1. CpuStep /\ phase' = phase /\ (Stepping' <=> Stepping) /\ Stepped' = Stepped /\ Text' = Text
    BY <1>5, RunLeavesTable DEF Stepping
  <2>2. ~Stopped
    BY <2>1, StoppedWaits
  <2>3. phase = "poll" /\ Stepping /\ Goes(Text[Stepped]) => Midway'
    BY <1>5, RunStaysMidway DEF StepInv
  <2> QED
    BY <2>1, <2>2, <2>3 DEF StepInv
<1>6. CASE OwnCommand
  <2>1. /\ ~Stopped /\ pc' = Entry /\ UNCHANGED <<tableVars, stack, phase, break_pc, executed>>
        /\ Idle
    BY <1>6, StoppedWaits DEF OwnCommand, FastbootCommand, proxyVars
  <2>2. /\ pc \notin SlotAddr \cup {break_pc} \/ ~Stepping
        /\ ~Stopped'
    BY <2>1, BreakAddress, PlacesApart DEF Idle, Stopped
  <2>3. (Stepping' <=> Stepping) /\ Stepped' = Stepped /\ Text' = Text
    BY <2>1, SameTable DEF Stepping, Stepped
  <2>4. HasBreakpoint(break_pc)' <=> HasBreakpoint(break_pc)
    BY <2>1 DEF HasBreakpoint, Active, tableVars
  <2>5. Stepping /\ Midway => Midway'
    BY <2>1, <2>2, <2>4, SlotPlaces DEF Midway, AtStep, PastStep
  <2> QED
    BY <2>1, <2>2, <2>3, <2>5 DEF StepInv
<1>7. CASE Start \/ Close \/ GiveUp \/ Unplugged
  <2>1. phase' \in {"ready", "attached", "off"}
    BY <1>7 DEF Start, Close, GiveUp, Unplugged
  <2> QED
    BY <2>1 DEF StepInv
<1>8. CASE UNCHANGED gdbVars
  BY <1>1, <1>8 DEF gdbVars, stubVars, tableVars, targetVars, proxyVars, StepVars
<1> QED
  BY <1>2, <1>3, <1>4, <1>5, <1>6, <1>7, <1>8 DEF GdbNext

(* A step over an instruction that goes on to the next word executes that  *)
(* instruction once and nothing else: for an orderly host that attaches    *)
(* before it inserts, and a GDB that steps from a stop it has read.        *)
THEOREM GdbStepIsOne ==
  ASSUME OrderlyHost, "AttachFirst" \in Rules, "ReadFirst" \in GdbRules
  PROVE  GdbSpec => StepIsOne
<1> DEFINE Taken == phase = "stepped" /\ phase' = "ready"
                    /\ Top.pc = break_pc /\ Flow[Text[break_pc - 1]] = {1}
                    => executed = 1 /\ last = Text[break_pc - 1]
<1>1. GdbInit => StepInv
  BY DEF GdbInit, StepInv
<1>2. GdbSpec => []StubInv /\ [][StubNext]_stubVars
  BY ProxyIsHost, StubInvariant, PTL DEF StubSpec
<1>3. StubInit => WayInv /\ ArmedStops
  BY WayInvInit, StartIsTransparent
<1>4. StubInv /\ StubInv' /\ WayInv /\ ArmedStops /\ [StubNext]_stubVars => WayInv' /\ ArmedStops'
  <2>1. "NoOverwrite" \in Rules
    BY DEF OrderlyHost
  <2> QED
    BY <2>1, WayInvNext, ArmedStopsNext
<1>5. GdbSpec => []WayInv /\ []ArmedStops
  BY <1>2, <1>3, <1>4, PTL DEF GdbSpec, GdbInit
<1>6. StubInv /\ WayInv /\ ArmedStops /\ ProxyInv /\ StepInv /\ [GdbNext]_gdbVars => StepInv'
  BY StepInvNext DEF StopsWell
<1>7. GdbSpec => []StepInv
  BY <1>1, <1>2, <1>5, <1>6, ProxyInvariant, PTL DEF GdbSpec
<1>8. StepInv => Taken
  BY DEF StepInv, StepIsTaken, Stepped, Goes
<1> QED
  BY <1>7, <1>8, PTL DEF StepIsOne
=============================================================================
