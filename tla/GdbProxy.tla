------------------------------ MODULE GdbProxy ------------------------------
(***************************************************************************)
(* The proxy between GDB and the target (gdbproxy.py), around DebugStub.   *)
(*                                                                         *)
(* A request of GDB is a sequence of commands to the target.  The proxy    *)
(* sends one and waits for its reply before it goes on; "phase" is what it *)
(* waits for.  The target handles a command when it listens.  The proxy    *)
(* dies of an empty reply, when the target is busy for longer than it      *)
(* waits (0.1 s), or of an interrupt at any time; the command it has sent  *)
(* is still on the line then.                                              *)
(*                                                                         *)
(* The proxy is the only host.  GDB is free in what it requests; GdbRules  *)
(* and the rules of DebugStub name what it refrains from.                  *)
(***************************************************************************)
EXTENDS DebugStub

CONSTANTS
  GdbRules,   \* what this GDB refrains from, besides Rules
  WriteAddr   \* bound of the model: the addresses GDB writes to

(***************************************************************************)
(*   Room       no breakpoint into a full table                            *)
(*   StepFresh  no step onto a breakpoint                                  *)
(*   ReadFirst  no step but from a stop whose registers it has read        *)
(*   AskStopped no '?' but behind a proxy started with --first-run, or     *)
(*              after a continue or a step has come to its stop.  GDB      *)
(*              sends one whenever it connects, so that the rule is about  *)
(*              how the proxy is started.                                  *)
(***************************************************************************)
AllGdbRules == {"Room", "StepFresh", "ReadFirst", "AskStopped"}

ASSUME GdbAssumption ==
  /\ GdbRules \subseteq AllGdbRules
  /\ WriteAddr \subseteq Code \cup Unmapped
  /\ "KeepSlots" \in Rules => "StepFresh" \in GdbRules

VARIABLES
  phase,      \* the reply the proxy waits for; "ready" for GDB's next
              \* request, "off" when there is no proxy
  line,       \* the command sent and not handled yet
  r15,        \* pc in the registers the proxy has read last
  break_pc,   \* the breakpoint of the step in progress
  shown,      \* GDB's breakpoints: inserted, for all it knows
  told,       \* GDB has been told that the target is stopped, or will be
              \* when it connects, since --first-run stops the target
  inherited,  \* history: the breakpoints that were there before this proxy
  executed    \* history: the instructions since the step began, up to two

proxyVars == <<phase, line, r15, break_pc, shown, told, inherited, executed>>
gdbVars   == <<stubVars, proxyVars>>

Command(c, a, w) == [cmd |-> c, addr |-> a, word |-> w]
Plain(c)         == Command(c, NULL, NULL)
NoCommand        == Plain("none")

Planted  == {a \in Code : HasBreakpoint(a)}
Stepping == break_pc # NULL

(* Stopped, or about to be in CMD_BREAKPOINT.                              *)
AtStop == Stopped \/ (pc = CmdBkpt /\ hooked)

GdbInit ==
  /\ StubInit
  /\ phase = "off"
  /\ line = NoCommand
  /\ r15 = NULL
  /\ break_pc = NULL
  /\ shown = {}
  /\ told = FALSE
  /\ inherited = {}
  /\ executed = 0

(* The proxy sends c and waits.                                            *)
Send(c, p) ==
  /\ line' = c
  /\ phase' = p

-----------------------------------------------------------------------------
(***************************************************************************)
(* Plausible slips in this code, each of which some run detects.           *)
(***************************************************************************)
PollForgetsBreakpoint ==
  /\ phase = "poll"
  /\ Stopped
  /\ Send(NoCommand, "ready")
  /\ told' = TRUE
  /\ break_pc' = NULL
  /\ UNCHANGED <<r15, shown, inherited, executed>>

PollInverted ==
  /\ phase = "poll"
  /\ IF Stopped THEN UNCHANGED <<line, phase, told>>
     ELSE Send(NoCommand, "ready") /\ told' = TRUE
  /\ UNCHANGED <<r15, break_pc, shown, inherited, executed>>

RegistersOfDebugger ==
  /\ phase = "registers"
  /\ r15' = pc
  /\ Send(NoCommand, "ready")
  /\ UNCHANGED <<break_pc, shown, told, inherited, executed>>

-----------------------------------------------------------------------------
(***************************************************************************)
(* Requests of GDB, up to the first command.                               *)
(***************************************************************************)
Ask == phase = "ready" /\ line = NoCommand

KeepsGdb(rule, condition) == rule \in GdbRules => condition

(* '?' is answered S05, with no command to the target.                     *)
handle_get_stop_reason ==
  /\ Ask
  /\ KeepsGdb("AskStopped", told)
  /\ told' = TRUE
  /\ UNCHANGED <<phase, line, r15, break_pc, shown, inherited, executed>>

handle_get_registers ==
  /\ Ask
  /\ Send(Plain("get_registers"), "registers")
  /\ UNCHANGED <<r15, break_pc, shown, told, inherited, executed>>

handle_read_memory ==
  /\ Ask
  /\ Send(Plain("read"), "done")
  /\ UNCHANGED <<r15, break_pc, shown, told, inherited, executed>>

handle_write_memory ==
  /\ Ask
  /\ \E a \in WriteAddr, w \in HostWord :
       MayWrite(a) /\ Send(Command("write", a, w), "done")
  /\ UNCHANGED <<r15, break_pc, shown, told, inherited, executed>>

handle_insert_breakpoint ==
  /\ Ask
  /\ \E a \in Code \cup Unmapped :
       /\ MayInsert(a)
       /\ Keeps("MappedOnly", a \in Code)
       /\ KeepsGdb("Room", ~TableFull \/ HasBreakpoint(a))
       /\ Send(Command("insert_breakpoint", a, NULL), "inserted")
  /\ UNCHANGED <<r15, break_pc, shown, told, inherited, executed>>

handle_remove_breakpoint ==
  /\ Ask
  /\ \E a \in shown :
       MayRemove(a) /\ Send(Command("remove_breakpoint", a, NULL), "removed")
  /\ UNCHANGED <<r15, break_pc, shown, told, inherited, executed>>

handle_continue ==
  /\ Ask
  /\ Send(Plain("breakpoint_continue"), "continued")
  /\ told' = FALSE
  /\ UNCHANGED <<r15, break_pc, shown, inherited, executed>>

(* A breakpoint on the next word, taken out again at the next stop.        *)
handle_step ==
  /\ Ask
  /\ r15 \in Code /\ r15 + 1 \in Code
  /\ MayInsert(r15 + 1)
  /\ KeepsGdb("StepFresh", ~HasBreakpoint(r15 + 1))
  /\ KeepsGdb("ReadFirst", Stopped /\ r15 = Top.pc)
  /\ break_pc' = r15 + 1
  /\ executed' = 0
  /\ told' = FALSE
  /\ Send(Command("insert_breakpoint", r15 + 1, NULL), "step")
  /\ UNCHANGED <<r15, shown, inherited>>

handle_detach ==
  /\ Ask
  /\ Send(Plain("detach"), "done")
  /\ told' = FALSE
  /\ UNCHANGED <<r15, break_pc, shown, inherited, executed>>

Request ==
  \/ handle_get_stop_reason
  \/ handle_get_registers \/ handle_read_memory \/ handle_write_memory
  \/ handle_insert_breakpoint \/ handle_remove_breakpoint
  \/ handle_continue \/ handle_step \/ handle_detach

-----------------------------------------------------------------------------
(***************************************************************************)
(* The target handles the command, and the proxy goes on with the reply.   *)
(***************************************************************************)
Serve ==
  LET a == line.addr IN
  \/ line.cmd = "attach"     /\ cmd_attach
  \/ line.cmd = "breakpoint" /\ cmd_breakpoint
  \/ line.cmd = "detach"     /\ cmd_detach
  \/ line.cmd \in {"read", "get_registers"} /\ NoEffect
  \/ \E error \in ErrorCode :
       \/ line.cmd = "write"               /\ cmd_write(a, line.word, error)
       \/ line.cmd = "insert_breakpoint"   /\ cmd_insert_breakpoint(a, error)
       \/ line.cmd = "remove_breakpoint"   /\ cmd_remove_breakpoint(a, error)
       \/ line.cmd = "breakpoint_continue" /\ cmd_breakpoint_continue(error)

(* The proxy is gone, and what it knew with it.                            *)
Forget ==
  /\ r15' = NULL
  /\ break_pc' = NULL
  /\ shown' = {}
  /\ told' = FALSE
  /\ executed' = 0

(* No handler looks at the error code, but for the polling.                *)
PollReply ==
  /\ phase = "poll"
  /\ \/ ~Stopped /\ UNCHANGED <<line, phase, told>>
     \/ Stopped /\ Stepping
          /\ Send(Command("remove_breakpoint", break_pc, NULL), "stepped")
          /\ UNCHANGED told
     \/ Stopped /\ ~Stepping
          /\ Send(NoCommand, "ready")
          /\ told' = TRUE
  /\ UNCHANGED <<r15, break_pc, shown, inherited, executed>>

RegistersReply ==
  /\ phase = "registers"
  /\ \/ /\ Stopped
        /\ r15' = Top.pc
        /\ Send(NoCommand, "ready")
        /\ UNCHANGED <<break_pc, shown, told, executed>>
     \/ ~Stopped /\ Send(NoCommand, "off") /\ Forget
  /\ UNCHANGED inherited

(* The reply to the last command of a request, or of --first-run.          *)
LastReply ==
  /\ \/ phase = "inserted" /\ shown' = shown \cup {line.addr} /\ UNCHANGED told
     \/ phase = "removed"  /\ shown' = shown \ {line.addr} /\ UNCHANGED told
     \/ phase = "done"     /\ UNCHANGED <<shown, told>>
     \/ phase \in {"stepped", "broken"} /\ told' = TRUE /\ UNCHANGED shown
  /\ Send(NoCommand, "ready")
  /\ break_pc' = NULL
  /\ executed' = 0
  /\ UNCHANGED <<r15, inherited>>

NextCommand ==
  /\ \/ phase = "attached"  /\ Send(Plain("breakpoint"), "broken") /\ inherited' = {}
     \/ phase = "step"      /\ Send(Plain("breakpoint_continue"), "continued") /\ UNCHANGED inherited
     \/ phase = "continued" /\ Send(Plain("get_registers"), "poll") /\ UNCHANGED inherited
  /\ UNCHANGED <<r15, break_pc, shown, told, executed>>

NobodyReads ==
  /\ phase = "off"
  /\ line' = NoCommand
  /\ UNCHANGED <<phase, r15, break_pc, shown, told, inherited, executed>>

Reply == PollReply \/ RegistersReply \/ LastReply \/ NextCommand \/ NobodyReads

Handle ==
  /\ Listening
  /\ line # NoCommand
  /\ Serve
  /\ Reply

(* An insertion that faults is never answered.                             *)
HandleFault ==
  /\ Listening
  /\ line.cmd = "insert_breakpoint" /\ line.addr \in Unmapped
  /\ InsertUnmapped
  /\ line' = NoCommand
  /\ UNCHANGED <<phase, r15, break_pc, shown, told, inherited, executed>>

-----------------------------------------------------------------------------
(***************************************************************************)
(* The proxy comes and goes.                                               *)
(***************************************************************************)
(* With --first-run it attaches and has the target stop in CMD_BREAKPOINT. *)
Start ==
  /\ phase = "off" /\ line = NoCommand
  /\ \/ Send(NoCommand, "ready")
     \/ /\ MayAttach /\ (Stopped => MayBreak)
        /\ Len(stack) + 2 <= MaxNest
        /\ Send(Plain("attach"), "attached")
  /\ inherited' = Planted
  /\ UNCHANGED <<stubVars, r15, break_pc, shown, told, executed>>

(* GDB closes the connection, detached or not.                             *)
Close ==
  /\ Ask
  /\ phase' = "off"
  /\ Forget
  /\ UNCHANGED <<stubVars, line, inherited>>

(* An empty reply cannot be unpacked, and a KeyboardInterrupt ends the     *)
(* proxy wherever it is.                                                   *)
GiveUp ==
  /\ phase \notin {"off", "ready"}
  /\ phase' = "off"
  /\ Forget
  /\ UNCHANGED <<stubVars, line, inherited>>

(* The port goes with the device.                                          *)
Unplugged ==
  /\ PowerCycle
  /\ Send(NoCommand, "off")
  /\ Forget
  /\ inherited' = {}

Run ==
  /\ CpuStep
  /\ executed' = IF Stepping /\ executed < 2 /\ pc \in Code \cup {OrigAddr(i) : i \in Slot} /\ ~AtBkpt
                 THEN executed + 1 ELSE executed
  /\ UNCHANGED <<phase, line, r15, break_pc, shown, told, inherited>>

OwnCommand == FastbootCommand /\ UNCHANGED proxyVars

GdbNext ==
  \/ Request /\ UNCHANGED stubVars
  \/ Handle \/ HandleFault
  \/ Start \/ Close \/ GiveUp \/ Unplugged
  \/ Run \/ OwnCommand

GdbSpec     == GdbInit /\ [][GdbNext]_gdbVars
FairGdbSpec == GdbSpec /\ WF_gdbVars(Run) /\ WF_gdbVars(Handle)

-----------------------------------------------------------------------------
(***************************************************************************)
(* Properties.                                                             *)
(***************************************************************************)

(* Every variable of the proxy keeps its type, and a command on the line   *)
(* is the one the proxy waits for.                                         *)
GdbTypeOK ==
  /\ phase \in {"off", "ready", "attached", "broken", "registers", "done", "inserted",
                "removed", "step", "continued", "poll", "stepped"}
  /\ line.addr \in Code \cup Unmapped \cup {NULL}
  /\ line.word \in HostWord \cup {NULL}
  /\ r15 \in Code \cup {NULL, CmdBkpt} \cup SlotAddr
  /\ break_pc \in Code \cup {NULL}
  /\ shown \subseteq Code \cup Unmapped /\ inherited \subseteq Code
  /\ told \in BOOLEAN
  /\ executed \in 0 .. 2

(* GDB and the target agree on breakpoints whenever GDB can ask: all GDB   *)
(* believes set are set, and a step leaves none of its own behind.  The    *)
(* proxy ignores every error code, and a step uses the same commands.      *)
BeliefsHold ==
  phase = "ready" => shown \subseteq Planted /\ Planted \subseteq shown \cup inherited

(* A target GDB has been told is stopped is stopped, or about to be in     *)
(* CMD_BREAKPOINT with the abort handler in place, until GDB lets it go:   *)
(* the S05 of a continue and of a step, and the one that answers '?'       *)
(* behind --first-run.  '?' is answered S05 unconditionally, so that this  *)
(* needs a GDB that keeps AskStopped.                                      *)
StopsAreReal ==
  phase = "ready" /\ told => AtStop

(* A step from an instruction that does not branch executes that           *)
(* instruction and no other.  dbg.c:165-166 excepts from what breakpoints  *)
(* can do only instructions that manipulate PC.                            *)
StepIsOne ==
  [][phase = "stepped" /\ phase' = "ready"
       /\ Top.pc = break_pc /\ Flow[Text[break_pc - 1]] = {1}
     => executed = 1 /\ last = Text[break_pc - 1]]_gdbVars

(* A step over such an instruction comes to an end.                        *)
StepEnds ==
  (phase = "poll" /\ Stepping /\ HasBreakpoint(break_pc) /\ Flow[Text[break_pc - 1]] = {1})
    ~> phase # "poll"
=============================================================================
