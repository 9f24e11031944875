---------------------------- MODULE ContextSwitch ----------------------------
(***************************************************************************)
(* Entry and return of the prefetch abort a breakpoint raises (int.c), one *)
(* instruction at a time, with the banked registers, the status registers  *)
(* and the stacks of the processor.  The debugger is ARM code, HBOOT runs  *)
(* in one privileged mode, and r2 stands for r2 to r11.                    *)
(*                                                                         *)
(* The instructions between a return to the interrupted mode and the next  *)
(* change to abort mode run with the interrupt mask the interrupted code   *)
(* had.  An interrupt handler that preserves what it uses is not seen; one *)
(* with a breakpoint in it raises a second abort.                          *)
(***************************************************************************)
EXTENDS Integers, Sequences

CONSTANTS
  Value,       \* contents of registers
  Flags,       \* condition flags
  Fault,       \* address of the breakpoint
  Elsewhere    \* other addresses a continue may lead to

ASSUME ContextAssumption == Fault \in Nat /\ Elsewhere \subseteq Nat

SVC == "svc"
ABT == "abt"
IRQ == "irq"
Mode   == {SVC, ABT, IRQ}
Status == [mode : Mode, masked : BOOLEAN, flags : Flags]

Reg == {"r0", "r1", "r2", "r12"}

VARIABLES
  reg,         \* the registers all modes share
  lr,          \* one link register per mode
  stack,       \* one stack per mode, its top first
  cpsr,        \* the status
  spsr,        \* the status the abort saved
  at,          \* the next instruction of the handler; 0: HBOOT runs
  pc,          \* address of HBOOT's next instruction
  original,    \* history: HBOOT's context when it was stopped
  goal,        \* history: where the host made it continue
  nested       \* history: a second abort came while the context was saved

cpuVars == <<reg, lr, stack, cpsr, spsr, at, pc, original, goal, nested>>

-----------------------------------------------------------------------------
(***************************************************************************)
(* Instructions.  The value of a stack pointer is what is on the stack.    *)
(***************************************************************************)
Push(regs)   == [op |-> "stmfd", regs |-> regs]
Pop(regs)    == [op |-> "ldmfd", regs |-> regs]
Do(op, d, s) == [op |-> op, d |-> d, s |-> s]

(* Plausible slips: the stack pointer read after the first store to the    *)
(* stack, and the control bits alone restored.                             *)
SaveSpLate ==
  <<Push(<<"return address">>), Push(<<"r0", "r1">>), Do("sub 4", "r0", "lr"),
    Do("mrs spsr", "lr", ""), Do("msr", "cpsr_c", "lr"), Push(<<"r0">>), Do("mov", "r1", "sp"),
    Push(<<"lr">>), Push(<<"r1">>), Push(<<"r2", "r12">>), Do("msr", "cpsr_c", "abort_mode"),
    Pop(<<"r0", "r1">>), Do("mrs spsr", "r2", ""), Do("msr", "cpsr_c", "lr"),
    Push(<<"r0", "r1">>), Push(<<"r2">>), Do("msr", "cpsr_c", "abort_mode"),
    Pop(<<"lr">>), Do("subs pc", "", "lr")>>
RestoreControlOnly ==
  <<Pop(<<"r12">>), Do("msr", "cpsr_c", "r12"), Pop(<<"r0", "r1", "r2", "r12">>),
    Pop(<<"lr">>), Pop(<<"lr", "pc">>)>>

(* prefetch_abort_handler up to the branch, and save_context.              *)
save_context ==
  <<Push(<<"return address">>),
    Push(<<"r0", "r1">>),
    Do("sub 4", "r0", "lr"),
    Do("mrs spsr", "lr", ""),
    Do("msr", "cpsr_c", "lr"),
    Do("mov", "r1", "sp"),
    Push(<<"r0">>), Push(<<"lr">>), Push(<<"r1">>), Push(<<"r2", "r12">>),
    Do("msr", "cpsr_c", "abort_mode"),
    Pop(<<"r0", "r1">>),
    Do("mrs spsr", "r2", ""),
    Do("msr", "cpsr_c", "lr"),
    Push(<<"r0", "r1">>), Push(<<"r2">>),
    Do("msr", "cpsr_c", "abort_mode"),
    Pop(<<"lr">>),
    Do("subs pc", "", "lr")>>

restore_context ==
  <<Pop(<<"r12">>),
    Do("msr", "cpsr", "r12"),
    Pop(<<"r0", "r1", "r2", "r12">>),
    Pop(<<"lr">>),
    Pop(<<"lr", "pc">>)>>

(* The rest of prefetch_abort_handler calls dbg_event_handler in between.  *)
prefetch_abort_handler == save_context \o <<Do("blx", "", "")>> \o restore_context
StopAt                 == Len(save_context) + 1
Instruction            == prefetch_abort_handler[at]

-----------------------------------------------------------------------------
(***************************************************************************)
(* What the instructions do.                                               *)
(***************************************************************************)
AbortMode == [mode |-> ABT, masked |-> TRUE, flags |-> cpsr.flags]

Read(name) ==
  IF name \in Reg THEN reg[name]
  ELSE IF name = "lr" THEN lr[cpsr.mode]
  ELSE IF name = "sp" THEN stack[cpsr.mode]
  ELSE IF name = "abort_mode" THEN AbortMode
  ELSE 0                                        \* the return address

Write(names, values) ==
  LET Written(name, old) ==
        IF \E k \in DOMAIN names : names[k] = name
        THEN values[CHOOSE k \in DOMAIN names : names[k] = name] ELSE old
  IN /\ reg' = [r \in Reg |-> Written(r, reg[r])]
     /\ lr' = [lr EXCEPT ![cpsr.mode] = Written("lr", @)]
     /\ pc' = Written("pc", pc)

stmfd ==
  /\ Instruction.op = "stmfd"
  /\ stack' = [stack EXCEPT ![cpsr.mode] =
                 [k \in DOMAIN Instruction.regs |-> Read(Instruction.regs[k])] \o @]
  /\ UNCHANGED <<reg, lr, cpsr, spsr, pc>>

ldmfd ==
  /\ Instruction.op = "ldmfd"
  /\ LET n   == Len(Instruction.regs)
         top == stack[cpsr.mode]
     IN /\ Write(Instruction.regs, SubSeq(top, 1, n))
        /\ stack' = [stack EXCEPT ![cpsr.mode] = SubSeq(top, n + 1, Len(top))]
  /\ UNCHANGED <<cpsr, spsr>>

mov ==
  /\ Instruction.op \in {"sub 4", "mrs spsr", "mov"}
  /\ Write(<<Instruction.d>>, <<IF Instruction.op = "sub 4" THEN Read(Instruction.s) - 4
                                ELSE IF Instruction.op = "mov" THEN Read(Instruction.s)
                                ELSE spsr>>)
  /\ UNCHANGED <<stack, cpsr, spsr>>

(* cpsr_c: the mode and the interrupt masks, not the flags.                *)
msr ==
  /\ Instruction.op = "msr"
  /\ cpsr' = IF Instruction.d = "cpsr" THEN Read(Instruction.s)
             ELSE [Read(Instruction.s) EXCEPT !.flags = cpsr.flags]
  /\ UNCHANGED <<reg, lr, stack, spsr, pc>>

subs_pc ==
  /\ Instruction.op = "subs pc"
  /\ cpsr' = spsr
  /\ UNCHANGED <<reg, lr, stack, spsr, pc>>

Saving == at \in 1 .. StopAt - 1

(* A context that a second abort has damaged is followed no further.       *)
Step ==
  /\ at \notin {0, StopAt} /\ ~nested
  /\ stmfd \/ ldmfd \/ mov \/ msr \/ subs_pc
  /\ at' = IF at = Len(prefetch_abort_handler) THEN 0 ELSE at + 1
  /\ UNCHANGED <<original, goal, nested>>

(***************************************************************************)
(* The breakpoint, the debugger, and the other abort.                      *)
(***************************************************************************)
Trap ==
  /\ at = 0 /\ pc = Fault
  /\ at' = 1
  /\ lr' = [lr EXCEPT ![ABT] = Fault + 4]
  /\ spsr' = cpsr
  /\ cpsr' = AbortMode
  /\ original' = [reg |-> reg, lr |-> lr[SVC], stack |-> stack[SVC], cpsr |-> cpsr]
  /\ goal' = Fault
  /\ UNCHANGED <<reg, stack, pc, nested>>

(* While it is stopped the host may attach again, which sets the stack of  *)
(* abort mode up anew.                                                     *)
cpu_set_mode_stack(mode) == stack' = [stack EXCEPT ![mode] = <<>>]

int_install_exception_handlers ==
  /\ at = StopAt /\ ~nested
  /\ cpu_set_mode_stack(ABT)
  /\ UNCHANGED <<reg, lr, cpsr, spsr, at, pc, original, goal, nested>>

(* The debugger writes the continue address to the context, or, when the   *)
(* host detaches, leaves it; it preserves no register but the stack, and   *)
(* the flags are its own.                                                  *)
ContextPc == 8
dbg_event_handler ==
  /\ at = StopAt /\ ~nested
  /\ goal' \in Elsewhere \cup {Fault}
  /\ stack' = [stack EXCEPT ![cpsr.mode][ContextPc] = goal']
  /\ \E v \in Value : reg' = [r \in Reg |-> v] /\ lr' = [lr EXCEPT ![cpsr.mode] = v]
  /\ \E f \in Flags : cpsr' = [cpsr EXCEPT !.flags = f]
  /\ at' = at + 1
  /\ UNCHANGED <<spsr, pc, original, nested>>

(* An interrupt whose handler meets a breakpoint: its abort is handled and *)
(* leaves nothing behind but the registers of abort mode.                  *)
NestedAbort ==
  /\ at # 0 /\ ~cpsr.masked /\ ~nested
  /\ lr' = [lr EXCEPT ![ABT] = 0]
  /\ spsr' = [mode |-> IRQ, masked |-> TRUE, flags |-> cpsr.flags]
  /\ nested' = Saving
  /\ UNCHANGED <<reg, stack, cpsr, at, pc, original, goal>>

CpuInit ==
  /\ reg \in [Reg -> Value]
  /\ \E v \in Value : lr = [m \in Mode |-> v]
  /\ \E v \in Value : stack = [m \in Mode |-> IF m = SVC THEN <<v>> ELSE <<>>]
  /\ cpsr \in [mode : {SVC}, masked : BOOLEAN, flags : Flags]
  /\ spsr = cpsr
  /\ at = 0 /\ pc = Fault
  /\ original = [reg |-> reg, lr |-> lr[SVC], stack |-> stack[SVC], cpsr |-> cpsr]
  /\ goal = Fault
  /\ nested = FALSE

CpuNext == Trap \/ Step \/ int_install_exception_handlers \/ dbg_event_handler \/ NestedAbort
CpuSpec == CpuInit /\ [][CpuNext]_cpuVars

-----------------------------------------------------------------------------
(***************************************************************************)
(* Properties.                                                             *)
(***************************************************************************)
Frame(o) == <<o.cpsr, o.reg["r0"], o.reg["r1"], o.reg["r2"], o.reg["r12"], o.stack, o.lr, Fault>>

(* What the debugger shows as the registers of the stopped program are its *)
(* registers, its own stack pointer and link register included, although   *)
(* they are stored in two modes and pass through two stacks; nothing is    *)
(* left on the stack of abort mode (int.c:64-103).  A second abort between *)
(* the trap and the return to the interrupted mode would break this.       *)
ContextSaved ==
  at = StopAt /\ ~nested =>
    /\ cpsr.mode = original.cpsr.mode
    /\ stack[SVC] = Frame(original) \o original.stack
    /\ stack[ABT] = <<>>

(* HBOOT goes on where the host wants with exactly the context it had: the *)
(* registers of abort mode are not needed any more, and a breakpoint in an *)
(* interrupt handler does no harm then (int.c:105-134).                    *)
ContextRestored ==
  at = 0 =>
    /\ reg = original.reg /\ cpsr = original.cpsr
    /\ lr[SVC] = original.lr /\ stack[SVC] = original.stack
    /\ pc = goal

(* What the comments of save_context say of both returns to the calling    *)
(* mode: "disabled interrupts" (int.c:78-79, 89-90).                       *)
InterruptsDisabled == Saving => cpsr.masked
=============================================================================
