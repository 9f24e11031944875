------------------------------ MODULE MCMachine ------------------------------
(***************************************************************************)
(* The routines the debugger is built from, for TLC: each on its own, from *)
(* every state it may begin in.  A behaviour is one of the tasks; the      *)
(* variables of the others stay as they are.                               *)
(***************************************************************************)
EXTENDS Mmu, MemMove, Caches, ContextSwitch, Base64, Relocation

CONSTANT Tasks   \* the tasks of this run

VARIABLE task

allVars == <<task, mmuVars, memVars, cacheVars, cpuVars, b64Vars, relocVars>>

-----------------------------------------------------------------------------
(***************************************************************************)
(* Constants.                                                              *)
(***************************************************************************)
(* Commands of up to three bytes, so with all paddings, and longer ones;   *)
(* what follows: nothing, a newline, old text, padding, other characters.  *)
MCCommand ==
  UNION {[1 .. n -> {0, 1, 62, 128, 255}] : n \in 0 .. 3}
    \cup {<<8, 0, 255, 3>>, <<4, 0, 239, 205, 171>>}
MCRest == {<<>>, <<10>>, <<65, 66>>, <<61, 61, 200>>}

(* All values of the bits 27-20 and 7-4, which select the instruction, with*)
(* registers the decoder looks at; and branches to and fro, near and far.  *)
Words28 == {op * 2^20 + rn * 2^16 + rd * 2^12 + nibble * 16 :
              op \in 0 .. 255, rn \in {0, SP, PC}, rd \in {0}, nibble \in 0 .. 15}
Narrow  == {op * 2^20 + nibble * 16 : op \in 0 .. 255, nibble \in 0 .. 15}
Fields  == {0, 1, 2, 2^22, 2^23 - 1, 2^23, 2^24 - 2, 2^24 - 1}
Branches == {op * 2^24 + field : op \in {10, 11}, field \in Fields}
MCSample ==
       [cond : {14}, body : Words28] \cup [cond : {C_UNCOND}, body : Narrow]
  \cup [cond : {0, 14}, body : Branches]

-----------------------------------------------------------------------------
(***************************************************************************)
(* The tasks a behaviour is not about are at rest.                         *)
(***************************************************************************)
MmuRest ==
  /\ translation_table = [s \in 0 .. Sections - 1 |-> [type |-> UNMAPPED, ap |-> 0]]
  /\ protect = FALSE /\ probe = NoProbe
MemRest ==
  bytes = [a \in Cell |-> Zero] /\ call = NoCall /\ i = 0 /\ returned = FALSE /\ before = bytes
CacheRest == CacheInit /\ ~writeBack /\ ~speculative
CpuRest ==
  /\ reg = [r \in Reg |-> 1] /\ lr = [m \in Mode |-> 1] /\ stack = [m \in Mode |-> <<>>]
  /\ cpsr = [mode |-> SVC, masked |-> TRUE, flags |-> "none"] /\ spsr = cpsr
  /\ at = 0 /\ pc = Fault /\ goal = Fault /\ nested = FALSE
  /\ original = [reg |-> reg, lr |-> 1, stack |-> <<>>, cpsr |-> cpsr]
B64Rest == signedChar = FALSE /\ command = <<>> /\ code = <<>> /\ decoder = base64_init_decodestate /\ plain = <<0>>
RelocRest ==
  /\ opcode = [cond |-> 0, body |-> 0] /\ place = 0 /\ origin = [opcode |-> opcode, place |-> 0]
  /\ relocated = NotAsked

Init ==
  /\ task \in Tasks
  /\ IF task = "mmu"   THEN MmuInit ELSE MmuRest
  /\ IF task = "mem"   THEN MemInit ELSE MemRest
  /\ IF task = "cache" THEN CacheInit ELSE CacheRest
  /\ IF task = "cpu"   THEN CpuInit ELSE CpuRest
  /\ IF task = "b64"   THEN B64Init ELSE B64Rest
  /\ IF task = "reloc" THEN RelocInit ELSE RelocRest

Next ==
  /\ UNCHANGED task
  /\ \/ /\ task = "mmu" /\ MmuNext
        /\ UNCHANGED <<memVars, cacheVars, cpuVars, b64Vars, relocVars>>
     \/ /\ task = "mem" /\ MemNext
        /\ UNCHANGED <<mmuVars, cacheVars, cpuVars, b64Vars, relocVars>>
     \/ /\ task = "cache" /\ CacheNext
        /\ UNCHANGED <<mmuVars, memVars, cpuVars, b64Vars, relocVars>>
     \/ /\ task = "cpu" /\ CpuNext
        /\ UNCHANGED <<mmuVars, memVars, cacheVars, b64Vars, relocVars>>
     \/ /\ task = "b64" /\ B64Next
        /\ UNCHANGED <<mmuVars, memVars, cacheVars, cpuVars, relocVars>>
     \/ /\ task = "reloc" /\ RelocNext
        /\ UNCHANGED <<mmuVars, memVars, cacheVars, cpuVars, b64Vars>>

Spec == Init /\ [][Next]_allVars
=============================================================================
