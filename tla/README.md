# hbootdbg: specifications, model checking and proofs

hbootdbg is a debugger for HBOOT, the boot loader of HTC phones. A small
program (the debugger, C and ARM assembly) is loaded next to HBOOT, catches the
prefetch aborts that planted `bkpt` instructions raise, and answers commands
that Python scripts on a PC send over USB.

This directory holds TLA+ modules translated from that code, the TLC
configurations that check them, and theorems about them that TLAPS checks.
`PROJECT.json` lists components, runs, hazards and theorems, and maps each
definition to the source lines it models.

Run a check with `tlc -config <X>.cfg <M>.tla` and a proof with
`tlapm <M>.tla`, in this directory.

## 1. Inventory of the system

Paths below are relative to `src/src/hbootdbg` for C and `src/scripts` for
Python.

| Part | State it keeps | Operations |
|---|---|---|
| breakpoint table (`dbg.c:113-196`) | `status.bp`, `status.bp_size`; the words it plants in HBOOT's code | `dbg_init`, `get_breakpoint`, `alloc_breakpoint`, `free_breakpoint`, `insert_breakpoint`, `remove_breakpoint` |
| stop handling (`dbg.c:60-108`) | `status.continue_address`, the saved context | `breakpoint_handler`, `dbg_event_handler` |
| commands (`dbg.c:202-422`) | none of their own | `cmd_dispatcher` and thirteen commands |
| entry of commands (`hbootdbg.c`) | none | `hbootdbg`, called by HBOOT's `oem` and `keytest` commands |
| exception entry (`int.c`) | vector table, abort stack | `int_install_exception_handlers`, `prefetch_abort_handler`, `save_context`, `restore_context` |
| caches and probing (`mmu.c`) | caches (hardware) | invalidation of lines and ranges, `mmu_probe_read`, `mmu_probe_write` |
| cpu helpers (`cpu.c`) | none | `cpu_get_branch`, mode and cpsr accessors |
| base64 (`base64.c`) | decoder position | `base64_decode` |
| memory routines (`hbootlib.c`) | none | `memmove`, `memset`, `strlen` |
| relocation (`reloc.c`, `darm/`) | none | `relocate_instruction`; nothing calls it |
| preloader (`../preloader`) | none | copy itself, hook `oem`, read and write memory |
| upload (`dbgupload.py`) | none | a fixed sequence of steps that loads the debugger |
| transport (`hboot.py`) | serial port and its buffer | send a command, collect its reply until 0.1 s of silence |
| client (`hbootdbg.py`) | none | pack a command, unpack a reply, console |
| GDB proxy (`gdbproxy.py`) | the last registers read | one handler per GDB request |

### How the parts interact

* HBOOT's command loop calls `hbootdbg`, which decodes the command and calls
  `cmd_dispatcher` with no context.
* A `bkpt` in HBOOT raises a prefetch abort. When `CMD_ATTACH` has installed
  the vector, `prefetch_abort_handler` saves the registers and calls
  `breakpoint_handler`, which polls the USB buffer and calls `cmd_dispatcher`
  with the saved context until it has handled `CMD_BREAKPOINT_CONTINUE` or
  `CMD_DETACH`.
* A breakpoint displaces an instruction. The debugger does not put it back to
  continue: it executes a copy in the table entry (a *trampoline*), followed by
  a branch to the next instruction. The target thus executes words of a table
  that later commands may change.
* `CMD_BREAKPOINT` executes a `bkpt` in the debugger itself, `CMD_CALL` calls
  any function: either can stop the target while it is stopped.
* The scripts know the state of the target only from replies. A reply ends at
  0.1 s of silence and carries the type and an error code.

### What is hard here

* *State read early and used late.* `continue_address` is computed when the
  target stops and used when it continues, and any number of commands in
  between may remove, move and reuse the slot it points to.
* *Position-dependent data that is moved.* A trampoline's branch is encoded
  relative to its slot; `free_breakpoint` moves entries between slots.
* *Nesting.* There is one `continue_address`, and there may be several stops.
* *Commands in any order.* Nothing checks that the host attaches before it
  inserts, attaches once, or keeps its writes off planted words.
* *Two views of memory.* Data writes and instruction fetches go through
  different caches.
* *Delivery.* Late replies, missing replies, commands that wait in a buffer.
* *Loss.* A power cycle at any time forgets everything on the target and
  nothing on the host.

### What makes each part correct

| Part | Correct when |
|---|---|
| breakpoint table | it behaves as a map with a capacity, entries are unique, trampolines return behind their breakpoint, the slot of a stopped target stays usable |
| stop handling and commands | HBOOT executes the instructions it would execute alone; an armed address stops; a continued target moves on; HBOOT's code can always be restored |
| exception entry | a save followed by a restore is the identity on the registers, also when an interrupt comes in between |
| caches | a planted or restored word is what the processor fetches next |
| probing | the answer is right for every section the range touches |
| base64, memory routines | they compute their textbook definitions |
| upload, preloader | HBOOT's commands are redirected only to code that is complete |
| transport and client | a reply is taken for the command that caused it |
| GDB proxy | what GDB believes about breakpoints and stops is so, and a step executes one instruction |

## 2. Modules

| Module | What it is |
|---|---|
| `ArmBranch` | `cpu_get_branch`, and the branch instruction of the architecture it must agree with |
| `BreakpointMap` | abstract specification of the table: a partial map from addresses to saved words, and the answer to each command |
| `BreakpointTable` | the table of `dbg.c` with the memory it plants breakpoints in |
| `TableCommands` | the commands that reach the table, with the error codes they answer |
| `Hboot` | abstract specification of the debugged program: HBOOT without a debugger |
| `DebugStub` | the processor, `breakpoint_handler` and all commands around the table |
| `GdbProxy` | `gdbproxy.py` between GDB and the target |
| `ContextSwitch` | `prefetch_abort_handler`, `save_context` and `restore_context`, one instruction at a time |
| `Caches` | the two caches, and the routines of the debugger and the preloader that write code |
| `Mmu` | the two probes of the page table, and `cmd_write` relying on one |
| `MemMove` | `memmove`, `memset` and `strlen`, one turn of a loop at a time |
| `Base64` | the decoder of commands, one character at a time |
| `Darm`, `Relocation` | the ARMv7 decoder, and the relocation of an instruction |
| `HostLink` | the serial line and the waiting of `hboot.py` |
| `Upload` | `dbgupload.py`, HBOOT, the preloader and the debugger over that line |
| `BreakpointTableProofs`, `DebugStubProofs`, `StopProofs`, `TransparencyProofs`, `GdbProxyProofs`, `UploadProofs`, `ProcessorProofs`, `RoutineProofs` | theorems |
| `MCBreakpointTable`, `MCDebugStub`, `MCGdbProxy`, `MCMachine` | values of the constants for TLC; `MCMachine` also puts the routines side by side |

`GdbProxy` EXTENDS `DebugStub`, which EXTENDS `BreakpointTable`, which EXTENDS
`ArmBranch`. `TableCommands` EXTENDS `BreakpointTable` too and instantiates
`BreakpointMap`; `DebugStub` instantiates `Hboot`.
`Upload` EXTENDS `HostLink`; `Relocation` EXTENDS `Darm`, which EXTENDS
`ArmBranch`. Of the proofs, `TransparencyProofs` EXTENDS `StopProofs`, which
EXTENDS `DebugStubProofs`, and `GdbProxyProofs` EXTENDS `TransparencyProofs`.
`ProcessorProofs` is about `Mmu`, `Caches` and `ContextSwitch`, `RoutineProofs`
about `MemMove`, `Base64`, `Darm` and `Relocation`.

`DebugStub` takes the routines below it as single steps that do what they
promise. The modules from `ContextSwitch` to `Base64` are about those promises:
the registers a stop saves and restores (`Trap`, `Resume`), the word that is
executed after it has been planted or written (`mem`), the answer of the probe
(`Unmapped`), and the command that is decoded from the text received.

### BreakpointTable, TableCommands

Addresses are word addresses; an entry is five words long, of which the model
keeps the address and the two words of the trampoline. The displaced
instruction is an opaque word; the branch back is the 24-bit field that
`cpu_get_branch` computes, so that a moved trampoline goes where the processor
would take it. A slot that leaves the table keeps its content, as in the code:
`SpareSlotsUntouched` is about exactly that.

`InsertStep`, `RemoveStep`, `WriteStep` and `InitStep` apply the operations in
any order. `write_word` is there because `CMD_WRITE` reaches the same memory.
`TableCommands` makes commands of them: each records in `answer` the command, its
address and the error code it sends back (`cmd_error`). `BreakpointMap` has the
same variable and answers by its own rules, so that the refinement compares the
error code of every command and not only its effect.

### DebugStub

| Code | Model |
|---|---|
| program counter, wherever it is | `pc`: in `Code`, `Exit`, a trampoline word, `CmdBkpt`/`CmdRet` (the `bkpt` of `cmd_breakpoint` and the instruction after it), `PollLoop`, or `NULL` when the target has run away |
| contexts saved by `save_context`, frames of `cmd_breakpoint` and `cmd_call` | `stack` |
| `status.continue_address` | `continue_address` |
| prefetch abort vector | `hooked` |
| `hbootdbg` called by HBOOT | a command while `Idle` |
| loop of `breakpoint_handler` | a command while `Stopped` |
| `save_context` ... start of the loop | `Trap` |
| end of the loop, `restore_context` | `Resume` |

One action per command, each the whole handler. A command is not interleaved
with HBOOT's code, because the one processor runs either. What interleaves is
the order of commands, the execution between them, and the power cycle, which
may come at any moment. `last` and `released` are history variables for
properties: the last word of HBOOT executed, and the command that let the
target go.

The HBOOT program is a parameter: `InitText` is its code and `Flow` gives for
each word the displacements to its successors, so that a word may branch.
A displaced word is executed in its slot: if it goes anywhere but to the next
word it lands relative to the slot, which is what `dbg.c:165-166` warns of.

### Rules of use

The code trusts the host. `Rules` names what a host refrains from; a run or a
theorem states which rules it needs. Dropping any one of the eight from the run
`stub` makes it fail:

| Rule | Source | Without it, the first property to fail |
|---|---|---|
| `AttachFirst`: no breakpoint before an attach | `dbg.c:276` | `ArmedStops` |
| `AttachFresh`: no attach with breakpoints set or while stopped | `dbg.c:275` | `Transparent` |
| `KeepSlots`: no removal that moves another entry | `dbg.c:133` | `StopHasWayOut` |
| `KeepLiveSlot`: no insertion into the slot the target resumes through | `dbg.c:120` | `StopHasWayOut` |
| `NoOverwrite`: no write over a breakpoint or the current stop | `dbg.c:327` | `ArmedStops` |
| `NoNest`: no call while stopped, no `CMD_BREAKPOINT` while stopped in HBOOT | `dbg.c:380` | `Transparent` |
| `PlainOnly`: no breakpoint on an instruction that manipulates PC | `dbg.c:165` | `Transparent` |
| `MappedOnly`: no breakpoint on an unmapped address | `dbg.c:163` | `Transparent` |

### GdbProxy

| Code | Model |
|---|---|
| the handler in progress, and which of its commands it waits for | `phase` |
| the command sent and not handled yet | `line` |
| `self._r[15]` | `r15` |
| `break_pc` in `handle_step` | `break_pc` |
| what GDB has been told: breakpoints, and that the target is stopped | `shown`, `told` |
| a request, up to its first command | `handle_...` |
| the target handles the command (`Serve`, an action of `DebugStub`) and the handler goes on with the reply | `Handle` |
| the proxy dies with a command under way: an empty reply, or a `KeyboardInterrupt` | `GiveUp` |
| the proxy starts (`--first-run` or not); GDB closes the connection, or the proxy is interrupted between two requests | `Start`, `Close` |

A request is not atomic: HBOOT runs between its commands, the proxy may die
between them, and the device may be switched off. The command a dead proxy has
left is still handled, with nobody to read the reply (`NobodyReads`).
`inherited` and `executed` are history variables for properties: the
breakpoints that were there before this proxy, and the instructions since the
step in progress began.

`?` is answered `S05` without a command to the target (`handle_get_stop_reason`),
so that GDB is told of a stop whatever the target does. GDB asks whenever it
connects. Behind `--first-run`, which is how the README of the repository starts
the proxy (`README.md:42`), the target has been stopped by then; without it, it
may be running.

What GDB requests is free, apart from the rules of `DebugStub` and four of
its own. Dropping one of the first three from the run `gdb`, or the last from
`gdb_rash`, makes it fail:

| Rule | Source | Without it, the first property to fail |
|---|---|---|
| `Room`: no breakpoint into a full table | `gdbproxy.py:382` | `BeliefsHold` |
| `StepFresh`: no step onto a breakpoint (dropped together with `KeepSlots`) | `gdbproxy.py:357` | `BeliefsHold` |
| `ReadFirst`: no step but from a stop whose registers have been read | `gdbproxy.py:350` | `StepIsOne` |
| `AskStopped`: no `?` but behind `--first-run` or at a stop GDB knows of | `gdbproxy.py:325` | `StopsAreReal` |

A step never refuses to use the last free slot, so `Room` does not keep a step
out of a full table: then the step has no breakpoint, and the proxy polls until
the target stops elsewhere.

### ContextSwitch

`prefetch_abort_handler` is a list of instructions (`at` is the next one), with
the registers banked by mode, one stack per mode, and the two status registers.
`r2` stands for r2 to r11. The value of a stack pointer is what lies on the
stack. The debugger between saving and restoring uses every register freely,
chooses where to continue, and may run `int_install_exception_handlers`, which
resets the stack of abort mode. Between the return to the interrupted mode and
the next change to abort mode interrupts are as the interrupted code had them;
`NestedAbort` is an interrupt whose handler meets a breakpoint. `ContextSaved`
excepts a context damaged that way, and the module follows it no further.

### Caches

A word has up to three values: what a load gives (`data`), memory (`ram`) and
the copy in the instruction cache (`fetched`). Lines come and go by themselves.
A routine is a list of steps (`todo`): stores, the maintenance of one line
each, and loops over the lines of a range, in the order of the code.
`mmu_invalidate_dcache_line` cleans a line, by the operation it encodes
(c7, c10, 1). A loop takes one line per step (`GoesOn`, `NextLine`), and both of
its addresses wrap: behind the last line comes the first, and `addr + size` is 0
for a range that ends with memory. A loop whose range ends inside the last line
(`EndsInLastLine`) goes around for ever, and so does its routine: `cmd_write` then
never answers. It takes a `CMD_WRITE` into the last line of the 32-bit address
space, if that is mapped, that stops short of its last byte. `LoopsGoForward` says
that no other loop comes around. The hardware is open: write-back or
write-through, speculative fetches or none. `unkept` collects the words that
the code writes without maintenance, or with one that does not reach them:

* the slot an entry is moved to (`dbg.c:133`),
* a `CMD_WRITE` that ends with memory, where `addr + size` is 0 (`mmu.c:89`),
* on a write-back cache, what the preloader writes (`preloader.c:103` empties
  the instruction cache only).

`MemoryCurrent` and `CodeCurrent` are about all other words, whenever no routine
is under way, which after an endless loop is never; `CodeCurrent` excepts the combination of write-back and speculation, where the order of
`mmu.c:126-130` (instruction line first) lets the old word be fetched again.

### Mmu

Addresses and lengths are numbers modulo `Memory`, so that `section_end` wraps
as it does in 32 bits. The page table is any; what lies behind it (`junk`), which
a range past the end of memory makes the loop read, is any descriptor.

### MemMove, Base64

`MemMove` has one action per loop body and the history variable `before`.
`Base64` follows `base64_decode_block` through its four steps. The signedness of
`char` is the compiler's choice: `signedChar` is either. Where it is unsigned, as
is usual on ARM, the tests `< 0` of `base64.c` skip nothing. What follows the
command in the buffer (`Rest`) is decoded as well, since nothing clears or
terminates the buffer.

### Darm, Relocation

`armv7_disas_cond` is a cascade of tests; `Darm` has it as a list of cases of
which the first that applies counts, in the same order. A decoding is the label,
the encoding type, the return value and the immediate of B, BL and SVC: what
`reloc.c` reads. `relocate_instruction` has no caller; the model applies it once,
to any word of the sample and between any two places.

### HostLink, Upload

The line keeps order and loses nothing; a reply may be late by any amount, and
arrives in parts. A client waits in one of two ways: for one read (`getvar`,
`download_data`), or until a read returns nothing (`preloader`, `hbootdbg`). It
takes what it has got for the reply. `Upload` puts the steps of `dbgupload.py`
on this line (`main`, in its order), with the checks it makes (`Accepts`), the
target that takes one request after the other, resets at any time, and commands
of `hbootdbg.py` after the upload. HBOOT may or may not answer the request that
runs the preloader, and may refuse a download.

| Code | Model |
|---|---|
| the last request of the script, or how it ended | `script` |
| version in memory, download buffer, `oem` and `keytest` hooks, the debugger's place | `target` |
| requests sent and not taken up, reply parts not sent, parts on the line | `requests`, `outgoing`, `replies` |
| a read of `hboot.py` that returns something, or nothing for 0.1 s | `ReadSome`, `ReadNothing` |
| the user starts the script again, resets the device | `StartScript`, `PowerCycle` |

`said` (the whole reply to the last request) and `refused` (this target has
refused a download) are history variables.

## 3. Runs

| Run | Configuration | Distinct states | Shows |
|---|---|---|---|
| `breakpoint_table` | `BreakpointTable.cfg` | 169 thousand | types, `DistinctAddresses`, `SpareSlotsUntouched`, and the table implements `BreakpointMap`, answer by answer |
| `moved_trampoline` | `BreakpointTableTrampoline.cfg` | violation | `TrampolineReturns` fails: see findings |
| `stub` | `DebugStub.cfg` | 99 thousand | with all eight rules: `ArmedStops`, `StopHasWayOut`, `Transparent` (refinement of `Hboot`), `ContinueMovesOn` |
| `stub_rash` | `DebugStubRash.cfg` | 617 thousand | with the rule `AttachFresh` alone: types, `TextPreserved` |
| `stub_detach` | `DebugStubDetach.cfg` | violation | `DetachMovesOn` fails: see findings |
| `gdb` | `GdbProxy.cfg` | 1.2 million | with all rules but `AskStopped`: `BeliefsHold`, `StepIsOne`, `StepEnds` |
| `gdb_rash` | `GdbProxyRash.cfg` | 1.9 million | with the rules `AttachFresh` and `AskStopped` alone: types, `StopsAreReal` |
| `gdb_step` | `GdbProxyStep.cfg` | violation | `StepIsOne` fails without `KeepLiveSlot`: see findings |
| `machine` | `Machine.cfg` | 837 thousand | the routines: probes, copies, caches, context switch, command decoder, instruction decoder and relocation |
| `link` | `Upload.cfg` | 681 thousand | the upload over a late line: `RepliesInStep`, `HooksLeadToDebugger`, `DoneMeansInstalled`, `UploadEnds` |
| `relocation` | `MachineRelocation.cfg` | violation | `RelocatedBranchKeepsTarget` fails: see findings |
| `interrupts` | `MachineInterrupts.cfg` | violation | `InterruptsDisabled` fails: see findings |

A behaviour of `machine` is about one routine, chosen by `task`; the variables of
the others stay as they are. The routines share no state, so that this is the
same as six runs.

### Bounds, and why they are enough

* `DBG_NBR_POINTS = 2`. Two slots are enough for a removal that moves an entry,
  for one that does not, for a full table, and for a slot that is reused while
  the target is about to resume through it.
* `Code`: four words for the table and for `stub`, three for `stub_rash`. More
  addresses than slots, so that the table overflows; the third word may branch
  back, so that HBOOT has a loop and an instruction that manipulates PC.
* `HostWord`: one word. Two writes of different words differ from one write
  only in the word.
* `MaxNest` bounds the activations at one time (4 in `stub` and `stub_detach`,
  3 in `stub_rash`). Three is a stop inside a call or a `CMD_BREAKPOINT` made
  while stopped, which is where the one `continue_address` is shared.
* Addresses of words are real numbers of the 30-bit address space and the
  branch field is 24 bits wide: no width is reduced.
* `GdbProxy`: four words of `Code` in `gdb` (three plain ones, one more than
  there are slots), three in `gdb_step`, two in `gdb_rash`, where everything
  else is allowed. `MaxNest = 2` is the `CMD_BREAKPOINT` of `--first-run`; the
  proxy sends no other command that nests. `WriteAddr` bounds where GDB writes:
  one word of HBOOT and one unmapped address. At most one command is on the
  line, since the proxy waits; `executed` counts to two, which is one too many.

* `Mmu`: three sections of two bytes. That has a first, an inner and the last
  section, a range over all of them, a boundary inside, before and behind it;
  all 64 page tables, with and without S or R, and every range. `ProcessorProofs`
  does away with the bound.
* `MemMove`: four bytes of three values, every content and every pair of ranges,
  so overlaps in both directions by one, two and three; `RoutineProofs` does away
  with this bound too.
* `Caches`: four words in lines of two, one slot, two values of a word, two
  routines. Two lines have a range that crosses a boundary and one that does
  not, aligned and not; two routines have a word written after it was cached.
  `ProcessorProofs` holds for any memory, any lines and any number of routines.
* `ContextSwitch`: two values for every register, two settings of the flags, one
  place to continue at beside the breakpoint. The routine moves values and
  never computes with them, but for the return address; `ProcessorProofs` holds
  for all values.
* `Base64`: all commands of up to three bytes out of five that make all bits of
  a fragment matter, two longer ones, and four ways for the buffer to go on;
  `RoutineProofs` holds for all.
* `Relocation`: all values of the bits that select an instruction, the registers
  the decoder compares with (0, SP, PC), and branches with the offsets around 0
  and around both ends of the field. Other operand bits do not reach a test, and
  `RoutineProofs` holds for all words.
* `Upload`: the script twice and two commands after it, so that each of the two
  runs may break off, meet a target that is half patched, and read the late
  replies of the other. `UploadProofs` holds for any number of both.

No state constraint is used: the bounds above are in the guards. Deadlock is
checked but in the runs of `MCMachine` and `Upload`, where a routine that has
returned, and a script that may not be started again, have nothing left to do.
In the other runs a power cycle is always possible, so that deadlock freedom
says little there, and liveness is stated instead.

### Fairness

`FairStubSpec` adds `WF(CpuStep)`: the processor goes on executing while it has
an instruction to execute. Nothing is assumed of the host: commands and power
cycles need not come. `ContinueMovesOn` and `DetachMovesOn` are stated under
this fairness.

`FairGdbSpec` adds `WF(Run)`, which is the same, and `WF(Handle)`: a target in
one of its two loops fetches the command that waits. The proxy itself needs no
more, because it goes on with each reply in the step that gives it. Requests,
power cycles and the end of the proxy need not come. `StepEnds` is stated for a
step whose breakpoint is there, from an instruction that does not branch; for a
branch it does not hold, and the proxy polls for ever (`gdbproxy.py:354`).

`UploadSpec` adds `WF(Host)`: the script takes its next step. The serial port is
opened with a timeout of 0.1 s (`hboot.py:40`), so that no read blocks, and
between two reads the script only computes. Nothing is assumed of the target or
the user: replies, resets and further starts need not come.

## 4. Findings

* `moved_trampoline` (`dbg.c:133`). `free_breakpoint` copies the last entry
  over the freed one, branch included. The branch is relative to its own
  address, so the moved trampoline returns 20 bytes per slot away from the
  instruction after the breakpoint. Insert at A, insert at B, remove A: the next
  stop at B continues in the wrong place. Lemma `MovedBranchMisses` proves the
  distance for all addresses.
* `stub_detach` (`dbg.c:284`). The comment at `dbg.c:90` has the target continue
  on a detach. `cmd_detach` leaves the saved pc at the breakpoint: the target
  stops again at once and polls for a host that has left.

* `gdb_step` (`gdbproxy.py:352`). GDB removes its breakpoints when the target
  stops and steps over them before it inserts them again. The removal frees the
  slot that `continue_address` points to, and the insertion of the step takes
  it: the slot then holds the instruction of the next word. The continue
  executes that one and goes on behind it. The instruction at the stop is never
  executed, and the target comes to the breakpoint of the step only if it passes
  there again. The rule `KeepLiveSlot` excludes this; GDB does not keep it.

* `relocation` (`reloc.c:49`). The decoder multiplies the offset of a branch by
  four (`armv7.c:517-518`); `darm_armv7_update` stores that number of bytes in a
  field that counts words. The relocated branch leads elsewhere, even when
  source and destination are the same. Nothing calls `relocate_instruction`.
* `interrupts` (`int.c:78`). The comments say "disabled interrupts", but the
  mask written with `msr cpsr_c, lr` is the one of the interrupted code. In code
  with interrupts enabled a second abort may come while the context is half
  saved; it overwrites `lr` and `spsr` of abort mode.

## 5. Proofs

TLAPS checks the following for every table size, every layout, every program
and every history; the assumptions are the named ones of `BreakpointTable`
(`TableAssumption`, `LinkAssumption`), `DebugStub` (`ProgramAssumption`,
`LayoutAssumption`, `HostAssumption`), `GdbProxy` (`GdbAssumption`), `Mmu`
(`MmuAssumption`), `Caches` (`CachesAssumption`), `ContextSwitch`
(`ContextAssumption`), `MemMove` (`MemAssumption`), `Base64` (`Base64Assumption`),
`Relocation` (`RelocationAssumption`) and `Upload` (`UploadAssumption`), which TLC
evaluates in the runs.

| Theorem | Statement |
|---|---|
| `TableTypeCorrect`, `AddressesStayDistinct` | `TableTypeOK` and `DistinctAddresses` are invariants |
| `SpareSlotsStay` | only `dbg_init` changes a slot beyond the fill level |
| `TableImplementsMap` | the table implements `BreakpointMap`, the error code of every command included |
| `BranchRoundTrip` (lemma) | a branch encoded for a destination in reach leads there |
| `StubTypeCorrect` | `StubTypeOK` is an invariant, for a host that keeps no rule |
| `ArmedAddressesStop` | `ArmedStops` is an invariant, given `AttachFirst` and `NoOverwrite` |
| `TextIsPreserved` | `TextPreserved`, given `AttachFresh` |
| `ProxyIsHost` | behind the proxy the target behaves as `StubSpec` |
| `GdbBeliefsHold` | `BeliefsHold` is an invariant, given `Room` and `StepFresh` |
| `StopsAreInProgram` | every stop is in HBOOT, in a trampoline or at the `bkpt` of `cmd_breakpoint`, for a host that keeps no rule |
| `StopsHaveWayOut` | `StopHasWayOut` is an invariant, given `NoOverwrite`, `KeepSlots`, `KeepLiveSlot`, `AttachFresh` and `NoNest` |
| `GdbStepIsOne` | `StepIsOne`, given those five (`OrderlyHost`), `AttachFirst` and `ReadFirst` |
| `StubIsTransparent` | `DebugStub` implements `Hboot`, given all eight rules |
| `GdbStopsAreReal` | `StopsAreReal` is an invariant, given `AskStopped` |
| `ProxyTypeCorrect` | `GdbTypeOK` is an invariant, for a GDB that keeps no rule |
| `ProxyIsTransparent` | behind the proxy too the target implements `Hboot`, given all eight rules |
| `UploadHooks`, `UploadDone` | `HooksLeadToDebugger` and `DoneMeansInstalled` are invariants, for every number of runs and commands |
| `CopiesAreExact`, `FillsAndLengthsAreExact` | `CopyIsExact` and `SetAndLengthExact`, for every size of memory |
| `UploadInStep` | `RepliesInStep`: a script that found its line clean takes no reply for one to another request |
| `ReadProbeIsExact`, `WriteProbeIsExact`, `WritesAbortOnlyIfProtected` | the properties of the probes, for every page table, size and number of sections |
| `LoopsComeToTheirEnd` | `LoopsGoForward`, for every size of memory and of both kinds of line |
| `MemoryIsCurrent`, `CodeIsCurrent` | `MemoryCurrent` and `CodeCurrent`, after every routine that ends, for every size of memory and of both kinds of line |
| `ContextIsSaved`, `ContextIsRestored` | `ContextSaved` and `ContextRestored`, for all values of registers, flags and stacks |
| `CommandIsDecoded` | `DecodesCommand`, for commands of every length and everything that may follow them |
| `OnlyBranchesAreMoved`, `BranchOffsetsAreDecoded`, `NothingFallsThrough` | `OnlyBranchesMove`, `BranchOffsetDecoded` and `NoFallThrough`, for all words of 32 bits |

**The table.** `DistinctAddresses` is inductive only together with the types
and with `ActiveInCode`; `TableInv` is their conjunction. The step that needs
it is the removal: the swap keeps addresses distinct because the entry that
moves was distinct from all others, the one that goes included. The refinement
rests on `SavedByIndex` (the entry at slot i is the one looked up by its
address) and on `ArmedCardinality` (as many addresses as entries), which both
need `DistinctAddresses`. It is proved command by command, with the error code in
`answer`; `CommandIsTableStep` carries the invariant over from `BreakpointTable`.

**The stub.** `StubTypeOK` is not inductive, for two reasons the proof makes
explicit in `StubInv`:

* that an instruction in HBOOT's code leads to HBOOT's code needs every word to
  be at its own address, in memory and in the table (`WordsAtHome`): a word put
  back at another address would branch elsewhere;
* that a command which returns finds the polling loop it was called from needs
  every unfinished call to sit on a stop (`CallsOnStops`).

`StubTableStep` shows that whatever the stub does is, for the table, a step of
`BreakpointTable` (or a restart), so that `TableInv` carries over. `ArmedStops`
is inductive on top of `StubInv`; the two rules it needs are cited at the
insertion and at the write. `TextIsPreserved` follows action by action from
`TextByEntry`: the text at an armed address is the word in its entry.

**The proxy.** `ProxyIsHost` is a step simulation: every step of `GdbProxy` is
a step of `DebugStub` or leaves it alone, so that its theorems carry over
(`ProxyArmedAddressesStop` is the first use). A command is sent in one step and
handled in a later one: `ProxyInv` keeps in the command what its guard
established when it was sent, and links it to the phase. `BeliefInv` extends
`BeliefsHold` to the middle of a request, where the breakpoint of a step is set
and GDB does not know it. `RealInv` does the same for `StopsAreReal`: from a
stop only a command leads on, and the `bkpt` of `cmd_breakpoint` leads to the
polling loop because an attach came before it.

`ProxyTypeCorrect` needs to know where a stop can be, because the proxy keeps the
pc it reads: that is `StopsAreInProgram`, which holds of the whole stack and not
of its top alone.

**The way out of a stop.** `StopHasWayOut` is about one entry of the table, but a
trampoline is entered after the stop is over and the entry it belongs to may have
been removed. `WayInv` therefore has two parts. `ArmedInv`: every entry in use
holds a word of HBOOT that is no `bkpt` and a branch behind it, and every `bkpt`
in HBOOT belongs to an entry. `StackInv`: the unfinished activations are either
calls with HBOOT stopped on top, or calls of `cmd_breakpoint` with their stops,
and the trampoline that is being executed, or will be, works. Each of the five
rules is used in one lemma: `NoOverwrite` in `WriteKeepsWay`,
`KeepSlots` in `RemoveKeepsWay`, `KeepLiveSlot` in `InsertKeepsWay`,
`AttachFresh` and `NoNest` in `CommandKeepsWay`.

**Transparency.** `StubIsTransparent` is the refinement of `Hboot` with
`Text` and `At`. Only the host's own words change `Hboot`'s text, so that it also
says that the program is kept through every insertion and removal. `PositionsHold` computes the address in HBOOT that a place of
the processor stands for. The invariant is `WayInv` with `ArmedStops` and
`PlainInv`: what a trampoline executes is the word of HBOOT at its address and
goes on to the next word, and wherever a `bkpt` is next the vector is set. Each
action is then a step of `Hboot` (`Executes`, `Starts`, `Patches`, a restart) or
none (`Stutters`). `ProxyIsTransparent` is the same theorem behind the proxy.

**One step.** A step is four commands with the processor running between the
second and the third. `StepInv` says where the target is at each `phase`: stopped
at the instruction, with nothing executed yet, until the continue has been
handled; then `Midway`; then stopped, and if at the breakpoint of the step, with
the instruction executed once. `Midway` has the places in between: at the slot
(`AtStep`), and behind it on the branch back, at the breakpoint or in the stop
(`PastStep`). When the breakpoint was refused, `Midway` says that no stop is at
its address, which is `StopsSomewhere`. The three lemmas are one for each part of
the way: `StepSetsOff` takes the way out from `WayInv`, `StepExecutes` is the
displaced instruction, and `StepReturns` the branch and the `bkpt`, which is in
memory by `ArmedStops`. Neither `Room` nor `PlainOnly` is needed.

**The upload.** The hooks are what the target's queue has made of them, so
`UploadInv` is about the queue. `NoLies`: nothing on the line, in either buffer of
the client or in its last answer says "HACK" before the target does.
`Whole`: a request to copy has the download of what it copies right before it,
or, at the head of the queue, in the buffer. `PayloadFirst` and `KeytestFirst`:
no copy to a hook comes before that of what the hook leads to, in the queue or
in memory; what the script relies on when it appends the next one is in
`Downloaded`, `PayloadAsked`, `KeytestAsked` and `OemAsked`, which hold of a queue
that still has requests of an earlier run in it. `ServedOrderly` is the proof for
a request taken, `AsksOrderly` for one made.

**Replies in step.** `InStep` says what the stream of replies is made of.
Requests carry their numbers (`Numbered`), and only requests that were taken up
have been answered (`AllTaken`). What the script has read, what lies in the
buffers and what the target has still to send, one behind the other, end in the
parts of the reply to the last request and hold, before these, only parts of
earlier ones (`WaitsFor`, with `EndsIn`); a clean line has nothing before them.
`HasGot` carries this to the answer the script acts on. The property is about a
client that waited for silence, and whose target had nothing left to do when
the wait ended: `answer.early` marks the waits that were too short.

**The caches.** What makes a stale word harmless is maintenance that is still to
come. `CacheInv` says so: every word the code looks after has, behind its last
store in `todo`, the clean and the invalidation of its lines (`AllTended`); a
word that differs from memory has a clean to come (`StaleCleaned`), and one that
differs from a copy in the instruction cache an invalidation (`StaleDropped`,
which is where write-back with speculative fetches is excluded: the instruction
line is invalidated first, and what is fetched before the data line is cleaned is
the old word). `LinesWhole` and `WriteThrough` say what an evicted line and a
write-through cache leave in memory. The loops over lines are the work. A loop
looks after a word as long as its line is still ahead (`Covers`), or when the loop
is endless. `LoopGoesOn` shows that a loop with a word ahead goes on, and that
after its step the word is still ahead, or its line is the one just done: so a
loop that stops has nothing left to look after. It needs no alignment of the
range, and is proved for every line size. `NextLineIsFurther` is the other half: a
loop that goes on has a line behind it, unless its range ends inside the last.

**Exceptions.** `ContextAt(k)` is an assertion for each of the 26 places between
the instructions of the handler: where on the two stacks the parts of the
context lie (`HbootStackAt`, `AbortStackAt`), what the status registers hold
(`StatusAt`), which registers are still those of the program (`RegistersAt`), and
what is in the link registers (`LinksAt`). `CpuInv` is that assertion at `at`,
unless a second abort has struck, which can only be at the places 1 to 19. Each
instruction has one lemma that takes its assertion to the next.

**The routines.** `MemInv` has a loop invariant for each loop of `hbootlib.c`: of
a copy, the bytes behind the loop are those of the source before it began and
all others are untouched, so that what is still to be read has not been
overwritten. That of the probes rests on `NumberOfSections`: `sections_nr` is the number
of the last section a range touches less that of the first, plus one, for a
range that begins in the last section too, where `section_end` is 0. That of the
decoder, `B64Inv`, has two cases. `Within(q, d)`: in quartet q and after d of its
characters, what is complete equals the command, and the byte begun holds the
high bits it should; `Beyond`: all of the command is written and nothing that
follows touches it. `SextetsJoin` and `AddAdds` are the arithmetic of shifting
the four sextets together, for all bytes and both signs of `char`.

**The decoder of instructions.** `RelocInv` itself is short; what it rests on is
that no path of the decoder names a word B or BL that is not one, which is about
tables and the order of tests. `Rows(s, n, X)` says of a table that it has n
entries and none in X, and is proved of each table piece by piece, since the
tables are written as concatenations (`Joined`, `Extended`, `Doubled`). A switch
is `FirstOf` a list of cases: `SomeApplies` finds the one that is taken, and
`FirstStays` reduces a statement about the switch to one about each case.
`Stays` is what every path but one establishes: the label is neither B nor BL,
and with the two types that could fall through it is one the switch has a case
for. `LabelTable` and `TypeTable` give the place of the branches, `BranchDecoded`
that a branch passes all earlier tests, and `RelocatedBranch` that the word
stored back is the same branch but for its offset.

**Checked by TLC only.** The liveness properties `ContinueMovesOn`,
`DetachMovesOn`, `StepEnds` and `UploadEnds`: liveness is outside this prover's
reach.

## 6. What is not modelled

* The content of replies: `CMD_READ`, `CMD_GET_REGISTERS` and `CMD_FLASHLIGHT`
  change nothing and are one action.
* In `DebugStub`, registers other than the program counter. `Land` stands for what
  they decide: resuming HBOOT with the registers of the debugger, or the reverse,
  does not work. Their way through a stop is in `ContextSwitch`.
* In `DebugStub`, caches and interrupts: there is one memory and `Trap` is one
  step. They are in `Caches` and `ContextSwitch`, which are not composed with it:
  a breakpoint that runs with a stale word is outside of every model.
* A breakpoint in the HBOOT routines the debugger itself calls.
* Faults on unmapped addresses: a command that faults ends in `NULL`.
* Between GDB and the proxy: framing and escaping of packets, and the requests
  about features, threads and one register, which are answered without the
  target. Between the proxy and the target: a reply that is
  late rather than missing; a new proxy starts when the command of the last one
  has been handled. Late replies are in `HostLink`, with `hbootdbg.py`'s way to
  wait, which is the proxy's too.
* In `Base64`, the end of the buffer that is decoded into: text that goes on long
  enough behind a command would be written past it.
* In `Darm`, a fall-through that ends in `I_INVLD`: `NoFallThrough` is about those
  that end in an instruction.
* A step from a place outside `Code` (the `bkpt` of `cmd_breakpoint`), or before
  the registers have ever been read, when `self._r[15]` is 0.
* `mmu_enable`, `mmu_disable`, the accessors of cpsr: single register writes that
  nothing calls.
* `darm/`: operands other than the immediate of a branch, and the printing
  of `darm.c`, none of which `reloc.c` reads. The preloader's read command, which
  no script sends.
* `hboot.py` in the mode of the hboot prompt, with its echo; packing and unpacking
  of fields and the console of `hbootdbg.py`; waiting for the device to appear.
* HBOOT's own `oem` commands, its USB routines and its replies to requests no
  script sends.
* Build files and the tables of devices, which are addresses.

## 7. Where it could go on

Each line of the first plan has been carried out: table, stub, proxy, line,
context switch, caches, algorithms, upload, relocation, and the proofs of
every property that the passing runs check but for liveness. What would add
most from here:

1. `GdbProxy` over `HostLink`, so that a late reply reaches the proxy's handlers.
2. `Caches` under `DebugStub`: `mem` as two views, which would show under which
   order of commands an entry moved by `free_breakpoint` is executed stale.
