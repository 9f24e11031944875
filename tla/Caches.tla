------------------------------- MODULE Caches -------------------------------
(***************************************************************************)
(* The words the debugger and the preloader write into code, as the data   *)
(* side and the instruction side of the processor see them (mmu.c, and the *)
(* places that call it).  Caches fill and empty lines by themselves.       *)
(*                                                                         *)
(*   data[a]   what a load gives: the cached word, or the word of memory   *)
(*   ram[a]    memory                                                      *)
(*   fetched[a] the word in the instruction cache, when its line is there  *)
(*                                                                         *)
(* One routine at a time is under way, one line or one word per step.      *)
(***************************************************************************)
EXTENDS Integers, Sequences

CONSTANTS
  Words,         \* words of memory
  dcache_line,   \* mmu_get_dcache_line_size, in words
  icache_line,   \* mmu_get_icache_line_size
  Slots,         \* where breakpoints keep their two words
  Code,          \* values of a word
  MaxRoutines    \* bound on the routines of a behaviour

ASSUME CachesAssumption ==
  /\ {Words, dcache_line, icache_line, MaxRoutines} \subseteq Nat \ {0}
  /\ Words % dcache_line = 0 /\ Words % icache_line = 0
  /\ \A slot \in Slots : slot \in Nat /\ slot + 1 < Words
  /\ 0 \in Code

WordAt == 0 .. Words - 1
DLine  == 0 .. (Words \div dcache_line) - 1
ILine  == 0 .. (Words \div icache_line) - 1

VARIABLES
  data, ram, fetched,
  dcached,       \* lines in the data cache
  icached,       \* lines in the instruction cache
  writeBack,     \* stores to a cached line stay in the cache
  speculative,   \* the processor fetches lines it does not execute yet
  todo,          \* what the routine under way has still to do
  routines,      \* how many have begun
  unkept         \* history: words whose last store came without maintenance

cacheVars ==
  <<data, ram, fetched, dcached, icached, writeBack, speculative, todo, routines,
    unkept>>

DWords(l) == l * dcache_line .. (l + 1) * dcache_line - 1
IWords(l) == l * icache_line .. (l + 1) * icache_line - 1

(* What a routine does: store a word, maintain a line, or loop over the    *)
(* lines of a range, of which "at" is the next and "end" is addr + size.   *)
Store(a, value)    == [op |-> "store", at |-> a, value |-> value, end |-> 0]
Line(op, l)        == [op |-> op, at |-> l, value |-> 0, end |-> 0]
Loop(op, l, end)   == [op |-> op, at |-> l, value |-> 0, end |-> end]

-----------------------------------------------------------------------------
(***************************************************************************)
(* Plausible slips: a loop over lines that begins above addr, one that     *)
(* takes a line too many, and a routine that leaves the data line out.     *)
(***************************************************************************)
RangeFromNextLine(op, addr, size, line) ==
  <<Loop(op, (addr + line - 1) \div line, (addr + size) % Words)>>
GoesOnAtEnd(w, line) == w.at * line <= w.end
InstructionLineOnly(addr) == <<Line("mmu_invalidate_icache_line", addr \div icache_line)>>

(***************************************************************************)
(* The loops over lines: from the line of addr on, while line < addr+size. *)
(* Both addresses wrap: addr+size is 0 for a range that ends with memory,  *)
(* and the line after the last one is the first.                           *)
(***************************************************************************)
mmu_invalidate_range(op, addr, size, line) ==
  <<Loop(op, addr \div line, (addr + size) % Words)>>

GoesOn(w, line)   == w.at * line < w.end
NextLine(w, line) == [w EXCEPT !.at = (w.at + 1) % (Words \div line)]

mmu_invalidate_cache_range(addr, size) ==
     mmu_invalidate_range("mmu_invalidate_icache_range", addr, size, icache_line)
  \o mmu_invalidate_range("mmu_invalidate_dcache_range", addr, size, dcache_line)

mmu_invalidate_cache_line(addr) ==
  <<Line("mmu_invalidate_icache_line", addr \div icache_line),
    Line("mmu_invalidate_dcache_line", addr \div dcache_line)>>

-----------------------------------------------------------------------------
(***************************************************************************)
(* The hardware.                                                           *)
(***************************************************************************)
LoadLine(l) ==
  /\ l \notin dcached
  /\ dcached' = dcached \cup {l}
  /\ UNCHANGED <<data, ram, fetched, icached, writeBack, speculative, todo, routines, unkept>>

Written(l) == [a \in WordAt |-> IF a \in DWords(l) THEN data[a] ELSE ram[a]]

EvictLine(l) ==
  /\ l \in dcached
  /\ ram' = Written(l)
  /\ dcached' = dcached \ {l}
  /\ UNCHANGED <<data, fetched, icached, writeBack, speculative, todo, routines, unkept>>

(* HBOOT executes between two routines; a processor that speculates may    *)
(* fetch any line at any time.                                             *)
FetchLine(l) ==
  /\ todo = <<>> \/ speculative
  /\ l \notin icached
  /\ icached' = icached \cup {l}
  /\ fetched' = [a \in WordAt |-> IF a \in IWords(l) THEN ram[a] ELSE fetched[a]]
  /\ UNCHANGED <<data, ram, dcached, writeBack, speculative, todo, routines, unkept>>

(***************************************************************************)
(* One step of a routine.                                                  *)
(***************************************************************************)
Now         == Head(todo)
Then        == todo' = Tail(todo)
Again(line) == todo' = [todo EXCEPT ![1] = NextLine(Now, line)]

StoreWord ==
  /\ todo # <<>> /\ Now.op = "store"
  /\ data' = [data EXCEPT ![Now.at] = Now.value]
  /\ ram' = IF writeBack /\ Now.at \div dcache_line \in dcached THEN ram
            ELSE [ram EXCEPT ![Now.at] = Now.value]
  /\ Then
  /\ UNCHANGED <<fetched, dcached, icached, writeBack, speculative, routines, unkept>>

mmu_invalidate_icache_line ==
  /\ todo # <<>> /\ Now.op = "mmu_invalidate_icache_line"
  /\ icached' = icached \ {Now.at}
  /\ Then
  /\ UNCHANGED <<data, ram, fetched, dcached, writeBack, speculative, routines, unkept>>

(* c7, c10, 1 cleans the line: it stays in the cache.                      *)
mmu_invalidate_dcache_line ==
  /\ todo # <<>> /\ Now.op = "mmu_invalidate_dcache_line"
  /\ ram' = Written(Now.at)
  /\ Then
  /\ UNCHANGED <<data, fetched, dcached, icached, writeBack, speculative, routines, unkept>>

mmu_invalidate_icache_range ==
  /\ todo # <<>> /\ Now.op = "mmu_invalidate_icache_range"
  /\ \/ GoesOn(Now, icache_line) /\ icached' = icached \ {Now.at} /\ Again(icache_line)
     \/ ~GoesOn(Now, icache_line) /\ Then /\ UNCHANGED icached
  /\ UNCHANGED <<data, ram, fetched, dcached, writeBack, speculative, routines, unkept>>

mmu_invalidate_dcache_range ==
  /\ todo # <<>> /\ Now.op = "mmu_invalidate_dcache_range"
  /\ \/ GoesOn(Now, dcache_line) /\ ram' = Written(Now.at) /\ Again(dcache_line)
     \/ ~GoesOn(Now, dcache_line) /\ Then /\ UNCHANGED ram
  /\ UNCHANGED <<data, fetched, dcached, icached, writeBack, speculative, routines, unkept>>

(* The preloader's: the whole instruction cache, and no data line.         *)
flush_instruction_cache ==
  /\ todo # <<>> /\ Now.op = "flush_instruction_cache"
  /\ icached' = {}
  /\ Then
  /\ UNCHANGED <<data, ram, fetched, dcached, writeBack, speculative, routines, unkept>>

RoutineStep ==
  \/ StoreWord
  \/ mmu_invalidate_icache_line  \/ mmu_invalidate_dcache_line
  \/ mmu_invalidate_icache_range \/ mmu_invalidate_dcache_range
  \/ flush_instruction_cache

(***************************************************************************)
(* The routines that write code.  "kept" are the words they look after.    *)
(***************************************************************************)
Begin(steps, kept, notKept) ==
  /\ todo = <<>> /\ routines < MaxRoutines
  /\ todo' = steps
  /\ routines' = routines + 1
  /\ unkept' = (unkept \ kept) \cup notKept
  /\ UNCHANGED <<data, ram, fetched, dcached, icached, writeBack, speculative>>

insert_breakpoint(addr, slot, v) ==
  Begin(<<Store(slot, v), Store(slot + 1, v)>>
          \o mmu_invalidate_cache_line(slot) \o mmu_invalidate_cache_line(slot + 1)
          \o <<Store(addr, v)>> \o mmu_invalidate_cache_line(addr),
        {addr, slot, slot + 1}, {})

(* free_breakpoint moves the last entry to the slot.                       *)
remove_breakpoint(addr, slot, v) ==
  Begin(<<Store(addr, v)>> \o mmu_invalidate_cache_line(addr)
          \o <<Store(slot, v), Store(slot + 1, v)>>,
        {addr}, {slot, slot + 1})

INSTALL_EXCEPTION_HANDLER(vector, v) ==
  Begin(<<Store(vector, v)>> \o mmu_invalidate_cache_line(vector), {vector}, {})

Region(addr, size)     == addr .. addr + size - 1
Stores(addr, size, v) == [k \in 1 .. size |-> Store(addr + k - 1, v)]

cmd_write_code(addr, size, v) ==
  LET atEnd == addr + size = Words
  IN Begin(Stores(addr, size, v) \o mmu_invalidate_cache_range(addr, size),
           IF atEnd THEN {} ELSE Region(addr, size), IF atEnd THEN Region(addr, size) ELSE {})

(* The preloader's cmd_write_memory, and its copies of itself.             *)
cmd_write_memory(dest, size, v) ==
  Begin(Stores(dest, size, v) \o <<Line("flush_instruction_cache", 0)>>,
        IF writeBack THEN {} ELSE Region(dest, size),
        IF writeBack THEN Region(dest, size) ELSE {})

CacheInit ==
  /\ data = [a \in WordAt |-> 0] /\ ram = data /\ fetched = data
  /\ dcached = {} /\ icached = {}
  /\ writeBack \in BOOLEAN /\ speculative \in BOOLEAN
  /\ todo = <<>> /\ routines = 0 /\ unkept = {}

CacheNext ==
  \/ \E l \in DLine : LoadLine(l) \/ EvictLine(l)
  \/ \E l \in ILine : FetchLine(l)
  \/ RoutineStep
  \/ \E slot \in Slots, v \in Code : \E addr \in WordAt \ {slot, slot + 1} :
       insert_breakpoint(addr, slot, v) \/ remove_breakpoint(addr, slot, v)
  \/ \E vector \in WordAt, v \in Code : INSTALL_EXCEPTION_HANDLER(vector, v)
  \/ \E addr \in WordAt, v \in Code : \E size \in 1 .. Words - addr :
       cmd_write_code(addr, size, v) \/ cmd_write_memory(addr, size, v)

CacheSpec == CacheInit /\ [][CacheNext]_cacheVars

-----------------------------------------------------------------------------
(***************************************************************************)
(* Properties.                                                             *)
(***************************************************************************)
(* When no routine is under way, memory holds every word the debugger has  *)
(* written and looked after: the loops reach the last line of a range      *)
(* however it is aligned (mmu.c:83-94, 135-139).  Exempt are the words of  *)
(* a slot an entry was moved to (dbg.c:133), ranges that end with memory   *)
(* (mmu.c:89), and, with a write-back cache, what the preloader wrote      *)
(* (preloader.c:102-103).                                                  *)
MemoryCurrent ==
  todo = <<>> => \A a \in WordAt \ unkept : ram[a] = data[a]

(* The same words are what the processor executes, unless it speculates    *)
(* over a write-back cache: the instruction line is invalidated before the *)
(* data line is cleaned (mmu.c:126-130), and what is fetched in between is *)
(* the old word.                                                           *)
CodeCurrent ==
  todo = <<>> /\ ~(writeBack /\ speculative) =>
    \A a \in WordAt \ unkept : a \div icache_line \in icached => fetched[a] = data[a]

(* A loop whose range ends inside the last line of memory.                 *)
EndsInLastLine(w) ==
  \/ w.op = "mmu_invalidate_icache_range" /\ w.end > Words - icache_line
  \/ w.op = "mmu_invalidate_dcache_range" /\ w.end > Words - dcache_line

(* The loops over lines go forward and do not come around the end of       *)
(* memory, so that a command that writes is answered, for every range but  *)
(* one that ends inside the last line: behind that one, line wraps to 0,   *)
(* which is below the end, and the loop never ends (mmu.c:88-90, 115-117). *)
LoopsGoForward ==
  [][/\ todo # <<>> /\ ~EndsInLastLine(Now)
     /\ Now.op \in {"mmu_invalidate_icache_range", "mmu_invalidate_dcache_range"}
     /\ Len(todo') = Len(todo)
     => todo'[1].at >= Now.at]_cacheVars
=============================================================================
