------------------------------ MODULE MemMove ------------------------------
(***************************************************************************)
(* The debugger's own memory routines (hbootlib.c): memmove, memcpy (which *)
(* is memmove), memset and strlen.  One step is one turn of a loop.  A     *)
(* call is to bytes that do not run around the end of memory.              *)
(***************************************************************************)
EXTENDS Integers

CONSTANTS
  Size,       \* bytes of memory
  Byte,       \* values of a byte
  Zero        \* the one that ends a string

ASSUME MemAssumption == Size \in Nat \ {0} /\ Zero \in Byte

Cell == 0 .. Size - 1

VARIABLES
  bytes,      \* memory
  call,       \* the routine and its arguments
  i,          \* its loop counter
  returned,   \* has it returned?
  before      \* history: memory when the routine was called

memVars == <<bytes, call, i, returned, before>>

NoCall == [fn |-> "none", dest |-> 0, src |-> 0, n |-> 0, c |-> Zero]

(***************************************************************************)
(* Plausible slips: copying upwards whatever the overlap, and a set that   *)
(* stops one byte short.                                                   *)
(***************************************************************************)
AlwaysUp(dest, src) == TRUE
SettingShort        == call.fn = "memset" /\ i > 1

-----------------------------------------------------------------------------
(***************************************************************************)
(* The tests of the loops.  memmove copies upwards to a lower address,     *)
(* downwards to a higher one, and does nothing when the two are equal;     *)
(* memset goes downwards; strlen looks for the zero.                       *)
(***************************************************************************)
Upwards(dest, src) == dest < src

CopyingUp   == call.fn = "memmove" /\ Upwards(call.dest, call.src) /\ i < call.n
CopyingDown == /\ call.fn = "memmove"
               /\ ~Upwards(call.dest, call.src) /\ call.dest # call.src
               /\ i > 0
Setting     == call.fn = "memset" /\ i > 0
Counting    == call.fn = "strlen" /\ bytes[call.src + i] # Zero

CopyUp ==
  /\ CopyingUp
  /\ bytes' = [bytes EXCEPT ![call.dest + i] = bytes[call.src + i]]
  /\ i' = i + 1
  /\ UNCHANGED <<call, returned, before>>

CopyDown ==
  /\ CopyingDown
  /\ bytes' = [bytes EXCEPT ![call.dest + i - 1] = bytes[call.src + i - 1]]
  /\ i' = i - 1
  /\ UNCHANGED <<call, returned, before>>

SetDown ==
  /\ Setting
  /\ bytes' = [bytes EXCEPT ![call.dest + i - 1] = call.c]
  /\ i' = i - 1
  /\ UNCHANGED <<call, returned, before>>

CountUp ==
  /\ Counting
  /\ i' = i + 1
  /\ UNCHANGED <<bytes, call, returned, before>>

ReturnFromCall ==
  /\ call.fn # "none" /\ ~returned
  /\ ~(CopyingUp \/ CopyingDown \/ Setting \/ Counting)
  /\ returned' = TRUE
  /\ UNCHANGED <<bytes, call, i, before>>

(***************************************************************************)
(* The calls: any that stay in memory, strlen of strings that end in it.   *)
(***************************************************************************)
Call(fn, dest, src, n, c, first) ==
  /\ call.fn = "none"
  /\ call' = [fn |-> fn, dest |-> dest, src |-> src, n |-> n, c |-> c]
  /\ i' = first
  /\ before' = bytes
  /\ UNCHANGED <<bytes, returned>>

Fits(a, n) == a + n <= Size

memmove(dest, src, n) ==
  /\ Fits(dest, n) /\ Fits(src, n)
  /\ Call("memmove", dest, src, n, Zero, IF Upwards(dest, src) THEN 0 ELSE n)
memset(s, c, n) == Fits(s, n) /\ Call("memset", s, s, n, c, n)
strlen(s) ==
  /\ \E z \in Cell : z >= s /\ bytes[z] = Zero
  /\ Call("strlen", s, s, 0, Zero, 0)

MemInit ==
  /\ bytes \in [Cell -> Byte]
  /\ call = NoCall
  /\ i = 0
  /\ returned = FALSE
  /\ before = bytes

MemNext ==
  \/ \E dest, src \in Cell, n \in 0 .. Size : memmove(dest, src, n)
  \/ \E s \in Cell, c \in Byte, n \in 0 .. Size : memset(s, c, n)
  \/ \E s \in Cell : strlen(s)
  \/ CopyUp \/ CopyDown \/ SetDown \/ CountUp \/ ReturnFromCall

MemSpec == MemInit /\ [][MemNext]_memVars

-----------------------------------------------------------------------------
(***************************************************************************)
(* Properties.                                                             *)
(***************************************************************************)
Span(a, n) == a .. a + n - 1

(* What memory is after n bytes from src have been copied to dest at once. *)
Copied(memory, dest, src, n) ==
  [a \in Cell |-> IF a \in Span(dest, n) THEN memory[src + (a - dest)] ELSE memory[a]]

(* However the two ranges overlap, a copy leaves at dest the bytes src had *)
(* before it began, and every other byte alone (hbootlib.c:63-84, behind   *)
(* cmd_write).                                                      *)
CopyIsExact ==
  returned /\ call.fn = "memmove" => bytes = Copied(before, call.dest, call.src, call.n)

(* memset writes its range and nothing else; strlen returns the distance   *)
(* to the first zero and has not read beyond it (hbootlib.c:86-102).       *)
SetAndLengthExact ==
  returned =>
    /\ call.fn = "memset" =>
         bytes = [a \in Cell |-> IF a \in Span(call.dest, call.n) THEN call.c ELSE before[a]]
    /\ call.fn = "strlen" =>
         /\ bytes = before
         /\ bytes[call.src + i] = Zero
         /\ \A k \in 0 .. i - 1 : bytes[call.src + k] # Zero
=============================================================================
