------------------------------ MODULE ArmBranch ------------------------------
(***************************************************************************)
(* The ARM branch instruction as the debugger builds it (cpu.c) and as the *)
(* processor executes it.  Addresses are word addresses: the byte address  *)
(* divided by four, so the shift right by two of cpu_get_branch is already *)
(* taken.  The opcode byte 0xea is left out: a branch is its imm24 field.  *)
(***************************************************************************)
EXTENDS Integers

AddrSpace   == 1073741824       \* 2^30 words, the 32-bit byte address space
OffsetSpace == 16777216         \* 2^24 values of the imm24 field
OffsetSign  == 8388608          \* 2^23, the sign bit of that field

WordAddr    == 0 .. AddrSpace - 1
BranchField == 0 .. OffsetSpace - 1

(***************************************************************************)
(* ((to - from - 8) >> 2) & 0x00ffffff.                                    *)
(***************************************************************************)
cpu_get_branch(from, to) == (to - from - 2) % OffsetSpace

(***************************************************************************)
(* What the processor does with the field: sign extension, and the program *)
(* counter reads as the address of the branch plus two words.              *)
(***************************************************************************)
SignExtend(field) == IF field < OffsetSign THEN field ELSE field - OffsetSpace

BranchTarget(from, field) == (from + 2 + SignExtend(field)) % AddrSpace

(***************************************************************************)
(* The destinations a branch at "from" can reach (+-32 MB).                *)
(***************************************************************************)
Reaches(from, to) == to - from - 2 \in -OffsetSign .. OffsetSign - 1
=============================================================================
