----------------------------- MODULE Relocation -----------------------------
(***************************************************************************)
(* reloc.c: moving one instruction, as a trampoline would need for the     *)
(* instructions that manipulate PC.  The instruction is at "place" (a word *)
(* address); relocate_instruction is asked to make it fit for another.     *)
(***************************************************************************)
EXTENDS Darm

CONSTANTS
  Place,      \* word addresses an instruction may be at
  Sample      \* the words to relocate

ASSUME RelocationAssumption == Place \subseteq WordAddr /\ Sample \subseteq ArmWord

VARIABLES
  opcode,     \* the word
  place,      \* where it is meant to be executed
  origin,     \* history: the word and its place before the relocation
  relocated   \* NotAsked, or what relocate_instruction returned

NotAsked  == 1
relocVars == <<opcode, place, origin, relocated>>

(***************************************************************************)
(* Plausible slip: taking any instruction of the encoding type (SVC).      *)
(***************************************************************************)
EncodableByType(instr) == instr \in {"I_B", "I_BL", "I_SVC"}

-----------------------------------------------------------------------------
(***************************************************************************)
(* darm_armv7_update: only B and BL can be encoded.  The decoded imm       *)
(* counts bytes, and its low 24 bits are stored as they are.               *)
(***************************************************************************)
Encodable(instr) == instr \in {"I_B", "I_BL"}

darm_armv7_update(cond, instr, imm) ==
  LET op == IF instr = "I_B" THEN 10 ELSE 11
  IN [cond |-> cond, body |-> op * 2^24 + (imm % 2^24)]

(***************************************************************************)
(* relocate_instruction: byte addresses are four times word addresses.     *)
(* Nothing calls it; a caller would apply it, once, to any word of HBOOT   *)
(* that is to be executed elsewhere.                                       *)
(***************************************************************************)
Relocatable(w) == LET d == darm_armv7_disasm(w) IN d.ret = 0 /\ Encodable(d.instr)

Relocated(w, src, dst) ==
  LET d == darm_armv7_disasm(w)
  IN darm_armv7_update(w.cond, d.instr, d.imm + 4 * (src - dst))

relocate_instruction(dst) ==
  /\ relocated = NotAsked
  /\ place' = dst
  /\ \/ /\ Relocatable(opcode)
        /\ opcode' = Relocated(opcode, place, dst)
        /\ relocated' = 0
     \/ /\ ~Relocatable(opcode)
        /\ relocated' = -1
        /\ UNCHANGED opcode
  /\ UNCHANGED origin

RelocInit ==
  /\ opcode \in Sample
  /\ place \in Place
  /\ origin = [opcode |-> opcode, place |-> place]
  /\ relocated = NotAsked

RelocNext == \E dst \in Place : relocate_instruction(dst)
RelocSpec == RelocInit /\ [][RelocNext]_relocVars

-----------------------------------------------------------------------------
(***************************************************************************)
(* Properties.  What the architecture says of a word: B and BL have 101 in *)
(* bits 27-25, under any condition but 1111.                               *)
(***************************************************************************)
IsBranch(w)  == w.cond # C_UNCOND /\ Bits(w, 27, 25) = 5
Target(w, a) == BranchTarget(a, Bits(w, 23, 0))

(* A relocation succeeds on the branches and on nothing else, whatever     *)
(* path of the decoder a word takes; it keeps the condition and the link   *)
(* bit, and leaves a word it refuses alone (armv7.c:201-881 read by        *)
(* reloc.c:64-90).                                                         *)
OnlyBranchesMove ==
  relocated # NotAsked =>
    /\ (relocated = 0) <=> IsBranch(origin.opcode)
    /\ relocated = 0 => /\ opcode.cond = origin.opcode.cond
                        /\ Bits(opcode, 27, 24) = Bits(origin.opcode, 27, 24)
    /\ relocated # 0 => opcode = origin.opcode

(* The immediate of a decoded branch is the distance in bytes the          *)
(* processor adds to the program counter, also backwards and around the    *)
(* end of memory (armv7.c:513-529).                                        *)
BranchOffsetDecoded ==
  IsBranch(opcode) =>
    Target(opcode, place) = (place + 2 + darm_armv7_disasm(opcode).imm \div 4) % AddrSpace

(* The switch on the encoding type falls through from T_ARM_MISC to        *)
(* T_ARM_SM to T_ARM_PAS for labels it has no case for: the two tables     *)
(* agree so that no word of the first two types is ever named by the table *)
(* of the parallel additions (armv7.c:640-837, armv7-tbl.c:82-111).        *)
NoFallThrough ==
  LET d == darm_armv7_disasm(opcode)
  IN d.instr_type \in {"T_ARM_MISC", "T_ARM_SM"} =>
       d.instr \notin {type_pas_instr_lookup[i] : i \in DOMAIN type_pas_instr_lookup}

(* What one wants of a relocation: the word does at its new place what it  *)
(* did at the old one, which for a branch is to lead to the same address.  *)
(* darm_armv7_update (reloc.c:49, 54) stores the byte offset where the     *)
(* field counts words.                                                     *)
RelocatedBranchKeepsTarget ==
  relocated = 0 => Target(opcode, place) = Target(origin.opcode, origin.place)
=============================================================================
