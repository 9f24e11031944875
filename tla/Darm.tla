-------------------------------- MODULE Darm --------------------------------
(***************************************************************************)
(* The ARMv7 decoder the debugger carries (darm/armv7.c), up to the        *)
(* label of the instruction, its encoding type, and the immediate of a     *)
(* branch: what reloc.c reads of a decoded word.  Other operands are left  *)
(* out, but for the bits that decide between labels.                       *)
(*                                                                         *)
(* The code is a cascade of tests, each of which may return.  Here it is a *)
(* list of cases in the same order, of which the first that applies counts.*)
(***************************************************************************)
EXTENDS ArmBranch, Sequences

(* A word: the condition, and the 28 bits below it.                        *)
ArmWord == [cond : 0 .. 15, body : 0 .. 2^28 - 1]

C_UNCOND == 15
SP       == 13
PC       == 15

Bits(w, high, low) == (w.body \div 2^low) % 2^(high - low + 1)
Bit(w, n)          == Bits(w, n, n)

Rn(w) == Bits(w, 19, 16)

Case(when, gives) == [when |-> when, gives |-> gives]
FirstOf(cases) ==
  LET n == CHOOSE i \in DOMAIN cases :
             cases[i].when /\ \A j \in 1 .. i - 1 : ~cases[j].when
  IN cases[n].gives

-----------------------------------------------------------------------------
(***************************************************************************)
(* Plausible slips: the offset of a branch not sign-extended, and a case   *)
(* missing in the switch on T_ARM_MISC.                                    *)
(***************************************************************************)
BranchImmUnsigned(w)  == 4 * Bits(w, 23, 0)
MiscCasesWithoutMvn   == {"I_DBG", "I_SMC", "I_SEL"}

-----------------------------------------------------------------------------
(***************************************************************************)
(* What a decoding returns; imm is signed.                                 *)
(***************************************************************************)
Label(instr, type) == [ret |-> 0, instr |-> instr, instr_type |-> type, imm |-> 0]
Invalid            == [Label("I_INVLD", "T_INVLD") EXCEPT !.ret = -1]
Found(instr, type) == IF instr = "I_INVLD" THEN Invalid ELSE Label(instr, type)

BranchImm(w) == 4 * SignExtend(Bits(w, 23, 0))

-----------------------------------------------------------------------------
(***************************************************************************)
(* Tables of armv7-tbl.c.  C counts from 0.                                *)
(***************************************************************************)
Times(n, name) == [i \in 1 .. n |-> name]
Twice(names)   == [i \in 1 .. 2 * Len(names) |-> names[(i + 1) \div 2]]
Invalids(n)    == Times(n, "I_INVLD")

DataProcessing == <<"I_AND", "I_EOR", "I_SUB", "I_RSB", "I_ADD", "I_ADC", "I_SBC", "I_RSC">>
BlockTransfer(stm, ldm, ldm2) == <<stm, ldm, stm, ldm2>> \o Invalids(4)

armv7_instr_labels ==
     Twice(DataProcessing)
  \o <<"I_SMLA", "I_TST", "I_SMULW", "I_TEQ", "I_SMLAL", "I_CMP", "I_SMC", "I_CMN">>
  \o <<"I_ORR", "I_ORR", "I_STREXD", "I_RRX", "I_BIC", "I_BIC", "I_MVN", "I_MVN">>
  \o Twice(DataProcessing)
  \o <<"I_MOVW", "I_TST", "I_YIELD", "I_TEQ", "I_MOVT", "I_CMP", "I_INVLD", "I_CMN">>
  \o Twice(<<"I_ORR", "I_MOV", "I_BIC", "I_MVN">>) \o Invalids(33)
  \o <<"I_SSUB8", "I_QSUB8", "I_SHSUB8", "I_INVLD", "I_USUB8", "I_UQSUB8", "I_UHSUB8">>
  \o <<"I_SEL", "I_INVLD", "I_INVLD", "I_REV16">> \o Invalids(3)
  \o <<"I_REVSH", "I_SMUSD">> \o Invalids(3) \o <<"I_SMLSLD", "I_SMMUL">> \o Invalids(4)
  \o <<"I_SBFX", "I_SBFX", "I_BFI", "I_BFI", "I_UBFX", "I_UDF">>
  \o BlockTransfer("I_STMDA", "I_LDMDA", "I_LDMDA")
  \o BlockTransfer("I_STM", "I_LDM", "I_POP")
  \o BlockTransfer("I_STMDB", "I_LDMDB", "I_LDMDB")
  \o BlockTransfer("I_STMIB", "I_LDMIB", "I_LDMIB")
  \o Times(16, "I_B") \o Times(16, "I_BL") \o Invalids(32)
  \o [i \in 1 .. 16 |-> IF i % 2 = 1 THEN "I_MCR" ELSE "I_MRC"]
  \o Times(16, "I_SVC")

(* Encoding types by ranges of the eight bits, T_INVLD elsewhere.          *)
TypeRanges ==
  {<<0, 15, "T_ARM_ARITH_SHIFT">>, <<16, 16, "T_ARM_SM">>, <<17, 17, "T_ARM_CMP_OP">>,
   <<18, 18, "T_ARM_BRNCHMISC">>, <<19, 19, "T_ARM_CMP_OP">>, <<20, 20, "T_ARM_SM">>,
   <<21, 21, "T_ARM_CMP_OP">>, <<22, 22, "T_ARM_MISC">>, <<23, 23, "T_ARM_CMP_OP">>,
   <<24, 25, "T_ARM_ARITH_SHIFT">>, <<26, 27, "T_ARM_DST_SRC">>,
   <<28, 29, "T_ARM_ARITH_SHIFT">>, <<30, 31, "T_ARM_MISC">>, <<32, 47, "T_ARM_ARITH_IMM">>,
   <<48, 48, "T_ARM_MOV_IMM">>, <<49, 49, "T_ARM_CMP_IMM">>, <<50, 50, "T_ARM_OPLESS">>,
   <<51, 51, "T_ARM_CMP_IMM">>, <<52, 52, "T_ARM_MOV_IMM">>, <<53, 53, "T_ARM_CMP_IMM">>,
   <<55, 55, "T_ARM_CMP_IMM">>, <<56, 57, "T_ARM_ARITH_IMM">>, <<58, 59, "T_ARM_MOV_IMM">>,
   <<60, 61, "T_ARM_ARITH_IMM">>, <<62, 63, "T_ARM_MOV_IMM">>, <<97, 99, "T_ARM_PAS">>,
   <<101, 103, "T_ARM_PAS">>, <<104, 104, "T_ARM_MISC">>, <<107, 107, "T_ARM_BITREV">>,
   <<111, 111, "T_ARM_BITREV">>, <<112, 112, "T_ARM_SM">>, <<116, 117, "T_ARM_SM">>,
   <<122, 126, "T_ARM_BITS">>, <<127, 127, "T_ARM_UDF">>, <<128, 131, "T_ARM_LDSTREGS">>,
   <<136, 139, "T_ARM_LDSTREGS">>, <<144, 147, "T_ARM_LDSTREGS">>,
   <<152, 155, "T_ARM_LDSTREGS">>, <<160, 191, "T_ARM_BRNCHSC">>,
   <<224, 239, "T_ARM_MVCR">>, <<240, 255, "T_ARM_BRNCHSC">>}

armv7_instr_types ==
  [op \in 0 .. 255 |->
     IF \E r \in TypeRanges : op \in r[1] .. r[2]
     THEN (CHOOSE r \in TypeRanges : op \in r[1] .. r[2])[3] ELSE "T_INVLD"]

type_shift_instr_lookup ==
  Twice(<<"I_LSL", "I_LSR", "I_ASR", "I_ROR">>) \o
  <<"I_LSL", "I_INVLD", "I_LSR", "I_INVLD", "I_ASR", "I_INVLD", "I_ROR", "I_INVLD">>
type_brnchmisc_instr_lookup ==
  <<"I_MSR", "I_BX", "I_BXJ", "I_BLX", "I_INVLD", "I_QSUB", "I_INVLD", "I_BKPT">> \o
  <<"I_SMLAW", "I_INVLD", "I_SMULW", "I_INVLD", "I_SMLAW", "I_INVLD", "I_SMULW", "I_INVLD">>
type_opless_instr_lookup == <<"I_NOP", "I_YIELD", "I_WFE", "I_WFI", "I_SEV">> \o Invalids(3)
type_uncond2_instr_lookup ==
  <<"I_INVLD", "I_CLREX", "I_INVLD", "I_INVLD", "I_DSB", "I_DMB", "I_ISB", "I_INVLD">>
type_mul_instr_lookup ==
  <<"I_MUL", "I_MLA", "I_UMAAL", "I_MLS", "I_UMULL", "I_UMLAL", "I_SMULL", "I_SMLAL">>
type_stack0_instr_lookup ==
  LET post == <<"I_STR", "I_LDR", "I_STRT", "I_LDRT", "I_STRB", "I_LDRB", "I_STRBT", "I_LDRBT">>
      pre  == <<"I_STR", "I_LDR", "I_STR", "I_LDR", "I_STRB", "I_LDRB", "I_STRB", "I_LDRB">>
  IN post \o post \o pre \o pre
type_stack1_instr_lookup ==
  <<"I_INVLD", "I_INVLD", "I_STRHT", "I_LDRHT", "I_INVLD", "I_LDRSBT", "I_INVLD", "I_LDRSHT">>
type_stack2_instr_lookup ==
  <<"I_INVLD", "I_INVLD", "I_STRH", "I_LDRH", "I_LDRD", "I_LDRSB", "I_STRD", "I_LDRSH">>
type_bits_instr_lookup == <<"I_INVLD", "I_SBFX", "I_BFI", "I_UBFX">>
type_sat_instr_lookup  == <<"I_QADD", "I_QSUB", "I_QDADD", "I_QDSUB">>
type_sync_instr_lookup ==
  <<"I_SWP">> \o Invalids(3) \o <<"I_SWPB">> \o Invalids(3) \o
  <<"I_STREX", "I_LDREX", "I_STREXD", "I_LDREXD", "I_STREXB", "I_LDREXB", "I_STREXH", "I_LDREXH">>
type_pusr_instr_lookup ==
  <<"I_SXTAB16", "I_SXTB16", "I_INVLD", "I_INVLD", "I_SXTAB", "I_SXTB", "I_SXTAH", "I_SXTH">> \o
  <<"I_UXTAB16", "I_UXTB16", "I_INVLD", "I_INVLD", "I_UXTAB", "I_UXTB", "I_UXTAH", "I_UXTH">>

Parallel(add16, asx, sax, sub16, add8, sub8) ==
  <<add16, asx, sax, sub16, add8, "I_INVLD", "I_INVLD", sub8>>
type_pas_instr_lookup ==
  Invalids(8)
  \o Parallel("I_SADD16", "I_SASX", "I_SSAX", "I_SSUB16", "I_SADD8", "I_SSUB8")
  \o Parallel("I_QADD16", "I_QASX", "I_QSAX", "I_QSUB16", "I_QADD8", "I_QSUB8")
  \o Parallel("I_SHADD16", "I_SHASX", "I_SHSAX", "I_SHSUB16", "I_SHADD8", "I_SHSUB8")
  \o Invalids(8)
  \o Parallel("I_UADD16", "I_UASX", "I_USAX", "I_USUB16", "I_UADD8", "I_USUB8")
  \o Parallel("I_UQADD16", "I_UQASX", "I_UQSAX", "I_UQSUB16", "I_UQADD8", "I_UQSUB8")
  \o Parallel("I_UHADD16", "I_UHASX", "I_UHSAX", "I_UHSUB16", "I_UHADD8", "I_UHSUB8")

-----------------------------------------------------------------------------
(***************************************************************************)
(* The unconditional instructions.                                         *)
(***************************************************************************)
Preload(w) ==
  Label(IF Bit(w, 24) = 0 THEN "I_PLI" ELSE IF Bit(w, 22) = 0 THEN "I_PLDW" ELSE "I_PLD",
        "T_ARM_UNCOND")

armv7_disas_uncond(w) ==
  LET space   == Bits(w, 27, 25)
      barrier == type_uncond2_instr_lookup[Bits(w, 6, 4) + 1]
      coproc  == IF Bit(w, 4) = 0 THEN "I_CDP2" ELSE IF Bit(w, 20) = 1 THEN "I_MRC2" ELSE "I_MCR2"
  IN FirstOf(<<
       Case(space = 0, Label("I_SETEND", "T_ARM_UNCOND")),
       Case(space = 2 /\ Bit(w, 21) = 1 /\ barrier # "I_INVLD", Label(barrier, "T_ARM_UNCOND")),
       Case(space \in {2, 3}, Preload(w)),
       Case(space = 5, [Label("I_BLX", "T_ARM_UNCOND") EXCEPT
                          !.imm = BranchImm(w) + 2 * Bit(w, 24)]),
       Case(space = 7, Label(coproc, "T_ARM_UNCOND")),
       Case(TRUE, Invalid)>>)

-----------------------------------------------------------------------------
(***************************************************************************)
(* Conditional instructions: those that do not fit the table ...           *)
(***************************************************************************)
(* Multiplications, and loads and stores of odd sizes: bits 27-25 are 0,   *)
(* bits 7 and 4 are 1.                                                     *)
Extra(w)     == Bits(w, 27, 25) = 0 /\ Bit(w, 7) = 1 /\ Bit(w, 4) = 1
HalfIndex(w) == 2 * Bits(w, 6, 5) + Bit(w, 20) + 1

Multiply(w) ==
  LET instr == type_mul_instr_lookup[Bits(w, 23, 21) + 1]
  IN IF instr \in {"I_UMAAL", "I_MLS"} /\ Bit(w, 20) = 1 THEN Invalid
     ELSE Label(instr, "T_ARM_MUL")

LoadStore(w) ==
  LET instr == type_stack0_instr_lookup[Bits(w, 24, 20) + 1]
      puw   == <<Bit(w, 24), Bit(w, 23), Bit(w, 21)>>
      four  == Bit(w, 25) = 0 /\ Bits(w, 11, 0) = 4 /\ Rn(w) = SP
  IN FirstOf(<<
       Case(instr = "I_STR" /\ puw = <<1, 0, 1>> /\ four, Label("I_PUSH", "T_ARM_STACK0")),
       Case(instr = "I_LDR" /\ puw = <<0, 1, 0>> /\ four, Label("I_POP", "T_ARM_STACK0")),
       Case(TRUE, Label(instr, "T_ARM_STACK0"))>>)

Extend(w) ==
  type_pusr_instr_lookup[2 * Bits(w, 22, 20) + (IF Rn(w) = 15 THEN 1 ELSE 0) + 1]

(***************************************************************************)
(* ... and those the table gives a type, which gives the label.            *)
(***************************************************************************)
Shift(w) ==
  LET instr == type_shift_instr_lookup[Bits(w, 7, 4) + 1]
      zero  == Bit(w, 4) = 0 /\ Bits(w, 11, 7) = 0
      move  == instr = "I_LSL" /\ zero
  IN FirstOf(<<
       Case(move /\ Bits(w, 15, 12) = 0 /\ Bits(w, 3, 0) = 0, "I_NOP"),
       Case(move, "I_MOV"),
       Case(instr = "I_ROR" /\ zero, "I_RRX"),
       Case(TRUE, instr)>>)

BranchMisc(w) ==
  LET instr == type_brnchmisc_instr_lookup[Bits(w, 7, 4) + 1]
  IN IF instr \in {"I_BKPT", "I_BX", "I_BXJ", "I_BLX", "I_MSR"} THEN instr ELSE "I_INVLD"

BitField(w) ==
  LET instr == type_bits_instr_lookup[Bits(w, 22, 21) + 1]
  IN IF instr = "I_BFI" /\ Bits(w, 3, 0) = 15 THEN "I_BFC" ELSE instr

(* Labels the table gives for several instructions of one type.            *)
Refined(instr, w) ==
  LET onStack == Bit(w, 21) = 1 /\ Rn(w) = SP
      reverse == Bits(w, 7, 4) = 3
  IN FirstOf(<<
       Case(instr = "I_LDM" /\ onStack, "I_POP"),
       Case(instr = "I_STMDB" /\ onStack, "I_PUSH"),
       Case(instr = "I_REV16" /\ reverse, "I_REV"),
       Case(instr = "I_REVSH" /\ reverse, "I_RBIT"),
       Case(TRUE, instr)>>)

Misc(instr, w) ==
  LET nibble == Bits(w, 7, 4)
  IN FirstOf(<<
       Case(instr \in {"I_MVN", "I_DBG"}, Label(instr, "T_ARM_MISC")),
       Case(instr = "I_SMC" /\ nibble \in {8, 10, 12, 14}, Label("I_SMUL", "T_ARM_SM")),
       Case(instr = "I_SMC" /\ nibble = 7, Label("I_SMC", "T_ARM_MISC")),
       Case(instr = "I_SMC" /\ nibble = 1, Label("I_CLZ", "T_ARM_MISC")),
       Case(instr = "I_SMC", Invalid),
       Case(instr = "I_SEL", Label(IF Bit(w, 5) = 0 THEN "I_PKH" ELSE "I_SEL", "T_ARM_MISC")),
       Case(TRUE, Invalid)>>)

(* SMUSD: the low register (Rn) is tested, where Ra is meant.              *)
SignedMultiply(instr, w) ==
  LET Ra   == Bits(w, 15, 12)
      bit6 == Bit(w, 6)
  IN FirstOf(<<
       Case(instr = "I_SMMUL" /\ bit6 = 1, "I_SMMLS"),
       Case(instr = "I_SMMUL" /\ Ra # 15, "I_SMMLA"),
       Case(instr = "I_SMUSD" /\ bit6 = 1 /\ Bits(w, 3, 0) # 15, "I_SMLSD"),
       Case(instr = "I_SMUSD" /\ bit6 = 0, IF Ra = 15 THEN "I_SMUAD" ELSE "I_SMLAD"),
       Case(instr = "I_SMLSLD" /\ bit6 = 0, "I_SMLALD"),
       Case(TRUE, instr)>>)

ParallelArith(w, type) ==
  Found(type_pas_instr_lookup[8 * Bits(w, 22, 20) + Bits(w, 7, 5) + 1], type)

(* The labels for which the switch on a type has a case; with any other    *)
(* label, control falls through to the next type.                          *)
MiscCases   == {"I_MVN", "I_DBG", "I_SMC", "I_SEL"}
SignedCases == {"I_SMMUL", "I_SMUSD", "I_SMLSLD", "I_SMLA", "I_SMLAL"}

ByType(w) ==
  LET op    == Bits(w, 27, 20)
      instr == armv7_instr_labels[op + 1]
      type  == armv7_instr_types[op]
      immediate == [Label(instr, type) EXCEPT
                      !.imm = IF instr = "I_SVC" THEN Bits(w, 23, 0) ELSE BranchImm(w)]
      address == instr \in {"I_ADD", "I_SUB"} /\ Bit(w, 20) = 0 /\ Rn(w) = PC
      coproc  == IF Bit(w, 4) = 0 THEN "I_CDP" ELSE instr
  IN FirstOf(<<
       Case(type \in {"T_ARM_ARITH_SHIFT", "T_ARM_MOV_IMM", "T_ARM_CMP_OP", "T_ARM_CMP_IMM",
                      "T_ARM_UDF"}, Label(instr, type)),
       Case(type = "T_ARM_ARITH_IMM", Label(IF address THEN "I_ADR" ELSE instr, type)),
       Case(type = "T_ARM_BITS", Label(BitField(w), type)),
       Case(type = "T_ARM_BRNCHSC", immediate),
       Case(type = "T_ARM_BRNCHMISC", Found(BranchMisc(w), type)),
       Case(type = "T_ARM_OPLESS", Found(type_opless_instr_lookup[Bits(w, 2, 0) + 1], type)),
       Case(type = "T_ARM_DST_SRC", Found(Shift(w), type)),
       Case(type \in {"T_ARM_LDSTREGS", "T_ARM_BITREV"}, Label(Refined(instr, w), type)),
       Case(type = "T_ARM_MISC" /\ instr \in MiscCases, Misc(instr, w)),
       Case(type \in {"T_ARM_MISC", "T_ARM_SM"} /\ instr \in SignedCases,
            Label(SignedMultiply(instr, w), type)),
       Case(type \in {"T_ARM_MISC", "T_ARM_SM", "T_ARM_PAS"}, ParallelArith(w, type)),
       Case(type = "T_ARM_MVCR", Label(coproc, type)),
       Case(TRUE, Invalid)>>)

(***************************************************************************)
(* armv7_disas_cond: the cascade.                                          *)
(***************************************************************************)
armv7_disas_cond(w) ==
  LET half  == Extra(w) /\ Bits(w, 6, 5) # 0
      sync  == type_sync_instr_lookup[Bits(w, 23, 20) + 1]
      media == Bits(w, 27, 23) = 13 /\ Bit(w, 4) = 1
      op1   == Bits(w, 22, 20)
      op2   == Bits(w, 7, 5)
  IN FirstOf(<<
       Case(Extra(w) /\ Bit(w, 24) = 0 /\ Bits(w, 6, 5) = 0, Multiply(w)),
       Case(half /\ Bit(w, 24) = 0 /\ Bit(w, 21) = 1,
            Found(type_stack1_instr_lookup[HalfIndex(w)], "T_ARM_STACK1")),
       Case(half, Found(type_stack2_instr_lookup[HalfIndex(w)], "T_ARM_STACK2")),
       Case(Extra(w) /\ Bit(w, 24) = 1 /\ sync # "I_INVLD", Label(sync, "T_ARM_SYNC")),
       Case(Bits(w, 27, 26) = 1 /\ ~(Bit(w, 25) = 1 /\ Bit(w, 4) = 1), LoadStore(w)),
       Case(Bits(w, 27, 23) = 2 /\ Bit(w, 20) = 0 /\ Bits(w, 7, 4) = 5,
            Label(type_sat_instr_lookup[Bits(w, 22, 21) + 1], "T_ARM_SAT")),
       Case(media /\ op2 = 3 /\ Extend(w) # "I_INVLD", Label(Extend(w), "T_ARM_PUSR")),
       Case(media /\ op1 \in {2, 3, 6, 7} /\ op2 % 2 = 0,
            Label(IF op1 >= 4 THEN "I_USAT" ELSE "I_SSAT", "T_ARM_PUSR")),
       Case(media /\ op1 \in {2, 6} /\ op2 = 1,
            Label(IF op1 = 2 THEN "I_SSAT16" ELSE "I_USAT16", "T_ARM_PUSR")),
       Case(TRUE, ByType(w))>>)

darm_armv7_disasm(w) ==
  IF w.cond = C_UNCOND THEN armv7_disas_uncond(w) ELSE armv7_disas_cond(w)
=============================================================================
