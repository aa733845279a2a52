------------------------------- MODULE Dec32 -------------------------------
(***************************************************************************)
(* dec32 (src/dec32.c): the 32-bit instructions.  A switch over a field is *)
(* a table: a sequence of the operations for its values 0, 1, 2, ..., where *)
(* "panic" stands for the default.                                         *)
(***************************************************************************)
EXTENDS Words, Sequences

I_IMM(inst) == Shl(EXPAND_BIT(inst, 31, 52), 12) \cup BITS(inst, 31, 20)

S_IMM(inst) == Shl(EXPAND_BIT(inst, 31, 52), 12) \cup Shl(BITS(inst, 31, 25), 5)
                 \cup BITS(inst, 11, 7)

\* Mutant: bit 7 is taken for the lowest bit of the offset.
B_IMM_low(inst) == Shl(EXPAND_BIT(inst, 31, 52), 12) \cup Shl(BITS(inst, 30, 25), 5)
                     \cup BITS(inst, 11, 7)

B_IMM(inst) == Shl(EXPAND_BIT(inst, 31, 52), 12) \cup Shl(BIT(inst, 7), 11)
                 \cup Shl(BITS(inst, 30, 25), 5) \cup Shl(BITS(inst, 11, 8), 1)

U_IMM(inst) == Shl(EXPAND_BIT(inst, 31, 32), 32) \cup Shl(BITS(inst, 31, 12), 12)

J_IMM(inst) == Shl(EXPAND_BIT(inst, 31, 44), 20) \cup Shl(BITS(inst, 19, 12), 12)
                 \cup Shl(BIT(inst, 20), 11) \cup Shl(BITS(inst, 30, 21), 1)

C_IMM(inst)  == BITS(inst, 19, 15)
M_IMM6(inst) == BITS(inst, 25, 20)
M_IMM5(inst) == BITS(inst, 24, 20)

-----------------------------------------------------------------------------
funct3(inst) == Number(BITS(inst, 14, 12))
funct5(inst) == Number(BITS(inst, 31, 27))
funct7(inst) == Number(BITS(inst, 31, 25))
Second(inst) == Number(BITS(inst, 24, 20))

Pick(table, value) == IF value < Len(table) THEN table[value + 1] ELSE "panic"

Branch  == <<"BEQ", "BNE", "panic", "panic", "BLT", "BGE", "BLTU", "BGEU">>
Load    == <<"LB", "LH", "LW", "LD", "LBU", "LHU", "LWU">>
Store   == <<"SB", "SH", "SW", "SD">>
LoadFp  == <<"panic", "panic", "FLW", "FLD">>
StoreFp == <<"panic", "panic", "FSW", "FSD">>
MulDiv  == <<"MUL", "MULH", "MULHSU", "MULHU", "DIV", "DIVU", "REM", "REMU">>
MulDivW == <<"MULW", "panic", "panic", "panic", "DIVW", "DIVUW", "REMW", "REMUW">>
Misc    == <<"FENCE", "FENCE_I">>
Csr     == <<"panic", "CSRRW", "CSRRS", "CSRRC", "panic", "CSRRWI", "CSRRSI",
             "CSRRCI">>

\* Where bit 30 chooses between two operations.
Imm(inst)  == <<"ADDI", "SLLI", "SLTI", "SLTIU", "XORI",
                IF 30 \in inst THEN "SRAI" ELSE "SRLI", "ORI", "ANDI">>
ImmW(inst) == <<"ADDIW", "SLLIW", "panic", "panic", "panic",
                IF 30 \in inst THEN "SRAIW" ELSE "SRLIW">>
Reg(inst)  == <<IF 30 \in inst THEN "SUB" ELSE "ADD", "SLL", "SLT", "SLTU", "XOR",
                IF 30 \in inst THEN "SRA" ELSE "SRL", "OR", "AND">>
RegW(inst) == <<IF 30 \in inst THEN "SUBW" ELSE "ADDW", "SLLW", "panic", "panic",
                "panic", IF 30 \in inst THEN "SRAW" ELSE "SRLW">>

\* ecall and its relatives: funct7, and then the field of rs2.
System(inst) ==
  CASE funct7(inst) = 0  -> Pick(<<"ECALL", "EBREAK", "URET">>, Second(inst))
    [] funct7(inst) = 8  -> Pick(<<"panic", "panic", "SRET", "panic", "panic",
                                   "WFI">>, Second(inst))
    [] funct7(inst) = 9  -> "SFENCE_VMA"
    [] funct7(inst) = 24 -> "MRET"
    [] OTHER             -> "panic"

\* The double-word and the word form of an atomic operation.
AmoTable(value) ==
  CASE value = 0  -> <<"AMO_ADD_D", "AMO_ADD_W">>
    [] value = 1  -> <<"AMO_SWAP_D", "AMO_SWAP_W">>
    [] value = 2  -> <<"LR_D", "LR_W">>
    [] value = 3  -> <<"SC_D", "SC_W">>
    [] value = 4  -> <<"AMO_XOR_D", "AMO_XOR_W">>
    [] value = 8  -> <<"AMO_OR_D", "AMO_OR_W">>
    [] value = 12 -> <<"AMO_AND_D", "AMO_AND_W">>
    [] value = 16 -> <<"AMO_MIN_D", "AMO_MIN_W">>
    [] value = 20 -> <<"AMO_MAX_D", "AMO_MAX_W">>
    [] value = 24 -> <<"AMO_MINU_D", "AMO_MINU_W">>
    [] value = 28 -> <<"AMO_MAXU_D", "AMO_MAXU_W">>
    [] OTHER      -> <<"panic", "panic">>

Amo(inst) == AmoTable(funct5(inst))[IF funct3(inst) = 3 THEN 1 ELSE 2]

-----------------------------------------------------------------------------
(* What an instruction of each opcode decodes to: the operation, its rd,   *)
(* its immediate and the number of a csr.                                  *)

opcode(inst) == Number(BITS(inst, 6, 0))

\* The operands that are fields of every instruction; some opcodes have no rd.
Fields(op, inst, imm) == Decoded(op, Number(BITS(inst, 11, 7)),
                                 Number(BITS(inst, 19, 15)), Second(inst), imm)

\* Mutant: the rd of a store is not cleared.
NoRd_kept(d) == d

NoRd(d) == [d EXCEPT !.rd = 0]

Shift(inst)      == funct3(inst) \in {1, 5}
Immediate(inst)  == Fields(Pick(Imm(inst), funct3(inst)), inst,
                           IF Shift(inst) THEN M_IMM6(inst) ELSE I_IMM(inst))
ImmediateW(inst) == Fields(Pick(ImmW(inst), funct3(inst)), inst,
                           IF Shift(inst) THEN M_IMM5(inst) ELSE I_IMM(inst))

Register(inst)  == Fields(Pick(IF funct7(inst) = 1 THEN MulDiv ELSE Reg(inst),
                               funct3(inst)), inst, {})
RegisterW(inst) == Fields(Pick(IF funct7(inst) = 1 THEN MulDivW ELSE RegW(inst),
                               funct3(inst)), inst, {})

Privileged(inst) ==
  [Fields(IF funct3(inst) = 0 THEN System(inst) ELSE Pick(Csr, funct3(inst)), inst,
          IF funct3(inst) \in 5..7 THEN C_IMM(inst) ELSE {})
     EXCEPT !.csr_addr = BITS(inst, 31, 20)]

dec32(inst) ==
  CASE opcode(inst) = \h37 -> Fields("LUI", inst, U_IMM(inst))
    [] opcode(inst) = \h17 -> Fields("AUIPC", inst, U_IMM(inst))
    [] opcode(inst) = \h6F -> Fields("JAL", inst, J_IMM(inst))
    [] opcode(inst) = \h67 -> Fields("JALR", inst, I_IMM(inst))
    [] opcode(inst) = \h63 -> NoRd(Fields(Pick(Branch, funct3(inst)), inst, B_IMM(inst)))
    [] opcode(inst) = \h03 -> Fields(Pick(Load, funct3(inst)), inst, I_IMM(inst))
    [] opcode(inst) = \h23 -> NoRd(Fields(Pick(Store, funct3(inst)), inst, S_IMM(inst)))
    [] opcode(inst) = \h07 -> Fields(Pick(LoadFp, funct3(inst)), inst, I_IMM(inst))
    [] opcode(inst) = \h27 -> NoRd(Fields(Pick(StoreFp, funct3(inst)), inst, S_IMM(inst)))
    [] opcode(inst) = \h13 -> Immediate(inst)
    [] opcode(inst) = \h1B -> ImmediateW(inst)
    [] opcode(inst) = \h33 -> Register(inst)
    [] opcode(inst) = \h3B -> RegisterW(inst)
    [] opcode(inst) = \h0F -> Fields(Pick(Misc, funct3(inst)), inst, {})
    [] opcode(inst) = \h73 -> Privileged(inst)
    [] opcode(inst) = \h2F -> Fields(Amo(inst), inst, {})
    [] opcode(inst) = \h53 -> Fields(IF funct7(inst) = \h78 THEN "FMV_W_X" ELSE "panic",
                                     inst, {})
    [] OTHER               -> Bad
=============================================================================
