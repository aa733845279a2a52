------------------------------- MODULE Dec16 -------------------------------
(***************************************************************************)
(* dec16 (src/dec16.c): the compressed instructions.                       *)
(***************************************************************************)
EXTENDS Words

N_IMM(inst) == Shl(BITS(inst, 10, 7), 6) \cup Shl(BITS(inst, 12, 11), 4)
                 \cup Shl(BIT(inst, 5), 3) \cup Shl(BIT(inst, 6), 2)

U_IMM(inst) == Shl(BIT(inst, 5), 6) \cup Shl(BITS(inst, 12, 10), 3)
                 \cup Shl(BIT(inst, 6), 2)

U_IMM_D(inst) == Shl(BITS(inst, 6, 5), 6) \cup Shl(BITS(inst, 12, 10), 3)

I_IMM(inst) == Shl(EXPAND_BIT(inst, 12, 59), 5) \cup BITS(inst, 6, 2)

D_IMM(inst) == Shl(EXPAND_BIT(inst, 12, 55), 9) \cup Shl(BITS(inst, 4, 3), 7)
                 \cup Shl(BIT(inst, 5), 6) \cup Shl(BIT(inst, 2), 5)
                 \cup Shl(BIT(inst, 6), 4)

UI_IMM(inst) == Shl(BIT(inst, 12), 5) \cup BITS(inst, 6, 2)

\* Mutant: bits 6 and 7 in their natural order.
J_IMM_swapped(inst) ==
  Shl(EXPAND_BIT(inst, 12, 53), 11) \cup Shl(BIT(inst, 8), 10)
    \cup Shl(BITS(inst, 10, 9), 8) \cup Shl(BIT(inst, 7), 7)
    \cup Shl(BIT(inst, 6), 6) \cup Shl(BIT(inst, 2), 5)
    \cup Shl(BIT(inst, 11), 4) \cup Shl(BITS(inst, 5, 3), 1)

J_IMM(inst) ==
  Shl(EXPAND_BIT(inst, 12, 53), 11) \cup Shl(BIT(inst, 8), 10)
    \cup Shl(BITS(inst, 10, 9), 8) \cup Shl(BIT(inst, 6), 7)
    \cup Shl(BIT(inst, 7), 6) \cup Shl(BIT(inst, 2), 5)
    \cup Shl(BIT(inst, 11), 4) \cup Shl(BITS(inst, 5, 3), 1)

B_IMM(inst) == Shl(EXPAND_BIT(inst, 12, 56), 8) \cup Shl(BITS(inst, 6, 5), 6)
                 \cup Shl(BIT(inst, 2), 5) \cup Shl(BITS(inst, 11, 10), 3)
                 \cup Shl(BITS(inst, 4, 3), 1)

LWSP_IMM(inst) == Shl(BITS(inst, 3, 2), 6) \cup Shl(BIT(inst, 12), 5)
                    \cup Shl(BITS(inst, 6, 4), 2)

LDSP_IMM(inst) == Shl(BITS(inst, 4, 2), 6) \cup Shl(BIT(inst, 12), 5)
                    \cup Shl(BITS(inst, 6, 5), 3)

SWSP_IMM(inst) == Shl(BITS(inst, 8, 7), 6) \cup Shl(BITS(inst, 12, 9), 2)

SDSP_IMM(inst) == Shl(BITS(inst, 9, 7), 6) \cup Shl(BITS(inst, 12, 10), 3)

-----------------------------------------------------------------------------
(* The register fields: full ones, and the short ones for x8 to x15.       *)

funct3(inst) == Number(BITS(inst, 15, 13))
Wide(inst)   == Number(BITS(inst, 11, 7))
Wide2(inst)  == Number(BITS(inst, 6, 2))
High(inst)   == 8 + Number(BITS(inst, 9, 7))

Low(inst) == 8 + Number(BITS(inst, 4, 2))
sp == 2
ra == 1

Load(op, inst, imm)  == Decoded(op, Low(inst), High(inst), 0, imm)
Store(op, inst, imm) == Decoded(op, 0, High(inst), Low(inst), imm)

Quadrant0(inst) ==
  CASE funct3(inst) = 0 -> Decoded("ADDI", Low(inst), sp, 0, N_IMM(inst))
    [] funct3(inst) = 1 -> Load("FLD", inst, U_IMM_D(inst))
    [] funct3(inst) = 2 -> Load("LW", inst, U_IMM(inst))
    [] funct3(inst) = 3 -> Load("LD", inst, U_IMM_D(inst))
    [] funct3(inst) = 5 -> Store("FSD", inst, U_IMM_D(inst))
    [] funct3(inst) = 6 -> Store("SW", inst, U_IMM(inst))
    [] funct3(inst) = 7 -> Store("SD", inst, U_IMM_D(inst))
    [] OTHER            -> Bad

\* c.addi16sp for sp, c.lui for the other registers.
Upper(inst) ==
  IF Wide(inst) = 2 THEN Decoded("ADDI", 2, 2, 0, D_IMM(inst))
  ELSE Decoded("LUI", Wide(inst), 0, 0,
               {i \in Shl(I_IMM(inst), 12) : i < 64})

Arith(inst) ==
  LET reg == High(inst)
      second == BITS(inst, 6, 5)
  IN  CASE BITS(inst, 11, 10) = {}  -> Decoded("SRLI", reg, reg, 0, UI_IMM(inst))
        [] BITS(inst, 11, 10) = {0} -> Decoded("SRAI", reg, reg, 0, UI_IMM(inst))
        [] BITS(inst, 11, 10) = {1} -> Decoded("ANDI", reg, reg, 0, I_IMM(inst))
        [] OTHER -> Decoded(CASE second = {}  -> IF 12 \in inst THEN "SUBW" ELSE "SUB"
                              [] second = {0} -> IF 12 \in inst THEN "ADDW" ELSE "XOR"
                              [] second = {1} -> "OR"
                              [] OTHER        -> "AND",
                            reg, reg, Low(inst), {})

Quadrant1(inst) ==
  LET rd == Wide(inst)
  IN  CASE funct3(inst) = 0 -> IF rd # 0 THEN Decoded("ADDI", rd, rd, 0, I_IMM(inst))
                               ELSE Decoded("NOP", 0, 0, 0, {})
        [] funct3(inst) = 1 -> Decoded("ADDIW", rd, rd, 0, I_IMM(inst))
        [] funct3(inst) = 2 -> Decoded("ADDI", rd, 0, 0, I_IMM(inst))
        [] funct3(inst) = 3 -> Upper(inst)
        [] funct3(inst) = 4 -> Arith(inst)
        [] funct3(inst) = 5 -> Decoded("JAL", 0, 0, 0, J_IMM(inst))
        [] funct3(inst) = 6 -> Decoded("BEQ", 0, High(inst), 0, B_IMM(inst))
        [] OTHER            -> Decoded("BNE", 0, High(inst), 0, B_IMM(inst))

\* c.add, c.jalr, c.ebreak, c.mv and c.jr.
Jump(inst) ==
  LET first == Wide(inst)
      second == Wide2(inst)
  IN  CASE 12 \in inst /\ first = 0                -> Decoded("EBREAK", 0, 0, 0, {})
        [] 12 \in inst /\ first # 0 /\ second = 0  -> Decoded("JALR", ra, first, 0, {})
        [] 12 \in inst /\ first # 0 /\ second # 0  -> Decoded("ADD", first, first, second, {})
        [] 12 \notin inst /\ second = 0            -> Decoded("JALR", 0, first, 0, {})
        [] 12 \notin inst /\ second # 0            -> Decoded("ADD", first, 0, second, {})

Quadrant2(inst) ==
  LET rd == Wide(inst)
  IN  CASE funct3(inst) = 0 -> Decoded("SLLI", rd, rd, 0, UI_IMM(inst))
        [] funct3(inst) = 1 -> Decoded("FLD", rd, sp, 0, LDSP_IMM(inst))
        [] funct3(inst) = 2 -> Decoded("LW", rd, sp, 0, LWSP_IMM(inst))
        [] funct3(inst) = 3 -> Decoded("LD", rd, sp, 0, LDSP_IMM(inst))
        [] funct3(inst) = 4 -> Jump(inst)
        [] funct3(inst) = 6 -> Decoded("SW", 0, sp, Wide2(inst), SWSP_IMM(inst))
        [] funct3(inst) = 7 -> Decoded("SD", 0, sp, Wide2(inst), SDSP_IMM(inst))
        [] OTHER            -> Bad

dec16(inst) == CASE BITS(inst, 1, 0) = {}  -> Quadrant0(inst)
                 [] BITS(inst, 1, 0) = {0} -> Quadrant1(inst)
                 [] BITS(inst, 1, 0) = {1} -> Quadrant2(inst)
                 [] OTHER                  -> Bad
=============================================================================
