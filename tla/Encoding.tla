------------------------------ MODULE Encoding ------------------------------
(***************************************************************************)
(* The reference for the decoders, from the RISC-V instruction listings    *)
(* and not from the code: how an assembler encodes an instruction in 32    *)
(* bits, and which instruction each compressed one stands for (RV64C, with *)
(* the loads and stores that the D extension adds to it).  Of the 32-bit   *)
(* instructions it has those for which operation.h has a name.             *)
(***************************************************************************)
EXTENDS Words, Sequences

\* Format, opcode, funct3, funct7 (for "P", the field of rs2 as well).  A fence has
\* the fields of format "I", and does the same whatever is in them.
Listing == [
  LUI    |-> <<"U", 55, 0, 0>>,    AUIPC  |-> <<"U", 23, 0, 0>>,
  JAL    |-> <<"J", 111, 0, 0>>,   JALR   |-> <<"I", 103, 0, 0>>,
  BEQ    |-> <<"B", 99, 0, 0>>,    BNE    |-> <<"B", 99, 1, 0>>,
  BLT    |-> <<"B", 99, 4, 0>>,    BGE    |-> <<"B", 99, 5, 0>>,
  BLTU   |-> <<"B", 99, 6, 0>>,    BGEU   |-> <<"B", 99, 7, 0>>,
  LB     |-> <<"I", 3, 0, 0>>,     LH     |-> <<"I", 3, 1, 0>>,
  LW     |-> <<"I", 3, 2, 0>>,     LD     |-> <<"I", 3, 3, 0>>,
  LBU    |-> <<"I", 3, 4, 0>>,     LHU    |-> <<"I", 3, 5, 0>>,
  LWU    |-> <<"I", 3, 6, 0>>,     FLW    |-> <<"I", 7, 2, 0>>,
  FLD    |-> <<"I", 7, 3, 0>>,     FSW    |-> <<"S", 39, 2, 0>>,
  FSD    |-> <<"S", 39, 3, 0>>,    SB     |-> <<"S", 35, 0, 0>>,
  SH     |-> <<"S", 35, 1, 0>>,    SW     |-> <<"S", 35, 2, 0>>,
  SD     |-> <<"S", 35, 3, 0>>,    ADDI   |-> <<"I", 19, 0, 0>>,
  SLTI   |-> <<"I", 19, 2, 0>>,    SLTIU  |-> <<"I", 19, 3, 0>>,
  XORI   |-> <<"I", 19, 4, 0>>,    ORI    |-> <<"I", 19, 6, 0>>,
  ANDI   |-> <<"I", 19, 7, 0>>,    SLLI   |-> <<"H", 19, 1, 0>>,
  SRLI   |-> <<"H", 19, 5, 0>>,    SRAI   |-> <<"H", 19, 5, 32>>,
  ADDIW  |-> <<"I", 27, 0, 0>>,    SLLIW  |-> <<"W", 27, 1, 0>>,
  SRLIW  |-> <<"W", 27, 5, 0>>,    SRAIW  |-> <<"W", 27, 5, 32>>,
  ADD    |-> <<"R", 51, 0, 0>>,    SUB    |-> <<"R", 51, 0, 32>>,
  SLL    |-> <<"R", 51, 1, 0>>,    SLT    |-> <<"R", 51, 2, 0>>,
  SLTU   |-> <<"R", 51, 3, 0>>,    XOR    |-> <<"R", 51, 4, 0>>,
  SRL    |-> <<"R", 51, 5, 0>>,    SRA    |-> <<"R", 51, 5, 32>>,
  OR     |-> <<"R", 51, 6, 0>>,    AND    |-> <<"R", 51, 7, 0>>,
  MUL    |-> <<"R", 51, 0, 1>>,    MULH   |-> <<"R", 51, 1, 1>>,
  MULHSU |-> <<"R", 51, 2, 1>>,    MULHU  |-> <<"R", 51, 3, 1>>,
  DIV    |-> <<"R", 51, 4, 1>>,    DIVU   |-> <<"R", 51, 5, 1>>,
  REM    |-> <<"R", 51, 6, 1>>,    REMU   |-> <<"R", 51, 7, 1>>,
  ADDW   |-> <<"R", 59, 0, 0>>,    SUBW   |-> <<"R", 59, 0, 32>>,
  SLLW   |-> <<"R", 59, 1, 0>>,    SRLW   |-> <<"R", 59, 5, 0>>,
  SRAW   |-> <<"R", 59, 5, 32>>,   MULW   |-> <<"R", 59, 0, 1>>,
  DIVW   |-> <<"R", 59, 4, 1>>,    DIVUW  |-> <<"R", 59, 5, 1>>,
  REMW   |-> <<"R", 59, 6, 1>>,    REMUW  |-> <<"R", 59, 7, 1>>,
  FENCE  |-> <<"I", 15, 0, 0>>,    FENCE_I |-> <<"I", 15, 1, 0>>,
  ECALL  |-> <<"P", 115, 0, 0, 0>>, EBREAK |-> <<"P", 115, 0, 0, 1>>,
  URET   |-> <<"P", 115, 0, 0, 2>>, SRET  |-> <<"P", 115, 0, 8, 2>>,
  MRET   |-> <<"P", 115, 0, 24, 2>>, WFI  |-> <<"P", 115, 0, 8, 5>>,
  SFENCE_VMA |-> <<"V", 115, 0, 9>>,
  CSRRW  |-> <<"C", 115, 1, 0>>,   CSRRS  |-> <<"C", 115, 2, 0>>,
  CSRRC  |-> <<"C", 115, 3, 0>>,   CSRRWI |-> <<"Z", 115, 5, 0>>,
  CSRRSI |-> <<"Z", 115, 6, 0>>,   CSRRCI |-> <<"Z", 115, 7, 0>>,
  LR_W   |-> <<"A", 47, 2, 8>>,    LR_D   |-> <<"A", 47, 3, 8>>,
  SC_W   |-> <<"A", 47, 2, 12>>,   SC_D   |-> <<"A", 47, 3, 12>>,
  AMO_SWAP_W |-> <<"A", 47, 2, 4>>, AMO_SWAP_D |-> <<"A", 47, 3, 4>>,
  AMO_ADD_W  |-> <<"A", 47, 2, 0>>, AMO_ADD_D  |-> <<"A", 47, 3, 0>>,
  AMO_XOR_W  |-> <<"A", 47, 2, 16>>, AMO_XOR_D |-> <<"A", 47, 3, 16>>,
  AMO_AND_W  |-> <<"A", 47, 2, 48>>, AMO_AND_D |-> <<"A", 47, 3, 48>>,
  AMO_OR_W   |-> <<"A", 47, 2, 32>>, AMO_OR_D  |-> <<"A", 47, 3, 32>>,
  AMO_MIN_W  |-> <<"A", 47, 2, 64>>, AMO_MIN_D |-> <<"A", 47, 3, 64>>,
  AMO_MAX_W  |-> <<"A", 47, 2, 80>>, AMO_MAX_D |-> <<"A", 47, 3, 80>>,
  AMO_MINU_W |-> <<"A", 47, 2, 96>>, AMO_MINU_D |-> <<"A", 47, 3, 96>>,
  AMO_MAXU_W |-> <<"A", 47, 2, 112>>, AMO_MAXU_D |-> <<"A", 47, 3, 112>>,
  FMV_W_X |-> <<"R", 83, 0, 120>> ]

Format(op) == Listing[op][1]

\* The low bits of a number, as a word.
ToBits(n, width) == {i \in 0..(width - 1) : (n \div 2^i) % 2 = 1}

\* Bit order[1] of the immediate is bit high of the word, order[2] the next lower
\* one, and so on; Scatter places an immediate, Gather reads one.
Scatter(imm, high, order) ==
  {high + 1 - k : k \in {n \in 1..Len(order) : order[n] \in imm}}
Gather(inst, high, order) ==
  {order[k] : k \in {n \in 1..Len(order) : high + 1 - n \in inst}}

Down(high, low) == [k \in 1..(high - low + 1) |-> high + 1 - k]

\* The immediate of each format; aq and rl of the atomic operations.
ImmBits(f, imm) ==
  CASE f = "I" -> Scatter(imm, 31, Down(11, 0))
    [] f = "S" -> Scatter(imm, 31, Down(11, 5)) \cup Scatter(imm, 11, Down(4, 0))
    [] f = "B" -> Scatter(imm, 31, <<12>> \o Down(10, 5))
                    \cup Scatter(imm, 11, Down(4, 1) \o <<11>>)
    [] f = "U" -> Scatter(imm, 31, Down(31, 12))
    [] f = "J" -> Scatter(imm, 31, <<20>> \o Down(10, 1) \o <<11>> \o Down(19, 12))
    [] f = "H" -> Scatter(imm, 25, Down(5, 0))
    [] f = "W" -> Scatter(imm, 24, Down(4, 0))
    [] f = "Z" -> Scatter(imm, 19, Down(4, 0))
    [] f = "A" -> Scatter(imm, 26, Down(1, 0))
    [] OTHER   -> {}

HasRd(f)  == f \notin {"S", "B", "P", "V"}
HasRs1(f) == f \in {"R", "I", "S", "B", "H", "W", "C", "A", "V"}
HasRs2(f) == f \in {"R", "S", "B", "A", "V"}
HasImm(f) == f \in {"I", "S", "B", "U", "J", "H", "W", "Z"}
HasCsr(f) == f \in {"C", "Z"}

Assemble(d) ==
  LET e == Listing[d.op]
      f == e[1]
  IN  ToBits(e[2], 7)
        \cup (IF f \in {"U", "J"} THEN {} ELSE Shl(ToBits(e[3], 3), 12))
        \cup (IF f \in {"R", "H", "W", "P", "A", "V"} THEN Shl(ToBits(e[4], 7), 25) ELSE {})
        \cup (IF f = "P" THEN Shl(ToBits(e[5], 5), 20) ELSE {})
        \cup (IF HasRd(f)  THEN Shl(ToBits(d.rd, 5), 7) ELSE {})
        \cup (IF HasRs1(f) THEN Shl(ToBits(d.rs1, 5), 15) ELSE {})
        \cup (IF HasRs2(f) THEN Shl(ToBits(d.rs2, 5), 20) ELSE {})
        \cup (IF HasCsr(f) THEN Shl(d.csr_addr, 20) ELSE {})
        \cup ImmBits(f, d.imm)

-----------------------------------------------------------------------------
(* The compressed instructions, in the order of their listing.             *)

Signed(imm, top) == IF top \in imm THEN imm \cup (top..63) ELSE imm

\* The immediates, as the listing prints them over bits 12 to 2.
Ci(h)   == Signed(Gather(h, 12, <<5>>) \cup Gather(h, 6, Down(4, 0)), 5)
Cui(h)  == Gather(h, 12, <<5>>) \cup Gather(h, 6, Down(4, 0))
Ciw(h)  == Gather(h, 12, <<5, 4, 9, 8, 7, 6, 2, 3>>)
Clw(h)  == Gather(h, 12, <<5, 4, 3>>) \cup Gather(h, 6, <<2, 6>>)
Cld(h)  == Gather(h, 12, <<5, 4, 3>>) \cup Gather(h, 6, <<7, 6>>)
Clwsp(h) == Gather(h, 12, <<5>>) \cup Gather(h, 6, <<4, 3, 2, 7, 6>>)
Cldsp(h) == Gather(h, 12, <<5>>) \cup Gather(h, 6, <<4, 3, 8, 7, 6>>)
Cswsp(h) == Gather(h, 12, <<5, 4, 3, 2, 7, 6>>)
Csdsp(h) == Gather(h, 12, <<5, 4, 3, 8, 7, 6>>)
C16sp(h) == Signed(Gather(h, 12, <<9>>) \cup Gather(h, 6, <<4, 6, 8, 7, 5>>), 9)
Clui(h)  == Signed(Gather(h, 12, <<17>>) \cup Gather(h, 6, <<16, 15, 14, 13, 12>>), 17)
Cj(h)    == Signed(Gather(h, 12, <<11, 4, 9, 8, 10, 6, 7, 3, 2, 1, 5>>), 11)
Cb(h)    == Signed(Gather(h, 12, <<8, 4, 3>>) \cup Gather(h, 6, <<7, 6, 2, 1, 5>>), 8)

\* The fields of a compressed instruction; the short registers are x8 to x15.
Func(h)  == Number(Gather(h, 15, <<2, 1, 0>>))
Full(h)  == Number(Gather(h, 11, Down(4, 0)))
Full2(h) == Number(Gather(h, 6, Down(4, 0)))
Short(h) == 8 + Number(Gather(h, 9, Down(2, 0)))
Short2(h) == 8 + Number(Gather(h, 4, Down(2, 0)))

\* What each 16-bit instruction stands for; Bad for the reserved encodings.
If(legal, d) == IF legal THEN d ELSE Bad

Expansion0(h) ==
  LET hi == Short(h)
      lo == Short2(h)
  IN  CASE Func(h) = 0 -> If(Ciw(h) # {}, Decoded("ADDI", lo, 2, 0, Ciw(h)))
        [] Func(h) = 1 -> Decoded("FLD", lo, hi, 0, Cld(h))
        [] Func(h) = 2 -> Decoded("LW", lo, hi, 0, Clw(h))
        [] Func(h) = 3 -> Decoded("LD", lo, hi, 0, Cld(h))
        [] Func(h) = 5 -> Decoded("FSD", 0, hi, lo, Cld(h))
        [] Func(h) = 6 -> Decoded("SW", 0, hi, lo, Clw(h))
        [] Func(h) = 7 -> Decoded("SD", 0, hi, lo, Cld(h))
        [] OTHER       -> Bad

\* The operations between two short registers, by bits 12, 6 and 5.
ExpansionOp(h) ==
  LET n == Number(Gather(h, 12, <<2>>) \cup Gather(h, 6, <<1, 0>>))
  IN  If(n < 6, Decoded(<<"SUB", "XOR", "OR", "AND", "SUBW", "ADDW", "", "">>[n + 1],
                        Short(h), Short(h), Short2(h), {}))

ExpansionAlu(h) ==
  LET hi == Short(h)
  IN  CASE 11 \notin h /\ 10 \notin h -> Decoded("SRLI", hi, hi, 0, Cui(h))
        [] 11 \notin h /\ 10 \in h    -> Decoded("SRAI", hi, hi, 0, Cui(h))
        [] 11 \in h /\ 10 \notin h    -> Decoded("ANDI", hi, hi, 0, Ci(h))
        [] OTHER                      -> ExpansionOp(h)

Expansion1(h) ==
  LET r  == Full(h)
      hi == Short(h)
  IN  CASE Func(h) = 0 -> Decoded("ADDI", r, r, 0, Ci(h))
        [] Func(h) = 1 -> If(r # 0, Decoded("ADDIW", r, r, 0, Ci(h)))
        [] Func(h) = 2 -> Decoded("ADDI", r, 0, 0, Ci(h))
        [] Func(h) = 3 -> IF r = 2 THEN If(C16sp(h) # {}, Decoded("ADDI", 2, 2, 0, C16sp(h)))
                          ELSE If(Clui(h) # {}, Decoded("LUI", r, 0, 0, Clui(h)))
        [] Func(h) = 4 -> ExpansionAlu(h)
        [] Func(h) = 5 -> Decoded("JAL", 0, 0, 0, Cj(h))
        [] Func(h) = 6 -> Decoded("BEQ", 0, hi, 0, Cb(h))
        [] Func(h) = 7 -> Decoded("BNE", 0, hi, 0, Cb(h))

\* c.jr, c.mv, c.ebreak, c.jalr and c.add; c.mv and c.add to x0 are hints, which
\* have no effect.
ExpansionCr(h) ==
  LET r  == Full(h)
      r2 == Full2(h)
  IN  CASE 12 \notin h /\ r2 = 0         -> If(r # 0, Decoded("JALR", 0, r, 0, {}))
        [] 12 \notin h /\ r2 # 0         -> Decoded("ADD", r, 0, r2, {})
        [] 12 \in h /\ r = 0 /\ r2 = 0   -> Decoded("EBREAK", 0, 0, 0, {})
        [] 12 \in h /\ r # 0 /\ r2 = 0   -> Decoded("JALR", 1, r, 0, {})
        [] OTHER                         -> Decoded("ADD", r, r, r2, {})

Expansion2(h) ==
  LET r  == Full(h)
      r2 == Full2(h)
  IN  CASE Func(h) = 0 -> Decoded("SLLI", r, r, 0, Cui(h))
        [] Func(h) = 1 -> Decoded("FLD", r, 2, 0, Cldsp(h))
        [] Func(h) = 2 -> If(r # 0, Decoded("LW", r, 2, 0, Clwsp(h)))
        [] Func(h) = 3 -> If(r # 0, Decoded("LD", r, 2, 0, Cldsp(h)))
        [] Func(h) = 4 -> ExpansionCr(h)
        [] Func(h) = 5 -> Decoded("FSD", 0, 2, r2, Csdsp(h))
        [] Func(h) = 6 -> Decoded("SW", 0, 2, r2, Cswsp(h))
        [] Func(h) = 7 -> Decoded("SD", 0, 2, r2, Csdsp(h))

Expansion(h) == CASE 0 \notin h /\ 1 \notin h -> Expansion0(h)
                  [] 0 \in h /\ 1 \notin h    -> Expansion1(h)
                  [] OTHER                     -> Expansion2(h)
=============================================================================
