------------------------------- MODULE Decode -------------------------------
(***************************************************************************)
(* decode (src/decode.c), which chooses between dec16 and dec32 and says   *)
(* how long the instruction is, over the words that fetch may deliver:     *)
(* every 16-bit instruction, followed by something, a set of assembled     *)
(* 32-bit instructions, and words that need not be instructions at all.    *)
(***************************************************************************)
EXTENDS Encoding

CONSTANTS Registers,   \* the registers in the assembled instructions
          Csrs,        \* the csr numbers in them
          Patterns,    \* what there may be in the bits of their immediates
          Others       \* 32-bit words of which no more is known

ASSUME DecodeAssumption ==
  /\ Registers \subseteq 0..31 /\ Csrs \subseteq SUBSET (0..11)
  /\ \A w \in Others : w \subseteq 0..31 /\ {0, 1} \subseteq w

D16 == INSTANCE Dec16
D32 == INSTANCE Dec32

VARIABLES inst,   \* the word that fetch has delivered
          meant,  \* the instruction that it encodes, Bad if none is known
          out,    \* op, rd, rs1, rs2, imm and csr_addr
          len     \* next_pc - pc, 0 before the instruction is decoded

decodeVars == <<inst, meant, out, len>>

Operations == DOMAIN Listing

-----------------------------------------------------------------------------
(* The words.                                                              *)

\* The immediates that a format can hold.
Sign(f) == CASE f \in {"I", "S"} -> 11 [] f = "B" -> 12 [] f = "U" -> 31
             [] f = "J" -> 20 [] OTHER -> 63
ImmRange(f) == CASE f \in {"I", "S"} -> 0..11 [] f = "B" -> 1..12
                 [] f = "U" -> 12..31 [] f = "J" -> 1..20
                 [] f = "H" -> 0..5 [] f \in {"W", "Z"} -> 0..4
                 [] f = "A" -> 0..1 [] OTHER -> {}
Immediates(f) == {Signed(bits \cap ImmRange(f), Sign(f)) : bits \in Patterns}

Assembled(op) ==
  LET f == Format(op)
  IN  [op : {op},
       rd  : IF HasRd(f)  THEN Registers ELSE {0},
       rs1 : IF HasRs1(f) THEN Registers ELSE {0},
       rs2 : IF HasRs2(f) THEN Registers ELSE {0},
       imm : Immediates(f),
       csr_addr : IF HasCsr(f) THEN Csrs ELSE {{}}]

Fetched16 == \E h \in SUBSET (0..15), rest \in {{}, 16..31} :
               /\ ~({0, 1} \subseteq h)
               /\ inst = h \cup rest
               /\ meant = Expansion(h)

Fetched32 == \E op \in Operations : \E d \in Assembled(op) :
               /\ inst = Assemble(d)
               /\ meant = d

FetchedOther == inst \in Others /\ meant = Bad

DecodeInit == /\ Fetched16 \/ Fetched32 \/ FetchedOther
              /\ out = Bad
              /\ len = 0

-----------------------------------------------------------------------------
Long == {0, 1} \subseteq inst
Half == inst \cap (0..15)

Decode == /\ len = 0
          /\ len' = IF Long THEN 4 ELSE 2
          /\ out' = IF Long THEN D32!dec32(inst) ELSE D16!dec16(Half)
          /\ UNCHANGED <<inst, meant>>

DecodeSpec == DecodeInit /\ [][Decode]_decodeVars

-----------------------------------------------------------------------------
(* Correctness.                                                            *)

\* What execute() may rely on: it indexes its registers and the csr table with
\* what the decoders hand to it, and switches over the operation.
Instructions == [op : Operations \cup {"NOP", "panic"},
                 rd : 0..31, rs1 : 0..31, rs2 : 0..31,
                 imm : SUBSET (0..63), csr_addr : SUBSET (0..11)]

TypeOK == /\ inst \subseteq 0..31
          /\ out \in Instructions
          /\ len \in {0, 2, 4}

\* What execute() makes of a decoded instruction: the operands it reads, nothing at
\* all for an addition to x0.  It treats all fences alike.
Effect(d) ==
  CASE d.op = "panic" -> <<"panic">>
    [] d.op = "NOP" \/ (d.op = "ADDI" /\ d.rd = 0) -> <<"NOP">>
    [] d.op \in {"FENCE", "FENCE_I"} -> <<d.op>>
    [] OTHER -> LET f == Format(d.op)
                IN  <<d.op, d.rd, IF HasRs1(f) THEN d.rs1 ELSE 0,
                      IF HasRs2(f) THEN d.rs2 ELSE 0, IF HasImm(f) THEN d.imm ELSE {},
                      IF HasCsr(f) THEN d.csr_addr ELSE {}>>

\* The two compressed instructions that dec16 gets wrong.  It has no case for c.fsdsp
\* and panics (dec16.c:403), although csr_init announces C and D in misa; and it takes
\* the hint c.add with x0 as its destination for c.ebreak (dec16.c:364), for which
\* execute() has no case.
IsFsdsp(h)     == 0 \notin h /\ 1 \in h /\ Func(h) = 5
IsAddToZero(h) == 0 \notin h /\ 1 \in h /\ Func(h) = 4 /\ 12 \in h /\ Full(h) = 0 /\ Full2(h) # 0
Misread(h)     == IsFsdsp(h) \/ IsAddToZero(h)

\* Every compressed instruction but those two does what the 32-bit instruction it
\* stands for does, whatever follows it in memory: dec16 and dec32, two decoders with
\* different scrambled immediates, agree on all of them.
CompressedIsExpansion ==
  len # 0 /\ ~Long /\ meant.op # "panic" /\ ~Misread(Half) =>
    /\ len = 2
    /\ Effect(out) = Effect(D32!dec32(Assemble(meant)))

\* dec32 undoes the assembler, for every operation it knows and every bit of every
\* immediate.
AssembledIsDecoded ==
  len # 0 /\ Long /\ meant.op # "panic" => len = 4 /\ Effect(out) = Effect(meant)

\* Operations for which execute() computes no value.
NoResult == {"NOP", "BEQ", "BNE", "BLT", "BGE", "BLTU", "BGEU", "SB", "SH", "SW",
             "SD", "FSW", "FSD", "FENCE", "FENCE_I", "ECALL", "URET", "SRET",
             "MRET", "WFI", "SFENCE_VMA"}

\* Those for which dec32 does not clear rd (dec32.c:358 and 373).  When such a word has
\* an rd, as a fence may whose unused fields are to be ignored, the register gets what
\* happens to be in rd_val (Execute!ExecuteNothing).
KeepsRd == {"FENCE", "FENCE_I", "ECALL", "URET", "SRET", "MRET", "WFI", "SFENCE_VMA"}

\* execute() stores rd_val in reg[rd] whenever rd is not 0, also when the operation
\* has not assigned it.  A store or a branch has bits of its immediate in the place
\* of rd: whatever the word, the decoders leave none of them in rd, for any operation
\* without a result except the eight of KeepsRd.
NoStrayResult == out.op \in NoResult \ KeepsRd => out.rd = 0
=============================================================================
