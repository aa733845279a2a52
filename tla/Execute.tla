------------------------------ MODULE Execute ------------------------------
(***************************************************************************)
(* The executor (src/execute.c) with the registers it works on: regfile.c, *)
(* the memory of Ram, and the csr file (src/csr.c).  The main loop decodes *)
(* an instruction into `ins' and then executes it.  ECALL and the returns  *)
(* from traps are in module Hart.                                          *)
(*                                                                         *)
(* An atomic instruction is its operation and its width (AMO_D, AMO_W)     *)
(* with `params', as execute.c passes it on.  The guest may be two threads *)
(* on the one hart: `other' is the context of the one that does not run.   *)
(***************************************************************************)
EXTENDS Ram, FiniteSets

CONSTANTS Code,       \* the instructions that may be at each location
          Starts,     \* the guest's states from which behaviours begin
          Vector,     \* where raise_except continues
          CsrKind,    \* what _read does with each csr
          Clock,      \* what the host's clocks may show
          FloatBits, DoubleBits,  \* the significant bits of float and double
          NoIns, NoTrap

Regs == 0 .. 3        \* the registers the instructions name; 0 is zero

\* The operations by the way execute.c treats them.
ImmOps == {"ADDI", "ADDIW", "SLTI", "SLTIU", "SLLI", "SLLIW", "XORI", "SRLI",
           "SRLIW", "SRAI", "SRAIW", "ORI", "ANDI"}
RegOps == {"ADD", "ADDW", "SLT", "SLTU", "SUB", "SUBW", "SLL", "SLLW", "XOR", "SRL",
           "SRLW", "SRA", "SRAW", "OR", "AND"}
MulDivOps == {"MUL", "MULH", "MULHSU", "MULHU", "DIV", "DIVU", "REM", "REMU",
              "MULW", "DIVW", "DIVUW", "REMW", "REMUW"}
Branches == {"BEQ", "BNE", "BLT", "BGE", "BLTU", "BGEU"}
Loads    == {"LB", "LH", "LW", "LD", "LBU", "LHU", "LWU"}
Stores   == {"SB", "SH", "SW", "SD"}
Atomics  == {"LR_D", "LR_W", "SC_D", "SC_W", "AMO_D", "AMO_W"}
FpLoads  == {"FLW", "FLD"}
FpStores == {"FSW", "FSD"}
CsrOps   == {"CSRRW", "CSRRS", "CSRRC", "CSRRWI", "CSRRSI", "CSRRCI"}
NoOps    == {"NOP", "FENCE", "FENCE_I", "WFI", "SFENCE_VMA"}

ASSUME ExecuteAssumption ==
  /\ DOMAIN Code \subseteq Dword /\ Vector \in Dword \ DOMAIN Code
  /\ \A l \in DOMAIN Code : \A i \in Code[l] :
       /\ {i.rd, i.rs1, i.rs2} \subseteq Regs /\ i.imm \in Dword /\ i.len \in Nat
       /\ i.op \in STRING /\ i.csr \in DOMAIN CsrKind
       /\ i.op \in Branches \cup Stores \cup FpStores \cup {"NOP"} => i.rd = 0
       /\ i.op \in {"SC_D", "SC_W"} => i.params = "LR_SC"
       /\ i.op \in {"AMO_D", "AMO_W"} => i.params \in AmoParams \ {"NONE", "LR_SC"}
       /\ i # NoIns
  /\ \A s \in Starts :
       /\ \A t \in {s, s.other} : t.pc \in Dword /\ t.reg \in [Regs -> Dword] /\ t.reg[0] = 0
       /\ IsRam(s.memory)
  /\ Clock \subseteq Dword
  /\ FloatBits \in 1 .. DoubleBits /\ DoubleBits \in 1 .. X
  /\ \A c \in DOMAIN CsrKind :
       CsrKind[c] \in {"plain", "fixed", "counter", "absent", "zero", "unknown"}

VARIABLES pc,         \* _pc
          reg, freg,  \* the register files
          memory,     \* mem_ptr of the RAM
          csr,        \* _csr
          ins,        \* the decoded instruction, between decode and execute
          trap,       \* what raise_except was last called with
          panic,
          other       \* the suspended guest thread

state == <<reg, freg, memory, csr>>
vars  == <<pc, state, ins, trap, panic, other>>

Init == /\ \E s \in Starts :
             pc = s.pc /\ reg = s.reg /\ memory = s.memory /\ other = s.other
        /\ freg = [r \in Regs |-> 0]
        /\ csr = [c \in DOMAIN CsrKind |-> 0]
        /\ ins = NoIns /\ trap = NoTrap /\ panic = FALSE

rs1val  == reg[ins.rs1]
rs2val  == reg[ins.rs2]
next_pc == Wrap(pc + ins.len, X)
Target  == Wrap(pc + ins.imm, X)
Address == IF ins.op \in Atomics THEN rs1val ELSE Wrap(rs1val + ins.imm, X)
Operand == IF ins.op \in ImmOps THEN ins.imm ELSE rs2val

-----------------------------------------------------------------------------
(* Decode, retire, trap.                                                   *)

Decode == /\ ins = NoIns /\ ~panic
          /\ pc \in DOMAIN Code
          /\ ins' \in Code[pc]
          /\ UNCHANGED <<pc, state, trap, panic, other>>

Executing(ops) == ins # NoIns /\ ins.op \in ops
                  /\ ins' = NoIns /\ UNCHANGED other

\* Mutant: register 0 is stored like the others.
WriteBackAlways(v) == reg' = [reg EXCEPT ![ins.rd] = v]

\* if (rd) reg[rd] = rd_val
WriteBack(v) == reg' = IF ins.rd = 0 THEN reg ELSE [reg EXCEPT ![ins.rd] = v]

WriteBackF(v) == freg' = [freg EXCEPT ![ins.rd] = v]

\* Mutant: rd_val is stored although the access has failed and returned 0.
RegsAfterExceptZero == IF ins.rd = 0 THEN reg ELSE [reg EXCEPT ![ins.rd] = 0]

\* With has_except nothing is written back.
RegsAfterExcept == reg

raise_except(cause, tval) ==
  /\ trap' = [cause |-> cause, tval |-> tval, epc |-> pc]
  /\ pc' = Vector
  /\ reg' = RegsAfterExcept
  /\ UNCHANGED <<freg, memory, csr, panic>>

GoesOn == pc' = next_pc /\ UNCHANGED <<trap, panic>>

-----------------------------------------------------------------------------
(* Integer operations.                                                     *)

\* Division of signed integers in C rounds toward zero.
Abs(n)      == IF n < 0 THEN -n ELSE n
Trunc(n, d) == IF (n < 0) = (d < 0) THEN Abs(n) \div Abs(d) ELSE -(Abs(n) \div Abs(d))
Rest(n, d)  == n - (d * Trunc(n, d))

MostNegative(n) == 2^(n - 1)

\* The shift of a 32-bit operand by six bits of the count: the host takes five.
Arith(op, a, b) ==
  CASE op \in {"ADD", "ADDI"}     -> Wrap(a + b, X)
    [] op \in {"ADDW", "ADDIW"}   -> TO_WORD(a + b)
    [] op = "SUB"                 -> Wrap(a - b, X)
    [] op = "SUBW"                -> TO_WORD(a - b)
    [] op \in {"SLT", "SLTI"}     -> IF Signed(a, X) < Signed(b, X) THEN 1 ELSE 0
    [] op \in {"SLTU", "SLTIU"}   -> IF a < b THEN 1 ELSE 0
    [] op \in {"XOR", "XORI"}     -> XorBits(a, b)
    [] op \in {"OR", "ORI"}       -> OrBits(a, b)
    [] op \in {"AND", "ANDI"}     -> AndBits(a, b)
    [] op \in {"SLL", "SLLI"}     -> Wrap(a * 2^(b % X), X)
    [] op \in {"SLLW", "SLLIW"}   -> TO_WORD(Wrap(a, W) * 2^(b % W))
    [] op \in {"SRL", "SRLI"}     -> a \div 2^(b % X)
    [] op \in {"SRLW", "SRLIW"}   -> TO_WORD(Wrap(a, W) \div 2^(b % W))
    [] op \in {"SRA", "SRAI"}     -> Wrap(Signed(a, X) \div 2^(b % X), X)
    [] op \in {"SRAW", "SRAIW"}   -> Wrap(Signed(a, W) \div 2^((b % X) % W), X)

\* MULH and MULHSU multiply the registers as unsigned numbers, like MULHU.
Multiply(op, a, b) ==
  CASE op = "MUL"  -> Wrap(Signed(a, X) * Signed(b, X), X)
    [] op = "MULW" -> TO_WORD(Signed(a, W) * Signed(b, W))
    [] op \in {"MULH", "MULHSU", "MULHU"} -> (a * b) \div 2^X

\* n-bit signed division: by zero, of the most negative number by -1, other.
DivSigned(a, b, n) ==
  CASE Wrap(b, n) = 0 -> 2^X - 1
    [] Signed(b, n) = -1 /\ Wrap(a, n) = MostNegative(n) -> SignExtend(a, n)
    [] OTHER -> SignExtend(Trunc(Signed(a, n), Signed(b, n)), n)

RemSigned(a, b, n) ==
  CASE Wrap(b, n) = 0 -> SignExtend(a, n)
    [] Signed(b, n) = -1 /\ Wrap(a, n) = MostNegative(n) -> 0
    [] OTHER -> SignExtend(Rest(Signed(a, n), Signed(b, n)), n)

\* By zero, the unsigned word forms do not extend the sign.
DivUnsigned(a, b, n) == IF Wrap(b, n) = 0 THEN 2^n - 1
                        ELSE SignExtend(Wrap(a, n) \div Wrap(b, n), n)
RemUnsigned(a, b, n) == IF Wrap(b, n) = 0 THEN Wrap(a, n)
                        ELSE SignExtend(Wrap(a, n) % Wrap(b, n), n)

Divide(op, a, b) ==
  CASE op = "DIV"  -> DivSigned(a, b, X)   [] op = "DIVW"  -> DivSigned(a, b, W)
    [] op = "REM"  -> RemSigned(a, b, X)   [] op = "REMW"  -> RemSigned(a, b, W)
    [] op = "DIVU" -> DivUnsigned(a, b, X) [] op = "DIVUW" -> DivUnsigned(a, b, W)
    [] op = "REMU" -> RemUnsigned(a, b, X) [] op = "REMUW" -> RemUnsigned(a, b, W)

ExecuteArith ==
  /\ Executing(ImmOps \cup RegOps)
  /\ WriteBack(Arith(ins.op, rs1val, Operand))
  /\ GoesOn /\ UNCHANGED <<freg, memory, csr>>

ExecuteMulDiv ==
  /\ Executing(MulDivOps)
  /\ WriteBack(IF ins.op \in {"MUL", "MULW", "MULH", "MULHSU", "MULHU"}
                 THEN Multiply(ins.op, rs1val, rs2val)
                 ELSE Divide(ins.op, rs1val, rs2val))
  /\ GoesOn /\ UNCHANGED <<freg, memory, csr>>

ExecuteUpper ==
  /\ Executing({"LUI", "AUIPC"})
  /\ WriteBack(IF ins.op = "LUI" THEN ins.imm ELSE Target)
  /\ GoesOn /\ UNCHANGED <<freg, memory, csr>>

\* Nothing is assigned to rd_val, which is stored all the same if there is an rd.
ExecuteNothing ==
  /\ Executing(NoOps)
  /\ \E rd_val \in Dword : WriteBack(rd_val)
  /\ GoesOn /\ UNCHANGED <<freg, memory, csr>>

\* The default case: an operation that execute does not know.
ExecuteBadOp == /\ Executing({"EBREAK"})
                /\ panic' = TRUE
                /\ UNCHANGED <<pc, state, trap>>

-----------------------------------------------------------------------------
(* Jumps and branches.                                                     *)

\* JALR takes the sum as it is.
ExecuteJump ==
  /\ Executing({"JAL", "JALR"})
  /\ WriteBack(next_pc)
  /\ pc' = IF ins.op = "JAL" THEN Target ELSE Wrap(rs1val + ins.imm, X)
  /\ UNCHANGED <<freg, memory, csr, trap, panic>>

Condition(op, a, b) ==
  CASE op = "BEQ"  -> a = b
    [] op = "BNE"  -> a # b
    [] op = "BLT"  -> Signed(a, X) < Signed(b, X)
    [] op = "BGE"  -> Signed(a, X) >= Signed(b, X)
    [] op = "BLTU" -> a < b
    [] op = "BGEU" -> a >= b

ExecuteBranch ==
  /\ Executing(Branches)
  /\ pc' = IF Condition(ins.op, rs1val, rs2val) THEN Target ELSE next_pc
  /\ UNCHANGED <<state, trap, panic>>

-----------------------------------------------------------------------------
(* Loads, stores and atomic operations.                                    *)

Size(op) == CASE op \in {"LB", "LBU", "SB"} -> 1
              [] op \in {"LH", "LHU", "SH"} -> 2
              [] op \in {"LW", "LWU", "SW", "LR_W", "SC_W", "AMO_W", "FLW", "FSW"} -> 4
              [] op \in {"LD", "SD", "LR_D", "SC_D", "AMO_D", "FLD", "FSD"} -> 8

MemoryOps == Loads \cup Stores \cup Atomics \cup FpLoads \cup FpStores

\* The cause execute.c reports: LR, FLW and FLD fail like stores.
Cause == IF ins.op \in Loads THEN "load_page_fault" ELSE "store_page_fault"

\* as_read and as_write find no translation.
AccessFault ==
  /\ Executing(MemoryOps)
  /\ mmu(Address) = Fault
  /\ raise_except(Cause, Address)

Reads(ops) == Executing(ops) /\ mmu(Address) # Fault

\* as_read: the page of the first byte is translated.
as_read == ram_read(memory, mmu(Address), Size(ins.op))

Loaded(op, v) == CASE op \in {"LB", "LH", "LW", "LR_W"} -> SignExtend(v, B * Size(op))
                   [] OTHER -> v

ExecuteLoad ==
  /\ Reads(Loads \cup {"LR_D", "LR_W"})
  /\ WriteBack(Loaded(ins.op, as_read))
  /\ GoesOn /\ UNCHANGED <<freg, memory, csr>>

Written(data, params) == ram_write(memory, mmu(Address), Size(ins.op), data, params)

ExecuteStore ==
  /\ Reads(Stores)
  /\ memory' = Written(rs2val, "NONE")
  /\ GoesOn /\ UNCHANGED <<reg, freg, csr>>

\* SC_D, SC_W and the AMOs: rd gets what ram_write returns, as it is.
ExecuteAtomic ==
  /\ Reads({"SC_D", "SC_W", "AMO_D", "AMO_W"})
  /\ memory' = Written(rs2val, ins.params)
  /\ WriteBack(Returned(memory, mmu(Address), Size(ins.op), ins.params))
  /\ GoesOn /\ UNCHANGED <<freg, csr>>

-----------------------------------------------------------------------------
(* Floating point: conversions of numbers, not moves of bits.              *)

Bits(v) == CHOOSE n \in 0 .. X : v < 2^n /\ (n = 0 \/ v >= 2^(n - 1))

\* (float) or (double) of v, to p significant bits, ties to even.
Rounded(v, p) ==
  IF Bits(v) <= p THEN v
  ELSE LET ulp == 2^(Bits(v) - p)
           q   == v \div ulp
           r   == v % ulp
           up  == 2 * r > ulp \/ (2 * r = ulp /\ q % 2 = 1)
       IN  (IF up THEN q + 1 ELSE q) * ulp

\* ... and back.  2^X has no value as an integer: the build yields either end.
Converted(v, p) == IF Rounded(v, p) = 2^X THEN {0, 2^X - 1} ELSE {Rounded(v, p)}

ExecuteFpLoad ==
  /\ Reads(FpLoads)
  /\ \E v \in Converted(as_read, IF ins.op = "FLW" THEN FloatBits ELSE DoubleBits) :
       WriteBackF(v)
  /\ GoesOn /\ UNCHANGED <<reg, memory, csr>>

\* FSW stores the integer register.
ExecuteFpStore ==
  /\ Reads(FpStores)
  /\ \E v \in IF ins.op = "FSW" THEN Converted(rs2val, FloatBits) ELSE {freg[ins.rs2]} :
       memory' = Written(v, "NONE")
  /\ GoesOn /\ UNCHANGED <<reg, freg, csr>>

ExecuteFmv ==
  /\ Executing({"FMV_W_X"})
  /\ \E v \in Converted(rs1val, FloatBits) : WriteBackF(v)
  /\ GoesOn /\ UNCHANGED <<reg, memory, csr>>

-----------------------------------------------------------------------------
(* The csr file.                                                           *)

\* _read: what a csr may show.
CsrValues(c) == CASE CsrKind[c] = "plain"   -> {csr[c]}
                  [] CsrKind[c] = "fixed"   -> {7}
                  [] CsrKind[c] = "counter" -> Clock
                  [] CsrKind[c] = "zero"    -> {0}
                  [] CsrKind[c] \in {"absent", "unknown"} -> {}

CsrNew(op, old, data) ==
  CASE op \in {"CSRRW", "CSRRWI"} -> data
    [] op \in {"CSRRS", "CSRRSI"} -> OrBits(old, data)
    [] op \in {"CSRRC", "CSRRCI"} -> AndBits(old, 2^X - 1 - data)

CsrData == IF ins.op \in {"CSRRWI", "CSRRSI", "CSRRCI"} THEN ins.imm ELSE rs1val

csr_update ==
  /\ Executing(CsrOps)
  /\ \E old \in CsrValues(ins.csr) :
       /\ csr' = [csr EXCEPT ![ins.csr] = CsrNew(ins.op, old, CsrData)]
       /\ WriteBack(old)
  /\ GoesOn /\ UNCHANGED <<freg, memory>>

CsrAbsent == /\ Executing(CsrOps)
             /\ CsrKind[ins.csr] = "absent"
             /\ raise_except("illegal_inst", 0)

CsrUnknown == /\ Executing(CsrOps)
              /\ CsrKind[ins.csr] = "unknown"
              /\ panic' = TRUE
              /\ UNCHANGED <<pc, state, trap>>

-----------------------------------------------------------------------------
\* The guest's kernel changes threads, on an interrupt between instructions.
Switch == /\ ins = NoIns /\ ~panic
          /\ other.pc \in DOMAIN Code
          /\ other' = [pc |-> pc, reg |-> reg]
          /\ pc' = other.pc /\ reg' = other.reg
          /\ UNCHANGED <<freg, memory, csr, ins, trap, panic>>

Execute == \/ ExecuteArith \/ ExecuteMulDiv \/ ExecuteUpper \/ ExecuteNothing
           \/ ExecuteBadOp \/ ExecuteJump \/ ExecuteBranch
           \/ AccessFault \/ ExecuteLoad \/ ExecuteStore \/ ExecuteAtomic
           \/ ExecuteFpLoad \/ ExecuteFpStore \/ ExecuteFmv
           \/ csr_update \/ CsrAbsent \/ CsrUnknown

Next == Decode \/ Execute \/ Switch

Spec == Init /\ [][Next]_vars

-----------------------------------------------------------------------------
(* Correctness.                                                            *)

Arch == INSTANCE Isa

\* The zero register holds 0 whatever instruction names it as its destination
\* (the `else if (rd)' at the end of execute), and all values keep their widths.
TypeOK ==
  /\ pc \in Dword /\ panic \in BOOLEAN
  /\ reg \in [Regs -> Dword] /\ reg[0] = 0
  /\ freg \in [Regs -> Dword]
  /\ csr \in [DOMAIN CsrKind -> Dword]
  /\ \A a \in DOMAIN memory : memory[a] \in Byte
  /\ ins = NoIns \/ ins.op \in STRING

Executed == ins # NoIns /\ ins' = NoIns

\* Where execute.c is known to differ from the architecture: the high products of
\* negative numbers, the unsigned word divisions by zero, jumps to an odd sum, and
\* operations without a result for which the decoder has left an rd.
Deviates == \/ ins.op \in {"MULH", "MULHSU"} /\ Signed(rs1val, X) < 0
            \/ ins.op = "MULH" /\ Signed(rs2val, X) < 0
            \/ ins.op \in {"DIVUW", "REMUW"} /\ Wrap(rs2val, W) = 0
            \/ ins.op = "JALR" /\ Wrap(rs1val + ins.imm, X) % 2 = 1
            \/ ins.op \in NoOps /\ ins.rd # 0

\* Every result, branch and link is that of the architecture, also when the
\* destination is one of the sources, and no other register changes: the word
\* forms, shift counts and cases of division of execute.c.
ResultIsArchitectural ==
  [][Executed =>
       /\ \A r \in Regs \ {ins.rd} : reg'[r] = reg[r]
       /\ ins.op \in ImmOps \cup RegOps \cup MulDivOps /\ ins.rd # 0 /\ ~Deviates =>
            Arch!IsResult(ins.op, rs1val, Operand, reg'[ins.rd])
       /\ ins.op \in Branches =>
            pc' = IF Arch!Taken(ins.op, rs1val, rs2val) THEN Target ELSE next_pc
       /\ ins.op \in {"JAL", "JALR"} /\ ins.rd # 0 => reg'[ins.rd] = next_pc
       /\ ins.op = "JAL" => pc' = Target
       /\ ins.op = "JALR" /\ ~Deviates => pc' = Arch!JumpTarget(rs1val, ins.imm)
       /\ ins.op \in NoOps /\ ~Deviates => reg' = reg
    ]_vars

\* A failed access leaves no trace of itself, so that the guest's handler may
\* map the page and run the instruction again: it reports the address and the
\* location, and changes neither registers nor memory, whatever order execute
\* computes and stores in.  An access that does not fail does not trap.  The
\* loads that are reported as stores are the four of execute.c that are
\* written so.
ReportedAsStore == {"LR_D", "LR_W", "FLW", "FLD"}

FaultsArePrecise ==
  [][Executed =>
       LET fails  == \/ ins.op \in MemoryOps /\ mmu(Address) = Fault
                     \/ ins.op \in CsrOps /\ CsrKind[ins.csr] = "absent"
           isLoad == ins.op \in {"LB", "LH", "LW", "LD", "LBU", "LHU", "LWU",
                                 "FLD", "FLW", "LR_D", "LR_W"} \ ReportedAsStore
       IN  IF fails
             THEN /\ UNCHANGED state /\ pc' = Vector
                  /\ trap'.epc = pc
                  /\ ins.op \in MemoryOps =>
                       /\ trap'.tval = Wrap(rs1val + (IF ins.op \in Atomics THEN 0 ELSE ins.imm), X)
                       /\ trap'.cause = IF isLoad THEN "load_page_fault" ELSE "store_page_fault"
             ELSE UNCHANGED trap
    ]_vars

\* The bytes of an access as the architecture sees them: each at the frame of
\* its own page.
Places(addr, size) == [i \in 0 .. size - 1 |-> mmu(Wrap(addr + i, X))]

Number(bytes, size) == LET upTo[n \in 0 .. size] ==
                             IF n = 0 THEN 0 ELSE upTo[n - 1] + (bytes[n - 1] * 2^(B * (n - 1)))
                       IN  upTo[size]

\* Loads, stores and atomic operations that stay in one page do what the
\* architecture says, however virtual and physical pages are arranged: they
\* read the bytes that the stores to the same page have left, change exactly
\* those they name, and the atomic ones return the value they replace, which
\* execute.c leaves with a zero high half in the word forms.  The
\* store-conditionals always succeed.
MemoryIsArchitectural ==
  [][LET size  == Arch!AccessSize(ins.op)
         n     == B * size
         place == Places(Address, size)
         old   == Number([i \in 0 .. size - 1 |-> memory[place[i]]], size)
         new   == Number([i \in 0 .. size - 1 |-> memory'[place[i]]], size)
         data  == Wrap(rs2val, n)
         rdIs(v) == ins.rd # 0 => reg'[ins.rd] = v
     IN  Executed /\ ins.op \in MemoryOps /\ mmu(Address) # Fault
           /\ (Address % PageSize) + size <= PageSize =>
           /\ \A a \in DOMAIN memory :
                memory'[a] # memory[a] => \E i \in 0 .. size - 1 : a = place[i]
           /\ ins.op \in Loads \cup FpLoads \cup {"LR_D", "LR_W"} => memory' = memory
           /\ ins.op \in {"LB", "LH", "LW", "LD", "LR_W", "LR_D"} => rdIs(SignExtend(old, n))
           /\ ins.op \in {"LBU", "LHU", "LWU"} => rdIs(old)
           /\ ins.op \in Stores \cup {"SC_D", "SC_W"} => new = data
           /\ ins.op \in {"SC_D", "SC_W"} => rdIs(0)
           /\ ins.op \in {"AMO_D", "AMO_W"} =>
                rdIs(old) /\ Arch!Combines(ins.params, old, data, n, new)
    ]_vars
=============================================================================
