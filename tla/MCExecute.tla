----------------------------- MODULE MCExecute -----------------------------
(***************************************************************************)
(* The executor with one-bit bytes: words of 4 and registers of 8 bits,    *)
(* pages of 16 bytes, four frames of memory under sixteen virtual pages.   *)
(* Each location of the code holds one group of instructions, any one of   *)
(* which may be there; a behaviour starts in front of one group with       *)
(* operands sampled from the boundaries of the widths.                     *)
(***************************************************************************)
EXTENDS Threads, TLC

CONSTANT Unmapped

\* Zero, small numbers and shift counts, and the numbers around the sign bits
\* of both widths; the address sample meets every page and its ends.
Sample == {0, 1, 3, 7, 8, 15, 16, 24, 120, 127, 128, 136, 143, 240, 248, 255}
Addresses == {0, 3, 8, 12, 15, 16, 20, 24, 31, 40, 112, 117, 120, 127, 240, 248, 255}
Frames == 4

\* Pages 0 and 15 share a frame, and page 1 lies behind a frame of page 7.
MCPageTable == [v \in 0 .. 15 |-> CASE v \in {0, 15} -> 0 [] v = 1 -> 2 [] v = 7 -> 1
                                    [] OTHER -> Unmapped]

MCCsrKind == [c \in {"mscratch", "scounteren", "time", "pmpaddr16", "number0", "missing"} |->
                CASE c = "mscratch"   -> "plain"   [] c = "scounteren" -> "fixed"
                  [] c = "time"       -> "counter" [] c = "pmpaddr16"  -> "absent"
                  [] c = "number0"    -> "zero"    [] c = "missing"    -> "unknown"]
MCClock == {6, 129}

AmoKinds == {"ADD", "SWAP", "XOR", "OR", "AND", "MIN", "MAX", "MINU", "MAXU"}

RegGroup == {Ins(op, rd, 1, 2, 0) : op \in RegOps \cup MulDivOps, rd \in {0, 1, 3}}
            \cup {Ins(op, 0, 1, 2, 252) : op \in Branches}
ImmGroup == {Ins(op, rd, 1, 0, imm) : op \in ImmOps, rd \in {1, 3}, imm \in Sample}
            \cup {Ins("JALR", rd, 1, 0, imm) : rd \in {0, 1}, imm \in {0, 1, 248}}
            \cup {[Ins("JAL", 3, 0, 0, 250) EXCEPT !.len = 2]}
            \cup {Ins(op, 2, 0, 0, 240) : op \in {"LUI", "AUIPC"}}
            \cup {Ins(op, 0, 0, 0, 0) : op \in NoOps \cup {"EBREAK"}}
            \cup {Ins(op, 3, 0, 0, 0) : op \in NoOps \ {"NOP"}}
MemoryGroup == {Ins(op, 3, 1, 0, imm) : op \in Loads \cup FpLoads, imm \in {0, 248}}
               \cup {Ins(op, 1, 1, 0, 0) : op \in Loads}
               \cup {Ins(op, 0, 1, 2, imm) : op \in Stores \cup FpStores, imm \in {0, 8}}
               \cup {Ins(op, rd, 1, 0, 0) : op \in {"LR_D", "LR_W"}, rd \in {0, 3}}
               \cup {[Ins(op, rd, 1, 2, 0) EXCEPT !.params = "LR_SC"] :
                       op \in {"SC_D", "SC_W"}, rd \in {0, 2}}
               \cup {[Ins(op, rd, 1, 2, 0) EXCEPT !.params = kind] :
                       op \in {"AMO_D", "AMO_W"}, rd \in {0, 2}, kind \in AmoKinds}
CsrGroup == {[Ins(op, 3, 1, 0, 5) EXCEPT !.csr = c] : op \in CsrOps, c \in DOMAIN MCCsrKind}
FpGroup  == {Ins("FMV_W_X", 3, 1, 0, 0), Ins("FLD", 3, 0, 0, 0), Ins("FSD", 0, 0, 3, 8),
             Ins("FSW", 0, 0, 1, 4)}

\* Where the groups are.
RegAt == 32
ImmAt == 48
MemoryAt == 64
CsrAt == 80
FpAt == 96

Groups == [l \in {RegAt, ImmAt, MemoryAt, CsrAt, CsrAt + 4, FpAt, FpAt + 4} |->
             CASE l = RegAt -> RegGroup [] l = ImmAt -> ImmGroup [] l = MemoryAt -> MemoryGroup
               [] l \in {CsrAt, CsrAt + 4} -> CsrGroup [] l \in {FpAt, FpAt + 4} -> FpGroup]

Regs4(a, b, c) == [r \in Regs |-> CASE r = 0 -> 0 [] r = 1 -> a [] r = 2 -> b [] r = 3 -> c]
Zeros    == [a \in 0 .. (Frames * PageSize) - 1 |-> 0]
Patterns == {[a \in DOMAIN Zeros |-> (a \div 3) % 2], [a \in DOMAIN Zeros |-> ((a + 1) \div 4) % 2]}

\* No second thread.
Alone == [pc |-> 0, reg |-> Regs4(0, 0, 0)]

Start(at, regs, mem, second) == [pc |-> at, reg |-> regs, memory |-> mem, other |-> second]
TestStarts ==
  {Start(RegAt, Regs4(a, b, 9), Zeros, Alone) : a \in Sample, b \in Sample}
  \cup {Start(l, Regs4(a, 2, 9), Zeros, Alone) : l \in {ImmAt, CsrAt, FpAt}, a \in Sample}
  \cup {Start(MemoryAt, Regs4(a, b, 9), m, Alone) :
          a \in Addresses, b \in {0, 9, 120, 143}, m \in Patterns}
ThreadStarts(base) ==
  LET thread == [pc |-> ThreadAt, reg |-> Regs4(base, 0, 1)]
  IN  {Start(ThreadAt, thread.reg, Zeros, thread)}

MCCode   == Groups @@ Program(Locked)
MCStarts == TestStarts \cup ThreadStarts(LockAddr)
ReservedCode   == Program(Reserved)
ReservedStarts == ThreadStarts(CounterAddr)

\* The premise under which no update is lost.
ASSUME GuestAssumption == LockedGuest \/ Starts = ReservedStarts
=============================================================================
