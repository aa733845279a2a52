------------------------------ MODULE Threads ------------------------------
(***************************************************************************)
(* Two guest threads on the executor, each of which increments a counter   *)
(* once: under a spin lock taken with AMO_SWAP_W (Locked), or with LR_W    *)
(* and SC_W (Reserved), as kernels do it.                                  *)
(***************************************************************************)
EXTENDS Execute, Sequences

CONSTANTS ThreadAt,   \* where the code of the threads begins
          LockAddr    \* the lock; the counter is the word behind it

CounterAddr == LockAddr + 4

Plain == [op |-> "NOP", params |-> "NONE", rd |-> 0, rs1 |-> 1, rs2 |-> 2, imm |-> 0,
          csr |-> "mscratch", len |-> 4]

\* No operation of the decoder names a destination it does not write.
Ins(op, rd, rs1, rs2, imm) ==
  [Plain EXCEPT !.op = op, !.rd = rd, !.rs1 = rs1, !.rs2 = rs2, !.imm = imm]

\* Register 1 is the address, register 3 is 1; a branch goes back by n bytes.
Back(n) == 2^X - n

Locked == <<{[Ins("AMO_W", 2, 1, 3, 0) EXCEPT !.params = "SWAP"]},
            {Ins("BNE", 0, 2, 0, Back(4))},
            {Ins("LW", 2, 1, 0, 4)}, {Ins("ADDI", 2, 2, 0, 1)}, {Ins("SW", 0, 1, 2, 4)},
            {Ins("SW", 0, 1, 0, 0)}>>
Reserved == <<{Ins("LR_W", 2, 1, 0, 0)}, {Ins("ADDI", 2, 2, 0, 1)},
              {[Ins("SC_W", 2, 1, 2, 0) EXCEPT !.params = "LR_SC"]},
              {Ins("BNE", 0, 2, 0, Back(12))}>>

Program(code) == [l \in {ThreadAt + (4 * (i - 1)) : i \in DOMAIN code} |->
                    code[((l - ThreadAt) \div 4) + 1]]
End(code) == ThreadAt + (4 * Len(code))

\* Both threads are in front of their code, the lock is free, nothing is counted.
ThreadStart(s) ==
  /\ \A t \in {s, s.other} : t.pc = ThreadAt /\ t.reg[1] = LockAddr /\ t.reg[3] = 1
  /\ \A i \in 0 .. 7 : s.memory[mmu(LockAddr) + i] = 0

\* The guest is two threads that run `Locked', or anything that never
\* switches; lock and counter are in one mapped page.
LockedGuest ==
  /\ ThreadAt \in Nat
  /\ DOMAIN Program(Locked) \subseteq DOMAIN Code
  /\ \A l \in DOMAIN Program(Locked) : Code[l] = Program(Locked)[l]
  /\ End(Locked) \in Dword \ DOMAIN Code
  /\ LockAddr \in Dword /\ (LockAddr % PageSize) + 8 <= PageSize
  /\ Fault \notin {mmu(LockAddr), mmu(CounterAddr)}
  /\ \A s \in Starts :
       ThreadStart(s) \/ s.other.pc \notin DOMAIN Code \cup {End(Locked)}

\* Two guest threads that increment a word under a lock taken with AMO_SWAP_W,
\* or with LR_W and SC_W, lose no increment, wherever the kernel switches
\* between them: the atomic operations of ram_write and execute.c.
NoLostUpdate ==
  LET ends == {End(Locked), End(Reserved)} \ DOMAIN Code
  IN  pc \in ends /\ other.pc \in ends => ram_read(memory, mmu(CounterAddr), 4) = 2
=============================================================================
