------------------------------- MODULE Memory -------------------------------
(***************************************************************************)
(* The memory system seen by the CPU thread: Sv39 translation (src/mmu.c), *)
(* the routing of physical addresses to devices (src/address_space.c), the *)
(* RAM (src/ram.c) and the instruction fetch (src/xemu.c).                 *)
(*                                                                         *)
(* Memory consists of cells.  A cell holds a page table entry, some data,  *)
(* or half an instruction; a page has as many cells as a table has         *)
(* entries, and an address is a number whose digits, in base Entries, are  *)
(* vpn[2], vpn[1], vpn[0] and the offset.  There is no translation cache:  *)
(* the guest's tables are read on every access, and the guest changes them *)
(* with ordinary stores.                                                   *)
(***************************************************************************)
EXTENDS Integers, Sequences, FiniteSets, FiniteSetsExt

CONSTANTS Entries,    \* the entries of a page table (512)
          Regions,    \* the registered address spaces, in order of registration
          Contents,   \* what the guest stores: entries, which may be data as well
          Roots,      \* the root tables the guest puts in satp
          MaxStores   \* bound on the number of stores

\* How many addresses differ in their last k digits: Entries to the k-th, as a
\* product, which the provers can compute with.
Span(k) == CASE k = 0 -> 1
             [] k = 1 -> Entries
             [] k = 2 -> Entries * Entries
             [] k = 3 -> Entries * Entries * Entries
             [] k = 4 -> Entries * Entries * Entries * Entries

Bare  == -1                  \* satp.MODE = 0
Pages == 0..(Span(3) - 1)
Addresses == 0..(Span(4) - 1)

Entry == [v : BOOLEAN, r : BOOLEAN, w : BOOLEAN, x : BOOLEAN, ppn : Pages]
Zero  == [v |-> FALSE, r |-> FALSE, w |-> FALSE, x |-> FALSE, ppn |-> 0]

ASSUME MemoryAssumption ==
  /\ Entries \in Nat \ {0, 1}
  /\ Regions \in Seq([start : Addresses, end : Addresses, kind : {"ram", "mmio"}])
  /\ Contents \subseteq Entry
  /\ Roots \subseteq Pages
  /\ MaxStores \in Nat

\* The cells of a kind of device.
Cells(kind) == UNION {Regions[i].start..Regions[i].end :
                        i \in {j \in DOMAIN Regions : Regions[j].kind = kind}}
RamCells == Cells("ram")

VARIABLES mem,      \* the RAM
          mmio,     \* the register of the other device
          satp, priv,
          stores,   \* number of stores so far
          panic     \* the program has panicked

vars == <<mem, mmio, satp, priv, stores, panic>>

Init == /\ mem = [c \in RamCells |-> Zero]
        /\ mmio = Zero
        /\ satp = Bare
        /\ priv = "M"
        /\ stores = 0
        /\ panic = FALSE

-----------------------------------------------------------------------------
(* Physical accesses: as_read_nommu, as_write_nommu, ram_read.             *)

\* register_address_space puts a child at the head of the list, which is
\* searched from there: the last region that holds the address.
Route(pa) ==
  LET hits == {i \in DOMAIN Regions : Regions[i].start <= pa /\ pa <= Regions[i].end}
  IN  IF hits = {} THEN "none" ELSE Regions[Max(hits)].kind

\* The cell at pa; an address without a device ends in as_read_dummy, a panic.
Answer(kind, value) == [kind |-> kind, value |-> value]
Panic == Answer("panic", Zero)
Fault == Answer("fault", Zero)

as_read_nommu(pa) == CASE Route(pa) = "ram"  -> Answer("ok", mem[pa])
                       [] Route(pa) = "mmio" -> Answer("ok", mmio)
                       [] OTHER              -> Panic

-----------------------------------------------------------------------------
(* mmu.  Digit 3 of a virtual address is vpn[2], digit 0 the offset.       *)

Digit(va, k) == (va \div Span(k)) % Entries

Paging == priv # "M" /\ satp # Bare

\* The checks that every level makes of its entry.
Invalid(pte) == ~pte.v \/ (~pte.r /\ pte.w)
IsLeaf(pte)  == pte.r \/ pte.x

\* Mutant: a leaf of level 1 keeps only the offset in the page.
Leaf1Page(pte, va) == (pte.ppn \div Entries) * Span(2) + (va % Entries)

\* The physical address in a leaf of each level: a large page takes the low
\* digits from the virtual address.
Leaf2(pte, va) == (pte.ppn \div Span(2)) * Span(3) + (va % Span(3))
Leaf1(pte, va) == (pte.ppn \div Entries) * Span(2) + (va % Span(2))
Leaf0(pte, va) == pte.ppn * Entries + (va % Entries)

At(pa) == [kind |-> "ok", pa |-> pa]
NoPage == [kind |-> "fault", pa |-> 0]
Broken == [kind |-> "panic", pa |-> 0]

\* The entry of a level decides: an answer without a device, a bad entry, a leaf
\* with the address pa, or what the next level says.
Level(answer, pa, lower) ==
  CASE answer.kind = "panic" -> Broken
    [] answer.kind = "ok" /\ Invalid(answer.value) -> NoPage
    [] answer.kind = "ok" /\ ~Invalid(answer.value) /\ IsLeaf(answer.value) -> At(pa)
    [] OTHER -> lower

PteAt(table, k, va) == as_read_nommu(table * Entries + Digit(va, k))

level0(table, va) ==
  LET answer == PteAt(table, 1, va)
  IN  Level(answer, Leaf0(answer.value, va), NoPage)

level1(table, va) ==
  LET answer == PteAt(table, 2, va)
  IN  Level(answer, Leaf1(answer.value, va), level0(answer.value.ppn, va))

level2(table, va) ==
  LET answer == PteAt(table, 3, va)
  IN  Level(answer, Leaf2(answer.value, va), level1(answer.value.ppn, va))

mmu(va) == IF Paging THEN level2(satp, va) ELSE At(va)

-----------------------------------------------------------------------------
(* The accesses of the CPU.                                                *)

as_read(va) == LET to == mmu(va)
               IN  CASE to.kind = "ok"    -> as_read_nommu(to.pa)
                     [] to.kind = "fault" -> Fault
                     [] OTHER             -> Panic

\* An instruction, as its two halves, or the address that faults.
Fetched(lo, hi) == [kind |-> "ok", lo |-> lo, hi |-> hi, tval |-> 0]
Faulted(va)     == [kind |-> "fault", lo |-> Zero, hi |-> Zero, tval |-> va]
Crashed         == [kind |-> "panic", lo |-> Zero, hi |-> Zero, tval |-> 0]

\* Both halves in one access: the second is behind the first in physical memory.
FetchWhole(pc) ==
  LET first == as_read(pc)
  IN  CASE first.kind = "ok"    -> Fetched(first.value,
                                           as_read_nommu(mmu(pc).pa + 1).value)
        [] first.kind = "fault" -> Faulted(pc)
        [] OTHER                -> Crashed

\* Mutant: the page boundary is not looked at.
fetch_unsplit(pc) == FetchWhole(pc)

\* fetch: an instruction that begins in the last cell of a page is read in two
\* halves.
fetch(pc) ==
  LET lo == as_read(pc)
      hi == as_read(pc + 1)
  IN  CASE (pc + 1) % Entries # 0 -> FetchWhole(pc)
        [] (pc + 1) % Entries = 0 /\ lo.kind = "fault" -> Faulted(pc)
        [] (pc + 1) % Entries = 0 /\ lo.kind = "panic" -> Crashed
        [] (pc + 1) % Entries = 0 /\ lo.kind = "ok" ->
             (CASE hi.kind = "ok"    -> Fetched(lo.value, hi.value)
                [] hi.kind = "fault" -> Faulted(pc + 1)
                [] OTHER             -> Crashed)

-----------------------------------------------------------------------------
(* The guest.                                                              *)

Running == ~panic

\* Mutant: as_write ignores the result of mmu, which has left the address of the
\* faulting entry in paddr.
StoreUnchecked(va, value) ==
  LET pa == IF mmu(va).kind = "ok" \/ ~Paging THEN mmu(va).pa
            ELSE satp * Entries + Digit(va, 3)
  IN  /\ Running
      /\ stores < MaxStores
      /\ stores' = stores + 1
      /\ mem' = IF Route(pa) = "ram" THEN [mem EXCEPT ![pa] = value] ELSE mem
      /\ UNCHANGED <<mmio, satp, priv, panic>>

\* as_write: a fault stores nothing (execute traps), a hole panics.
Store(va, value) ==
  LET to == mmu(va)
      target == IF to.kind = "ok" THEN Route(to.pa) ELSE to.kind
  IN  /\ Running
      /\ stores < MaxStores
      /\ stores' = stores + 1
      /\ mem' = IF target = "ram" THEN [mem EXCEPT ![to.pa] = value] ELSE mem
      /\ mmio' = IF target = "mmio" THEN value ELSE mmio
      /\ panic' = (target \in {"none", "panic"})
      /\ UNCHANGED <<satp, priv>>

\* A load or a fetch that finds no device, or no device to walk through.
Access(va) == /\ Running
              /\ as_read(va).kind = "panic"
              /\ panic' = TRUE
              /\ UNCHANGED <<mem, mmio, satp, priv, stores>>

WriteSatp(root) == /\ Running
                   /\ satp' = root
                   /\ UNCHANGED <<mem, mmio, priv, stores, panic>>

\* A trap or a return from one.
ChangePriv == /\ Running
              /\ priv' = IF priv = "M" THEN "S" ELSE "M"
              /\ UNCHANGED <<mem, mmio, satp, stores, panic>>

Next == \/ \E va \in Addresses, value \in Contents : Store(va, value)
        \/ \E va \in Addresses : Access(va)
        \/ \E root \in Roots \cup {Bare} : WriteSatp(root)
        \/ ChangePriv

Spec == Init /\ [][Next]_vars

-----------------------------------------------------------------------------
(* Correctness.                                                            *)

\* The walk of the privileged architecture, as a loop over the levels.
Walk(va) ==
  LET step[level \in 0..2] ==
        [table \in Pages |->
           LET answer == as_read_nommu(table * Entries + Digit(va, level + 1))
               pte == answer.value
               size == Span(level)
           IN  CASE answer.kind = "panic" -> Broken
                 [] answer.kind = "ok" /\ (~pte.v \/ (pte.w /\ ~pte.r)) -> NoPage
                 [] answer.kind = "ok" /\ pte.v /\ (pte.r \/ (pte.x /\ ~pte.w)) ->
                      At(((pte.ppn \div size) * size
                           + ((va \div Entries) % size)) * Entries + (va % Entries))
                 [] OTHER -> IF level = 0 THEN NoPage ELSE step[level - 1][pte.ppn]]
  IN  step[2][satp]

\* The three unrolled levels of mmu, with their own masks and shifts, compute what
\* the loop of the architecture does, on whatever tables the guest has built.
WalkIsSv39 == Paging => \A va \in Addresses : mmu(va) = Walk(va)

\* An instruction is what two loads of its halves would find, also at the end of a
\* page, and a fault names the half that faults.
FetchIsTwoLoads ==
  \A pc \in Addresses \ {Span(4) - 1} :
    LET lo == as_read(pc)
        hi == as_read(pc + 1)
    IN  fetch(pc).kind # "panic" =>
          fetch(pc) = CASE lo.kind = "fault" -> Faulted(pc)
                        [] lo.kind = "ok" /\ hi.kind = "fault" -> Faulted(pc + 1)
                        [] OTHER -> Fetched(lo.value, hi.value)

\* The tables that are n pointers away from the root, and the cells that a leaf of
\* such a table opens.
EntriesOf(table) == {as_read_nommu(c).value :
                       c \in {table * Entries + i : i \in 0..(Entries - 1)}}
Pointers(table)  == {pte.ppn : pte \in {e \in EntriesOf(table) :
                                           e.v /\ ~e.r /\ ~e.w /\ ~e.x}}
Opened(table, size) ==
  UNION {LET first == (pte.ppn \div size) * size * Entries
         IN  first..(first + size * Entries - 1) :
           pte \in {e \in EntriesOf(table) : e.v /\ (e.r \/ e.x)}}
Mapped ==
  LET second == Pointers(satp)
      third == UNION {Pointers(t) : t \in second}
  IN  Opened(satp, Span(2))
        \cup (UNION {Opened(t, Entries) : t \in second})
        \cup (UNION {Opened(t, 1) : t \in third})

\* Supervisor code changes only what a leaf of its own tables opens, even while it
\* edits those tables; a faulting store changes nothing.
StoresStayInside ==
  [][Paging => \A c \in RamCells : mem'[c] # mem[c] => c \in Mapped]_vars
=============================================================================
