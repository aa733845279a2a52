-------------------------------- MODULE Ram --------------------------------
(***************************************************************************)
(* Guest memory as a load or store meets it: as_read and as_write of       *)
(* src/address_space.c, byte by byte, in front of src/ram.c with its       *)
(* atomic operations.  The page tables (module Memory) are a fixed map     *)
(* here; `memory' is the array of the RAM device.                          *)
(***************************************************************************)
EXTENDS Widths

CONSTANTS PageSize,    \* bytes of a page
          PageTable,   \* the frame of each virtual page, or
          Fault        \* no translation

ASSUME RamAssumption ==
  /\ PageSize \in Nat \ {0} /\ 2^X % PageSize = 0
  /\ \A a \in Dword : a \div PageSize \in DOMAIN PageTable
  /\ \A v \in DOMAIN PageTable : PageTable[v] = Fault \/ PageTable[v] \in Nat

\* The array of the device: it has every byte that an access to a page may meet.
IsRam(memory) ==
  /\ memory = [a \in DOMAIN memory |-> memory[a]]
  /\ \A a \in DOMAIN memory : memory[a] \in Byte
  /\ \A v \in DOMAIN PageTable : PageTable[v] # Fault =>
       LET base == PageTable[v] * PageSize IN base .. base + PageSize + 6 \subseteq DOMAIN memory

mmu(vaddr) == LET frame == PageTable[vaddr \div PageSize]
              IN  IF frame = Fault THEN Fault
                  ELSE (frame * PageSize) + (vaddr % PageSize)

\* memcpy to and from an integer of `size' bytes, little-endian.
ram_read(memory, addr, size) ==
  LET upTo[n \in 0 .. size] ==
        IF n = 0 THEN 0 ELSE upTo[n - 1] + (memory[addr + n - 1] * 2^(B * (n - 1)))
  IN  upTo[size]

Copied(memory, addr, size, data) ==
  [a \in DOMAIN memory |->
     IF a \in addr .. addr + size - 1
       THEN (data \div 2^(B * (a - addr))) % 2^B ELSE memory[a]]

\* The bit of x ? y that is 1 where the bits of x and y satisfy the table.
Bitwise(x, y, table) ==
  LET upTo[n \in 0 .. X] ==
        IF n = 0 THEN 0
        ELSE upTo[n - 1] + (IF <<(x \div 2^(n - 1)) % 2, (y \div 2^(n - 1)) % 2>> \in table
                              THEN 2^(n - 1) ELSE 0)
  IN  upTo[X]

XorBits(x, y) == Bitwise(x, y, {<<0, 1>>, <<1, 0>>})
OrBits(x, y)  == Bitwise(x, y, {<<0, 1>>, <<1, 0>>, <<1, 1>>})
AndBits(x, y) == Bitwise(x, y, {<<1, 1>>})

\* Mutant: the comparisons of MIN and MAX are unsigned.
amo_unsigned(orig, data, params, n) ==
  CASE params \in {"MIN", "MINU"} -> IF data < orig THEN data ELSE orig
    [] params \in {"MAX", "MAXU"} -> IF data > orig THEN data ELSE orig
    [] params = "ADD" -> Wrap(orig + data, n)
    [] params = "XOR" -> XorBits(orig, data)
    [] params = "OR"  -> OrBits(orig, data)
    [] params = "AND" -> AndBits(orig, data)
    [] OTHER -> data

\* Mutant: a swap stores nothing.
amo_no_swap(orig, data, params, n) == IF params = "SWAP" THEN orig ELSE data

\* The operations that ram_write is given, the plain store among them.
AmoParams == {"NONE", "LR_SC", "SWAP", "ADD", "XOR", "OR", "AND", "MIN", "MAX", "MINU", "MAXU"}

\* _amo32 and _amo64: what is stored, for n-bit operands.
amo(orig, data, params, n) ==
  CASE params = "MIN"  -> IF Signed(data, n) < Signed(orig, n) THEN data ELSE orig
    [] params = "MAX"  -> IF Signed(data, n) > Signed(orig, n) THEN data ELSE orig
    [] params = "MINU" -> IF data < orig THEN data ELSE orig
    [] params = "MAXU" -> IF data > orig THEN data ELSE orig
    [] params = "ADD"  -> Wrap(orig + data, n)
    [] params = "XOR"  -> XorBits(orig, data)
    [] params = "OR"   -> OrBits(orig, data)
    [] params = "AND"  -> AndBits(orig, data)
    [] params \in {"NONE", "LR_SC", "SWAP"} -> data

\* What ram_write returns: the old value, and 0 for a store-conditional.
Returned(memory, addr, size, params) ==
  IF params = "LR_SC" THEN 0 ELSE ram_read(memory, addr, size)

\* The memory after ram_write.
ram_write(memory, addr, size, data, params) ==
  LET orig == Returned(memory, addr, size, params)
  IN  Copied(memory, addr, size,
             IF size \in {4, 8} THEN amo(orig, Wrap(data, B * size), params, B * size)
                                ELSE data)
=============================================================================
