---------------------------- MODULE FetchProofs ----------------------------
(***************************************************************************)
(* Proofs about Memory and Decode, from the address of an instruction to   *)
(* its operands.  Memory, for page tables of any size, whatever the guest  *)
(* has put in them, and any devices at any addresses: the walk is that of  *)
(* the architecture, an instruction is its two halves, and stores change   *)
(* nothing but what the tables open.  Decode, for every compressed         *)
(* instruction and every operation of the listing, with any registers,     *)
(* csrs and immediates: the decoders say what the listing says.            *)
(***************************************************************************)
EXTENDS Memory, Decode, SequenceTheorems, WellFoundedInduction, TLAPS


-----------------------------------------------------------------------------
(* Arithmetic.                                                             *)

\* A quotient and a remainder in range determine a division.
LEMMA DivModIs ==
  ASSUME NEW n \in Nat \ {0}, NEW q \in Int, NEW r \in 0..(n - 1)
  PROVE  (n * q + r) % n = r /\ (n * q + r) \div n = q
<1> DEFINE a == n * q + r
           x == a \div n
           s == a % n
<1>1. a \in Int
  OBVIOUS
<1> HIDE DEF a
<1>2. s \in 0..(n - 1) /\ x \in Int /\ a = n * x + s
  BY <1>1
<1>3. n * q + r = n * x + s
  BY <1>2 DEF a
<1> HIDE DEF x, s
<1>4. ~(q > x)
  <2> SUFFICES ASSUME q > x PROVE FALSE
    OBVIOUS
  <2>1. q - x - 1 \in Nat /\ n * q = n * x + n + n * (q - x - 1)
    BY <1>2
  <2>2. n * (q - x - 1) \in Nat
    BY <2>1
  <2> QED
    BY <1>2, <1>3, <2>1, <2>2
<1>5. ~(x > q)
  <2> SUFFICES ASSUME x > q PROVE FALSE
    OBVIOUS
  <2>1. x - q - 1 \in Nat /\ n * x = n * q + n + n * (x - q - 1)
    BY <1>2
  <2>2. n * (x - q - 1) \in Nat
    BY <2>1
  <2> QED
    BY <1>2, <1>3, <2>1, <2>2
<1>6. r = s /\ q = x
  BY <1>2, <1>3, <1>4, <1>5
<1> QED
  BY <1>6 DEF s, x, a

\* Dividing in two steps is dividing by the product.
LEMMA TwoSteps ==
  ASSUME NEW m \in Nat \ {0}, NEW n \in Nat \ {0}, NEW a \in Nat
  PROVE  /\ (a \div m) \div n = a \div (n * m)
         /\ a % (n * m) = ((a \div m) % n) * m + (a % m)
<1> DEFINE q == a \div m
           r == a % m
           x == q \div n
           s == q % n
<1>1. q \in Nat /\ r \in 0..(m - 1) /\ a = m * q + r
  OBVIOUS
<1>2. x \in Nat /\ s \in 0..(n - 1) /\ q = n * x + s
  <2> HIDE DEF q
  <2> QED
    BY <1>1
<1> HIDE DEF q, r, x, s
<1>3. a = (n * m) * x + (s * m + r)
  <2>1. m * q = m * (n * x) + m * s
    BY <1>1, <1>2
  <2>2. m * (n * x) = (n * m) * x /\ m * s = s * m
    BY <1>1, <1>2
  <2> QED
    BY <1>1, <1>2, <2>1, <2>2
<1>4. n * m \in Nat \ {0} /\ s * m + r \in 0..(n * m - 1)
  <2>1. n * m \in Nat \ {0}
    OBVIOUS
  <2>2. s * m \in Nat /\ (n - 1 - s) * m \in Nat /\ n - 1 - s \in Nat
    BY <1>2
  <2>3. (n - 1 - s) * m = n * m - m - s * m
    BY <1>2
  <2> QED
    BY <1>1, <2>1, <2>2, <2>3
<1>5. ((n * m) * x + (s * m + r)) % (n * m) = s * m + r
      /\ ((n * m) * x + (s * m + r)) \div (n * m) = x
  <2> DEFINE p == n * m
             t == s * m + r
  <2>1. p \in Nat \ {0} /\ t \in 0..(p - 1) /\ x \in Int
    BY <1>2, <1>4
  <2> HIDE DEF p, t
  <2>2. (p * x + t) % p = t /\ (p * x + t) \div p = x
    BY <2>1, DivModIs
  <2> QED
    BY <2>2 DEF p, t
<1> QED
  BY <1>3, <1>5 DEF x, s, q, r

\* The next address has the same digits but for the last, unless a page ends.
LEMMA NextInPage ==
  ASSUME NEW m \in Nat \ {0}, NEW a \in Nat, (a + 1) % m # 0
  PROVE  (a + 1) \div m = a \div m /\ (a + 1) % m = (a % m) + 1
<1> DEFINE q == a \div m
           r == a % m
<1>1. q \in Nat /\ r \in 0..(m - 1) /\ a = m * q + r
  OBVIOUS
<1> HIDE DEF q, r
<1>2. CASE r = m - 1
  <2>1. a + 1 = m * (q + 1) + 0
    BY <1>1, <1>2
  <2>2. q + 1 \in Int /\ 0 \in 0..(m - 1)
    BY <1>1
  <2>3. (m * (q + 1) + 0) % m = 0
    BY <2>2, DivModIs
  <2> QED
    BY <2>1, <2>3
<1>3. CASE r # m - 1
  <2>1. a + 1 = m * q + (r + 1) /\ r + 1 \in 0..(m - 1) /\ q \in Int
    BY <1>1, <1>3
  <2>2. (m * q + (r + 1)) % m = r + 1 /\ (m * q + (r + 1)) \div m = q
    BY <2>1, DivModIs
  <2> QED
    BY <2>1, <2>2 DEF q, r
<1> QED
  BY <1>2, <1>3

\* A set of numbers that is not empty has a least one.
LEMMA Least ==
  ASSUME NEW S \in SUBSET Nat, S # {}
  PROVE  \E x \in S : \A y \in S : x <= y
<1>1. PICK x \in S : \A y \in S : <<y, x>> \notin OpToRel(<, Nat)
  BY NatLessThanWellFounded, WFMin, Zenon
<1>2. \A y \in S : ~(y < x)
  BY <1>1, Zenon DEF OpToRel
<1> QED
  BY <1>2

\* A set of places in a list has a greatest, and Max finds it.
LEMMA Greatest ==
  ASSUME NEW n \in Nat, NEW S \in SUBSET (1..n), S # {}
  PROVE  Max(S) \in S
<1> DEFINE T == {n - i : i \in S}
<1>1. T \in SUBSET Nat /\ T # {}
  <2>1. \A i \in S : n - i \in Nat
    OBVIOUS
  <2> QED
    BY <2>1
<1>2. PICK x \in T : \A y \in T : x <= y
  BY <1>1, Least
<1>3. PICK i \in S : x = n - i
  BY <1>2
<1>4. \A j \in S : n - i <= n - j
  BY <1>2, <1>3
<1>5. ASSUME NEW j \in S PROVE i >= j
  <2>1. i \in Int /\ j \in Int /\ n - i <= n - j
    BY <1>4
  <2> QED
    BY <2>1
<1>6. \E k \in S : \A j \in S : k >= j
  BY <1>5
<1> QED
  BY <1>6 DEF Max

-----------------------------------------------------------------------------
(* Types.                                                                  *)

\* The powers.
LEMMA Spans ==
  /\ Entries \in Nat \ {0, 1}
  /\ Span(0) = 1 /\ Span(1) = Entries
  /\ Span(2) = Entries * Span(1) /\ Span(3) = Entries * Span(2) /\ Span(4) = Entries * Span(3)
  /\ Span(1) \in Nat \ {0} /\ Span(2) \in Nat \ {0} /\ Span(3) \in Nat \ {0}
  /\ Span(4) \in Nat \ {0}
<1>1. Entries \in Nat \ {0, 1}
  BY MemoryAssumption
<1>2. /\ Span(0) = 1 /\ Span(1) = Entries /\ Span(2) = Entries * Entries
      /\ Span(3) = Entries * Entries * Entries
      /\ Span(4) = Entries * Entries * Entries * Entries
  BY DEF Span
<1>3. Span(2) = Entries * Span(1) /\ Span(3) = Entries * Span(2) /\ Span(4) = Entries * Span(3)
  BY <1>1, <1>2
<1>4. Span(1) \in Nat \ {0}
  BY <1>1, <1>2
<1>5. Span(2) \in Nat \ {0}
  BY <1>1, <1>3, <1>4
<1>6. Span(3) \in Nat \ {0}
  BY <1>1, <1>3, <1>5
<1>7. Span(4) \in Nat \ {0}
  BY <1>1, <1>3, <1>6
<1> QED
  BY <1>1, <1>2, <1>3, <1>4, <1>5, <1>6, <1>7

CellsOK == /\ mem \in [RamCells -> Entry] /\ mmio \in Entry
          /\ satp \in Pages \cup {Bare} /\ priv \in {"M", "S"}
          /\ stores \in Nat /\ panic \in BOOLEAN

\* An address that is routed to the RAM is a cell of the RAM.
LEMMA Routed ==
  ASSUME NEW pa \in Int
  PROVE  /\ Route(pa) \in {"none", "ram", "mmio"}
         /\ Route(pa) = "ram" => pa \in RamCells
<1> DEFINE hits == {i \in DOMAIN Regions : Regions[i].start <= pa /\ pa <= Regions[i].end}
           m    == Max(hits)
<1>1. /\ Regions \in Seq([start : Addresses, end : Addresses, kind : {"ram", "mmio"}])
      /\ DOMAIN Regions = 1..Len(Regions) /\ Len(Regions) \in Nat
  BY MemoryAssumption, LenProperties
<1>2. Addresses \subseteq Int
  BY Spans DEF Addresses
<1>3. CASE hits = {}
  BY <1>3 DEF Route
<1>4. CASE hits # {}
  <2>1. m \in hits
    BY <1>1, <1>4, Greatest
  <2>2. m \in DOMAIN Regions /\ Regions[m].start <= pa /\ pa <= Regions[m].end
    BY <2>1
  <2>3. Route(pa) = Regions[m].kind
    BY <1>4 DEF Route
  <2> HIDE DEF m, hits
  <2>4. Regions[m] \in [start : Addresses, end : Addresses, kind : {"ram", "mmio"}]
    BY <1>1, <2>2, ElementOfSeq
  <2>5. pa \in Regions[m].start..Regions[m].end
    BY <1>2, <2>2, <2>4
  <2>6. Route(pa) = "ram" => pa \in RamCells
    BY <2>2, <2>3, <2>5 DEF RamCells, Cells
  <2> QED
    BY <2>3, <2>4, <2>6
<1> QED
  BY <1>3, <1>4

\* An access of the physical memory finds an entry, or no device.
LEMMA Answered ==
  ASSUME CellsOK, NEW pa \in Int
  PROVE  /\ as_read_nommu(pa).kind \in {"ok", "panic"}
         /\ as_read_nommu(pa).value \in Entry
<1>1. Zero \in Entry
  BY Spans DEF Zero, Entry, Pages
<1>2. CASE Route(pa) = "ram"
  <2>1. mem[pa] \in Entry
    BY <1>2, Routed DEF CellsOK
  <2> QED
    BY <1>2, <2>1 DEF as_read_nommu, Answer
<1>3. CASE Route(pa) = "mmio"
  BY <1>3 DEF as_read_nommu, Answer, CellsOK
<1>4. CASE Route(pa) \notin {"ram", "mmio"}
  BY <1>1, <1>4 DEF as_read_nommu, Answer, Panic
<1> QED
  BY <1>2, <1>3, <1>4

\* The RAM starts zeroed, and translation off.
LEMMA TypeStart == Init => CellsOK
<1>1. Zero \in Entry
  BY Spans DEF Zero, Entry, Pages
<1>2. Init => mem \in [RamCells -> Entry] /\ mmio \in Entry
  <2> HIDE DEF Zero, Entry
  <2> QED
    BY <1>1 DEF Init
<1>3. Init => satp \in Pages \cup {Bare} /\ priv \in {"M", "S"} /\ stores \in Nat
  BY DEF Init
<1>4. Init => panic \in BOOLEAN
  BY Zenon DEF Init
<1> QED
  BY <1>2, <1>3, <1>4 DEF CellsOK

\* Every access and every write of satp keeps the types.
LEMMA TypeStep == CellsOK /\ [Next]_vars => CellsOK'
<1> SUFFICES ASSUME CellsOK, [Next]_vars PROVE CellsOK'
  OBVIOUS
<1> USE DEF CellsOK
<1>1. ASSUME NEW va \in Addresses, NEW value \in Contents, Store(va, value) PROVE CellsOK'
  <2>1. value \in Entry
    BY MemoryAssumption
  <2>2. PICK pa : mem' = mem \/ mem' = [mem EXCEPT ![pa] = value]
    BY <1>1 DEF Store
  <2>3. mem' \in [RamCells -> Entry]
    BY <2>1, <2>2
  <2>4. /\ mmio' \in {mmio, value} /\ stores' = stores + 1 /\ UNCHANGED <<satp, priv>>
        /\ panic' \in BOOLEAN
    BY <1>1 DEF Store
  <2> QED
    BY <2>1, <2>3, <2>4
<1>2. ASSUME NEW va \in Addresses, Access(va) PROVE CellsOK'
  BY <1>2 DEF Access
<1>3. ASSUME NEW root \in Roots \cup {Bare}, WriteSatp(root) PROVE CellsOK'
  <2>1. root \in Pages \cup {Bare}
    BY MemoryAssumption
  <2> QED
    BY <1>3, <2>1 DEF WriteSatp
<1>4. CASE ChangePriv
  BY <1>4 DEF ChangePriv
<1>5. CASE UNCHANGED vars
  BY <1>5 DEF vars
<1> QED
  BY <1>1, <1>2, <1>3, <1>4, <1>5 DEF Next

-----------------------------------------------------------------------------
(* The walk.                                                               *)

\* The entry of a level is one of its table, at a digit of the address.
LEMMA EntryAt ==
  ASSUME CellsOK, NEW table \in Pages, NEW k \in 1..3, NEW va \in Addresses
  PROVE  /\ PteAt(table, k, va).kind \in {"ok", "panic"}
         /\ PteAt(table, k, va).value \in Entry
         /\ PteAt(table, k, va).value \in EntriesOf(table)
<1>1. Span(k) \in Nat \ {0}
  <2>1. k = 1 \/ k = 2 \/ k = 3
    OBVIOUS
  <2> QED
    BY <2>1, Spans
<1>2. va \in Nat /\ table \in Nat /\ Entries \in Nat \ {0}
  BY Spans DEF Addresses, Pages
<1>3. va \div Span(k) \in Nat
  BY <1>1, <1>2
<1>4. Digit(va, k) \in 0..(Entries - 1)
  BY <1>2, <1>3 DEF Digit
<1> DEFINE c == table * Entries + Digit(va, k)
<1>5. c \in Int
  BY <1>2, <1>4
<1> HIDE DEF c
<1>6. as_read_nommu(c).kind \in {"ok", "panic"} /\ as_read_nommu(c).value \in Entry
  BY <1>5, Answered
<1>7. c \in {table * Entries + i : i \in 0..(Entries - 1)}
  BY <1>4 DEF c
<1>8. as_read_nommu(c).value \in EntriesOf(table)
  BY <1>7 DEF EntriesOf
<1> QED
  BY <1>6, <1>8 DEF PteAt, c

\* A level that finds a page has found a leaf, or a pointer to the next table.
LEMMA OneLevel ==
  ASSUME NEW answer, answer.kind \in {"ok", "panic"}, answer.value \in Entry,
         NEW pa, NEW lower, Level(answer, pa, lower).kind = "ok"
  PROVE  \/ /\ Level(answer, pa, lower) = At(pa)
            /\ answer.value.v /\ (answer.value.r \/ answer.value.x)
         \/ /\ Level(answer, pa, lower) = lower
            /\ answer.value.v /\ ~answer.value.r /\ ~answer.value.w /\ ~answer.value.x
<1>1. answer.kind = "ok" /\ ~Invalid(answer.value)
  BY DEF Level, Broken, NoPage
<1>2. CASE IsLeaf(answer.value)
  BY <1>1, <1>2 DEF Level, Invalid, IsLeaf
<1>3. CASE ~IsLeaf(answer.value)
  BY <1>1, <1>3 DEF Level, Invalid, IsLeaf, Entry
<1> QED
  BY <1>2, <1>3

\* A leaf opens the cells from its first address on.
LEMMA OpenedIs ==
  ASSUME NEW table, NEW pte \in EntriesOf(table), pte \in Entry, pte.v, pte.r \/ pte.x,
         NEW size \in Nat \ {0}, NEW n \in 0..(size * Entries - 1)
  PROVE  (pte.ppn \div size) * size * Entries + n \in Opened(table, size)
<1>1. pte.ppn \in Nat /\ Entries \in Nat
  BY Spans DEF Entry, Pages
<1> DEFINE first == (pte.ppn \div size) * size * Entries
           S(e)  == LET f == (e.ppn \div size) * size * Entries
                    IN  f..(f + size * Entries - 1)
<1>2. first \in Int /\ size * Entries \in Int
  BY <1>1
<1>3. first + n \in first..(first + size * Entries - 1)
  <2> HIDE DEF first
  <2> QED
    BY <1>2
<1>4. pte \in {e \in EntriesOf(table) : e.v /\ (e.r \/ e.x)}
  OBVIOUS
<1>5. S(pte) \in {S(e) : e \in {e \in EntriesOf(table) : e.v /\ (e.r \/ e.x)}}
  BY <1>4
<1>6. first + n \in S(pte)
  BY <1>3
<1> QED
  BY <1>5, <1>6 DEF Opened

\* The last of the three parts of Mapped.
Thirds     == UNION {Pointers(t) : t \in Pointers(satp)}
OpenedLast == UNION {Opened(t, 1) : t \in Thirds}

\* What a table two pointers away opens is mapped.
LEMMA OpenedThird ==
  ASSUME NEW t \in Pointers(satp), NEW u \in Pointers(t), NEW c \in Opened(u, 1)
  PROVE  c \in Mapped
<1>1. u \in Thirds
  BY DEF Thirds
<1>2. c \in OpenedLast
  BY <1>1 DEF OpenedLast
<1>3. Mapped = Opened(satp, Span(2)) \cup (UNION {Opened(s, Entries) : s \in Pointers(satp)})
                 \cup OpenedLast
  BY Zenon DEF Mapped, OpenedLast, Thirds
<1> QED
  BY <1>2, <1>3, Zenon

\* What mmu finds is inside what the tables open.
LEMMA Inside ==
  ASSUME CellsOK, Paging, NEW va \in Addresses, mmu(va).kind = "ok"
  PROVE  mmu(va).pa \in Mapped
<1>1. /\ Entries \in Nat \ {0} /\ Span(1) \in Nat \ {0} /\ Span(2) \in Nat \ {0}
      /\ Span(3) \in Nat \ {0} /\ va \in Nat
  BY Spans DEF Addresses
<1>2. satp \in Pages
  BY DEF CellsOK, Paging
<1> DEFINE answer2 == PteAt(satp, 3, va)
           t1      == answer2.value.ppn
           answer1 == PteAt(t1, 2, va)
           t0      == answer1.value.ppn
           answer0 == PteAt(t0, 1, va)
<1>3. mmu(va) = level2(satp, va)
  BY DEF mmu
<1>4. /\ answer2.kind \in {"ok", "panic"} /\ answer2.value \in Entry
      /\ answer2.value \in EntriesOf(satp) /\ t1 \in Pages
  BY <1>2, EntryAt DEF Entry
<1>5. /\ answer1.kind \in {"ok", "panic"} /\ answer1.value \in Entry
      /\ answer1.value \in EntriesOf(t1) /\ t0 \in Pages
  <2> HIDE DEF t1
  <2> QED
    BY <1>4, EntryAt DEF Entry
<1>6. /\ answer0.kind \in {"ok", "panic"} /\ answer0.value \in Entry
      /\ answer0.value \in EntriesOf(t0)
  <2> HIDE DEF t0
  <2> QED
    BY <1>5, EntryAt DEF Entry
<1>7. /\ level2(satp, va) = Level(answer2, Leaf2(answer2.value, va), level1(t1, va))
      /\ level1(t1, va) = Level(answer1, Leaf1(answer1.value, va), level0(t0, va))
      /\ level0(t0, va) = Level(answer0, Leaf0(answer0.value, va), NoPage)
  BY DEF level2, level1, level0
<1> HIDE DEF answer2, answer1, answer0, t1, t0
<1>8. CASE level2(satp, va) = At(Leaf2(answer2.value, va))
           /\ answer2.value.v /\ (answer2.value.r \/ answer2.value.x)
  <2> DEFINE n == va % Span(3)
  <2>1. n \in 0..(Span(2) * Entries - 1)
    BY <1>1, Spans
  <2> HIDE DEF n
  <2>2. (answer2.value.ppn \div Span(2)) * Span(2) * Entries + n \in Opened(satp, Span(2))
    BY <1>1, <1>4, <1>8, <2>1, OpenedIs
  <2>3. answer2.value.ppn \div Span(2) \in Int
    BY <1>1, <1>4 DEF Entry, Pages
  <2>4. Leaf2(answer2.value, va) = (answer2.value.ppn \div Span(2)) * Span(2) * Entries + n
    <3> DEFINE q == answer2.value.ppn \div Span(2)
    <3>1. q \in Int
      BY <2>3
    <3>2. Leaf2(answer2.value, va) = q * Span(3) + n
      BY DEF Leaf2, n
    <3> HIDE DEF q
    <3>3. q * Span(3) = q * Span(2) * Entries
      BY <1>1, <3>1, Spans
    <3> QED
      BY <3>2, <3>3 DEF q
  <2>5. Leaf2(answer2.value, va) \in Mapped
    BY <2>2, <2>4 DEF Mapped
  <2> QED
    BY <1>3, <1>8, <2>5 DEF At
<1>9. CASE level2(satp, va) = level1(t1, va) /\ t1 \in Pointers(satp)
  <2>1. CASE level1(t1, va) = At(Leaf1(answer1.value, va))
             /\ answer1.value.v /\ (answer1.value.r \/ answer1.value.x)
    <3> DEFINE n == va % Span(2)
               q == answer1.value.ppn \div Entries
    <3>1. n \in 0..(Entries * Entries - 1)
      BY <1>1, Spans
    <3>2. q \in Int
      BY <1>1, <1>5 DEF Entry, Pages
    <3>3. Leaf1(answer1.value, va) = q * Span(2) + n
      BY DEF Leaf1
    <3> HIDE DEF n
    <3>4. q * Entries * Entries + n \in Opened(t1, Entries)
      BY <1>1, <1>5, <2>1, <3>1, OpenedIs
    <3> HIDE DEF q
    <3>5. q * Span(2) = q * Entries * Entries
      BY <1>1, <3>2, Spans
    <3>6. Leaf1(answer1.value, va) \in Mapped
      BY <1>9, <3>3, <3>4, <3>5 DEF Mapped
    <3> QED
      BY <1>3, <1>9, <2>1, <3>6 DEF At
  <2>2. CASE level1(t1, va) = level0(t0, va) /\ t0 \in Pointers(t1)
    <3>1. /\ level0(t0, va) = At(Leaf0(answer0.value, va))
          /\ answer0.value.v /\ (answer0.value.r \/ answer0.value.x)
      BY <1>3, <1>6, <1>7, <1>9, <2>2, OneLevel DEF NoPage
    <3> DEFINE n == va % Entries
               q == answer0.value.ppn
    <3>2. n \in 0..(1 * Entries - 1)
      BY <1>1
    <3>3. q \in Nat
      BY <1>6, Spans DEF Entry, Pages
    <3>4. Leaf0(answer0.value, va) = q * Entries + n
      BY DEF Leaf0
    <3> HIDE DEF n
    <3>5. (q \div 1) * 1 * Entries + n \in Opened(t0, 1)
      BY <1>1, <1>6, <3>1, <3>2, OpenedIs
    <3> HIDE DEF q
    <3>6. (q \div 1) * 1 * Entries = q * Entries
      BY <1>1, <3>3
    <3>7. t1 \in Pointers(satp) /\ t0 \in Pointers(t1)
      BY <1>9, <2>2
    <3>8. q * Entries + n \in Opened(t0, 1)
      BY <3>5, <3>6
    <3>9. q * Entries + n \in Mapped
      BY <3>7, <3>8, OpenedThird, Zenon
    <3>10. Leaf0(answer0.value, va) \in Mapped
      BY <3>4, <3>9
    <3> QED
      BY <1>3, <1>9, <2>2, <3>1, <3>10 DEF At
  <2>3. \/ /\ level1(t1, va) = At(Leaf1(answer1.value, va))
           /\ answer1.value.v /\ (answer1.value.r \/ answer1.value.x)
        \/ /\ level1(t1, va) = level0(t0, va) /\ t0 \in Pointers(t1)
    <3>1. level1(t1, va).kind = "ok"
      BY <1>3, <1>9
    <3>2. \/ /\ level1(t1, va) = At(Leaf1(answer1.value, va))
             /\ answer1.value.v /\ (answer1.value.r \/ answer1.value.x)
          \/ /\ level1(t1, va) = level0(t0, va)
             /\ answer1.value.v /\ ~answer1.value.r /\ ~answer1.value.w /\ ~answer1.value.x
      BY <1>5, <1>7, <3>1, OneLevel
    <3> QED
      BY <1>5, <3>2 DEF Pointers, t0
  <2> QED
    BY <2>1, <2>2, <2>3
<1>10. \/ /\ level2(satp, va) = At(Leaf2(answer2.value, va))
          /\ answer2.value.v /\ (answer2.value.r \/ answer2.value.x)
       \/ /\ level2(satp, va) = level1(t1, va) /\ t1 \in Pointers(satp)
  <2>1. level2(satp, va).kind = "ok"
    BY <1>3
  <2>2. \/ /\ level2(satp, va) = At(Leaf2(answer2.value, va))
           /\ answer2.value.v /\ (answer2.value.r \/ answer2.value.x)
        \/ /\ level2(satp, va) = level1(t1, va)
           /\ answer2.value.v /\ ~answer2.value.r /\ ~answer2.value.w /\ ~answer2.value.x
    BY <1>4, <1>7, <2>1, OneLevel
  <2> QED
    BY <1>4, <2>2 DEF Pointers, t1
<1> QED
  BY <1>8, <1>9, <1>10

\* What a translation can be.
LEMMA Translated ==
  ASSUME CellsOK, NEW va \in Addresses
  PROVE  mmu(va).kind \in {"ok", "fault", "panic"}
<1>1. \A answer, pa, lower : lower.kind \in {"ok", "fault", "panic"} =>
         Level(answer, pa, lower).kind \in {"ok", "fault", "panic"}
  BY DEF Level, Broken, NoPage, At
<1>2. \A t : level0(t, va).kind \in {"ok", "fault", "panic"}
  BY <1>1 DEF level0, NoPage
<1>3. \A t : level1(t, va).kind \in {"ok", "fault", "panic"}
  BY <1>1, <1>2 DEF level1
<1>4. \A t : level2(t, va).kind \in {"ok", "fault", "panic"}
  BY <1>1, <1>3 DEF level2
<1> QED
  BY <1>4 DEF mmu, At

\* A store changes the cell that mmu finds, and nothing else does.
LEMMA StoreInside ==
  ASSUME CellsOK, [Next]_vars, Paging, NEW c \in RamCells, mem'[c] # mem[c]
  PROVE  c \in Mapped
<1>1. PICK va \in Addresses, value \in Contents : Store(va, value)
  BY DEF Next, Access, WriteSatp, ChangePriv, vars
<1>2. mem' # mem
  OBVIOUS
<1>3. mmu(va).kind = "ok" /\ mem' = [mem EXCEPT ![mmu(va).pa] = value]
  <2> DEFINE to     == mmu(va)
             target == IF to.kind = "ok" THEN Route(to.pa) ELSE to.kind
  <2>1. to.kind \in {"ok", "fault", "panic"}
    BY Translated
  <2>2. mem' = IF target = "ram" THEN [mem EXCEPT ![to.pa] = value] ELSE mem
    BY <1>1 DEF Store
  <2> HIDE DEF to
  <2>3. target = "ram"
    BY <1>2, <2>2
  <2>4. to.kind = "ok"
    BY <2>1, <2>3
  <2> QED
    BY <2>2, <2>3, <2>4 DEF to
<1>4. c = mmu(va).pa
  BY <1>3 DEF CellsOK
<1> QED
  BY <1>3, <1>4, Inside

-----------------------------------------------------------------------------
(* The fetch.                                                              *)

\* The address behind va on the same page has the same tables, and the page of a
\* leaf goes on behind it.
LEMMA NextDigits ==
  ASSUME NEW va \in Addresses, (va + 1) % Entries # 0
  PROVE  /\ \A k \in 1..3 : Digit(va + 1, k) = Digit(va, k)
         /\ (va + 1) % Entries = (va % Entries) + 1
         /\ \A k \in 2..3 : (va + 1) % Span(k) = (va % Span(k)) + 1
<1>1. va \in Nat /\ Entries \in Nat \ {0}
  BY Spans DEF Addresses
<1> DEFINE q == va \div Entries
<1>2. (va + 1) \div Entries = q /\ (va + 1) % Entries = (va % Entries) + 1 /\ q \in Nat
  <2>1. q \in Nat
    BY <1>1
  <2>2. (va + 1) \div Entries = va \div Entries /\ (va + 1) % Entries = (va % Entries) + 1
    BY <1>1, NextInPage
  <2> QED
    BY <2>1, <2>2
<1>3. ASSUME NEW n \in Nat \ {0}
      PROVE  /\ (va + 1) \div (n * Entries) = va \div (n * Entries)
             /\ (va + 1) % (n * Entries) = (va % (n * Entries)) + 1
  <2>1. va + 1 \in Nat
    BY <1>1
  <2>2. /\ (va \div Entries) \div n = va \div (n * Entries)
        /\ va % (n * Entries) = ((va \div Entries) % n) * Entries + (va % Entries)
    BY <1>1, TwoSteps
  <2>3. /\ ((va + 1) \div Entries) \div n = (va + 1) \div (n * Entries)
        /\ (va + 1) % (n * Entries) = (((va + 1) \div Entries) % n) * Entries + ((va + 1) % Entries)
    BY <1>1, <2>1, TwoSteps
  <2> DEFINE m == (q % n) * Entries
  <2>4. m \in Int /\ va % Entries \in Int
    BY <1>1, <1>2
  <2>5. va % (n * Entries) = m + (va % Entries) /\ (va + 1) % (n * Entries) = m + ((va % Entries) + 1)
    BY <1>2, <2>2, <2>3
  <2> HIDE DEF m
  <2>6. (va + 1) % (n * Entries) = (va % (n * Entries)) + 1
    BY <2>4, <2>5
  <2> QED
    BY <1>2, <2>2, <2>3, <2>6
<1>4. Span(1) = Entries /\ Span(2) = Span(1) * Entries /\ Span(3) = Span(2) * Entries
  BY Spans
<1>5. Span(1) \in Nat \ {0} /\ Span(2) \in Nat \ {0}
  BY Spans
<1> HIDE DEF q
<1>6. \A k \in 2..3 : /\ (va + 1) \div Span(k) = va \div Span(k)
                      /\ (va + 1) % Span(k) = (va % Span(k)) + 1
  <2>1. \A k \in 2..3 : k = 2 \/ k = 3
    OBVIOUS
  <2>2. /\ (va + 1) \div Span(2) = va \div Span(2)
        /\ (va + 1) % Span(2) = (va % Span(2)) + 1
    BY <1>3, <1>4, <1>5
  <2>3. /\ (va + 1) \div Span(3) = va \div Span(3)
        /\ (va + 1) % Span(3) = (va % Span(3)) + 1
    BY <1>3, <1>4, <1>5
  <2> QED
    BY <2>1, <2>2, <2>3
<1>7. (va + 1) \div Span(1) = va \div Span(1)
  BY <1>2, <1>4 DEF q
<1>8. \A k \in 1..3 : (va + 1) \div Span(k) = va \div Span(k)
  <2>1. \A k \in 1..3 : k = 1 \/ k \in 2..3
    OBVIOUS
  <2> QED
    BY <1>6, <1>7, <2>1
<1> QED
  BY <1>2, <1>6, <1>8 DEF Digit

\* mmu finds the next cell behind the first one, or what it found there.
LEMMA NextCell ==
  ASSUME CellsOK, NEW va \in Addresses, va + 1 \in Addresses, (va + 1) % Entries # 0
  PROVE  /\ mmu(va).kind = "ok" => mmu(va + 1) = At(mmu(va).pa + 1) /\ mmu(va).pa \in Int
         /\ mmu(va).kind # "ok" => mmu(va + 1) = mmu(va)
<1>1. /\ Entries \in Nat \ {0} /\ Span(1) \in Nat \ {0} /\ Span(2) \in Nat \ {0}
      /\ Span(3) \in Nat \ {0} /\ va \in Nat
  BY Spans DEF Addresses
<1> DEFINE Follows(a, b) == \/ a.kind = "ok" /\ a.pa \in Int /\ b = At(a.pa + 1)
                            \/ a.kind # "ok" /\ b = a
<1>2. CASE ~Paging
  BY <1>1, <1>2 DEF mmu, At
<1>3. CASE Paging
  <2>1. satp \in Pages
    BY <1>3 DEF CellsOK, Paging
  <2>2. \A t \in Pages : \A k \in 1..3 : /\ PteAt(t, k, va + 1) = PteAt(t, k, va)
                                         /\ PteAt(t, k, va).kind \in {"ok", "panic"}
                                         /\ PteAt(t, k, va).value \in Entry
    BY NextDigits, EntryAt DEF PteAt
  <2>3. \A answer, lower, next, pa :
          answer.kind \in {"ok", "panic"} /\ pa \in Int /\ Follows(lower, next)
            => Follows(Level(answer, pa, lower), Level(answer, pa + 1, next))
    <3> SUFFICES ASSUME NEW answer, NEW lower, NEW next, NEW pa,
                        answer.kind \in {"ok", "panic"}, pa \in Int, Follows(lower, next)
                 PROVE  Follows(Level(answer, pa, lower), Level(answer, pa + 1, next))
      OBVIOUS
    <3>1. CASE answer.kind = "panic"
      BY <3>1 DEF Level, Broken
    <3>2. CASE answer.kind = "ok" /\ Invalid(answer.value)
      BY <3>2 DEF Level, NoPage
    <3>3. CASE answer.kind = "ok" /\ ~Invalid(answer.value) /\ IsLeaf(answer.value)
      BY <3>3 DEF Level, At
    <3>4. CASE answer.kind = "ok" /\ ~Invalid(answer.value) /\ ~IsLeaf(answer.value)
      BY <3>4 DEF Level
    <3> QED
      BY <3>1, <3>2, <3>3, <3>4
  <2>4. \A pte \in Entry :
          /\ Leaf0(pte, va) \in Int /\ Leaf0(pte, va + 1) = Leaf0(pte, va) + 1
          /\ Leaf1(pte, va) \in Int /\ Leaf1(pte, va + 1) = Leaf1(pte, va) + 1
          /\ Leaf2(pte, va) \in Int /\ Leaf2(pte, va + 1) = Leaf2(pte, va) + 1
    <3> SUFFICES ASSUME NEW pte \in Entry
                 PROVE  /\ Leaf0(pte, va) \in Int /\ Leaf0(pte, va + 1) = Leaf0(pte, va) + 1
                        /\ Leaf1(pte, va) \in Int /\ Leaf1(pte, va + 1) = Leaf1(pte, va) + 1
                        /\ Leaf2(pte, va) \in Int /\ Leaf2(pte, va + 1) = Leaf2(pte, va) + 1
      OBVIOUS
    <3> DEFINE x0 == pte.ppn * Entries
               x1 == (pte.ppn \div Entries) * Span(2)
               x2 == (pte.ppn \div Span(2)) * Span(3)
    <3>1. pte.ppn \in Nat
      BY Spans DEF Entry, Pages
    <3>2. x0 \in Int /\ x1 \in Int /\ x2 \in Int
      <4>1. pte.ppn \div Entries \in Int /\ pte.ppn \div Span(2) \in Int
        BY <1>1, <3>1
      <4> QED
        BY <1>1, <3>1, <4>1
    <3>3. va % Entries \in Int /\ va % Span(2) \in Int /\ va % Span(3) \in Int
      BY <1>1
    <3>4. /\ (va + 1) % Entries = (va % Entries) + 1
          /\ (va + 1) % Span(2) = (va % Span(2)) + 1
          /\ (va + 1) % Span(3) = (va % Span(3)) + 1
      BY NextDigits
    <3>5. \A a : /\ Leaf0(pte, a) = x0 + (a % Entries)
                 /\ Leaf1(pte, a) = x1 + (a % Span(2))
                 /\ Leaf2(pte, a) = x2 + (a % Span(3))
      BY DEF Leaf0, Leaf1, Leaf2
    <3> HIDE DEF x0, x1, x2
    <3> QED
      BY <3>2, <3>3, <3>4, <3>5
  <2> HIDE DEF Follows
  <2>5. ASSUME NEW t \in Pages PROVE Follows(level0(t, va), level0(t, va + 1))
    <3> DEFINE answer == PteAt(t, 1, va)
    <3>1. Follows(NoPage, NoPage)
      BY DEF Follows, NoPage
    <3>2. /\ answer = PteAt(t, 1, va + 1) /\ answer.kind \in {"ok", "panic"}
          /\ answer.value \in Entry
      BY <2>2
    <3>3. /\ level0(t, va) = Level(answer, Leaf0(answer.value, va), NoPage)
          /\ level0(t, va + 1) = Level(answer, Leaf0(answer.value, va + 1), NoPage)
      BY <3>2 DEF level0
    <3> HIDE DEF answer
    <3> QED
      BY <2>3, <2>4, <3>1, <3>2, <3>3
  <2>6. ASSUME NEW t \in Pages PROVE Follows(level1(t, va), level1(t, va + 1))
    <3> DEFINE answer == PteAt(t, 2, va)
    <3>1. /\ answer = PteAt(t, 2, va + 1) /\ answer.kind \in {"ok", "panic"}
          /\ answer.value \in Entry
      BY <2>2
    <3>2. /\ level1(t, va) = Level(answer, Leaf1(answer.value, va), level0(answer.value.ppn, va))
          /\ level1(t, va + 1) = Level(answer, Leaf1(answer.value, va + 1),
                                       level0(answer.value.ppn, va + 1))
      BY <3>1 DEF level1
    <3> HIDE DEF answer
    <3>3. answer.value.ppn \in Pages
      BY <3>1 DEF Entry
    <3> QED
      BY <2>3, <2>4, <2>5, <3>1, <3>2, <3>3
  <2>7. ASSUME NEW t \in Pages PROVE Follows(level2(t, va), level2(t, va + 1))
    <3> DEFINE answer == PteAt(t, 3, va)
    <3>1. /\ answer = PteAt(t, 3, va + 1) /\ answer.kind \in {"ok", "panic"}
          /\ answer.value \in Entry
      BY <2>2
    <3>2. /\ level2(t, va) = Level(answer, Leaf2(answer.value, va), level1(answer.value.ppn, va))
          /\ level2(t, va + 1) = Level(answer, Leaf2(answer.value, va + 1),
                                       level1(answer.value.ppn, va + 1))
      BY <3>1 DEF level2
    <3> HIDE DEF answer
    <3>3. answer.value.ppn \in Pages
      BY <3>1 DEF Entry
    <3> QED
      BY <2>3, <2>4, <2>6, <3>1, <3>2, <3>3
  <2>8. Follows(mmu(va), mmu(va + 1))
    BY <1>3, <2>1, <2>7 DEF mmu
  <2> QED
    BY <2>8 DEF Follows
<1> QED
  BY <1>2, <1>3

\* In each of the cases of fetch, what it returns is what two loads find.
LEMMA TwoLoads == CellsOK => FetchIsTwoLoads
<1> SUFFICES ASSUME CellsOK, NEW pc \in Addresses \ {Span(4) - 1}, fetch(pc).kind # "panic"
             PROVE  fetch(pc) = CASE as_read(pc).kind = "fault" -> Faulted(pc)
                                  [] as_read(pc).kind = "ok" /\ as_read(pc + 1).kind = "fault"
                                       -> Faulted(pc + 1)
                                  [] OTHER -> Fetched(as_read(pc).value, as_read(pc + 1).value)
  BY DEF FetchIsTwoLoads
<1> DEFINE lo == as_read(pc)
           hi == as_read(pc + 1)
<1>1. pc \in Addresses /\ pc + 1 \in Addresses
  BY Spans DEF Addresses
<1>2. CASE (pc + 1) % Entries = 0
  <2>1. lo.kind \in {"ok", "fault", "panic"} /\ hi.kind \in {"ok", "fault", "panic"}
    BY Translated, <1>1 DEF as_read, as_read_nommu, Answer, Panic, Fault
  <2> HIDE DEF lo, hi
  <2>2. fetch(pc) = CASE lo.kind = "fault" -> Faulted(pc)
                      [] lo.kind = "panic" -> Crashed
                      [] lo.kind = "ok" -> (CASE hi.kind = "ok"    -> Fetched(lo.value, hi.value)
                                              [] hi.kind = "fault" -> Faulted(pc + 1)
                                              [] OTHER             -> Crashed)
    BY <1>2, <2>1 DEF fetch, lo, hi
  <2>3. lo.kind # "panic" /\ (lo.kind = "ok" => hi.kind # "panic")
    BY <2>1, <2>2 DEF Crashed
  <2>4. fetch(pc) = CASE lo.kind = "fault" -> Faulted(pc)
                      [] lo.kind = "ok" /\ hi.kind = "fault" -> Faulted(pc + 1)
                      [] OTHER -> Fetched(lo.value, hi.value)
    BY <2>1, <2>2, <2>3
  <2> QED
    BY <2>4 DEF lo, hi
<1>3. CASE (pc + 1) % Entries # 0
  <2>1. fetch(pc) = FetchWhole(pc)
    BY <1>3 DEF fetch
  <2>2. CASE mmu(pc).kind = "ok"
    <3>1. mmu(pc + 1) = At(mmu(pc).pa + 1) /\ mmu(pc).pa \in Int
      BY <1>1, <1>3, <2>2, NextCell
    <3>2. lo = as_read_nommu(mmu(pc).pa) /\ hi = as_read_nommu(mmu(pc).pa + 1)
      BY <2>2, <3>1 DEF as_read, At
    <3>3. lo.kind \in {"ok", "panic"} /\ hi.kind \in {"ok", "panic"}
      BY <3>1, <3>2, Answered
    <3>4. FetchWhole(pc) = CASE lo.kind = "ok" -> Fetched(lo.value, hi.value)
                             [] lo.kind = "fault" -> Faulted(pc)
                             [] OTHER -> Crashed
      BY <3>2 DEF FetchWhole
    <3> HIDE DEF lo, hi
    <3>5. lo.kind = "ok" /\ fetch(pc) = Fetched(lo.value, hi.value)
      BY <2>1, <3>3, <3>4 DEF Crashed
    <3>6. fetch(pc) = CASE lo.kind = "fault" -> Faulted(pc)
                        [] lo.kind = "ok" /\ hi.kind = "fault" -> Faulted(pc + 1)
                        [] OTHER -> Fetched(lo.value, hi.value)
      BY <3>3, <3>5
    <3> QED
      BY <3>6 DEF lo, hi
  <2>3. CASE mmu(pc).kind # "ok"
    <3>1. lo \in {Fault, Panic}
      BY <2>3 DEF as_read
    <3>2. FetchWhole(pc) = CASE lo.kind = "ok" -> Fetched(lo.value, as_read_nommu(mmu(pc).pa + 1).value)
                             [] lo.kind = "fault" -> Faulted(pc)
                             [] OTHER -> Crashed
      BY DEF FetchWhole
    <3> HIDE DEF lo, hi
    <3>3. lo.kind = "fault" /\ fetch(pc) = Faulted(pc)
      BY <2>1, <3>1, <3>2 DEF Fault, Panic, Answer, Crashed
    <3>4. fetch(pc) = CASE lo.kind = "fault" -> Faulted(pc)
                        [] lo.kind = "ok" /\ hi.kind = "fault" -> Faulted(pc + 1)
                        [] OTHER -> Fetched(lo.value, hi.value)
      BY <3>3
    <3> QED
      BY <3>4 DEF lo, hi
  <2> QED
    BY <2>2, <2>3
<1> QED
  BY <1>2, <1>3

-----------------------------------------------------------------------------
(* The walk of the architecture.                                           *)

\* The address in a leaf: the page that the entry and the address make up.
LEMMA LeafPages ==
  ASSUME NEW pte \in Entry, NEW va \in Addresses
  PROVE  /\ Leaf0(pte, va) = ((pte.ppn \div 1) * 1 + ((va \div Entries) % 1)) * Entries
                               + (va % Entries)
         /\ Leaf1(pte, va) = ((pte.ppn \div Entries) * Entries + ((va \div Entries) % Entries))
                               * Entries + (va % Entries)
         /\ Leaf2(pte, va) = ((pte.ppn \div Span(2)) * Span(2) + ((va \div Entries) % Span(2)))
                               * Entries + (va % Entries)
<1>1. /\ Entries \in Nat \ {0} /\ Span(2) \in Nat \ {0} /\ va \in Nat /\ pte.ppn \in Nat
      /\ Span(2) = Entries * Entries /\ Span(3) = Span(2) * Entries
  BY Spans DEF Addresses, Entry, Pages
<1> DEFINE p == pte.ppn
           q == va \div Entries
           r == va % Entries
<1>2. p \in Nat /\ q \in Nat /\ r \in Nat
  BY <1>1
<1>3. p \div 1 = p /\ q % 1 = 0
  <2> HIDE DEF p, q
  <2> QED
    BY <1>2
<1>4. ASSUME NEW n \in Nat \ {0}
      PROVE  (p \div n) * (n * Entries) + (va % (n * Entries))
               = ((p \div n) * n + (q % n)) * Entries + r
  <2>1. va % (n * Entries) = (q % n) * Entries + r
    BY <1>1, TwoSteps
  <2> DEFINE x == p \div n
             s == q % n
  <2>2. x \in Int /\ s \in Int
    <3> HIDE DEF p, q
    <3> QED
      BY <1>2
  <2> HIDE DEF x, s, r, q, p
  <2>3. va % (n * Entries) = s * Entries + r
    BY <2>1 DEF s
  <2>4. x * (n * Entries) + (s * Entries + r) = (x * n + s) * Entries + r
    <3>1. x * (n * Entries) = (x * n) * Entries /\ x * n \in Int
      BY <1>1, <2>2
    <3> DEFINE y == x * n
    <3> HIDE DEF y
    <3>2. y \in Int
      BY <3>1 DEF y
    <3>3. (y + s) * Entries = y * Entries + s * Entries
      BY <1>1, <2>2, <3>2
    <3>4. y * Entries \in Int /\ s * Entries \in Int
      BY <1>1, <2>2, <3>2
    <3> QED
      BY <1>2, <3>1, <3>3, <3>4 DEF y
  <2> QED
    BY <2>3, <2>4 DEF x, s
<1>5. Leaf0(pte, va) = ((p \div 1) * 1 + (q % 1)) * Entries + r
  BY <1>2, <1>3 DEF Leaf0
<1>6. Leaf1(pte, va) = ((p \div Entries) * Entries + (q % Entries)) * Entries + r
  BY <1>1, <1>4 DEF Leaf1
<1>7. Leaf2(pte, va) = ((p \div Span(2)) * Span(2) + (q % Span(2))) * Entries + r
  BY <1>1, <1>4 DEF Leaf2
<1> QED
  BY <1>5, <1>6, <1>7

\* One turn of the loop: what the entry of a level says, given what the level below
\* makes of a table.
Turn(va, level, table, below) ==
  LET answer == as_read_nommu(table * Entries + Digit(va, level + 1))
      pte == answer.value
      size == Span(level)
  IN  CASE answer.kind = "panic" -> Broken
        [] answer.kind = "ok" /\ (~pte.v \/ (pte.w /\ ~pte.r)) -> NoPage
        [] answer.kind = "ok" /\ pte.v /\ (pte.r \/ (pte.x /\ ~pte.w)) ->
             At(((pte.ppn \div size) * size
                  + ((va \div Entries) % size)) * Entries + (va % Entries))
        [] OTHER -> IF level = 0 THEN NoPage ELSE below[pte.ppn]

\* The level of mmu and the turn of the loop take the same decision.
LEMMA SameTurn ==
  ASSUME CellsOK, NEW table \in Pages, NEW va \in Addresses, NEW level \in 0..2, NEW below,
         NEW pa, NEW lower,
         LET pte == PteAt(table, level + 1, va).value
         IN  /\ pa = ((pte.ppn \div Span(level)) * Span(level)
                       + ((va \div Entries) % Span(level))) * Entries + (va % Entries)
             /\ lower = IF level = 0 THEN NoPage ELSE below[pte.ppn]
  PROVE  Turn(va, level, table, below) = Level(PteAt(table, level + 1, va), pa, lower)
<1> DEFINE answer == PteAt(table, level + 1, va)
           pte == answer.value
<1>1. answer.kind \in {"ok", "panic"} /\ pte \in Entry
  BY EntryAt
<1>2. pte.v \in BOOLEAN /\ pte.r \in BOOLEAN /\ pte.w \in BOOLEAN /\ pte.x \in BOOLEAN
  <2> HIDE DEF pte
  <2> QED
    BY <1>1 DEF Entry
<1>3. Turn(va, level, table, below)
        = CASE answer.kind = "panic" -> Broken
            [] answer.kind = "ok" /\ (~pte.v \/ (pte.w /\ ~pte.r)) -> NoPage
            [] answer.kind = "ok" /\ pte.v /\ (pte.r \/ (pte.x /\ ~pte.w)) -> At(pa)
            [] OTHER -> lower
  BY DEF Turn, PteAt
<1> HIDE DEF answer
<1>4. Turn(va, level, table, below) = Level(answer, pa, lower)
  <2>1. CASE answer.kind = "panic"
    BY <1>3, <2>1 DEF Level
  <2>2. CASE answer.kind = "ok" /\ Invalid(pte)
    BY <1>2, <1>3, <2>2 DEF Level, Invalid
  <2>3. CASE answer.kind = "ok" /\ ~Invalid(pte) /\ IsLeaf(pte)
    BY <1>2, <1>3, <2>3 DEF Level, Invalid, IsLeaf
  <2>4. CASE answer.kind = "ok" /\ ~Invalid(pte) /\ ~IsLeaf(pte)
    BY <1>2, <1>3, <2>4 DEF Level, Invalid, IsLeaf
  <2> QED
    BY <1>1, <2>1, <2>2, <2>3, <2>4
<1> QED
  BY <1>4 DEF answer

\* The loop exists, and unrolls into three levels.
LEMMA WalkUnrolled ==
  ASSUME CellsOK, Paging, NEW va \in Addresses
  PROVE  Walk(va) = mmu(va)
<1> DEFINE Loop(step) ==
             [level \in 0..2 |->
                [table \in Pages |->
                   LET answer == as_read_nommu(table * Entries + Digit(va, level + 1))
                       pte == answer.value
                       size == Span(level)
                   IN  CASE answer.kind = "panic" -> Broken
                         [] answer.kind = "ok" /\ (~pte.v \/ (pte.w /\ ~pte.r)) -> NoPage
                         [] answer.kind = "ok" /\ pte.v /\ (pte.r \/ (pte.x /\ ~pte.w)) ->
                              At(((pte.ppn \div size) * size
                                   + ((va \div Entries) % size)) * Entries + (va % Entries))
                         [] OTHER -> IF level = 0 THEN NoPage ELSE step[level - 1][pte.ppn]]]
           w0 == [table \in Pages |-> Turn(va, 0, table, NoPage)]
           w1 == [table \in Pages |-> Turn(va, 1, table, w0)]
           w2 == [table \in Pages |-> Turn(va, 2, table, w1)]
           W  == [level \in 0..2 |-> IF level = 0 THEN w0 ELSE IF level = 1 THEN w1 ELSE w2]
           S  == CHOOSE step : step = Loop(step)
<1>1. \A step : Loop(step) = [level \in 0..2 |->
                                [table \in Pages |-> Turn(va, level, table, step[level - 1])]]
  BY Zenon DEF Turn
<1> HIDE DEF Loop
<1>2. W = Loop(W)
  <2> DEFINE R(level) == [table \in Pages |-> Turn(va, level, table, W[level - 1])]
  <2>1. W[0] = w0 /\ W[1] = w1 /\ W[2] = w2
    <3> HIDE DEF w0, w1, w2
    <3> QED
      OBVIOUS
  <2> HIDE DEF W
  <2>2. W[0] = R(0)
    <3>1. \A table : Turn(va, 0, table, NoPage) = Turn(va, 0, table, W[0 - 1])
      BY DEF Turn
    <3> QED
      BY <2>1, <3>1
  <2>3. W[1] = R(1)
    <3> HIDE DEF w0
    <3> QED
      BY <2>1
  <2>4. W[2] = R(2)
    <3> HIDE DEF w1
    <3> QED
      BY <2>1
  <2>5. W = [level \in 0..2 |-> W[level]]
    <3> HIDE DEF w0, w1, w2
    <3> QED
      BY DEF W
  <2> HIDE DEF R
  <2>6. \A level \in 0..2 : W[level] = R(level)
    <3>1. \A level \in 0..2 : level = 0 \/ level = 1 \/ level = 2
      OBVIOUS
    <3> QED
      BY <2>2, <2>3, <2>4, <3>1
  <2>7. W = [level \in 0..2 |-> R(level)]
    BY <2>5, <2>6
  <2> QED
    BY <1>1, <2>7, Zenon DEF R
<1>3. S = Loop(S)
  <2> HIDE DEF W
  <2> QED
    BY <1>2, Zenon
<1>4. Walk(va) = S[2][satp]
  BY Zenon DEF Walk, Loop
<1> HIDE DEF S, W, w0, w1, w2
<1>5. \A level \in 0..2, table \in Pages :
        S[level][table] = Turn(va, level, table, S[level - 1])
  <2>1. S = [level \in 0..2 |-> [table \in Pages |-> Turn(va, level, table, S[level - 1])]]
    BY <1>1, <1>3, Zenon
  <2> DEFINE R(level, table) == Turn(va, level, table, S[level - 1])
  <2>2. S = [level \in 0..2 |-> [table \in Pages |-> R(level, table)]]
    BY <2>1
  <2> HIDE DEF R
  <2>3. \A level \in 0..2, table \in Pages : S[level][table] = R(level, table)
    BY <2>2
  <2> QED
    BY <2>3 DEF R
<1>6. Span(0) = 1 /\ Span(1) = Entries
  BY Spans
<1>7. ASSUME NEW table \in Pages PROVE S[0][table] = level0(table, va)
  <2> DEFINE answer == PteAt(table, 0 + 1, va)
             pa     == ((answer.value.ppn \div Span(0)) * Span(0)
                         + ((va \div Entries) % Span(0))) * Entries + (va % Entries)
  <2>1. answer = PteAt(table, 1, va) /\ answer.value \in Entry
    BY EntryAt
  <2>2. Turn(va, 0, table, S[0 - 1]) = Level(answer, pa, NoPage)
    BY SameTurn
  <2> HIDE DEF answer
  <2>3. pa = Leaf0(answer.value, va)
    BY <1>6, <2>1, LeafPages
  <2> HIDE DEF pa
  <2>4. level0(table, va) = Level(answer, Leaf0(answer.value, va), NoPage)
    BY <2>1 DEF level0
  <2> QED
    BY <1>5, <2>2, <2>3, <2>4
<1>8. ASSUME NEW table \in Pages PROVE S[1][table] = level1(table, va)
  <2> DEFINE answer == PteAt(table, 1 + 1, va)
             pa     == ((answer.value.ppn \div Span(1)) * Span(1)
                         + ((va \div Entries) % Span(1))) * Entries + (va % Entries)
             lower  == S[0][answer.value.ppn]
  <2>1. answer = PteAt(table, 2, va) /\ answer.value \in Entry
    BY EntryAt
  <2>2. Turn(va, 1, table, S[0]) = Level(answer, pa, lower)
    BY SameTurn
  <2> HIDE DEF answer
  <2>3. pa = Leaf1(answer.value, va)
    BY <1>6, <2>1, LeafPages
  <2>4. answer.value.ppn \in Pages
    BY <2>1 DEF Entry
  <2> HIDE DEF pa
  <2>5. level1(table, va) = Level(answer, Leaf1(answer.value, va), level0(answer.value.ppn, va))
    BY <2>1 DEF level1
  <2>6. S[1][table] = Turn(va, 1, table, S[0])
    BY <1>5
  <2> QED
    BY <1>7, <2>2, <2>3, <2>4, <2>5, <2>6
<1>9. ASSUME NEW table \in Pages PROVE S[2][table] = level2(table, va)
  <2> DEFINE answer == PteAt(table, 2 + 1, va)
             pa     == ((answer.value.ppn \div Span(2)) * Span(2)
                         + ((va \div Entries) % Span(2))) * Entries + (va % Entries)
             lower  == S[1][answer.value.ppn]
  <2>1. answer = PteAt(table, 3, va) /\ answer.value \in Entry
    BY EntryAt
  <2>2. Turn(va, 2, table, S[1]) = Level(answer, pa, lower)
    BY SameTurn
  <2> HIDE DEF answer
  <2>3. pa = Leaf2(answer.value, va)
    BY <2>1, LeafPages
  <2>4. answer.value.ppn \in Pages
    BY <2>1 DEF Entry
  <2> HIDE DEF pa
  <2>5. level2(table, va) = Level(answer, Leaf2(answer.value, va), level1(answer.value.ppn, va))
    BY <2>1 DEF level2
  <2>6. S[2][table] = Turn(va, 2, table, S[1])
    BY <1>5
  <2> QED
    BY <1>8, <2>2, <2>3, <2>4, <2>5, <2>6
<1>10. satp \in Pages
  BY DEF CellsOK, Paging
<1> QED
  BY <1>4, <1>9, <1>10 DEF mmu

-----------------------------------------------------------------------------
(* The theorems about Memory.                                              *)

\* The RAM keeps the cells it was given and only holds what a cell can hold, satp is a
\* table or bare, and the mode is one of the two.
THEOREM TypeCorrect == Spec => []CellsOK
<1> QED
  BY TypeStart, TypeStep, PTL DEF Spec

\* The unrolled walk of mmu, with its masks and shifts for each size of page, is the
\* loop of the privileged architecture, for every address and whatever tables the
\* guest has built: also tables that contain themselves, run into a device, or end in
\* a hole.
THEOREM Sv39 == Spec => []WalkIsSv39
<1>1. CellsOK => WalkIsSv39
  BY WalkUnrolled, Zenon DEF WalkIsSv39
<1> QED
  BY <1>1, TypeCorrect, PTL

\* Reading an instruction in one access, or as two halves when it begins in the last
\* cell of a page, finds what two loads would, and a fault names the half that faults.
THEOREM Fetches == Spec => []FetchIsTwoLoads
<1> QED
  BY TwoLoads, TypeCorrect, PTL

\* A store by code that is translated changes only cells that a leaf of its tables
\* opens, also when it edits the tables it is translated by; a store that faults
\* changes none.
THEOREM Confined == Spec => StoresStayInside
<1>1. CellsOK /\ [Next]_vars
        => [Paging => \A c \in RamCells : mem'[c] # mem[c] => c \in Mapped]_vars
  BY StoreInside, Zenon
<1> QED
  BY <1>1, TypeCorrect, PTL DEF Spec, StoresStayInside

-----------------------------------------------------------------------------
(* Fields of a word.                                                       *)

\* The powers of two that a field of seven bits needs.
LEMMA Powers ==
  2^0 = 1 /\ 2^1 = 2 /\ 2^2 = 4 /\ 2^3 = 8 /\ 2^4 = 16 /\ 2^5 = 32 /\ 2^6 = 64
OBVIOUS

\* The bits of a field, counted from its lowest one.
LEMMA BitsIs ==
  ASSUME NEW w \in SUBSET Int, NEW high \in Nat, NEW low \in 0 .. high
  PROVE  /\ BITS(w, high, low) \subseteq 0 .. high - low
         /\ \A i \in 0 .. high - low : i \in BITS(w, high, low) <=> i + low \in w
<1>1. ASSUME NEW i \in BITS(w, high, low) PROVE i \in 0 .. high - low /\ i + low \in w
  BY DEF BITS
<1>2. ASSUME NEW i \in 0 .. high - low, i + low \in w PROVE i \in BITS(w, high, low)
  <2>1. i + low \in w \cap (low .. high) /\ i = (i + low) - low
    BY <1>2
  <2> QED
    BY <2>1 DEF BITS
<1> QED
  BY <1>1, <1>2

\* A shift moves every bit.
LEMMA ShlIs ==
  ASSUME NEW bits \in SUBSET Int, NEW n \in Int, NEW i \in Int
  PROVE  i \in Shl(bits, n) <=> i - n \in bits
<1>1. i = (i - n) + n
  OBVIOUS
<1>2. ASSUME NEW j \in bits, i = j + n PROVE i - n \in bits
  BY <1>2
<1> QED
  BY <1>1, <1>2 DEF Shl

\* Numbers and their bits.
LEMMA NumberIs ==
  ASSUME NEW w
  PROVE  /\ Number(w) \in 0 .. 127
         /\ w \subseteq 0 .. 4 => Number(w) \in 0 .. 31
         /\ w \subseteq 0 .. 2 => Number(w) \in 0 .. 7
BY DEF Number

\* Number reads what ToBits has written, for the three widths of the fields.
LEMMA NumberOfBits ==
  /\ \A n \in 0 .. 7 : Number(ToBits(n, 3)) = n
  /\ \A n \in 0 .. 31 : Number(ToBits(n, 5)) = n
  /\ \A n \in 0 .. 127 : Number(ToBits(n, 7)) = n
<1>1. ASSUME NEW n \in Nat, NEW k \in {3, 5, 7}
      PROVE  /\ 0 \in ToBits(n, k) <=> n % 2 = 1
             /\ 1 \in ToBits(n, k) <=> (n \div 2) % 2 = 1
             /\ 2 \in ToBits(n, k) <=> (n \div 4) % 2 = 1
             /\ 3 \in ToBits(n, k) <=> k # 3 /\ (n \div 8) % 2 = 1
             /\ 4 \in ToBits(n, k) <=> k # 3 /\ (n \div 16) % 2 = 1
             /\ 5 \in ToBits(n, k) <=> k = 7 /\ (n \div 32) % 2 = 1
             /\ 6 \in ToBits(n, k) <=> k = 7 /\ (n \div 64) % 2 = 1
  BY Powers DEF ToBits
<1>2. ASSUME NEW n \in 0 .. 7 PROVE Number(ToBits(n, 3)) = n
  BY <1>1 DEF Number
<1>3. ASSUME NEW n \in 0 .. 31 PROVE Number(ToBits(n, 5)) = n
  BY <1>1 DEF Number
<1>4. ASSUME NEW n \in 0 .. 127 PROVE Number(ToBits(n, 7)) = n
  BY <1>1 DEF Number
<1> QED
  BY <1>2, <1>3, <1>4

-----------------------------------------------------------------------------
(* Where the assembler puts the bits of an immediate.                      *)

\* Bit i of a scattered immediate is the bit that the order names for that place.
LEMMA ScatterIs ==
  ASSUME NEW imm, NEW high \in Int, NEW order, Len(order) \in Nat, NEW i \in Int
  PROVE  i \in Scatter(imm, high, order) <=>
           high + 1 - i \in 1 .. Len(order) /\ order[high + 1 - i] \in imm
<1>1. ASSUME NEW n \in 1 .. Len(order), order[n] \in imm, i = high + 1 - n
      PROVE  high + 1 - i \in 1 .. Len(order) /\ order[high + 1 - i] \in imm
  <2>1. high + 1 - i = n
    BY <1>1
  <2> QED
    BY <1>1, <2>1
<1>2. i = high + 1 - (high + 1 - i)
  OBVIOUS
<1> QED
  BY <1>1, <1>2 DEF Scatter

\* A run of bits, from the highest down.
LEMMA DownIs ==
  ASSUME NEW high \in Nat, NEW low \in 0 .. high
  PROVE  /\ Down(high, low) \in Seq(Nat) /\ Len(Down(high, low)) = high - low + 1
         /\ \A k \in 1 .. high - low + 1 : Down(high, low)[k] = high + 1 - k
<1>1. \A k \in 1 .. high - low + 1 : high + 1 - k \in Nat
  OBVIOUS
<1> QED
  BY <1>1 DEF Down

\* A run of bits.
LEMMA RunIs ==
  ASSUME NEW imm, NEW high \in Nat, NEW top \in Nat, NEW bottom \in 0 .. top, NEW i \in Int
  PROVE  i \in Scatter(imm, high, Down(top, bottom)) <=>
           i \in high - (top - bottom) .. high /\ i + top - high \in imm
<1> DEFINE order == Down(top, bottom)  k == high + 1 - i
<1>1. Len(order) = top - bottom + 1 /\ \A n \in 1 .. top - bottom + 1 : order[n] = top + 1 - n
  BY DownIs
<1> HIDE DEF order
<1>2. i \in Scatter(imm, high, order) <=> k \in 1 .. Len(order) /\ order[k] \in imm
  BY <1>1, ScatterIs
<1>3. k \in 1 .. Len(order) <=> i \in high - (top - bottom) .. high
  BY <1>1
<1>4. k \in 1 .. Len(order) => order[k] = i + top - high
  BY <1>1
<1> QED
  BY <1>2, <1>3, <1>4 DEF order

\* Two sequences one behind the other.
LEMMA JoinIs ==
  ASSUME NEW s \in Seq(Nat), NEW t \in Seq(Nat)
  PROVE  /\ s \o t \in Seq(Nat) /\ Len(s \o t) = Len(s) + Len(t)
         /\ \A k \in 1 .. Len(s) + Len(t) :
              (s \o t)[k] = IF k <= Len(s) THEN s[k] ELSE t[k - Len(s)]
OBVIOUS

\* An order of a single bit.
LEMMA OneIs ==
  ASSUME NEW n \in Nat
  PROVE  <<n>> \in Seq(Nat) /\ Len(<<n>>) = 1 /\ <<n>>[1] = n
OBVIOUS

\* The runs in the immediates of branches and jumps.
LEMMA RunsAre ==
  /\ Down(10, 5) \in Seq(Nat) /\ Len(Down(10, 5)) = 6
  /\ \A k \in 1 .. 6 : Down(10, 5)[k] = 11 - k
  /\ Down(4, 1) \in Seq(Nat) /\ Len(Down(4, 1)) = 4
  /\ \A k \in 1 .. 4 : Down(4, 1)[k] = 5 - k
  /\ Down(10, 1) \in Seq(Nat) /\ Len(Down(10, 1)) = 10
  /\ \A k \in 1 .. 10 : Down(10, 1)[k] = 11 - k
  /\ Down(19, 12) \in Seq(Nat) /\ Len(Down(19, 12)) = 8
  /\ \A k \in 1 .. 8 : Down(19, 12)[k] = 20 - k
<1>1. ASSUME NEW a \in Nat, NEW b \in 0 .. a, NEW n \in Nat, n = a - b + 1
      PROVE  /\ Down(a, b) \in Seq(Nat) /\ Len(Down(a, b)) = n
             /\ \A k \in 1 .. n : Down(a, b)[k] = a + 1 - k
  BY <1>1, DownIs
<1>2. /\ 10 \in Nat /\ 5 \in 0 .. 10 /\ 6 \in Nat /\ 6 = 10 - 5 + 1 /\ 4 \in Nat /\ 1 \in 0 .. 4
      /\ 4 = 4 - 1 + 1 /\ 1 \in 0 .. 10 /\ 10 = 10 - 1 + 1 /\ 19 \in Nat /\ 12 \in 0 .. 19
      /\ 8 \in Nat /\ 8 = 19 - 12 + 1
  OBVIOUS
<1>3. /\ Down(10, 5) \in Seq(Nat) /\ Len(Down(10, 5)) = 6
      /\ \A k \in 1 .. 6 : Down(10, 5)[k] = 10 + 1 - k
  BY <1>1, <1>2, Zenon
<1>4. /\ Down(4, 1) \in Seq(Nat) /\ Len(Down(4, 1)) = 4
      /\ \A k \in 1 .. 4 : Down(4, 1)[k] = 4 + 1 - k
  BY <1>1, <1>2, Zenon
<1>5. /\ Down(10, 1) \in Seq(Nat) /\ Len(Down(10, 1)) = 10
      /\ \A k \in 1 .. 10 : Down(10, 1)[k] = 10 + 1 - k
  BY <1>1, <1>2, Zenon
<1>6. /\ Down(19, 12) \in Seq(Nat) /\ Len(Down(19, 12)) = 8
      /\ \A k \in 1 .. 8 : Down(19, 12)[k] = 19 + 1 - k
  BY <1>1, <1>2, Zenon
<1> QED
  BY <1>3, <1>4, <1>5, <1>6

\* Where the bits of a branch offset are in the word.
LEMMA BranchOrder ==
  ASSUME NEW imm, NEW i \in Int
  PROVE  i \in ImmBits("B", imm) <=>
           \/ i = 31 /\ 12 \in imm
           \/ i \in 25 .. 30 /\ i - 20 \in imm
           \/ i \in 8 .. 11 /\ i - 7 \in imm
           \/ i = 7 /\ 11 \in imm
<1> DEFINE s == Down(10, 5)  t == Down(4, 1)  p == <<12>>  q == <<11>>
           a == p \o s  b == t \o q
<1>1. /\ s \in Seq(Nat) /\ Len(s) = 6 /\ \A k \in 1 .. 6 : s[k] = 11 - k
      /\ t \in Seq(Nat) /\ Len(t) = 4 /\ \A k \in 1 .. 4 : t[k] = 5 - k
  BY RunsAre
<1>2. /\ p \in Seq(Nat) /\ Len(p) = 1 /\ p[1] = 12
      /\ q \in Seq(Nat) /\ Len(q) = 1 /\ q[1] = 11
  BY OneIs
<1>3. ImmBits("B", imm) = Scatter(imm, 31, a) \cup Scatter(imm, 11, b)
  BY DEF ImmBits, a, b, s, t, p, q
<1> HIDE DEF s, t, p, q
<1>4. /\ Len(a) = 7 /\ a[1] = 12 /\ \A k \in 2 .. 7 : a[k] = 12 - k
  <2>1. /\ a \in Seq(Nat) /\ Len(a) = Len(p) + Len(s)
        /\ \A k \in 1 .. Len(p) + Len(s) :
             a[k] = IF k <= Len(p) THEN p[k] ELSE s[k - Len(p)]
    BY <1>1, <1>2, JoinIs, Zenon
  <2> HIDE DEF a
  <2> QED
    BY <1>1, <1>2, <2>1
<1>5. /\ Len(b) = 5 /\ b[5] = 11 /\ \A k \in 1 .. 4 : b[k] = 5 - k
  <2>1. /\ b \in Seq(Nat) /\ Len(b) = Len(t) + Len(q)
        /\ \A k \in 1 .. Len(t) + Len(q) :
             b[k] = IF k <= Len(t) THEN t[k] ELSE q[k - Len(t)]
    BY <1>1, <1>2, JoinIs, Zenon
  <2> HIDE DEF b
  <2> QED
    BY <1>1, <1>2, <2>1
<1> HIDE DEF a, b
<1>6. i \in Scatter(imm, 31, a) <=> 31 + 1 - i \in 1 .. 7 /\ a[31 + 1 - i] \in imm
  <2>1. Len(a) \in Nat /\ Len(a) = 7 /\ 31 \in Int
    BY <1>4
  <2>2. i \in Scatter(imm, 31, a) <=>
          31 + 1 - i \in 1 .. Len(a) /\ a[31 + 1 - i] \in imm
    BY <2>1, ScatterIs, Zenon
  <2> QED
    BY <2>1, <2>2
<1>7. i \in Scatter(imm, 11, b) <=> 11 + 1 - i \in 1 .. 5 /\ b[11 + 1 - i] \in imm
  <2>1. Len(b) \in Nat /\ Len(b) = 5 /\ 11 \in Int
    BY <1>5
  <2>2. i \in Scatter(imm, 11, b) <=>
          11 + 1 - i \in 1 .. Len(b) /\ b[11 + 1 - i] \in imm
    BY <2>1, ScatterIs, Zenon
  <2> QED
    BY <2>1, <2>2
<1>8. i \in Scatter(imm, 31, a) <=> (i = 31 /\ 12 \in imm) \/ (i \in 25 .. 30 /\ i - 20 \in imm)
  BY <1>4, <1>6
<1>9. i \in Scatter(imm, 11, b) <=> (i = 7 /\ 11 \in imm) \/ (i \in 8 .. 11 /\ i - 7 \in imm)
  BY <1>5, <1>7
<1> QED
  BY <1>3, <1>8, <1>9

\* Where the bits of a jump offset are.
LEMMA JumpOrder ==
  ASSUME NEW imm, NEW i \in Int
  PROVE  i \in ImmBits("J", imm) <=>
           \/ i = 31 /\ 20 \in imm
           \/ i \in 21 .. 30 /\ i - 20 \in imm
           \/ i = 20 /\ 11 \in imm
           \/ i \in 12 .. 19 /\ i \in imm
<1> DEFINE s == Down(10, 1)  t == Down(19, 12)  p == <<20>>  q == <<11>>
           b == p \o s  c == b \o q  a == c \o t
<1>1. /\ s \in Seq(Nat) /\ Len(s) = 10 /\ \A k \in 1 .. 10 : s[k] = 11 - k
      /\ t \in Seq(Nat) /\ Len(t) = 8 /\ \A k \in 1 .. 8 : t[k] = 20 - k
  BY RunsAre
<1>2. /\ p \in Seq(Nat) /\ Len(p) = 1 /\ p[1] = 20
      /\ q \in Seq(Nat) /\ Len(q) = 1 /\ q[1] = 11
  BY OneIs
<1>3. ImmBits("J", imm) = Scatter(imm, 31, a)
  BY DEF ImmBits, a, b, c, s, t, p, q
<1> HIDE DEF s, t, p, q
<1>4. b \in Seq(Nat) /\ Len(b) = 11 /\ b[1] = 20 /\ \A k \in 2 .. 11 : b[k] = 12 - k
  <2>1. /\ b \in Seq(Nat) /\ Len(b) = Len(p) + Len(s)
        /\ \A k \in 1 .. Len(p) + Len(s) :
             b[k] = IF k <= Len(p) THEN p[k] ELSE s[k - Len(p)]
    BY <1>1, <1>2, JoinIs, Zenon
  <2> HIDE DEF b
  <2> QED
    BY <1>1, <1>2, <2>1
<1> HIDE DEF b
<1>5. /\ c \in Seq(Nat) /\ Len(c) = 12 /\ c[1] = 20 /\ \A k \in 2 .. 11 : c[k] = 12 - k
      /\ c[12] = 11
  <2>1. /\ c \in Seq(Nat) /\ Len(c) = Len(b) + Len(q)
        /\ \A k \in 1 .. Len(b) + Len(q) :
             c[k] = IF k <= Len(b) THEN b[k] ELSE q[k - Len(b)]
    BY <1>1, <1>2, <1>4, JoinIs, Zenon
  <2> HIDE DEF c
  <2> QED
    BY <1>1, <1>2, <1>4, <2>1
<1> HIDE DEF c
<1>6. /\ Len(a) = 20 /\ a[1] = 20 /\ \A k \in 2 .. 11 : a[k] = 12 - k
      /\ a[12] = 11 /\ \A k \in 13 .. 20 : a[k] = 32 - k
  <2>1. /\ a \in Seq(Nat) /\ Len(a) = Len(c) + Len(t)
        /\ \A k \in 1 .. Len(c) + Len(t) :
             a[k] = IF k <= Len(c) THEN c[k] ELSE t[k - Len(c)]
    BY <1>1, <1>2, <1>5, JoinIs, Zenon
  <2> HIDE DEF a
  <2> QED
    BY <1>1, <1>2, <1>5, <2>1
<1> HIDE DEF a
<1>7. i \in Scatter(imm, 31, a) <=> 31 + 1 - i \in 1 .. 20 /\ a[31 + 1 - i] \in imm
  <2>1. Len(a) \in Nat /\ Len(a) = 20 /\ 31 \in Int
    BY <1>6
  <2>2. i \in Scatter(imm, 31, a) <=>
          31 + 1 - i \in 1 .. Len(a) /\ a[31 + 1 - i] \in imm
    BY <2>1, ScatterIs, Zenon
  <2> QED
    BY <2>1, <2>2
<1> QED
  BY <1>3, <1>6, <1>7

\* Where the bits of the other immediates are; four formats have none.
LEMMA OtherOrders ==
  ASSUME NEW imm, NEW i \in Int
  PROVE  /\ i \in ImmBits("I", imm) <=> i \in 20 .. 31 /\ i - 20 \in imm
         /\ i \in ImmBits("S", imm) <=> \/ i \in 25 .. 31 /\ i - 20 \in imm
                                        \/ i \in 7 .. 11 /\ i - 7 \in imm
         /\ i \in ImmBits("U", imm) <=> i \in 12 .. 31 /\ i \in imm
         /\ i \in ImmBits("H", imm) <=> i \in 20 .. 25 /\ i - 20 \in imm
         /\ i \in ImmBits("W", imm) <=> i \in 20 .. 24 /\ i - 20 \in imm
         /\ i \in ImmBits("Z", imm) <=> i \in 15 .. 19 /\ i - 15 \in imm
         /\ i \in ImmBits("A", imm) <=> i \in 25 .. 26 /\ i - 25 \in imm
         /\ \A f \in {"R", "P", "C", "V"} : i \notin ImmBits(f, imm)
<1>1. /\ i \in Scatter(imm, 31, Down(11, 0)) <=> i \in 20 .. 31 /\ i - 20 \in imm
      /\ i \in Scatter(imm, 31, Down(11, 5)) <=> i \in 25 .. 31 /\ i - 20 \in imm
      /\ i \in Scatter(imm, 11, Down(4, 0)) <=> i \in 7 .. 11 /\ i - 7 \in imm
      /\ i \in Scatter(imm, 31, Down(31, 12)) <=> i \in 12 .. 31 /\ i \in imm
      /\ i \in Scatter(imm, 25, Down(5, 0)) <=> i \in 20 .. 25 /\ i - 20 \in imm
      /\ i \in Scatter(imm, 24, Down(4, 0)) <=> i \in 20 .. 24 /\ i - 20 \in imm
      /\ i \in Scatter(imm, 19, Down(4, 0)) <=> i \in 15 .. 19 /\ i - 15 \in imm
      /\ i \in Scatter(imm, 26, Down(1, 0)) <=> i \in 25 .. 26 /\ i - 25 \in imm
  BY RunIs
<1> QED
  BY <1>1 DEF ImmBits

-----------------------------------------------------------------------------
(* dec32: which operation a word is.                                       *)

\* The operations of the listing, by the table of dec32 that has them.
UpperOps == {"LUI", "AUIPC", "JAL", "JALR"}
BranchOps == {"BEQ", "BNE", "BLT", "BGE", "BLTU", "BGEU"}
LoadOps == {"LB", "LH", "LW", "LD", "LBU", "LHU", "LWU"}
StoreOps == {"SB", "SH", "SW", "SD"}
LoadFpOps == {"FLW", "FLD"}
StoreFpOps == {"FSW", "FSD"}
ImmediateOps == {"ADDI", "SLTI", "SLTIU", "XORI", "ORI", "ANDI"}
ShiftOps == {"SLLI", "SRLI", "SRAI"}
ImmediateWOps == {"ADDIW"}
ShiftWOps == {"SLLIW", "SRLIW", "SRAIW"}
RegisterOps == {"ADD", "SUB", "SLL", "SLT", "SLTU", "XOR", "SRL", "SRA", "OR", "AND"}
MulDivOps == {"MUL", "MULH", "MULHSU", "MULHU", "DIV", "DIVU", "REM", "REMU"}
RegisterWOps == {"ADDW", "SUBW", "SLLW", "SRLW", "SRAW"}
MulDivWOps == {"MULW", "DIVW", "DIVUW", "REMW", "REMUW"}
MiscOps == {"FENCE", "FENCE_I"}
SystemOps == {"ECALL", "EBREAK", "URET", "SRET", "MRET", "WFI", "SFENCE_VMA"}
CsrOps == {"CSRRW", "CSRRS", "CSRRC"}
CsrImmOps == {"CSRRWI", "CSRRSI", "CSRRCI"}
AtomicOps == {"LR_W", "LR_D", "SC_W", "SC_D", "AMO_SWAP_W", "AMO_SWAP_D", "AMO_ADD_W",
              "AMO_ADD_D", "AMO_XOR_W", "AMO_XOR_D", "AMO_AND_W", "AMO_AND_D", "AMO_OR_W",
              "AMO_OR_D", "AMO_MIN_W", "AMO_MIN_D", "AMO_MAX_W", "AMO_MAX_D", "AMO_MINU_W",
              "AMO_MINU_D", "AMO_MAXU_W", "AMO_MAXU_D"}
MoveOps == {"FMV_W_X"}

\* The groups are all the operations of the listing.
LEMMA OperationsAre ==
  Operations =
    UpperOps \cup BranchOps \cup LoadOps \cup StoreOps \cup LoadFpOps \cup StoreFpOps
    \cup ImmediateOps \cup ShiftOps \cup ImmediateWOps \cup ShiftWOps \cup RegisterOps
    \cup MulDivOps \cup RegisterWOps \cup MulDivWOps \cup MiscOps \cup SystemOps \cup CsrOps
    \cup CsrImmOps \cup AtomicOps \cup MoveOps
BY SMTT(30) DEF Operations, Listing, UpperOps, BranchOps, LoadOps, StoreOps, LoadFpOps,
   StoreFpOps, ImmediateOps, ShiftOps, ImmediateWOps, ShiftWOps, RegisterOps,
   MulDivOps, RegisterWOps, MulDivWOps, MiscOps, SystemOps, CsrOps,
   CsrImmOps, AtomicOps, MoveOps

\* The entry of an operation in the listing.
Listed(op, f, code, f3, f7) ==
  Format(op) = f /\ Listing[op][2] = code /\ Listing[op][3] = f3 /\ Listing[op][4] = f7

\* The encodings of the upper-immediate and jump instructions.
LEMMA UpperEntries ==
  /\ Listed("LUI", "U", 55, 0, 0) /\ Listed("AUIPC", "U", 23, 0, 0)
  /\ Listed("JAL", "J", 111, 0, 0) /\ Listed("JALR", "I", 103, 0, 0)
<1>1. /\ Listed("LUI", "U", 55, 0, 0) /\ Listed("AUIPC", "U", 23, 0, 0)
      /\ Listed("JAL", "J", 111, 0, 0)
  BY ZenonT(60) DEF Listed, Format, Listing
<1>2. Listed("JALR", "I", 103, 0, 0)
  BY ZenonT(60) DEF Listed, Format, Listing
<1> QED
  BY <1>1, <1>2

\* The encodings of the branches.
LEMMA BranchEntries ==
  /\ Listed("BEQ", "B", 99, 0, 0) /\ Listed("BNE", "B", 99, 1, 0)
  /\ Listed("BLT", "B", 99, 4, 0) /\ Listed("BGE", "B", 99, 5, 0)
  /\ Listed("BLTU", "B", 99, 6, 0) /\ Listed("BGEU", "B", 99, 7, 0)
<1>1. /\ Listed("BEQ", "B", 99, 0, 0) /\ Listed("BNE", "B", 99, 1, 0)
      /\ Listed("BLT", "B", 99, 4, 0)
  BY ZenonT(60) DEF Listed, Format, Listing
<1>2. /\ Listed("BGE", "B", 99, 5, 0) /\ Listed("BLTU", "B", 99, 6, 0)
      /\ Listed("BGEU", "B", 99, 7, 0)
  BY ZenonT(60) DEF Listed, Format, Listing
<1> QED
  BY <1>1, <1>2

\* The encodings of the loads.
LEMMA LoadEntries ==
  /\ Listed("LB", "I", 3, 0, 0) /\ Listed("LH", "I", 3, 1, 0) /\ Listed("LW", "I", 3, 2, 0)
  /\ Listed("LD", "I", 3, 3, 0) /\ Listed("LBU", "I", 3, 4, 0) /\ Listed("LHU", "I", 3, 5, 0)
  /\ Listed("LWU", "I", 3, 6, 0)
<1>1. Listed("LB", "I", 3, 0, 0) /\ Listed("LH", "I", 3, 1, 0) /\ Listed("LW", "I", 3, 2, 0)
  BY ZenonT(60) DEF Listed, Format, Listing
<1>2. Listed("LD", "I", 3, 3, 0) /\ Listed("LBU", "I", 3, 4, 0) /\ Listed("LHU", "I", 3, 5, 0)
  BY ZenonT(60) DEF Listed, Format, Listing
<1>3. Listed("LWU", "I", 3, 6, 0)
  BY ZenonT(60) DEF Listed, Format, Listing
<1> QED
  BY <1>1, <1>2, <1>3

\* The encodings of the stores.
LEMMA StoreEntries ==
  /\ Listed("SB", "S", 35, 0, 0) /\ Listed("SH", "S", 35, 1, 0) /\ Listed("SW", "S", 35, 2, 0)
  /\ Listed("SD", "S", 35, 3, 0)
<1>1. Listed("SB", "S", 35, 0, 0) /\ Listed("SH", "S", 35, 1, 0) /\ Listed("SW", "S", 35, 2, 0)
  BY ZenonT(60) DEF Listed, Format, Listing
<1>2. Listed("SD", "S", 35, 3, 0)
  BY ZenonT(60) DEF Listed, Format, Listing
<1> QED
  BY <1>1, <1>2

\* The encodings of the floating-point loads.
LEMMA LoadFpEntries ==
  /\ Listed("FLW", "I", 7, 2, 0) /\ Listed("FLD", "I", 7, 3, 0)
BY ZenonT(60) DEF Listed, Format, Listing

\* The encodings of the floating-point stores.
LEMMA StoreFpEntries ==
  /\ Listed("FSW", "S", 39, 2, 0) /\ Listed("FSD", "S", 39, 3, 0)
BY ZenonT(60) DEF Listed, Format, Listing

\* The encodings of the operations with an immediate.
LEMMA ImmediateEntries ==
  /\ Listed("ADDI", "I", 19, 0, 0) /\ Listed("SLTI", "I", 19, 2, 0)
  /\ Listed("SLTIU", "I", 19, 3, 0) /\ Listed("XORI", "I", 19, 4, 0)
  /\ Listed("ORI", "I", 19, 6, 0) /\ Listed("ANDI", "I", 19, 7, 0)
<1>1. /\ Listed("ADDI", "I", 19, 0, 0) /\ Listed("SLTI", "I", 19, 2, 0)
      /\ Listed("SLTIU", "I", 19, 3, 0)
  BY ZenonT(60) DEF Listed, Format, Listing
<1>2. /\ Listed("XORI", "I", 19, 4, 0) /\ Listed("ORI", "I", 19, 6, 0)
      /\ Listed("ANDI", "I", 19, 7, 0)
  BY ZenonT(60) DEF Listed, Format, Listing
<1> QED
  BY <1>1, <1>2

\* The encodings of the shifts by an immediate.
LEMMA ShiftEntries ==
  /\ Listed("SLLI", "H", 19, 1, 0) /\ Listed("SRLI", "H", 19, 5, 0)
  /\ Listed("SRAI", "H", 19, 5, 32)
BY ZenonT(60) DEF Listed, Format, Listing

\* The encodings of the 32-bit addition of an immediate.
LEMMA ImmediateWEntries ==
  /\ Listed("ADDIW", "I", 27, 0, 0)
BY ZenonT(60) DEF Listed, Format, Listing

\* The encodings of the 32-bit shifts by an immediate.
LEMMA ShiftWEntries ==
  /\ Listed("SLLIW", "W", 27, 1, 0) /\ Listed("SRLIW", "W", 27, 5, 0)
  /\ Listed("SRAIW", "W", 27, 5, 32)
BY ZenonT(60) DEF Listed, Format, Listing

\* The encodings of the register operations.
LEMMA RegisterEntries ==
  /\ Listed("ADD", "R", 51, 0, 0) /\ Listed("SUB", "R", 51, 0, 32)
  /\ Listed("SLL", "R", 51, 1, 0) /\ Listed("SLT", "R", 51, 2, 0)
  /\ Listed("SLTU", "R", 51, 3, 0) /\ Listed("XOR", "R", 51, 4, 0)
  /\ Listed("SRL", "R", 51, 5, 0) /\ Listed("SRA", "R", 51, 5, 32)
  /\ Listed("OR", "R", 51, 6, 0) /\ Listed("AND", "R", 51, 7, 0)
<1>1. /\ Listed("ADD", "R", 51, 0, 0) /\ Listed("SUB", "R", 51, 0, 32)
      /\ Listed("SLL", "R", 51, 1, 0)
  BY ZenonT(60) DEF Listed, Format, Listing
<1>2. /\ Listed("SLT", "R", 51, 2, 0) /\ Listed("SLTU", "R", 51, 3, 0)
      /\ Listed("XOR", "R", 51, 4, 0)
  BY ZenonT(60) DEF Listed, Format, Listing
<1>3. /\ Listed("SRL", "R", 51, 5, 0) /\ Listed("SRA", "R", 51, 5, 32)
      /\ Listed("OR", "R", 51, 6, 0)
  BY ZenonT(60) DEF Listed, Format, Listing
<1>4. Listed("AND", "R", 51, 7, 0)
  BY ZenonT(60) DEF Listed, Format, Listing
<1> QED
  BY <1>1, <1>2, <1>3, <1>4

\* The encodings of the multiplications and divisions.
LEMMA MulDivEntries ==
  /\ Listed("MUL", "R", 51, 0, 1) /\ Listed("MULH", "R", 51, 1, 1)
  /\ Listed("MULHSU", "R", 51, 2, 1) /\ Listed("MULHU", "R", 51, 3, 1)
  /\ Listed("DIV", "R", 51, 4, 1) /\ Listed("DIVU", "R", 51, 5, 1)
  /\ Listed("REM", "R", 51, 6, 1) /\ Listed("REMU", "R", 51, 7, 1)
<1>1. /\ Listed("MUL", "R", 51, 0, 1) /\ Listed("MULH", "R", 51, 1, 1)
      /\ Listed("MULHSU", "R", 51, 2, 1)
  BY ZenonT(60) DEF Listed, Format, Listing
<1>2. /\ Listed("MULHU", "R", 51, 3, 1) /\ Listed("DIV", "R", 51, 4, 1)
      /\ Listed("DIVU", "R", 51, 5, 1)
  BY ZenonT(60) DEF Listed, Format, Listing
<1>3. Listed("REM", "R", 51, 6, 1) /\ Listed("REMU", "R", 51, 7, 1)
  BY ZenonT(60) DEF Listed, Format, Listing
<1> QED
  BY <1>1, <1>2, <1>3

\* The encodings of the 32-bit register operations.
LEMMA RegisterWEntries ==
  /\ Listed("ADDW", "R", 59, 0, 0) /\ Listed("SUBW", "R", 59, 0, 32)
  /\ Listed("SLLW", "R", 59, 1, 0) /\ Listed("SRLW", "R", 59, 5, 0)
  /\ Listed("SRAW", "R", 59, 5, 32)
<1>1. /\ Listed("ADDW", "R", 59, 0, 0) /\ Listed("SUBW", "R", 59, 0, 32)
      /\ Listed("SLLW", "R", 59, 1, 0)
  BY ZenonT(60) DEF Listed, Format, Listing
<1>2. Listed("SRLW", "R", 59, 5, 0) /\ Listed("SRAW", "R", 59, 5, 32)
  BY ZenonT(60) DEF Listed, Format, Listing
<1> QED
  BY <1>1, <1>2

\* The encodings of the 32-bit multiplications and divisions.
LEMMA MulDivWEntries ==
  /\ Listed("MULW", "R", 59, 0, 1) /\ Listed("DIVW", "R", 59, 4, 1)
  /\ Listed("DIVUW", "R", 59, 5, 1) /\ Listed("REMW", "R", 59, 6, 1)
  /\ Listed("REMUW", "R", 59, 7, 1)
<1>1. /\ Listed("MULW", "R", 59, 0, 1) /\ Listed("DIVW", "R", 59, 4, 1)
      /\ Listed("DIVUW", "R", 59, 5, 1)
  BY ZenonT(60) DEF Listed, Format, Listing
<1>2. Listed("REMW", "R", 59, 6, 1) /\ Listed("REMUW", "R", 59, 7, 1)
  BY ZenonT(60) DEF Listed, Format, Listing
<1> QED
  BY <1>1, <1>2

\* The encodings of the fences.
LEMMA MiscEntries ==
  /\ Listed("FENCE", "I", 15, 0, 0) /\ Listed("FENCE_I", "I", 15, 1, 0)
BY ZenonT(60) DEF Listed, Format, Listing

\* The encodings of the privileged operations.
LEMMA SystemEntries ==
  /\ Listed("ECALL", "P", 115, 0, 0) /\ Listed("EBREAK", "P", 115, 0, 0)
  /\ Listed("URET", "P", 115, 0, 0) /\ Listed("SRET", "P", 115, 0, 8)
  /\ Listed("MRET", "P", 115, 0, 24) /\ Listed("WFI", "P", 115, 0, 8)
  /\ Listed("SFENCE_VMA", "V", 115, 0, 9)
  /\ Listing["ECALL"][5] = 0 /\ Listing["EBREAK"][5] = 1 /\ Listing["URET"][5] = 2
  /\ Listing["SRET"][5] = 2 /\ Listing["MRET"][5] = 2 /\ Listing["WFI"][5] = 5
<1>1. /\ Listed("ECALL", "P", 115, 0, 0) /\ Listed("EBREAK", "P", 115, 0, 0)
      /\ Listed("URET", "P", 115, 0, 0) /\ Listed("SRET", "P", 115, 0, 8)
      /\ Listed("MRET", "P", 115, 0, 24) /\ Listed("WFI", "P", 115, 0, 8)
      /\ Listed("SFENCE_VMA", "V", 115, 0, 9)
  BY ZenonT(60) DEF Listed, Format, Listing
<1>2. /\ Listing["ECALL"][5] = 0 /\ Listing["EBREAK"][5] = 1 /\ Listing["URET"][5] = 2
      /\ Listing["SRET"][5] = 2 /\ Listing["MRET"][5] = 2 /\ Listing["WFI"][5] = 5
  BY ZenonT(60) DEF Listed, Format, Listing
<1> QED
  BY <1>1, <1>2

\* The encodings of the csr operations.
LEMMA CsrEntries ==
  /\ Listed("CSRRW", "C", 115, 1, 0) /\ Listed("CSRRS", "C", 115, 2, 0)
  /\ Listed("CSRRC", "C", 115, 3, 0)
BY ZenonT(60) DEF Listed, Format, Listing

\* The encodings of the csr operations with an immediate.
LEMMA CsrImmEntries ==
  /\ Listed("CSRRWI", "Z", 115, 5, 0) /\ Listed("CSRRSI", "Z", 115, 6, 0)
  /\ Listed("CSRRCI", "Z", 115, 7, 0)
BY ZenonT(60) DEF Listed, Format, Listing

\* The encodings of the atomic operations.
LEMMA AtomicEntries ==
  /\ Listed("LR_W", "A", 47, 2, 8) /\ Listed("LR_D", "A", 47, 3, 8)
  /\ Listed("SC_W", "A", 47, 2, 12) /\ Listed("SC_D", "A", 47, 3, 12)
  /\ Listed("AMO_SWAP_W", "A", 47, 2, 4) /\ Listed("AMO_SWAP_D", "A", 47, 3, 4)
  /\ Listed("AMO_ADD_W", "A", 47, 2, 0) /\ Listed("AMO_ADD_D", "A", 47, 3, 0)
  /\ Listed("AMO_XOR_W", "A", 47, 2, 16) /\ Listed("AMO_XOR_D", "A", 47, 3, 16)
  /\ Listed("AMO_AND_W", "A", 47, 2, 48) /\ Listed("AMO_AND_D", "A", 47, 3, 48)
  /\ Listed("AMO_OR_W", "A", 47, 2, 32) /\ Listed("AMO_OR_D", "A", 47, 3, 32)
  /\ Listed("AMO_MIN_W", "A", 47, 2, 64) /\ Listed("AMO_MIN_D", "A", 47, 3, 64)
  /\ Listed("AMO_MAX_W", "A", 47, 2, 80) /\ Listed("AMO_MAX_D", "A", 47, 3, 80)
  /\ Listed("AMO_MINU_W", "A", 47, 2, 96) /\ Listed("AMO_MINU_D", "A", 47, 3, 96)
  /\ Listed("AMO_MAXU_W", "A", 47, 2, 112) /\ Listed("AMO_MAXU_D", "A", 47, 3, 112)
<1>1. /\ Listed("LR_W", "A", 47, 2, 8) /\ Listed("LR_D", "A", 47, 3, 8)
      /\ Listed("SC_W", "A", 47, 2, 12) /\ Listed("SC_D", "A", 47, 3, 12)
      /\ Listed("AMO_SWAP_W", "A", 47, 2, 4) /\ Listed("AMO_SWAP_D", "A", 47, 3, 4)
      /\ Listed("AMO_ADD_W", "A", 47, 2, 0) /\ Listed("AMO_ADD_D", "A", 47, 3, 0)
  BY ZenonT(60) DEF Listed, Format, Listing
<1>2. /\ Listed("AMO_XOR_W", "A", 47, 2, 16) /\ Listed("AMO_XOR_D", "A", 47, 3, 16)
      /\ Listed("AMO_AND_W", "A", 47, 2, 48) /\ Listed("AMO_AND_D", "A", 47, 3, 48)
      /\ Listed("AMO_OR_W", "A", 47, 2, 32) /\ Listed("AMO_OR_D", "A", 47, 3, 32)
      /\ Listed("AMO_MIN_W", "A", 47, 2, 64) /\ Listed("AMO_MIN_D", "A", 47, 3, 64)
  BY ZenonT(60) DEF Listed, Format, Listing
<1>3. /\ Listed("AMO_MAX_W", "A", 47, 2, 80) /\ Listed("AMO_MAX_D", "A", 47, 3, 80)
      /\ Listed("AMO_MINU_W", "A", 47, 2, 96) /\ Listed("AMO_MINU_D", "A", 47, 3, 96)
      /\ Listed("AMO_MAXU_W", "A", 47, 2, 112) /\ Listed("AMO_MAXU_D", "A", 47, 3, 112)
  BY ZenonT(60) DEF Listed, Format, Listing
<1> QED
  BY <1>1, <1>2, <1>3

\* The encodings of the move to a floating-point register.
LEMMA MoveEntries ==
  /\ Listed("FMV_W_X", "R", 83, 0, 120)
BY ZenonT(60) DEF Listed, Format, Listing

\* The immediate that dec32 takes for a format.
Immediate32(f, w) ==
  CASE f = "I" -> D32!I_IMM(w) [] f = "S" -> D32!S_IMM(w) [] f = "B" -> D32!B_IMM(w)
    [] f = "U" -> D32!U_IMM(w) [] f = "J" -> D32!J_IMM(w) [] f = "H" -> D32!M_IMM6(w)
    [] f = "W" -> D32!M_IMM5(w) [] f = "Z" -> D32!C_IMM(w) [] OTHER -> {}

\* A word with the fields that the listing gives for an operation.
Fits(op, w) ==
  /\ D32!opcode(w) = Listing[op][2]
  /\ Format(op) \notin {"U", "J"} => D32!funct3(w) = Listing[op][3]
  /\ Format(op) \in {"R", "P", "V"} => D32!funct7(w) = Listing[op][4]
  /\ Format(op) \in {"R", "H", "W"} => (30 \in w <=> (Listing[op][4] \div 32) % 2 = 1)
  /\ Format(op) = "A" => D32!funct5(w) = Listing[op][4] \div 4
  /\ Format(op) = "P" => D32!Second(w) = Listing[op][5]

\* What dec32 has to make of it; it takes no immediate from a fence.
Result32(op, w) ==
  LET d == D32!Fields(op, w, IF Listing[op][2] = 15 THEN {} ELSE Immediate32(Format(op), w))
  IN  IF Format(op) \in {"S", "B"} THEN D32!NoRd(d)
      ELSE IF Listing[op][2] = 115 THEN [d EXCEPT !.csr_addr = D32!BITS(w, 31, 20)]
      ELSE d

\* lui, auipc, jal and jalr are recognised by their opcode alone.
LEMMA UpperDecoded ==
  ASSUME NEW op \in UpperOps, NEW w, Fits(op, w)
  PROVE  D32!dec32(w) = Result32(op, w)
BY UpperEntries DEF UpperOps, Listed, Fits, Result32, Immediate32, D32!dec32

\* The branches by funct3.
LEMMA BranchTable ==
  /\ D32!Pick(D32!Branch, 0) = "BEQ" /\ D32!Pick(D32!Branch, 1) = "BNE"
  /\ D32!Pick(D32!Branch, 4) = "BLT" /\ D32!Pick(D32!Branch, 5) = "BGE"
  /\ D32!Pick(D32!Branch, 6) = "BLTU" /\ D32!Pick(D32!Branch, 7) = "BGEU"
BY DEF D32!Pick, D32!Branch

\* The branches, which have no rd.
LEMMA BranchDecoded ==
  ASSUME NEW op \in BranchOps, NEW w, Fits(op, w)
  PROVE  D32!dec32(w) = Result32(op, w)
<1>1. /\ Format(op) = "B" /\ Listing[op][2] = 99
      /\ D32!Pick(D32!Branch, Listing[op][3]) = op
  BY BranchEntries, BranchTable DEF BranchOps, Listed
<1> QED
  BY <1>1 DEF Fits, Result32, Immediate32, D32!dec32

\* The loads by funct3.
LEMMA LoadTable ==
  /\ D32!Pick(D32!Load, 0) = "LB" /\ D32!Pick(D32!Load, 1) = "LH"
  /\ D32!Pick(D32!Load, 2) = "LW" /\ D32!Pick(D32!Load, 3) = "LD"
  /\ D32!Pick(D32!Load, 4) = "LBU" /\ D32!Pick(D32!Load, 5) = "LHU"
  /\ D32!Pick(D32!Load, 6) = "LWU"
  /\ D32!Pick(D32!LoadFp, 2) = "FLW" /\ D32!Pick(D32!LoadFp, 3) = "FLD"
BY DEF D32!Pick, D32!Load, D32!LoadFp

\* The loads.
LEMMA LoadDecoded ==
  ASSUME NEW op \in LoadOps \cup LoadFpOps, NEW w, Fits(op, w)
  PROVE  D32!dec32(w) = Result32(op, w)
<1>1. Format(op) = "I"
  BY LoadEntries, LoadFpEntries DEF LoadOps, LoadFpOps, Listed
<1>2. CASE op \in LoadOps
  <2>1. Listing[op][2] = 3 /\ D32!Pick(D32!Load, Listing[op][3]) = op
    BY <1>2, LoadEntries, LoadTable DEF LoadOps, Listed
  <2> QED
    BY <1>1, <2>1 DEF Fits, Result32, Immediate32, D32!dec32
<1>3. CASE op \in LoadFpOps
  <2>1. Listing[op][2] = 7 /\ D32!Pick(D32!LoadFp, Listing[op][3]) = op
    BY <1>3, LoadFpEntries, LoadTable DEF LoadFpOps, Listed
  <2> QED
    BY <1>1, <2>1 DEF Fits, Result32, Immediate32, D32!dec32
<1> QED
  BY <1>2, <1>3

\* The stores by funct3.
LEMMA StoreTable ==
  /\ D32!Pick(D32!Store, 0) = "SB" /\ D32!Pick(D32!Store, 1) = "SH"
  /\ D32!Pick(D32!Store, 2) = "SW" /\ D32!Pick(D32!Store, 3) = "SD"
  /\ D32!Pick(D32!StoreFp, 2) = "FSW" /\ D32!Pick(D32!StoreFp, 3) = "FSD"
BY DEF D32!Pick, D32!Store, D32!StoreFp

\* The stores, which have no rd.
LEMMA StoreDecoded ==
  ASSUME NEW op \in StoreOps \cup StoreFpOps, NEW w, Fits(op, w)
  PROVE  D32!dec32(w) = Result32(op, w)
<1>1. Format(op) = "S"
  BY StoreEntries, StoreFpEntries DEF StoreOps, StoreFpOps, Listed
<1>2. CASE op \in StoreOps
  <2>1. Listing[op][2] = 35 /\ D32!Pick(D32!Store, Listing[op][3]) = op
    BY <1>2, StoreEntries, StoreTable DEF StoreOps, Listed
  <2> QED
    BY <1>1, <2>1 DEF Fits, Result32, Immediate32, D32!dec32
<1>3. CASE op \in StoreFpOps
  <2>1. Listing[op][2] = 39 /\ D32!Pick(D32!StoreFp, Listing[op][3]) = op
    BY <1>3, StoreFpEntries, StoreTable DEF StoreFpOps, Listed
  <2> QED
    BY <1>1, <2>1 DEF Fits, Result32, Immediate32, D32!dec32
<1> QED
  BY <1>2, <1>3

\* The tables in which bit 30 chooses.
LEMMA ImmediateTable ==
  ASSUME NEW w
  PROVE  /\ D32!Pick(D32!Imm(w), 0) = "ADDI" /\ D32!Pick(D32!Imm(w), 1) = "SLLI"
         /\ D32!Pick(D32!Imm(w), 2) = "SLTI" /\ D32!Pick(D32!Imm(w), 3) = "SLTIU"
         /\ D32!Pick(D32!Imm(w), 4) = "XORI" /\ D32!Pick(D32!Imm(w), 6) = "ORI"
         /\ D32!Pick(D32!Imm(w), 5) = IF 30 \in w THEN "SRAI" ELSE "SRLI"
         /\ D32!Pick(D32!Imm(w), 7) = "ANDI"
         /\ D32!Pick(D32!ImmW(w), 0) = "ADDIW" /\ D32!Pick(D32!ImmW(w), 1) = "SLLIW"
         /\ D32!Pick(D32!ImmW(w), 5) = IF 30 \in w THEN "SRAIW" ELSE "SRLIW"
BY DEF D32!Pick, D32!Imm, D32!ImmW

\* The operations with an immediate; a shift by one has the shorter immediate.
LEMMA ImmediateDecoded ==
  ASSUME NEW op \in ImmediateOps \cup ShiftOps \cup ImmediateWOps \cup ShiftWOps, NEW w,
         Fits(op, w)
  PROVE  D32!dec32(w) = Result32(op, w)
<1>1. CASE op \in ImmediateOps
  <2>1. /\ Format(op) = "I" /\ Listing[op][2] = 19 /\ Listing[op][3] \notin {1, 5}
        /\ D32!Pick(D32!Imm(w), Listing[op][3]) = op
    BY <1>1, ImmediateEntries, ImmediateTable DEF ImmediateOps, Listed
  <2> QED
    BY <2>1 DEF Fits, Result32, Immediate32, D32!dec32, D32!Immediate, D32!Shift
<1>2. CASE op \in ShiftOps
  <2>1. /\ Format(op) = "H" /\ Listing[op][2] = 19 /\ Listing[op][3] \in {1, 5}
        /\ D32!Pick(D32!Imm(w), Listing[op][3]) = op
    BY <1>2, ShiftEntries, ImmediateTable DEF ShiftOps, Listed, Fits
  <2> QED
    BY <2>1 DEF Fits, Result32, Immediate32, D32!dec32, D32!Immediate, D32!Shift
<1>3. CASE op \in ImmediateWOps
  <2>1. /\ Format(op) = "I" /\ Listing[op][2] = 27 /\ Listing[op][3] \notin {1, 5}
        /\ D32!Pick(D32!ImmW(w), Listing[op][3]) = op
    BY <1>3, ImmediateWEntries, ImmediateTable DEF ImmediateWOps, Listed
  <2> QED
    BY <2>1 DEF Fits, Result32, Immediate32, D32!dec32, D32!ImmediateW, D32!Shift
<1>4. CASE op \in ShiftWOps
  <2>1. /\ Format(op) = "W" /\ Listing[op][2] = 27 /\ Listing[op][3] \in {1, 5}
        /\ D32!Pick(D32!ImmW(w), Listing[op][3]) = op
    BY <1>4, ShiftWEntries, ImmediateTable DEF ShiftWOps, Listed, Fits
  <2> QED
    BY <2>1 DEF Fits, Result32, Immediate32, D32!dec32, D32!ImmediateW, D32!Shift
<1> QED
  BY <1>1, <1>2, <1>3, <1>4

\* The register operations in which bit 30 chooses.
LEMMA RegisterTable ==
  ASSUME NEW w
  PROVE  /\ D32!Pick(D32!Reg(w), 0) = IF 30 \in w THEN "SUB" ELSE "ADD"
         /\ D32!Pick(D32!Reg(w), 1) = "SLL" /\ D32!Pick(D32!Reg(w), 2) = "SLT"
         /\ D32!Pick(D32!Reg(w), 3) = "SLTU" /\ D32!Pick(D32!Reg(w), 4) = "XOR"
         /\ D32!Pick(D32!Reg(w), 5) = IF 30 \in w THEN "SRA" ELSE "SRL"
         /\ D32!Pick(D32!Reg(w), 6) = "OR" /\ D32!Pick(D32!Reg(w), 7) = "AND"
         /\ D32!Pick(D32!RegW(w), 0) = IF 30 \in w THEN "SUBW" ELSE "ADDW"
         /\ D32!Pick(D32!RegW(w), 1) = "SLLW"
         /\ D32!Pick(D32!RegW(w), 5) = IF 30 \in w THEN "SRAW" ELSE "SRLW"
BY DEF D32!Pick, D32!Reg, D32!RegW

\* Multiplications and divisions by funct3.
LEMMA MulDivTable ==
  /\ D32!Pick(D32!MulDiv, 0) = "MUL" /\ D32!Pick(D32!MulDiv, 1) = "MULH"
  /\ D32!Pick(D32!MulDiv, 2) = "MULHSU" /\ D32!Pick(D32!MulDiv, 3) = "MULHU"
  /\ D32!Pick(D32!MulDiv, 4) = "DIV" /\ D32!Pick(D32!MulDiv, 5) = "DIVU"
  /\ D32!Pick(D32!MulDiv, 6) = "REM" /\ D32!Pick(D32!MulDiv, 7) = "REMU"
  /\ D32!Pick(D32!MulDivW, 0) = "MULW" /\ D32!Pick(D32!MulDivW, 4) = "DIVW"
  /\ D32!Pick(D32!MulDivW, 5) = "DIVUW" /\ D32!Pick(D32!MulDivW, 6) = "REMW"
  /\ D32!Pick(D32!MulDivW, 7) = "REMUW"
BY DEF D32!Pick, D32!MulDiv, D32!MulDivW

\* The operations between registers.
LEMMA RegisterDecoded ==
  ASSUME NEW op \in RegisterOps \cup MulDivOps \cup RegisterWOps \cup MulDivWOps, NEW w,
         Fits(op, w)
  PROVE  D32!dec32(w) = Result32(op, w)
<1>1. CASE op \in RegisterOps
  <2>1. /\ Format(op) = "R" /\ Listing[op][2] = 51 /\ Listing[op][4] # 1
        /\ D32!Pick(D32!Reg(w), Listing[op][3]) = op
    BY <1>1, RegisterEntries, RegisterTable DEF RegisterOps, Listed, Fits
  <2> QED
    BY <2>1 DEF Fits, Result32, Immediate32, D32!dec32, D32!Register
<1>2. CASE op \in MulDivOps
  <2>1. /\ Format(op) = "R" /\ Listing[op][2] = 51 /\ Listing[op][4] = 1
        /\ D32!Pick(D32!MulDiv, Listing[op][3]) = op
    BY <1>2, MulDivEntries, MulDivTable DEF MulDivOps, Listed
  <2> QED
    BY <2>1 DEF Fits, Result32, Immediate32, D32!dec32, D32!Register
<1>3. CASE op \in RegisterWOps
  <2>1. /\ Format(op) = "R" /\ Listing[op][2] = 59 /\ Listing[op][4] # 1
        /\ D32!Pick(D32!RegW(w), Listing[op][3]) = op
    BY <1>3, RegisterWEntries, RegisterTable DEF RegisterWOps, Listed, Fits
  <2> QED
    BY <2>1 DEF Fits, Result32, Immediate32, D32!dec32, D32!RegisterW
<1>4. CASE op \in MulDivWOps
  <2>1. /\ Format(op) = "R" /\ Listing[op][2] = 59 /\ Listing[op][4] = 1
        /\ D32!Pick(D32!MulDivW, Listing[op][3]) = op
    BY <1>4, MulDivWEntries, MulDivTable DEF MulDivWOps, Listed
  <2> QED
    BY <2>1 DEF Fits, Result32, Immediate32, D32!dec32, D32!RegisterW
<1> QED
  BY <1>1, <1>2, <1>3, <1>4

\* The privileged operations, by funct7 and the field of rs2.
LEMMA SystemTable ==
  ASSUME NEW op \in SystemOps, NEW w, Fits(op, w)
  PROVE  /\ Format(op) \in {"P", "V"} /\ Listing[op][2] = 115 /\ Listing[op][3] = 0
         /\ D32!System(w) = op
<1>1. /\ Format(op) \in {"P", "V"} /\ Listing[op][2] = 115 /\ Listing[op][3] = 0
      /\ D32!funct7(w) = Listing[op][4]
      /\ op # "SFENCE_VMA" => D32!Second(w) = Listing[op][5]
  BY SystemEntries DEF SystemOps, Listed, Fits
<1> DEFINE seven == D32!funct7(w)  second == D32!Second(w)
<1>2. /\ op = "ECALL" => seven = 0 /\ second = 0
      /\ op = "EBREAK" => seven = 0 /\ second = 1
      /\ op = "URET" => seven = 0 /\ second = 2
      /\ op = "SRET" => seven = 8 /\ second = 2
      /\ op = "WFI" => seven = 8 /\ second = 5
      /\ op = "SFENCE_VMA" => seven = 9
      /\ op = "MRET" => seven = 24
  BY <1>1, SystemEntries DEF Listed
<1> HIDE DEF seven, second
<1>3. D32!System(w) =
        CASE seven = 0  -> D32!Pick(<<"ECALL", "EBREAK", "URET">>, second)
          [] seven = 8  -> D32!Pick(<<"panic", "panic", "SRET", "panic", "panic", "WFI">>, second)
          [] seven = 9  -> "SFENCE_VMA"
          [] seven = 24 -> "MRET"
          [] OTHER      -> "panic"
  BY DEF D32!System, seven, second
<1>4. D32!System(w) = op
  BY <1>2, <1>3 DEF D32!Pick, SystemOps
<1> QED
  BY <1>1, <1>4

\* The csr operations by funct3.
LEMMA CsrTable ==
  /\ D32!Pick(D32!Csr, 1) = "CSRRW" /\ D32!Pick(D32!Csr, 2) = "CSRRS"
  /\ D32!Pick(D32!Csr, 3) = "CSRRC" /\ D32!Pick(D32!Csr, 5) = "CSRRWI"
  /\ D32!Pick(D32!Csr, 6) = "CSRRSI" /\ D32!Pick(D32!Csr, 7) = "CSRRCI"
BY DEF D32!Pick, D32!Csr

\* The opcode of privileged and csr operations, which also sets csr_addr.
LEMMA PrivilegedDecoded ==
  ASSUME NEW op \in SystemOps \cup CsrOps \cup CsrImmOps, NEW w, Fits(op, w)
  PROVE  D32!dec32(w) = Result32(op, w)
<1>1. CASE op \in SystemOps
  BY <1>1, SystemTable
     DEF Fits, Result32, Immediate32, D32!dec32, D32!Privileged
<1>2. CASE op \in CsrOps
  <2>1. /\ Format(op) = "C" /\ Listing[op][2] = 115 /\ Listing[op][3] \in 1 .. 3
        /\ D32!Pick(D32!Csr, Listing[op][3]) = op
    BY <1>2, CsrEntries, CsrTable DEF CsrOps, Listed
  <2> QED
    BY <2>1 DEF Fits, Result32, Immediate32, D32!dec32, D32!Privileged
<1>3. CASE op \in CsrImmOps
  <2>1. /\ Format(op) = "Z" /\ Listing[op][2] = 115 /\ Listing[op][3] \in 5 .. 7
        /\ D32!Pick(D32!Csr, Listing[op][3]) = op
    BY <1>3, CsrImmEntries, CsrTable DEF CsrImmOps, Listed
  <2> QED
    BY <2>1 DEF Fits, Result32, Immediate32, D32!dec32, D32!Privileged
<1> QED
  BY <1>1, <1>2, <1>3

\* The fences and the move to a floating-point register.
LEMMA MiscDecoded ==
  ASSUME NEW op \in MiscOps \cup MoveOps, NEW w, Fits(op, w)
  PROVE  D32!dec32(w) = Result32(op, w)
<1>1. CASE op \in MiscOps
  <2>1. D32!Pick(D32!Misc, 0) = "FENCE" /\ D32!Pick(D32!Misc, 1) = "FENCE_I"
    BY DEF D32!Pick, D32!Misc
  <2>2. /\ Format(op) = "I" /\ Listing[op][2] = 15 /\ D32!Pick(D32!Misc, Listing[op][3]) = op
    BY <1>1, <2>1, MiscEntries DEF MiscOps, Listed
  <2> QED
    BY <2>2 DEF Fits, Result32, Immediate32, D32!dec32
<1>2. CASE op \in MoveOps
  BY <1>2, MoveEntries DEF MoveOps, Listed, Fits, Result32, Immediate32, D32!dec32
<1> QED
  BY <1>1, <1>2

\* The atomic operations, by the upper five bits and the width.
LEMMA AtomicDecoded ==
  ASSUME NEW op \in AtomicOps, NEW w, Fits(op, w)
  PROVE  D32!dec32(w) = Result32(op, w)
<1>1. /\ Format(op) = "A" /\ Listing[op][2] = 47
      /\ D32!AmoTable(Listing[op][4] \div 4)[IF Listing[op][3] = 3 THEN 1 ELSE 2] = op
  BY AtomicEntries DEF AtomicOps, Listed, D32!AmoTable
<1> QED
  BY <1>1 DEF Fits, Result32, Immediate32, D32!dec32, D32!Amo

\* dec32 recognises every operation of the listing by the fields of its encoding.
LEMMA DecodedByFields ==
  ASSUME NEW op \in Operations, NEW w, Fits(op, w)
  PROVE  D32!dec32(w) = Result32(op, w)
BY OperationsAre, UpperDecoded, BranchDecoded, LoadDecoded, StoreDecoded, ImmediateDecoded,
   RegisterDecoded, PrivilegedDecoded, MiscDecoded, AtomicDecoded

-----------------------------------------------------------------------------
(* The words of the assembler.                                             *)

Formats == {"R", "I", "S", "B", "U", "J", "H", "W", "P", "C", "Z", "A", "V"}

\* Every entry of the listing fits its fields.
LEMMA ListingIs ==
  ASSUME NEW op \in Operations
  PROVE  /\ Format(op) \in Formats
         /\ Listing[op][2] \in 0 .. 127 /\ Listing[op][3] \in 0 .. 7 /\ Listing[op][4] \in 0 .. 127
         /\ Format(op) = "P" => Listing[op][5] \in 0 .. 31
         /\ Format(op) = "A" => Listing[op][4] % 4 = 0
         /\ Listing[op][2] % 4 = 3
         /\ Format(op) \in {"C", "Z"} => Listing[op][2] = 115
         /\ Listing[op][2] = 15 => op \in MiscOps
         /\ Format(op) \in {"H", "W"} => Listing[op][4] \in {0, 32}
<1> USE DEF Listed, Formats
<1>1. CASE op \in UpperOps \cup BranchOps \cup LoadOps \cup LoadFpOps \cup StoreOps \cup StoreFpOps
  BY <1>1, UpperEntries, BranchEntries, LoadEntries, LoadFpEntries, StoreEntries, StoreFpEntries
     DEF UpperOps, BranchOps, LoadOps, LoadFpOps, StoreOps, StoreFpOps
<1>2. CASE op \in ImmediateOps \cup ShiftOps \cup ImmediateWOps \cup ShiftWOps
  BY <1>2, ImmediateEntries, ShiftEntries, ImmediateWEntries, ShiftWEntries
     DEF ImmediateOps, ShiftOps, ImmediateWOps, ShiftWOps
<1>3. CASE op \in RegisterOps \cup MulDivOps \cup RegisterWOps \cup MulDivWOps
  BY <1>3, RegisterEntries, MulDivEntries, RegisterWEntries, MulDivWEntries
     DEF RegisterOps, MulDivOps, RegisterWOps, MulDivWOps
<1>4. CASE op \in MiscOps \cup SystemOps \cup CsrOps \cup CsrImmOps \cup MoveOps
  BY <1>4, MiscEntries, SystemEntries, CsrEntries, CsrImmEntries, MoveEntries
     DEF MiscOps, SystemOps, CsrOps, CsrImmOps, MoveOps
<1>5. CASE op \in AtomicOps
  BY <1>5, AtomicEntries DEF AtomicOps
<1> QED
  BY OperationsAre, <1>1, <1>2, <1>3, <1>4, <1>5

\* The places in the word that an immediate takes.
LEMMA ImmPlaces ==
  ASSUME NEW f \in Formats, NEW imm, NEW i \in Int, i \in ImmBits(f, imm)
  PROVE  /\ i \in 7 .. 31
         /\ f \notin {"S", "B"} => i >= 12
         /\ f \notin {"U", "J"} => i \notin 12 .. 14
         /\ f \notin {"U", "J", "Z"} => i \notin 12 .. 19
         /\ f \notin {"R", "P", "C", "V"}
         /\ f \in {"S", "B", "Z", "A"} => i \notin 20 .. 24
         /\ f = "A" => i \in 25 .. 26
         /\ f = "Z" => i \in 15 .. 19
         /\ f \in {"H", "W"} => i \in 20 .. 25
BY BranchOrder, JumpOrder, OtherOrders DEF Formats

\* The instructions that the assembler takes.
Encodable(d) ==
  /\ d.op \in Operations /\ d.rd \in 0 .. 31 /\ d.rs1 \in 0 .. 31 /\ d.rs2 \in 0 .. 31
  /\ d.csr_addr \in SUBSET (0 .. 11)

\* An assembled word, one bit at a time.
LEMMA WordIs ==
  ASSUME NEW d, Encodable(d), NEW i \in Int
  PROVE  LET e == Listing[d.op]
             f == Format(d.op)
         IN  i \in Assemble(d) <=>
               \/ i \in ToBits(e[2], 7)
               \/ f \notin {"U", "J"} /\ i - 12 \in ToBits(e[3], 3)
               \/ f \in {"R", "H", "W", "P", "A", "V"} /\ i - 25 \in ToBits(e[4], 7)
               \/ f = "P" /\ i - 20 \in ToBits(e[5], 5)
               \/ HasRd(f) /\ i - 7 \in ToBits(d.rd, 5)
               \/ HasRs1(f) /\ i - 15 \in ToBits(d.rs1, 5)
               \/ HasRs2(f) /\ i - 20 \in ToBits(d.rs2, 5)
               \/ HasCsr(f) /\ i - 20 \in d.csr_addr
               \/ i \in ImmBits(f, d.imm)
<1> DEFINE e == Listing[d.op]  f == Format(d.op)
           three == ToBits(e[3], 3)  seven == ToBits(e[4], 7)  five == ToBits(e[5], 5)
           rd == ToBits(d.rd, 5)  rs1 == ToBits(d.rs1, 5)  rs2 == ToBits(d.rs2, 5)
<1>1. /\ three \in SUBSET Int /\ seven \in SUBSET Int /\ five \in SUBSET Int
      /\ rd \in SUBSET Int /\ rs1 \in SUBSET Int /\ rs2 \in SUBSET Int
      /\ d.csr_addr \in SUBSET Int
  BY DEF ToBits, Encodable
<1>2. Assemble(d) = ToBits(e[2], 7)
        \cup (IF f \in {"U", "J"} THEN {} ELSE Shl(three, 12))
        \cup (IF f \in {"R", "H", "W", "P", "A", "V"} THEN Shl(seven, 25) ELSE {})
        \cup (IF f = "P" THEN Shl(five, 20) ELSE {})
        \cup (IF HasRd(f)  THEN Shl(rd, 7) ELSE {})
        \cup (IF HasRs1(f) THEN Shl(rs1, 15) ELSE {})
        \cup (IF HasRs2(f) THEN Shl(rs2, 20) ELSE {})
        \cup (IF HasCsr(f) THEN Shl(d.csr_addr, 20) ELSE {})
        \cup ImmBits(f, d.imm)
  BY DEF Assemble, Format
<1> HIDE DEF e, f, three, seven, five, rd, rs1, rs2
<1>3. /\ i \in Shl(three, 12) <=> i - 12 \in three
      /\ i \in Shl(seven, 25) <=> i - 25 \in seven
      /\ i \in Shl(five, 20) <=> i - 20 \in five
      /\ i \in Shl(rd, 7) <=> i - 7 \in rd
      /\ i \in Shl(rs1, 15) <=> i - 15 \in rs1
      /\ i \in Shl(rs2, 20) <=> i - 20 \in rs2
      /\ i \in Shl(d.csr_addr, 20) <=> i - 20 \in d.csr_addr
  BY <1>1, ShlIs
<1>4. i \in Assemble(d) <=>
               \/ i \in ToBits(e[2], 7)
               \/ f \notin {"U", "J"} /\ i - 12 \in three
               \/ f \in {"R", "H", "W", "P", "A", "V"} /\ i - 25 \in seven
               \/ f = "P" /\ i - 20 \in five
               \/ HasRd(f) /\ i - 7 \in rd
               \/ HasRs1(f) /\ i - 15 \in rs1
               \/ HasRs2(f) /\ i - 20 \in rs2
               \/ HasCsr(f) /\ i - 20 \in d.csr_addr
               \/ i \in ImmBits(f, d.imm)
  BY <1>2, <1>3, Zenon
<1> QED
  BY <1>4 DEF e, f, three, seven, five, rd, rs1, rs2

\* What each field of an assembled word holds.
LEMMA FieldBits ==
  ASSUME NEW d, Encodable(d), NEW i \in Int
  PROVE  LET e == Listing[d.op]
             f == Format(d.op)
             w == Assemble(d)
         IN  /\ i \in w => i \in 0 .. 31
             /\ i \in 0 .. 6 => (i \in w <=> i \in ToBits(e[2], 7))
             /\ i \in 7 .. 11 /\ HasRd(f) => (i \in w <=> i - 7 \in ToBits(d.rd, 5))
             /\ i \in 7 .. 11 /\ f \in {"P", "V"} => i \notin w
             /\ i \in 12 .. 14 /\ f \notin {"U", "J"} => (i \in w <=> i - 12 \in ToBits(e[3], 3))
             /\ i \in 15 .. 19 /\ HasRs1(f) => (i \in w <=> i - 15 \in ToBits(d.rs1, 5))
             /\ i \in 20 .. 24 /\ HasRs2(f) => (i \in w <=> i - 20 \in ToBits(d.rs2, 5))
             /\ i \in 20 .. 24 /\ f = "P" => (i \in w <=> i - 20 \in ToBits(e[5], 5))
             /\ i \in 20 .. 31 /\ HasCsr(f) => (i \in w <=> i - 20 \in d.csr_addr)
             /\ i \in 25 .. 31 /\ f \in {"R", "P", "V"} => (i \in w <=> i - 25 \in ToBits(e[4], 7))
             /\ i \in 27 .. 31 /\ f \in {"H", "W", "A"} =>
                  (i \in w <=> i - 25 \in ToBits(e[4], 7))
<1> DEFINE e == Listing[d.op]  f == Format(d.op)  w == Assemble(d)
           code == ToBits(e[2], 7)
           three == ToBits(e[3], 3)  seven == ToBits(e[4], 7)  five == ToBits(e[5], 5)
           rd == ToBits(d.rd, 5)  rs1 == ToBits(d.rs1, 5)  rs2 == ToBits(d.rs2, 5)
           csr == d.csr_addr  places == ImmBits(f, d.imm)
<1>1. /\ code \subseteq 0 .. 6 /\ three \subseteq 0 .. 2 /\ seven \subseteq 0 .. 6
      /\ five \subseteq 0 .. 4 /\ rd \subseteq 0 .. 4 /\ rs1 \subseteq 0 .. 4
      /\ rs2 \subseteq 0 .. 4 /\ csr \subseteq 0 .. 11
  BY DEF ToBits, Encodable
<1>2. i \in w <=>
               \/ i \in code
               \/ f \notin {"U", "J"} /\ i - 12 \in three
               \/ f \in {"R", "H", "W", "P", "A", "V"} /\ i - 25 \in seven
               \/ f = "P" /\ i - 20 \in five
               \/ HasRd(f) /\ i - 7 \in rd
               \/ HasRs1(f) /\ i - 15 \in rs1
               \/ HasRs2(f) /\ i - 20 \in rs2
               \/ HasCsr(f) /\ i - 20 \in csr
               \/ i \in places
  BY WordIs
<1>3. f \in Formats
  BY ListingIs DEF Encodable
<1>4. i \in places =>
         /\ i \in 7 .. 31
         /\ f \notin {"S", "B"} => i >= 12
         /\ f \notin {"U", "J"} => i \notin 12 .. 14
         /\ f \notin {"U", "J", "Z"} => i \notin 12 .. 19
         /\ f \notin {"R", "P", "C", "V"}
         /\ f \in {"S", "B", "Z", "A"} => i \notin 20 .. 24
         /\ f = "A" => i \in 25 .. 26
         /\ f = "Z" => i \in 15 .. 19
         /\ f \in {"H", "W"} => i \in 20 .. 25
  BY <1>3, ImmPlaces
<1> HIDE DEF e, f, w, code, three, seven, five, rd, rs1, rs2, csr, places
<1> USE DEF Formats, HasRd, HasRs1, HasRs2, HasCsr
<1>5. i \in w => i \in 0 .. 31
  BY <1>1, <1>2, <1>4
<1>6. i \in 0 .. 6 => (i \in w <=> i \in code)
  BY <1>1, <1>2, <1>4
<1>7. /\ i \in 7 .. 11 /\ HasRd(f) => (i \in w <=> i - 7 \in rd)
      /\ i \in 7 .. 11 /\ f \in {"P", "V"} => i \notin w
  BY <1>1, <1>2, <1>4
<1>8. i \in 12 .. 14 /\ f \notin {"U", "J"} => (i \in w <=> i - 12 \in three)
  BY <1>1, <1>2, <1>4
<1>9. i \in 15 .. 19 /\ HasRs1(f) => (i \in w <=> i - 15 \in rs1)
  BY <1>1, <1>2, <1>4
<1>10. /\ i \in 20 .. 24 /\ HasRs2(f) => (i \in w <=> i - 20 \in rs2)
       /\ i \in 20 .. 24 /\ f = "P" => (i \in w <=> i - 20 \in five)
  BY <1>1, <1>2, <1>4
<1>11. i \in 20 .. 31 /\ HasCsr(f) => (i \in w <=> i - 20 \in csr)
  BY <1>1, <1>2, <1>4
<1>12. /\ i \in 25 .. 31 /\ f \in {"R", "P", "V"} => (i \in w <=> i - 25 \in seven)
       /\ i \in 27 .. 31 /\ f \in {"H", "W", "A"} => (i \in w <=> i - 25 \in seven)
  BY <1>1, <1>2, <1>4
<1> QED
  BY <1>5, <1>6, <1>7, <1>8, <1>9, <1>10, <1>11, <1>12
     DEF e, f, w, code, three, seven, five, rd, rs1, rs2, csr, places

\* And where it holds the immediate.
LEMMA ImmediateBits ==
  ASSUME NEW d, Encodable(d), NEW i \in Int
  PROVE  LET f == Format(d.op)
             w == Assemble(d)
             imm == d.imm
         IN  /\ f = "I" /\ i \in 20 .. 31 => (i \in w <=> i - 20 \in imm)
             /\ f = "S" /\ i \in 25 .. 31 => (i \in w <=> i - 20 \in imm)
             /\ f = "S" /\ i \in 7 .. 11 => (i \in w <=> i - 7 \in imm)
             /\ f = "B" /\ i \in 25 .. 30 => (i \in w <=> i - 20 \in imm)
             /\ f = "B" /\ i \in 8 .. 11 => (i \in w <=> i - 7 \in imm)
             /\ f = "B" => (31 \in w <=> 12 \in imm) /\ (7 \in w <=> 11 \in imm)
             /\ f = "U" /\ i \in 12 .. 31 => (i \in w <=> i \in imm)
             /\ f = "J" /\ i \in 21 .. 30 => (i \in w <=> i - 20 \in imm)
             /\ f = "J" /\ i \in 12 .. 19 => (i \in w <=> i \in imm)
             /\ f = "J" => (31 \in w <=> 20 \in imm) /\ (20 \in w <=> 11 \in imm)
             /\ f = "H" /\ i \in 20 .. 25 => (i \in w <=> i - 20 \in imm)
             /\ f = "W" /\ i \in 20 .. 24 => (i \in w <=> i - 20 \in imm)
             /\ f = "Z" /\ i \in 15 .. 19 => (i \in w <=> i - 15 \in imm)
<1> DEFINE e == Listing[d.op]  f == Format(d.op)  w == Assemble(d)  imm == d.imm
           code == ToBits(e[2], 7)
           three == ToBits(e[3], 3)  seven == ToBits(e[4], 7)  five == ToBits(e[5], 5)
           rd == ToBits(d.rd, 5)  rs1 == ToBits(d.rs1, 5)  rs2 == ToBits(d.rs2, 5)
           csr == d.csr_addr
<1>1. /\ code \subseteq 0 .. 6 /\ three \subseteq 0 .. 2 /\ seven \subseteq 0 .. 6
      /\ five \subseteq 0 .. 4 /\ rd \subseteq 0 .. 4 /\ rs1 \subseteq 0 .. 4
      /\ rs2 \subseteq 0 .. 4 /\ csr \subseteq 0 .. 11
  BY DEF ToBits, Encodable
<1>2. f \in {"H", "W"} => 0 \notin seven
  BY ListingIs, Powers DEF Encodable, ToBits
<1>3. \A n \in Int :
        n \in w <=>
               \/ n \in code
               \/ f \notin {"U", "J"} /\ n - 12 \in three
               \/ f \in {"R", "H", "W", "P", "A", "V"} /\ n - 25 \in seven
               \/ f = "P" /\ n - 20 \in five
               \/ HasRd(f) /\ n - 7 \in rd
               \/ HasRs1(f) /\ n - 15 \in rs1
               \/ HasRs2(f) /\ n - 20 \in rs2
               \/ HasCsr(f) /\ n - 20 \in csr
               \/ n \in ImmBits(f, imm)
  BY WordIs
<1> HIDE DEF e, f, w, imm, code, three, seven, five, rd, rs1, rs2, csr
<1> USE DEF HasRd, HasRs1, HasRs2, HasCsr
<1>4. f = "I" /\ i \in 20 .. 31 => (i \in w <=> i - 20 \in imm)
  BY <1>1, <1>3, OtherOrders
<1>5. /\ f = "S" /\ i \in 25 .. 31 => (i \in w <=> i - 20 \in imm)
      /\ f = "S" /\ i \in 7 .. 11 => (i \in w <=> i - 7 \in imm)
  BY <1>1, <1>3, OtherOrders
<1>6. /\ f = "B" /\ i \in 25 .. 30 => (i \in w <=> i - 20 \in imm)
      /\ f = "B" /\ i \in 8 .. 11 => (i \in w <=> i - 7 \in imm)
  BY <1>1, <1>3, BranchOrder
<1>7. f = "B" => (31 \in w <=> 12 \in imm) /\ (7 \in w <=> 11 \in imm)
  BY <1>1, <1>3, BranchOrder
<1>8. f = "U" /\ i \in 12 .. 31 => (i \in w <=> i \in imm)
  BY <1>1, <1>3, OtherOrders
<1>9. /\ f = "J" /\ i \in 21 .. 30 => (i \in w <=> i - 20 \in imm)
      /\ f = "J" /\ i \in 12 .. 19 => (i \in w <=> i \in imm)
  BY <1>1, <1>3, JumpOrder
<1>10. f = "J" => (31 \in w <=> 20 \in imm) /\ (20 \in w <=> 11 \in imm)
  BY <1>1, <1>3, JumpOrder
<1>11. f = "H" /\ i \in 20 .. 25 => (i \in w <=> i - 20 \in imm)
  BY <1>1, <1>2, <1>3, OtherOrders
<1>12. /\ f = "W" /\ i \in 20 .. 24 => (i \in w <=> i - 20 \in imm)
       /\ f = "Z" /\ i \in 15 .. 19 => (i \in w <=> i - 15 \in imm)
  BY <1>1, <1>3, OtherOrders
<1> QED
  BY <1>4, <1>5, <1>6, <1>7, <1>8, <1>9, <1>10, <1>11, <1>12 DEF f, w, imm

\* The two bit macros of Words are those of Dec32.
LEMMA SameWords ==
  /\ \A w, high, low : D32!BITS(w, high, low) = BITS(w, high, low)
  /\ \A w, index : D32!BIT(w, index) = BIT(w, index)
  /\ \A w, index, num : D32!EXPAND_BIT(w, index, num) = EXPAND_BIT(w, index, num)
  /\ \A w, n : D32!Shl(w, n) = Shl(w, n)
  /\ \A w : D32!Number(w) = Number(w)
  /\ \A op, rd, rs1, rs2, imm : D32!Decoded(op, rd, rs1, rs2, imm) = Decoded(op, rd, rs1, rs2, imm)
  /\ D32!Bad = Bad
BY DEF D32!BITS, BITS, D32!BIT, BIT, D32!EXPAND_BIT, EXPAND_BIT, D32!Shl, Shl, D32!Number,
   Number, D32!Decoded, Decoded, D32!Bad, Bad

\* The bits of a number of five bits.
LEMMA FiveBits ==
  ASSUME NEW m \in Nat
  PROVE  /\ 0 \in ToBits(m, 5) <=> m % 2 = 1
         /\ 1 \in ToBits(m, 5) <=> (m \div 2) % 2 = 1
         /\ 2 \in ToBits(m, 5) <=> (m \div 4) % 2 = 1
         /\ 3 \in ToBits(m, 5) <=> (m \div 8) % 2 = 1
         /\ 4 \in ToBits(m, 5) <=> (m \div 16) % 2 = 1
BY Powers DEF ToBits

\* The upper five bits of funct7.
LEMMA UpperFive ==
  ASSUME NEW n \in 0 .. 127, NEW k \in 0 .. 4
  PROVE  /\ k + 2 \in ToBits(n, 7) <=> k \in ToBits(n \div 4, 5)
         /\ 5 \in ToBits(n, 7) <=> (n \div 32) % 2 = 1
<1>1. \A m \in Nat :
        /\ 0 \in ToBits(m, 5) <=> m % 2 = 1
        /\ 1 \in ToBits(m, 5) <=> (m \div 2) % 2 = 1
        /\ 2 \in ToBits(m, 5) <=> (m \div 4) % 2 = 1
        /\ 3 \in ToBits(m, 5) <=> (m \div 8) % 2 = 1
        /\ 4 \in ToBits(m, 5) <=> (m \div 16) % 2 = 1
  BY FiveBits
<1>2. /\ 2 \in ToBits(n, 7) <=> (n \div 4) % 2 = 1
      /\ 3 \in ToBits(n, 7) <=> (n \div 8) % 2 = 1
      /\ 4 \in ToBits(n, 7) <=> (n \div 16) % 2 = 1
      /\ 5 \in ToBits(n, 7) <=> (n \div 32) % 2 = 1
      /\ 6 \in ToBits(n, 7) <=> (n \div 64) % 2 = 1
  BY Powers DEF ToBits
<1> DEFINE m == n \div 4
<1>3. /\ m \in Nat /\ m \div 2 = n \div 8 /\ m \div 4 = n \div 16
      /\ m \div 8 = n \div 32 /\ m \div 16 = n \div 64
  OBVIOUS
<1>4. m = n \div 4
  OBVIOUS
<1> HIDE DEF m
<1>5. k + 2 \in ToBits(n, 7) <=> k \in ToBits(m, 5)
  <2>1. k = 0 \/ k = 1 \/ k = 2 \/ k = 3 \/ k = 4
    OBVIOUS
  <2>2. /\ 0 + 2 = 2 /\ 1 + 2 = 3 /\ 2 + 2 = 4 /\ 3 + 2 = 5 /\ 4 + 2 = 6
    OBVIOUS
  <2> QED
    BY <1>1, <1>2, <1>3, <1>4, <2>1, <2>2
<1> QED
  BY <1>2, <1>4, <1>5

\* A field that holds a number.
LEMMA FieldNumber ==
  ASSUME NEW w \in SUBSET Int, NEW high \in Nat, NEW low \in 0 .. high,
         NEW k \in {3, 5, 7}, high - low = k - 1,
         NEW n \in IF k = 3 THEN 0 .. 7 ELSE IF k = 5 THEN 0 .. 31 ELSE 0 .. 127,
         \A i \in Int : i \in low .. high => (i \in w <=> i - low \in ToBits(n, k))
  PROVE  Number(BITS(w, high, low)) = n
<1> DEFINE bits == ToBits(n, k)
<1>1. bits \in SUBSET (0 .. high - low)
  BY DEF ToBits
<1>2. Number(bits) = n
  BY NumberOfBits
<1> HIDE DEF bits
<1>3. \A i \in low .. high : i \in w <=> i - low \in bits
  BY DEF bits
<1>4. BITS(w, high, low) = bits
  <2>1. /\ BITS(w, high, low) \subseteq 0 .. high - low
        /\ \A i \in 0 .. high - low : i \in BITS(w, high, low) <=> i + low \in w
    BY BitsIs
  <2>2. \A i \in 0 .. high - low : i + low \in low .. high /\ (i + low) - low = i
    OBVIOUS
  <2>3. \A i \in 0 .. high - low : i \in BITS(w, high, low) <=> i \in bits
    BY <1>3, <2>1, <2>2, Zenon
  <2> QED
    BY <1>1, <2>1, <2>3
<1> QED
  BY <1>2, <1>4

\* The fields of an instruction.
LEMMA FieldNumbers ==
  ASSUME NEW w \in SUBSET Int
  PROVE  /\ \A n \in 0 .. 127 :
              (\A i \in Int : i \in 0 .. 6 => (i \in w <=> i \in ToBits(n, 7)))
                => Number(BITS(w, 6, 0)) = n
         /\ \A n \in 0 .. 31 :
              (\A i \in Int : i \in 7 .. 11 => (i \in w <=> i - 7 \in ToBits(n, 5)))
                => Number(BITS(w, 11, 7)) = n
         /\ \A n \in 0 .. 7 :
              (\A i \in Int : i \in 12 .. 14 => (i \in w <=> i - 12 \in ToBits(n, 3)))
                => Number(BITS(w, 14, 12)) = n
         /\ \A n \in 0 .. 31 :
              (\A i \in Int : i \in 15 .. 19 => (i \in w <=> i - 15 \in ToBits(n, 5)))
                => Number(BITS(w, 19, 15)) = n
         /\ \A n \in 0 .. 31 :
              (\A i \in Int : i \in 20 .. 24 => (i \in w <=> i - 20 \in ToBits(n, 5)))
                => Number(BITS(w, 24, 20)) = n
         /\ \A n \in 0 .. 127 :
              (\A i \in Int : i \in 25 .. 31 => (i \in w <=> i - 25 \in ToBits(n, 7)))
                => Number(BITS(w, 31, 25)) = n
         /\ \A n \in 0 .. 31 :
              (\A i \in Int : i \in 27 .. 31 => (i \in w <=> i - 27 \in ToBits(n, 5)))
                => Number(BITS(w, 31, 27)) = n
<1>1. ASSUME NEW n \in 0 .. 127,
             \A i \in Int : i \in 0 .. 6 => (i \in w <=> i \in ToBits(n, 7))
      PROVE  Number(BITS(w, 6, 0)) = n
  <2>1. /\ 6 \in Nat /\ 0 \in 0 .. 6 /\ 7 \in {3, 5, 7} /\ 6 - 0 = 7 - 1
        /\ n \in IF 7 = 3 THEN 0 .. 7 ELSE IF 7 = 5 THEN 0 .. 31 ELSE 0 .. 127
    OBVIOUS
  <2>2. \A i \in Int : i \in 0 .. 6 => (i \in w <=> i - 0 \in ToBits(n, 7))
    BY <1>1
  <2> QED
    BY <2>1, <2>2, FieldNumber
<1>2. ASSUME NEW n \in 0 .. 31,
             \A i \in Int : i \in 7 .. 11 => (i \in w <=> i - 7 \in ToBits(n, 5))
      PROVE  Number(BITS(w, 11, 7)) = n
  <2>1. /\ 11 \in Nat /\ 7 \in 0 .. 11 /\ 5 \in {3, 5, 7} /\ 11 - 7 = 5 - 1
        /\ n \in IF 5 = 3 THEN 0 .. 7 ELSE IF 5 = 5 THEN 0 .. 31 ELSE 0 .. 127
    OBVIOUS
  <2> QED
    BY <1>2, <2>1, FieldNumber
<1>3. ASSUME NEW n \in 0 .. 7,
             \A i \in Int : i \in 12 .. 14 => (i \in w <=> i - 12 \in ToBits(n, 3))
      PROVE  Number(BITS(w, 14, 12)) = n
  <2>1. /\ 14 \in Nat /\ 12 \in 0 .. 14 /\ 3 \in {3, 5, 7} /\ 14 - 12 = 3 - 1
        /\ n \in IF 3 = 3 THEN 0 .. 7 ELSE IF 3 = 5 THEN 0 .. 31 ELSE 0 .. 127
    OBVIOUS
  <2> QED
    BY <1>3, <2>1, FieldNumber
<1>4. ASSUME NEW n \in 0 .. 31,
             \A i \in Int : i \in 15 .. 19 => (i \in w <=> i - 15 \in ToBits(n, 5))
      PROVE  Number(BITS(w, 19, 15)) = n
  <2>1. /\ 19 \in Nat /\ 15 \in 0 .. 19 /\ 5 \in {3, 5, 7} /\ 19 - 15 = 5 - 1
        /\ n \in IF 5 = 3 THEN 0 .. 7 ELSE IF 5 = 5 THEN 0 .. 31 ELSE 0 .. 127
    OBVIOUS
  <2> QED
    BY <1>4, <2>1, FieldNumber
<1>5. ASSUME NEW n \in 0 .. 31,
             \A i \in Int : i \in 20 .. 24 => (i \in w <=> i - 20 \in ToBits(n, 5))
      PROVE  Number(BITS(w, 24, 20)) = n
  <2>1. /\ 24 \in Nat /\ 20 \in 0 .. 24 /\ 5 \in {3, 5, 7} /\ 24 - 20 = 5 - 1
        /\ n \in IF 5 = 3 THEN 0 .. 7 ELSE IF 5 = 5 THEN 0 .. 31 ELSE 0 .. 127
    OBVIOUS
  <2> QED
    BY <1>5, <2>1, FieldNumber
<1>6. ASSUME NEW n \in 0 .. 127,
             \A i \in Int : i \in 25 .. 31 => (i \in w <=> i - 25 \in ToBits(n, 7))
      PROVE  Number(BITS(w, 31, 25)) = n
  <2>1. /\ 31 \in Nat /\ 25 \in 0 .. 31 /\ 7 \in {3, 5, 7} /\ 31 - 25 = 7 - 1
        /\ n \in IF 7 = 3 THEN 0 .. 7 ELSE IF 7 = 5 THEN 0 .. 31 ELSE 0 .. 127
    OBVIOUS
  <2> QED
    BY <1>6, <2>1, FieldNumber, ZenonT(60)
<1>7. ASSUME NEW n \in 0 .. 31,
             \A i \in Int : i \in 27 .. 31 => (i \in w <=> i - 27 \in ToBits(n, 5))
      PROVE  Number(BITS(w, 31, 27)) = n
  <2>1. /\ 31 \in Nat /\ 27 \in 0 .. 31 /\ 5 \in {3, 5, 7} /\ 31 - 27 = 5 - 1
        /\ n \in IF 5 = 3 THEN 0 .. 7 ELSE IF 5 = 5 THEN 0 .. 31 ELSE 0 .. 127
    OBVIOUS
  <2> QED
    BY <1>7, <2>1, FieldNumber
<1> QED
  BY <1>1, <1>2, <1>3, <1>4, <1>5, <1>6, <1>7, Zenon

\* An assembled word is a set of bit positions.
LEMMA AssembledInt ==
  ASSUME NEW d, Encodable(d)
  PROVE  Assemble(d) \subseteq Int
<1>1. ASSUME NEW bits \in SUBSET Int, NEW n \in Int PROVE Shl(bits, n) \subseteq Int
  BY DEF Shl
<1>2. ASSUME NEW imm, NEW high \in Int, NEW order PROVE Scatter(imm, high, order) \subseteq Int
  BY DEF Scatter
<1>3. ImmBits(Format(d.op), d.imm) \subseteq Int
  BY <1>2 DEF ImmBits
<1>4. \A n, k : ToBits(n, k) \subseteq Int
  BY DEF ToBits
<1>5. d.csr_addr \subseteq Int
  BY DEF Encodable
<1> DEFINE e == Listing[d.op]  f == Format(d.op)
<1>6. Assemble(d) = ToBits(e[2], 7)
        \cup (IF f \in {"U", "J"} THEN {} ELSE Shl(ToBits(e[3], 3), 12))
        \cup (IF f \in {"R", "H", "W", "P", "A", "V"} THEN Shl(ToBits(e[4], 7), 25) ELSE {})
        \cup (IF f = "P" THEN Shl(ToBits(e[5], 5), 20) ELSE {})
        \cup (IF HasRd(f)  THEN Shl(ToBits(d.rd, 5), 7) ELSE {})
        \cup (IF HasRs1(f) THEN Shl(ToBits(d.rs1, 5), 15) ELSE {})
        \cup (IF HasRs2(f) THEN Shl(ToBits(d.rs2, 5), 20) ELSE {})
        \cup (IF HasCsr(f) THEN Shl(d.csr_addr, 20) ELSE {})
        \cup ImmBits(f, d.imm)
  BY DEF Assemble, Format
<1> QED
  BY <1>1, <1>3, <1>4, <1>5, <1>6

\* The fields of an assembled word hold what the assembler has put in them: no two
\* of the parts it joins overlap.
LEMMA AssembledFields ==
  ASSUME NEW d, Encodable(d)
  PROVE  LET e == Listing[d.op]
             f == Format(d.op)
             w == Assemble(d)
         IN  /\ w \in SUBSET (0 .. 31) /\ {0, 1} \subseteq w
             /\ Fits(d.op, w)
             /\ HasRd(f) => Number(BITS(w, 11, 7)) = d.rd
             /\ f \in {"P", "V"} => Number(BITS(w, 11, 7)) = 0
             /\ HasRs1(f) => Number(BITS(w, 19, 15)) = d.rs1
             /\ HasRs2(f) => Number(BITS(w, 24, 20)) = d.rs2
             /\ HasCsr(f) => BITS(w, 31, 20) = d.csr_addr
<1> DEFINE e == Listing[d.op]  f == Format(d.op)  w == Assemble(d)
<1>1. /\ d.op \in Operations /\ d.rd \in 0 .. 31 /\ d.rs1 \in 0 .. 31 /\ d.rs2 \in 0 .. 31
      /\ d.csr_addr \in SUBSET (0 .. 11)
  BY DEF Encodable
<1>2. /\ f \in Formats /\ e[2] \in 0 .. 127 /\ e[3] \in 0 .. 7 /\ e[4] \in 0 .. 127
      /\ f = "P" => e[5] \in 0 .. 31
      /\ e[2] % 4 = 3
  BY <1>1, ListingIs
<1>3. \A i \in Int :
             /\ i \in w => i \in 0 .. 31
             /\ i \in 0 .. 6 => (i \in w <=> i \in ToBits(e[2], 7))
             /\ i \in 7 .. 11 /\ HasRd(f) => (i \in w <=> i - 7 \in ToBits(d.rd, 5))
             /\ i \in 7 .. 11 /\ f \in {"P", "V"} => i \notin w
             /\ i \in 12 .. 14 /\ f \notin {"U", "J"} => (i \in w <=> i - 12 \in ToBits(e[3], 3))
             /\ i \in 15 .. 19 /\ HasRs1(f) => (i \in w <=> i - 15 \in ToBits(d.rs1, 5))
             /\ i \in 20 .. 24 /\ HasRs2(f) => (i \in w <=> i - 20 \in ToBits(d.rs2, 5))
             /\ i \in 20 .. 24 /\ f = "P" => (i \in w <=> i - 20 \in ToBits(e[5], 5))
             /\ i \in 20 .. 31 /\ HasCsr(f) => (i \in w <=> i - 20 \in d.csr_addr)
             /\ i \in 25 .. 31 /\ f \in {"R", "P", "V"} => (i \in w <=> i - 25 \in ToBits(e[4], 7))
             /\ i \in 27 .. 31 /\ f \in {"H", "W", "A"} =>
                  (i \in w <=> i - 25 \in ToBits(e[4], 7))
  BY FieldBits
<1> HIDE DEF w
<1>4. w \in SUBSET (0 .. 31) /\ w \in SUBSET Int
  BY <1>3, AssembledInt DEF w
<1> DEFINE F(high, low) == Number(BITS(w, high, low))
<1>5. F(6, 0) = e[2]
  BY <1>2, <1>3, <1>4, FieldNumbers
<1>6. f \notin {"U", "J"} => F(14, 12) = e[3]
  BY <1>2, <1>3, <1>4, FieldNumbers
<1>7. f \in {"R", "P", "V"} => F(31, 25) = e[4]
  BY <1>2, <1>3, <1>4, FieldNumbers, ZenonT(60)
<1>8. /\ HasRd(f) => F(11, 7) = d.rd
      /\ HasRs1(f) => F(19, 15) = d.rs1
      /\ HasRs2(f) => F(24, 20) = d.rs2
      /\ f = "P" => F(24, 20) = e[5]
  BY <1>1, <1>2, <1>3, <1>4, FieldNumbers, ZenonT(60)
<1>9. ASSUME f \in {"P", "V"} PROVE F(11, 7) = 0
  <2>1. \A k \in 0 .. 4 : k \notin ToBits(0, 5)
    <3>1. /\ 0 % 2 = 0 /\ (0 \div 2) % 2 = 0 /\ (0 \div 4) % 2 = 0
          /\ (0 \div 8) % 2 = 0 /\ (0 \div 16) % 2 = 0
      OBVIOUS
    <3>2. 0 \in Nat /\ \A k \in 0 .. 4 : k \in {0, 1, 2, 3, 4}
      OBVIOUS
    <3> QED
      BY <3>1, <3>2, FiveBits
  <2>2. \A i \in Int : i \in 7 .. 11 => (i \in w <=> i - 7 \in ToBits(0, 5))
    BY <1>3, <1>9, <2>1
  <2> QED
    BY <1>4, <2>2, FieldNumbers
<1>10. ASSUME f = "A" PROVE F(31, 27) = e[4] \div 4
  <2>1. \A i \in Int : i \in 27 .. 31 => (i \in w <=> i - 27 \in ToBits(e[4] \div 4, 5))
    BY <1>2, <1>3, <1>10, UpperFive
  <2>2. e[4] \div 4 \in 0 .. 31
    BY <1>2
  <2> QED
    BY <1>4, <2>1, <2>2, FieldNumbers
<1>11. f \in {"R", "H", "W"} => (30 \in w <=> (e[4] \div 32) % 2 = 1)
  BY <1>2, <1>3, UpperFive
<1>12. ASSUME HasCsr(f) PROVE BITS(w, 31, 20) = d.csr_addr
  <2>1. \A i \in 20 .. 31 : i \in w <=> i - 20 \in d.csr_addr
    BY <1>3, <1>12
  <2>2. d.csr_addr \in SUBSET (0 .. 31 - 20) /\ 31 \in Nat /\ 20 \in 0 .. 31
    BY <1>1
  <2> DEFINE bits == d.csr_addr
  <2>3. \A i \in 20 .. 31 : i \in w <=> i - 20 \in bits
    BY <2>1
  <2> HIDE DEF bits
  <2>4. bits \in SUBSET (0 .. 31 - 20)
    BY <2>2 DEF bits
  <2>5. BITS(w, 31, 20) = bits
    <3>1. /\ BITS(w, 31, 20) \subseteq 0 .. 31 - 20
          /\ \A i \in 0 .. 31 - 20 : i \in BITS(w, 31, 20) <=> i + 20 \in w
      BY <1>4, <2>2, BitsIs
    <3>2. \A i \in 0 .. 31 - 20 : i + 20 \in 20 .. 31 /\ (i + 20) - 20 = i
      OBVIOUS
    <3>3. \A i \in 0 .. 31 - 20 : i \in BITS(w, 31, 20) <=> i \in bits
      BY <2>3, <3>1, <3>2, Zenon
    <3> QED
      BY <2>4, <3>1, <3>3
  <2> QED
    BY <2>5 DEF bits
<1>13. {0, 1} \subseteq w
  <2>1. 0 \in ToBits(e[2], 7) /\ 1 \in ToBits(e[2], 7)
    <3> DEFINE n == e[2]
    <3>1. n \in 0 .. 127 /\ n % 4 = 3
      BY <1>2
    <3> HIDE DEF n
    <3>2. n \div 1 = n /\ n % 2 = 1 /\ (n \div 2) % 2 = 1
      BY <3>1
    <3>3. 0 \in ToBits(n, 7) /\ 1 \in ToBits(n, 7)
      BY <3>1, <3>2, Powers DEF ToBits
    <3> QED
      BY <3>3 DEF n
  <2> QED
    BY <1>3, <2>1
<1>14. Fits(d.op, w)
  BY <1>5, <1>6, <1>7, <1>8, <1>10, <1>11, SameWords
     DEF Fits, D32!opcode, D32!funct3, D32!funct7, D32!funct5, D32!Second
<1> QED
  BY <1>4, <1>8, <1>9, <1>12, <1>13, <1>14 DEF w

-----------------------------------------------------------------------------
(* The immediates.                                                         *)

\* The pieces of which the decoders build an immediate.
LEMMA FieldPiece ==
  ASSUME NEW w \in SUBSET Int, NEW i \in Int, NEW high \in Nat, NEW low \in 0 .. high
  PROVE  i \in BITS(w, high, low) <=> i \in 0 .. high - low /\ i + low \in w
BY BitsIs

\* A run of bits that dec32 or dec16 moves to its place.
LEMMA RunPiece ==
  ASSUME NEW w \in SUBSET Int, NEW i \in Int, NEW high \in Nat, NEW low \in 0 .. high,
         NEW n \in Int
  PROVE  i \in Shl(BITS(w, high, low), n) <=> i - n \in 0 .. high - low /\ i - n + low \in w
<1> DEFINE field == BITS(w, high, low)  j == i - n
<1>1. j \in Int /\ field \in SUBSET Int
  BY BitsIs
<1>2. j \in field <=> j \in 0 .. high - low /\ j + low \in w
  BY <1>1, FieldPiece
<1> HIDE DEF field
<1>3. i \in Shl(field, n) <=> j \in field
  BY <1>1, ShlIs
<1> QED
  BY <1>2, <1>3 DEF field

\* A single bit that they move.
LEMMA BitPiece ==
  ASSUME NEW w \in SUBSET Int, NEW i \in Int, NEW index \in Nat, NEW n \in Int
  PROVE  i \in Shl(BIT(w, index), n) <=> i = n /\ index \in w
<1>1. i \in Shl(BITS(w, index, index), n) <=>
        i - n \in 0 .. index - index /\ i - n + index \in w
  BY RunPiece
<1>2. i - n \in 0 .. index - index <=> i = n
  OBVIOUS
<1>3. i = n => i - n + index = index
  OBVIOUS
<1> QED
  BY <1>1, <1>2, <1>3 DEF BIT

\* The sign bit, repeated up to bit 63.
LEMMA SignPiece ==
  ASSUME NEW w \in SUBSET Int, NEW i \in Int, NEW index \in Nat, NEW num \in Nat, NEW n \in Int
  PROVE  i \in Shl(EXPAND_BIT(w, index, num), n) <=> i - n \in 0 .. num - 1 /\ index \in w
<1> DEFINE field == EXPAND_BIT(w, index, num)
<1>1. field \in SUBSET Int /\ \A j \in Int : j \in field <=> index \in w /\ j \in 0 .. num - 1
  BY DEF EXPAND_BIT
<1> HIDE DEF field
<1>2. i \in Shl(field, n) <=> i - n \in field
  BY <1>1, ShlIs
<1> QED
  BY <1>1, <1>2 DEF field

\* The immediates of dec32, bit by bit.
LEMMA Immediates32 ==
  ASSUME NEW w \in SUBSET Int, NEW i \in Int
  PROVE  /\ i \in D32!I_IMM(w) <=> \/ i \in 12 .. 63 /\ 31 \in w
                                   \/ i \in 0 .. 11 /\ i + 20 \in w
         /\ i \in D32!S_IMM(w) <=> \/ i \in 12 .. 63 /\ 31 \in w
                                   \/ i \in 5 .. 11 /\ i + 20 \in w
                                   \/ i \in 0 .. 4 /\ i + 7 \in w
         /\ i \in D32!B_IMM(w) <=> \/ i \in 12 .. 63 /\ 31 \in w
                                   \/ i = 11 /\ 7 \in w
                                   \/ i \in 5 .. 10 /\ i + 20 \in w
                                   \/ i \in 1 .. 4 /\ i + 7 \in w
         /\ i \in D32!U_IMM(w) <=> \/ i \in 32 .. 63 /\ 31 \in w
                                   \/ i \in 12 .. 31 /\ i \in w
         /\ i \in D32!J_IMM(w) <=> \/ i \in 20 .. 63 /\ 31 \in w
                                   \/ i \in 12 .. 19 /\ i \in w
                                   \/ i = 11 /\ 20 \in w
                                   \/ i \in 1 .. 10 /\ i + 20 \in w
         /\ i \in D32!M_IMM6(w) <=> i \in 0 .. 5 /\ i + 20 \in w
         /\ i \in D32!M_IMM5(w) <=> i \in 0 .. 4 /\ i + 20 \in w
         /\ i \in D32!C_IMM(w) <=> i \in 0 .. 4 /\ i + 15 \in w
<1>1. /\ i \in Shl(EXPAND_BIT(w, 31, 52), 12) <=> i \in 12 .. 63 /\ 31 \in w
      /\ i \in Shl(EXPAND_BIT(w, 31, 32), 32) <=> i \in 32 .. 63 /\ 31 \in w
      /\ i \in Shl(EXPAND_BIT(w, 31, 44), 20) <=> i \in 20 .. 63 /\ 31 \in w
  <2>1. \A n \in Int, num \in Nat : i \in Shl(EXPAND_BIT(w, 31, num), n) <=> i - n \in 0 .. num - 1 /\ 31 \in w
    BY SignPiece, 31 \in Nat, Zenon
  <2>2. /\ i \in Shl(EXPAND_BIT(w, 31, 52), 12) <=> i - 12 \in 0 .. 52 - 1 /\ 31 \in w
        /\ i \in Shl(EXPAND_BIT(w, 31, 32), 32) <=> i - 32 \in 0 .. 32 - 1 /\ 31 \in w
        /\ i \in Shl(EXPAND_BIT(w, 31, 44), 20) <=> i - 20 \in 0 .. 44 - 1 /\ 31 \in w
    BY <2>1
  <2> QED
    BY <2>2
<1>2. /\ i \in Shl(BIT(w, 7), 11) <=> i = 11 /\ 7 \in w
      /\ i \in Shl(BIT(w, 20), 11) <=> i = 11 /\ 20 \in w
  BY BitPiece
<1>3. /\ i \in BITS(w, 31, 20) <=> i \in 0 .. 11 /\ i + 20 \in w
      /\ i \in BITS(w, 11, 7) <=> i \in 0 .. 4 /\ i + 7 \in w
      /\ i \in BITS(w, 25, 20) <=> i \in 0 .. 5 /\ i + 20 \in w
      /\ i \in BITS(w, 24, 20) <=> i \in 0 .. 4 /\ i + 20 \in w
      /\ i \in BITS(w, 19, 15) <=> i \in 0 .. 4 /\ i + 15 \in w
  BY FieldPiece
<1>4. /\ i \in Shl(BITS(w, 31, 25), 5) <=> i \in 5 .. 11 /\ i + 20 \in w
      /\ i \in Shl(BITS(w, 30, 25), 5) <=> i \in 5 .. 10 /\ i + 20 \in w
      /\ i \in Shl(BITS(w, 11, 8), 1) <=> i \in 1 .. 4 /\ i + 7 \in w
      /\ i \in Shl(BITS(w, 31, 12), 12) <=> i \in 12 .. 31 /\ i \in w
      /\ i \in Shl(BITS(w, 19, 12), 12) <=> i \in 12 .. 19 /\ i \in w
      /\ i \in Shl(BITS(w, 30, 21), 1) <=> i \in 1 .. 10 /\ i + 20 \in w
  BY RunPiece
<1> QED
  BY <1>1, <1>2, <1>3, <1>4, SameWords
     DEF D32!I_IMM, D32!S_IMM, D32!B_IMM, D32!U_IMM, D32!J_IMM, D32!M_IMM6, D32!M_IMM5, D32!C_IMM

\* The bits of a sign-extended immediate.
LEMMA SignedIs ==
  ASSUME NEW bits \in SUBSET Int, NEW top \in Int, NEW i \in Int
  PROVE  i \in Signed(bits, top) <=> i \in bits \/ (top \in bits /\ i \in top .. 63)
BY DEF Signed

\* The immediates of dec32 are sets of bit positions.
LEMMA Immediates32Int ==
  ASSUME NEW w \in SUBSET Int
  PROVE  /\ D32!I_IMM(w) \subseteq Int /\ D32!S_IMM(w) \subseteq Int /\ D32!B_IMM(w) \subseteq Int
         /\ D32!U_IMM(w) \subseteq Int /\ D32!J_IMM(w) \subseteq Int
         /\ D32!M_IMM6(w) \subseteq Int /\ D32!M_IMM5(w) \subseteq Int /\ D32!C_IMM(w) \subseteq Int
<1>1. ASSUME NEW h \in Int, NEW l \in Int PROVE BITS(w, h, l) \in SUBSET Int
  BY DEF BITS
<1>2. ASSUME NEW h \in Int, NEW num \in Int PROVE EXPAND_BIT(w, h, num) \in SUBSET Int
  BY DEF EXPAND_BIT
<1>3. ASSUME NEW x \in SUBSET Int, NEW n \in Int PROVE Shl(x, n) \in SUBSET Int
  BY DEF Shl
<1> QED
  BY <1>1, <1>2, <1>3, SameWords
     DEF D32!I_IMM, D32!S_IMM, D32!B_IMM, D32!U_IMM, D32!J_IMM, D32!M_IMM6, D32!M_IMM5, D32!C_IMM,
         BIT

\* dec32 reads the immediate that the assembler has written.
LEMMA ImmediateIs ==
  ASSUME NEW d, Encodable(d), HasImm(Format(d.op)),
         NEW bits \in SUBSET ImmRange(Format(d.op)), d.imm = Signed(bits, Sign(Format(d.op)))
  PROVE  Immediate32(Format(d.op), Assemble(d)) = d.imm
<1> DEFINE f == Format(d.op)  w == Assemble(d)  imm == d.imm
<1>1. \A i \in Int :
             /\ f = "I" /\ i \in 20 .. 31 => (i \in w <=> i - 20 \in imm)
             /\ f = "S" /\ i \in 25 .. 31 => (i \in w <=> i - 20 \in imm)
             /\ f = "S" /\ i \in 7 .. 11 => (i \in w <=> i - 7 \in imm)
             /\ f = "B" /\ i \in 25 .. 30 => (i \in w <=> i - 20 \in imm)
             /\ f = "B" /\ i \in 8 .. 11 => (i \in w <=> i - 7 \in imm)
             /\ f = "B" => (31 \in w <=> 12 \in imm) /\ (7 \in w <=> 11 \in imm)
             /\ f = "U" /\ i \in 12 .. 31 => (i \in w <=> i \in imm)
             /\ f = "J" /\ i \in 21 .. 30 => (i \in w <=> i - 20 \in imm)
             /\ f = "J" /\ i \in 12 .. 19 => (i \in w <=> i \in imm)
             /\ f = "J" => (31 \in w <=> 20 \in imm) /\ (20 \in w <=> 11 \in imm)
             /\ f = "H" /\ i \in 20 .. 25 => (i \in w <=> i - 20 \in imm)
             /\ f = "W" /\ i \in 20 .. 24 => (i \in w <=> i - 20 \in imm)
             /\ f = "Z" /\ i \in 15 .. 19 => (i \in w <=> i - 15 \in imm)
  BY ImmediateBits
<1>2. w \in SUBSET Int
  BY AssembledInt
<1>3. f \in {"I", "S", "B", "U", "J", "H", "W", "Z"}
  BY DEF HasImm
<1>4. bits \in SUBSET ImmRange(f) /\ imm = Signed(bits, Sign(f))
  OBVIOUS
<1> HIDE DEF f, w, imm
<1>5. imm \in SUBSET Int
  BY <1>3, <1>4 DEF Signed, ImmRange, Sign
<1>6. CASE f = "I"
  <2>1. /\ bits \in SUBSET (0 .. 11)
        /\ \A i \in Int : i \in imm <=> i \in bits \/ (11 \in bits /\ i \in 11 .. 63)
    BY <1>4, <1>6, SignedIs DEF ImmRange, Sign
  <2>2. \A i \in Int : i \in D32!I_IMM(w) <=> i \in imm
    BY <1>1, <1>2, <1>6, <2>1, Immediates32
  <2>3. D32!I_IMM(w) = imm
    BY <1>2, <1>5, <2>2, Immediates32Int
  <2> QED
    BY <1>6, <2>3 DEF Immediate32, f, w, imm
<1>7. CASE f = "S"
  <2>1. /\ bits \in SUBSET (0 .. 11)
        /\ \A i \in Int : i \in imm <=> i \in bits \/ (11 \in bits /\ i \in 11 .. 63)
    BY <1>4, <1>7, SignedIs DEF ImmRange, Sign
  <2>2. \A i \in Int : i \in D32!S_IMM(w) <=> i \in imm
    BY <1>1, <1>2, <1>7, <2>1, Immediates32
  <2>3. D32!S_IMM(w) = imm
    BY <1>2, <1>5, <2>2, Immediates32Int
  <2> QED
    BY <1>7, <2>3 DEF Immediate32, f, w, imm
<1>8. CASE f = "B"
  <2>1. /\ bits \in SUBSET (1 .. 12)
        /\ \A i \in Int : i \in imm <=> i \in bits \/ (12 \in bits /\ i \in 12 .. 63)
    BY <1>4, <1>8, SignedIs DEF ImmRange, Sign
  <2>2. \A i \in Int : i \in D32!B_IMM(w) <=> i \in imm
    BY <1>1, <1>2, <1>8, <2>1, Immediates32
  <2>3. D32!B_IMM(w) = imm
    BY <1>2, <1>5, <2>2, Immediates32Int
  <2> QED
    BY <1>8, <2>3 DEF Immediate32, f, w, imm
<1>9. CASE f = "U"
  <2>1. /\ bits \in SUBSET (12 .. 31)
        /\ \A i \in Int : i \in imm <=> i \in bits \/ (31 \in bits /\ i \in 31 .. 63)
    BY <1>4, <1>9, SignedIs DEF ImmRange, Sign
  <2>2. \A i \in Int : i \in D32!U_IMM(w) <=> i \in imm
    BY <1>1, <1>2, <1>9, <2>1, Immediates32
  <2>3. D32!U_IMM(w) = imm
    BY <1>2, <1>5, <2>2, Immediates32Int
  <2> QED
    BY <1>9, <2>3 DEF Immediate32, f, w, imm
<1>10. CASE f = "J"
  <2>1. /\ bits \in SUBSET (1 .. 20)
        /\ \A i \in Int : i \in imm <=> i \in bits \/ (20 \in bits /\ i \in 20 .. 63)
    BY <1>4, <1>10, SignedIs DEF ImmRange, Sign
  <2>2. \A i \in Int : i \in D32!J_IMM(w) <=> i \in imm
    BY <1>1, <1>2, <1>10, <2>1, Immediates32
  <2>3. D32!J_IMM(w) = imm
    BY <1>2, <1>5, <2>2, Immediates32Int
  <2> QED
    BY <1>10, <2>3 DEF Immediate32, f, w, imm
<1>11. CASE f = "H"
  <2>1. /\ bits \in SUBSET (0 .. 5)
        /\ \A i \in Int : i \in imm <=> i \in bits \/ (63 \in bits /\ i \in 63 .. 63)
    BY <1>4, <1>11, SignedIs DEF ImmRange, Sign
  <2>2. \A i \in Int : i \in D32!M_IMM6(w) <=> i \in imm
    BY <1>1, <1>2, <1>11, <2>1, Immediates32
  <2>3. D32!M_IMM6(w) = imm
    BY <1>2, <1>5, <2>2, Immediates32Int
  <2> QED
    BY <1>11, <2>3 DEF Immediate32, f, w, imm
<1>12. CASE f = "W"
  <2>1. /\ bits \in SUBSET (0 .. 4)
        /\ \A i \in Int : i \in imm <=> i \in bits \/ (63 \in bits /\ i \in 63 .. 63)
    BY <1>4, <1>12, SignedIs DEF ImmRange, Sign
  <2>2. \A i \in Int : i \in D32!M_IMM5(w) <=> i \in imm
    BY <1>1, <1>2, <1>12, <2>1, Immediates32
  <2>3. D32!M_IMM5(w) = imm
    BY <1>2, <1>5, <2>2, Immediates32Int
  <2> QED
    BY <1>12, <2>3 DEF Immediate32, f, w, imm
<1>13. CASE f = "Z"
  <2>1. /\ bits \in SUBSET (0 .. 4)
        /\ \A i \in Int : i \in imm <=> i \in bits \/ (63 \in bits /\ i \in 63 .. 63)
    BY <1>4, <1>13, SignedIs DEF ImmRange, Sign
  <2>2. \A i \in Int : i \in D32!C_IMM(w) <=> i \in imm
    BY <1>1, <1>2, <1>13, <2>1, Immediates32
  <2>3. D32!C_IMM(w) = imm
    BY <1>2, <1>5, <2>2, Immediates32Int
  <2> QED
    BY <1>13, <2>3 DEF Immediate32, f, w, imm
<1> QED
  BY <1>3, <1>6, <1>7, <1>8, <1>9, <1>10, <1>11, <1>12, <1>13

\* The instructions of which the words are assembled.
Legal(d) ==
  /\ Encodable(d)
  /\ HasRd(Format(d.op)) \/ d.rd = 0
  /\ HasImm(Format(d.op)) =>
       \E bits \in SUBSET ImmRange(Format(d.op)) : d.imm = Signed(bits, Sign(Format(d.op)))

\* dec32 undoes the assembler.
LEMMA Roundtrip ==
  ASSUME NEW d, Legal(d)
  PROVE  /\ Assemble(d) \in SUBSET (0 .. 31) /\ {0, 1} \subseteq Assemble(d)
         /\ Effect(D32!dec32(Assemble(d))) = Effect(d)
<1> DEFINE f == Format(d.op)  w == Assemble(d)  r == D32!dec32(w)
<1>1. Encodable(d) /\ d.op \in Operations
  BY DEF Legal, Encodable
<1>2. /\ w \in SUBSET (0 .. 31) /\ {0, 1} \subseteq w /\ Fits(d.op, w)
      /\ HasRd(f) => Number(BITS(w, 11, 7)) = d.rd
      /\ f \in {"P", "V"} => Number(BITS(w, 11, 7)) = 0
      /\ HasRs1(f) => Number(BITS(w, 19, 15)) = d.rs1
      /\ HasRs2(f) => Number(BITS(w, 24, 20)) = d.rs2
      /\ HasCsr(f) => BITS(w, 31, 20) = d.csr_addr
  BY <1>1, AssembledFields
<1>3. HasImm(f) => Immediate32(f, w) = d.imm
  BY <1>1, ImmediateIs DEF Legal
<1>4. /\ f \in Formats /\ (f \in {"C", "Z"} => Listing[d.op][2] = 115)
      /\ Listing[d.op][2] = 15 => d.op \in MiscOps
  BY <1>1, ListingIs
<1>5. ~HasRd(f) => d.rd = 0
  BY DEF Legal
<1>6. r = Result32(d.op, w)
  BY <1>1, <1>2, DecodedByFields
<1> DEFINE fields == [op |-> d.op, rd |-> Number(BITS(w, 11, 7)), rs1 |-> Number(BITS(w, 19, 15)),
                      rs2 |-> Number(BITS(w, 24, 20)),
                      imm |-> IF Listing[d.op][2] = 15 THEN {} ELSE Immediate32(f, w), csr_addr |-> {}]
<1>7. r = IF f \in {"S", "B"} THEN [fields EXCEPT !.rd = 0]
          ELSE IF Listing[d.op][2] = 115 THEN [fields EXCEPT !.csr_addr = BITS(w, 31, 20)]
          ELSE fields
  BY <1>6, SameWords DEF Result32, D32!Fields, D32!NoRd, D32!Second, Decoded
<1> HIDE DEF f, w, r
<1>8. r.op = d.op /\ r.rd = d.rd
  BY <1>2, <1>4, <1>5, <1>7 DEF HasRd, Formats
<1>9. /\ HasRs1(f) => r.rs1 = d.rs1
      /\ HasRs2(f) => r.rs2 = d.rs2
      /\ HasImm(f) /\ d.op \notin MiscOps => r.imm = d.imm
  BY <1>2, <1>3, <1>4, <1>7
<1>10. HasCsr(f) => r.csr_addr = d.csr_addr
  BY <1>2, <1>4, <1>7 DEF HasCsr
<1>11. Effect(r) = Effect(d)
  BY <1>8, <1>9, <1>10 DEF Effect, MiscOps, f
<1> QED
  BY <1>2, <1>11 DEF w, r

-----------------------------------------------------------------------------
(* The compressed instructions.                                            *)

\* A bit of a gathered immediate is somewhere in the word.
LEMMA GatherIs ==
  ASSUME NEW h, NEW high \in Int, NEW order, NEW x
  PROVE  x \in Gather(h, high, order) <=>
           \E k \in 1 .. Len(order) : order[k] = x /\ high + 1 - k \in h
BY DEF Gather

\* A field that the listing prints as a run of bits.
LEMMA GatherRun ==
  ASSUME NEW h, NEW high \in Nat, NEW top \in Nat, NEW bottom \in 0 .. top, NEW i \in Int
  PROVE  i \in Gather(h, high, Down(top, bottom)) <=> i \in bottom .. top /\ i + high - top \in h
<1> DEFINE order == Down(top, bottom)
<1>1. Len(order) = top - bottom + 1 /\ \A n \in 1 .. top - bottom + 1 : order[n] = top + 1 - n
  BY DownIs
<1> HIDE DEF order
<1>2. i \in Gather(h, high, order) <=>
        \E k \in 1 .. Len(order) : order[k] = i /\ high + 1 - k \in h
  BY GatherIs
<1>3. ASSUME NEW k \in 1 .. Len(order), order[k] = i, high + 1 - k \in h
      PROVE  i \in bottom .. top /\ i + high - top \in h
  <2>1. i = top + 1 - k /\ high + 1 - k = i + high - top
    BY <1>1, <1>3
  <2> QED
    BY <1>1, <1>3, <2>1
<1>4. ASSUME i \in bottom .. top, i + high - top \in h
      PROVE  \E k \in 1 .. Len(order) : order[k] = i /\ high + 1 - k \in h
  <2>1. top + 1 - i \in 1 .. Len(order) /\ order[top + 1 - i] = i
    BY <1>1, <1>4
  <2>2. high + 1 - (top + 1 - i) = i + high - top
    OBVIOUS
  <2> QED
    BY <1>4, <2>1, <2>2
<1> QED
  BY <1>2, <1>3, <1>4 DEF order

\* A gathered immediate of one bit, spelled out.
LEMMA Gather1 ==
  ASSUME NEW h, NEW high \in Int, NEW x, NEW a
  PROVE  x \in Gather(h, high, <<a>>) <=>
           \/ (x = a /\ high \in h)
<1> DEFINE order == <<a>>
<1>1. /\ Len(order) = 1 /\ order[1] = a
  OBVIOUS
<1> HIDE DEF order
<1>2. x \in Gather(h, high, order) <=> \E k \in 1 .. 1 : order[k] = x /\ high + 1 - k \in h
  BY <1>1, GatherIs
<1>3. 1 .. 1 = {1}
  OBVIOUS
<1>4. (\E k \in 1 .. 1 : order[k] = x /\ high + 1 - k \in h) <=>
        \/ (order[1] = x /\ high + 1 - 1 \in h)
  BY <1>3
<1>5. /\ high + 1 - 1 = high
  OBVIOUS
<1>6. x \in Gather(h, high, order) <=>
        \/ (a = x /\ high \in h)
  BY <1>1, <1>2, <1>4, <1>5
<1> QED
  BY <1>6, Zenon DEF order

\* A gathered immediate of two bits, spelled out.
LEMMA Gather2 ==
  ASSUME NEW h, NEW high \in Int, NEW x, NEW a, NEW b
  PROVE  x \in Gather(h, high, <<a, b>>) <=>
           \/ (x = a /\ high \in h) \/ (x = b /\ high - 1 \in h)
<1> DEFINE order == <<a, b>>
<1>1. /\ Len(order) = 2 /\ order[1] = a /\ order[2] = b
  OBVIOUS
<1> HIDE DEF order
<1>2. x \in Gather(h, high, order) <=> \E k \in 1 .. 2 : order[k] = x /\ high + 1 - k \in h
  BY <1>1, GatherIs
<1>3. 1 .. 2 = {1, 2}
  OBVIOUS
<1>4. (\E k \in 1 .. 2 : order[k] = x /\ high + 1 - k \in h) <=>
        \/ (order[1] = x /\ high + 1 - 1 \in h) \/ (order[2] = x /\ high + 1 - 2 \in h)
  BY <1>3
<1>5. /\ high + 1 - 1 = high /\ high + 1 - 2 = high - 1
  OBVIOUS
<1>6. x \in Gather(h, high, order) <=>
        \/ (a = x /\ high \in h) \/ (b = x /\ high - 1 \in h)
  BY <1>1, <1>2, <1>4, <1>5
<1> QED
  BY <1>6, Zenon DEF order

\* A gathered immediate of three bits, spelled out.
LEMMA Gather3 ==
  ASSUME NEW h, NEW high \in Int, NEW x, NEW a, NEW b, NEW c
  PROVE  x \in Gather(h, high, <<a, b, c>>) <=>
           \/ (x = a /\ high \in h) \/ (x = b /\ high - 1 \in h) \/ (x = c /\ high - 2 \in h)
<1> DEFINE order == <<a, b, c>>
<1>1. /\ Len(order) = 3 /\ order[1] = a /\ order[2] = b /\ order[3] = c
  OBVIOUS
<1> HIDE DEF order
<1>2. x \in Gather(h, high, order) <=> \E k \in 1 .. 3 : order[k] = x /\ high + 1 - k \in h
  BY <1>1, GatherIs
<1>3. 1 .. 3 = {1, 2, 3}
  OBVIOUS
<1>4. (\E k \in 1 .. 3 : order[k] = x /\ high + 1 - k \in h) <=>
        \/ (order[1] = x /\ high + 1 - 1 \in h) \/ (order[2] = x /\ high + 1 - 2 \in h)
        \/ (order[3] = x /\ high + 1 - 3 \in h)
  BY <1>3
<1>5. /\ high + 1 - 1 = high /\ high + 1 - 2 = high - 1 /\ high + 1 - 3 = high - 2
  OBVIOUS
<1>6. x \in Gather(h, high, order) <=>
        \/ (a = x /\ high \in h) \/ (b = x /\ high - 1 \in h) \/ (c = x /\ high - 2 \in h)
  BY <1>1, <1>2, <1>4, <1>5
<1> QED
  BY <1>6, Zenon DEF order

\* A gathered immediate of five bits, spelled out.
LEMMA Gather5 ==
  ASSUME NEW h, NEW high \in Int, NEW x, NEW a, NEW b, NEW c, NEW d, NEW e
  PROVE  x \in Gather(h, high, <<a, b, c, d, e>>) <=>
           \/ (x = a /\ high \in h) \/ (x = b /\ high - 1 \in h) \/ (x = c /\ high - 2 \in h)
           \/ (x = d /\ high - 3 \in h) \/ (x = e /\ high - 4 \in h)
<1> DEFINE order == <<a, b, c, d, e>>
<1>1. /\ Len(order) = 5 /\ order[1] = a /\ order[2] = b /\ order[3] = c /\ order[4] = d
      /\ order[5] = e
  OBVIOUS
<1> HIDE DEF order
<1>2. x \in Gather(h, high, order) <=> \E k \in 1 .. 5 : order[k] = x /\ high + 1 - k \in h
  BY <1>1, GatherIs
<1>3. 1 .. 5 = {1, 2, 3, 4, 5}
  OBVIOUS
<1>4. (\E k \in 1 .. 5 : order[k] = x /\ high + 1 - k \in h) <=>
        \/ (order[1] = x /\ high + 1 - 1 \in h) \/ (order[2] = x /\ high + 1 - 2 \in h)
        \/ (order[3] = x /\ high + 1 - 3 \in h) \/ (order[4] = x /\ high + 1 - 4 \in h)
        \/ (order[5] = x /\ high + 1 - 5 \in h)
  BY <1>3
<1>5. /\ high + 1 - 1 = high /\ high + 1 - 2 = high - 1 /\ high + 1 - 3 = high - 2
      /\ high + 1 - 4 = high - 3 /\ high + 1 - 5 = high - 4
  OBVIOUS
<1>6. x \in Gather(h, high, order) <=>
        \/ (a = x /\ high \in h) \/ (b = x /\ high - 1 \in h) \/ (c = x /\ high - 2 \in h)
        \/ (d = x /\ high - 3 \in h) \/ (e = x /\ high - 4 \in h)
  BY <1>1, <1>2, <1>4, <1>5
<1> QED
  BY <1>6, Zenon DEF order

\* A gathered immediate of six bits, spelled out.
LEMMA Gather6 ==
  ASSUME NEW h, NEW high \in Int, NEW x, NEW a, NEW b, NEW c, NEW d, NEW e, NEW f
  PROVE  x \in Gather(h, high, <<a, b, c, d, e, f>>) <=>
           \/ (x = a /\ high \in h) \/ (x = b /\ high - 1 \in h) \/ (x = c /\ high - 2 \in h)
           \/ (x = d /\ high - 3 \in h) \/ (x = e /\ high - 4 \in h) \/ (x = f /\ high - 5 \in h)
<1> DEFINE order == <<a, b, c, d, e, f>>
<1>1. /\ Len(order) = 6 /\ order[1] = a /\ order[2] = b /\ order[3] = c /\ order[4] = d
      /\ order[5] = e /\ order[6] = f
  OBVIOUS
<1> HIDE DEF order
<1>2. x \in Gather(h, high, order) <=> \E k \in 1 .. 6 : order[k] = x /\ high + 1 - k \in h
  BY <1>1, GatherIs
<1>3. 1 .. 6 = {1, 2, 3, 4, 5, 6}
  OBVIOUS
<1>4. (\E k \in 1 .. 6 : order[k] = x /\ high + 1 - k \in h) <=>
        \/ (order[1] = x /\ high + 1 - 1 \in h) \/ (order[2] = x /\ high + 1 - 2 \in h)
        \/ (order[3] = x /\ high + 1 - 3 \in h) \/ (order[4] = x /\ high + 1 - 4 \in h)
        \/ (order[5] = x /\ high + 1 - 5 \in h) \/ (order[6] = x /\ high + 1 - 6 \in h)
  BY <1>3
<1>5. /\ high + 1 - 1 = high /\ high + 1 - 2 = high - 1 /\ high + 1 - 3 = high - 2
      /\ high + 1 - 4 = high - 3 /\ high + 1 - 5 = high - 4 /\ high + 1 - 6 = high - 5
  OBVIOUS
<1>6. x \in Gather(h, high, order) <=>
        \/ (a = x /\ high \in h) \/ (b = x /\ high - 1 \in h) \/ (c = x /\ high - 2 \in h)
        \/ (d = x /\ high - 3 \in h) \/ (e = x /\ high - 4 \in h)
        \/ (f = x /\ high - 5 \in h)
  BY <1>1, <1>2, <1>4, <1>5
<1> QED
  BY <1>6, Zenon DEF order

\* A gathered immediate of eight bits, spelled out.
LEMMA Gather8 ==
  ASSUME NEW h, NEW high \in Int, NEW x, NEW a, NEW b, NEW c, NEW d, NEW e, NEW f, NEW g, NEW p
  PROVE  x \in Gather(h, high, <<a, b, c, d, e, f, g, p>>) <=>
           \/ (x = a /\ high \in h) \/ (x = b /\ high - 1 \in h) \/ (x = c /\ high - 2 \in h)
           \/ (x = d /\ high - 3 \in h) \/ (x = e /\ high - 4 \in h) \/ (x = f /\ high - 5 \in h)
           \/ (x = g /\ high - 6 \in h) \/ (x = p /\ high - 7 \in h)
<1> DEFINE order == <<a, b, c, d, e, f, g, p>>
<1>1. /\ Len(order) = 8 /\ order[1] = a /\ order[2] = b /\ order[3] = c /\ order[4] = d
      /\ order[5] = e /\ order[6] = f /\ order[7] = g /\ order[8] = p
  OBVIOUS
<1> HIDE DEF order
<1>2. x \in Gather(h, high, order) <=> \E k \in 1 .. 8 : order[k] = x /\ high + 1 - k \in h
  BY <1>1, GatherIs
<1>3. 1 .. 8 = {1, 2, 3, 4, 5, 6, 7, 8}
  OBVIOUS
<1>4. (\E k \in 1 .. 8 : order[k] = x /\ high + 1 - k \in h) <=>
        \/ (order[1] = x /\ high + 1 - 1 \in h) \/ (order[2] = x /\ high + 1 - 2 \in h)
        \/ (order[3] = x /\ high + 1 - 3 \in h) \/ (order[4] = x /\ high + 1 - 4 \in h)
        \/ (order[5] = x /\ high + 1 - 5 \in h) \/ (order[6] = x /\ high + 1 - 6 \in h)
        \/ (order[7] = x /\ high + 1 - 7 \in h) \/ (order[8] = x /\ high + 1 - 8 \in h)
  BY <1>3
<1>5. /\ high + 1 - 1 = high /\ high + 1 - 2 = high - 1 /\ high + 1 - 3 = high - 2
      /\ high + 1 - 4 = high - 3 /\ high + 1 - 5 = high - 4 /\ high + 1 - 6 = high - 5
      /\ high + 1 - 7 = high - 6 /\ high + 1 - 8 = high - 7
  OBVIOUS
<1>6. x \in Gather(h, high, order) <=>
        \/ (a = x /\ high \in h) \/ (b = x /\ high - 1 \in h) \/ (c = x /\ high - 2 \in h)
        \/ (d = x /\ high - 3 \in h) \/ (e = x /\ high - 4 \in h)
        \/ (f = x /\ high - 5 \in h) \/ (g = x /\ high - 6 \in h)
        \/ (p = x /\ high - 7 \in h)
  BY <1>1, <1>2, <1>4, <1>5
<1> QED
  BY <1>6, Zenon DEF order

\* A gathered immediate of eleven bits, spelled out.
LEMMA Gather11 ==
  ASSUME NEW h, NEW high \in Int, NEW x, NEW a, NEW b, NEW c, NEW d, NEW e, NEW f, NEW g, NEW p, NEW q, NEW r, NEW s
  PROVE  x \in Gather(h, high, <<a, b, c, d, e, f, g, p, q, r, s>>) <=>
           \/ (x = a /\ high \in h) \/ (x = b /\ high - 1 \in h) \/ (x = c /\ high - 2 \in h)
           \/ (x = d /\ high - 3 \in h) \/ (x = e /\ high - 4 \in h) \/ (x = f /\ high - 5 \in h)
           \/ (x = g /\ high - 6 \in h) \/ (x = p /\ high - 7 \in h) \/ (x = q /\ high - 8 \in h)
           \/ (x = r /\ high - 9 \in h) \/ (x = s /\ high - 10 \in h)
<1> DEFINE order == <<a, b, c, d, e, f, g, p, q, r, s>>
<1>1. /\ Len(order) = 11 /\ order[1] = a /\ order[2] = b /\ order[3] = c /\ order[4] = d
      /\ order[5] = e /\ order[6] = f /\ order[7] = g /\ order[8] = p /\ order[9] = q
      /\ order[10] = r /\ order[11] = s
  OBVIOUS
<1> HIDE DEF order
<1>2. x \in Gather(h, high, order) <=> \E k \in 1 .. 11 : order[k] = x /\ high + 1 - k \in h
  BY <1>1, GatherIs
<1>3. 1 .. 11 = {1, 2, 3, 4, 5, 6, 7, 8, 9, 10, 11}
  OBVIOUS
<1>4. (\E k \in 1 .. 11 : order[k] = x /\ high + 1 - k \in h) <=>
        \/ (order[1] = x /\ high + 1 - 1 \in h) \/ (order[2] = x /\ high + 1 - 2 \in h)
        \/ (order[3] = x /\ high + 1 - 3 \in h) \/ (order[4] = x /\ high + 1 - 4 \in h)
        \/ (order[5] = x /\ high + 1 - 5 \in h) \/ (order[6] = x /\ high + 1 - 6 \in h)
        \/ (order[7] = x /\ high + 1 - 7 \in h) \/ (order[8] = x /\ high + 1 - 8 \in h)
        \/ (order[9] = x /\ high + 1 - 9 \in h) \/ (order[10] = x /\ high + 1 - 10 \in h)
        \/ (order[11] = x /\ high + 1 - 11 \in h)
  BY <1>3
<1>5. /\ high + 1 - 1 = high /\ high + 1 - 2 = high - 1 /\ high + 1 - 3 = high - 2
      /\ high + 1 - 4 = high - 3 /\ high + 1 - 5 = high - 4 /\ high + 1 - 6 = high - 5
      /\ high + 1 - 7 = high - 6 /\ high + 1 - 8 = high - 7 /\ high + 1 - 9 = high - 8
      /\ high + 1 - 10 = high - 9 /\ high + 1 - 11 = high - 10
  OBVIOUS
<1>6. x \in Gather(h, high, order) <=>
        \/ (a = x /\ high \in h) \/ (b = x /\ high - 1 \in h) \/ (c = x /\ high - 2 \in h)
        \/ (d = x /\ high - 3 \in h) \/ (e = x /\ high - 4 \in h)
        \/ (f = x /\ high - 5 \in h) \/ (g = x /\ high - 6 \in h)
        \/ (p = x /\ high - 7 \in h) \/ (q = x /\ high - 8 \in h)
        \/ (r = x /\ high - 9 \in h) \/ (s = x /\ high - 10 \in h)
  BY <1>1, <1>2, <1>4, <1>5
<1> QED
  BY <1>6, Zenon DEF order

\* Dec16 reads words with the operators of the listing.
LEMMA SameWords16 ==
  /\ \A w, high, low : D16!BITS(w, high, low) = BITS(w, high, low)
  /\ \A w, index : D16!BIT(w, index) = BIT(w, index)
  /\ \A w, index, num : D16!EXPAND_BIT(w, index, num) = EXPAND_BIT(w, index, num)
  /\ \A w, n : D16!Shl(w, n) = Shl(w, n)
  /\ \A w : D16!Number(w) = Number(w)
  /\ \A op, rd, rs1, rs2, imm : D16!Decoded(op, rd, rs1, rs2, imm) = Decoded(op, rd, rs1, rs2, imm)
  /\ D16!Bad = Bad
BY DEF D16!BITS, BITS, D16!BIT, BIT, D16!EXPAND_BIT, EXPAND_BIT, D16!Shl, Shl, D16!Number,
   Number, D16!Decoded, Decoded, D16!Bad, Bad

\* Such a field is a set of bit positions.
LEMMA GatherInt ==
  ASSUME NEW h, NEW high \in Int, NEW top \in Nat, NEW bottom \in 0 .. top
  PROVE  Gather(h, high, Down(top, bottom)) \subseteq Int
<1> DEFINE order == Down(top, bottom)
<1>1. \A k \in 1 .. Len(order) : order[k] \in Int
  <2>1. Len(order) = top - bottom + 1 /\ \A k \in 1 .. top - bottom + 1 : order[k] = top + 1 - k
    BY DownIs
  <2> QED
    BY <2>1
<1> HIDE DEF order
<1>2. Gather(h, high, order) \subseteq Int
  BY <1>1 DEF Gather
<1> QED
  BY <1>2 DEF order

\* A field that the listing prints as a run of bits down to bit 0.
LEMMA GatherField ==
  ASSUME NEW h \in SUBSET Int, NEW high \in Nat, NEW low \in 0 .. high, NEW top \in Nat,
         top = high - low
  PROVE  Gather(h, high, Down(top, 0)) = BITS(h, high, low)
<1> DEFINE field == BITS(h, high, low)  run == Gather(h, high, Down(top, 0))
<1>1. field \subseteq Int /\ \A i \in Int : i \in field <=> i \in 0 .. top /\ i + low \in h
  BY BitsIs
<1>2. run \subseteq Int
  BY GatherInt
<1>3. \A i \in Int : i \in run <=> i \in 0 .. top /\ i + high - top \in h
  BY GatherRun
<1>4. \A i \in Int : i + high - top = i + low
  OBVIOUS
<1> HIDE DEF field, run
<1>5. \A i \in Int : i \in run <=> i \in field
  BY <1>1, <1>3, <1>4
<1>6. run = field
  BY <1>1, <1>2, <1>5
<1> QED
  BY <1>6 DEF field, run

\* The register fields.
LEMMA Registers16 ==
  ASSUME NEW h \in SUBSET Int
  PROVE  /\ D16!funct3(h) = Func(h) /\ Func(h) \in 0 .. 7
         /\ D16!Wide(h) = Full(h) /\ Full(h) \in 0 .. 31
         /\ D16!Wide2(h) = Full2(h) /\ Full2(h) \in 0 .. 31
         /\ D16!High(h) = Short(h) /\ Short(h) \in 8 .. 15
         /\ D16!Low(h) = Short2(h) /\ Short2(h) \in 8 .. 15
<1>1. BITS(h, 15, 13) = Gather(h, 15, <<2, 1, 0>>) /\ BITS(h, 15, 13) \subseteq 0 .. 2
  <2>1. BITS(h, 15, 13) \subseteq 0 .. 2 /\ \A i \in Int : i \in BITS(h, 15, 13) <=> i \in 0 .. 2 /\ i + 13 \in h
    BY BitsIs
  <2>2. \A x : x \in Gather(h, 15, <<2, 1, 0>>) <=>
                  \/ (x = 2 /\ 15 \in h) \/ (x = 1 /\ 15 - 1 \in h) \/ (x = 0 /\ 15 - 2 \in h)
    BY Gather3
  <2> QED
    BY <2>1, <2>2
<1>2. /\ Gather(h, 11, Down(4, 0)) = BITS(h, 11, 7) /\ BITS(h, 11, 7) \subseteq 0 .. 4
      /\ Gather(h, 6, Down(4, 0)) = BITS(h, 6, 2) /\ BITS(h, 6, 2) \subseteq 0 .. 4
      /\ Gather(h, 9, Down(2, 0)) = BITS(h, 9, 7) /\ BITS(h, 9, 7) \subseteq 0 .. 2
      /\ Gather(h, 4, Down(2, 0)) = BITS(h, 4, 2) /\ BITS(h, 4, 2) \subseteq 0 .. 2
  <2>1. Gather(h, 11, Down(4, 0)) = BITS(h, 11, 7) /\ BITS(h, 11, 7) \subseteq 0 .. 4
    BY GatherField, BitsIs
  <2>2. Gather(h, 6, Down(4, 0)) = BITS(h, 6, 2) /\ BITS(h, 6, 2) \subseteq 0 .. 4
    BY GatherField, BitsIs
  <2>3. Gather(h, 9, Down(2, 0)) = BITS(h, 9, 7) /\ BITS(h, 9, 7) \subseteq 0 .. 2
    BY GatherField, BitsIs
  <2>4. Gather(h, 4, Down(2, 0)) = BITS(h, 4, 2) /\ BITS(h, 4, 2) \subseteq 0 .. 2
    BY GatherField, BitsIs
  <2> QED
    BY <2>1, <2>2, <2>3, <2>4
<1>3. /\ D16!funct3(h) = Func(h) /\ D16!Wide(h) = Full(h) /\ D16!Wide2(h) = Full2(h)
      /\ D16!High(h) = Short(h) /\ D16!Low(h) = Short2(h)
  BY <1>1, <1>2, SameWords16
     DEF D16!funct3, D16!Wide, D16!Wide2, D16!High, D16!Low, Func, Full, Full2, Short, Short2
<1>4. /\ Func(h) \in 0 .. 7 /\ Full(h) \in 0 .. 31 /\ Full2(h) \in 0 .. 31
      /\ Number(BITS(h, 9, 7)) \in 0 .. 7 /\ Number(BITS(h, 4, 2)) \in 0 .. 7
  BY <1>1, <1>2, NumberIs DEF Func, Full, Full2
<1>5. Short(h) \in 8 .. 15 /\ Short2(h) \in 8 .. 15
  BY <1>2, <1>4 DEF Short, Short2
<1> QED
  BY <1>3, <1>4, <1>5

-----------------------------------------------------------------------------
(* The immediates of the compressed instructions.                          *)

\* The offset of c.addi4spn, bit by bit, in the listing and in dec16; the next lemmas
\* do the same for the other immediates.
LEMMA CiwIs ==
  ASSUME NEW h \in SUBSET Int, NEW i \in Int
  PROVE  /\ i \in Ciw(h) <=>
           \/ (i = 2 /\ 6 \in h) \/ (i = 3 /\ 5 \in h) \/ (i = 4 /\ 11 \in h)
           \/ (i = 5 /\ 12 \in h) \/ (i = 6 /\ 7 \in h) \/ (i = 7 /\ 8 \in h)
           \/ (i = 8 /\ 9 \in h) \/ (i = 9 /\ 10 \in h)
         /\ i \in D16!N_IMM(h) <=>
           \/ (i = 2 /\ 6 \in h) \/ (i = 3 /\ 5 \in h) \/ (i = 4 /\ 11 \in h)
           \/ (i = 5 /\ 12 \in h) \/ (i = 6 /\ 7 \in h) \/ (i = 7 /\ 8 \in h)
           \/ (i = 8 /\ 9 \in h) \/ (i = 9 /\ 10 \in h)
<1>1. i \in Gather(h, 12, <<5, 4, 9, 8, 7, 6, 2, 3>>) <=>
        \/ (i = 5 /\ 12 \in h) \/ (i = 4 /\ 11 \in h) \/ (i = 9 /\ 10 \in h)
        \/ (i = 8 /\ 9 \in h) \/ (i = 7 /\ 8 \in h) \/ (i = 6 /\ 7 \in h)
        \/ (i = 2 /\ 6 \in h) \/ (i = 3 /\ 5 \in h)
  BY Gather8
<1>2. i \in Ciw(h) <=>
        \/ (i = 2 /\ 6 \in h) \/ (i = 3 /\ 5 \in h) \/ (i = 4 /\ 11 \in h)
        \/ (i = 5 /\ 12 \in h) \/ (i = 6 /\ 7 \in h) \/ (i = 7 /\ 8 \in h)
        \/ (i = 8 /\ 9 \in h) \/ (i = 9 /\ 10 \in h)
  BY <1>1 DEF Ciw
<1>3. /\ i \in Shl(BITS(h, 10, 7), 6) <=> i \in 6 .. 9 /\ i + 1 \in h
      /\ i \in Shl(BITS(h, 12, 11), 4) <=> i \in 4 .. 5 /\ i + 7 \in h
  BY RunPiece
<1>4. /\ i \in Shl(BIT(h, 5), 3) <=> i = 3 /\ 5 \in h
      /\ i \in Shl(BIT(h, 6), 2) <=> i = 2 /\ 6 \in h
  <2>1. \A index \in Nat, m \in Int : i \in Shl(BIT(h, index), m) <=> i = m /\ index \in h
    BY BitPiece, Zenon
  <2> QED
    BY <2>1
<1>5. i \in D16!N_IMM(h) <=>
        \/ (i = 2 /\ 6 \in h) \/ (i = 3 /\ 5 \in h) \/ (i = 4 /\ 11 \in h)
        \/ (i = 5 /\ 12 \in h) \/ (i = 6 /\ 7 \in h) \/ (i = 7 /\ 8 \in h)
        \/ (i = 8 /\ 9 \in h) \/ (i = 9 /\ 10 \in h)
  BY <1>3, <1>4, SameWords16 DEF D16!N_IMM
<1> QED
  BY <1>2, <1>5

\* The offset of c.lw and c.sw.
LEMMA ClwIs ==
  ASSUME NEW h \in SUBSET Int, NEW i \in Int
  PROVE  /\ i \in Clw(h) <=>
           \/ (i = 2 /\ 6 \in h) \/ (i = 3 /\ 10 \in h) \/ (i = 4 /\ 11 \in h)
           \/ (i = 5 /\ 12 \in h) \/ (i = 6 /\ 5 \in h)
         /\ i \in D16!U_IMM(h) <=>
           \/ (i = 2 /\ 6 \in h) \/ (i = 3 /\ 10 \in h) \/ (i = 4 /\ 11 \in h)
           \/ (i = 5 /\ 12 \in h) \/ (i = 6 /\ 5 \in h)
<1>1. i \in Gather(h, 12, <<5, 4, 3>>) <=>
        \/ (i = 5 /\ 12 \in h) \/ (i = 4 /\ 11 \in h) \/ (i = 3 /\ 10 \in h)
  BY Gather3
<1>2. i \in Gather(h, 6, <<2, 6>>) <=>
        \/ (i = 2 /\ 6 \in h) \/ (i = 6 /\ 5 \in h)
  BY Gather2
<1>3. i \in Clw(h) <=>
        \/ (i = 2 /\ 6 \in h) \/ (i = 3 /\ 10 \in h) \/ (i = 4 /\ 11 \in h)
        \/ (i = 5 /\ 12 \in h) \/ (i = 6 /\ 5 \in h)
  BY <1>1, <1>2 DEF Clw
<1>4. /\ i \in Shl(BITS(h, 12, 10), 3) <=> i \in 3 .. 5 /\ i + 7 \in h
  BY RunPiece
<1>5. /\ i \in Shl(BIT(h, 5), 6) <=> i = 6 /\ 5 \in h
      /\ i \in Shl(BIT(h, 6), 2) <=> i = 2 /\ 6 \in h
  <2>1. \A index \in Nat, m \in Int : i \in Shl(BIT(h, index), m) <=> i = m /\ index \in h
    BY BitPiece, Zenon
  <2> QED
    BY <2>1
<1>6. i \in D16!U_IMM(h) <=>
        \/ (i = 2 /\ 6 \in h) \/ (i = 3 /\ 10 \in h) \/ (i = 4 /\ 11 \in h)
        \/ (i = 5 /\ 12 \in h) \/ (i = 6 /\ 5 \in h)
  BY <1>4, <1>5, SameWords16 DEF D16!U_IMM
<1> QED
  BY <1>3, <1>6

\* The offset of c.ld, c.sd, c.fld and c.fsd.
LEMMA CldIs ==
  ASSUME NEW h \in SUBSET Int, NEW i \in Int
  PROVE  /\ i \in Cld(h) <=>
           \/ (i = 3 /\ 10 \in h) \/ (i = 4 /\ 11 \in h) \/ (i = 5 /\ 12 \in h)
           \/ (i = 6 /\ 5 \in h) \/ (i = 7 /\ 6 \in h)
         /\ i \in D16!U_IMM_D(h) <=>
           \/ (i = 3 /\ 10 \in h) \/ (i = 4 /\ 11 \in h) \/ (i = 5 /\ 12 \in h)
           \/ (i = 6 /\ 5 \in h) \/ (i = 7 /\ 6 \in h)
<1>1. i \in Gather(h, 12, <<5, 4, 3>>) <=>
        \/ (i = 5 /\ 12 \in h) \/ (i = 4 /\ 11 \in h) \/ (i = 3 /\ 10 \in h)
  BY Gather3
<1>2. i \in Gather(h, 6, <<7, 6>>) <=>
        \/ (i = 7 /\ 6 \in h) \/ (i = 6 /\ 5 \in h)
  BY Gather2
<1>3. i \in Cld(h) <=>
        \/ (i = 3 /\ 10 \in h) \/ (i = 4 /\ 11 \in h) \/ (i = 5 /\ 12 \in h)
        \/ (i = 6 /\ 5 \in h) \/ (i = 7 /\ 6 \in h)
  BY <1>1, <1>2 DEF Cld
<1>4. /\ i \in Shl(BITS(h, 6, 5), 6) <=> i \in 6 .. 7 /\ i - 1 \in h
      /\ i \in Shl(BITS(h, 12, 10), 3) <=> i \in 3 .. 5 /\ i + 7 \in h
  BY RunPiece
<1>5. i \in D16!U_IMM_D(h) <=>
        \/ (i = 3 /\ 10 \in h) \/ (i = 4 /\ 11 \in h) \/ (i = 5 /\ 12 \in h)
        \/ (i = 6 /\ 5 \in h) \/ (i = 7 /\ 6 \in h)
  BY <1>4, SameWords16 DEF D16!U_IMM_D
<1> QED
  BY <1>3, <1>5

\* The offset of c.lwsp.
LEMMA ClwspIs ==
  ASSUME NEW h \in SUBSET Int, NEW i \in Int
  PROVE  /\ i \in Clwsp(h) <=>
           \/ (i = 2 /\ 4 \in h) \/ (i = 3 /\ 5 \in h) \/ (i = 4 /\ 6 \in h)
           \/ (i = 5 /\ 12 \in h) \/ (i = 6 /\ 2 \in h) \/ (i = 7 /\ 3 \in h)
         /\ i \in D16!LWSP_IMM(h) <=>
           \/ (i = 2 /\ 4 \in h) \/ (i = 3 /\ 5 \in h) \/ (i = 4 /\ 6 \in h)
           \/ (i = 5 /\ 12 \in h) \/ (i = 6 /\ 2 \in h) \/ (i = 7 /\ 3 \in h)
<1>1. i \in Gather(h, 12, <<5>>) <=>
        \/ (i = 5 /\ 12 \in h)
  BY Gather1
<1>2. i \in Gather(h, 6, <<4, 3, 2, 7, 6>>) <=>
        \/ (i = 4 /\ 6 \in h) \/ (i = 3 /\ 5 \in h) \/ (i = 2 /\ 4 \in h)
        \/ (i = 7 /\ 3 \in h) \/ (i = 6 /\ 2 \in h)
  BY Gather5
<1>3. i \in Clwsp(h) <=>
        \/ (i = 2 /\ 4 \in h) \/ (i = 3 /\ 5 \in h) \/ (i = 4 /\ 6 \in h)
        \/ (i = 5 /\ 12 \in h) \/ (i = 6 /\ 2 \in h) \/ (i = 7 /\ 3 \in h)
  BY <1>1, <1>2 DEF Clwsp
<1>4. /\ i \in Shl(BITS(h, 3, 2), 6) <=> i \in 6 .. 7 /\ i - 4 \in h
      /\ i \in Shl(BITS(h, 6, 4), 2) <=> i \in 2 .. 4 /\ i + 2 \in h
  BY RunPiece
<1>5. /\ i \in Shl(BIT(h, 12), 5) <=> i = 5 /\ 12 \in h
  <2>1. \A index \in Nat, m \in Int : i \in Shl(BIT(h, index), m) <=> i = m /\ index \in h
    BY BitPiece, Zenon
  <2> QED
    BY <2>1
<1>6. i \in D16!LWSP_IMM(h) <=>
        \/ (i = 2 /\ 4 \in h) \/ (i = 3 /\ 5 \in h) \/ (i = 4 /\ 6 \in h)
        \/ (i = 5 /\ 12 \in h) \/ (i = 6 /\ 2 \in h) \/ (i = 7 /\ 3 \in h)
  BY <1>4, <1>5, SameWords16 DEF D16!LWSP_IMM
<1> QED
  BY <1>3, <1>6

\* The offset of c.ldsp and c.fldsp.
LEMMA CldspIs ==
  ASSUME NEW h \in SUBSET Int, NEW i \in Int
  PROVE  /\ i \in Cldsp(h) <=>
           \/ (i = 3 /\ 5 \in h) \/ (i = 4 /\ 6 \in h) \/ (i = 5 /\ 12 \in h)
           \/ (i = 6 /\ 2 \in h) \/ (i = 7 /\ 3 \in h) \/ (i = 8 /\ 4 \in h)
         /\ i \in D16!LDSP_IMM(h) <=>
           \/ (i = 3 /\ 5 \in h) \/ (i = 4 /\ 6 \in h) \/ (i = 5 /\ 12 \in h)
           \/ (i = 6 /\ 2 \in h) \/ (i = 7 /\ 3 \in h) \/ (i = 8 /\ 4 \in h)
<1>1. i \in Gather(h, 12, <<5>>) <=>
        \/ (i = 5 /\ 12 \in h)
  BY Gather1
<1>2. i \in Gather(h, 6, <<4, 3, 8, 7, 6>>) <=>
        \/ (i = 4 /\ 6 \in h) \/ (i = 3 /\ 5 \in h) \/ (i = 8 /\ 4 \in h)
        \/ (i = 7 /\ 3 \in h) \/ (i = 6 /\ 2 \in h)
  BY Gather5
<1>3. i \in Cldsp(h) <=>
        \/ (i = 3 /\ 5 \in h) \/ (i = 4 /\ 6 \in h) \/ (i = 5 /\ 12 \in h)
        \/ (i = 6 /\ 2 \in h) \/ (i = 7 /\ 3 \in h) \/ (i = 8 /\ 4 \in h)
  BY <1>1, <1>2 DEF Cldsp
<1>4. /\ i \in Shl(BITS(h, 4, 2), 6) <=> i \in 6 .. 8 /\ i - 4 \in h
      /\ i \in Shl(BITS(h, 6, 5), 3) <=> i \in 3 .. 4 /\ i + 2 \in h
  BY RunPiece
<1>5. /\ i \in Shl(BIT(h, 12), 5) <=> i = 5 /\ 12 \in h
  <2>1. \A index \in Nat, m \in Int : i \in Shl(BIT(h, index), m) <=> i = m /\ index \in h
    BY BitPiece, Zenon
  <2> QED
    BY <2>1
<1>6. i \in D16!LDSP_IMM(h) <=>
        \/ (i = 3 /\ 5 \in h) \/ (i = 4 /\ 6 \in h) \/ (i = 5 /\ 12 \in h)
        \/ (i = 6 /\ 2 \in h) \/ (i = 7 /\ 3 \in h) \/ (i = 8 /\ 4 \in h)
  BY <1>4, <1>5, SameWords16 DEF D16!LDSP_IMM
<1> QED
  BY <1>3, <1>6

\* The offset of c.swsp.
LEMMA CswspIs ==
  ASSUME NEW h \in SUBSET Int, NEW i \in Int
  PROVE  /\ i \in Cswsp(h) <=>
           \/ (i = 2 /\ 9 \in h) \/ (i = 3 /\ 10 \in h) \/ (i = 4 /\ 11 \in h)
           \/ (i = 5 /\ 12 \in h) \/ (i = 6 /\ 7 \in h) \/ (i = 7 /\ 8 \in h)
         /\ i \in D16!SWSP_IMM(h) <=>
           \/ (i = 2 /\ 9 \in h) \/ (i = 3 /\ 10 \in h) \/ (i = 4 /\ 11 \in h)
           \/ (i = 5 /\ 12 \in h) \/ (i = 6 /\ 7 \in h) \/ (i = 7 /\ 8 \in h)
<1>1. i \in Gather(h, 12, <<5, 4, 3, 2, 7, 6>>) <=>
        \/ (i = 5 /\ 12 \in h) \/ (i = 4 /\ 11 \in h) \/ (i = 3 /\ 10 \in h)
        \/ (i = 2 /\ 9 \in h) \/ (i = 7 /\ 8 \in h) \/ (i = 6 /\ 7 \in h)
  BY Gather6
<1>2. i \in Cswsp(h) <=>
        \/ (i = 2 /\ 9 \in h) \/ (i = 3 /\ 10 \in h) \/ (i = 4 /\ 11 \in h)
        \/ (i = 5 /\ 12 \in h) \/ (i = 6 /\ 7 \in h) \/ (i = 7 /\ 8 \in h)
  BY <1>1 DEF Cswsp
<1>3. /\ i \in Shl(BITS(h, 8, 7), 6) <=> i \in 6 .. 7 /\ i + 1 \in h
      /\ i \in Shl(BITS(h, 12, 9), 2) <=> i \in 2 .. 5 /\ i + 7 \in h
  BY RunPiece
<1>4. i \in D16!SWSP_IMM(h) <=>
        \/ (i = 2 /\ 9 \in h) \/ (i = 3 /\ 10 \in h) \/ (i = 4 /\ 11 \in h)
        \/ (i = 5 /\ 12 \in h) \/ (i = 6 /\ 7 \in h) \/ (i = 7 /\ 8 \in h)
  BY <1>3, SameWords16 DEF D16!SWSP_IMM
<1> QED
  BY <1>2, <1>4

\* The offset of c.sdsp.
LEMMA CsdspIs ==
  ASSUME NEW h \in SUBSET Int, NEW i \in Int
  PROVE  /\ i \in Csdsp(h) <=>
           \/ (i = 3 /\ 10 \in h) \/ (i = 4 /\ 11 \in h) \/ (i = 5 /\ 12 \in h)
           \/ (i = 6 /\ 7 \in h) \/ (i = 7 /\ 8 \in h) \/ (i = 8 /\ 9 \in h)
         /\ i \in D16!SDSP_IMM(h) <=>
           \/ (i = 3 /\ 10 \in h) \/ (i = 4 /\ 11 \in h) \/ (i = 5 /\ 12 \in h)
           \/ (i = 6 /\ 7 \in h) \/ (i = 7 /\ 8 \in h) \/ (i = 8 /\ 9 \in h)
<1>1. i \in Gather(h, 12, <<5, 4, 3, 8, 7, 6>>) <=>
        \/ (i = 5 /\ 12 \in h) \/ (i = 4 /\ 11 \in h) \/ (i = 3 /\ 10 \in h)
        \/ (i = 8 /\ 9 \in h) \/ (i = 7 /\ 8 \in h) \/ (i = 6 /\ 7 \in h)
  BY Gather6
<1>2. i \in Csdsp(h) <=>
        \/ (i = 3 /\ 10 \in h) \/ (i = 4 /\ 11 \in h) \/ (i = 5 /\ 12 \in h)
        \/ (i = 6 /\ 7 \in h) \/ (i = 7 /\ 8 \in h) \/ (i = 8 /\ 9 \in h)
  BY <1>1 DEF Csdsp
<1>3. /\ i \in Shl(BITS(h, 9, 7), 6) <=> i \in 6 .. 8 /\ i + 1 \in h
      /\ i \in Shl(BITS(h, 12, 10), 3) <=> i \in 3 .. 5 /\ i + 7 \in h
  BY RunPiece
<1>4. i \in D16!SDSP_IMM(h) <=>
        \/ (i = 3 /\ 10 \in h) \/ (i = 4 /\ 11 \in h) \/ (i = 5 /\ 12 \in h)
        \/ (i = 6 /\ 7 \in h) \/ (i = 7 /\ 8 \in h) \/ (i = 8 /\ 9 \in h)
  BY <1>3, SameWords16 DEF D16!SDSP_IMM
<1> QED
  BY <1>2, <1>4

\* The distance of a shift.
LEMMA CuiIs ==
  ASSUME NEW h \in SUBSET Int, NEW i \in Int
  PROVE  /\ i \in Cui(h) <=>
           \/ (i = 0 /\ 2 \in h) \/ (i = 1 /\ 3 \in h) \/ (i = 2 /\ 4 \in h)
           \/ (i = 3 /\ 5 \in h) \/ (i = 4 /\ 6 \in h) \/ (i = 5 /\ 12 \in h)
         /\ i \in D16!UI_IMM(h) <=>
           \/ (i = 0 /\ 2 \in h) \/ (i = 1 /\ 3 \in h) \/ (i = 2 /\ 4 \in h)
           \/ (i = 3 /\ 5 \in h) \/ (i = 4 /\ 6 \in h) \/ (i = 5 /\ 12 \in h)
<1>1. i \in Gather(h, 12, <<5>>) <=>
        \/ (i = 5 /\ 12 \in h)
  BY Gather1
<1>2. i \in Gather(h, 6, Down(4, 0)) <=> i \in 0 .. 4 /\ i + 2 \in h
  BY GatherRun
<1>3. i \in Cui(h) <=>
        \/ (i = 0 /\ 2 \in h) \/ (i = 1 /\ 3 \in h) \/ (i = 2 /\ 4 \in h)
        \/ (i = 3 /\ 5 \in h) \/ (i = 4 /\ 6 \in h) \/ (i = 5 /\ 12 \in h)
  BY <1>1, <1>2 DEF Cui
<1>4. /\ i \in Shl(BIT(h, 12), 5) <=> i = 5 /\ 12 \in h
  <2>1. \A index \in Nat, m \in Int : i \in Shl(BIT(h, index), m) <=> i = m /\ index \in h
    BY BitPiece, Zenon
  <2> QED
    BY <2>1
<1>5. /\ i \in BITS(h, 6, 2) <=> i \in 0 .. 4 /\ i + 2 \in h
  BY FieldPiece
<1>6. i \in D16!UI_IMM(h) <=>
        \/ (i = 0 /\ 2 \in h) \/ (i = 1 /\ 3 \in h) \/ (i = 2 /\ 4 \in h)
        \/ (i = 3 /\ 5 \in h) \/ (i = 4 /\ 6 \in h) \/ (i = 5 /\ 12 \in h)
  BY <1>4, <1>5, SameWords16 DEF D16!UI_IMM
<1> QED
  BY <1>3, <1>6

\* The signed immediate of c.addi, c.addiw, c.li and c.andi.
LEMMA CiIs ==
  ASSUME NEW h \in SUBSET Int, NEW i \in Int
  PROVE  /\ i \in Ci(h) <=>
           \/ (i = 0 /\ 2 \in h) \/ (i = 1 /\ 3 \in h) \/ (i = 2 /\ 4 \in h)
           \/ (i = 3 /\ 5 \in h) \/ (i = 4 /\ 6 \in h) \/ (i = 5 /\ 12 \in h)
           \/ (i \in 6 .. 63 /\ 12 \in h)
         /\ i \in D16!I_IMM(h) <=>
           \/ (i = 0 /\ 2 \in h) \/ (i = 1 /\ 3 \in h) \/ (i = 2 /\ 4 \in h)
           \/ (i = 3 /\ 5 \in h) \/ (i = 4 /\ 6 \in h) \/ (i = 5 /\ 12 \in h)
           \/ (i \in 6 .. 63 /\ 12 \in h)
<1>1. i \in Gather(h, 12, <<5>>) <=>
        \/ (i = 5 /\ 12 \in h)
  BY Gather1
<1>2. i \in Gather(h, 6, Down(4, 0)) <=> i \in 0 .. 4 /\ i + 2 \in h
  BY GatherRun
<1> DEFINE raw == Gather(h, 12, <<5>>) \cup Gather(h, 6, Down(4, 0))
<1>3. i \in raw <=>
        \/ (i = 0 /\ 2 \in h) \/ (i = 1 /\ 3 \in h) \/ (i = 2 /\ 4 \in h)
        \/ (i = 3 /\ 5 \in h) \/ (i = 4 /\ 6 \in h) \/ (i = 5 /\ 12 \in h)
  BY <1>1, <1>2
<1>4. 5 \in raw <=> 12 \in h
  BY Gather1, GatherRun
<1> HIDE DEF raw
<1>5. i \in Signed(raw, 5) <=>
        \/ (i = 0 /\ 2 \in h) \/ (i = 1 /\ 3 \in h) \/ (i = 2 /\ 4 \in h)
        \/ (i = 3 /\ 5 \in h) \/ (i = 4 /\ 6 \in h) \/ (i = 5 /\ 12 \in h)
        \/ (i \in 6 .. 63 /\ 12 \in h)
  BY <1>3, <1>4 DEF Signed
<1>6. i \in Ci(h) <=>
        \/ (i = 0 /\ 2 \in h) \/ (i = 1 /\ 3 \in h) \/ (i = 2 /\ 4 \in h)
        \/ (i = 3 /\ 5 \in h) \/ (i = 4 /\ 6 \in h) \/ (i = 5 /\ 12 \in h)
        \/ (i \in 6 .. 63 /\ 12 \in h)
  BY <1>5 DEF Ci, raw
<1>7. i \in Shl(EXPAND_BIT(h, 12, 59), 5) <=> i \in 5 .. 63 /\ 12 \in h
  <2>1. \A m \in Int, num \in Nat :
          i \in Shl(EXPAND_BIT(h, 12, num), m) <=> i - m \in 0 .. num - 1 /\ 12 \in h
    BY SignPiece, 12 \in Nat, Zenon
  <2>2. i \in Shl(EXPAND_BIT(h, 12, 59), 5) <=> i - 5 \in 0 .. 59 - 1 /\ 12 \in h
    BY <2>1
  <2> QED
    BY <2>2
<1>8. /\ i \in BITS(h, 6, 2) <=> i \in 0 .. 4 /\ i + 2 \in h
  BY FieldPiece
<1>9. i \in D16!I_IMM(h) <=>
        \/ (i = 0 /\ 2 \in h) \/ (i = 1 /\ 3 \in h) \/ (i = 2 /\ 4 \in h)
        \/ (i = 3 /\ 5 \in h) \/ (i = 4 /\ 6 \in h) \/ (i = 5 /\ 12 \in h)
        \/ (i \in 6 .. 63 /\ 12 \in h)
  BY <1>7, <1>8, SameWords16 DEF D16!I_IMM
<1> QED
  BY <1>6, <1>9

\* The immediate of c.addi16sp.
LEMMA C16spIs ==
  ASSUME NEW h \in SUBSET Int, NEW i \in Int
  PROVE  /\ i \in C16sp(h) <=>
           \/ (i = 4 /\ 6 \in h) \/ (i = 5 /\ 2 \in h) \/ (i = 6 /\ 5 \in h)
           \/ (i = 7 /\ 3 \in h) \/ (i = 8 /\ 4 \in h) \/ (i = 9 /\ 12 \in h)
           \/ (i \in 10 .. 63 /\ 12 \in h)
         /\ i \in D16!D_IMM(h) <=>
           \/ (i = 4 /\ 6 \in h) \/ (i = 5 /\ 2 \in h) \/ (i = 6 /\ 5 \in h)
           \/ (i = 7 /\ 3 \in h) \/ (i = 8 /\ 4 \in h) \/ (i = 9 /\ 12 \in h)
           \/ (i \in 10 .. 63 /\ 12 \in h)
<1>1. i \in Gather(h, 12, <<9>>) <=>
        \/ (i = 9 /\ 12 \in h)
  BY Gather1
<1>2. i \in Gather(h, 6, <<4, 6, 8, 7, 5>>) <=>
        \/ (i = 4 /\ 6 \in h) \/ (i = 6 /\ 5 \in h) \/ (i = 8 /\ 4 \in h)
        \/ (i = 7 /\ 3 \in h) \/ (i = 5 /\ 2 \in h)
  BY Gather5
<1> DEFINE raw == Gather(h, 12, <<9>>) \cup Gather(h, 6, <<4, 6, 8, 7, 5>>)
<1>3. i \in raw <=>
        \/ (i = 4 /\ 6 \in h) \/ (i = 5 /\ 2 \in h) \/ (i = 6 /\ 5 \in h)
        \/ (i = 7 /\ 3 \in h) \/ (i = 8 /\ 4 \in h) \/ (i = 9 /\ 12 \in h)
  BY <1>1, <1>2
<1>4. 9 \in raw <=> 12 \in h
  BY Gather1, Gather5
<1> HIDE DEF raw
<1>5. i \in Signed(raw, 9) <=>
        \/ (i = 4 /\ 6 \in h) \/ (i = 5 /\ 2 \in h) \/ (i = 6 /\ 5 \in h)
        \/ (i = 7 /\ 3 \in h) \/ (i = 8 /\ 4 \in h) \/ (i = 9 /\ 12 \in h)
        \/ (i \in 10 .. 63 /\ 12 \in h)
  BY <1>3, <1>4 DEF Signed
<1>6. i \in C16sp(h) <=>
        \/ (i = 4 /\ 6 \in h) \/ (i = 5 /\ 2 \in h) \/ (i = 6 /\ 5 \in h)
        \/ (i = 7 /\ 3 \in h) \/ (i = 8 /\ 4 \in h) \/ (i = 9 /\ 12 \in h)
        \/ (i \in 10 .. 63 /\ 12 \in h)
  BY <1>5 DEF C16sp, raw
<1>7. i \in Shl(EXPAND_BIT(h, 12, 55), 9) <=> i \in 9 .. 63 /\ 12 \in h
  <2>1. \A m \in Int, num \in Nat :
          i \in Shl(EXPAND_BIT(h, 12, num), m) <=> i - m \in 0 .. num - 1 /\ 12 \in h
    BY SignPiece, 12 \in Nat, Zenon
  <2>2. i \in Shl(EXPAND_BIT(h, 12, 55), 9) <=> i - 9 \in 0 .. 55 - 1 /\ 12 \in h
    BY <2>1
  <2> QED
    BY <2>2
<1>8. /\ i \in Shl(BITS(h, 4, 3), 7) <=> i \in 7 .. 8 /\ i - 4 \in h
  BY RunPiece
<1>9. /\ i \in Shl(BIT(h, 5), 6) <=> i = 6 /\ 5 \in h
      /\ i \in Shl(BIT(h, 2), 5) <=> i = 5 /\ 2 \in h
      /\ i \in Shl(BIT(h, 6), 4) <=> i = 4 /\ 6 \in h
  <2>1. \A index \in Nat, m \in Int : i \in Shl(BIT(h, index), m) <=> i = m /\ index \in h
    BY BitPiece, Zenon
  <2> QED
    BY <2>1
<1>10. i \in D16!D_IMM(h) <=>
        \/ (i = 4 /\ 6 \in h) \/ (i = 5 /\ 2 \in h) \/ (i = 6 /\ 5 \in h)
        \/ (i = 7 /\ 3 \in h) \/ (i = 8 /\ 4 \in h) \/ (i = 9 /\ 12 \in h)
        \/ (i \in 10 .. 63 /\ 12 \in h)
  BY <1>7, <1>8, <1>9, SameWords16 DEF D16!D_IMM
<1> QED
  BY <1>6, <1>10

\* The offset of c.j.
LEMMA CjIs ==
  ASSUME NEW h \in SUBSET Int, NEW i \in Int
  PROVE  /\ i \in Cj(h) <=>
           \/ (i = 1 /\ 3 \in h) \/ (i = 2 /\ 4 \in h) \/ (i = 3 /\ 5 \in h)
           \/ (i = 4 /\ 11 \in h) \/ (i = 5 /\ 2 \in h) \/ (i = 6 /\ 7 \in h)
           \/ (i = 7 /\ 6 \in h) \/ (i = 8 /\ 9 \in h) \/ (i = 9 /\ 10 \in h)
           \/ (i = 10 /\ 8 \in h) \/ (i = 11 /\ 12 \in h) \/ (i \in 12 .. 63 /\ 12 \in h)
         /\ i \in D16!J_IMM(h) <=>
           \/ (i = 1 /\ 3 \in h) \/ (i = 2 /\ 4 \in h) \/ (i = 3 /\ 5 \in h)
           \/ (i = 4 /\ 11 \in h) \/ (i = 5 /\ 2 \in h) \/ (i = 6 /\ 7 \in h)
           \/ (i = 7 /\ 6 \in h) \/ (i = 8 /\ 9 \in h) \/ (i = 9 /\ 10 \in h)
           \/ (i = 10 /\ 8 \in h) \/ (i = 11 /\ 12 \in h) \/ (i \in 12 .. 63 /\ 12 \in h)
<1>1. i \in Gather(h, 12, <<11, 4, 9, 8, 10, 6, 7, 3, 2, 1, 5>>) <=>
        \/ (i = 11 /\ 12 \in h) \/ (i = 4 /\ 11 \in h) \/ (i = 9 /\ 10 \in h)
        \/ (i = 8 /\ 9 \in h) \/ (i = 10 /\ 8 \in h) \/ (i = 6 /\ 7 \in h)
        \/ (i = 7 /\ 6 \in h) \/ (i = 3 /\ 5 \in h) \/ (i = 2 /\ 4 \in h)
        \/ (i = 1 /\ 3 \in h) \/ (i = 5 /\ 2 \in h)
  BY Gather11
<1> DEFINE raw == Gather(h, 12, <<11, 4, 9, 8, 10, 6, 7, 3, 2, 1, 5>>)
<1>2. i \in raw <=>
        \/ (i = 1 /\ 3 \in h) \/ (i = 2 /\ 4 \in h) \/ (i = 3 /\ 5 \in h)
        \/ (i = 4 /\ 11 \in h) \/ (i = 5 /\ 2 \in h) \/ (i = 6 /\ 7 \in h)
        \/ (i = 7 /\ 6 \in h) \/ (i = 8 /\ 9 \in h) \/ (i = 9 /\ 10 \in h)
        \/ (i = 10 /\ 8 \in h) \/ (i = 11 /\ 12 \in h)
  BY <1>1
<1>3. 11 \in raw <=> 12 \in h
  BY Gather11
<1> HIDE DEF raw
<1>4. i \in Signed(raw, 11) <=>
        \/ (i = 1 /\ 3 \in h) \/ (i = 2 /\ 4 \in h) \/ (i = 3 /\ 5 \in h)
        \/ (i = 4 /\ 11 \in h) \/ (i = 5 /\ 2 \in h) \/ (i = 6 /\ 7 \in h)
        \/ (i = 7 /\ 6 \in h) \/ (i = 8 /\ 9 \in h) \/ (i = 9 /\ 10 \in h)
        \/ (i = 10 /\ 8 \in h) \/ (i = 11 /\ 12 \in h) \/ (i \in 12 .. 63 /\ 12 \in h)
  BY <1>2, <1>3 DEF Signed
<1>5. i \in Cj(h) <=>
        \/ (i = 1 /\ 3 \in h) \/ (i = 2 /\ 4 \in h) \/ (i = 3 /\ 5 \in h)
        \/ (i = 4 /\ 11 \in h) \/ (i = 5 /\ 2 \in h) \/ (i = 6 /\ 7 \in h)
        \/ (i = 7 /\ 6 \in h) \/ (i = 8 /\ 9 \in h) \/ (i = 9 /\ 10 \in h)
        \/ (i = 10 /\ 8 \in h) \/ (i = 11 /\ 12 \in h) \/ (i \in 12 .. 63 /\ 12 \in h)
  BY <1>4 DEF Cj, raw
<1>6. i \in Shl(EXPAND_BIT(h, 12, 53), 11) <=> i \in 11 .. 63 /\ 12 \in h
  <2>1. \A m \in Int, num \in Nat :
          i \in Shl(EXPAND_BIT(h, 12, num), m) <=> i - m \in 0 .. num - 1 /\ 12 \in h
    BY SignPiece, 12 \in Nat, Zenon
  <2>2. i \in Shl(EXPAND_BIT(h, 12, 53), 11) <=> i - 11 \in 0 .. 53 - 1 /\ 12 \in h
    BY <2>1
  <2> QED
    BY <2>2
<1>7. /\ i \in Shl(BITS(h, 10, 9), 8) <=> i \in 8 .. 9 /\ i + 1 \in h
      /\ i \in Shl(BITS(h, 5, 3), 1) <=> i \in 1 .. 3 /\ i + 2 \in h
  BY RunPiece
<1>8. /\ i \in Shl(BIT(h, 8), 10) <=> i = 10 /\ 8 \in h
      /\ i \in Shl(BIT(h, 6), 7) <=> i = 7 /\ 6 \in h
      /\ i \in Shl(BIT(h, 7), 6) <=> i = 6 /\ 7 \in h
      /\ i \in Shl(BIT(h, 2), 5) <=> i = 5 /\ 2 \in h
      /\ i \in Shl(BIT(h, 11), 4) <=> i = 4 /\ 11 \in h
  <2>1. \A index \in Nat, m \in Int : i \in Shl(BIT(h, index), m) <=> i = m /\ index \in h
    BY BitPiece, Zenon
  <2> QED
    BY <2>1
<1>9. i \in D16!J_IMM(h) <=>
        \/ (i = 1 /\ 3 \in h) \/ (i = 2 /\ 4 \in h) \/ (i = 3 /\ 5 \in h)
        \/ (i = 4 /\ 11 \in h) \/ (i = 5 /\ 2 \in h) \/ (i = 6 /\ 7 \in h)
        \/ (i = 7 /\ 6 \in h) \/ (i = 8 /\ 9 \in h) \/ (i = 9 /\ 10 \in h)
        \/ (i = 10 /\ 8 \in h) \/ (i = 11 /\ 12 \in h) \/ (i \in 12 .. 63 /\ 12 \in h)
  BY <1>6, <1>7, <1>8, SameWords16 DEF D16!J_IMM
<1> QED
  BY <1>5, <1>9

\* The offset of c.beqz and c.bnez.
LEMMA CbIs ==
  ASSUME NEW h \in SUBSET Int, NEW i \in Int
  PROVE  /\ i \in Cb(h) <=>
           \/ (i = 1 /\ 3 \in h) \/ (i = 2 /\ 4 \in h) \/ (i = 3 /\ 10 \in h)
           \/ (i = 4 /\ 11 \in h) \/ (i = 5 /\ 2 \in h) \/ (i = 6 /\ 5 \in h)
           \/ (i = 7 /\ 6 \in h) \/ (i = 8 /\ 12 \in h) \/ (i \in 9 .. 63 /\ 12 \in h)
         /\ i \in D16!B_IMM(h) <=>
           \/ (i = 1 /\ 3 \in h) \/ (i = 2 /\ 4 \in h) \/ (i = 3 /\ 10 \in h)
           \/ (i = 4 /\ 11 \in h) \/ (i = 5 /\ 2 \in h) \/ (i = 6 /\ 5 \in h)
           \/ (i = 7 /\ 6 \in h) \/ (i = 8 /\ 12 \in h) \/ (i \in 9 .. 63 /\ 12 \in h)
<1>1. i \in Gather(h, 12, <<8, 4, 3>>) <=>
        \/ (i = 8 /\ 12 \in h) \/ (i = 4 /\ 11 \in h) \/ (i = 3 /\ 10 \in h)
  BY Gather3
<1>2. i \in Gather(h, 6, <<7, 6, 2, 1, 5>>) <=>
        \/ (i = 7 /\ 6 \in h) \/ (i = 6 /\ 5 \in h) \/ (i = 2 /\ 4 \in h)
        \/ (i = 1 /\ 3 \in h) \/ (i = 5 /\ 2 \in h)
  BY Gather5
<1> DEFINE raw == Gather(h, 12, <<8, 4, 3>>) \cup Gather(h, 6, <<7, 6, 2, 1, 5>>)
<1>3. i \in raw <=>
        \/ (i = 1 /\ 3 \in h) \/ (i = 2 /\ 4 \in h) \/ (i = 3 /\ 10 \in h)
        \/ (i = 4 /\ 11 \in h) \/ (i = 5 /\ 2 \in h) \/ (i = 6 /\ 5 \in h)
        \/ (i = 7 /\ 6 \in h) \/ (i = 8 /\ 12 \in h)
  BY <1>1, <1>2
<1>4. 8 \in raw <=> 12 \in h
  BY Gather3, Gather5
<1> HIDE DEF raw
<1>5. i \in Signed(raw, 8) <=>
        \/ (i = 1 /\ 3 \in h) \/ (i = 2 /\ 4 \in h) \/ (i = 3 /\ 10 \in h)
        \/ (i = 4 /\ 11 \in h) \/ (i = 5 /\ 2 \in h) \/ (i = 6 /\ 5 \in h)
        \/ (i = 7 /\ 6 \in h) \/ (i = 8 /\ 12 \in h) \/ (i \in 9 .. 63 /\ 12 \in h)
  BY <1>3, <1>4 DEF Signed
<1>6. i \in Cb(h) <=>
        \/ (i = 1 /\ 3 \in h) \/ (i = 2 /\ 4 \in h) \/ (i = 3 /\ 10 \in h)
        \/ (i = 4 /\ 11 \in h) \/ (i = 5 /\ 2 \in h) \/ (i = 6 /\ 5 \in h)
        \/ (i = 7 /\ 6 \in h) \/ (i = 8 /\ 12 \in h) \/ (i \in 9 .. 63 /\ 12 \in h)
  BY <1>5 DEF Cb, raw
<1>7. i \in Shl(EXPAND_BIT(h, 12, 56), 8) <=> i \in 8 .. 63 /\ 12 \in h
  <2>1. \A m \in Int, num \in Nat :
          i \in Shl(EXPAND_BIT(h, 12, num), m) <=> i - m \in 0 .. num - 1 /\ 12 \in h
    BY SignPiece, 12 \in Nat, Zenon
  <2>2. i \in Shl(EXPAND_BIT(h, 12, 56), 8) <=> i - 8 \in 0 .. 56 - 1 /\ 12 \in h
    BY <2>1
  <2> QED
    BY <2>2
<1>8. /\ i \in Shl(BITS(h, 6, 5), 6) <=> i \in 6 .. 7 /\ i - 1 \in h
      /\ i \in Shl(BITS(h, 11, 10), 3) <=> i \in 3 .. 4 /\ i + 7 \in h
      /\ i \in Shl(BITS(h, 4, 3), 1) <=> i \in 1 .. 2 /\ i + 2 \in h
  BY RunPiece
<1>9. /\ i \in Shl(BIT(h, 2), 5) <=> i = 5 /\ 2 \in h
  <2>1. \A index \in Nat, m \in Int : i \in Shl(BIT(h, index), m) <=> i = m /\ index \in h
    BY BitPiece, Zenon
  <2> QED
    BY <2>1
<1>10. i \in D16!B_IMM(h) <=>
        \/ (i = 1 /\ 3 \in h) \/ (i = 2 /\ 4 \in h) \/ (i = 3 /\ 10 \in h)
        \/ (i = 4 /\ 11 \in h) \/ (i = 5 /\ 2 \in h) \/ (i = 6 /\ 5 \in h)
        \/ (i = 7 /\ 6 \in h) \/ (i = 8 /\ 12 \in h) \/ (i \in 9 .. 63 /\ 12 \in h)
  BY <1>7, <1>8, <1>9, SameWords16 DEF D16!B_IMM
<1> QED
  BY <1>6, <1>10

\* The immediate of c.lui.
LEMMA UpperIs ==
  ASSUME NEW h \in SUBSET Int, NEW i \in Int
  PROVE  /\ i \in Clui(h) <=> \/ i \in 17 .. 63 /\ 12 \in h
                              \/ i \in 12 .. 16 /\ i - 10 \in h
         /\ i \in {j \in D16!Shl(D16!I_IMM(h), 12) : j < 64} <=>
              \/ i \in 17 .. 63 /\ 12 \in h
              \/ i \in 12 .. 16 /\ i - 10 \in h
<1>1. i \in Gather(h, 12, <<17>>) <=> (i = 17 /\ 12 \in h)
  BY Gather1
<1>2. i \in Gather(h, 6, <<16, 15, 14, 13, 12>>) <=>
        \/ (i = 16 /\ 6 \in h) \/ (i = 15 /\ 5 \in h) \/ (i = 14 /\ 4 \in h)
        \/ (i = 13 /\ 3 \in h) \/ (i = 12 /\ 2 \in h)
  BY Gather5
<1> DEFINE raw == Gather(h, 12, <<17>>) \cup Gather(h, 6, <<16, 15, 14, 13, 12>>)
<1>3. i \in raw <=> \/ i = 17 /\ 12 \in h
                    \/ i \in 12 .. 16 /\ i - 10 \in h
  BY <1>1, <1>2
<1>4. 17 \in raw <=> 12 \in h
  BY Gather1, Gather5
<1> HIDE DEF raw
<1>5. i \in Signed(raw, 17) <=> \/ i \in 17 .. 63 /\ 12 \in h
                                \/ i \in 12 .. 16 /\ i - 10 \in h
  BY <1>3, <1>4 DEF Signed
<1>6. i \in Clui(h) <=> \/ i \in 17 .. 63 /\ 12 \in h
                        \/ i \in 12 .. 16 /\ i - 10 \in h
  BY <1>5 DEF Clui, raw
<1> DEFINE imm == D16!I_IMM(h)
<1>7. \A j \in Int : j \in imm <=> \/ (j = 0 /\ 2 \in h) \/ (j = 1 /\ 3 \in h)
           \/ (j = 2 /\ 4 \in h) \/ (j = 3 /\ 5 \in h) \/ (j = 4 /\ 6 \in h)
           \/ (j = 5 /\ 12 \in h) \/ (j \in 6 .. 63 /\ 12 \in h)
  BY CiIs
<1>8. imm \in SUBSET Int
  <2>1. /\ Shl(EXPAND_BIT(h, 12, 59), 5) \subseteq Int /\ BITS(h, 6, 2) \subseteq Int
    BY DEF Shl, EXPAND_BIT, BITS
  <2> QED
    BY <2>1, SameWords16 DEF D16!I_IMM
<1> HIDE DEF imm
<1>9. i \in Shl(imm, 12) <=> i - 12 \in imm
  BY <1>8, ShlIs
<1>10. i \in Shl(imm, 12) /\ i < 64 <=> \/ i \in 17 .. 63 /\ 12 \in h
                                        \/ i \in 12 .. 16 /\ i - 10 \in h
  BY <1>7, <1>9
<1> QED
  BY <1>6, <1>10, SameWords16 DEF imm

\* Two sets of bits of which no bit is outside the integers.
LEMMA CompressedInt ==
  ASSUME NEW h \in SUBSET Int
  PROVE  /\ Ciw(h) \subseteq Int /\ D16!N_IMM(h) \subseteq Int
         /\ Clw(h) \subseteq Int /\ D16!U_IMM(h) \subseteq Int
         /\ Cld(h) \subseteq Int /\ D16!U_IMM_D(h) \subseteq Int
         /\ Clwsp(h) \subseteq Int /\ D16!LWSP_IMM(h) \subseteq Int
         /\ Cldsp(h) \subseteq Int /\ D16!LDSP_IMM(h) \subseteq Int
         /\ Cswsp(h) \subseteq Int /\ D16!SWSP_IMM(h) \subseteq Int
         /\ Csdsp(h) \subseteq Int /\ D16!SDSP_IMM(h) \subseteq Int
         /\ Cui(h) \subseteq Int /\ D16!UI_IMM(h) \subseteq Int
         /\ Ci(h) \subseteq Int /\ D16!I_IMM(h) \subseteq Int
         /\ C16sp(h) \subseteq Int /\ D16!D_IMM(h) \subseteq Int
         /\ Cj(h) \subseteq Int /\ D16!J_IMM(h) \subseteq Int
         /\ Cb(h) \subseteq Int /\ D16!B_IMM(h) \subseteq Int
         /\ Clui(h) \subseteq Int /\ D16!Shl(D16!I_IMM(h), 12) \subseteq Int
<1>1. ASSUME NEW hi \in Int, NEW lo \in Int PROVE BITS(h, hi, lo) \in SUBSET Int
  BY DEF BITS
<1>2. ASSUME NEW hi \in Int, NEW num \in Int PROVE EXPAND_BIT(h, hi, num) \in SUBSET Int
  BY DEF EXPAND_BIT
<1>3. ASSUME NEW x \in SUBSET Int, NEW n \in Int PROVE Shl(x, n) \in SUBSET Int
  BY DEF Shl
<1>4. ASSUME NEW x \in SUBSET Int, NEW n \in Int PROVE Signed(x, n) \in SUBSET Int
  BY DEF Signed
<1>5. Gather(h, 6, Down(4, 0)) \subseteq Int
  BY GatherInt
<1>6. Ciw(h) \subseteq Int
  BY Gather8 DEF Ciw
<1>7. Clw(h) \subseteq Int
  BY Gather3, Gather2 DEF Clw
<1>8. Cld(h) \subseteq Int
  BY Gather3, Gather2 DEF Cld
<1>9. Clwsp(h) \subseteq Int
  BY Gather1, Gather5 DEF Clwsp
<1>10. Cldsp(h) \subseteq Int
  BY Gather1, Gather5 DEF Cldsp
<1>11. Cswsp(h) \subseteq Int
  BY Gather6 DEF Cswsp
<1>12. Csdsp(h) \subseteq Int
  BY Gather6 DEF Csdsp
<1>13. Cui(h) \subseteq Int
  BY Gather1, <1>5 DEF Cui
<1>14. Ci(h) \subseteq Int
  <2> DEFINE raw == Gather(h, 12, <<5>>) \cup Gather(h, 6, Down(4, 0))
  <2>1. raw \in SUBSET Int
    BY Gather1, <1>5
  <2> HIDE DEF raw
  <2>2. Signed(raw, 5) \in SUBSET Int
    BY <1>4, <2>1
  <2> QED
    BY <2>2 DEF Ci, raw
<1>15. C16sp(h) \subseteq Int
  <2> DEFINE raw == Gather(h, 12, <<9>>) \cup Gather(h, 6, <<4, 6, 8, 7, 5>>)
  <2>1. raw \in SUBSET Int
    BY Gather1, Gather5
  <2> HIDE DEF raw
  <2>2. Signed(raw, 9) \in SUBSET Int
    BY <1>4, <2>1
  <2> QED
    BY <2>2 DEF C16sp, raw
<1>16. Cj(h) \subseteq Int
  <2> DEFINE raw == Gather(h, 12, <<11, 4, 9, 8, 10, 6, 7, 3, 2, 1, 5>>)
  <2>1. raw \in SUBSET Int
    BY Gather11
  <2> HIDE DEF raw
  <2>2. Signed(raw, 11) \in SUBSET Int
    BY <1>4, <2>1
  <2> QED
    BY <2>2 DEF Cj, raw
<1>17. Cb(h) \subseteq Int
  <2> DEFINE raw == Gather(h, 12, <<8, 4, 3>>) \cup Gather(h, 6, <<7, 6, 2, 1, 5>>)
  <2>1. raw \in SUBSET Int
    BY Gather3, Gather5
  <2> HIDE DEF raw
  <2>2. Signed(raw, 8) \in SUBSET Int
    BY <1>4, <2>1
  <2> QED
    BY <2>2 DEF Cb, raw
<1>18. Clui(h) \subseteq Int
  <2> DEFINE raw == Gather(h, 12, <<17>>) \cup Gather(h, 6, <<16, 15, 14, 13, 12>>)
  <2>1. raw \in SUBSET Int
    BY Gather1, Gather5
  <2> HIDE DEF raw
  <2>2. Signed(raw, 17) \in SUBSET Int
    BY <1>4, <2>1
  <2> QED
    BY <2>2 DEF Clui, raw
<1>19. /\ D16!N_IMM(h) \subseteq Int
      /\ D16!U_IMM(h) \subseteq Int
      /\ D16!U_IMM_D(h) \subseteq Int
      /\ D16!LWSP_IMM(h) \subseteq Int
      /\ D16!LDSP_IMM(h) \subseteq Int
      /\ D16!SWSP_IMM(h) \subseteq Int
      /\ D16!SDSP_IMM(h) \subseteq Int
      /\ D16!UI_IMM(h) \subseteq Int
      /\ D16!I_IMM(h) \subseteq Int
      /\ D16!D_IMM(h) \subseteq Int
      /\ D16!J_IMM(h) \subseteq Int
      /\ D16!B_IMM(h) \subseteq Int
  BY <1>1, <1>2, <1>3, SameWords16
     DEF BIT, D16!N_IMM, D16!U_IMM, D16!U_IMM_D, D16!LWSP_IMM, D16!LDSP_IMM, D16!SWSP_IMM,
         D16!SDSP_IMM, D16!UI_IMM, D16!I_IMM, D16!D_IMM, D16!J_IMM, D16!B_IMM
<1>20. D16!Shl(D16!I_IMM(h), 12) \subseteq Int
  BY <1>3, <1>19, SameWords16
<1> QED
  BY <1>6, <1>7, <1>8, <1>9, <1>10, <1>11, <1>12, <1>13, <1>14, <1>15, <1>16, <1>17, <1>18, <1>19, <1>20

\* The two decodings of each immediate agree.
LEMMA CompressedImmediates ==
  ASSUME NEW h \in SUBSET Int
  PROVE  /\ D16!N_IMM(h) = Ciw(h)
         /\ D16!U_IMM(h) = Clw(h)
         /\ D16!U_IMM_D(h) = Cld(h)
         /\ D16!LWSP_IMM(h) = Clwsp(h)
         /\ D16!LDSP_IMM(h) = Cldsp(h)
         /\ D16!SWSP_IMM(h) = Cswsp(h)
         /\ D16!SDSP_IMM(h) = Csdsp(h)
         /\ D16!UI_IMM(h) = Cui(h)
         /\ D16!I_IMM(h) = Ci(h)
         /\ D16!D_IMM(h) = C16sp(h)
         /\ D16!J_IMM(h) = Cj(h)
         /\ D16!B_IMM(h) = Cb(h)
         /\ {j \in D16!Shl(D16!I_IMM(h), 12) : j < 64} = Clui(h)
<1>1. D16!N_IMM(h) = Ciw(h)
  <2>1. \A i \in Int : i \in D16!N_IMM(h) <=> i \in Ciw(h)
    BY CiwIs
  <2> QED
    BY <2>1, CompressedInt
<1>2. D16!U_IMM(h) = Clw(h)
  <2>1. \A i \in Int : i \in D16!U_IMM(h) <=> i \in Clw(h)
    BY ClwIs
  <2> QED
    BY <2>1, CompressedInt
<1>3. D16!U_IMM_D(h) = Cld(h)
  <2>1. \A i \in Int : i \in D16!U_IMM_D(h) <=> i \in Cld(h)
    BY CldIs
  <2> QED
    BY <2>1, CompressedInt
<1>4. D16!LWSP_IMM(h) = Clwsp(h)
  <2>1. \A i \in Int : i \in D16!LWSP_IMM(h) <=> i \in Clwsp(h)
    BY ClwspIs
  <2> QED
    BY <2>1, CompressedInt
<1>5. D16!LDSP_IMM(h) = Cldsp(h)
  <2>1. \A i \in Int : i \in D16!LDSP_IMM(h) <=> i \in Cldsp(h)
    BY CldspIs
  <2> QED
    BY <2>1, CompressedInt
<1>6. D16!SWSP_IMM(h) = Cswsp(h)
  <2>1. \A i \in Int : i \in D16!SWSP_IMM(h) <=> i \in Cswsp(h)
    BY CswspIs
  <2> QED
    BY <2>1, CompressedInt
<1>7. D16!SDSP_IMM(h) = Csdsp(h)
  <2>1. \A i \in Int : i \in D16!SDSP_IMM(h) <=> i \in Csdsp(h)
    BY CsdspIs
  <2> QED
    BY <2>1, CompressedInt
<1>8. D16!UI_IMM(h) = Cui(h)
  <2>1. \A i \in Int : i \in D16!UI_IMM(h) <=> i \in Cui(h)
    BY CuiIs
  <2> QED
    BY <2>1, CompressedInt
<1>9. D16!I_IMM(h) = Ci(h)
  <2>1. \A i \in Int : i \in D16!I_IMM(h) <=> i \in Ci(h)
    BY CiIs
  <2> QED
    BY <2>1, CompressedInt
<1>10. D16!D_IMM(h) = C16sp(h)
  <2>1. \A i \in Int : i \in D16!D_IMM(h) <=> i \in C16sp(h)
    BY C16spIs
  <2> QED
    BY <2>1, CompressedInt
<1>11. D16!J_IMM(h) = Cj(h)
  <2>1. \A i \in Int : i \in D16!J_IMM(h) <=> i \in Cj(h)
    BY CjIs
  <2> QED
    BY <2>1, CompressedInt
<1>12. D16!B_IMM(h) = Cb(h)
  <2>1. \A i \in Int : i \in D16!B_IMM(h) <=> i \in Cb(h)
    BY CbIs
  <2> QED
    BY <2>1, CompressedInt
<1>13. {j \in D16!Shl(D16!I_IMM(h), 12) : j < 64} = Clui(h)
  <2>1. \A i \in Int : i \in {j \in D16!Shl(D16!I_IMM(h), 12) : j < 64} <=> i \in Clui(h)
    BY UpperIs
  <2> QED
    BY <2>1, CompressedInt
<1> QED
  BY <1>1, <1>2, <1>3, <1>4, <1>5, <1>6, <1>7, <1>8, <1>9, <1>10, <1>11, <1>12, <1>13

\* An immediate that a format can hold.
Holds(f, imm) == \E bits \in SUBSET ImmRange(f) : imm = Signed(bits, Sign(f))

\* A way to see that a format can hold an immediate: the bits that it has no place
\* for repeat the sign.
LEMMA HoldsIf ==
  ASSUME NEW f \in {"I", "S", "B", "U", "J"}, NEW imm \in SUBSET Int,
         \A i \in imm : i \in ImmRange(f) \cup (Sign(f) .. 63),
         \A i \in Sign(f) .. 63 : i \in imm <=> Sign(f) \in imm
  PROVE  Holds(f, imm)
<1> DEFINE bits == imm \cap ImmRange(f)
<1>1. /\ Sign(f) \in Int /\ ImmRange(f) \subseteq Int /\ Sign(f) \in ImmRange(f)
      /\ Sign(f) <= 63
  BY DEF Sign, ImmRange
<1>2. imm = Signed(bits, Sign(f))
  BY <1>1 DEF Signed
<1> QED
  BY <1>2 DEF Holds

\* The formats can hold the immediates of the compressed instructions.
LEMMA HoldsCompressed ==
  ASSUME NEW h \in SUBSET Int
  PROVE  /\ Holds("I", Ciw(h)) /\ Holds("I", Ci(h)) /\ Holds("I", C16sp(h)) /\ Holds("I", {})
         /\ Holds("I", Clw(h)) /\ Holds("I", Cld(h)) /\ Holds("I", Clwsp(h)) /\ Holds("I", Cldsp(h))
         /\ Holds("S", Clw(h)) /\ Holds("S", Cld(h)) /\ Holds("S", Cswsp(h)) /\ Holds("S", Csdsp(h))
         /\ Holds("H", Cui(h)) /\ Holds("U", Clui(h)) /\ Holds("J", Cj(h)) /\ Holds("B", Cb(h))
<1>1. ASSUME NEW imm \in SUBSET (0 .. 10), NEW f \in {"I", "S"} PROVE Holds(f, imm)
  BY HoldsIf DEF Sign, ImmRange
<1>2. Ciw(h) \in SUBSET (0 .. 10)
  BY CiwIs, CompressedInt
<1>3. Clw(h) \in SUBSET (0 .. 10) /\ Cld(h) \in SUBSET (0 .. 10)
  BY ClwIs, CldIs, CompressedInt
<1>4. Clwsp(h) \in SUBSET (0 .. 10) /\ Cldsp(h) \in SUBSET (0 .. 10)
  BY ClwspIs, CldspIs, CompressedInt
<1>5. Cswsp(h) \in SUBSET (0 .. 10) /\ Csdsp(h) \in SUBSET (0 .. 10)
  BY CswspIs, CsdspIs, CompressedInt
<1>6. Holds("I", Ci(h))
  <2>1. Ci(h) \in SUBSET Int /\ \A i \in Ci(h) : i \in 0 .. 63
    BY CiIs, CompressedInt
  <2>2. \A i \in 6 .. 63 : i \in Ci(h) <=> 12 \in h
    BY CiIs
  <2>3. /\ \A i \in Ci(h) : i \in (0 .. 11) \cup (11 .. 63)
        /\ \A i \in 11 .. 63 : i \in Ci(h) <=> 11 \in Ci(h)
    BY <2>1, <2>2
  <2> QED
    BY <2>1, <2>3, HoldsIf DEF Sign, ImmRange
<1>7. Holds("I", C16sp(h))
  <2>1. C16sp(h) \in SUBSET Int /\ \A i \in C16sp(h) : i \in 0 .. 63
    BY C16spIs, CompressedInt
  <2>2. \A i \in 10 .. 63 : i \in C16sp(h) <=> 12 \in h
    BY C16spIs
  <2>3. /\ \A i \in C16sp(h) : i \in (0 .. 11) \cup (11 .. 63)
        /\ \A i \in 11 .. 63 : i \in C16sp(h) <=> 11 \in C16sp(h)
    BY <2>1, <2>2
  <2> QED
    BY <2>1, <2>3, HoldsIf DEF Sign, ImmRange
<1>8. Holds("J", Cj(h))
  <2>1. Cj(h) \in SUBSET Int /\ \A i \in Cj(h) : i \in 1 .. 63
    BY CjIs, CompressedInt
  <2>2. \A i \in 12 .. 63 : i \in Cj(h) <=> 12 \in h
    BY CjIs
  <2>3. /\ \A i \in Cj(h) : i \in (1 .. 20) \cup (20 .. 63)
        /\ \A i \in 20 .. 63 : i \in Cj(h) <=> 20 \in Cj(h)
    BY <2>1, <2>2
  <2> QED
    BY <2>1, <2>3, HoldsIf DEF Sign, ImmRange
<1>9. Holds("B", Cb(h))
  <2>1. Cb(h) \in SUBSET Int /\ \A i \in Cb(h) : i \in 1 .. 63
    BY CbIs, CompressedInt
  <2>2. \A i \in 9 .. 63 : i \in Cb(h) <=> 12 \in h
    BY CbIs
  <2>3. /\ \A i \in Cb(h) : i \in (1 .. 12) \cup (12 .. 63)
        /\ \A i \in 12 .. 63 : i \in Cb(h) <=> 12 \in Cb(h)
    BY <2>1, <2>2
  <2> QED
    BY <2>1, <2>3, HoldsIf DEF Sign, ImmRange
<1>10. Holds("U", Clui(h))
  <2>1. Clui(h) \in SUBSET Int /\ \A i \in Clui(h) : i \in 12 .. 63
    BY UpperIs, CompressedInt
  <2>2. \A i \in 17 .. 63 : i \in Clui(h) <=> 12 \in h
    BY UpperIs
  <2>3. /\ \A i \in Clui(h) : i \in (12 .. 31) \cup (31 .. 63)
        /\ \A i \in 31 .. 63 : i \in Clui(h) <=> 31 \in Clui(h)
    BY <2>1, <2>2
  <2> QED
    BY <2>1, <2>3, HoldsIf DEF Sign, ImmRange
<1>11. Holds("H", Cui(h))
  <2>1. Cui(h) \in SUBSET (0 .. 5)
    BY CuiIs, CompressedInt
  <2>2. Signed(Cui(h), 63) = Cui(h)
    BY <2>1 DEF Signed
  <2> QED
    BY <2>1, <2>2 DEF Holds, Sign, ImmRange
<1> QED
  BY <1>1, <1>2, <1>3, <1>4, <1>5, <1>6, <1>7, <1>8, <1>9, <1>10, <1>11

-----------------------------------------------------------------------------
(* What dec16 makes of each compressed instruction.                        *)

\* The operations that have a compressed form.
LEMMA CompressedFormats ==
  /\ {"ADDI", "ADDIW", "LW", "LD", "FLD", "SW", "SD", "FSD", "SLLI", "SRLI", "SRAI", "ANDI",
      "LUI", "JAL", "JALR", "BEQ", "BNE", "ADD", "SUB", "XOR", "OR", "AND", "ADDW", "SUBW",
      "EBREAK"} \subseteq Operations
  /\ \A op \in {"ADDI", "ADDIW", "LW", "LD", "FLD", "ANDI", "JALR"} : Format(op) = "I"
  /\ \A op \in {"SW", "SD", "FSD"} : Format(op) = "S"
  /\ \A op \in {"SLLI", "SRLI", "SRAI"} : Format(op) = "H"
  /\ \A op \in {"ADD", "SUB", "XOR", "OR", "AND", "ADDW", "SUBW"} : Format(op) = "R"
  /\ \A op \in {"BEQ", "BNE"} : Format(op) = "B"
  /\ Format("LUI") = "U" /\ Format("JAL") = "J" /\ Format("EBREAK") = "P"
<1>1. {"ADDI", "ADDIW", "LW", "LD", "FLD", "SW", "SD", "FSD", "SLLI", "SRLI", "SRAI", "ANDI",
       "LUI", "JAL", "JALR", "BEQ", "BNE", "ADD", "SUB", "XOR", "OR", "AND", "ADDW", "SUBW",
       "EBREAK"} \subseteq Operations
  BY OperationsAre
     DEF ImmediateOps, ImmediateWOps, LoadOps, LoadFpOps, StoreOps, StoreFpOps, ShiftOps,
         UpperOps, BranchOps, RegisterOps, RegisterWOps, SystemOps
<1>2. \A op \in {"ADDI", "ADDIW", "LW", "LD", "FLD", "ANDI", "JALR"} : Format(op) = "I"
  BY ImmediateEntries, ImmediateWEntries, LoadEntries, LoadFpEntries, UpperEntries DEF Listed
<1>3. \A op \in {"SW", "SD", "FSD"} : Format(op) = "S"
  BY StoreEntries, StoreFpEntries DEF Listed
<1>4. \A op \in {"SLLI", "SRLI", "SRAI"} : Format(op) = "H"
  BY ShiftEntries DEF Listed
<1>5. \A op \in {"ADD", "SUB", "XOR", "OR", "AND", "ADDW", "SUBW"} : Format(op) = "R"
  BY RegisterEntries, RegisterWEntries DEF Listed
<1>6. /\ \A op \in {"BEQ", "BNE"} : Format(op) = "B"
      /\ Format("LUI") = "U" /\ Format("JAL") = "J" /\ Format("EBREAK") = "P"
  BY BranchEntries, UpperEntries, SystemEntries DEF Listed
<1> QED
  BY <1>1, <1>2, <1>3, <1>4, <1>5, <1>6

\* A way to see that an instruction without a csr can be encoded.
LEMMA LegalIf ==
  ASSUME NEW op \in Operations, NEW rd \in 0 .. 31, NEW rs1 \in 0 .. 31, NEW rs2 \in 0 .. 31,
         NEW imm, HasRd(Format(op)) \/ rd = 0, HasImm(Format(op)) => Holds(Format(op), imm)
  PROVE  Legal(Decoded(op, rd, rs1, rs2, imm))
<1> DEFINE d == Decoded(op, rd, rs1, rs2, imm)
<1>1. /\ d.op = op /\ d.rd = rd /\ d.rs1 = rs1 /\ d.rs2 = rs2 /\ d.imm = imm /\ d.csr_addr = {}
  BY DEF Decoded
<1> HIDE DEF d
<1>2. Legal(d)
  BY <1>1 DEF Legal, Encodable, Holds
<1> QED
  BY <1>2 DEF d

\* Three registers.
LEMMA Numbers == 0 \in 0 .. 31 /\ 1 \in 0 .. 31 /\ 2 \in 0 .. 31
OBVIOUS

\* Bad is a panic.
LEMMA BadIs == Bad.op = "panic"
BY DEF Bad, Decoded

\* Loads, stores and c.addi4spn.
LEMMA Quadrant0Is ==
  ASSUME NEW h \in SUBSET Int, Expansion0(h).op # "panic"
  PROVE  D16!Quadrant0(h) = Expansion0(h) /\ Legal(Expansion0(h))
<1> DEFINE f == Func(h)  hi == Short(h)  lo == Short2(h)
<1>1. /\ D16!funct3(h) = f /\ f \in 0 .. 7 /\ D16!High(h) = hi /\ D16!Low(h) = lo
      /\ hi \in 0 .. 31 /\ lo \in 0 .. 31
  BY Registers16
<1>2. /\ D16!N_IMM(h) = Ciw(h) /\ D16!U_IMM(h) = Clw(h) /\ D16!U_IMM_D(h) = Cld(h)
  BY CompressedImmediates
<1>3. /\ Holds("I", Ciw(h)) /\ Holds("I", Clw(h)) /\ Holds("I", Cld(h))
      /\ Holds("S", Clw(h)) /\ Holds("S", Cld(h))
  BY HoldsCompressed
<1> HIDE DEF f, hi, lo
<1>4. CASE f = 0
  <2>1. Expansion0(h) = Decoded("ADDI", lo, 2, 0, Ciw(h))
    BY <1>4, BadIs DEF Expansion0, If, f, lo
  <2>2. D16!Quadrant0(h) = Decoded("ADDI", lo, 2, 0, Ciw(h))
    BY <1>1, <1>2, <1>4, SameWords16 DEF D16!Quadrant0, D16!sp
  <2>3. "ADDI" \in Operations /\ HasRd(Format("ADDI")) /\ Holds(Format("ADDI"), Ciw(h))
    BY <1>3, CompressedFormats DEF HasRd
  <2>4. Legal(Decoded("ADDI", lo, 2, 0, Ciw(h)))
    BY <1>1, <2>3, Numbers, LegalIf, Zenon
  <2> QED
    BY <2>1, <2>2, <2>4
<1>5. CASE f \in {1, 2, 3}
  <2> DEFINE op == CASE f = 1 -> "FLD" [] f = 2 -> "LW" [] f = 3 -> "LD"
             imm == IF f = 2 THEN Clw(h) ELSE Cld(h)
  <2>1. Expansion0(h) = Decoded(op, lo, hi, 0, imm)
    BY <1>5 DEF Expansion0, f, lo, hi
  <2>2. D16!Quadrant0(h) = Decoded(op, lo, hi, 0, imm)
    BY <1>1, <1>2, <1>5, SameWords16 DEF D16!Quadrant0, D16!Load
  <2>3. op \in Operations /\ HasRd(Format(op)) /\ Holds(Format(op), imm)
    BY <1>3, <1>5, CompressedFormats DEF HasRd
  <2> HIDE DEF op, imm
  <2>4. Legal(Decoded(op, lo, hi, 0, imm))
    BY <1>1, <2>3, Numbers, LegalIf, Zenon
  <2> QED
    BY <2>1, <2>2, <2>4
<1>6. CASE f \in {5, 6, 7}
  <2> DEFINE op == CASE f = 5 -> "FSD" [] f = 6 -> "SW" [] f = 7 -> "SD"
             imm == IF f = 6 THEN Clw(h) ELSE Cld(h)
  <2>1. Expansion0(h) = Decoded(op, 0, hi, lo, imm)
    BY <1>6 DEF Expansion0, f, lo, hi
  <2>2. D16!Quadrant0(h) = Decoded(op, 0, hi, lo, imm)
    BY <1>1, <1>2, <1>6, SameWords16 DEF D16!Quadrant0, D16!Store
  <2>3. op \in Operations /\ Holds(Format(op), imm)
    BY <1>3, <1>6, CompressedFormats
  <2> HIDE DEF op, imm
  <2>4. Legal(Decoded(op, 0, hi, lo, imm))
    BY <1>1, <2>3, Numbers, LegalIf, Zenon
  <2> QED
    BY <2>1, <2>2, <2>4
<1>7. f # 4
  BY BadIs DEF Expansion0, f
<1> QED
  BY <1>1, <1>4, <1>5, <1>6, <1>7

\* The values of a field of two bits.
LEMMA PairIs ==
  ASSUME NEW pair, pair \subseteq {0, 1}
  PROVE  /\ pair = {} <=> 0 \notin pair /\ 1 \notin pair
         /\ pair = {0} <=> 0 \in pair /\ 1 \notin pair
         /\ pair = {1} <=> 0 \notin pair /\ 1 \in pair
<1>1. pair = {} <=> 0 \notin pair /\ 1 \notin pair
  OBVIOUS
<1>2. pair = {0} <=> 0 \in pair /\ 1 \notin pair
  <2>1. 0 # 1
    OBVIOUS
  <2>2. ASSUME pair = {0} PROVE 0 \in pair /\ 1 \notin pair
    BY <2>1, <2>2, Zenon
  <2>3. ASSUME 0 \in pair, 1 \notin pair PROVE pair = {0}
    BY <2>3, Zenon
  <2> QED
    BY <2>2, <2>3, Zenon
<1>3. pair = {1} <=> 0 \notin pair /\ 1 \in pair
  <2>1. 0 # 1
    OBVIOUS
  <2>2. ASSUME pair = {1} PROVE 1 \in pair /\ 0 \notin pair
    BY <2>1, <2>2, Zenon
  <2>3. ASSUME 1 \in pair, 0 \notin pair PROVE pair = {1}
    BY <2>3, Zenon
  <2> QED
    BY <2>2, <2>3, Zenon
<1> QED
  BY <1>1, <1>2, <1>3

\* The fields of the quadrant and of the register arithmetic.
LEMMA ArithFields ==
  ASSUME NEW h \in SUBSET Int
  PROVE  /\ BITS(h, 11, 10) = {} <=> 10 \notin h /\ 11 \notin h
         /\ BITS(h, 11, 10) = {0} <=> 10 \in h /\ 11 \notin h
         /\ BITS(h, 11, 10) = {1} <=> 10 \notin h /\ 11 \in h
         /\ BITS(h, 6, 5) = {} <=> 5 \notin h /\ 6 \notin h
         /\ BITS(h, 6, 5) = {0} <=> 5 \in h /\ 6 \notin h
         /\ BITS(h, 6, 5) = {1} <=> 5 \notin h /\ 6 \in h
         /\ BITS(h, 1, 0) = {} <=> 0 \notin h /\ 1 \notin h
         /\ BITS(h, 1, 0) = {0} <=> 0 \in h /\ 1 \notin h
         /\ BITS(h, 1, 0) = {1} <=> 0 \notin h /\ 1 \in h
<1>1. /\ BITS(h, 11, 10) = {} <=> 10 \notin h /\ 11 \notin h
      /\ BITS(h, 11, 10) = {0} <=> 10 \in h /\ 11 \notin h
      /\ BITS(h, 11, 10) = {1} <=> 10 \notin h /\ 11 \in h
  <2> DEFINE pair == BITS(h, 11, 10)
  <2>1. 10 \in 0 .. 11 /\ 11 \in Nat
    OBVIOUS
  <2>2. /\ pair \subseteq 0 .. 11 - 10
        /\ \A i \in 0 .. 11 - 10 : i \in pair <=> i + 10 \in h
    BY <2>1, BitsIs, Zenon
  <2> HIDE DEF pair
  <2>3. pair \subseteq {0, 1} /\ (0 \in pair <=> 10 \in h) /\ (1 \in pair <=> 11 \in h)
    BY <2>2
  <2>4. /\ pair = {} <=> 10 \notin h /\ 11 \notin h
        /\ pair = {0} <=> 10 \in h /\ 11 \notin h
        /\ pair = {1} <=> 10 \notin h /\ 11 \in h
    BY <2>3, PairIs
  <2> QED
    BY <2>4 DEF pair
<1>2. /\ BITS(h, 6, 5) = {} <=> 5 \notin h /\ 6 \notin h
      /\ BITS(h, 6, 5) = {0} <=> 5 \in h /\ 6 \notin h
      /\ BITS(h, 6, 5) = {1} <=> 5 \notin h /\ 6 \in h
  <2> DEFINE pair == BITS(h, 6, 5)
  <2>1. 5 \in 0 .. 6 /\ 6 \in Nat
    OBVIOUS
  <2>2. /\ pair \subseteq 0 .. 6 - 5
        /\ \A i \in 0 .. 6 - 5 : i \in pair <=> i + 5 \in h
    BY <2>1, BitsIs, Zenon
  <2> HIDE DEF pair
  <2>3. pair \subseteq {0, 1} /\ (0 \in pair <=> 5 \in h) /\ (1 \in pair <=> 6 \in h)
    BY <2>2
  <2>4. /\ pair = {} <=> 5 \notin h /\ 6 \notin h
        /\ pair = {0} <=> 5 \in h /\ 6 \notin h
        /\ pair = {1} <=> 5 \notin h /\ 6 \in h
    BY <2>3, PairIs
  <2> QED
    BY <2>4 DEF pair
<1>3. /\ BITS(h, 1, 0) = {} <=> 0 \notin h /\ 1 \notin h
      /\ BITS(h, 1, 0) = {0} <=> 0 \in h /\ 1 \notin h
      /\ BITS(h, 1, 0) = {1} <=> 0 \notin h /\ 1 \in h
  <2> DEFINE pair == BITS(h, 1, 0)
  <2>1. 0 \in 0 .. 1 /\ 1 \in Nat
    OBVIOUS
  <2>2. /\ pair \subseteq 0 .. 1 - 0
        /\ \A i \in 0 .. 1 - 0 : i \in pair <=> i + 0 \in h
    BY <2>1, BitsIs, Zenon
  <2> HIDE DEF pair
  <2>3. pair \subseteq {0, 1} /\ (0 \in pair <=> 0 \in h) /\ (1 \in pair <=> 1 \in h)
    BY <2>2
  <2>4. /\ pair = {} <=> 0 \notin h /\ 1 \notin h
        /\ pair = {0} <=> 0 \in h /\ 1 \notin h
        /\ pair = {1} <=> 0 \notin h /\ 1 \in h
    BY <2>3, PairIs
  <2> QED
    BY <2>4 DEF pair
<1> QED
  BY <1>1, <1>2, <1>3, Zenon

\* The operations between two short registers.
LEMMA OpIs ==
  ASSUME NEW h \in SUBSET Int, ExpansionOp(h).op # "panic", 10 \in h, 11 \in h
  PROVE  D16!Arith(h) = ExpansionOp(h) /\ Legal(ExpansionOp(h))
<1> DEFINE bits == Gather(h, 12, <<2>>) \cup Gather(h, 6, <<1, 0>>)
           n == Number(bits)  hi == Short(h)  lo == Short2(h)
           ops == <<"SUB", "XOR", "OR", "AND", "SUBW", "ADDW", "", "">>
<1>1. \A i : i \in bits <=> (i = 2 /\ 12 \in h) \/ (i = 1 /\ 6 \in h) \/ (i = 0 /\ 5 \in h)
  BY Gather1, Gather2
<1> HIDE DEF bits
<1>2. n = (IF 12 \in h THEN 4 ELSE 0) + (IF 6 \in h THEN 2 ELSE 0) + (IF 5 \in h THEN 1 ELSE 0)
  BY <1>1 DEF Number
<1>3. ExpansionOp(h) = IF n < 6 THEN Decoded(ops[n + 1], hi, hi, lo, {}) ELSE Bad
  BY DEF ExpansionOp, If, bits
<1> HIDE DEF n, ops, hi, lo
<1>4. n \in 0 .. 5 /\ ExpansionOp(h) = Decoded(ops[n + 1], hi, hi, lo, {})
  <2>1. n < 6
    BY <1>3, BadIs
  <2> QED
    BY <1>2, <1>3, <2>1
<1> DEFINE op == CASE n = 0 -> "SUB" [] n = 1 -> "XOR" [] n = 2 -> "OR"
                   [] n = 3 -> "AND" [] n = 4 -> "SUBW" [] n = 5 -> "ADDW"
<1>5. ops[n + 1] = op
  <2>1. /\ ops[1] = "SUB" /\ ops[2] = "XOR" /\ ops[3] = "OR" /\ ops[4] = "AND"
        /\ ops[5] = "SUBW" /\ ops[6] = "ADDW"
    BY DEF ops
  <2> QED
    BY <1>4, <2>1
<1>6. /\ D16!High(h) = hi /\ D16!Low(h) = lo /\ hi \in 0 .. 31 /\ lo \in 0 .. 31
  BY Registers16 DEF hi, lo
<1> DEFINE second == BITS(h, 6, 5)
<1>7. /\ BITS(h, 11, 10) \notin {{}, {0}, {1}}
      /\ second = {} <=> 5 \notin h /\ 6 \notin h
      /\ second = {0} <=> 5 \in h /\ 6 \notin h
      /\ second = {1} <=> 5 \notin h /\ 6 \in h
  BY ArithFields, Zenon
<1> HIDE DEF second
<1>8. op = CASE second = {}  -> IF 12 \in h THEN "SUBW" ELSE "SUB"
             [] second = {0} -> IF 12 \in h THEN "ADDW" ELSE "XOR"
             [] second = {1} -> "OR"
             [] OTHER        -> "AND"
  <2>1. CASE second = {}
    BY <1>2, <1>4, <1>7, <2>1
  <2>2. CASE second = {0}
    BY <1>2, <1>4, <1>7, <2>2
  <2>3. CASE second = {1}
    BY <1>2, <1>4, <1>7, <2>3
  <2>4. CASE second \notin {{}, {0}, {1}}
    BY <1>2, <1>4, <1>7, <2>4
  <2> QED
    BY <2>1, <2>2, <2>3, <2>4
<1>9. op \in Operations /\ HasRd(Format(op)) /\ ~HasImm(Format(op))
  BY <1>4, CompressedFormats DEF HasRd, HasImm
<1> HIDE DEF op
<1>10. D16!Arith(h) = Decoded(op, hi, hi, lo, {})
  BY <1>6, <1>7, <1>8, SameWords16 DEF D16!Arith, second
<1>11. Legal(Decoded(op, hi, hi, lo, {}))
  BY <1>6, <1>9, LegalIf, Zenon
<1> QED
  BY <1>4, <1>5, <1>10, <1>11

\* The shifts, c.andi and the operations between short registers.
LEMMA AluIs ==
  ASSUME NEW h \in SUBSET Int, ExpansionAlu(h).op # "panic"
  PROVE  D16!Arith(h) = ExpansionAlu(h) /\ Legal(ExpansionAlu(h))
<1> DEFINE hi == Short(h)
<1>1. D16!High(h) = hi /\ hi \in 0 .. 31
  BY Registers16
<1>2. D16!UI_IMM(h) = Cui(h) /\ D16!I_IMM(h) = Ci(h) /\ Holds("H", Cui(h)) /\ Holds("I", Ci(h))
  BY CompressedImmediates, HoldsCompressed
<1>3. /\ BITS(h, 11, 10) = {} <=> 10 \notin h /\ 11 \notin h
      /\ BITS(h, 11, 10) = {0} <=> 10 \in h /\ 11 \notin h
      /\ BITS(h, 11, 10) = {1} <=> 10 \notin h /\ 11 \in h
  BY ArithFields, Zenon
<1> HIDE DEF hi
<1>4. CASE 10 \in h /\ 11 \in h
  <2>1. ExpansionAlu(h) = ExpansionOp(h)
    BY <1>4 DEF ExpansionAlu
  <2> QED
    BY <1>4, <2>1, OpIs
<1>5. CASE ~(10 \in h /\ 11 \in h)
  <2> DEFINE op == IF 11 \in h THEN "ANDI" ELSE IF 10 \in h THEN "SRAI" ELSE "SRLI"
             imm == IF 11 \in h THEN Ci(h) ELSE Cui(h)
  <2>1. ExpansionAlu(h) = Decoded(op, hi, hi, 0, imm)
    BY <1>5 DEF ExpansionAlu, hi
  <2>2. D16!Arith(h) = Decoded(op, hi, hi, 0, imm)
    BY <1>1, <1>2, <1>3, <1>5, SameWords16 DEF D16!Arith
  <2>3. op \in Operations /\ HasRd(Format(op)) /\ Holds(Format(op), imm)
    BY <1>2, <1>5, CompressedFormats DEF HasRd
  <2> HIDE DEF op, imm
  <2>4. Legal(Decoded(op, hi, hi, 0, imm))
    BY <1>1, <2>3, Numbers, LegalIf, Zenon
  <2> QED
    BY <2>1, <2>2, <2>4
<1> QED
  BY <1>4, <1>5

\* Two decodings of an addition to x0 have the same effect.
LEMMA NopIs ==
  ASSUME NEW imm
  PROVE  Effect(Decoded("NOP", 0, 0, 0, {})) = Effect(Decoded("ADDI", 0, 0, 0, imm))
BY DEF Effect, Decoded

\* c.addi, c.addiw, c.li, c.lui, c.addi16sp and the register arithmetic.
LEMMA Quadrant1Is ==
  ASSUME NEW h \in SUBSET Int, Expansion1(h).op # "panic"
  PROVE  /\ Effect(D16!Quadrant1(h)) = Effect(Expansion1(h))
         /\ Legal(Expansion1(h))
<1> DEFINE f == Func(h)  r == Full(h)  hi == Short(h)
<1>1. /\ D16!funct3(h) = f /\ f \in 0 .. 7 /\ D16!High(h) = hi /\ hi \in 0 .. 31
      /\ D16!Wide(h) = r /\ r \in 0 .. 31
  BY Registers16
<1>2. /\ D16!I_IMM(h) = Ci(h) /\ D16!D_IMM(h) = C16sp(h) /\ D16!J_IMM(h) = Cj(h)
      /\ D16!B_IMM(h) = Cb(h) /\ {j \in D16!Shl(D16!I_IMM(h), 12) : j < 64} = Clui(h)
  BY CompressedImmediates
<1>3. /\ Holds("I", Ci(h)) /\ Holds("I", C16sp(h)) /\ Holds("U", Clui(h))
      /\ Holds("J", Cj(h)) /\ Holds("B", Cb(h))
  BY HoldsCompressed
<1> HIDE DEF f, hi, r
<1>4. CASE f = 0
  <2>1. Expansion1(h) = Decoded("ADDI", r, r, 0, Ci(h))
    BY <1>4 DEF Expansion1, f, r
  <2>2. D16!Quadrant1(h) = IF r # 0 THEN Decoded("ADDI", r, r, 0, Ci(h))
                           ELSE Decoded("NOP", 0, 0, 0, {})
    BY <1>1, <1>2, <1>4, SameWords16 DEF D16!Quadrant1
  <2>3. "ADDI" \in Operations /\ HasRd(Format("ADDI")) /\ Holds(Format("ADDI"), Ci(h))
    BY <1>3, CompressedFormats DEF HasRd
  <2>4. Legal(Decoded("ADDI", r, r, 0, Ci(h)))
    BY <1>1, <2>3, Numbers, LegalIf, Zenon
  <2>5. Effect(D16!Quadrant1(h)) = Effect(Expansion1(h))
    BY <2>1, <2>2, NopIs
  <2> QED
    BY <2>1, <2>4, <2>5
<1>5. CASE f = 1
  <2>1. Expansion1(h) = Decoded("ADDIW", r, r, 0, Ci(h))
    BY <1>5, BadIs DEF Expansion1, If, f, r
  <2>2. D16!Quadrant1(h) = Decoded("ADDIW", r, r, 0, Ci(h))
    BY <1>1, <1>2, <1>5, SameWords16 DEF D16!Quadrant1
  <2>3. "ADDIW" \in Operations /\ HasRd(Format("ADDIW")) /\ Holds(Format("ADDIW"), Ci(h))
    BY <1>3, CompressedFormats DEF HasRd
  <2>4. Legal(Decoded("ADDIW", r, r, 0, Ci(h)))
    BY <1>1, <2>3, Numbers, LegalIf, Zenon
  <2> QED
    BY <2>1, <2>2, <2>4
<1>6. CASE f = 2
  <2>1. Expansion1(h) = Decoded("ADDI", r, 0, 0, Ci(h))
    BY <1>6 DEF Expansion1, f, r
  <2>2. D16!Quadrant1(h) = Decoded("ADDI", r, 0, 0, Ci(h))
    BY <1>1, <1>2, <1>6, SameWords16 DEF D16!Quadrant1
  <2>3. "ADDI" \in Operations /\ HasRd(Format("ADDI")) /\ Holds(Format("ADDI"), Ci(h))
    BY <1>3, CompressedFormats DEF HasRd
  <2>4. Legal(Decoded("ADDI", r, 0, 0, Ci(h)))
    BY <1>1, <2>3, Numbers, LegalIf, Zenon
  <2> QED
    BY <2>1, <2>2, <2>4
<1>7. CASE f = 3 /\ r = 2
  <2>1. Expansion1(h) = Decoded("ADDI", 2, 2, 0, C16sp(h))
    BY <1>7, BadIs DEF Expansion1, If, f, r
  <2>2. D16!Quadrant1(h) = D16!Upper(h)
    BY <1>1, <1>7 DEF D16!Quadrant1
  <2>3. D16!Upper(h) = Decoded("ADDI", 2, 2, 0, C16sp(h))
    BY <1>1, <1>2, <1>7, SameWords16 DEF D16!Upper
  <2>4. "ADDI" \in Operations /\ HasRd(Format("ADDI")) /\ Holds(Format("ADDI"), C16sp(h))
    BY <1>3, CompressedFormats DEF HasRd
  <2>5. Legal(Decoded("ADDI", 2, 2, 0, C16sp(h)))
    BY <2>4, Numbers, LegalIf, Zenon
  <2> QED
    BY <2>1, <2>2, <2>3, <2>5
<1>8. CASE f = 3 /\ r # 2
  <2>1. Expansion1(h) = Decoded("LUI", r, 0, 0, Clui(h))
    BY <1>8, BadIs DEF Expansion1, If, f, r
  <2>2. D16!Quadrant1(h) = D16!Upper(h)
    BY <1>1, <1>8 DEF D16!Quadrant1
  <2>3. D16!Upper(h) = Decoded("LUI", r, 0, 0, Clui(h))
    BY <1>1, <1>2, <1>8, SameWords16 DEF D16!Upper
  <2>4. "LUI" \in Operations /\ HasRd(Format("LUI")) /\ Holds(Format("LUI"), Clui(h))
    BY <1>3, CompressedFormats DEF HasRd
  <2>5. Legal(Decoded("LUI", r, 0, 0, Clui(h)))
    BY <1>1, <2>4, Numbers, LegalIf, Zenon
  <2> QED
    BY <2>1, <2>2, <2>3, <2>5
<1>9. CASE f = 4
  <2>1. Expansion1(h) = ExpansionAlu(h)
    BY <1>9 DEF Expansion1, f
  <2>2. D16!Quadrant1(h) = D16!Arith(h)
    BY <1>1, <1>9 DEF D16!Quadrant1
  <2> QED
    BY <2>1, <2>2, AluIs
<1>10. CASE f = 5
  <2>1. Expansion1(h) = Decoded("JAL", 0, 0, 0, Cj(h))
    BY <1>10 DEF Expansion1, f
  <2>2. D16!Quadrant1(h) = Decoded("JAL", 0, 0, 0, Cj(h))
    BY <1>1, <1>2, <1>10, SameWords16 DEF D16!Quadrant1
  <2>3. "JAL" \in Operations /\ HasRd(Format("JAL")) /\ Holds(Format("JAL"), Cj(h))
    BY <1>3, CompressedFormats DEF HasRd
  <2>4. Legal(Decoded("JAL", 0, 0, 0, Cj(h)))
    BY <2>3, Numbers, LegalIf, Zenon
  <2> QED
    BY <2>1, <2>2, <2>4
<1>11. CASE f \in {6, 7}
  <2> DEFINE op == IF f = 6 THEN "BEQ" ELSE "BNE"
  <2>1. Expansion1(h) = Decoded(op, 0, hi, 0, Cb(h))
    BY <1>11 DEF Expansion1, f, hi
  <2>2. D16!Quadrant1(h) = Decoded(op, 0, hi, 0, Cb(h))
    BY <1>1, <1>2, <1>11, SameWords16 DEF D16!Quadrant1
  <2>3. op \in Operations /\ Holds(Format(op), Cb(h))
    BY <1>3, <1>11, CompressedFormats
  <2> HIDE DEF op
  <2>4. Legal(Decoded(op, 0, hi, 0, Cb(h)))
    BY <1>1, <2>3, Numbers, LegalIf, Zenon
  <2> QED
    BY <2>1, <2>2, <2>4
<1> QED
  BY <1>1, <1>4, <1>5, <1>6, <1>7, <1>8, <1>9, <1>10, <1>11

\* c.jr, c.mv, c.ebreak, c.jalr and c.add.
LEMMA JumpIs ==
  ASSUME NEW h \in SUBSET Int, ExpansionCr(h).op # "panic"
  PROVE  /\ Legal(ExpansionCr(h))
         /\ ~(12 \in h /\ Full(h) = 0 /\ Full2(h) # 0) => D16!Jump(h) = ExpansionCr(h)
<1> DEFINE r == Full(h)  r2 == Full2(h)
<1>1. /\ D16!Wide(h) = r /\ r \in 0 .. 31 /\ D16!Wide2(h) = r2 /\ r2 \in 0 .. 31
  BY Registers16
<1>2. /\ \A rd \in 0 .. 31, rs1 \in 0 .. 31 : Legal(Decoded("JALR", rd, rs1, 0, {}))
  <2>1. "JALR" \in Operations /\ HasRd(Format("JALR")) /\ Holds(Format("JALR"), {})
    BY HoldsCompressed, CompressedFormats DEF HasRd
  <2> QED
    BY <2>1, Numbers, LegalIf, Zenon
<1>3. \A rd \in 0 .. 31, rs1 \in 0 .. 31, rs2 \in 0 .. 31 : Legal(Decoded("ADD", rd, rs1, rs2, {}))
  <2>1. "ADD" \in Operations /\ HasRd(Format("ADD")) /\ ~HasImm(Format("ADD"))
    BY CompressedFormats DEF HasRd, HasImm
  <2> QED
    BY <2>1, LegalIf, Zenon
<1>4. Legal(Decoded("EBREAK", 0, 0, 0, {}))
  <2>1. "EBREAK" \in Operations /\ ~HasImm(Format("EBREAK"))
    BY CompressedFormats DEF HasImm
  <2> QED
    BY <2>1, Numbers, LegalIf, Zenon
<1>10. CASE 12 \in h /\ r = 0 /\ r2 # 0
  <2>1. ExpansionCr(h) = Decoded("ADD", r, r, r2, {})
    BY <1>10 DEF ExpansionCr
  <2> QED
    BY <1>1, <1>3, <1>10, <2>1
<1> HIDE DEF r, r2
<1>5. CASE 12 \in h /\ r = 0 /\ r2 = 0
  <2>1. ExpansionCr(h) = Decoded("EBREAK", 0, 0, 0, {})
    BY <1>5 DEF ExpansionCr, r, r2
  <2>2. D16!Jump(h) = Decoded("EBREAK", 0, 0, 0, {})
    BY <1>1, <1>5, SameWords16 DEF D16!Jump
  <2> QED
    BY <1>4, <2>1, <2>2
<1>6. CASE 12 \in h /\ r # 0 /\ r2 = 0
  <2>1. ExpansionCr(h) = Decoded("JALR", 1, r, 0, {})
    BY <1>6 DEF ExpansionCr, r, r2
  <2>2. D16!Jump(h) = Decoded("JALR", 1, r, 0, {})
    BY <1>1, <1>6, SameWords16 DEF D16!Jump, D16!ra
  <2>3. Legal(Decoded("JALR", 1, r, 0, {}))
    BY <1>1, <1>2, Numbers, ZenonT(60)
  <2> QED
    BY <2>1, <2>2, <2>3
<1>7. CASE 12 \in h /\ r # 0 /\ r2 # 0
  <2>1. ExpansionCr(h) = Decoded("ADD", r, r, r2, {})
    BY <1>7 DEF ExpansionCr, r, r2
  <2>2. D16!Jump(h) = Decoded("ADD", r, r, r2, {})
    BY <1>1, <1>7, SameWords16 DEF D16!Jump
  <2> QED
    BY <1>1, <1>3, <2>1, <2>2
<1>8. CASE 12 \notin h /\ r2 = 0
  <2>1. ExpansionCr(h) = Decoded("JALR", 0, r, 0, {})
    BY <1>8, BadIs DEF ExpansionCr, If, r, r2
  <2>2. D16!Jump(h) = Decoded("JALR", 0, r, 0, {})
    BY <1>1, <1>8, SameWords16 DEF D16!Jump
  <2>3. Legal(Decoded("JALR", 0, r, 0, {}))
    BY <1>1, <1>2, Numbers, Zenon
  <2> QED
    BY <2>1, <2>2, <2>3
<1>9. CASE 12 \notin h /\ r2 # 0
  <2>1. ExpansionCr(h) = Decoded("ADD", r, 0, r2, {})
    BY <1>9 DEF ExpansionCr, r, r2
  <2>2. D16!Jump(h) = Decoded("ADD", r, 0, r2, {})
    BY <1>1, <1>9, SameWords16 DEF D16!Jump
  <2>3. Legal(Decoded("ADD", r, 0, r2, {}))
    BY <1>1, <1>3, Numbers, Zenon
  <2> QED
    BY <2>1, <2>2, <2>3
<1> QED
  BY <1>5, <1>6, <1>7, <1>8, <1>9, <1>10

\* c.slli, the jumps and the loads and stores relative to sp.
LEMMA Quadrant2Is ==
  ASSUME NEW h \in SUBSET Int, Expansion2(h).op # "panic"
  PROVE  /\ Legal(Expansion2(h))
         /\ ~(Func(h) = 5 \/ (Func(h) = 4 /\ 12 \in h /\ Full(h) = 0 /\ Full2(h) # 0)) =>
              D16!Quadrant2(h) = Expansion2(h)
<1> DEFINE f == Func(h)  r == Full(h)  r2 == Full2(h)
<1>1. /\ D16!funct3(h) = f /\ f \in 0 .. 7 /\ D16!Wide2(h) = r2 /\ r2 \in 0 .. 31
      /\ D16!Wide(h) = r /\ r \in 0 .. 31
  BY Registers16
<1>2. /\ D16!UI_IMM(h) = Cui(h) /\ D16!LWSP_IMM(h) = Clwsp(h) /\ D16!LDSP_IMM(h) = Cldsp(h)
      /\ D16!SWSP_IMM(h) = Cswsp(h) /\ D16!SDSP_IMM(h) = Csdsp(h)
  BY CompressedImmediates
<1>3. /\ Holds("H", Cui(h)) /\ Holds("I", Clwsp(h)) /\ Holds("I", Cldsp(h))
      /\ Holds("S", Cswsp(h)) /\ Holds("S", Csdsp(h))
  BY HoldsCompressed
<1> HIDE DEF f, r, r2
<1>4. CASE f = 0
  <2>1. Expansion2(h) = Decoded("SLLI", r, r, 0, Cui(h))
    BY <1>4 DEF Expansion2, f, r
  <2>2. D16!Quadrant2(h) = Decoded("SLLI", r, r, 0, Cui(h))
    BY <1>1, <1>2, <1>4, SameWords16 DEF D16!Quadrant2
  <2>3. "SLLI" \in Operations /\ HasRd(Format("SLLI")) /\ Holds(Format("SLLI"), Cui(h))
    BY <1>3, CompressedFormats DEF HasRd
  <2>4. Legal(Decoded("SLLI", r, r, 0, Cui(h)))
    BY <1>1, <2>3, Numbers, LegalIf, Zenon
  <2> QED
    BY <2>1, <2>2, <2>4
<1>5. CASE f \in {1, 2, 3}
  <2> DEFINE op == CASE f = 1 -> "FLD" [] f = 2 -> "LW" [] f = 3 -> "LD"
             imm == IF f = 2 THEN Clwsp(h) ELSE Cldsp(h)
  <2>1. Expansion2(h) = Decoded(op, r, 2, 0, imm)
    BY <1>5, BadIs DEF Expansion2, If, f, r
  <2>2. D16!Quadrant2(h) = Decoded(op, r, 2, 0, imm)
    BY <1>1, <1>2, <1>5, SameWords16 DEF D16!Quadrant2, D16!sp
  <2>3. op \in Operations /\ HasRd(Format(op)) /\ Holds(Format(op), imm)
    BY <1>3, <1>5, CompressedFormats DEF HasRd
  <2> HIDE DEF op, imm
  <2>4. Legal(Decoded(op, r, 2, 0, imm))
    BY <1>1, <2>3, Numbers, LegalIf, Zenon
  <2> QED
    BY <2>1, <2>2, <2>4
<1>6. CASE f = 4
  <2>1. Expansion2(h) = ExpansionCr(h)
    BY <1>6 DEF Expansion2, f
  <2>2. D16!Quadrant2(h) = D16!Jump(h)
    BY <1>1, <1>6 DEF D16!Quadrant2
  <2> QED
    BY <1>6, <2>1, <2>2, JumpIs DEF f
<1>7. CASE f = 5
  <2> DEFINE imm == Csdsp(h)
  <2>1. Expansion2(h) = Decoded("FSD", 0, 2, r2, imm)
    BY <1>7 DEF Expansion2, f, r2
  <2>2. "FSD" \in Operations /\ Holds(Format("FSD"), imm)
    BY <1>3, CompressedFormats
  <2> HIDE DEF imm
  <2>3. Legal(Decoded("FSD", 0, 2, r2, imm))
    BY <1>1, <2>2, Numbers, LegalIf, Zenon
  <2> QED
    BY <1>7, <2>1, <2>3 DEF f
<1>8. CASE f \in {6, 7}
  <2> DEFINE op == IF f = 6 THEN "SW" ELSE "SD"
             imm == IF f = 6 THEN Cswsp(h) ELSE Csdsp(h)
  <2>1. Expansion2(h) = Decoded(op, 0, 2, r2, imm)
    BY <1>8 DEF Expansion2, f, r2
  <2>2. D16!Quadrant2(h) = Decoded(op, 0, 2, r2, imm)
    BY <1>1, <1>2, <1>8, SameWords16 DEF D16!Quadrant2, D16!sp
  <2>3. op \in Operations /\ Holds(Format(op), imm)
    BY <1>3, <1>8, CompressedFormats
  <2> HIDE DEF op, imm
  <2>4. Legal(Decoded(op, 0, 2, r2, imm))
    BY <1>1, <2>3, Numbers, LegalIf, Zenon
  <2> QED
    BY <2>1, <2>2, <2>4
<1> QED
  BY <1>1, <1>4, <1>5, <1>6, <1>7, <1>8

\* dec16 does what the listing says, for every 16-bit instruction that is not reserved,
\* except the two that it misreads.
LEMMA ExpansionIs ==
  ASSUME NEW h \in SUBSET Int, ~({0, 1} \subseteq h), Expansion(h).op # "panic"
  PROVE  /\ Legal(Expansion(h))
         /\ ~Misread(h) => Effect(D16!dec16(h)) = Effect(Expansion(h))
<1>1. /\ D16!BITS(h, 1, 0) = {} <=> 0 \notin h /\ 1 \notin h
      /\ D16!BITS(h, 1, 0) = {0} <=> 0 \in h /\ 1 \notin h
      /\ D16!BITS(h, 1, 0) = {1} <=> 0 \notin h /\ 1 \in h
  BY ArithFields, SameWords16
<1>2. CASE 0 \notin h /\ 1 \notin h
  <2>1. Expansion(h) = Expansion0(h) /\ D16!dec16(h) = D16!Quadrant0(h)
    BY <1>1, <1>2 DEF Expansion, D16!dec16
  <2> QED
    BY <2>1, Quadrant0Is
<1>3. CASE 0 \in h /\ 1 \notin h
  <2>1. Expansion(h) = Expansion1(h) /\ D16!dec16(h) = D16!Quadrant1(h)
    BY <1>1, <1>3 DEF Expansion, D16!dec16
  <2> QED
    BY <2>1, Quadrant1Is
<1>4. CASE 0 \notin h /\ 1 \in h
  <2>1. Expansion(h) = Expansion2(h) /\ D16!dec16(h) = D16!Quadrant2(h)
    BY <1>1, <1>4 DEF Expansion, D16!dec16
  <2>2. ~Misread(h) =>
          ~(Func(h) = 5 \/ (Func(h) = 4 /\ 12 \in h /\ Full(h) = 0 /\ Full2(h) # 0))
    BY <1>4 DEF Misread, IsFsdsp, IsAddToZero
  <2> QED
    BY <2>1, <2>2, Quadrant2Is
<1> QED
  BY <1>2, <1>3, <1>4

-----------------------------------------------------------------------------
(* What execute() may rely on.                                             *)

\* What is true of the result of a decoder for every word, reserved or not.
Sound(d) == d \in Instructions /\ (d.op \in NoResult \ KeepsRd => d.rd = 0)

\* A way to see that a result is sound.
LEMMA SoundIf ==
  ASSUME NEW op \in Operations \cup {"NOP", "panic"}, NEW rd \in 0 .. 31, NEW rs1 \in 0 .. 31,
         NEW rs2 \in 0 .. 31, NEW imm \in SUBSET (0 .. 63),
         op \in NoResult \ KeepsRd => rd = 0
  PROVE  Sound(Decoded(op, rd, rs1, rs2, imm))
BY DEF Sound, Instructions, Decoded

\* An immediate of a format is a 64-bit value.
LEMMA HoldsIs ==
  ASSUME NEW f \in {"I", "S", "B", "U", "J", "H"}, NEW imm, Holds(f, imm)
  PROVE  imm \in SUBSET (0 .. 63)
<1>1. PICK bits \in SUBSET ImmRange(f) : imm = Signed(bits, Sign(f))
  BY DEF Holds
<1> QED
  BY <1>1 DEF Signed, Sign, ImmRange

\* The immediates of dec16 are 64-bit values.
LEMMA Immediates16 ==
  ASSUME NEW h \in SUBSET Int
  PROVE  /\ D16!N_IMM(h) \in SUBSET (0 .. 63) /\ D16!U_IMM(h) \in SUBSET (0 .. 63)
         /\ D16!U_IMM_D(h) \in SUBSET (0 .. 63) /\ D16!LWSP_IMM(h) \in SUBSET (0 .. 63)
         /\ D16!LDSP_IMM(h) \in SUBSET (0 .. 63) /\ D16!SWSP_IMM(h) \in SUBSET (0 .. 63)
         /\ D16!SDSP_IMM(h) \in SUBSET (0 .. 63) /\ D16!UI_IMM(h) \in SUBSET (0 .. 63)
         /\ D16!I_IMM(h) \in SUBSET (0 .. 63) /\ D16!D_IMM(h) \in SUBSET (0 .. 63)
         /\ D16!J_IMM(h) \in SUBSET (0 .. 63) /\ D16!B_IMM(h) \in SUBSET (0 .. 63)
         /\ {j \in D16!Shl(D16!I_IMM(h), 12) : j < 64} \in SUBSET (0 .. 63)
<1>1. /\ \A imm : Holds("I", imm) => imm \in SUBSET (0 .. 63)
      /\ \A imm : Holds("S", imm) => imm \in SUBSET (0 .. 63)
      /\ \A imm : Holds("H", imm) => imm \in SUBSET (0 .. 63)
      /\ \A imm : Holds("U", imm) => imm \in SUBSET (0 .. 63)
      /\ \A imm : Holds("J", imm) => imm \in SUBSET (0 .. 63)
      /\ \A imm : Holds("B", imm) => imm \in SUBSET (0 .. 63)
  BY HoldsIs, Zenon
<1>2. /\ Ciw(h) \in SUBSET (0 .. 63) /\ Clw(h) \in SUBSET (0 .. 63)
      /\ Cld(h) \in SUBSET (0 .. 63) /\ Clwsp(h) \in SUBSET (0 .. 63)
      /\ Cldsp(h) \in SUBSET (0 .. 63) /\ Cswsp(h) \in SUBSET (0 .. 63)
      /\ Csdsp(h) \in SUBSET (0 .. 63) /\ Cui(h) \in SUBSET (0 .. 63)
      /\ Ci(h) \in SUBSET (0 .. 63) /\ C16sp(h) \in SUBSET (0 .. 63)
      /\ Cj(h) \in SUBSET (0 .. 63) /\ Cb(h) \in SUBSET (0 .. 63)
      /\ Clui(h) \in SUBSET (0 .. 63)
  BY <1>1, HoldsCompressed, ZenonT(60)
<1> QED
  BY <1>2, CompressedImmediates

\* The operations that dec16 chooses from, and which of them have no result.
LEMMA CompressedOps ==
  /\ {"ADDI", "ADDIW", "LW", "LD", "FLD", "SW", "SD", "FSD", "SLLI", "SRLI", "SRAI", "ANDI",
      "LUI", "JAL", "JALR", "BEQ", "BNE", "ADD", "SUB", "XOR", "OR", "AND", "ADDW", "SUBW",
      "EBREAK", "NOP", "panic"} \subseteq Operations \cup {"NOP", "panic"}
  /\ {"ADDI", "ADDIW", "LW", "LD", "FLD", "SLLI", "SRLI", "SRAI", "ANDI", "LUI", "JAL", "JALR",
      "ADD", "SUB", "XOR", "OR", "AND", "ADDW", "SUBW", "EBREAK", "panic"} \cap NoResult = {}
BY CompressedFormats DEF NoResult

\* What dec16 makes of a word, in the form of SoundIf.
Compressed ==
  {"ADDI", "ADDIW", "LW", "LD", "FLD", "SLLI", "SRLI", "SRAI", "ANDI", "LUI", "JAL", "JALR",
   "ADD", "SUB", "XOR", "OR", "AND", "ADDW", "SUBW", "EBREAK", "panic"}

\* The results of dec16 that are sound, by the kind of their operation.
LEMMA CompressedSound ==
  /\ \A op \in Compressed, rd \in 0 .. 31, rs1 \in 0 .. 31, rs2 \in 0 .. 31,
        imm \in SUBSET (0 .. 63) : Sound(Decoded(op, rd, rs1, rs2, imm))
  /\ \A op \in {"SW", "SD", "FSD", "BEQ", "BNE", "NOP"}, rs1 \in 0 .. 31, rs2 \in 0 .. 31,
        imm \in SUBSET (0 .. 63) : Sound(Decoded(op, 0, rs1, rs2, imm))
<1>1. ASSUME NEW op \in Compressed, NEW rd \in 0 .. 31, NEW rs1 \in 0 .. 31,
             NEW rs2 \in 0 .. 31, NEW imm \in SUBSET (0 .. 63)
      PROVE  Sound(Decoded(op, rd, rs1, rs2, imm))
  <2>1. op \in Operations \cup {"NOP", "panic"} /\ op \notin NoResult
    BY CompressedOps DEF Compressed
  <2> QED
    BY <2>1, SoundIf, Zenon
<1>2. ASSUME NEW op \in {"SW", "SD", "FSD", "BEQ", "BNE", "NOP"}, NEW rs1 \in 0 .. 31,
             NEW rs2 \in 0 .. 31, NEW imm \in SUBSET (0 .. 63)
      PROVE  Sound(Decoded(op, 0, rs1, rs2, imm))
  <2>1. op \in Operations \cup {"NOP", "panic"}
    BY CompressedOps
  <2> QED
    BY <2>1, Numbers, SoundIf, Zenon
<1> QED
  BY <1>1, <1>2, Zenon

\* Every word of the first quadrant, the reserved ones too.
LEMMA Quadrant0Sound ==
  ASSUME NEW h \in SUBSET Int
  PROVE  Sound(D16!Quadrant0(h))
<1> DEFINE f == D16!funct3(h)  hi == D16!High(h)  lo == D16!Low(h)
           n == D16!N_IMM(h)  u == D16!U_IMM(h)  ud == D16!U_IMM_D(h)
<1>1. hi \in 0 .. 31 /\ lo \in 0 .. 31
  BY Registers16
<1>2. n \in SUBSET (0 .. 63) /\ u \in SUBSET (0 .. 63) /\ ud \in SUBSET (0 .. 63)
  BY Immediates16
<1>3. D16!Quadrant0(h) = CASE f = 0 -> Decoded("ADDI", lo, 2, 0, n)
                           [] f = 1 -> Decoded("FLD", lo, hi, 0, ud)
                           [] f = 2 -> Decoded("LW", lo, hi, 0, u)
                           [] f = 3 -> Decoded("LD", lo, hi, 0, ud)
                           [] f = 5 -> Decoded("FSD", 0, hi, lo, ud)
                           [] f = 6 -> Decoded("SW", 0, hi, lo, u)
                           [] f = 7 -> Decoded("SD", 0, hi, lo, ud)
                           [] OTHER -> Decoded("panic", 0, 0, 0, {})
  BY SameWords16 DEF D16!Quadrant0, D16!Load, D16!Store, D16!sp, Bad
<1> HIDE DEF f, hi, lo, n, u, ud
<1>4. /\ Sound(Decoded("ADDI", lo, 2, 0, n)) /\ Sound(Decoded("FLD", lo, hi, 0, ud))
      /\ Sound(Decoded("LW", lo, hi, 0, u)) /\ Sound(Decoded("LD", lo, hi, 0, ud))
      /\ Sound(Decoded("FSD", 0, hi, lo, ud)) /\ Sound(Decoded("SW", 0, hi, lo, u))
      /\ Sound(Decoded("SD", 0, hi, lo, ud)) /\ Sound(Decoded("panic", 0, 0, 0, {}))
  BY <1>1, <1>2, CompressedSound, Numbers, ZenonT(60) DEF Compressed
<1> QED
  BY <1>3, <1>4

\* Every word of the second quadrant.
LEMMA Quadrant1Sound ==
  ASSUME NEW h \in SUBSET Int
  PROVE  Sound(D16!Quadrant1(h))
<1> DEFINE f == D16!funct3(h)  hi == D16!High(h)  lo == D16!Low(h)  r == D16!Wide(h)
           i == D16!I_IMM(h)  j == D16!J_IMM(h)  b == D16!B_IMM(h)
<1>1. f \in 0 .. 7 /\ hi \in 0 .. 31 /\ lo \in 0 .. 31 /\ r \in 0 .. 31
  BY Registers16
<1>2. /\ i \in SUBSET (0 .. 63) /\ j \in SUBSET (0 .. 63) /\ b \in SUBSET (0 .. 63)
      /\ {} \in SUBSET (0 .. 63)
  BY Immediates16
<1>3. Sound(D16!Upper(h))
  <2> DEFINE d == D16!D_IMM(h)  u == {k \in D16!Shl(D16!I_IMM(h), 12) : k < 64}
  <2>1. d \in SUBSET (0 .. 63) /\ u \in SUBSET (0 .. 63)
    BY Immediates16
  <2>2. D16!Upper(h) = IF r = 2 THEN Decoded("ADDI", 2, 2, 0, d) ELSE Decoded("LUI", r, 0, 0, u)
    BY SameWords16 DEF D16!Upper
  <2> HIDE DEF r, d, u
  <2>3. Sound(Decoded("ADDI", 2, 2, 0, d)) /\ Sound(Decoded("LUI", r, 0, 0, u))
    BY <1>1, <2>1, CompressedSound, Numbers, ZenonT(60) DEF Compressed
  <2> QED
    BY <2>2, <2>3
<1>4. Sound(D16!Arith(h))
  <2> DEFINE u == D16!UI_IMM(h)
             op == CASE BITS(h, 6, 5) = {}  -> IF 12 \in h THEN "SUBW" ELSE "SUB"
                     [] BITS(h, 6, 5) = {0} -> IF 12 \in h THEN "ADDW" ELSE "XOR"
                     [] BITS(h, 6, 5) = {1} -> "OR"
                     [] OTHER        -> "AND"
  <2>1. u \in SUBSET (0 .. 63)
    BY Immediates16
  <2>2. op \in {"SUBW", "SUB", "ADDW", "XOR", "OR", "AND"}
    OBVIOUS
  <2>3. D16!Arith(h) = CASE BITS(h, 11, 10) = {}  -> Decoded("SRLI", hi, hi, 0, u)
                         [] BITS(h, 11, 10) = {0} -> Decoded("SRAI", hi, hi, 0, u)
                         [] BITS(h, 11, 10) = {1} -> Decoded("ANDI", hi, hi, 0, i)
                         [] OTHER -> Decoded(op, hi, hi, lo, {})
    BY SameWords16 DEF D16!Arith
  <2> HIDE DEF hi, lo, i, u, op
  <2>4. /\ Sound(Decoded("SRLI", hi, hi, 0, u)) /\ Sound(Decoded("SRAI", hi, hi, 0, u))
        /\ Sound(Decoded("ANDI", hi, hi, 0, i)) /\ Sound(Decoded(op, hi, hi, lo, {}))
    BY <1>1, <1>2, <2>1, <2>2, CompressedSound, Numbers, ZenonT(60) DEF Compressed
  <2> QED
    BY <2>3, <2>4
<1>5. D16!Quadrant1(h) =
        CASE f = 0 -> IF r # 0 THEN Decoded("ADDI", r, r, 0, i) ELSE Decoded("NOP", 0, 0, 0, {})
          [] f = 1 -> Decoded("ADDIW", r, r, 0, i)
          [] f = 2 -> Decoded("ADDI", r, 0, 0, i)
          [] f = 3 -> D16!Upper(h)
          [] f = 4 -> D16!Arith(h)
          [] f = 5 -> Decoded("JAL", 0, 0, 0, j)
          [] f = 6 -> Decoded("BEQ", 0, hi, 0, b)
          [] OTHER -> Decoded("BNE", 0, hi, 0, b)
  BY SameWords16 DEF D16!Quadrant1
<1> HIDE DEF f, hi, lo, r, i, j, b
<1>6. /\ Sound(Decoded("ADDI", r, r, 0, i)) /\ Sound(Decoded("NOP", 0, 0, 0, {}))
      /\ Sound(Decoded("ADDIW", r, r, 0, i)) /\ Sound(Decoded("ADDI", r, 0, 0, i))
      /\ Sound(Decoded("JAL", 0, 0, 0, j)) /\ Sound(Decoded("BEQ", 0, hi, 0, b))
      /\ Sound(Decoded("BNE", 0, hi, 0, b))
  BY <1>1, <1>2, CompressedSound, Numbers, ZenonT(60) DEF Compressed
<1> QED
  BY <1>3, <1>4, <1>5, <1>6

\* Every word of the third quadrant.
LEMMA Quadrant2Sound ==
  ASSUME NEW h \in SUBSET Int
  PROVE  Sound(D16!Quadrant2(h))
<1> DEFINE f == D16!funct3(h)  r == D16!Wide(h)  r2 == D16!Wide2(h)
           u == D16!UI_IMM(h)  lw == D16!LWSP_IMM(h)  ld == D16!LDSP_IMM(h)
           sw == D16!SWSP_IMM(h)  sd == D16!SDSP_IMM(h)
<1>1. r \in 0 .. 31 /\ r2 \in 0 .. 31
  BY Registers16
<1>2. /\ u \in SUBSET (0 .. 63) /\ lw \in SUBSET (0 .. 63) /\ ld \in SUBSET (0 .. 63)
      /\ sw \in SUBSET (0 .. 63) /\ sd \in SUBSET (0 .. 63) /\ {} \in SUBSET (0 .. 63)
  BY Immediates16
<1>3. Sound(D16!Jump(h))
  <2>1. D16!Jump(h) = CASE 12 \in h /\ r = 0           -> Decoded("EBREAK", 0, 0, 0, {})
                        [] 12 \in h /\ r # 0 /\ r2 = 0 -> Decoded("JALR", 1, r, 0, {})
                        [] 12 \in h /\ r # 0 /\ r2 # 0 -> Decoded("ADD", r, r, r2, {})
                        [] 12 \notin h /\ r2 = 0       -> Decoded("JALR", 0, r, 0, {})
                        [] 12 \notin h /\ r2 # 0       -> Decoded("ADD", r, 0, r2, {})
    BY SameWords16 DEF D16!Jump, D16!ra
  <2> HIDE DEF r, r2
  <2>2. /\ Sound(Decoded("EBREAK", 0, 0, 0, {})) /\ Sound(Decoded("JALR", 1, r, 0, {}))
        /\ Sound(Decoded("ADD", r, r, r2, {})) /\ Sound(Decoded("JALR", 0, r, 0, {}))
        /\ Sound(Decoded("ADD", r, 0, r2, {}))
    BY <1>1, <1>2, CompressedSound, Numbers, ZenonT(60) DEF Compressed
  <2> QED
    BY <2>1, <2>2
<1>4. D16!Quadrant2(h) = CASE f = 0 -> Decoded("SLLI", r, r, 0, u)
                           [] f = 1 -> Decoded("FLD", r, 2, 0, ld)
                           [] f = 2 -> Decoded("LW", r, 2, 0, lw)
                           [] f = 3 -> Decoded("LD", r, 2, 0, ld)
                           [] f = 4 -> D16!Jump(h)
                           [] f = 6 -> Decoded("SW", 0, 2, r2, sw)
                           [] f = 7 -> Decoded("SD", 0, 2, r2, sd)
                           [] OTHER -> Decoded("panic", 0, 0, 0, {})
  BY SameWords16 DEF D16!Quadrant2, D16!sp, Bad
<1> HIDE DEF f, r, r2, u, lw, ld, sw, sd
<1>5. /\ Sound(Decoded("SLLI", r, r, 0, u)) /\ Sound(Decoded("FLD", r, 2, 0, ld))
      /\ Sound(Decoded("LW", r, 2, 0, lw)) /\ Sound(Decoded("LD", r, 2, 0, ld))
      /\ Sound(Decoded("SW", 0, 2, r2, sw)) /\ Sound(Decoded("SD", 0, 2, r2, sd))
      /\ Sound(Decoded("panic", 0, 0, 0, {}))
  BY <1>1, <1>2, CompressedSound, Numbers, ZenonT(60) DEF Compressed
<1> QED
  BY <1>3, <1>4, <1>5

\* dec16 hands execute() what it can index with, whatever the word is.
LEMMA CompressedResult ==
  ASSUME NEW h \in SUBSET Int
  PROVE  Sound(D16!dec16(h))
<1>1. Sound(D16!Bad)
  BY CompressedSound, SameWords16, Numbers DEF Compressed, Bad
<1> QED
  BY <1>1, Quadrant0Sound, Quadrant1Sound, Quadrant2Sound DEF D16!dec16

-----------------------------------------------------------------------------
(* What dec32 makes of a word, whether it encodes an instruction or not.   *)

\* Its fields are in the ranges of a register, of a csr number and of a 64-bit value.
LEMMA LongFields ==
  ASSUME NEW w \in SUBSET Int
  PROVE  /\ Number(BITS(w, 11, 7)) \in 0 .. 31 /\ Number(BITS(w, 19, 15)) \in 0 .. 31
         /\ Number(BITS(w, 24, 20)) \in 0 .. 31 /\ Number(BITS(w, 14, 12)) \in 0 .. 7
         /\ Number(BITS(w, 31, 25)) \in 0 .. 127 /\ Number(BITS(w, 31, 27)) \in 0 .. 31
         /\ BITS(w, 31, 20) \in SUBSET (0 .. 11)
<1>1. /\ BITS(w, 11, 7) \subseteq 0 .. 4 /\ BITS(w, 19, 15) \subseteq 0 .. 4
      /\ BITS(w, 24, 20) \subseteq 0 .. 4 /\ BITS(w, 14, 12) \subseteq 0 .. 2
      /\ BITS(w, 31, 27) \subseteq 0 .. 4 /\ BITS(w, 31, 20) \subseteq 0 .. 11
  BY DEF BITS
<1> QED
  BY <1>1, NumberIs

\* So are its immediates.
LEMMA LongImmediates ==
  ASSUME NEW w \in SUBSET Int
  PROVE  /\ D32!I_IMM(w) \in SUBSET (0 .. 63) /\ D32!S_IMM(w) \in SUBSET (0 .. 63)
         /\ D32!B_IMM(w) \in SUBSET (0 .. 63) /\ D32!U_IMM(w) \in SUBSET (0 .. 63)
         /\ D32!J_IMM(w) \in SUBSET (0 .. 63) /\ D32!M_IMM6(w) \in SUBSET (0 .. 63)
         /\ D32!M_IMM5(w) \in SUBSET (0 .. 63) /\ D32!C_IMM(w) \in SUBSET (0 .. 63)
<1>1. /\ D32!I_IMM(w) \subseteq Int /\ D32!S_IMM(w) \subseteq Int /\ D32!B_IMM(w) \subseteq Int
      /\ D32!U_IMM(w) \subseteq Int /\ D32!J_IMM(w) \subseteq Int
      /\ D32!M_IMM6(w) \subseteq Int /\ D32!M_IMM5(w) \subseteq Int /\ D32!C_IMM(w) \subseteq Int
  BY Immediates32Int
<1>2. \A i \in Int :
        /\ i \in D32!I_IMM(w) => i \in 0 .. 63
        /\ i \in D32!S_IMM(w) => i \in 0 .. 63
        /\ i \in D32!B_IMM(w) => i \in 0 .. 63
        /\ i \in D32!U_IMM(w) => i \in 0 .. 63
        /\ i \in D32!J_IMM(w) => i \in 0 .. 63
        /\ i \in D32!M_IMM6(w) => i \in 0 .. 63
        /\ i \in D32!M_IMM5(w) => i \in 0 .. 63
        /\ i \in D32!C_IMM(w) => i \in 0 .. 63
  BY Immediates32
<1> QED
  BY <1>1, <1>2

\* The operations for which execute() computes a value, or which keep their rd.
Keeping ==
  UpperOps \cup LoadOps \cup LoadFpOps \cup ImmediateOps \cup ShiftOps \cup ImmediateWOps
  \cup ShiftWOps \cup RegisterOps \cup MulDivOps \cup RegisterWOps \cup MulDivWOps \cup MiscOps
  \cup SystemOps \cup CsrOps \cup CsrImmOps \cup AtomicOps \cup MoveOps \cup {"panic"}

\* They are operations that may come with any rd.
LEMMA KeepingIs ==
  /\ Keeping \subseteq Operations \cup {"NOP", "panic"}
  /\ Keeping \cap (NoResult \ KeepsRd) = {}
  /\ BranchOps \cup StoreOps \cup StoreFpOps \cup {"panic"} \subseteq Operations \cup {"NOP", "panic"}
<1>1. Keeping \cap (NoResult \ KeepsRd) = {}
  BY SMTT(30) DEF Keeping, NoResult, KeepsRd, UpperOps, LoadOps, LoadFpOps, ImmediateOps, ShiftOps,
     ImmediateWOps, ShiftWOps, RegisterOps, MulDivOps, RegisterWOps, MulDivWOps, MiscOps,
     SystemOps, CsrOps, CsrImmOps, AtomicOps, MoveOps
<1> QED
  BY <1>1, OperationsAre DEF Keeping

\* An operation with the fields of its word, with and without rd.
LEMMA LongSoundIf ==
  ASSUME NEW w \in SUBSET Int, NEW imm \in SUBSET (0 .. 63)
  PROVE  /\ \A op \in Keeping : Sound(D32!Fields(op, w, imm))
         /\ \A op \in Keeping :
              Sound([D32!Fields(op, w, imm) EXCEPT !.csr_addr = BITS(w, 31, 20)])
         /\ \A op \in BranchOps \cup StoreOps \cup StoreFpOps \cup {"panic"} :
              Sound(D32!NoRd(D32!Fields(op, w, imm)))
<1> DEFINE rd == Number(BITS(w, 11, 7))  rs1 == Number(BITS(w, 19, 15))
           rs2 == Number(BITS(w, 24, 20))  csr == BITS(w, 31, 20)
<1>1. rd \in 0 .. 31 /\ rs1 \in 0 .. 31 /\ rs2 \in 0 .. 31 /\ csr \in SUBSET (0 .. 11)
  BY LongFields
<1>2. \A op : D32!Fields(op, w, imm) = Decoded(op, rd, rs1, rs2, imm)
  BY SameWords DEF D32!Fields, D32!Second
<1> HIDE DEF rd, rs1, rs2, csr
<1>3. ASSUME NEW op \in Keeping
      PROVE  /\ Sound(D32!Fields(op, w, imm))
             /\ Sound([D32!Fields(op, w, imm) EXCEPT !.csr_addr = csr])
  <2>1. op \in Operations \cup {"NOP", "panic"} /\ op \notin NoResult \ KeepsRd
    BY KeepingIs
  <2>2. D32!Fields(op, w, imm) = Decoded(op, rd, rs1, rs2, imm)
    BY <1>2
  <2> QED
    BY <1>1, <2>1, <2>2 DEF Sound, Instructions, Decoded
<1>4. ASSUME NEW op \in BranchOps \cup StoreOps \cup StoreFpOps \cup {"panic"}
      PROVE  Sound(D32!NoRd(D32!Fields(op, w, imm)))
  <2>1. op \in Operations \cup {"NOP", "panic"}
    BY KeepingIs
  <2>2. D32!Fields(op, w, imm) = Decoded(op, rd, rs1, rs2, imm)
    BY <1>2
  <2> QED
    BY <1>1, <2>1, <2>2 DEF Sound, Instructions, Decoded, D32!NoRd
<1> QED
  BY <1>3, <1>4 DEF csr

\* The switches of dec32 choose from these operations, or panic.
LEMMA LongOperations ==
  ASSUME NEW w \in SUBSET Int
  PROVE  LET f == D32!funct3(w)
         IN  /\ D32!Pick(D32!Branch, f) \in BranchOps \cup {"panic"}
             /\ D32!Pick(D32!Load, f) \in Keeping
             /\ D32!Pick(D32!Store, f) \in StoreOps \cup {"panic"}
             /\ D32!Pick(D32!LoadFp, f) \in Keeping
             /\ D32!Pick(D32!StoreFp, f) \in StoreFpOps \cup {"panic"}
             /\ D32!Pick(D32!Imm(w), f) \in Keeping
             /\ D32!Pick(D32!ImmW(w), f) \in Keeping
             /\ D32!Pick(D32!Reg(w), f) \in Keeping
             /\ D32!Pick(D32!RegW(w), f) \in Keeping
             /\ D32!Pick(D32!MulDiv, f) \in Keeping
             /\ D32!Pick(D32!MulDivW, f) \in Keeping
             /\ D32!Pick(D32!Misc, f) \in Keeping
             /\ D32!Pick(D32!Csr, f) \in Keeping
             /\ D32!System(w) \in Keeping
             /\ D32!Amo(w) \in Keeping
<1> DEFINE f == D32!funct3(w)
<1>1. f \in 0 .. 7 /\ D32!Second(w) \in 0 .. 31
  BY LongFields, SameWords DEF D32!funct3, D32!Second
<1> HIDE DEF f
<1>2. /\ D32!Pick(D32!Branch, f) \in BranchOps \cup {"panic"}
      /\ D32!Pick(D32!Store, f) \in StoreOps \cup {"panic"}
      /\ D32!Pick(D32!StoreFp, f) \in StoreFpOps \cup {"panic"}
  BY <1>1 DEF D32!Pick, D32!Branch, D32!Store, D32!StoreFp, BranchOps, StoreOps, StoreFpOps
<1>3. /\ D32!Pick(D32!Load, f) \in LoadOps \cup {"panic"}
      /\ D32!Pick(D32!LoadFp, f) \in LoadFpOps \cup {"panic"}
      /\ D32!Pick(D32!Misc, f) \in MiscOps \cup {"panic"}
  BY <1>1 DEF D32!Pick, D32!Load, D32!LoadFp, D32!Misc, LoadOps, LoadFpOps, MiscOps
<1>4. /\ D32!Pick(D32!Imm(w), f) \in ImmediateOps \cup ShiftOps
      /\ D32!Pick(D32!ImmW(w), f) \in ImmediateWOps \cup ShiftWOps \cup {"panic"}
  BY <1>1 DEF D32!Pick, D32!Imm, D32!ImmW, ImmediateOps, ShiftOps, ImmediateWOps, ShiftWOps
<1>5. /\ D32!Pick(D32!Reg(w), f) \in RegisterOps
      /\ D32!Pick(D32!RegW(w), f) \in RegisterWOps \cup {"panic"}
  BY <1>1 DEF D32!Pick, D32!Reg, D32!RegW, RegisterOps, RegisterWOps
<1>6. /\ D32!Pick(D32!MulDiv, f) \in MulDivOps
      /\ D32!Pick(D32!MulDivW, f) \in MulDivWOps \cup {"panic"}
  BY <1>1 DEF D32!Pick, D32!MulDiv, D32!MulDivW, MulDivOps, MulDivWOps
<1>7. D32!Pick(D32!Csr, f) \in CsrOps \cup CsrImmOps \cup {"panic"}
  BY <1>1 DEF D32!Pick, D32!Csr, CsrOps, CsrImmOps
<1>8. D32!System(w) \in SystemOps \cup {"panic"}
  <2> DEFINE second == D32!Second(w)
  <2>1. /\ D32!Pick(<<"ECALL", "EBREAK", "URET">>, second) \in SystemOps \cup {"panic"}
        /\ D32!Pick(<<"panic", "panic", "SRET", "panic", "panic", "WFI">>, second)
             \in SystemOps \cup {"panic"}
    <3> HIDE DEF second
    <3>1. second \in 0 .. 31
      BY <1>1 DEF second
    <3> QED
      BY <3>1 DEF D32!Pick, SystemOps
  <2>2. "SFENCE_VMA" \in SystemOps /\ "MRET" \in SystemOps
    BY DEF SystemOps
  <2> QED
    BY <2>1, <2>2 DEF D32!System
<1>9. D32!Amo(w) \in AtomicOps \cup {"panic"}
  <2>1. \A v : D32!AmoTable(v)[1] \in AtomicOps \cup {"panic"} /\ D32!AmoTable(v)[2] \in AtomicOps \cup {"panic"}
    BY DEF D32!AmoTable, AtomicOps
  <2> QED
    BY <2>1 DEF D32!Amo
<1> QED
  BY <1>2, <1>3, <1>4, <1>5, <1>6, <1>7, <1>8, <1>9 DEF Keeping, f

\* dec32 hands execute() what it can index with, and clears the rd of the stores and
\* the branches, whatever the word is.
LEMMA LongSound ==
  ASSUME NEW w \in SUBSET Int
  PROVE  Sound(D32!dec32(w))
<1> DEFINE code == D32!opcode(w)  f == D32!funct3(w)
<1>1. /\ \A imm \in SUBSET (0 .. 63) : \A op \in Keeping : Sound(D32!Fields(op, w, imm))
      /\ \A imm \in SUBSET (0 .. 63) : \A op \in Keeping :
           Sound([D32!Fields(op, w, imm) EXCEPT !.csr_addr = BITS(w, 31, 20)])
      /\ \A imm \in SUBSET (0 .. 63) : \A op \in BranchOps \cup StoreOps \cup StoreFpOps \cup {"panic"} :
           Sound(D32!NoRd(D32!Fields(op, w, imm)))
  BY LongSoundIf, Zenon
<1>2. /\ D32!I_IMM(w) \in SUBSET (0 .. 63) /\ D32!S_IMM(w) \in SUBSET (0 .. 63)
      /\ D32!B_IMM(w) \in SUBSET (0 .. 63) /\ D32!U_IMM(w) \in SUBSET (0 .. 63)
      /\ D32!J_IMM(w) \in SUBSET (0 .. 63) /\ D32!M_IMM6(w) \in SUBSET (0 .. 63)
      /\ D32!M_IMM5(w) \in SUBSET (0 .. 63) /\ D32!C_IMM(w) \in SUBSET (0 .. 63)
      /\ {} \in SUBSET (0 .. 63)
  BY LongImmediates
<1>3. {"LUI", "AUIPC", "JAL", "JALR", "FMV_W_X", "panic"} \subseteq Keeping
  BY DEF Keeping, UpperOps, MoveOps
<1>4. /\ Sound(D32!Fields("LUI", w, D32!U_IMM(w))) /\ Sound(D32!Fields("AUIPC", w, D32!U_IMM(w)))
      /\ Sound(D32!Fields("JAL", w, D32!J_IMM(w))) /\ Sound(D32!Fields("JALR", w, D32!I_IMM(w)))
      /\ Sound(D32!Fields(IF D32!funct7(w) = \h78 THEN "FMV_W_X" ELSE "panic", w, {}))
  BY <1>1, <1>2, <1>3
<1>5. /\ Sound(D32!NoRd(D32!Fields(D32!Pick(D32!Branch, f), w, D32!B_IMM(w))))
      /\ Sound(D32!NoRd(D32!Fields(D32!Pick(D32!Store, f), w, D32!S_IMM(w))))
      /\ Sound(D32!NoRd(D32!Fields(D32!Pick(D32!StoreFp, f), w, D32!S_IMM(w))))
  BY <1>1, <1>2, LongOperations
<1>6. /\ Sound(D32!Fields(D32!Pick(D32!Load, f), w, D32!I_IMM(w)))
      /\ Sound(D32!Fields(D32!Pick(D32!LoadFp, f), w, D32!I_IMM(w)))
      /\ Sound(D32!Fields(D32!Pick(D32!Misc, f), w, {}))
      /\ Sound(D32!Fields(D32!Amo(w), w, {}))
  BY <1>1, <1>2, LongOperations
<1>7. Sound(D32!Immediate(w)) /\ Sound(D32!ImmediateW(w))
  BY <1>1, <1>2, LongOperations DEF D32!Immediate, D32!ImmediateW
<1>8. Sound(D32!Register(w)) /\ Sound(D32!RegisterW(w))
  BY <1>1, <1>2, LongOperations DEF D32!Register, D32!RegisterW
<1>9. Sound(D32!Privileged(w))
  <2> DEFINE op == IF f = 0 THEN D32!System(w) ELSE D32!Pick(D32!Csr, f)
             imm == IF f \in 5 .. 7 THEN D32!C_IMM(w) ELSE {}
  <2>1. op \in Keeping /\ imm \in SUBSET (0 .. 63)
    BY <1>2, LongOperations
  <2>2. D32!Privileged(w) = [D32!Fields(op, w, imm) EXCEPT !.csr_addr = BITS(w, 31, 20)]
    BY SameWords DEF D32!Privileged
  <2> QED
    BY <1>1, <2>1, <2>2
<1>10. Sound(D32!Bad)
  BY SameWords, CompressedSound, Numbers DEF Compressed, Bad
<1> QED
  BY <1>4, <1>5, <1>6, <1>7, <1>8, <1>9, <1>10 DEF D32!dec32

-----------------------------------------------------------------------------
(* The behaviours of Decode.                                               *)

\* The words that fetch delivers: the 32-bit ones encode a legal instruction or are
\* anything at all, the others have the compressed instruction in their low half.
Delivered ==
  /\ inst \in SUBSET (0 .. 31)
  /\ Long => meant = Bad \/ (Legal(meant) /\ inst = Assemble(meant))
  /\ ~Long => meant = Expansion(Half)

\* Decode has run as often as len says.
Result ==
  /\ len \in {0, 2, 4}
  /\ len = 0 => out = Bad
  /\ len # 0 => /\ len = (IF Long THEN 4 ELSE 2)
                /\ out = (IF Long THEN D32!dec32(inst) ELSE D16!dec16(Half))

DecodeInv == Delivered /\ Result

\* The instructions of Assembled can be encoded.
LEMMA AssembledLegal ==
  ASSUME NEW op \in Operations, NEW d \in Assembled(op)
  PROVE  Legal(d)
<1> DEFINE f == Format(op)
<1>1. /\ d.op = op /\ d.rd \in (IF HasRd(f) THEN Registers ELSE {0})
      /\ d.rs1 \in (IF HasRs1(f) THEN Registers ELSE {0})
      /\ d.rs2 \in (IF HasRs2(f) THEN Registers ELSE {0})
      /\ d.imm \in Immediates(f) /\ d.csr_addr \in (IF HasCsr(f) THEN Csrs ELSE {{}})
  BY DEF Assembled
<1> HIDE DEF f
<1>2. Encodable(d)
  <2>1. \A r \in Registers \cup {0} : r \in 0 .. 31
    BY DecodeAssumption
  <2>2. d.rd \in 0 .. 31 /\ d.rs1 \in 0 .. 31 /\ d.rs2 \in 0 .. 31
    BY <1>1, <2>1
  <2>3. d.csr_addr \in SUBSET (0 .. 11)
    BY <1>1, DecodeAssumption
  <2> QED
    BY <1>1, <2>2, <2>3 DEF Encodable
<1>3. \E bits \in SUBSET ImmRange(f) : d.imm = Signed(bits, Sign(f))
  <2>1. PICK bits \in Patterns : d.imm = Signed(bits \cap ImmRange(f), Sign(f))
    BY <1>1 DEF Immediates
  <2> QED
    BY <2>1
<1> QED
  BY <1>1, <1>2, <1>3 DEF Legal, f

\* fetch delivers such words.
LEMMA InitDelivered == DecodeInit => DecodeInv
<1> SUFFICES ASSUME DecodeInit PROVE DecodeInv
  OBVIOUS
<1>1. Result
  BY DEF DecodeInit, Result
<1>2. CASE Fetched16
  <2>1. PICK h \in SUBSET (0 .. 15), rest \in {{}, 16 .. 31} :
          ~({0, 1} \subseteq h) /\ inst = h \cup rest /\ meant = Expansion(h)
    BY <1>2 DEF Fetched16
  <2>2. inst \in SUBSET (0 .. 31) /\ inst \cap (0 .. 15) = h
    <3>1. /\ \A i \in h : i \in 0 .. 15 /\ i \in 0 .. 31
          /\ \A i \in rest : i \in 0 .. 31 /\ i \notin 0 .. 15
      BY <2>1
    <3> QED
      BY <2>1, <3>1, Zenon
  <2>3. ~Long
    BY <2>1 DEF Long
  <2> QED
    BY <1>1, <2>1, <2>2, <2>3 DEF DecodeInv, Delivered, Half
<1>3. CASE Fetched32
  <2>1. PICK op \in Operations : \E d \in Assembled(op) : inst = Assemble(d) /\ meant = d
    BY <1>3 DEF Fetched32
  <2>2. PICK d \in Assembled(op) : inst = Assemble(d) /\ meant = d
    BY <2>1
  <2>3. Legal(d)
    BY AssembledLegal
  <2>4. Assemble(d) \in SUBSET (0 .. 31) /\ {0, 1} \subseteq Assemble(d)
    BY <2>3, Roundtrip
  <2> QED
    BY <1>1, <2>2, <2>3, <2>4 DEF DecodeInv, Delivered, Long
<1>4. CASE FetchedOther
  <2>1. inst \in SUBSET (0 .. 31) /\ {0, 1} \subseteq inst /\ meant = Bad
    BY <1>4, DecodeAssumption DEF FetchedOther
  <2> QED
    BY <1>1, <2>1 DEF DecodeInv, Delivered, Long
<1> QED
  BY <1>2, <1>3, <1>4 DEF DecodeInit

\* decode leaves the word alone and sets out and len once.
LEMMA DecodeStep == DecodeInv /\ [Decode]_decodeVars => DecodeInv'
<1> SUFFICES ASSUME DecodeInv, [Decode]_decodeVars PROVE DecodeInv'
  OBVIOUS
<1>1. UNCHANGED <<inst, meant>>
  BY DEF Decode, decodeVars
<1>2. Long' = Long /\ Half' = Half /\ Delivered'
  BY <1>1 DEF DecodeInv, Delivered, Long, Half
<1>3. CASE Decode
  <2>1. Result'
    BY <1>1, <1>2, <1>3 DEF Decode, Result
  <2> QED
    BY <1>2, <2>1 DEF DecodeInv
<1>4. CASE UNCHANGED decodeVars
  <2>1. Result'
    BY <1>2, <1>4 DEF DecodeInv, Result, decodeVars
  <2> QED
    BY <1>2, <2>1 DEF DecodeInv
<1> QED
  BY <1>3, <1>4

\* The words and what has been made of them, along every behaviour.
THEOREM DecodeInvariant == DecodeSpec => []DecodeInv
BY InitDelivered, DecodeStep, PTL DEF DecodeSpec

\* What a long word decodes to.
LEMMA LongResult ==
  ASSUME DecodeInv, Long
  PROVE  /\ inst \in SUBSET (0 .. 31)
         /\ len # 0 => /\ len = 4
                       /\ Sound(out)
                       /\ meant.op # "panic" => Effect(out) = Effect(meant)
<1> DEFINE r == D32!dec32(inst)
<1>1. inst \in SUBSET (0 .. 31)
  BY DEF DecodeInv, Delivered
<1>2. Sound(r)
  BY <1>1, LongSound
<1>3. ASSUME meant.op # "panic" PROVE Effect(r) = Effect(meant)
  <2>1. Legal(meant) /\ inst = Assemble(meant)
    BY <1>3, BadIs DEF DecodeInv, Delivered
  <2> QED
    BY <2>1, Roundtrip
<1>4. len # 0 => len = 4 /\ out = r
  BY DEF DecodeInv, Result, r
<1> QED
  BY <1>1, <1>2, <1>3, <1>4

\* What a short one decodes to.
LEMMA ShortResult ==
  ASSUME DecodeInv, ~Long
  PROVE  /\ inst \in SUBSET (0 .. 31)
         /\ len # 0 => /\ len = 2
                       /\ Sound(out)
                       /\ meant.op # "panic" /\ ~Misread(Half) =>
                            Effect(out) = Effect(D32!dec32(Assemble(meant)))
<1> DEFINE h == Half
<1>1. inst \in SUBSET (0 .. 31) /\ meant = Expansion(h)
  BY DEF DecodeInv, Delivered
<1>2. len # 0 => len = 2 /\ out = D16!dec16(h)
  BY DEF DecodeInv, Result
<1>3. h \in SUBSET Int /\ ~({0, 1} \subseteq h)
  BY <1>1 DEF Long, Half
<1> HIDE DEF h
<1>4. Sound(D16!dec16(h))
  BY <1>3, CompressedResult
<1>5. ASSUME meant.op # "panic", ~Misread(h)
      PROVE  Effect(D16!dec16(h)) = Effect(D32!dec32(Assemble(meant)))
  <2>1. Effect(D16!dec16(h)) = Effect(Expansion(h)) /\ Legal(Expansion(h))
    BY <1>1, <1>3, <1>5, ExpansionIs
  <2>2. Effect(D32!dec32(Assemble(Expansion(h)))) = Effect(Expansion(h))
    BY <2>1, Roundtrip
  <2> QED
    BY <1>1, <2>1, <2>2
<1> QED
  BY <1>1, <1>2, <1>4, <1>5 DEF h

\* Before the instruction is decoded there is nothing in out.
LEMMA NoResultYet ==
  ASSUME DecodeInv, len = 0
  PROVE  Sound(out)
<1>1. out = Decoded("panic", 0, 0, 0, {})
  BY DEF DecodeInv, Result, Bad
<1> QED
  BY <1>1, CompressedSound, Numbers DEF Compressed

\* out is sound at all times.
LEMMA SoundAlways == DecodeInv => Sound(out)
BY LongResult, ShortResult, NoResultYet

\* The invariant bounds what execute() indexes with.
LEMMA InvTypeOK == DecodeInv => TypeOK
<1> SUFFICES ASSUME DecodeInv PROVE TypeOK
  OBVIOUS
<1>1. inst \subseteq 0 .. 31
  BY LongResult, ShortResult
<1>2. out \in Instructions /\ len \in {0, 2, 4}
  BY SoundAlways DEF Sound, DecodeInv, Result
<1> QED
  BY <1>1, <1>2 DEF TypeOK

\* What decode hands to execute() is an operation it knows, registers it has, a 64-bit
\* immediate and a csr number: nothing that indexes past reg[] or the csr table, for
\* every compressed word and any 32-bit words, reserved encodings included.
THEOREM DecodeTypeOK == DecodeSpec => []TypeOK
BY DecodeInvariant, InvTypeOK, PTL

\* The invariant gives the property of long words.
LEMMA InvAssembled == DecodeInv => AssembledIsDecoded
BY LongResult DEF AssembledIsDecoded

\* dec32 undoes the assembler, for every operation of the listing, with any registers,
\* any csr and any immediate that its format can hold.
THEOREM DecodeAssembled == DecodeSpec => []AssembledIsDecoded
BY DecodeInvariant, InvAssembled, PTL

\* The invariant gives the property of short words.
LEMMA InvCompressed == DecodeInv => CompressedIsExpansion
BY ShortResult DEF CompressedIsExpansion

\* dec16 and dec32 agree on every compressed instruction of RV64C with D but c.fsdsp and
\* c.add to x0 (which dec16 has no case for and takes for c.ebreak), whatever follows it
\* in memory.
THEOREM DecodeCompressed == DecodeSpec => []CompressedIsExpansion
BY DecodeInvariant, InvCompressed, PTL

\* The invariant gives the property of operations without a result.
LEMMA InvNoStray == DecodeInv => NoStrayResult
BY SoundAlways DEF Sound, NoStrayResult

\* Of any 32-bit word and of every compressed one: no decoder leaves an rd for an
\* operation that computes no value, whatever bits a store or a branch has in that place,
\* except the fences and the privileged operations of KeepsRd.
THEOREM DecodeNoStray == DecodeSpec => []NoStrayResult
BY DecodeInvariant, InvNoStray, PTL
=============================================================================
