---------------------------- MODULE VirtioProofs ----------------------------
(***************************************************************************)
(* Proofs about VirtioBlk and VirtioMmio, for rings of any size, indices   *)
(* of any width and any requests: no kick and no completion is lost, what  *)
(* the driver finds on the used ring is finished, and rings, slot and      *)
(* worker implement BlockDevice.                                           *)
(***************************************************************************)
EXTENDS VirtioMmio, SequenceTheorems, FiniteSetTheorems, TLAPS

-----------------------------------------------------------------------------
(* Ring indices: numbers modulo IdxMod, and their slots, modulo Num.       *)

\* Quotient and remainder are unique.
LEMMA DivModIs ==
  ASSUME NEW n \in Nat \ {0}, NEW q \in Int, NEW r \in 0..(n - 1)
  PROVE  (n * q + r) % n = r /\ (n * q + r) \div n = q
<1> DEFINE a == n * q + r
           x == a \div n
           s == a % n
<1>1. a \in Int
  OBVIOUS
<1> HIDE DEF a
<1>2. s \in 0..(n - 1) /\ x \in Int /\ a = n * x + s
  BY <1>1
<1>3. n * q + r = n * x + s
  BY <1>2 DEF a
<1> HIDE DEF x, s
<1>4. ~(q > x)
  <2> SUFFICES ASSUME q > x PROVE FALSE
    OBVIOUS
  <2>1. q - x - 1 \in Nat /\ n * q = n * x + n + n * (q - x - 1)
    BY <1>2
  <2>2. n * (q - x - 1) \in Nat
    BY <2>1
  <2> QED
    BY <1>2, <1>3, <2>1, <2>2
<1>5. ~(x > q)
  <2> SUFFICES ASSUME x > q PROVE FALSE
    OBVIOUS
  <2>1. x - q - 1 \in Nat /\ n * x = n * q + n + n * (x - q - 1)
    BY <1>2
  <2>2. n * (x - q - 1) \in Nat
    BY <2>1
  <2> QED
    BY <1>2, <1>3, <2>1, <2>2
<1>6. r = s /\ q = x
  BY <1>2, <1>3, <1>4, <1>5
<1> QED
  BY <1>6 DEF s, x, a

\* The remainder alone.
LEMMA ModIs ==
  ASSUME NEW n \in Nat \ {0}, NEW q \in Int, NEW r \in 0..(n - 1)
  PROVE  (n * q + r) % n = r
BY DivModIs

\* A multiple of the divisor more makes no difference to the remainder.
LEMMA ModShift ==
  ASSUME NEW n \in Nat \ {0}, NEW q \in Int, NEW a \in Int
  PROVE  (n * q + a) % n = a % n
<1> DEFINE x == a \div n
           r == a % n
<1>1. r \in 0..(n - 1) /\ x \in Int /\ a = n * x + r
  OBVIOUS
<1> HIDE DEF x, r
<1>2. q + x \in Int /\ n * q + a = n * (q + x) + r
  BY <1>1
<1>3. (n * (q + x) + r) % n = r
  BY <1>1, <1>2, ModIs
<1> QED
  BY <1>2, <1>3 DEF r

\* An index and the distance between two, without the remainders.
LEMMA IndexFacts ==
  /\ Num \in Nat \ {0} /\ IdxMod \in Nat \ {0} /\ Num < IdxMod
  /\ \A i \in Index : /\ i \in Nat /\ i % Num \in Heads
                      /\ Inc(i) \in Index
                      /\ Inc(i) = IF i + 1 = IdxMod THEN 0 ELSE i + 1
                      /\ Inc(i) # i
  /\ \A i, j \in Index : /\ Gap(i, j) \in Index
                         /\ Gap(i, j) = IF j <= i THEN i - j ELSE IdxMod + i - j
                         /\ Gap(i, j) = 0 <=> i = j
                         /\ Gap(i, j) + 1 < IdxMod => Gap(Inc(i), j) = Gap(i, j) + 1
                         /\ i # j => Gap(i, Inc(j)) = Gap(i, j) - 1
<1>1. Num \in Nat \ {0} /\ IdxMod \in Nat \ {0} /\ Num < IdxMod
  BY VirtioAssumption
<1>2. \A i \in Index : /\ i \in Nat /\ i % Num \in Heads
                       /\ Inc(i) \in Index
                       /\ Inc(i) = IF i + 1 = IdxMod THEN 0 ELSE i + 1
                       /\ Inc(i) # i
  <2> SUFFICES ASSUME NEW i \in Index
               PROVE  /\ i \in Nat /\ i % Num \in Heads
                      /\ Inc(i) = IF i + 1 = IdxMod THEN 0 ELSE i + 1
    BY <1>1 DEF Index
  <2>1. i \in Nat /\ i < IdxMod
    BY <1>1 DEF Index
  <2>2. i % Num \in Heads
    BY <1>1, <2>1 DEF Heads
  <2>3. CASE i + 1 = IdxMod
    <3>1. (IdxMod * 1 + 0) % IdxMod = 0
      BY <1>1, ModIs
    <3> QED
      BY <1>1, <2>1, <2>2, <2>3, <3>1 DEF Inc
  <2>4. CASE i + 1 # IdxMod
    BY <1>1, <2>1, <2>2, <2>4 DEF Inc
  <2> QED
    BY <2>3, <2>4
<1>3. \A i, j \in Index : Gap(i, j) = IF j <= i THEN i - j ELSE IdxMod + i - j
  <2> SUFFICES ASSUME NEW i \in Index, NEW j \in Index
               PROVE  Gap(i, j) = IF j <= i THEN i - j ELSE IdxMod + i - j
    OBVIOUS
  <2>1. CASE j <= i
    <3>1. i - j \in 0..(IdxMod - 1) /\ IdxMod * 1 + (i - j) = IdxMod + i - j
      BY <1>1, <2>1 DEF Index
    <3>2. (IdxMod * 1 + (i - j)) % IdxMod = i - j
      BY <1>1, <3>1, ModIs
    <3> QED
      BY <2>1, <3>1, <3>2 DEF Gap
  <2>2. CASE ~(j <= i)
    <3>1. IdxMod + i - j \in 0..(IdxMod - 1)
      BY <1>1, <2>2 DEF Index
    <3>2. (IdxMod + i - j) % IdxMod = IdxMod + i - j
      BY <1>1, <3>1
    <3> QED
      BY <2>2, <3>2 DEF Gap
  <2> QED
    BY <2>1, <2>2
<1>4. ASSUME NEW i \in Index, NEW j \in Index
      PROVE  /\ Gap(i, j) \in Index
             /\ Gap(i, j) = 0 <=> i = j
             /\ Gap(i, j) + 1 < IdxMod => Gap(Inc(i), j) = Gap(i, j) + 1
             /\ i # j => Gap(i, Inc(j)) = Gap(i, j) - 1
  <2>1. /\ Gap(i, j) = IF j <= i THEN i - j ELSE IdxMod + i - j
        /\ Gap(Inc(i), j) = IF j <= Inc(i) THEN Inc(i) - j ELSE IdxMod + Inc(i) - j
        /\ Gap(i, Inc(j)) = IF Inc(j) <= i THEN i - Inc(j) ELSE IdxMod + i - Inc(j)
    BY <1>2, <1>3
  <2>2. /\ i \in Nat /\ i < IdxMod /\ j \in Nat /\ j < IdxMod
        /\ Inc(i) = (IF i + 1 = IdxMod THEN 0 ELSE i + 1)
        /\ Inc(j) = (IF j + 1 = IdxMod THEN 0 ELSE j + 1)
    BY <1>1, <1>2 DEF Index
  <2> HIDE DEF Inc, Gap
  <2>3. Gap(i, j) \in Index /\ (Gap(i, j) = 0 <=> i = j)
    BY <1>1, <2>1, <2>2 DEF Index
  <2>4. Gap(i, j) + 1 < IdxMod => Gap(Inc(i), j) = Gap(i, j) + 1
    BY <1>1, <2>1, <2>2
  <2>5. i # j => Gap(i, Inc(j)) = Gap(i, j) - 1
    BY <1>1, <2>1, <2>2
  <2> QED
    BY <2>3, <2>4, <2>5
<1> QED
  BY <1>1, <1>2, <1>3, <1>4

\* The slot of the index k entries behind i, whether or not the index has wrapped.
Slot(i, k) == (i + k) % Num

\* A window of at most Num entries uses no slot twice.
LEMMA SlotFacts ==
  ASSUME NEW i \in Index
  PROVE  /\ \A k \in Nat : Slot(i, k) \in Heads
         /\ \A k \in Nat : Slot(Inc(i), k) = Slot(i, k + 1)
         /\ \A j \in Index : Slot(i, Gap(j, i)) = j % Num
         /\ \A k, l \in 0..(Num - 1) : Slot(i, k) = Slot(i, l) => k = l
<1>1. Num \in Nat \ {0} /\ IdxMod \in Nat \ {0} /\ i \in Nat
  BY IndexFacts
<1> DEFINE q == IdxMod \div Num
<1>2. q \in Int /\ IdxMod = Num * q
  BY <1>1, VirtioAssumption
<1> HIDE DEF q
<1>3. ASSUME NEW k \in Int PROVE (IdxMod + k) % Num = k % Num
  BY <1>1, <1>2, ModShift
<1>4. \A k \in Nat : Slot(i, k) \in Heads
  BY <1>1 DEF Slot, Heads
<1>5. ASSUME NEW k \in Nat PROVE Slot(Inc(i), k) = Slot(i, k + 1)
  <2>1. Inc(i) = IF i + 1 = IdxMod THEN 0 ELSE i + 1
    BY IndexFacts
  <2>2. CASE i + 1 = IdxMod
    <3>1. (IdxMod + k) % Num = k % Num
      BY <1>3
    <3>2. i + (k + 1) = IdxMod + k /\ 0 + k = k
      BY <1>1, <2>2
    <3> QED
      BY <2>1, <2>2, <3>1, <3>2 DEF Slot
  <2>3. CASE i + 1 # IdxMod
    BY <1>1, <2>1, <2>3 DEF Slot
  <2> QED
    BY <2>2, <2>3
<1>6. ASSUME NEW j \in Index PROVE Slot(i, Gap(j, i)) = j % Num
  <2>1. j \in Nat /\ Gap(j, i) = IF i <= j THEN j - i ELSE IdxMod + j - i
    BY IndexFacts
  <2>2. (IdxMod + j) % Num = j % Num
    BY <1>3, <2>1
  <2> QED
    BY <1>1, <2>1, <2>2 DEF Slot
<1>7. ASSUME NEW k \in 0..(Num - 1), NEW l \in 0..(Num - 1), Slot(i, k) = Slot(i, l)
      PROVE  k = l
  <2> DEFINE r == (i + k) % Num
             x == (i + k) \div Num
             y == (i + l) \div Num
  <2>1. /\ r \in Int /\ x \in Int /\ y \in Int
        /\ i + k = Num * x + r /\ i + l = Num * y + r
    BY <1>1, <1>7 DEF Slot
  <2> HIDE DEF r, x, y
  <2>2. k - l = Num * (x - y)
    BY <1>1, <2>1
  <2>3. ~(x - y >= 1)
    <3> SUFFICES ASSUME x - y >= 1 PROVE FALSE
      OBVIOUS
    <3>1. (x - y) - 1 \in Nat /\ Num * (x - y) = Num + Num * ((x - y) - 1)
      BY <1>1, <2>1
    <3>2. Num * ((x - y) - 1) \in Nat
      BY <1>1, <3>1
    <3> QED
      BY <1>1, <2>2, <3>1, <3>2
  <2>4. ~(y - x >= 1)
    <3> SUFFICES ASSUME y - x >= 1 PROVE FALSE
      OBVIOUS
    <3>1. (y - x) - 1 \in Nat /\ l - k = Num + Num * ((y - x) - 1)
      BY <1>1, <2>1, <2>2
    <3>2. Num * ((y - x) - 1) \in Nat
      BY <1>1, <3>1
    <3> QED
      BY <1>1, <3>1, <3>2
  <2>5. x = y
    BY <2>1, <2>3, <2>4
  <2> QED
    BY <1>1, <2>1, <2>5
<1> QED
  BY <1>4, <1>5, <1>6, <1>7

-----------------------------------------------------------------------------
(* The entries of a ring between two indices.                              *)

Rings == [Heads -> Heads]

\* A window is as long as its indices are apart, and wraps around.
LEMMA WindowFacts ==
  ASSUME NEW ring \in Rings, NEW i \in Index, NEW j \in Index
  PROVE  /\ Window(ring, i, j) \in Seq(Heads)
         /\ Len(Window(ring, i, j)) = Gap(j, i)
         /\ \A k \in 1..Gap(j, i) : Window(ring, i, j)[k] = ring[Slot(i, k - 1)]
<1>1. Gap(j, i) \in Nat /\ i \in Nat /\ Num \in Nat \ {0}
  BY IndexFacts DEF Index
<1>2. ASSUME NEW k \in 1..Gap(j, i)
      PROVE  /\ Window(ring, i, j)[k] = ring[Slot(i, k - 1)]
             /\ ring[(i + k - 1) % Num] \in Heads
  <2>1. k - 1 \in Nat /\ i + k - 1 = i + (k - 1)
    BY <1>1
  <2>2. Slot(i, k - 1) \in Heads /\ (i + k - 1) % Num = Slot(i, k - 1)
    BY <2>1, SlotFacts DEF Slot
  <2> QED
    BY <2>2 DEF Window, Rings
<1> DEFINE n == Gap(j, i)
<1> HIDE DEF n
<1>3. Window(ring, i, j) = [k \in 1..n |-> ring[(i + k - 1) % Num]]
  BY DEF Window, n
<1>4. Window(ring, i, j) \in [1..n -> Heads] /\ n \in Nat
  BY <1>1, <1>2, <1>3 DEF n
<1> DEFINE w == Window(ring, i, j)
<1> HIDE DEF w
<1>5. w \in Seq(Heads)
  BY <1>4, SeqDef DEF w
<1>6. Len(w) \in Nat /\ DOMAIN w = 1..Len(w)
  BY <1>5, LenProperties
<1>7. 1..n = 1..Len(w)
  BY <1>4, <1>6 DEF w
<1>8. n = Len(w)
  <2>1. n \in Nat /\ Len(w) \in Nat
    BY <1>4, <1>6
  <2>2. n # 0 => n \in 1..Len(w)
    BY <1>7, <2>1
  <2>3. Len(w) # 0 => Len(w) \in 1..n
    BY <1>7, <2>1
  <2> QED
    BY <2>1, <2>2, <2>3
<1> QED
  BY <1>2, <1>5, <1>8 DEF n, w

\* An entry is written behind the window, which need not hold every slot.
LEMMA WindowPut ==
  ASSUME NEW ring \in Rings, NEW i \in Index, NEW j \in Index, Gap(j, i) < Num,
         NEW new \in Rings, \A k \in Heads \ {j % Num} : new[k] = ring[k]
  PROVE  Window(new, i, j) = Window(ring, i, j)
<1>0. j % Num \in Heads /\ Gap(j, i) \in Nat /\ Num \in Nat \ {0}
  BY IndexFacts DEF Index
<1>1. \A k \in Heads \ {j % Num} : new[k] = ring[k]
  OBVIOUS
<1>2. /\ Window(ring, i, j) \in Seq(Heads) /\ Window(new, i, j) \in Seq(Heads)
      /\ Len(Window(ring, i, j)) = Gap(j, i) /\ Len(Window(new, i, j)) = Gap(j, i)
      /\ \A k \in 1..Gap(j, i) : /\ Window(new, i, j)[k] = new[Slot(i, k - 1)]
                                  /\ Window(ring, i, j)[k] = ring[Slot(i, k - 1)]
  <2>1. /\ Window(ring, i, j) \in Seq(Heads) /\ Len(Window(ring, i, j)) = Gap(j, i)
        /\ \A k \in 1..Gap(j, i) : Window(ring, i, j)[k] = ring[Slot(i, k - 1)]
    BY WindowFacts
  <2>2. /\ Window(new, i, j) \in Seq(Heads) /\ Len(Window(new, i, j)) = Gap(j, i)
        /\ \A k \in 1..Gap(j, i) : Window(new, i, j)[k] = new[Slot(i, k - 1)]
    BY WindowFacts
  <2> QED
    BY <2>1, <2>2
<1>3. ASSUME NEW k \in 1..Gap(j, i)
      PROVE  Window(new, i, j)[k] = Window(ring, i, j)[k]
  <2>1. k - 1 \in 0..(Num - 1) /\ Gap(j, i) \in 0..(Num - 1) /\ k - 1 # Gap(j, i)
    BY <1>0
  <2>2. Slot(i, k - 1) # j % Num /\ Slot(i, k - 1) \in Heads
    BY <2>1, SlotFacts
  <2>3. new[Slot(i, k - 1)] = ring[Slot(i, k - 1)]
    BY <1>1, <2>2
  <2> QED
    BY <1>2, <2>3
<1> QED
  BY <1>2, <1>3, SeqEqual

\* The end of the window moves on by one.
LEMMA WindowGrow ==
  ASSUME NEW ring \in Rings, NEW i \in Index, NEW j \in Index,
         Gap(j, i) < Num
  PROVE  Window(ring, i, Inc(j)) = Append(Window(ring, i, j), ring[j % Num])
<1> DEFINE w == Window(ring, i, j)
           v == Window(ring, i, Inc(j))
           e == ring[j % Num]
<1>0. /\ Gap(j, i) \in Nat /\ Num \in Nat \ {0}
      /\ Inc(j) \in Index /\ Gap(Inc(j), i) = Gap(j, i) + 1 /\ e \in Heads
  <2>1. /\ Gap(j, i) \in Nat /\ Num \in Nat \ {0} /\ IdxMod \in Nat /\ Num < IdxMod
        /\ Inc(j) \in Index /\ j % Num \in Heads
    BY IndexFacts DEF Index
  <2>2. Gap(Inc(j), i) = Gap(j, i) + 1
    BY <2>1, IndexFacts
  <2> QED
    BY <2>1, <2>2 DEF Rings
<1>1. /\ w \in Seq(Heads) /\ Len(w) = Gap(j, i)
      /\ \A k \in 1..Gap(j, i) : w[k] = ring[Slot(i, k - 1)]
  BY WindowFacts
<1>2. /\ v \in Seq(Heads) /\ Len(v) = Gap(j, i) + 1
      /\ \A k \in 1..(Gap(j, i) + 1) : v[k] = ring[Slot(i, k - 1)]
  BY <1>0, WindowFacts
<1>3. Slot(i, Gap(j, i)) = j % Num
  BY SlotFacts
<1> HIDE DEF w, v, e
<1>4. /\ Append(w, e) \in Seq(Heads) /\ Len(Append(w, e)) = Gap(j, i) + 1
      /\ \A k \in 1..Gap(j, i) : Append(w, e)[k] = w[k]
      /\ Append(w, e)[Gap(j, i) + 1] = e
  BY <1>0, <1>1, AppendProperties
<1>5. ASSUME NEW k \in 1..(Gap(j, i) + 1) PROVE v[k] = Append(w, e)[k]
  <2>1. CASE k \in 1..Gap(j, i)
    BY <1>1, <1>2, <1>4, <2>1
  <2>2. CASE k = Gap(j, i) + 1
    <3>1. k - 1 = Gap(j, i) /\ v[k] = ring[Slot(i, k - 1)]
      BY <1>0, <1>2, <2>2
    <3> QED
      BY <1>3, <1>4, <2>2, <3>1 DEF e
  <2>3. k \in 1..Gap(j, i) \/ k = Gap(j, i) + 1
    BY <1>0
  <2> QED
    BY <2>1, <2>2, <2>3
<1>6. v = Append(w, e)
  BY <1>2, <1>4, <1>5, SeqEqual
<1> QED
  BY <1>6 DEF v, w, e

\* The beginning of the window moves on by one.
LEMMA WindowShrink ==
  ASSUME NEW ring \in Rings, NEW i \in Index, NEW j \in Index, i # j
  PROVE  /\ Window(ring, i, j) # <<>>
         /\ Head(Window(ring, i, j)) = ring[i % Num]
         /\ Tail(Window(ring, i, j)) = Window(ring, Inc(i), j)
         /\ Window(ring, i, j) = <<ring[i % Num]>> \o Window(ring, Inc(i), j)
<1> DEFINE w == Window(ring, i, j)
           v == Window(ring, Inc(i), j)
<1>0. /\ i % Num \in Heads /\ Gap(j, i) \in Nat \ {0} /\ Num \in Nat \ {0}
      /\ Inc(i) \in Index /\ Gap(j, Inc(i)) = Gap(j, i) - 1 /\ i \in Nat
  <2>1. Gap(j, i) \in Nat /\ Gap(j, i) # 0 /\ Gap(j, Inc(i)) = Gap(j, i) - 1
    BY IndexFacts DEF Index
  <2> QED
    BY <2>1, IndexFacts
<1>1. /\ w \in Seq(Heads) /\ Len(w) = Gap(j, i)
      /\ \A k \in 1..Gap(j, i) : w[k] = ring[Slot(i, k - 1)]
  BY WindowFacts
<1>2. /\ v \in Seq(Heads) /\ Len(v) = Gap(j, i) - 1
      /\ \A k \in 1..(Gap(j, i) - 1) : v[k] = ring[Slot(Inc(i), k - 1)]
  <2>1. /\ v \in Seq(Heads) /\ Len(v) = Gap(j, Inc(i))
        /\ \A k \in 1..Gap(j, Inc(i)) : v[k] = ring[Slot(Inc(i), k - 1)]
    BY <1>0, WindowFacts
  <2> QED
    BY <1>0, <2>1
<1> HIDE DEF w, v
<1>3. w # <<>> /\ w[1] = ring[i % Num]
  <2>1. w[1] = ring[Slot(i, 0)]
    BY <1>0, <1>1
  <2>2. i + 0 = i
    BY <1>0
  <2> QED
    BY <1>0, <1>1, <2>1, <2>2 DEF Slot
<1>4. /\ Head(w) = w[1] /\ Tail(w) \in Seq(Heads) /\ Len(Tail(w)) = Gap(j, i) - 1
      /\ \A k \in 1..(Gap(j, i) - 1) : Tail(w)[k] = w[k + 1]
  BY <1>1, <1>3
<1>5. ASSUME NEW k \in 1..(Gap(j, i) - 1) PROVE Tail(w)[k] = v[k]
  <2>1. /\ k + 1 \in 1..Gap(j, i) /\ k - 1 \in Nat /\ (k + 1) - 1 = (k - 1) + 1
    BY <1>0
  <2>2. Slot(Inc(i), k - 1) = Slot(i, (k + 1) - 1)
    BY <2>1, SlotFacts
  <2> QED
    BY <1>1, <1>2, <1>4, <2>1, <2>2
<1>6. Tail(w) = v
  BY <1>2, <1>4, <1>5, SeqEqual
<1>7. w = <<Head(w)>> \o Tail(w)
  BY <1>1, <1>3
<1> QED
  BY <1>3, <1>4, <1>6, <1>7 DEF w, v

\* Between equal indices there is nothing.
LEMMA WindowEmpty ==
  ASSUME NEW ring \in Rings, NEW i \in Index
  PROVE  Window(ring, i, i) = <<>>
<1>1. Window(ring, i, i) \in Seq(Heads) /\ Len(Window(ring, i, i)) = 0
  BY WindowFacts, IndexFacts
<1> QED
  BY <1>1

-----------------------------------------------------------------------------
(* Queues of requests.                                                     *)

\* No descriptor is in the queue twice.
Distinct(s) == \A i, j \in 1..Len(s) : s[i] = s[j] => i = j

\* There are not more of them than descriptors.
LEMMA DistinctIsShort ==
  ASSUME NEW s \in Seq(Heads), Distinct(s)
  PROVE  Len(s) <= Num
<1>1. Num \in Nat \ {0} /\ Len(s) \in Nat /\ s \in [1..Len(s) -> Heads]
  BY IndexFacts
<1>2. /\ IsFiniteSet(Heads) /\ Cardinality(Heads) = Num
      /\ IsFiniteSet(1..Len(s)) /\ Cardinality(1..Len(s)) = Len(s)
  <2>1. /\ IsFiniteSet(0..(Num - 1))
        /\ Cardinality(0..(Num - 1)) = IF 0 > Num - 1 THEN 0 ELSE (Num - 1) - 0 + 1
    BY <1>1, FS_Interval
  <2>2. /\ IsFiniteSet(1..Len(s))
        /\ Cardinality(1..Len(s)) = IF 1 > Len(s) THEN 0 ELSE Len(s) - 1 + 1
    BY <1>1, FS_Interval
  <2> QED
    BY <1>1, <2>1, <2>2 DEF Heads
<1>3. CASE Len(s) > Num
  <2>1. \E x, y \in 1..Len(s) : x # y /\ s[x] = s[y]
    BY <1>1, <1>2, <1>3, FS_PigeonHole
  <2> QED
    BY <2>1 DEF Distinct
<1> QED
  BY <1>1, <1>3

\* A descriptor that is not in the queue may join it.
LEMMA DistinctAppend ==
  ASSUME NEW s \in Seq(Heads), Distinct(s), NEW h \in Heads,
         \A i \in 1..Len(s) : s[i] # h
  PROVE  Append(s, h) \in Seq(Heads) /\ Distinct(Append(s, h))
<1>1. /\ Append(s, h) \in Seq(Heads) /\ Len(Append(s, h)) = Len(s) + 1 /\ Len(s) \in Nat
      /\ \A i \in 1..Len(s) : Append(s, h)[i] = s[i]
      /\ Append(s, h)[Len(s) + 1] = h
  BY AppendProperties
<1> QED
  BY <1>1 DEF Distinct

-----------------------------------------------------------------------------
(* The two queues of BlockDevice, as VirtioBlk holds them.                 *)

WorkTodo == IF workPc = "do" THEN working ELSE None
WorkDone == IF workPc \in {"status", "usedRing", "usedIdx"} THEN working ELSE None
Finished == Window(used, lastUsed, used_mem)
Waiting  == Window(avail, last_avail_idx, avail_idx)

Todo == OneOrNone(WorkTodo) \o OneOrNone(_req) \o OneOrNone(popped) \o Waiting
Done == Finished \o OneOrNone(WorkDone)
InFlight == Done \o Todo

\* The parts of the inductive invariant: the requests in flight are different and
\* the driver has not been given them back;
QueueOK == /\ Distinct(InFlight)
           /\ \A i \in 1..Len(InFlight) : request[InFlight[i]] # NoRequest

\* the driver kicks for every batch, and the device takes everything it is told of;
KickOK ==
  /\ cpuPc \in {"run", "claimed", "ackLoad", "ackStore", "reap"} => avail_idx = last_avail_idx
  /\ cpuPc = "adding" => avail_idx # last_avail_idx
  /\ kickIdx = IF cpuPc = "adding" THEN last_avail_idx ELSE avail_idx
  /\ "EVENT_IDX" \in guest_features => avail_event = last_avail_idx
  /\ popped # None => cpuPc = "handover" \/ panic
  /\ cpuPc = "handover" => popped # None

\* the worker has a request while it works on it, and has written its status and
\* its entry before it moves the index;
WorkerOK ==
  /\ working = None <=> workPc \in {"lock", "asleep"}
  /\ workPc \in {"usedRing", "usedIdx"} => statusByte[working]
  /\ workPc = "usedIdx" => used[used_mem % Num] = working
  /\ used_idx = used_mem

\* what the driver may find is finished.
WholeOK == \A k \in 1..Len(Finished) : statusByte[Finished[k]]

IInv == TypeOK /\ QueueOK /\ KickOK /\ WorkerOK /\ WholeOK

\* None is no descriptor.
LEMMA HeadFacts ==
  /\ None \notin Heads
  /\ OneOrNone(None) = <<>>
  /\ \A h \in Heads : OneOrNone(h) = <<h>>
  /\ \A h \in Heads \cup {None} : OneOrNone(h) \in Seq(Heads)
<1>1. None \notin Heads
  BY VirtioAssumption DEF None, Heads
<1>2. OneOrNone(None) = <<>> /\ <<>> \in Seq(Heads)
  BY DEF OneOrNone
<1>3. ASSUME NEW h \in Heads PROVE OneOrNone(h) = <<h>> /\ <<h>> \in Seq(Heads)
  BY <1>1 DEF OneOrNone
<1> QED
  BY <1>1, <1>2, <1>3

\* The queues are sequences of descriptors.
LEMMA QueueTypes ==
  ASSUME TypeOK
  PROVE  /\ Finished \in Seq(Heads) /\ Waiting \in Seq(Heads)
         /\ OneOrNone(WorkTodo) \in Seq(Heads) /\ OneOrNone(WorkDone) \in Seq(Heads)
         /\ OneOrNone(_req) \in Seq(Heads) /\ OneOrNone(popped) \in Seq(Heads)
         /\ WorkTodo \in Heads \cup {None} /\ WorkDone \in Heads \cup {None}
         /\ Todo \in Seq(Heads) /\ Done \in Seq(Heads) /\ InFlight \in Seq(Heads)
         /\ Len(Done) = Len(Finished) + Len(OneOrNone(WorkDone))
         /\ Len(Waiting) <= Len(Todo)
         /\ Len(InFlight) = Len(Done) + Len(Todo)
<1>1. Finished \in Seq(Heads) /\ Waiting \in Seq(Heads)
  BY WindowFacts DEF Finished, Waiting, TypeOK, Rings
<1>2. WorkTodo \in Heads \cup {None} /\ WorkDone \in Heads \cup {None}
  BY DEF WorkTodo, WorkDone, TypeOK
<1>3. /\ OneOrNone(WorkTodo) \in Seq(Heads) /\ OneOrNone(WorkDone) \in Seq(Heads)
      /\ OneOrNone(_req) \in Seq(Heads) /\ OneOrNone(popped) \in Seq(Heads)
  BY <1>2, HeadFacts DEF TypeOK
<1>4. /\ Done \in Seq(Heads)
      /\ Len(Done) = Len(Finished) + Len(OneOrNone(WorkDone))
  BY <1>1, <1>3, ConcatProperties DEF Done
<1>5. Todo \in Seq(Heads) /\ Len(Waiting) <= Len(Todo)
  <2> DEFINE a == OneOrNone(WorkTodo) \o OneOrNone(_req)
             b == a \o OneOrNone(popped)
  <2>1. a \in Seq(Heads)
    BY <1>3, ConcatProperties
  <2>2. b \in Seq(Heads)
    BY <1>3, <2>1, ConcatProperties
  <2>3. Todo = b \o Waiting
    BY DEF Todo
  <2> HIDE DEF b
  <2>4. Todo \in Seq(Heads) /\ Len(Todo) = Len(b) + Len(Waiting) /\ Len(b) \in Nat
        /\ Len(Waiting) \in Nat
    BY <1>1, <2>2, <2>3, ConcatProperties
  <2> QED
    BY <2>4
<1>6. InFlight \in Seq(Heads) /\ Len(InFlight) = Len(Done) + Len(Todo)
  BY <1>4, <1>5, ConcatProperties DEF InFlight
<1> QED
  BY <1>1, <1>2, <1>3, <1>4, <1>5, <1>6

\* What the driver may find, and what the worker completes, is in flight.
LEMMA InFlightMembers ==
  ASSUME TypeOK, QueueOK
  PROVE  /\ \A k \in 1..Len(Finished) : /\ Finished[k] \in Heads
                                         /\ request[Finished[k]] # NoRequest
         /\ WorkDone # None => WorkDone \in Heads /\ request[WorkDone] # NoRequest
<1>1. /\ Finished \in Seq(Heads) /\ OneOrNone(WorkDone) \in Seq(Heads)
      /\ Todo \in Seq(Heads) /\ Done \in Seq(Heads)
      /\ Len(Done) = Len(Finished) + Len(OneOrNone(WorkDone))
      /\ Len(InFlight) = Len(Done) + Len(Todo) /\ WorkDone \in Heads \cup {None}
  BY QueueTypes
<1>2. /\ Len(Finished) \in Nat /\ Len(Todo) \in Nat
      /\ Len(OneOrNone(WorkDone)) \in Nat
  BY <1>1
<1>3. \A k \in 1..Len(Done) : k \in 1..Len(InFlight) /\ InFlight[k] = Done[k]
  BY <1>1, <1>2, ConcatProperties DEF InFlight
<1>4. \A k \in 1..Len(Done) :
        Done[k] = IF k <= Len(Finished) THEN Finished[k]
                  ELSE OneOrNone(WorkDone)[k - Len(Finished)]
  BY <1>1, ConcatProperties DEF Done
<1>5. ASSUME NEW k \in 1..Len(Finished)
      PROVE  Finished[k] \in Heads /\ request[Finished[k]] # NoRequest
  <2>1. k \in 1..Len(Done) /\ Done[k] = Finished[k]
    BY <1>1, <1>2, <1>4
  <2> QED
    BY <1>1, <1>3, <2>1, ElementOfSeq DEF QueueOK
<1>6. ASSUME WorkDone # None
      PROVE  WorkDone \in Heads /\ request[WorkDone] # NoRequest
  <2>1. WorkDone \in Heads /\ OneOrNone(WorkDone) = <<WorkDone>>
    BY <1>1, <1>6, HeadFacts
  <2> DEFINE m == Len(Finished) + 1
  <2>2. m \in 1..Len(Done) /\ m - Len(Finished) = 1 /\ ~(m <= Len(Finished))
    BY <1>1, <1>2, <2>1
  <2> HIDE DEF m
  <2>3. Done[m] = OneOrNone(WorkDone)[1]
    BY <1>4, <2>2
  <2>4. Done[m] = WorkDone
    BY <2>1, <2>3
  <2> QED
    BY <1>3, <2>1, <2>2, <2>4 DEF QueueOK
<1> QED
  BY <1>5, <1>6

\* There is room on both rings.
LEMMA Room ==
  ASSUME TypeOK, QueueOK
  PROVE  /\ WorkDone # None => Gap(used_mem, lastUsed) < Num
         /\ \A h \in Heads : request[h] = NoRequest =>
              /\ \A i \in 1..Len(InFlight) : InFlight[i] # h
              /\ Gap(avail_idx, last_avail_idx) < Num
<1>0. /\ Num \in Nat /\ InFlight \in Seq(Heads)
      /\ Len(Done) = Len(Finished) + Len(OneOrNone(WorkDone))
      /\ Len(Waiting) <= Len(Todo)
      /\ Len(InFlight) = Len(Done) + Len(Todo)
      /\ Len(Finished) \in Nat /\ Len(Waiting) \in Nat /\ Len(Todo) \in Nat
      /\ Len(OneOrNone(WorkDone)) \in Nat /\ WorkDone \in Heads \cup {None}
  BY QueueTypes, IndexFacts
<1>1. Len(Finished) = Gap(used_mem, lastUsed) /\ Len(Waiting) = Gap(avail_idx, last_avail_idx)
  BY WindowFacts DEF TypeOK, Finished, Waiting, Rings
<1>2. Len(InFlight) <= Num
  BY <1>0, DistinctIsShort DEF QueueOK
<1>3. ASSUME WorkDone # None PROVE Gap(used_mem, lastUsed) < Num
  <2>1. Len(OneOrNone(WorkDone)) = 1
    BY <1>0, <1>3, HeadFacts
  <2> QED
    BY <1>0, <1>1, <1>2, <2>1
<1>4. ASSUME NEW h \in Heads, request[h] = NoRequest
      PROVE  /\ \A i \in 1..Len(InFlight) : InFlight[i] # h
             /\ Gap(avail_idx, last_avail_idx) < Num
  <2>1. \A i \in 1..Len(InFlight) : InFlight[i] # h
    BY <1>4 DEF QueueOK
  <2>2. Append(InFlight, h) \in Seq(Heads) /\ Distinct(Append(InFlight, h))
    BY <1>0, <2>1, DistinctAppend DEF QueueOK
  <2>3. Len(Append(InFlight, h)) = Len(InFlight) + 1
    BY <1>0
  <2>4. Len(InFlight) + 1 <= Num
    BY <2>2, <2>3, DistinctIsShort
  <2> QED
    BY <1>0, <1>1, <2>1, <2>4
<1> QED
  BY <1>3, <1>4
-----------------------------------------------------------------------------
(* Every step is a step of BlockDevice, or none.                           *)

\* BlockDevice with its queues under their names here.
LEMMA DeviceIs ==
  /\ Device!Init <=> /\ disk = [s \in Sectors |-> Blank]
                     /\ request = [h \in Heads |-> NoRequest]
                     /\ buffer = [h \in Heads |-> Blank]
                     /\ Todo = <<>> /\ Done = <<>>
  /\ Device!Submit <=> \E h \in Heads, r \in Requests :
        /\ request[h] = NoRequest
        /\ request' = [request EXCEPT ![h] = r]
        /\ buffer' = [buffer EXCEPT ![h] = r.data]
        /\ Todo' = Append(Todo, h)
        /\ UNCHANGED <<disk, Done>>
  /\ Device!Execute <=>
        /\ Todo # <<>>
        /\ LET h == Head(Todo)
               r == request[h]
           IN  /\ disk' = IF r.kind = "out" THEN [disk EXCEPT ![r.sector] = buffer[h]]
                          ELSE disk
               /\ buffer' = IF r.kind = "in" THEN [buffer EXCEPT ![h] = disk[r.sector]]
                            ELSE buffer
               /\ Done' = Append(Done, h)
        /\ Todo' = Tail(Todo)
        /\ UNCHANGED request
  /\ Device!GiveBack <=> /\ Done # <<>>
                         /\ request' = [request EXCEPT ![Head(Done)] = NoRequest]
                         /\ Done' = Tail(Done)
                         /\ UNCHANGED <<disk, buffer, Todo>>
  /\ Device!Next <=> Device!Submit \/ Device!Execute \/ Device!GiveBack
  /\ UNCHANGED Device!vars <=> UNCHANGED <<disk, request, buffer, Todo, Done>>
<1>1. Device!Init <=> /\ disk = [s \in Sectors |-> Blank]
                     /\ request = [h \in Heads |-> NoRequest]
                     /\ buffer = [h \in Heads |-> Blank]
                     /\ Todo = <<>> /\ Done = <<>>
  BY DEF Device!Init, Todo, Done, WorkTodo, WorkDone, Finished, Waiting
<1>2. Device!Submit <=> \E h \in Heads, r \in Requests :
        /\ request[h] = NoRequest
        /\ request' = [request EXCEPT ![h] = r]
        /\ buffer' = [buffer EXCEPT ![h] = r.data]
        /\ Todo' = Append(Todo, h)
        /\ UNCHANGED <<disk, Done>>
  BY DEF Device!Submit, Todo, Done, WorkTodo, WorkDone, Finished, Waiting
<1>3. Device!Execute <=>
        /\ Todo # <<>>
        /\ LET h == Head(Todo)
               r == request[h]
           IN  /\ disk' = IF r.kind = "out" THEN [disk EXCEPT ![r.sector] = buffer[h]]
                          ELSE disk
               /\ buffer' = IF r.kind = "in" THEN [buffer EXCEPT ![h] = disk[r.sector]]
                            ELSE buffer
               /\ Done' = Append(Done, h)
        /\ Todo' = Tail(Todo)
        /\ UNCHANGED request
  BY DEF Device!Execute, Todo, Done, WorkTodo, WorkDone, Finished, Waiting
<1>4. Device!GiveBack <=> /\ Done # <<>>
                         /\ request' = [request EXCEPT ![Head(Done)] = NoRequest]
                         /\ Done' = Tail(Done)
                         /\ UNCHANGED <<disk, buffer, Todo>>
  BY DEF Device!GiveBack, Todo, Done, WorkTodo, WorkDone, Finished, Waiting
<1>5. Device!Next <=> Device!Submit \/ Device!Execute \/ Device!GiveBack
  BY DEF Device!Next
<1>6. UNCHANGED Device!vars <=> UNCHANGED <<disk, request, buffer, Todo, Done>>
  BY DEF Device!vars, Todo, Done, WorkTodo, WorkDone, Finished, Waiting
<1> QED
  BY <1>1, <1>2, <1>3, <1>4, <1>5, <1>6

\* Where the worker goes from each step.
LEMMA StepIs ==
  /\ Step("do") => ~panic /\ workPc = "do" /\ workPc' = "status"
  /\ Step("status") => ~panic /\ workPc = "status" /\ workPc' = "usedRing"
  /\ Step("usedRing") => ~panic /\ workPc = "usedRing" /\ workPc' = "usedIdx"
  /\ Step("usedIdx") => ~panic /\ workPc = "usedIdx" /\ workPc' = "isr"
  /\ Step("isr") => ~panic /\ workPc = "isr" /\ workPc' = "signal"
  /\ Step("signal") => ~panic /\ workPc = "signal" /\ workPc' = "lock"
<1> DEFINE next(i) == CASE i = 1 -> "status" [] i = 2 -> "usedRing" [] i = 3 -> "usedIdx"
                        [] i = 4 -> "isr" [] i = 5 -> "signal" [] OTHER -> "lock"
           this(i) == CASE i = 1 -> "do" [] i = 2 -> "status" [] i = 3 -> "usedRing"
                        [] i = 4 -> "usedIdx" [] i = 5 -> "isr" [] OTHER -> "signal"
<1>1. Len(Order) = 7 /\ \A i \in 1..6 : Order[i] = this(i) /\ Order[i + 1] = next(i)
  BY DEF Order
<1>2. ASSUME NEW pc, Step(pc)
      PROVE  ~panic /\ workPc = pc /\ \E i \in 1..6 : pc = this(i) /\ workPc' = next(i)
  <2>1. PICK i \in 1..(Len(Order) - 1) : Order[i] = pc /\ workPc' = Order[i + 1]
    BY <1>2 DEF Step
  <2>2. i \in 1..6
    BY <1>1
  <2> QED
    BY <1>1, <1>2, <2>1, <2>2 DEF Step, Alive
<1> QED
  BY <1>2

\* Steps that touch no part of a queue.
LEMMA QueueSame ==
  ASSUME UNCHANGED <<avail, avail_idx, last_avail_idx, used, used_mem, lastUsed,
                     popped, _req, WorkTodo, WorkDone>>
  PROVE  UNCHANGED <<Todo, Done>>
BY DEF Todo, Done, Waiting, Finished, WorkTodo, WorkDone

\* Concatenation, at either end of a queue.
LEMMA ConcatFacts ==
  ASSUME NEW a \in Seq(Heads), NEW b \in Seq(Heads), NEW h \in Heads
  PROVE  /\ a \o <<>> = a /\ <<>> \o a = a
         /\ a \o Append(b, h) = Append(a \o b, h)
         /\ Append(a, h) = a \o <<h>>
         /\ <<h>> \o a # <<>> /\ Head(<<h>> \o a) = h /\ Tail(<<h>> \o a) = a
         /\ a # <<>> => /\ Head(a) \in Heads /\ Tail(a) \in Seq(Heads)
                        /\ a = <<Head(a)>> \o Tail(a)
                        /\ a \o b # <<>> /\ Head(a \o b) = Head(a)
                        /\ Tail(a \o b) = Tail(a) \o b
<1>0. <<h>> \in Seq(Heads) /\ <<>> \in Seq(Heads)
  OBVIOUS
<1>1. a \o <<>> = a /\ <<>> \o a = a
  BY ConcatEmptySeq
<1>2. Append(a, h) = a \o <<h>>
  BY AppendIsConcat
<1>3. a \o Append(b, h) = Append(a \o b, h)
  <2>1. a \o b \in Seq(Heads)
    BY ConcatProperties
  <2>2. Append(b, h) = b \o <<h>> /\ Append(a \o b, h) = (a \o b) \o <<h>>
    BY <2>1, AppendIsConcat
  <2> QED
    BY <1>0, <2>2, ConcatAssociative
<1>4. ASSUME NEW c \in Seq(Heads), NEW g \in Heads
      PROVE  <<g>> \o c # <<>> /\ Head(<<g>> \o c) = g /\ Tail(<<g>> \o c) = c
  <2> DEFINE d == <<g>> \o c
  <2>1. <<g>> \in Seq(Heads) /\ Len(<<g>>) = 1 /\ <<g>>[1] = g /\ Len(c) \in Nat
    OBVIOUS
  <2>2. /\ d \in Seq(Heads) /\ Len(d) = 1 + Len(c)
        /\ \A i \in 1..(1 + Len(c)) : d[i] = IF i <= 1 THEN <<g>>[i] ELSE c[i - 1]
    BY <2>1, ConcatProperties
  <2> HIDE DEF d
  <2>3. d # <<>> /\ d[1] = g
    BY <2>1, <2>2
  <2>4. /\ Tail(d) \in Seq(Heads) /\ Len(Tail(d)) = Len(d) - 1
        /\ \A i \in 1..Len(Tail(d)) : Tail(d)[i] = d[i + 1]
    BY <2>2, <2>3, HeadTailProperties
  <2>5. \A i \in 1..Len(Tail(d)) : Tail(d)[i] = c[i]
    BY <2>1, <2>2, <2>4
  <2>6. Len(Tail(d)) = Len(c)
    BY <2>1, <2>2, <2>4
  <2>7. Tail(d) = c
    BY <2>4, <2>5, <2>6, SeqEqual
  <2>8. Head(d) = g
    BY <2>2, <2>3
  <2> QED
    BY <2>3, <2>7, <2>8 DEF d
<1>5. ASSUME a # <<>>
      PROVE  /\ Head(a) \in Heads /\ Tail(a) \in Seq(Heads)
             /\ a = <<Head(a)>> \o Tail(a)
             /\ a \o b # <<>> /\ Head(a \o b) = Head(a)
             /\ Tail(a \o b) = Tail(a) \o b
  <2>1. Head(a) \in Heads /\ Tail(a) \in Seq(Heads) /\ a = <<Head(a)>> \o Tail(a)
    BY <1>5, HeadTailProperties
  <2> DEFINE g == Head(a)
             c == Tail(a)
  <2>2. g \in Heads /\ c \in Seq(Heads) /\ a = <<g>> \o c
    BY <2>1
  <2> HIDE DEF g, c
  <2>3. c \o b \in Seq(Heads) /\ <<g>> \in Seq(Heads)
    BY <2>2, ConcatProperties
  <2>4. a \o b = <<g>> \o (c \o b)
    BY <2>2, <2>3, ConcatAssociative
  <2>5. a \o b # <<>> /\ Head(a \o b) = g /\ Tail(a \o b) = c \o b
    BY <1>4, <2>2, <2>3, <2>4
  <2> QED
    BY <2>1, <2>5 DEF g, c
<1> QED
  BY <1>1, <1>2, <1>3, <1>4, <1>5

\* Submit puts a request behind the others.
LEMMA SubmitQueues ==
  ASSUME TypeOK, QueueOK, NEW h \in Heads, NEW r \in Requests, Submit(h, r)
  PROVE  Todo' = Append(Todo, h) /\ Done' = Done
<1>1. Gap(avail_idx, last_avail_idx) < Num
  BY Room DEF Submit
<1>2. avail_idx \in Index /\ last_avail_idx \in Index /\ avail \in Rings
  BY DEF TypeOK, Rings
<1>3. /\ avail' = [avail EXCEPT ![avail_idx % Num] = h] /\ avail_idx' = Inc(avail_idx)
      /\ avail_idx % Num \in Heads
  BY <1>2, IndexFacts DEF Submit
<1>4. /\ avail' \in Rings /\ avail'[avail_idx % Num] = h
      /\ \A k \in Heads \ {avail_idx % Num} : avail'[k] = avail[k]
  BY <1>2, <1>3 DEF Rings
<1>5. Window(avail', last_avail_idx, avail_idx) = Waiting
  BY <1>1, <1>2, <1>4, WindowPut DEF Waiting
<1>6. Window(avail', last_avail_idx, Inc(avail_idx)) = Append(Waiting, h)
  BY <1>1, <1>2, <1>4, <1>5, WindowGrow
<1>7. /\ UNCHANGED <<last_avail_idx, used, used_mem, lastUsed, popped, _req, workPc,
                     working>>
  BY DEF Submit, device, worker
<1>8. Waiting' = Append(Waiting, h)
  BY <1>3, <1>6, <1>7 DEF Waiting
<1> DEFINE before == OneOrNone(WorkTodo) \o OneOrNone(_req) \o OneOrNone(popped)
<1>9. before \in Seq(Heads) /\ Waiting \in Seq(Heads)
  BY QueueTypes, ConcatProperties
<1>10. before' = before /\ Todo = before \o Waiting /\ Todo' = before' \o Waiting'
  BY <1>7 DEF Todo, WorkTodo
<1> HIDE DEF before
<1>11. Todo' = Append(Todo, h)
  BY <1>8, <1>9, <1>10, ConcatFacts
<1>12. Done' = Done
  BY <1>7 DEF Done, WorkDone, Finished
<1> QED
  BY <1>11, <1>12

\* The driver takes a completion from the front.
LEMMA ReapQueues ==
  ASSUME TypeOK, Reap
  PROVE  /\ Todo' = Todo
         /\ \/ UNCHANGED <<request, Done>>
            \/ /\ Done # <<>> /\ Done' = Tail(Done)
               /\ request' = [request EXCEPT ![Head(Done)] = NoRequest]
<1>1. /\ UNCHANGED <<avail, avail_idx, last_avail_idx, popped, _req, workPc, working,
                     used, used_mem>>
  BY DEF Reap, device, worker
<1>2. Todo' = Todo /\ WorkDone' = WorkDone
  BY <1>1 DEF Todo, WorkTodo, WorkDone, Waiting
<1>3. CASE lastUsed = used_mem
  <2>1. UNCHANGED <<request, lastUsed>>
    BY <1>3 DEF Reap
  <2> QED
    BY <1>1, <1>2, <2>1 DEF Done, WorkDone, Finished
<1>4. CASE lastUsed # used_mem
  <2>1. /\ request' = [request EXCEPT ![used[lastUsed % Num]] = NoRequest]
        /\ lastUsed' = Inc(lastUsed)
    BY <1>4 DEF Reap
  <2>2. lastUsed \in Index /\ used_mem \in Index /\ used \in Rings
    BY DEF TypeOK, Rings
  <2>3. /\ Finished # <<>> /\ Head(Finished) = used[lastUsed % Num]
        /\ Tail(Finished) = Window(used, Inc(lastUsed), used_mem)
    BY <1>4, <2>2, WindowShrink DEF Finished
  <2>4. Finished' = Tail(Finished)
    BY <1>1, <2>1, <2>3 DEF Finished
  <2>5. Finished \in Seq(Heads) /\ OneOrNone(WorkDone) \in Seq(Heads)
    BY QueueTypes
  <2>6. Done = Finished \o OneOrNone(WorkDone) /\ Done' = Tail(Finished) \o OneOrNone(WorkDone)
    BY <1>2, <2>4 DEF Done
  <2>7. Done # <<>> /\ Head(Done) = Head(Finished) /\ Done' = Tail(Done)
    <3>1. ASSUME NEW a \in Seq(Heads), NEW b \in Seq(Heads), a # <<>>
          PROVE  a \o b # <<>> /\ Head(a \o b) = Head(a) /\ Tail(a \o b) = Tail(a) \o b
      <4>1. Head(a) \in Heads
        BY <3>1, HeadTailProperties
      <4> QED
        BY <3>1, <4>1, ConcatFacts
    <3> QED
      BY <2>3, <2>5, <2>6, <3>1
  <2> QED
    BY <1>2, <2>1, <2>3, <2>7
<1> QED
  BY <1>3, <1>4

\* vqueue_pop moves the head of the avail ring to popped.
LEMMA PopQueues ==
  ASSUME TypeOK, KickOK, ~panic, cpuPc = "pop", avail_idx # last_avail_idx,
         last_avail_idx' = Inc(last_avail_idx), popped' = NextHead,
         UNCHANGED <<avail, avail_idx, used, used_mem, lastUsed, _req, workPc, working>>
  PROVE  Todo' = Todo /\ Done' = Done
<1> DEFINE before == OneOrNone(WorkTodo) \o OneOrNone(_req)
           h == avail[last_avail_idx % Num]
           rest == Window(avail, Inc(last_avail_idx), avail_idx)
<1>1. /\ avail_idx \in Index /\ last_avail_idx \in Index /\ avail \in Rings
      /\ Inc(last_avail_idx) \in Index /\ h \in Heads /\ popped = None
  BY IndexFacts DEF TypeOK, KickOK, Rings
<1>2. Waiting = <<h>> \o rest
  BY <1>1, WindowShrink DEF Waiting
<1>3. rest \in Seq(Heads) /\ before \in Seq(Heads) /\ Waiting \in Seq(Heads)
  BY <1>1, QueueTypes, WindowFacts, ConcatProperties
<1>4. popped' = h /\ Waiting' = rest /\ before' = before
  BY DEF NextHead, Waiting, WorkTodo
<1>5. Todo = (before \o OneOrNone(popped)) \o Waiting
  BY DEF Todo
<1>6. Todo' = (before' \o OneOrNone(popped')) \o Waiting'
  BY DEF Todo
<1> HIDE DEF before, h, rest
<1>7. Todo = before \o Waiting
  BY <1>1, <1>3, <1>5, HeadFacts, ConcatEmptySeq
<1>8. Todo' = (before \o <<h>>) \o rest
  BY <1>1, <1>4, <1>6, HeadFacts
<1>9. <<h>> \in Seq(Heads)
  BY <1>1
<1>10. Todo' = before \o (<<h>> \o rest)
  BY <1>3, <1>8, <1>9, ConcatAssociative
<1>11. Done' = Done
  BY DEF Done, Finished, WorkDone
<1> QED
  BY <1>2, <1>7, <1>10, <1>11

\* virtio_blk_handle_request moves it to the slot.
LEMMA HandoverQueues ==
  ASSUME TypeOK, HandleRequest
  PROVE  Todo' = Todo /\ Done' = Done
<1>1. /\ _req = None /\ _req' = popped /\ popped' = None
      /\ UNCHANGED <<avail, avail_idx, last_avail_idx, used, used_mem, lastUsed, workPc,
                     working>>
  BY DEF HandleRequest, guestMem, worker
<1> DEFINE w == OneOrNone(WorkTodo)
           p == OneOrNone(popped)
<1>2. w \in Seq(Heads) /\ p \in Seq(Heads) /\ Waiting \in Seq(Heads)
  BY QueueTypes
<1>3. w' = w /\ Waiting' = Waiting /\ Done' = Done
  BY <1>1 DEF WorkTodo, Waiting, Done, Finished, WorkDone
<1>4. Todo = ((w \o <<>>) \o p) \o Waiting
  BY <1>1, HeadFacts DEF Todo
<1>5. Todo' = ((w \o p) \o <<>>) \o Waiting
  BY <1>1, <1>3, HeadFacts DEF Todo
<1> HIDE DEF w, p
<1>6. w \o p \in Seq(Heads)
  BY <1>2, ConcatProperties
<1>7. w \o <<>> = w /\ (w \o p) \o <<>> = w \o p
  BY <1>2, <1>6, ConcatEmptySeq
<1> QED
  BY <1>3, <1>4, <1>5, <1>7

\* The worker takes it from the slot.
LEMMA TakeQueues ==
  ASSUME TypeOK, WorkerOK, RoutineTake
  PROVE  Todo' = Todo /\ Done' = Done
<1>1. /\ workPc = "lock"
      /\ UNCHANGED <<avail, avail_idx, last_avail_idx, used, used_mem, lastUsed, popped>>
  BY DEF RoutineTake, guestMem, cpu
<1>2. WorkTodo = None /\ WorkDone = None
  BY <1>1 DEF WorkTodo, WorkDone
<1>3. CASE _req = None
  <2>1. workPc' = "asleep" /\ UNCHANGED <<_req, working>>
    BY <1>3 DEF RoutineTake
  <2>2. WorkTodo' = None /\ WorkDone' = None
    BY <2>1 DEF WorkTodo, WorkDone
  <2> QED
    BY <1>1, <1>2, <2>1, <2>2, QueueSame
<1>4. CASE _req # None
  <2>1. working' = _req /\ _req' = None /\ workPc' = "do"
    BY <1>4 DEF RoutineTake
  <2>2. WorkTodo' = _req /\ WorkDone' = None
    BY <2>1 DEF WorkTodo, WorkDone
  <2>3. Done' = Done /\ Waiting' = Waiting
    BY <1>1, <1>2, <2>2 DEF Done, Finished, Waiting
  <2> DEFINE q == OneOrNone(_req)
             p == OneOrNone(popped)
  <2>4. Todo = ((<<>> \o q) \o p) \o Waiting
    BY <1>2, HeadFacts DEF Todo
  <2>5. Todo' = ((q \o <<>>) \o p) \o Waiting
    BY <1>1, <2>1, <2>2, <2>3, HeadFacts DEF Todo
  <2>6. <<>> \o q = q /\ q \o <<>> = q
    BY QueueTypes, ConcatEmptySeq
  <2> QED
    BY <2>3, <2>4, <2>5, <2>6
<1> QED
  BY <1>3, <1>4

\* _do_request moves the first request to do to the end of those that are done.
LEMMA DoQueues ==
  ASSUME TypeOK, WorkerOK, DoRequest
  PROVE  /\ working \in Heads
         /\ Todo # <<>> /\ Head(Todo) = working
         /\ Todo' = Tail(Todo) /\ Done' = Append(Done, working)
<1>1. /\ workPc = "do" /\ workPc' = "status"
      /\ UNCHANGED <<avail, avail_idx, last_avail_idx, used, used_mem, lastUsed, popped,
                     _req, working>>
  BY StepIs DEF DoRequest, cpu
<1>2. working \in Heads /\ working # None
  BY <1>1, HeadFacts DEF WorkerOK, TypeOK
<1>3. WorkTodo = working /\ WorkDone = None /\ WorkTodo' = None /\ WorkDone' = working
  BY <1>1 DEF WorkTodo, WorkDone
<1>4. Finished' = Finished /\ Waiting' = Waiting
  BY <1>1 DEF Finished, Waiting
<1>5. /\ Finished \in Seq(Heads) /\ Waiting \in Seq(Heads) /\ <<working>> \in Seq(Heads)
      /\ OneOrNone(_req) \in Seq(Heads) /\ OneOrNone(popped) \in Seq(Heads)
  BY <1>2, QueueTypes
<1>6. Done = Finished /\ Done' = Append(Done, working)
  <2>1. Done = Finished \o <<>> /\ Done' = Finished \o <<working>>
    BY <1>2, <1>3, <1>4, HeadFacts DEF Done
  <2>2. Done = Finished
    BY <1>5, <2>1, ConcatEmptySeq
  <2> QED
    BY <1>2, <1>5, <2>1, <2>2, ConcatFacts
<1> DEFINE q == OneOrNone(_req)
           p == OneOrNone(popped)
           rest == (q \o p) \o Waiting
<1>7. q \in Seq(Heads) /\ p \in Seq(Heads) /\ UNCHANGED <<q, p>>
  BY <1>1, <1>5
<1>8. Todo = ((<<working>> \o q) \o p) \o Waiting
  BY <1>2, <1>3, HeadFacts DEF Todo
<1>9. Todo' = ((<<>> \o q) \o p) \o Waiting
  BY <1>3, <1>4, <1>7, HeadFacts DEF Todo
<1> HIDE DEF q, p
<1>10. q \o p \in Seq(Heads) /\ (<<working>> \o q) \o p = <<working>> \o (q \o p)
  BY <1>5, <1>7, ConcatProperties, ConcatAssociative
<1>11. (<<working>> \o (q \o p)) \o Waiting = <<working>> \o rest /\ rest \in Seq(Heads)
  <2>1. (<<working>> \o (q \o p)) \o Waiting = <<working>> \o ((q \o p) \o Waiting)
    <3> DEFINE a == q \o p
    <3>1. a \in Seq(Heads)
      BY <1>10
    <3> HIDE DEF a
    <3>2. (<<working>> \o a) \o Waiting = <<working>> \o (a \o Waiting)
      BY <1>5, <3>1, ConcatAssociative
    <3> QED
      BY <3>2 DEF a
  <2> QED
    BY <1>5, <1>10, <2>1, ConcatProperties
<1>12. Todo = <<working>> \o rest
  BY <1>8, <1>10, <1>11
<1>13. Todo' = rest
  BY <1>7, <1>9, ConcatEmptySeq
<1> HIDE DEF rest
<1> QED
  BY <1>2, <1>6, <1>11, <1>12, <1>13, ConcatFacts

\* vring_used_write moves it to the used ring, entry first, then index.
LEMMA UsedQueues ==
  ASSUME TypeOK, QueueOK, WorkerOK
  PROVE  /\ UsedWriteRing => Todo' = Todo /\ Done' = Done /\ Finished' = Finished
         /\ UsedWriteIdx => /\ Todo' = Todo /\ Done' = Done
                            /\ Finished' = Append(Finished, working) /\ working \in Heads
<1>1. lastUsed \in Index /\ used_mem \in Index /\ used \in Rings
  BY DEF TypeOK, Rings
<1>2. ASSUME UsedWriteRing
      PROVE  Todo' = Todo /\ Done' = Done /\ Finished' = Finished
  <2>1. /\ workPc = "usedRing" /\ workPc' = "usedIdx"
        /\ used' = [used EXCEPT ![used_mem % Num] = working]
        /\ UNCHANGED <<avail, avail_idx, last_avail_idx, used_mem, lastUsed, popped,
                       _req, working>>
    BY <1>2, StepIs DEF UsedWriteRing, UsedSlot, WorkerOK, cpu, device
  <2>2. working \in Heads /\ working # None /\ WorkDone = working
    BY <2>1 DEF WorkerOK, TypeOK, WorkDone
  <2>3. Gap(used_mem, lastUsed) < Num
    BY <2>2, Room
  <2>4. used' \in Rings /\ \A k \in Heads \ {used_mem % Num} : used'[k] = used[k]
    BY <1>1, <2>1, <2>2 DEF Rings
  <2>5. Window(used', lastUsed, used_mem) = Finished
    BY <1>1, <2>3, <2>4, WindowPut DEF Finished
  <2>6. Finished' = Finished
    BY <2>1, <2>5 DEF Finished
  <2> QED
    BY <2>1, <2>6 DEF Todo, Done, WorkTodo, WorkDone, Waiting
<1>3. ASSUME UsedWriteIdx
      PROVE  /\ Todo' = Todo /\ Done' = Done
             /\ Finished' = Append(Finished, working) /\ working \in Heads
  <2>1. /\ workPc = "usedIdx" /\ workPc' = "isr" /\ used_mem' = Inc(used_mem)
        /\ UNCHANGED <<avail, avail_idx, last_avail_idx, used, lastUsed, popped,
                       _req, working>>
    BY <1>3, StepIs DEF UsedWriteIdx, WorkerOK, cpu
  <2>2. /\ working \in Heads /\ working # None /\ WorkDone = working /\ WorkDone' = None
        /\ used[used_mem % Num] = working
    BY <2>1 DEF WorkerOK, TypeOK, WorkDone
  <2>3. Gap(used_mem, lastUsed) < Num
    BY <2>2, Room
  <2>4. Finished' = Append(Finished, working)
    BY <1>1, <2>1, <2>2, <2>3, WindowGrow DEF Finished
  <2>5. Finished \in Seq(Heads)
    BY QueueTypes
  <2>6. Done = Finished \o <<working>> /\ Done' = Finished' \o <<>>
    BY <2>2, HeadFacts DEF Done
  <2>7. Done' = Done
    <3>1. /\ Append(Finished, working) = Finished \o <<working>>
          /\ Append(Finished, working) \in Seq(Heads)
      BY <2>2, <2>5, AppendIsConcat, AppendProperties
    <3> QED
      BY <2>4, <2>6, <3>1, ConcatEmptySeq
  <2> QED
    BY <2>1, <2>2, <2>4, <2>7 DEF Todo, WorkTodo, Waiting
<1> QED
  BY <1>2, <1>3

\* The rings, the slot and the two threads take a step of BlockDevice, or none.
LEMMA Simulation ==
  ASSUME TypeOK, QueueOK, KickOK, WorkerOK, Next
  PROVE  Device!Next \/ UNCHANGED Device!vars
<1>1. ASSUME NEW h \in Heads, NEW r \in Requests, Submit(h, r)
      PROVE  Device!Submit
  <2>1. /\ request[h] = NoRequest /\ request' = [request EXCEPT ![h] = r]
        /\ buffer' = [buffer EXCEPT ![h] = r.data] /\ disk' = disk
    BY <1>1 DEF Submit, device
  <2>2. Todo' = Append(Todo, h) /\ Done' = Done
    BY <1>1, SubmitQueues
  <2> QED
    BY <2>1, <2>2, DeviceIs
<1>2. ASSUME Reap
      PROVE  Device!GiveBack \/ UNCHANGED Device!vars
  <2>1. UNCHANGED <<disk, buffer>>
    BY <1>2 DEF Reap, device
  <2> QED
    BY <1>2, <2>1, ReapQueues, DeviceIs
<1>3. ASSUME QueueNotifyPop \/ QueueNotifyDirect
      PROVE  UNCHANGED Device!vars
  <2>1. /\ UNCHANGED <<disk, request, buffer>>
        /\ UNCHANGED <<avail, avail_idx, used, used_mem, lastUsed, _req, workPc, working>>
    BY <1>3 DEF QueueNotifyPop, QueueNotifyDirect, worker
  <2>2. CASE avail_idx = last_avail_idx
    <3>1. UNCHANGED <<popped, last_avail_idx>>
      BY <1>3, <2>2 DEF QueueNotifyPop, QueueNotifyDirect, TakeHead
    <3>2. UNCHANGED <<WorkTodo, WorkDone>>
      BY <2>1 DEF WorkTodo, WorkDone
    <3> QED
      BY <2>1, <3>1, <3>2, QueueSame, DeviceIs
  <2>3. CASE avail_idx # last_avail_idx
    <3>1. /\ ~panic /\ cpuPc = "pop" /\ last_avail_idx' = Inc(last_avail_idx)
          /\ popped' = NextHead
      BY <1>3, <2>3 DEF QueueNotifyPop, QueueNotifyDirect, TakeHead, Alive
    <3>2. Todo' = Todo /\ Done' = Done
      BY <2>1, <2>3, <3>1, PopQueues
    <3> QED
      BY <2>1, <3>2, DeviceIs
  <2> QED
    BY <2>2, <2>3
<1>4. ASSUME HandleRequest
      PROVE  UNCHANGED Device!vars
  <2>1. UNCHANGED <<disk, request, buffer>>
    BY <1>4 DEF HandleRequest, guestMem
  <2> QED
    BY <1>4, <2>1, HandoverQueues, DeviceIs
<1>5. ASSUME RoutineTake
      PROVE  UNCHANGED Device!vars
  <2>1. UNCHANGED <<disk, request, buffer>>
    BY <1>5 DEF RoutineTake, guestMem
  <2> QED
    BY <1>5, <2>1, TakeQueues, DeviceIs
<1>6. ASSUME DoRequest
      PROVE  Device!Execute
  <2>1. /\ disk' = IF request[working].kind = "out"
                     THEN [disk EXCEPT ![request[working].sector] = buffer[working]] ELSE disk
        /\ buffer' = IF request[working].kind = "in"
                       THEN [buffer EXCEPT ![working] = disk[request[working].sector]]
                       ELSE buffer
        /\ request' = request
    BY <1>6 DEF DoRequest
  <2>2. Todo # <<>> /\ Head(Todo) = working /\ Todo' = Tail(Todo)
        /\ Done' = Append(Done, working)
    BY <1>6, DoQueues
  <2> QED
    BY <2>1, <2>2, DeviceIs
<1>7. ASSUME UsedWriteRing \/ UsedWriteIdx
      PROVE  UNCHANGED Device!vars
  <2>1. UNCHANGED <<disk, request, buffer>>
    BY <1>7 DEF UsedWriteRing, UsedWriteIdx, device
  <2> QED
    BY <1>7, <2>1, UsedQueues, DeviceIs
<1>8. ASSUME \/ Kick \/ IrqClaim \/ ReadInterruptStatus \/ InterruptAckLoad
             \/ InterruptAckStore \/ HandleRequestSignal \/ DoRequestPanic
             \/ CompleteStatus \/ CompleteIsr \/ CompleteSignal
      PROVE  UNCHANGED Device!vars
  <2>1. /\ UNCHANGED <<disk, request, buffer>>
        /\ UNCHANGED <<avail, avail_idx, last_avail_idx, used, used_mem, lastUsed,
                       popped, _req>>
    BY <1>8 DEF Kick, IrqClaim, ReadInterruptStatus, InterruptAckLoad, InterruptAckStore,
                HandleRequestSignal, DoRequestPanic, CompleteStatus, CompleteIsr,
                CompleteSignal, guestMem, device, cpu
  <2>2. UNCHANGED <<WorkTodo, WorkDone>>
    <3>1. CASE Kick \/ IrqClaim \/ ReadInterruptStatus \/ InterruptAckLoad
               \/ InterruptAckStore \/ DoRequestPanic
      BY <3>1 DEF Kick, IrqClaim, ReadInterruptStatus, InterruptAckLoad,
                  InterruptAckStore, DoRequestPanic, worker, WorkTodo, WorkDone
    <3>2. CASE HandleRequestSignal
      BY <3>2 DEF HandleRequestSignal, Woken, WorkTodo, WorkDone
    <3>3. CASE CompleteStatus
      BY <3>3, StepIs DEF CompleteStatus, WorkTodo, WorkDone
    <3>4. CASE CompleteIsr
      BY <3>4, StepIs DEF CompleteIsr, WorkTodo, WorkDone
    <3>5. CASE CompleteSignal
      BY <3>5, StepIs DEF CompleteSignal, WorkTodo, WorkDone
    <3> QED
      BY <1>8, <3>1, <3>2, <3>3, <3>4, <3>5
  <2> QED
    BY <2>1, <2>2, QueueSame, DeviceIs
<1> QED
  BY <1>1, <1>2, <1>3, <1>4, <1>5, <1>6, <1>7, <1>8, DeviceIs DEF Next, Driver, Mmio, Routine

-----------------------------------------------------------------------------
(* The invariant, part by part.                                            *)

\* Every step keeps the types.
LEMMA TypesKept ==
  ASSUME TypeOK, WorkerOK, Next
  PROVE  TypeOK'
<1>0. /\ \A i \in Index : Inc(i) \in Index /\ i % Num \in Heads
      /\ avail_idx \in Index /\ last_avail_idx \in Index /\ used_mem \in Index
      /\ used_idx \in Index /\ lastUsed \in Index /\ kickIdx \in Index
  BY IndexFacts DEF TypeOK
<1>1. ASSUME NEW h \in Heads, NEW r \in Requests, Submit(h, r) PROVE TypeOK'
  BY <1>0, <1>1 DEF Submit, TypeOK, device, worker
<1>2. ASSUME Kick PROVE TypeOK'
  BY <1>0, <1>2 DEF Kick, TypeOK, guestMem, device, worker
<1>3. ASSUME IrqClaim PROVE TypeOK'
  BY <1>3 DEF IrqClaim, TypeOK, guestMem, worker
<1>4. ASSUME Reap PROVE TypeOK'
  BY <1>0, <1>4 DEF Reap, TypeOK, device, worker
<1>5. ASSUME ReadInterruptStatus PROVE TypeOK'
  BY <1>5 DEF ReadInterruptStatus, TypeOK, guestMem, device, worker
<1>6. ASSUME InterruptAckLoad PROVE TypeOK'
  BY <1>6 DEF InterruptAckLoad, TypeOK, guestMem, device, worker
<1>7. ASSUME InterruptAckStore PROVE TypeOK'
  BY <1>7 DEF InterruptAckStore, TypeOK, guestMem, worker
<1>8. avail[last_avail_idx % Num] \in Heads
  BY <1>0 DEF TypeOK
<1>9. ASSUME QueueNotifyPop PROVE TypeOK'
  BY <1>0, <1>8, <1>9 DEF QueueNotifyPop, TakeHead, NextHead, EventAfterPop, TypeOK, worker
<1>10. ASSUME QueueNotifyDirect PROVE TypeOK'
  BY <1>0, <1>8, <1>10 DEF QueueNotifyDirect, TakeHead, NextHead, EventAfterPop, TypeOK, worker
<1>11. ASSUME HandleRequest PROVE TypeOK'
  BY <1>11 DEF HandleRequest, TypeOK, guestMem, worker
<1>12. ASSUME HandleRequestSignal PROVE TypeOK'
  BY <1>12 DEF HandleRequestSignal, Woken, TypeOK, guestMem, device
<1>13. ASSUME RoutineTake PROVE TypeOK'
  BY <1>13 DEF RoutineTake, TypeOK, guestMem, cpu
<1>14. ASSUME DoRequest PROVE TypeOK'
  BY <1>14, StepIs DEF DoRequest, TypeOK, cpu
<1>15. ASSUME DoRequestPanic PROVE TypeOK'
  BY <1>15 DEF DoRequestPanic, TypeOK, guestMem, worker, cpu
<1>16. ASSUME CompleteStatus PROVE TypeOK'
  BY <1>16, StepIs DEF CompleteStatus, TypeOK, device, cpu
<1>17. ASSUME UsedWriteRing PROVE TypeOK'
  <2>1. working \in Heads /\ UsedSlot \in Heads
    BY <1>0, <1>17, StepIs DEF UsedWriteRing, WorkerOK, TypeOK, UsedSlot
  <2> QED
    BY <1>17, <2>1, StepIs DEF UsedWriteRing, TypeOK, device, cpu
<1>18. ASSUME UsedWriteIdx PROVE TypeOK'
  BY <1>0, <1>18, StepIs DEF UsedWriteIdx, TypeOK, cpu
<1>19. ASSUME CompleteIsr PROVE TypeOK'
  BY <1>19, StepIs DEF CompleteIsr, TypeOK, guestMem, cpu
<1>20. ASSUME CompleteSignal PROVE TypeOK'
  BY <1>20, StepIs DEF CompleteSignal, TypeOK, guestMem, cpu
<1> QED
  BY <1>1, <1>2, <1>3, <1>4, <1>5, <1>6, <1>7, <1>9, <1>10, <1>11, <1>12, <1>13, <1>14,
     <1>15, <1>16, <1>17, <1>18, <1>19, <1>20 DEF Next, Driver, Mmio, Routine

\* Every step keeps the requests in flight different, and the driver's.
LEMMA QueuesKept ==
  ASSUME TypeOK, QueueOK, TypeOK', Device!Next \/ UNCHANGED Device!vars
  PROVE  QueueOK'
<1>0. /\ Todo \in Seq(Heads) /\ Done \in Seq(Heads) /\ InFlight \in Seq(Heads)
      /\ InFlight = Done \o Todo /\ InFlight' = Done' \o Todo'
      /\ Len(InFlight) \in Nat
  BY QueueTypes DEF InFlight
<1>1. CASE UNCHANGED Device!vars
  BY <1>0, <1>1, DeviceIs DEF QueueOK, Distinct
<1>2. CASE Device!Submit
  <2>1. PICK h \in Heads, r \in Requests :
          /\ request[h] = NoRequest /\ request' = [request EXCEPT ![h] = r]
          /\ Todo' = Append(Todo, h) /\ Done' = Done
    BY <1>2, DeviceIs
  <2>2. InFlight' = Append(InFlight, h)
    BY <1>0, <2>1, ConcatFacts
  <2>3. \A i \in 1..Len(InFlight) : InFlight[i] # h
    BY <2>1 DEF QueueOK
  <2>4. Distinct(InFlight')
    BY <1>0, <2>2, <2>3, DistinctAppend DEF QueueOK
  <2>5. /\ Len(InFlight') = Len(InFlight) + 1 /\ InFlight'[Len(InFlight) + 1] = h
        /\ \A i \in 1..Len(InFlight) : InFlight'[i] = InFlight[i]
    BY <1>0, <2>2, AppendProperties
  <2>6. ASSUME NEW i \in 1..Len(InFlight') PROVE request'[InFlight'[i]] # NoRequest
    <3>1. CASE i = Len(InFlight) + 1
      BY <2>1, <2>5, <3>1, VirtioAssumption DEF TypeOK
    <3>2. CASE i \in 1..Len(InFlight)
      <4>1. InFlight'[i] = InFlight[i] /\ InFlight[i] \in Heads /\ InFlight[i] # h
        BY <1>0, <2>3, <2>5, <3>2, ElementOfSeq
      <4>2. request[InFlight[i]] # NoRequest
        BY <3>2 DEF QueueOK
      <4> QED
        BY <2>1, <4>1, <4>2 DEF TypeOK
    <3> QED
      BY <1>0, <2>5, <3>1, <3>2
  <2> QED
    BY <2>4, <2>6 DEF QueueOK, Distinct
<1>3. CASE Device!Execute
  <2>1. Todo # <<>> /\ Todo' = Tail(Todo) /\ Done' = Append(Done, Head(Todo))
        /\ request' = request
    BY <1>3, DeviceIs
  <2>2. Head(Todo) \in Heads /\ Tail(Todo) \in Seq(Heads)
        /\ Todo = <<Head(Todo)>> \o Tail(Todo)
    BY <1>0, <2>1, HeadTailProperties
  <2> DEFINE g == Head(Todo)
             c == Tail(Todo)
  <2>3. g \in Heads /\ c \in Seq(Heads) /\ <<g>> \in Seq(Heads) /\ Todo = <<g>> \o c
    BY <2>2
  <2>4. Done' = Append(Done, g) /\ Todo' = c
    BY <2>1
  <2> HIDE DEF g, c
  <2>5. Done' = Done \o <<g>>
    BY <1>0, <2>3, <2>4, AppendIsConcat
  <2>6. (Done \o <<g>>) \o c = Done \o (<<g>> \o c)
    BY <1>0, <2>3, ConcatAssociative
  <2>7. InFlight' = InFlight
    BY <1>0, <2>3, <2>4, <2>5, <2>6
  <2> QED
    BY <2>1, <2>7 DEF QueueOK, Distinct
<1>4. CASE Device!GiveBack
  <2>1. /\ Done # <<>> /\ Done' = Tail(Done) /\ Todo' = Todo
        /\ request' = [request EXCEPT ![Head(Done)] = NoRequest]
    BY <1>4, DeviceIs
  <2>2. Head(Done) \in Heads
    BY <1>0, <2>1, HeadTailProperties
  <2>3. InFlight # <<>> /\ Head(InFlight) = Head(Done) /\ InFlight' = Tail(InFlight)
    <3>1. ASSUME NEW a \in Seq(Heads), NEW b \in Seq(Heads), NEW h \in Heads, a # <<>>
          PROVE  a \o b # <<>> /\ Head(a \o b) = Head(a) /\ Tail(a \o b) = Tail(a) \o b
      BY <3>1, ConcatFacts
    <3> QED
      BY <1>0, <2>1, <2>2, <3>1
  <2>4. /\ Head(InFlight) = InFlight[1] /\ Len(InFlight') = Len(InFlight) - 1
        /\ \A i \in 1..Len(InFlight') : InFlight'[i] = InFlight[i + 1]
    BY <1>0, <2>3, HeadTailProperties
  <2>5. \A i \in 1..Len(InFlight') : /\ i + 1 \in 1..Len(InFlight)
                                      /\ InFlight[i + 1] # InFlight[1]
    <3>1. 1 \in 1..Len(InFlight)
      BY <1>0, <2>3, EmptySeq
    <3> QED
      BY <1>0, <2>4, <3>1 DEF QueueOK, Distinct
  <2>6. Distinct(InFlight')
    <3> SUFFICES ASSUME NEW i \in 1..Len(InFlight'), NEW j \in 1..Len(InFlight'),
                        InFlight'[i] = InFlight'[j]
                 PROVE  i = j
      BY DEF Distinct
    <3>1. InFlight[i + 1] = InFlight[j + 1]
      BY <2>4
    <3>2. i + 1 \in 1..Len(InFlight) /\ j + 1 \in 1..Len(InFlight)
      BY <2>5
    <3>3. i + 1 = j + 1
      BY <3>1, <3>2 DEF QueueOK, Distinct
    <3> QED
      BY <3>3
  <2>7. ASSUME NEW i \in 1..Len(InFlight') PROVE request'[InFlight'[i]] # NoRequest
    <3>1. InFlight'[i] \in Heads /\ InFlight'[i] # Head(Done)
          /\ request[InFlight'[i]] # NoRequest
      BY <1>0, <2>3, <2>4, <2>5, ElementOfSeq DEF QueueOK
    <3> QED
      BY <2>1, <3>1 DEF TypeOK
  <2> QED
    BY <2>6, <2>7 DEF QueueOK, Distinct
<1> QED
  BY <1>1, <1>2, <1>3, <1>4, DeviceIs

\* Every step keeps the account of kicks.
LEMMA KicksKept ==
  ASSUME TypeOK, QueueOK, KickOK, Next
  PROVE  KickOK'
<1>0. /\ \A i \in Index : Inc(i) \in Index
      /\ \A i, j \in Index : /\ Gap(i, j) \in Nat
                             /\ Gap(i, j) = 0 <=> i = j
                             /\ i # j => Gap(i, Inc(j)) = Gap(i, j) - 1
      /\ avail_idx \in Index /\ last_avail_idx \in Index /\ Num < IdxMod
      /\ Num \in Nat /\ IdxMod \in Nat
  BY IndexFacts DEF TypeOK, Index
<1>1. ASSUME NEW h \in Heads, NEW r \in Requests, Submit(h, r) PROVE KickOK'
  <2>1. Gap(avail_idx, last_avail_idx) < Num
    BY <1>1, Room DEF Submit
  <2>2. Gap(Inc(avail_idx), last_avail_idx) = Gap(avail_idx, last_avail_idx) + 1
    <3>1. Gap(avail_idx, last_avail_idx) + 1 < IdxMod
      BY <1>0, <2>1
    <3> QED
      BY <1>0, <3>1, IndexFacts
  <2>3. Inc(avail_idx) # last_avail_idx
    BY <1>0, <2>2
  <2>4. kickIdx = last_avail_idx
    BY <1>1 DEF Submit, KickOK
  <2> QED
    BY <1>1, <2>3, <2>4 DEF Submit, KickOK, device, worker
<1>2. ASSUME Kick PROVE KickOK'
  <2>1. avail_idx # last_avail_idx /\ kickIdx = last_avail_idx
    BY <1>2 DEF Kick, KickOK
  <2>2. Gap(avail_idx, Inc(last_avail_idx)) < Gap(avail_idx, last_avail_idx)
    BY <1>0, <2>1
  <2>3. NeedEvent
    BY <2>1, <2>2 DEF KickOK, NeedEvent
  <2> QED
    BY <1>2, <2>3 DEF Kick, KickOK, guestMem, device, worker
<1>3. ASSUME Reap PROVE KickOK'
  BY <1>3 DEF Reap, KickOK, device
<1>4. ASSUME QueueNotifyPop \/ QueueNotifyDirect PROVE KickOK'
  <2>1. popped = None => popped' = popped \/ cpuPc' = "handover" \/ panic'
    BY <1>4 DEF QueueNotifyPop, QueueNotifyDirect, KickOK
  <2>2. NextHead \in Heads /\ NextHead # None
    <3>1. last_avail_idx % Num \in Heads
      BY <1>0, IndexFacts
    <3> QED
      BY <3>1, HeadFacts DEF NextHead, TypeOK
  <2> QED
    BY <1>4, <2>1, <2>2 DEF QueueNotifyPop, QueueNotifyDirect, TakeHead, EventAfterPop,
                            KickOK, Alive
<1>5. ASSUME HandleRequest \/ HandleRequestSignal PROVE KickOK'
  BY <1>5 DEF HandleRequest, HandleRequestSignal, KickOK, guestMem, device
<1>6. ASSUME IrqClaim \/ ReadInterruptStatus \/ InterruptAckLoad \/ InterruptAckStore
      PROVE  KickOK'
  BY <1>6 DEF IrqClaim, ReadInterruptStatus, InterruptAckLoad, InterruptAckStore, KickOK,
              guestMem, device
<1>7. ASSUME Routine PROVE KickOK'
  BY <1>7 DEF Routine, RoutineTake, DoRequest, DoRequestPanic, CompleteStatus, UsedWriteRing,
              UsedWriteIdx, CompleteIsr, CompleteSignal, KickOK, guestMem, device, cpu
<1> QED
  BY <1>1, <1>2, <1>3, <1>4, <1>5, <1>6, <1>7 DEF Next, Driver, Mmio

\* Every step keeps the worker's account of its request.
LEMMA WorkerKept ==
  ASSUME TypeOK, QueueOK, WorkerOK, Next
  PROVE  WorkerOK'
<1>1. ASSUME NEW h \in Heads, NEW r \in Requests, Submit(h, r) PROVE WorkerOK'
  <2>1. workPc \in {"usedRing", "usedIdx"} => working # h
    <3>1. workPc \in {"usedRing", "usedIdx"} => WorkDone = working /\ working # None
      BY DEF WorkDone, WorkerOK
    <3> QED
      BY <1>1, <3>1, InFlightMembers DEF Submit
  <2> QED
    BY <1>1, <2>1 DEF Submit, WorkerOK, TypeOK, device, worker
<1>2. ASSUME Kick \/ IrqClaim \/ Reap PROVE WorkerOK'
  BY <1>2 DEF Kick, IrqClaim, Reap, WorkerOK, guestMem, device, worker
<1>3. ASSUME ReadInterruptStatus \/ InterruptAckLoad \/ InterruptAckStore PROVE WorkerOK'
  BY <1>3 DEF ReadInterruptStatus, InterruptAckLoad, InterruptAckStore, WorkerOK,
              guestMem, device, worker
<1>4. ASSUME QueueNotifyPop \/ QueueNotifyDirect \/ HandleRequest PROVE WorkerOK'
  BY <1>4 DEF QueueNotifyPop, QueueNotifyDirect, HandleRequest, WorkerOK, guestMem, worker
<1>5. ASSUME HandleRequestSignal PROVE WorkerOK'
  BY <1>5 DEF HandleRequestSignal, Woken, WorkerOK, guestMem, device
<1>6. ASSUME RoutineTake PROVE WorkerOK'
  BY <1>6 DEF RoutineTake, WorkerOK, guestMem
<1>7. ASSUME DoRequest PROVE WorkerOK'
  BY <1>7, StepIs DEF DoRequest, WorkerOK
<1>8. ASSUME DoRequestPanic PROVE WorkerOK'
  BY <1>8 DEF DoRequestPanic, WorkerOK, guestMem, worker
<1>9. ASSUME CompleteStatus PROVE WorkerOK'
  <2>1. working \in Heads
    BY <1>9, StepIs DEF CompleteStatus, WorkerOK, TypeOK
  <2> QED
    BY <1>9, <2>1, StepIs DEF CompleteStatus, WorkerOK, TypeOK, device
<1>10. ASSUME UsedWriteRing PROVE WorkerOK'
  <2>1. used_mem % Num \in Heads
    BY IndexFacts DEF TypeOK
  <2> QED
    BY <1>10, <2>1, StepIs DEF UsedWriteRing, UsedSlot, WorkerOK, TypeOK, device
<1>11. ASSUME UsedWriteIdx PROVE WorkerOK'
  BY <1>11, StepIs DEF UsedWriteIdx, WorkerOK
<1>12. ASSUME CompleteIsr PROVE WorkerOK'
  BY <1>12, StepIs DEF CompleteIsr, WorkerOK, guestMem
<1>13. ASSUME CompleteSignal PROVE WorkerOK'
  BY <1>13, StepIs DEF CompleteSignal, WorkerOK, guestMem
<1> QED
  BY <1>1, <1>2, <1>3, <1>4, <1>5, <1>6, <1>7, <1>8, <1>9, <1>10, <1>11, <1>12, <1>13
     DEF Next, Driver, Mmio, Routine

\* Every step keeps what the driver may find finished.
LEMMA WholeKept ==
  ASSUME TypeOK, QueueOK, WorkerOK, WholeOK, Next
  PROVE  WholeOK'
<1>0. /\ Finished \in Seq(Heads) /\ Len(Finished) \in Nat
      /\ \A k \in 1..Len(Finished) : /\ Finished[k] \in Heads
                                       /\ request[Finished[k]] # NoRequest
  BY QueueTypes, InFlightMembers
<1>1. ASSUME NEW h \in Heads, NEW r \in Requests, Submit(h, r) PROVE WholeOK'
  <2>1. /\ Finished' = Finished /\ request[h] = NoRequest
        /\ statusByte' = [statusByte EXCEPT ![h] = FALSE]
    BY <1>1 DEF Submit, Finished
  <2> QED
    BY <1>0, <2>1 DEF WholeOK, TypeOK
<1>2. ASSUME Reap PROVE WholeOK'
  <2>1. CASE lastUsed = used_mem
    BY <1>2, <2>1 DEF Reap, Finished, WholeOK
  <2>2. CASE lastUsed # used_mem
    <3>1. lastUsed \in Index /\ used_mem \in Index /\ used \in Rings
      BY DEF TypeOK, Rings
    <3>2. /\ Finished # <<>> /\ Tail(Finished) = Window(used, Inc(lastUsed), used_mem)
      BY <2>2, <3>1, WindowShrink DEF Finished
    <3>3. Finished' = Tail(Finished) /\ statusByte' = statusByte
      BY <1>2, <2>2, <3>2 DEF Reap, Finished
    <3>4. /\ Len(Tail(Finished)) = Len(Finished) - 1
          /\ \A k \in 1..Len(Tail(Finished)) : Tail(Finished)[k] = Finished[k + 1]
      BY <1>0, <3>2, HeadTailProperties
    <3> QED
      BY <1>0, <3>3, <3>4 DEF WholeOK
  <2> QED
    BY <2>1, <2>2
<1>3. ASSUME UsedWriteRing PROVE WholeOK'
  <2>1. Finished' = Finished /\ statusByte' = statusByte
    BY <1>3, UsedQueues DEF UsedWriteRing
  <2> QED
    BY <2>1 DEF WholeOK
<1>4. ASSUME UsedWriteIdx PROVE WholeOK'
  <2>1. Finished' = Append(Finished, working) /\ working \in Heads
    BY <1>4, UsedQueues
  <2>2. statusByte[working] /\ statusByte' = statusByte
    BY <1>4, StepIs DEF UsedWriteIdx, WorkerOK
  <2>3. /\ Len(Finished') = Len(Finished) + 1 /\ Finished'[Len(Finished) + 1] = working
        /\ \A k \in 1..Len(Finished) : Finished'[k] = Finished[k]
    BY <1>0, <2>1, AppendProperties
  <2> QED
    BY <1>0, <2>2, <2>3 DEF WholeOK
<1>5. ASSUME CompleteStatus PROVE WholeOK'
  <2>1. Finished' = Finished /\ statusByte' = [statusByte EXCEPT ![working] = TRUE]
    BY <1>5 DEF CompleteStatus, Finished, cpu
  <2> QED
    BY <1>0, <2>1 DEF WholeOK, TypeOK
<1>6. ASSUME \/ Kick \/ IrqClaim \/ Mmio \/ RoutineTake \/ DoRequest \/ DoRequestPanic
             \/ CompleteIsr \/ CompleteSignal
      PROVE  WholeOK'
  <2>1. UNCHANGED <<used, used_mem, lastUsed, statusByte>>
    BY <1>6 DEF Kick, IrqClaim, Mmio, ReadInterruptStatus, InterruptAckLoad,
                InterruptAckStore, QueueNotifyPop, QueueNotifyDirect, HandleRequest,
                HandleRequestSignal, RoutineTake, DoRequest, DoRequestPanic, CompleteIsr,
                CompleteSignal, guestMem, cpu
  <2> QED
    BY <2>1 DEF WholeOK, Finished
<1> QED
  BY <1>1, <1>2, <1>3, <1>4, <1>5, <1>6 DEF Next, Driver, Routine

-----------------------------------------------------------------------------
(* Setting the device up.                                                  *)

Told   == {"features", "page size", "num", "align"}
Places == [desc : Int, avail : Int, used : Int]

RegsOK == regs \in [host_features_sel : BOOLEAN, guest_features_sel : BOOLEAN,
                    guest_page_shift : {0, PageShift}, num : Nat, align : {0, PageSize},
                    rings : Places, status : Nat]
MineOK == mine \in [live : BOOLEAN, offered : SUBSET Features, agreed : SUBSET Features,
                    told : SUBSET Told, num : Nat, rings : Places]

\* What the driver has told the device since it last started over is in the registers;
ToldOK == /\ "page size" \in mine.told => regs.guest_page_shift = PageShift
          /\ "num" \in mine.told => regs.num = mine.num /\ mine.num \in Nums
          /\ "align" \in mine.told => regs.align = PageSize
          /\ "features" \in mine.told => guest_features = mine.agreed
          /\ mine.rings # NoRings => {"page size", "num", "align"} \subseteq mine.told
          /\ mine.live => /\ mine.rings # NoRings /\ mine.num = Num
                          /\ "features" \in mine.told

\* and the rings it has handed over are where it has put them, and apart.
RingsOK == mine.rings # NoRings =>
             /\ regs.rings = mine.rings
             /\ regs.rings.avail + (2 * (3 + regs.num)) <= regs.rings.used

\* While the driver sets the device up the CPU thread has done nothing with the
\* ring, so that it is no matter which features the registers hold meanwhile.
IdleUntilLive == ~mine.live => cpuPc = "run" /\ avail_event = last_avail_idx

\* No ring ends, without or with its used_event, at the beginning of a page: 18n + 4
\* is what its first two parts take.  It is so of every power of two up to 1024
\* with pages of 4096.
NoneEndsWithPage == \A n \in Nums : (18 * n + 4) % PageSize \notin {0, PageSize - 1}

\* Then driver and device, which leave the used_event out, agree where used begins.
LEMMA SameUsed ==
  ASSUME NoneEndsWithPage, NEW n \in Nums, NEW pfn \in Int,
         NEW start \in Int, start = pfn * PageSize + 16 * n
  PROVE  /\ UsedAt(start, n, PageSize) = AlignUp(start + 2 * (3 + n), PageSize)
         /\ start + 2 * (3 + n) <= UsedAt(start, n, PageSize)
         /\ UsedAt(start, n, PageSize) \in Int
<1> DEFINE P == PageSize
           a == (18 * n + 4) \div P
           b == (18 * n + 4) % P
           c == pfn + a + 1
<1>1. P \in Nat \ {0} /\ n \in Nat
  BY MmioAssumption
<1>2. a \in Int /\ b \in 0..(P - 1) /\ 18 * n + 4 = P * a + b
  BY <1>1
<1>3. b # 0 /\ b # P - 1
  BY DEF NoneEndsWithPage
<1>4. c \in Int
  BY <1>2
<1> HIDE DEF a, b, P
<1>5. P * c = P * pfn + P * a + P
  BY <1>1, <1>2
<1>6. /\ start + 4 + 2 * n + P - 1 = P * c + (b - 1)
      /\ start + 2 * (3 + n) + P - 1 = P * c + (b + 1)
  <2>1. start = P * pfn + 16 * n
    BY <1>1 DEF P
  <2>2. P * pfn \in Int /\ P * a \in Int
    BY <1>1, <1>2
  <2> QED
    BY <1>1, <1>2, <1>5, <2>1, <2>2
<1> HIDE DEF c
<1>7. (P * c + (b - 1)) \div P = c /\ (P * c + (b + 1)) \div P = c
  <2>1. b - 1 \in 0..(P - 1) /\ b + 1 \in 0..(P - 1)
    BY <1>1, <1>2, <1>3
  <2> QED
    BY <1>1, <1>4, <2>1, DivModIs
<1>8. UsedAt(start, n, P) = c * P /\ AlignUp(start + 2 * (3 + n), P) = c * P
  BY <1>6, <1>7 DEF UsedAt, AlignUp
<1>9. start + 2 * (3 + n) <= c * P
  <2>1. start + 2 * (3 + n) + P - 1 \in Int /\ P * c \in Int /\ P * c = c * P
    BY <1>1, <1>4
  <2> QED
    BY <1>1, <1>2, <1>3, <1>6, <2>1
<1> QED
  BY <1>1, <1>4, <1>8, <1>9 DEF P

SetUpOK == RegsOK /\ MineOK /\ ToldOK /\ IdleUntilLive

\* QUEUE_PFN sets places that are numbers.
LEMMA PlacesTyped ==
  ASSUME RegsOK, MineOK, NEW pfn \in Pages
  PROVE  /\ ~NotYetSetup => vring_init(pfn) \in Places
         /\ DriverRings(pfn) \in Places
<1>1. /\ pfn \in Int /\ PageSize \in Nat \ {0} /\ regs.num \in Nat /\ mine.num \in Nat
      /\ 2^regs.guest_page_shift \in Int /\ regs.align \in {0, PageSize}
  BY MmioAssumption DEF RegsOK, MineOK
<1>2. \A x, to \in Int : to > 0 => AlignUp(x, to) \in Int
  BY DEF AlignUp
<1>3. DriverRings(pfn) \in Places
  <2> DEFINE start == (pfn * PageSize) + (16 * mine.num)
  <2>1. start \in Int /\ start + (2 * (3 + mine.num)) \in Int /\ pfn * PageSize \in Int
    BY <1>1
  <2>2. AlignUp(start + (2 * (3 + mine.num)), PageSize) \in Int
    BY <1>1, <1>2, <2>1
  <2> QED
    BY <2>1, <2>2 DEF DriverRings, Places
<1>4. ASSUME ~NotYetSetup PROVE vring_init(pfn) \in Places
  <2> DEFINE desc == pfn * 2^regs.guest_page_shift
             start == desc + (16 * regs.num)
  <2>1. desc \in Int
    BY <1>1
  <2>2. start \in Int /\ start + 4 + (2 * regs.num) \in Int
    BY <1>1, <2>1
  <2>3. AlignUp(start + 4 + (2 * regs.num), regs.align) \in Int
    BY <1>1, <1>2, <1>4, <2>2 DEF NotYetSetup
  <2> QED
    BY <2>1, <2>2, <2>3 DEF vring_init, UsedAt, Places
<1> QED
  BY <1>3, <1>4

\* A step of set-up may change features or panic; it leaves the rest of the device.
LEMMA SetUpLeaves ==
  ASSUME SetUpOK, SetUp
  PROVE  /\ ~mine.live
         /\ UNCHANGED <<guestMem, disk, last_avail_idx, used_idx, isr, _req, irq,
                        workPc, working, cpu>>
         /\ guest_features' = guest_features \/ guest_features' \subseteq Features
         /\ panic' = panic \/ panic' = TRUE
         /\ mine'.live => guest_features' = guest_features
<1> USE DEF vars, device, worker, Probing
<1>1. ASSUME NEW half \in BOOLEAN, SelectDevice(half) \/ SelectDriver(half)
      PROVE  ~mine.live /\ UNCHANGED vars
  BY <1>1 DEF SelectDevice, SelectDriver
<1>2. ASSUME ReadFeatures \/ WritePageSize \/ WriteAlign \/ ReleaseQueue \/ Reset
             \/ WriteDriverOk \/ \E n \in Nums : WriteNum(n)
      PROVE  ~mine.live /\ UNCHANGED vars
  BY <1>2 DEF ReadFeatures, WritePageSize, WriteAlign, ReleaseQueue, Reset, WriteDriverOk,
              WriteNum
<1>3. ASSUME NEW f \in SUBSET Features, WriteFeatures(f)
      PROVE  /\ ~mine.live /\ ~mine'.live /\ OnlyGuestFeatures
             /\ guest_features' = guest_features \/ guest_features' \subseteq Features
  BY <1>3 DEF WriteFeatures, FeaturesAfter, SetUpOK, MineOK
<1>4. ASSUME NEW pfn \in Pages, WritePfn(pfn)
      PROVE  /\ ~mine.live
             /\ UNCHANGED <<guestMem, guest_features, disk, last_avail_idx, used_idx, isr,
                            _req, irq, workPc, working, cpu>>
             /\ panic' = panic \/ panic' = TRUE
  BY <1>4 DEF WritePfn
<1> QED
  BY <1>1, <1>2, <1>3, <1>4 DEF SetUp, OnlyGuestFeatures

\* Every step of set-up keeps the account of it.
LEMMA SetUpKept ==
  ASSUME SetUpOK, SetUp
  PROVE  SetUpOK'
<1>0. /\ RegsOK /\ MineOK /\ ToldOK /\ IdleUntilLive /\ 0 \in Nat
      /\ NoRings \in Places /\ Nums \subseteq Nat /\ Num \in Nums
  BY MmioAssumption DEF SetUpOK, NoRings, Places
<1>1. IdleUntilLive'
  <2>1. UNCHANGED <<cpuPc, avail_event, last_avail_idx>> /\ ~mine.live
    BY SetUpLeaves DEF guestMem, cpu
  <2> QED
    BY <1>0, <2>1 DEF IdleUntilLive
<1> USE DEF RegsOK, MineOK, ToldOK, Told, Probing
<1>2. ASSUME NEW half \in BOOLEAN, SelectDevice(half) \/ SelectDriver(half)
      PROVE  RegsOK' /\ MineOK' /\ ToldOK'
  BY <1>0, <1>2 DEF SelectDevice, SelectDriver, vars, device
<1>3. ASSUME ReadFeatures
      PROVE  RegsOK' /\ MineOK' /\ ToldOK'
  BY <1>0, <1>3 DEF ReadFeatures, DeviceFeatures, vars, device
<1>4. ASSUME NEW f \in SUBSET Features, WriteFeatures(f)
      PROVE  RegsOK' /\ MineOK' /\ ToldOK'
  <2>1. RegsOK'
    BY <1>0, <1>4 DEF WriteFeatures
  <2>2. CASE regs.guest_features_sel
    BY <1>0, <1>4, <2>1, <2>2 DEF WriteFeatures, FeaturesAfter
  <2>3. CASE ~regs.guest_features_sel
    <3>1. /\ mine' = [mine EXCEPT !.agreed = f, !.told = @ \cup {"features"}]
          /\ guest_features' = f /\ regs' = regs
      BY <1>4, <2>3 DEF WriteFeatures, FeaturesAfter
    <3>2. MineOK'
      BY <1>0, <3>1
    <3>3. ToldOK'
      BY <1>0, <3>1
    <3> QED
      BY <2>1, <3>2, <3>3
  <2> QED
    BY <2>2, <2>3
<1>5. ASSUME WritePageSize
      PROVE  RegsOK' /\ MineOK' /\ ToldOK'
  BY <1>0, <1>5 DEF WritePageSize, vars, device
<1>6. ASSUME NEW n \in Nums, WriteNum(n)
      PROVE  RegsOK' /\ MineOK' /\ ToldOK'
  BY <1>0, <1>6 DEF WriteNum, vars, device
<1>7. ASSUME WriteAlign
      PROVE  RegsOK' /\ MineOK' /\ ToldOK'
  BY <1>0, <1>7 DEF WriteAlign, vars, device
<1>8. ASSUME NEW pfn \in Pages, WritePfn(pfn)
      PROVE  RegsOK' /\ MineOK' /\ ToldOK'
  <2>1. CASE NotYetSetup
    BY <1>0, <1>8, <2>1 DEF WritePfn, setupVars
  <2>2. CASE ~NotYetSetup
    <3>1. vring_init(pfn) \in Places /\ DriverRings(pfn) \in Places
      BY <1>0, <2>2, PlacesTyped
    <3> QED
      BY <1>0, <1>8, <2>2, <3>1 DEF WritePfn, vars, device
  <2> QED
    BY <2>1, <2>2
<1>9. ASSUME ReleaseQueue
      PROVE  RegsOK' /\ MineOK' /\ ToldOK'
  <2>1. /\ regs' = [regs EXCEPT !.rings.desc = 0] /\ mine' = [mine EXCEPT !.rings = NoRings]
        /\ guest_features' = guest_features /\ ~mine.live
    BY <1>9 DEF ReleaseQueue, vars, device
  <2> DEFINE left == [regs.rings EXCEPT !.desc = 0]
  <2>2. RegsOK'
    <3>1. regs.rings \in Places
      BY <1>0
    <3>2. left \in Places
      BY <3>1 DEF Places
    <3>3. regs' = [regs EXCEPT !.rings = left]
      BY <1>0, <2>1
    <3> HIDE DEF left
    <3> QED
      BY <1>0, <3>2, <3>3
  <2>3. MineOK' /\ mine'.rings = NoRings /\ ~mine'.live /\ mine'.told = mine.told
        /\ mine'.num = mine.num /\ mine'.agreed = mine.agreed
    BY <1>0, <2>1
  <2>4. regs'.guest_page_shift = regs.guest_page_shift /\ regs'.num = regs.num
        /\ regs'.align = regs.align
    BY <1>0, <2>1
  <2> QED
    BY <1>0, <2>1, <2>2, <2>3, <2>4
<1>10. ASSUME Reset
       PROVE  RegsOK' /\ MineOK' /\ ToldOK'
  BY <1>0, <1>10 DEF Reset, Unknown, vars, device
<1>11. ASSUME WriteDriverOk
       PROVE  RegsOK' /\ MineOK' /\ ToldOK'
  BY <1>0, <1>11 DEF WriteDriverOk, vars, device
<1> QED
  BY <1>1, <1>2, <1>3, <1>4, <1>5, <1>6, <1>7, <1>8, <1>9, <1>10, <1>11 DEF SetUp, SetUpOK

\* The rings that are handed over stay where they are, and apart.
LEMMA RingsKept ==
  ASSUME NoneEndsWithPage, SetUpOK, RingsOK, SetUp
  PROVE  RingsOK'
<1>0. RegsOK /\ MineOK /\ ToldOK
  BY DEF SetUpOK
<1> USE DEF RegsOK, MineOK
<1>1. ASSUME NEW half \in BOOLEAN, SelectDevice(half) \/ SelectDriver(half) PROVE RingsOK'
  BY <1>0, <1>1 DEF SelectDevice, SelectDriver, RingsOK
<1>2. ASSUME ReadFeatures \/ \E f \in SUBSET Features : WriteFeatures(f) PROVE RingsOK'
  BY <1>0, <1>2 DEF ReadFeatures, WriteFeatures, RingsOK
<1>3. ASSUME WritePageSize \/ (\E n \in Nums : WriteNum(n)) \/ WriteAlign PROVE RingsOK'
  BY <1>0, <1>3 DEF WritePageSize, WriteNum, WriteAlign, RingsOK
<1>4. ASSUME ReleaseQueue \/ Reset PROVE RingsOK'
  BY <1>0, <1>4 DEF ReleaseQueue, Reset, Unknown, RingsOK
<1>5. ASSUME WriteDriverOk PROVE RingsOK'
  BY <1>0, <1>5 DEF WriteDriverOk, RingsOK
<1>6. ASSUME NEW pfn \in Pages, WritePfn(pfn) PROVE RingsOK'
  <2>1. CASE NotYetSetup
    BY <1>6, <2>1 DEF WritePfn, RingsOK, setupVars
  <2>2. CASE ~({"page size", "num", "align"} \subseteq mine.told) /\ ~NotYetSetup
    BY <1>0, <1>6, <2>2 DEF WritePfn, RingsOK
  <2>3. CASE {"page size", "num", "align"} \subseteq mine.told /\ ~NotYetSetup
    <3>1. /\ regs' = [regs EXCEPT !.rings = vring_init(pfn)]
          /\ mine' = [mine EXCEPT !.rings = DriverRings(pfn)]
      BY <1>6, <2>3 DEF WritePfn
    <3>2. /\ 2^regs.guest_page_shift = PageSize /\ regs.num = mine.num
          /\ mine.num \in Nums /\ regs.align = PageSize
      BY <1>0, <2>3, MmioAssumption DEF ToldOK
    <3> DEFINE start == (pfn * PageSize) + (16 * mine.num)
    <3>3. start \in Int /\ pfn \in Int /\ pfn * PageSize \in Int
      <4>1. pfn \in Int /\ PageSize \in Int /\ mine.num \in Int
        <5>1. Pages \subseteq Int /\ Nums \subseteq Int /\ PageSize \in Int
          BY MmioAssumption
        <5>2. mine.num \in Nums
          BY <3>2
        <5> QED
          BY <5>1, <5>2
      <4>2. pfn * PageSize \in Int /\ 16 * mine.num \in Int
        BY <4>1
      <4> QED
        BY <4>1, <4>2
    <3>4. /\ vring_init(pfn) = [desc |-> pfn * PageSize, avail |-> start,
                                used |-> UsedAt(start, mine.num, PageSize)]
          /\ DriverRings(pfn) = [desc |-> pfn * PageSize, avail |-> start,
                                 used |-> AlignUp(start + 2 * (3 + mine.num), PageSize)]
      BY <3>2 DEF vring_init, DriverRings
    <3>5. start = pfn * PageSize + 16 * mine.num
      OBVIOUS
    <3> HIDE DEF start
    <3>6. /\ UsedAt(start, mine.num, PageSize) = AlignUp(start + 2 * (3 + mine.num), PageSize)
          /\ start + 2 * (3 + mine.num) <= UsedAt(start, mine.num, PageSize)
      BY <3>2, <3>3, <3>5, SameUsed
    <3>7. regs'.rings = vring_init(pfn) /\ mine'.rings = DriverRings(pfn) /\ regs'.num = mine.num
      BY <1>0, <3>1, <3>2
    <3> QED
      BY <3>4, <3>6, <3>7 DEF RingsOK
  <2> QED
    BY <2>1, <2>2, <2>3
<1> QED
  BY <1>1, <1>2, <1>3, <1>4, <1>5, <1>6 DEF SetUp

-----------------------------------------------------------------------------
(* The invariant holds throughout, from the start of the program.          *)

MmioIInv == IInv /\ SetUpOK

\* It holds at the start of the program.
LEMMA InitIInv == MmioInit => MmioIInv /\ RingsOK
<1> SUFFICES ASSUME MmioInit PROVE MmioIInv /\ RingsOK
  OBVIOUS
<1> USE DEF MmioInit, Init
<1>0. 0 \in Index /\ 0 \in Heads /\ None \notin Heads
  BY VirtioAssumption, HeadFacts DEF Index, Heads
<1>1. TypeOK
  BY <1>0 DEF TypeOK
<1>2. Finished = <<>> /\ Waiting = <<>>
  BY <1>0, <1>1, WindowEmpty DEF Finished, Waiting, TypeOK, Rings
<1>3. WorkTodo = None /\ WorkDone = None /\ _req = None /\ popped = None
  BY DEF WorkTodo, WorkDone
<1>4. Todo = ((<<>> \o <<>>) \o <<>>) \o <<>> /\ Done = <<>> \o <<>>
  BY <1>2, <1>3, HeadFacts DEF Todo, Done
<1>5. <<>> \in Seq(Heads) /\ <<>> \o <<>> = <<>>
  OBVIOUS
<1>6. InFlight = <<>>
  BY <1>4, <1>5 DEF InFlight
<1>7. QueueOK /\ WholeOK
  BY <1>2, <1>6 DEF QueueOK, WholeOK, Distinct
<1>8. KickOK /\ WorkerOK
  BY DEF KickOK, WorkerOK
<1>9. SetUpOK /\ RingsOK
  <2>1. RegsOK /\ MineOK
    BY DEF RegsOK, MineOK, Unknown, NoRings, Places, Told
  <2> QED
    BY <2>1 DEF SetUpOK, RingsOK, ToldOK, IdleUntilLive, Unknown
<1> QED
  BY <1>1, <1>7, <1>8, <1>9 DEF IInv, MmioIInv

\* A step of the ring keeps it, and takes a step of BlockDevice or none.
LEMMA RingStep ==
  ASSUME IInv, Next
  PROVE  IInv' /\ (Device!Next \/ UNCHANGED Device!vars)
<1>1. TypeOK /\ QueueOK /\ KickOK /\ WorkerOK /\ WholeOK
  BY DEF IInv
<1>2. Device!Next \/ UNCHANGED Device!vars
  BY <1>1, Simulation
<1>3. TypeOK'
  BY <1>1, TypesKept
<1>4. QueueOK'
  BY <1>1, <1>2, <1>3, QueuesKept
<1>5. KickOK' /\ WorkerOK' /\ WholeOK'
  BY <1>1, KicksKept, WorkerKept, WholeKept
<1> QED
  BY <1>2, <1>3, <1>4, <1>5 DEF IInv

\* A step of set-up keeps it and is none of BlockDevice's.
LEMMA SetUpStep ==
  ASSUME MmioIInv, SetUp
  PROVE  MmioIInv' /\ UNCHANGED Device!vars
<1>1. /\ UNCHANGED <<guestMem, disk, last_avail_idx, used_idx, _req, irq, isr,
                     workPc, working, cpu>>
      /\ ~mine.live
      /\ guest_features' = guest_features \/ guest_features' \subseteq Features
      /\ panic' = panic \/ panic' = TRUE
      /\ TypeOK /\ QueueOK /\ KickOK /\ WorkerOK /\ WholeOK /\ SetUpOK /\ IdleUntilLive
  BY SetUpLeaves DEF MmioIInv, IInv, SetUpOK
<1>2. UNCHANGED <<WorkTodo, WorkDone, Finished>>
  BY <1>1 DEF WorkTodo, WorkDone, Finished, guestMem, cpu
<1>3. UNCHANGED <<Todo, Done>>
  BY <1>1, <1>2, QueueSame DEF guestMem, cpu
<1>4. UNCHANGED Device!vars
  BY <1>1, <1>3, DeviceIs DEF guestMem
<1>5. TypeOK'
  BY <1>1 DEF TypeOK, guestMem, cpu
<1>6. QueueOK'
  BY <1>1, <1>4, <1>5, QueuesKept
<1>7. KickOK'
  BY <1>1 DEF KickOK, IdleUntilLive, guestMem, cpu
<1>8. WorkerOK' /\ WholeOK'
  BY <1>1, <1>2 DEF WorkerOK, WholeOK, guestMem
<1>9. SetUpOK'
  BY <1>1, SetUpKept
<1> QED
  BY <1>4, <1>5, <1>6, <1>7, <1>8, <1>9 DEF MmioIInv, IInv

\* The ring's steps leave the account of set-up alone.
LEMMA RingLeaves ==
  ASSUME SetUpOK, UNCHANGED setupVars,
         (mine.live /\ (Driver \/ Mmio)) \/ Routine
  PROVE  SetUpOK' /\ RegsOK'
<1>1. guest_features' = guest_features
  BY DEF Driver, Mmio, Routine, Submit, Kick, IrqClaim, Reap, ReadInterruptStatus,
         InterruptAckLoad, InterruptAckStore, QueueNotifyPop, QueueNotifyDirect,
         HandleRequest, HandleRequestSignal, RoutineTake, DoRequest, DoRequestPanic,
         CompleteStatus, UsedWriteRing, UsedWriteIdx, CompleteIsr, CompleteSignal, device
<1>2. IdleUntilLive'
  <2>1. CASE Routine
    <3>1. UNCHANGED <<cpuPc, avail_event, last_avail_idx>>
      BY <2>1 DEF Routine, RoutineTake, DoRequest, DoRequestPanic, CompleteStatus,
         UsedWriteRing, UsedWriteIdx, CompleteIsr, CompleteSignal, device, guestMem, cpu
    <3> QED
      BY <3>1 DEF SetUpOK, IdleUntilLive, setupVars
  <2> QED
    BY <2>1 DEF IdleUntilLive, setupVars
<1> QED
  BY <1>1, <1>2 DEF SetUpOK, RegsOK, MineOK, ToldOK, setupVars

\* Every step keeps the invariant, and takes a step of BlockDevice or none.
LEMMA MmioStep ==
  ASSUME MmioIInv, [MmioNext]_allVars
  PROVE  MmioIInv' /\ (Device!Next \/ UNCHANGED Device!vars)
<1>1. CASE SetUp
  BY <1>1, SetUpStep
<1>2. CASE ((mine.live /\ (Driver \/ Mmio)) \/ Routine) /\ UNCHANGED setupVars
  BY <1>2, RingStep, RingLeaves DEF MmioIInv, Next
<1>3. CASE UNCHANGED allVars
  <2> USE DEF allVars, vars, guestMem, device, worker, cpu, setupVars
  <2>1. UNCHANGED <<Todo, Done, WorkTodo, WorkDone, Finished, InFlight>>
    BY <1>3 DEF Todo, Done, InFlight, WorkTodo, WorkDone, Finished, Waiting
  <2>2. UNCHANGED Device!vars
    BY <1>3, <2>1, DeviceIs
  <2>3. TypeOK' /\ KickOK' /\ WorkerOK'
    BY <1>3 DEF MmioIInv, IInv, TypeOK, KickOK, WorkerOK
  <2>4. QueueOK' /\ WholeOK'
    BY <1>3, <2>1 DEF MmioIInv, IInv, QueueOK, WholeOK, Distinct
  <2>5. SetUpOK'
    BY <1>3 DEF MmioIInv, SetUpOK, RegsOK, MineOK, ToldOK, IdleUntilLive
  <2> QED
    BY <2>2, <2>3, <2>4, <2>5 DEF MmioIInv, IInv
<1> QED
  BY <1>1, <1>2, <1>3 DEF MmioNext

\* The invariant of the device and its driver, from the start of the program.
THEOREM Invariance == MmioSpec => []MmioIInv
<1>1. MmioInit => MmioIInv
  BY InitIInv
<1>2. MmioIInv /\ [MmioNext]_allVars => MmioIInv'
  BY MmioStep
<1> QED
  BY <1>1, <1>2, PTL DEF MmioSpec

\* Everything has its type (the types of the ring, the device and both threads).
THEOREM TypeCorrect == MmioSpec => []TypeOK
<1>1. MmioIInv => TypeOK
  BY DEF MmioIInv, IInv
<1> QED
  BY <1>1, Invariance, PTL

\* No kick is lost, although the event index suppresses kicks (vqueue_pop).
THEOREM KickNeverLost == MmioSpec => []NoLostKick
<1>1. MmioIInv => NoLostKick
  BY DEF MmioIInv, IInv, KickOK, NoLostKick
<1> QED
  BY <1>1, Invariance, PTL

\* Whatever the driver may find on the used ring is finished (_complete).
THEOREM CompletionsWhole == MmioSpec => []CompletionIsWhole
<1>1. ASSUME MmioIInv PROVE CompletionIsWhole
  <2> SUFFICES ASSUME NEW i \in 0..(Num - 1), i < Gap(used_mem, lastUsed)
               PROVE  statusByte[used[(lastUsed + i) % Num]]
    BY DEF CompletionIsWhole
  <2>1. /\ lastUsed \in Index /\ used_mem \in Index /\ used \in Rings /\ WholeOK
        /\ Gap(used_mem, lastUsed) \in Nat /\ Num \in Nat
    BY <1>1, IndexFacts DEF MmioIInv, IInv, TypeOK, Rings, Index
  <2>2. /\ Len(Finished) = Gap(used_mem, lastUsed)
        /\ \A k \in 1..Gap(used_mem, lastUsed) : Finished[k] = used[Slot(lastUsed, k - 1)]
    BY <2>1, WindowFacts DEF Finished
  <2>3. i + 1 \in 1..Gap(used_mem, lastUsed) /\ (i + 1) - 1 = i
    BY <2>1
  <2>4. Finished[i + 1] = used[Slot(lastUsed, i)]
    BY <2>2, <2>3
  <2> QED
    BY <2>1, <2>2, <2>3, <2>4 DEF WholeOK, Slot
<1> QED
  BY <1>1, Invariance, PTL

\* The rings, the slot and the two threads together execute every request once and
\* in order and give it back once and in order, for rings of any size and indices
\* of any width: the refinement of BlockDevice (vqueue_pop, _routine, _complete).
THEOREM Refinement == MmioSpec => ImplementsBlockDevice
<1>1. MmioInit => Device!Init
  <2> SUFFICES ASSUME MmioInit PROVE Device!Init
    OBVIOUS
  <2>1. 0 \in Index /\ avail \in Rings /\ used \in Rings
    BY InitIInv, VirtioAssumption DEF MmioIInv, IInv, TypeOK, Rings, Index
  <2>2. Finished = <<>> /\ Waiting = <<>>
    BY <2>1, WindowEmpty DEF Finished, Waiting, MmioInit, Init
  <2>3. WorkTodo = None /\ WorkDone = None /\ _req = None /\ popped = None
    BY DEF WorkTodo, WorkDone, MmioInit, Init
  <2>4. Todo = ((<<>> \o <<>>) \o <<>>) \o <<>> /\ Done = <<>> \o <<>>
    BY <2>2, <2>3, HeadFacts DEF Todo, Done
  <2>5. Todo = <<>> /\ Done = <<>>
    BY <2>4
  <2> QED
    BY <2>5, DeviceIs DEF MmioInit, Init
<1>2. MmioIInv /\ [MmioNext]_allVars => [Device!Next]_(Device!vars)
  BY MmioStep
<1> QED
  BY <1>1, <1>2, Invariance, PTL DEF MmioSpec, ImplementsBlockDevice, Device!Spec

\* Driver and device agree on the rings and on the features (vring_init and the
\* selector of DRIVER_FEATURES), if no ring ends with a page.
THEOREM Agreement == ASSUME NoneEndsWithPage PROVE MmioSpec => []SetUpAgrees
<1>1. MmioInit => RingsOK
  BY InitIInv
<1>2. ASSUME MmioIInv, RingsOK, [MmioNext]_allVars PROVE RingsOK'
  <2>1. CASE SetUp
    BY <1>2, <2>1, RingsKept DEF MmioIInv
  <2>2. CASE UNCHANGED setupVars
    BY <1>2, <2>2 DEF RingsOK, setupVars
  <2> QED
    BY <1>2, <2>1, <2>2 DEF MmioNext, allVars
<1>3. MmioIInv /\ RingsOK => SetUpAgrees
  BY DEF MmioIInv, SetUpOK, ToldOK, RingsOK, SetUpAgrees
<1> QED
  BY <1>1, <1>2, <1>3, Invariance, PTL DEF MmioSpec

-----------------------------------------------------------------------------
(* Completions are noticed, if the driver acknowledges only what it has    *)
(* read.                                                                   *)

\* The driver has been told, or will be when it reads isr.
Noticed == isr = 1 \/ cpuPc \in {"ackLoad", "ackStore", "reap"}

\* An interrupt is on its way to it, or it is in its handler.
Called == workPc = "signal" \/ irq \/ cpuPc \in {"claimed", "ackLoad", "ackStore", "reap"}

\* NoLostCompletion is not inductive: it does not say that the interrupt the worker
\* is about to raise will find isr set.
NoticeOK == /\ cpuPc \in {"ackLoad", "ackStore"} => intStatus = 1
            /\ used_mem # lastUsed => workPc = "isr" \/ (Noticed /\ Called)

\* Every step of the ring keeps it.
LEMMA NoticeKept ==
  ASSUME ~AckZero, TypeOK, NoticeOK, Next
  PROVE  NoticeOK'
<1> USE DEF NoticeOK, Noticed, Called
<1>1. ASSUME NEW h \in Heads, NEW r \in Requests, Submit(h, r) PROVE NoticeOK'
  BY <1>1 DEF Submit, device, worker
<1>2. ASSUME Kick PROVE NoticeOK'
  BY <1>2 DEF Kick, guestMem, device, worker
<1>3. ASSUME IrqClaim PROVE NoticeOK'
  BY <1>3 DEF IrqClaim, guestMem, worker
<1>4. ASSUME Reap PROVE NoticeOK'
  BY <1>4 DEF Reap, device, worker
<1>5. ASSUME ReadInterruptStatus PROVE NoticeOK'
  <2>1. /\ cpuPc = "claimed" /\ intStatus' = isr
        /\ UNCHANGED <<used_mem, lastUsed, workPc, isr, irq>>
    BY <1>5 DEF ReadInterruptStatus, guestMem, device, worker
  <2>2. cpuPc' = IF isr = 1 THEN "ackLoad" ELSE "run"
    BY <1>5, Zenon DEF ReadInterruptStatus
  <2> QED
    BY <2>1, <2>2
<1>6. ASSUME InterruptAckLoad PROVE NoticeOK'
  BY <1>6 DEF InterruptAckLoad, guestMem, device, worker
<1>7. ASSUME InterruptAckStore PROVE NoticeOK'
  BY <1>7 DEF InterruptAckStore, guestMem, worker
<1>8. ASSUME QueueNotifyPop \/ QueueNotifyDirect PROVE NoticeOK'
  BY <1>8 DEF QueueNotifyPop, QueueNotifyDirect, TakeHead, worker
<1>9. ASSUME HandleRequest PROVE NoticeOK'
  BY <1>9 DEF HandleRequest, guestMem, worker
<1>10. ASSUME HandleRequestSignal PROVE NoticeOK'
  BY <1>10 DEF HandleRequestSignal, Woken, guestMem, device
<1>11. ASSUME RoutineTake PROVE NoticeOK'
  BY <1>11 DEF RoutineTake, guestMem, cpu
<1>12. ASSUME DoRequest \/ CompleteStatus \/ UsedWriteRing PROVE NoticeOK'
  BY <1>12, StepIs DEF DoRequest, CompleteStatus, UsedWriteRing, device, cpu
<1>13. ASSUME DoRequestPanic PROVE NoticeOK'
  BY <1>13 DEF DoRequestPanic, guestMem, worker, cpu
<1>14. ASSUME UsedWriteIdx PROVE NoticeOK'
  <2>1. workPc' = "isr" /\ UNCHANGED <<cpuPc, intStatus>>
    BY <1>14, StepIs DEF UsedWriteIdx, cpu
  <2> QED
    BY <2>1
<1>15. ASSUME CompleteIsr PROVE NoticeOK'
  BY <1>15, StepIs DEF CompleteIsr, guestMem, cpu
<1>16. ASSUME CompleteSignal PROVE NoticeOK'
  BY <1>16, StepIs DEF CompleteSignal, guestMem, cpu
<1> QED
  BY <1>1, <1>2, <1>3, <1>4, <1>5, <1>6, <1>7, <1>8, <1>9, <1>10, <1>11, <1>12, <1>13,
     <1>14, <1>15, <1>16 DEF Next, Driver, Mmio, Routine

\* No completion is lost, although isr is updated by two threads without a lock, if
\* the driver acknowledges no isr that it has read as 0 (virtio_mmio_write, _complete).
THEOREM CompletionNeverLost == ASSUME ~AckZero PROVE MmioSpec => []NoLostCompletion
<1>1. MmioInit => NoticeOK
  BY DEF MmioInit, Init, NoticeOK
<1>2. ASSUME MmioIInv, NoticeOK, [MmioNext]_allVars PROVE NoticeOK'
  <2>1. CASE SetUp
    <3>1. SetUpOK
      BY <1>2 DEF MmioIInv
    <3> QED
      BY <1>2, <2>1, <3>1, SetUpLeaves DEF NoticeOK, Noticed, Called, guestMem, cpu
  <2>2. CASE Next
    BY <1>2, <2>2, NoticeKept DEF MmioIInv, IInv
  <2>3. CASE UNCHANGED allVars
    BY <1>2, <2>3 DEF NoticeOK, Noticed, Called, allVars, vars, guestMem, device, worker, cpu
  <2> QED
    BY <1>2, <2>1, <2>2, <2>3 DEF MmioNext, Next
<1>3. MmioIInv /\ NoticeOK => NoLostCompletion
  BY DEF NoticeOK, Noticed, Called, NoLostCompletion, MmioIInv, IInv, TypeOK
<1> QED
  BY <1>1, <1>2, <1>3, Invariance, PTL DEF MmioSpec
=============================================================================
