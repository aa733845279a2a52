---------------------------- MODULE ExecuteProofs ----------------------------
(***************************************************************************)
(* Proofs about Execute, for bytes of any number of bits, any memory, page *)
(* table and guest code: every value keeps its width, register 0 is zero,  *)
(* an access that fails leaves nothing behind, and what an instruction     *)
(* computes, loads and stores is what the architecture says.  On that      *)
(* rests that a lock of the guest works (module Threads).                  *)
(***************************************************************************)
EXTENDS Threads, WellFoundedInduction, TLAPS

-----------------------------------------------------------------------------
(* Powers of two.                                                          *)

\* A set of numbers has a least one.
LEMMA Least ==
  ASSUME NEW S \in SUBSET Nat, S # {}
  PROVE  \E x \in S : \A y \in S : x <= y
<1>1. PICK x \in S : \A y \in S : <<y, x>> \notin OpToRel(<, Nat)
  BY NatLessThanWellFounded, WFMin, Zenon
<1>2. \A y \in S : ~(y < x)
  BY <1>1, Zenon DEF OpToRel
<1> QED
  BY <1>2

\* The widths.
LEMMA WidthsAre ==
  /\ B \in Nat \ {0} /\ W \in Nat \ {0} /\ X \in Nat \ {0}
  /\ W = 4 * B /\ X = 8 * B /\ W < X
BY WidthsAssumption DEF W, X

\* The powers of two up to the widest number.
LEMMA PowerIs ==
  /\ 2^0 = 1
  /\ \A n \in 0 .. X : 2^n \in Nat \ {0}
  /\ \A n \in 0 .. X - 1 : 2^(n + 1) = 2 * 2^n
<1>1. 2^0 = 1
  OBVIOUS
<1>2. \A n \in 0 .. X - 1 : 2^n \in Nat \ {0} /\ 2^(n + 1) = 2 * 2^n
  BY PowersAssumption DEF X
<1>3. 2^X \in Nat \ {0}
  <2>1. X - 1 \in 0 .. X - 1 /\ (X - 1) + 1 = X
    BY WidthsAre
  <2>2. 2^(X - 1) \in Nat \ {0} /\ 2^((X - 1) + 1) = 2 * 2^(X - 1)
    BY <1>2, <2>1
  <2> QED
    BY <2>1, <2>2
<1>4. ASSUME NEW n \in 0 .. X PROVE n = X \/ n \in 0 .. X - 1
  BY WidthsAre
<1> QED
  BY <1>1, <1>2, <1>3, <1>4

\* The power of a sum.
LEMMA PowerOfSum ==
  ASSUME NEW a \in 0 .. X, NEW b \in 0 .. X, a + b <= X
  PROVE  2^(a + b) = 2^a * 2^b
<1> DEFINE S == {n \in 0 .. b : 2^(a + n) # 2^a * 2^n}
<1>1. CASE S = {}
  <2>1. b \notin S
    <3> HIDE DEF S
    <3> QED
      BY <1>1
  <2>2. b \in 0 .. b
    BY WidthsAre
  <2> QED
    BY <2>1, <2>2
<1>2. CASE S # {}
  <2>1. S \subseteq Nat
    BY WidthsAre
  <2>2. PICK n \in S : \A m \in S : n <= m
    <3> HIDE DEF S
    <3> QED
      BY <1>2, <2>1, Least
  <2>3. n \in 0 .. b /\ 2^(a + n) # 2^a * 2^n
    BY <2>2
  <2>4. n # 0
    <3>1. 2^(a + 0) = 2^a /\ 2^a * 2^0 = 2^a
      BY PowerIs, WidthsAre
    <3> QED
      BY <2>3, <3>1
  <2>5. n - 1 \in 0 .. b /\ n - 1 \notin S
    BY <2>2, <2>3, <2>4, WidthsAre
  <2>6. 2^(a + (n - 1)) = 2^a * 2^(n - 1)
    BY <2>5
  <2>7. a + (n - 1) \in 0 .. X - 1 /\ n - 1 \in 0 .. X - 1
        /\ (a + (n - 1)) + 1 = a + n /\ (n - 1) + 1 = n
    BY <2>3, <2>4, WidthsAre
  <2>8. 2^(a + n) = 2 * 2^(a + (n - 1)) /\ 2^n = 2 * 2^(n - 1)
    BY <2>7, PowerIs
  <2>9. 2^a \in Nat /\ 2^(n - 1) \in Nat
    BY <2>7, PowerIs, WidthsAre
  <2>10. 2 * (2^a * 2^(n - 1)) = 2^a * (2 * 2^(n - 1))
    <3> DEFINE x == 2^a  y == 2^(n - 1)
    <3>1. x \in Nat /\ y \in Nat
      BY <2>9
    <3> HIDE DEF x, y
    <3>2. 2 * (x * y) = x * (2 * y)
      BY <3>1
    <3> QED
      BY <3>2 DEF x, y
  <2> QED
    BY <2>3, <2>6, <2>8, <2>10
<1> QED
  BY <1>1, <1>2

\* The larger exponent has the larger power.
LEMMA PowerGrows ==
  ASSUME NEW a \in 0 .. X, NEW b \in 0 .. X, a <= b
  PROVE  2^a <= 2^b
<1>1. b - a \in 0 .. X /\ a + (b - a) = b
  BY WidthsAre
<1>2. 2^b = 2^a * 2^(b - a)
  BY <1>1, PowerOfSum
<1>3. 2^a \in Nat \ {0} /\ 2^(b - a) \in Nat \ {0}
  BY <1>1, PowerIs
<1> DEFINE x == 2^a  y == 2^(b - a)
<1>4. x <= x * y
  <2>1. x \in Nat \ {0} /\ y \in Nat \ {0}
    BY <1>3
  <2> HIDE DEF x, y
  <2>2. y - 1 \in Nat /\ x * y = x + x * (y - 1)
    BY <2>1
  <2>3. x * (y - 1) \in Nat
    BY <2>1, <2>2
  <2> QED
    BY <2>1, <2>2, <2>3
<1> QED
  BY <1>2, <1>4

-----------------------------------------------------------------------------
(* Conversions between the widths.                                         *)

\* A number cut to n bits.
LEMMA WrapIs ==
  ASSUME NEW v \in Int, NEW n \in 0 .. X
  PROVE  /\ Wrap(v, n) \in 0 .. 2^n - 1
         /\ Wrap(v, n) \in Nat
<1>1. 2^n \in Nat \ {0}
  BY PowerIs
<1> DEFINE p == 2^n
<1>2. v % p \in 0 .. p - 1 /\ v % p \in Nat
  <2>1. p \in Nat \ {0}
    BY <1>1
  <2> HIDE DEF p
  <2> QED
    BY <2>1
<1> QED
  BY <1>2 DEF Wrap

\* The same bits as a signed number.
LEMMA SignedIs ==
  ASSUME NEW v \in Int, NEW n \in 1 .. X
  PROVE  Signed(v, n) \in Int
<1>1. n \in 0 .. X /\ n - 1 \in 0 .. X
  BY WidthsAre
<1>2. Wrap(v, n) \in Nat /\ 2^n \in Nat /\ 2^(n - 1) \in Nat
  BY <1>1, WrapIs, PowerIs
<1> QED
  BY <1>2 DEF Signed

\* What is cut to the width of a register fits into it.
LEMMA FitsDword ==
  /\ Dword \subseteq Nat /\ {0, 1, 7} \subseteq Dword
  /\ \A v \in Int : /\ Wrap(v, X) \in Dword /\ TO_WORD(v) \in Dword
                    /\ Wrap(v, W) \in Nat
                    /\ Signed(v, X) \in Int /\ Signed(v, W) \in Int
                    /\ \A n \in 1 .. X : SignExtend(v, n) \in Dword
<1>1. X \in 0 .. X /\ W \in 1 .. X /\ X \in 1 .. X /\ W \in 0 .. X
  BY WidthsAre
<1>2. 2^X \in Nat \ {0} /\ Dword \subseteq Nat
  BY <1>1, PowerIs DEF Dword
<1>3. {0, 1, 7} \subseteq Dword
  <2>1. 3 \in 0 .. X /\ 3 <= X
    BY WidthsAre
  <2>2. 2^3 = 8
    OBVIOUS
  <2>3. 8 <= 2^X
    BY <1>1, <2>1, <2>2, PowerGrows
  <2> QED
    BY <1>2, <2>3 DEF Dword
<1>4. ASSUME NEW v \in Int PROVE Wrap(v, X) \in Dword
  BY <1>1, WrapIs DEF Dword
<1>5. ASSUME NEW v \in Int, NEW n \in 1 .. X PROVE SignExtend(v, n) \in Dword
  BY <1>4, SignedIs DEF SignExtend
<1> QED
  BY <1>1, <1>2, <1>3, <1>4, <1>5, WrapIs, SignedIs DEF TO_WORD

\* Shifting to the right, dividing and taking a remainder make no number larger.
LEMMA DivisionShrinks ==
  ASSUME NEW a \in Nat, NEW d \in Nat \ {0}
  PROVE  /\ a \div d \in 0 .. a
         /\ a % d \in 0 .. a
<1> DEFINE q == a \div d  r == a % d
<1>1. q \in Nat /\ r \in 0 .. d - 1 /\ a = d * q + r
  OBVIOUS
<1> HIDE DEF q, r
<1>2. d * q = q + (d - 1) * q /\ (d - 1) * q \in Nat /\ d * q \in Nat
  <2>1. d - 1 \in Nat
    OBVIOUS
  <2> QED
    BY <1>1, <2>1
<1>3. q \in 0 .. a /\ r \in 0 .. a
  BY <1>1, <1>2
<1> QED
  BY <1>3 DEF q, r

-----------------------------------------------------------------------------
(* The sums that ram_read and the bitwise operations are: recursive        *)
(* functions over the numbers from 0 on.                                   *)

IsSum(g, t, N) == g = [n \in 0 .. N |-> IF n = 0 THEN 0 ELSE g[n - 1] + t[n]]

\* There is such a function, for any terms.
LEMMA SumExists ==
  ASSUME NEW N \in Nat, NEW t
  PROVE  \E g : IsSum(g, t, N)
<1> DEFINE S == {m \in 0 .. N : ~ \E g : IsSum(g, t, m)}
<1>1. CASE S = {}
  <2>1. N \notin S
    <3> HIDE DEF S
    <3> QED
      BY <1>1
  <2>2. N \in 0 .. N
    OBVIOUS
  <2> QED
    BY <2>1, <2>2
<1>2. CASE S # {}
  <2>1. S \subseteq Nat
    OBVIOUS
  <2>2. PICK m \in S : \A k \in S : m <= k
    <3> HIDE DEF S
    <3> QED
      BY <1>2, <2>1, Least
  <2>3. m \in 0 .. N /\ ~ \E g : IsSum(g, t, m)
    BY <2>2
  <2>4. m # 0
    <3> SUFFICES ASSUME m = 0 PROVE FALSE
      OBVIOUS
    <3> DEFINE z == [n \in 0 .. 0 |-> 0]
    <3>1. z = [n \in 0 .. 0 |-> IF n = 0 THEN 0 ELSE z[n - 1] + t[n]]
      OBVIOUS
    <3>2. IsSum(z, t, 0)
      BY <3>1, Zenon DEF IsSum
    <3> QED
      BY <2>3, <3>2
  <2>5. m - 1 \in 0 .. N /\ m - 1 \notin S
    BY <2>2, <2>3, <2>4
  <2>6. PICK g : IsSum(g, t, m - 1)
    BY <2>5
  <2> DEFINE h == [n \in 0 .. m |-> IF n = m THEN g[m - 1] + t[m] ELSE g[n]]
  <2>7. ASSUME NEW n \in 0 .. m
        PROVE  h[n] = IF n = 0 THEN 0 ELSE h[n - 1] + t[n]
    <3>1. CASE n = m
      <4>1. m - 1 \in 0 .. m /\ m - 1 # m
        BY <2>3, <2>4
      <4> QED
        BY <2>4, <3>1, <4>1
    <3>2. CASE n # m
      <4>1. n \in 0 .. m - 1 /\ (n # 0 => n - 1 \in 0 .. m /\ n - 1 # m)
        BY <2>3, <3>2
      <4>2. g[n] = IF n = 0 THEN 0 ELSE g[n - 1] + t[n]
        BY <2>6, <4>1 DEF IsSum
      <4> QED
        BY <3>2, <4>1, <4>2
    <3> QED
      BY <3>1, <3>2
  <2>8. h = [n \in 0 .. m |-> h[n]]
    OBVIOUS
  <2> HIDE DEF h
  <2>9. IsSum(h, t, m)
    BY <2>7, <2>8 DEF IsSum
  <2> QED
    BY <2>3, <2>9
<1> QED
  BY <1>1, <1>2

\* With digits of w bits, the sum of n of them is a number of w * n bits.
LEMMA SumIsNumber ==
  ASSUME NEW N \in Nat, NEW w \in Nat, w * N <= X, NEW t, NEW g, IsSum(g, t, N),
         \A n \in 1 .. N : \E d \in 0 .. 2^w - 1 : t[n] = d * 2^(w * (n - 1))
  PROVE  \A n \in 0 .. N : g[n] \in 0 .. 2^(w * n) - 1
<1> DEFINE Q(n) == g[n] \in 0 .. 2^(w * n) - 1
           S == {n \in 0 .. N : ~ Q(n)}
<1>1. CASE S = {}
  <2>1. ASSUME NEW n \in 0 .. N PROVE n \notin S
    <3> HIDE DEF S
    <3> QED
      BY <1>1
  <2> QED
    BY <2>1
<1>2. CASE S # {}
  <2>1. S \subseteq Nat
    OBVIOUS
  <2>2. PICK n \in S : \A k \in S : n <= k
    <3> HIDE DEF S
    <3> QED
      BY <1>2, <2>1, Least
  <2>3. n \in 0 .. N /\ ~ Q(n)
    BY <2>2
  <2>4. g[n] = IF n = 0 THEN 0 ELSE g[n - 1] + t[n]
    BY <2>3 DEF IsSum
  <2>5. n # 0
    <3> SUFFICES ASSUME n = 0 PROVE FALSE
      OBVIOUS
    <3>1. w * n = 0
      OBVIOUS
    <3>2. 2^(w * n) = 1
      BY <3>1, PowerIs
    <3>3. g[n] = 0
      BY <2>4
    <3>4. g[n] \in 0 .. 2^(w * n) - 1
      BY <3>2, <3>3
    <3> QED
      BY <2>3, <3>4
  <2>6. n - 1 \in 0 .. N /\ n - 1 \notin S /\ n \in 1 .. N
    BY <2>2, <2>3, <2>5
  <2>7. g[n - 1] \in 0 .. 2^(w * (n - 1)) - 1
    BY <2>6
  <2>8. PICK d \in 0 .. 2^w - 1 : t[n] = d * 2^(w * (n - 1))
    BY <2>6
  <2> DEFINE a == w * (n - 1)
  <2>9. /\ a \in Nat /\ a + w = w * n /\ w * n <= w * N
    <3>1. n - 1 \in Nat /\ N - n \in Nat
      BY <2>6
    <3>2. w * (n - 1) \in Nat /\ w * (N - n) \in Nat
      BY <3>1
    <3>3. w * (n - 1) = w * n - w /\ w * (N - n) = w * N - w * n
      BY <2>6
    <3>4. w * n \in Int /\ w * N \in Int
      BY <2>6
    <3> QED
      BY <3>2, <3>3, <3>4
  <2>10. a \in 0 .. X /\ w \in 0 .. X /\ a + w <= X
    <3>1. w * n \in Int /\ w * N \in Int
      BY <2>6
    <3> QED
      BY <2>9, <3>1, WidthsAre
  <2> DEFINE p == 2^a  q == 2^w
  <2>11. 2^(w * n) = p * q /\ p \in Nat \ {0} /\ q \in Nat \ {0}
    <3>1. 2^(a + w) = 2^a * 2^w
      BY <2>10, PowerOfSum
    <3> QED
      BY <2>9, <2>10, <3>1, PowerIs
  <2>12. g[n] = g[n - 1] + d * p /\ g[n - 1] \in 0 .. p - 1 /\ d \in 0 .. q - 1
    BY <2>4, <2>5, <2>7, <2>8
  <2> HIDE DEF p, q, a
  <2>13. g[n] \in 0 .. p * q - 1
    <3>1. d * p \in Nat /\ (q - 1 - d) * p \in Nat
      <4>1. q - 1 - d \in Nat /\ d \in Nat
        BY <2>11, <2>12
      <4> QED
        BY <2>11, <4>1
    <3>2. (q - 1 - d) * p = p * q - p - d * p
      BY <2>11, <2>12
    <3>3. p * q \in Int
      BY <2>11
    <3> QED
      BY <2>11, <2>12, <3>1, <3>2, <3>3
  <2> QED
    BY <2>3, <2>11, <2>13
<1> QED
  BY <1>1, <1>2

\* A sum is determined by its terms.
LEMMA SumUnique ==
  ASSUME NEW N \in Nat, NEW t, NEW g, NEW h, IsSum(g, t, N), IsSum(h, t, N)
  PROVE  g[N] = h[N]
<1> DEFINE S == {n \in 0 .. N : g[n] # h[n]}
<1>1. CASE S = {}
  <2>1. N \notin S
    <3> HIDE DEF S
    <3> QED
      BY <1>1
  <2>2. N \in 0 .. N
    OBVIOUS
  <2> QED
    BY <2>1, <2>2
<1>2. CASE S # {}
  <2>1. S \subseteq Nat
    OBVIOUS
  <2>2. PICK n \in S : \A k \in S : n <= k
    <3> HIDE DEF S
    <3> QED
      BY <1>2, <2>1, Least
  <2>3. n \in 0 .. N /\ g[n] # h[n]
    BY <2>2
  <2>4. /\ g[n] = IF n = 0 THEN 0 ELSE g[n - 1] + t[n]
        /\ h[n] = IF n = 0 THEN 0 ELSE h[n - 1] + t[n]
    BY <2>3 DEF IsSum
  <2>5. n # 0
    BY <2>3, <2>4
  <2>6. n - 1 \in 0 .. N /\ n - 1 \notin S
    BY <2>2, <2>3, <2>5
  <2>7. g[n - 1] = h[n - 1]
    BY <2>6
  <2> QED
    BY <2>3, <2>4, <2>5, <2>7
<1> QED
  BY <1>1, <1>2

\* The value of N bytes, and the sum that it is.
ByteTerm(bytes, N) == [n \in 1 .. N |-> bytes[n - 1] * 2^(B * (n - 1))]

\* The number that N bytes are (Number of Ram) is such a sum.
LEMMA NumberIsSum ==
  ASSUME NEW bytes, NEW N \in Nat
  PROVE  \E g : IsSum(g, ByteTerm(bytes, N), N) /\ Number(bytes, N) = g[N]
<1> DEFINE t       == ByteTerm(bytes, N)
           Loop(g) == [n \in 0 .. N |-> IF n = 0 THEN 0
                         ELSE g[n - 1] + (bytes[n - 1] * 2^(B * (n - 1)))]
           upTo    == CHOOSE g : g = Loop(g)
<1>1. \A g : IsSum(g, t, N) <=> g = Loop(g)
  <2> SUFFICES ASSUME NEW g PROVE
        Loop(g) = [n \in 0 .. N |-> IF n = 0 THEN 0 ELSE g[n - 1] + t[n]]
    BY DEF IsSum
  <2>1. \A n \in 0 .. N : n # 0 => t[n] = bytes[n - 1] * 2^(B * (n - 1))
    BY DEF ByteTerm
  <2> HIDE DEF t
  <2> QED
    BY <2>1
<1>2. upTo = Loop(upTo)
  <2>1. \E g : g = Loop(g)
    BY <1>1, SumExists
  <2> HIDE DEF Loop
  <2> QED
    BY <2>1
<1>3. Number(bytes, N) = upTo[N]
  BY Zenon DEF Number
<1> HIDE DEF upTo
<1>4. IsSum(upTo, t, N)
  BY <1>1, <1>2
<1> QED
  BY <1>3, <1>4

\* ram_read takes the bytes from an address on.
LEMMA ReadIsNumber ==
  ASSUME NEW m, NEW addr \in Nat, NEW N \in Nat, NEW bytes,
         \A i \in 0 .. N - 1 : bytes[i] = m[addr + i]
  PROVE  ram_read(m, addr, N) = Number(bytes, N)
<1> DEFINE t       == ByteTerm(bytes, N)
           Loop(g) == [n \in 0 .. N |-> IF n = 0 THEN 0
                         ELSE g[n - 1] + (m[addr + n - 1] * 2^(B * (n - 1)))]
           upTo    == CHOOSE g : g = Loop(g)
<1>1. \A g : IsSum(g, t, N) <=> g = Loop(g)
  <2> SUFFICES ASSUME NEW g PROVE
        Loop(g) = [n \in 0 .. N |-> IF n = 0 THEN 0 ELSE g[n - 1] + t[n]]
    BY DEF IsSum
  <2>1. ASSUME NEW n \in 0 .. N, n # 0 PROVE t[n] = m[addr + n - 1] * 2^(B * (n - 1))
    <3>1. n - 1 \in 0 .. N - 1 /\ addr + (n - 1) = addr + n - 1 /\ n \in 1 .. N
      BY <2>1
    <3>2. bytes[n - 1] = m[addr + n - 1]
      BY <3>1
    <3> QED
      BY <3>1, <3>2 DEF ByteTerm
  <2> HIDE DEF t
  <2> QED
    BY <2>1
<1>2. upTo = Loop(upTo)
  <2>1. \E g : g = Loop(g)
    BY <1>1, SumExists
  <2> HIDE DEF Loop
  <2> QED
    BY <2>1
<1>3. ram_read(m, addr, N) = upTo[N]
  BY Zenon DEF ram_read
<1> HIDE DEF upTo
<1>4. IsSum(upTo, t, N)
  BY <1>1, <1>2
<1>5. PICK g : IsSum(g, t, N) /\ Number(bytes, N) = g[N]
  BY NumberIsSum
<1> HIDE DEF t
<1>6. upTo[N] = g[N]
  BY <1>4, <1>5, SumUnique
<1> QED
  BY <1>3, <1>5, <1>6

\* What is read from bytes is a number of their width.
LEMMA ReadIs ==
  ASSUME NEW m, NEW addr \in Nat, NEW N \in Nat, B * N <= X,
         \A i \in 0 .. N - 1 : m[addr + i] \in Byte
  PROVE  ram_read(m, addr, N) \in 0 .. 2^(B * N) - 1
<1> DEFINE bytes == [i \in 0 .. N - 1 |-> m[addr + i]]
           t     == ByteTerm(bytes, N)
<1>1. ram_read(m, addr, N) = Number(bytes, N)
  <2>1. \A i \in 0 .. N - 1 : bytes[i] = m[addr + i]
    OBVIOUS
  <2> HIDE DEF bytes
  <2> QED
    BY <2>1, ReadIsNumber
<1>2. PICK g : IsSum(g, t, N) /\ Number(bytes, N) = g[N]
  <2> HIDE DEF bytes
  <2> QED
    BY NumberIsSum
<1>3. ASSUME NEW n \in 1 .. N PROVE \E d \in 0 .. 2^B - 1 : t[n] = d * 2^(B * (n - 1))
  <2>1. n - 1 \in 0 .. N - 1
    OBVIOUS
  <2>2. bytes[n - 1] \in 0 .. 2^B - 1
    BY <2>1 DEF Byte
  <2> HIDE DEF bytes
  <2>3. t[n] = bytes[n - 1] * 2^(B * (n - 1))
    BY DEF ByteTerm
  <2> QED
    BY <2>2, <2>3
<1> HIDE DEF t
<1>4. \A n \in 0 .. N : g[n] \in 0 .. 2^(B * n) - 1
  BY <1>2, <1>3, SumIsNumber, WidthsAre
<1> QED
  BY <1>1, <1>2, <1>4

\* The sum that Bitwise is.
BitTerm(x, y, table) ==
  [n \in 1 .. X |-> IF <<(x \div 2^(n - 1)) % 2, (y \div 2^(n - 1)) % 2>> \in table
                      THEN 2^(n - 1) ELSE 0]

\* What is combined bit by bit (Bitwise of Widths) is such a sum.
LEMMA BitwiseIsSum ==
  ASSUME NEW x, NEW y, NEW table
  PROVE  \E g : IsSum(g, BitTerm(x, y, table), X) /\ Bitwise(x, y, table) = g[X]
<1> DEFINE Bit(n)  == IF <<(x \div 2^(n - 1)) % 2, (y \div 2^(n - 1)) % 2>> \in table
                        THEN 2^(n - 1) ELSE 0
           t       == BitTerm(x, y, table)
           Loop(g) == [n \in 0 .. X |-> IF n = 0 THEN 0 ELSE g[n - 1] + Bit(n)]
           upTo    == CHOOSE g : g = Loop(g)
<1>1. Bitwise(x, y, table) = upTo[X]
  BY Zenon DEF Bitwise
<1>2. \A n \in 1 .. X : t[n] = Bit(n)
  BY DEF BitTerm
<1> HIDE DEF Bit, t
<1>3. \A g : IsSum(g, t, X) <=> g = Loop(g)
  <2> SUFFICES ASSUME NEW g PROVE
        Loop(g) = [n \in 0 .. X |-> IF n = 0 THEN 0 ELSE g[n - 1] + t[n]]
    BY DEF IsSum
  <2>1. \A n \in 0 .. X : n # 0 => t[n] = Bit(n)
    BY <1>2, WidthsAre
  <2> QED
    BY <2>1
<1>4. upTo = Loop(upTo)
  <2>1. \E g : g = Loop(g)
    BY <1>3, SumExists, WidthsAre
  <2> HIDE DEF Loop
  <2> QED
    BY <2>1
<1> HIDE DEF upTo
<1>5. IsSum(upTo, t, X)
  BY <1>3, <1>4
<1> QED
  BY <1>1, <1>5 DEF t

\* What is combined bit by bit has the width of a register.
LEMMA BitwiseIs ==
  ASSUME NEW x \in Int, NEW y \in Int, NEW table
  PROVE  Bitwise(x, y, table) \in Dword
<1> DEFINE t == BitTerm(x, y, table)
<1>1. PICK g : IsSum(g, t, X) /\ Bitwise(x, y, table) = g[X]
  BY BitwiseIsSum
<1>2. ASSUME NEW n \in 1 .. X PROVE \E d \in 0 .. 2^1 - 1 : t[n] = d * 2^(1 * (n - 1))
  <2>1. 2^1 = 2 /\ 1 * (n - 1) = n - 1 /\ n - 1 \in 0 .. X
    BY WidthsAre
  <2>2. 2^(n - 1) \in Nat
    BY <2>1, PowerIs
  <2>3. t[n] = 1 * 2^(n - 1) \/ t[n] = 0 * 2^(n - 1)
    BY <2>2 DEF BitTerm
  <2> HIDE DEF t
  <2> QED
    BY <2>1, <2>3
<1> HIDE DEF t
<1>3. X \in Nat /\ 1 \in Nat /\ 1 * X = X /\ X <= X
  BY WidthsAre
<1>4. \A n \in 0 .. X : g[n] \in 0 .. 2^(1 * n) - 1
  BY <1>1, <1>2, <1>3, SumIsNumber
<1> QED
  BY <1>1, <1>3, <1>4 DEF Dword

\* The logical operations fit into a register.
LEMMA BitsFit ==
  ASSUME NEW x \in Int, NEW y \in Int
  PROVE  XorBits(x, y) \in Dword /\ OrBits(x, y) \in Dword /\ AndBits(x, y) \in Dword
BY BitwiseIs DEF XorBits, OrBits, AndBits

-----------------------------------------------------------------------------
(* The memory.                                                             *)

Sizes == {1, 2, 4, 8}

\* The bytes of an access are a number that fits into a register.
LEMMA SizeIs ==
  ASSUME NEW size \in Sizes
  PROVE  /\ size \in Nat /\ B * size \in 1 .. X
         /\ 2^(B * size) - 1 <= 2^X - 1
<1>1. B * size \in 1 .. X
  BY WidthsAre DEF Sizes
<1>2. 2^(B * size) <= 2^X
  <2>1. X \in 0 .. X /\ B * size \in 0 .. X /\ B * size <= X
    BY <1>1, WidthsAre
  <2> QED
    BY <2>1, PowerGrows
<1>3. 2^(B * size) \in Int /\ 2^X \in Int
  BY <1>1, PowerIs, WidthsAre
<1> QED
  BY <1>1, <1>2, <1>3 DEF Sizes

\* An access at addr stays inside the RAM.
Inside(m, addr, size) == addr \in Nat /\ \A i \in 0 .. size - 1 : addr + i \in DOMAIN m

\* What is read fits into a register,
LEMMA ReadFits ==
  ASSUME NEW m, IsRam(m), NEW size \in Sizes, NEW addr, Inside(m, addr, size)
  PROVE  ram_read(m, addr, size) \in Dword
<1>1. \A i \in 0 .. size - 1 : m[addr + i] \in Byte
  BY DEF IsRam, Inside
<1>2. ram_read(m, addr, size) \in 0 .. 2^(B * size) - 1
  <2>1. size \in Nat /\ addr \in Nat /\ B * size <= X
    BY SizeIs, WidthsAre DEF Inside
  <2> QED
    BY <1>1, <2>1, ReadIs
<1>3. 2^(B * size) \in Int /\ 2^X \in Int /\ 2^(B * size) - 1 <= 2^X - 1
  BY SizeIs, PowerIs, WidthsAre
<1> QED
  BY <1>2, <1>3 DEF Dword

\* and so does what an atomic operation returns of it.
LEMMA ReturnedFits ==
  ASSUME NEW m, IsRam(m), NEW size \in Sizes, NEW addr, Inside(m, addr, size), NEW params
  PROVE  Returned(m, addr, size, params) \in Dword
BY ReadFits, FitsDword DEF Returned

\* A store leaves bytes behind, and the same places.
LEMMA CopiedIsRam ==
  ASSUME NEW m, IsRam(m), NEW size \in Sizes, NEW addr \in Nat, NEW data \in Int
  PROVE  IsRam(Copied(m, addr, size, data))
<1> DEFINE c == Copied(m, addr, size, data)
<1>1. DOMAIN c = DOMAIN m /\ c = [a \in DOMAIN c |-> c[a]]
  BY DEF Copied
<1>2. ASSUME NEW a \in DOMAIN m PROVE c[a] \in Byte
  <2>1. CASE a \in addr .. addr + size - 1
    <3>1. c[a] = (data \div 2^(B * (a - addr))) % 2^B
      BY <2>1 DEF Copied
    <3>2. a - addr \in 0 .. 7 /\ B * (a - addr) \in 0 .. X /\ B \in 0 .. X
      <4>1. a - addr \in 0 .. 7
        BY <2>1 DEF Sizes
      <4> DEFINE i == a - addr
      <4>2. B * i \in 0 .. X
        <5>1. i \in 0 .. 7
          BY <4>1
        <5> HIDE DEF i
        <5> QED
          BY <5>1, WidthsAre
      <4> QED
        BY <4>1, <4>2, WidthsAre
    <3> DEFINE p == 2^(B * (a - addr))  q == 2^B
    <3>3. p \in Nat \ {0} /\ q \in Nat \ {0}
      BY <3>2, PowerIs
    <3> HIDE DEF p, q
    <3>4. (data \div p) % q \in 0 .. q - 1
      <4>1. data \div p \in Int
        BY <3>3
      <4> QED
        BY <3>3, <4>1
    <3> QED
      BY <3>1, <3>4 DEF p, q, Byte
  <2>2. CASE a \notin addr .. addr + size - 1
    BY <2>2 DEF Copied, IsRam
  <2> QED
    BY <2>1, <2>2
<1> HIDE DEF c
<1>3. IsRam(c)
  BY <1>1, <1>2 DEF IsRam
<1> QED
  BY <1>3 DEF c

\* Stores and atomic operations leave bytes behind.
LEMMA WriteIsRam ==
  ASSUME NEW m, IsRam(m), NEW size \in Sizes, NEW addr, Inside(m, addr, size),
         NEW data \in Dword, NEW params \in AmoParams
  PROVE  IsRam(ram_write(m, addr, size, data, params))
<1> DEFINE orig == Returned(m, addr, size, params)
           n    == B * size
           d    == Wrap(data, n)
<1>1. orig \in Nat /\ data \in Nat
  BY ReturnedFits, FitsDword
<1>2. n \in 0 .. X /\ d \in Nat
  BY <1>1, SizeIs, WrapIs
<1>3. amo(orig, d, params, n) \in Int
  <2> HIDE DEF orig, d, n
  <2>1. XorBits(orig, d) \in Int /\ OrBits(orig, d) \in Int /\ AndBits(orig, d) \in Int
    <3>1. \A v \in Dword : v \in Int
      BY FitsDword
    <3>2. orig \in Int /\ d \in Int
      BY <1>1, <1>2
    <3> QED
      BY <3>1, <3>2, BitsFit
  <2>2. Wrap(orig + d, n) \in Int
    BY <1>1, <1>2, WrapIs
  <2> QED
    BY <1>1, <1>2, <2>1, <2>2 DEF amo, AmoParams
<1> QED
  BY <1>1, <1>3, CopiedIsRam DEF ram_write, Inside

-----------------------------------------------------------------------------
(* The results of the operations fit into a register.                      *)

\* A shift count is an exponent of a power that there is.
LEMMA ShiftIs ==
  ASSUME NEW b \in Nat
  PROVE  /\ b % X \in 0 .. X /\ 2^(b % X) \in Nat \ {0}
         /\ b % W \in 0 .. X /\ 2^(b % W) \in Nat \ {0}
         /\ (b % X) % W \in 0 .. X /\ 2^((b % X) % W) \in Nat \ {0}
<1>1. b % X \in 0 .. X - 1 /\ b % W \in 0 .. W - 1
  BY WidthsAre
<1>2. (b % X) % W \in 0 .. W - 1
  BY <1>1, WidthsAre
<1>3. b % X \in 0 .. X /\ b % W \in 0 .. X /\ (b % X) % W \in 0 .. X
  BY <1>1, <1>2, WidthsAre
<1> QED
  BY <1>3, PowerIs

\* For terms that the provers take for nonlinear.
LEMMA ProductIs ==
  ASSUME NEW a \in Int, NEW b \in Int
  PROVE  a * b \in Int
OBVIOUS

\* The same for quotients.
LEMMA QuotientIs ==
  ASSUME NEW a \in Int, NEW b \in Nat \ {0}
  PROVE  a \div b \in Int
OBVIOUS

\* Sums, comparisons, logic and shifts fit into a register,
LEMMA ArithFits ==
  ASSUME NEW op \in ImmOps \cup RegOps, NEW a \in Dword, NEW b \in Dword
  PROVE  Arith(op, a, b) \in Dword
<1>1. a \in Nat /\ b \in Nat
  BY FitsDword
<1> DEFINE p == 2^(b % X)  q == 2^(b % W)  r == 2^((b % X) % W)
<1>2. p \in Nat \ {0} /\ q \in Nat \ {0} /\ r \in Nat \ {0}
  BY <1>1, ShiftIs
<1> HIDE DEF p, q, r
<1>3. /\ Wrap(a, W) \in Nat /\ Signed(a, X) \in Int /\ Signed(a, W) \in Int /\ Signed(b, X) \in Int
      /\ \A v \in Int : Wrap(v, X) \in Dword /\ TO_WORD(v) \in Dword
      /\ {0, 1} \subseteq Dword
  <2>1. a \in Int /\ b \in Int
    BY <1>1
  <2>2. \A v \in Int : Wrap(v, X) \in Dword /\ TO_WORD(v) \in Dword
    BY FitsDword
  <2>3. {0, 1} \subseteq Dword
    BY FitsDword
  <2>4. /\ Wrap(a, W) \in Nat /\ Signed(a, X) \in Int /\ Signed(a, W) \in Int
        /\ Signed(b, X) \in Int
    BY <2>1, FitsDword
  <2> QED
    BY <2>2, <2>3, <2>4
<1>4. /\ a + b \in Int /\ a - b \in Int
  BY <1>1
<1>5. a * p \in Int /\ Wrap(a, W) * q \in Int
  BY <1>1, <1>2, <1>3, ProductIs
<1>6. /\ Signed(a, X) \div p \in Int /\ Signed(a, W) \div r \in Int
      /\ Wrap(a, W) \div q \in Int
  BY <1>2, <1>3, QuotientIs
<1>7. a \div p \in Dword
  <2>1. a \div p \in 0 .. a
    BY <1>1, <1>2, DivisionShrinks
  <2>2. a \in 0 .. 2^X - 1 /\ 2^X \in Int
    BY PowerIs, WidthsAre DEF Dword
  <2> QED
    BY <1>1, <2>1, <2>2 DEF Dword
<1>8. XorBits(a, b) \in Dword /\ OrBits(a, b) \in Dword /\ AndBits(a, b) \in Dword
  BY <1>1, BitsFit
<1>9. CASE op \in {"ADD", "ADDI", "ADDW", "ADDIW", "SUB", "SUBW"}
  BY <1>3, <1>4, <1>9 DEF Arith
<1>10. CASE op \in {"SLT", "SLTI", "SLTU", "SLTIU"}
  BY <1>3, <1>10 DEF Arith
<1>11. CASE op \in {"XOR", "XORI", "OR", "ORI", "AND", "ANDI"}
  BY <1>8, <1>11 DEF Arith
<1>12. CASE op \in {"SLL", "SLLI", "SLLW", "SLLIW"}
  BY <1>3, <1>5, <1>12 DEF Arith, p, q
<1>13. CASE op \in {"SRL", "SRLI", "SRLW", "SRLIW"}
  BY <1>3, <1>6, <1>7, <1>13 DEF Arith, p, q
<1>14. CASE op \in {"SRA", "SRAI", "SRAW", "SRAIW"}
  BY <1>3, <1>6, <1>14 DEF Arith, p, r
<1> QED
  BY <1>9, <1>10, <1>11, <1>12, <1>13, <1>14 DEF ImmOps, RegOps

\* and so do the low and the high parts of products.
LEMMA MultiplyFits ==
  ASSUME NEW op \in {"MUL", "MULW", "MULH", "MULHSU", "MULHU"}, NEW a \in Dword, NEW b \in Dword
  PROVE  Multiply(op, a, b) \in Dword
<1>1. /\ a \in Nat /\ b \in Nat
      /\ Signed(a, X) \in Int /\ Signed(b, X) \in Int
      /\ Signed(a, W) \in Int /\ Signed(b, W) \in Int
      /\ \A v \in Int : Wrap(v, X) \in Dword /\ TO_WORD(v) \in Dword
  <2>1. a \in Nat /\ b \in Nat
    BY FitsDword
  <2>2. a \in Int /\ b \in Int
    BY <2>1
  <2>3. \A v \in Int : Wrap(v, X) \in Dword /\ TO_WORD(v) \in Dword
    BY FitsDword
  <2>4. \A v \in Int : Signed(v, X) \in Int /\ Signed(v, W) \in Int
    BY FitsDword
  <2> QED
    BY <2>1, <2>2, <2>3, <2>4
<1>2. Signed(a, X) * Signed(b, X) \in Int /\ Signed(a, W) * Signed(b, W) \in Int
  BY <1>1, ProductIs
<1>3. (a * b) \div 2^X \in Dword
  <2> DEFINE p == 2^X  q == (a * b) \div p
  <2>1. p \in Nat \ {0} /\ a \in 0 .. p - 1 /\ b \in 0 .. p - 1
    BY PowerIs, WidthsAre DEF Dword
  <2>2. a * b \in Nat
    BY <1>1
  <2> HIDE DEF p
  <2>3. q \in Nat /\ p * q <= a * b
    <3> DEFINE c == a * b
    <3>1. c \in Nat
      BY <2>2
    <3> HIDE DEF c
    <3>2. c \div p \in Nat /\ p * (c \div p) <= c
      BY <2>1, <3>1
    <3> QED
      BY <3>2 DEF c
  <2> HIDE DEF q
  <2>4. ~(q >= p)
    <3> SUFFICES ASSUME q >= p PROVE FALSE
      OBVIOUS
    <3>1. p * q = p * p + p * (q - p) /\ p * (q - p) \in Nat /\ q - p \in Nat
      BY <2>1, <2>3
    <3>2. p * p = a * b + a * (p - b) + (p - a) * p
      BY <2>1
    <3>3. a * (p - b) \in Nat /\ (p - a) * p \in Nat \ {0}
      <4>1. p - b \in Nat \ {0} /\ p - a \in Nat \ {0} /\ a \in Nat
        BY <2>1
      <4> QED
        BY <2>1, <4>1
    <3> QED
      BY <2>1, <2>2, <2>3, <3>1, <3>2, <3>3
  <2>5. q \in 0 .. p - 1
    BY <2>1, <2>3, <2>4
  <2> QED
    BY <2>5 DEF Dword, p, q
<1> QED
  BY <1>1, <1>2, <1>3 DEF Multiply

\* A number is zero as a signed number if it is as an unsigned one.
LEMMA ZeroEitherWay ==
  ASSUME NEW v \in Int, NEW n \in 1 .. X, Wrap(v, n) # 0
  PROVE  Signed(v, n) # 0
<1>1. n \in 0 .. X /\ n - 1 \in 0 .. X
  BY WidthsAre
<1>2. /\ Wrap(v, n) \in 0 .. 2^n - 1 /\ 2^n \in Nat /\ 2^(n - 1) \in Nat
  BY <1>1, WrapIs, PowerIs
<1> QED
  BY <1>2 DEF Signed

\* Division toward zero stays in the integers.
LEMMA TruncIs ==
  ASSUME NEW n \in Int, NEW d \in Int \ {0}
  PROVE  Trunc(n, d) \in Int /\ Rest(n, d) \in Int
<1>1. Abs(n) \in Int /\ Abs(d) \in Nat \ {0}
  BY DEF Abs
<1>2. Abs(n) \div Abs(d) \in Int
  BY <1>1, QuotientIs
<1>3. Trunc(n, d) \in Int
  BY <1>2 DEF Trunc
<1>4. d * Trunc(n, d) \in Int
  BY <1>3, ProductIs
<1> QED
  BY <1>3, <1>4 DEF Rest

\* Quotients and remainders fit into a register, those by zero included.
LEMMA DivideFits ==
  ASSUME NEW op \in {"DIV", "DIVU", "REM", "REMU", "DIVW", "DIVUW", "REMW", "REMUW"},
         NEW a \in Dword, NEW b \in Dword
  PROVE  Divide(op, a, b) \in Dword
<1>1. a \in Nat /\ b \in Nat
  BY FitsDword
<1>2. ASSUME NEW n \in {W, X}
      PROVE  /\ DivSigned(a, b, n) \in Dword /\ RemSigned(a, b, n) \in Dword
             /\ DivUnsigned(a, b, n) \in Dword /\ RemUnsigned(a, b, n) \in Dword
  <2>1. n \in 1 .. X /\ n \in 0 .. X
    BY WidthsAre
  <2>2. /\ Wrap(a, n) \in Nat /\ Wrap(b, n) \in Nat
        /\ Signed(a, n) \in Int /\ Signed(b, n) \in Int
    BY <1>1, <2>1, WrapIs, SignedIs
  <2>3. 2^X - 1 \in Dword /\ 2^n - 1 \in Dword /\ Wrap(a, n) \in Dword /\ 0 \in Dword
    <3>1. /\ 2^X \in Nat \ {0} /\ 2^n \in Nat \ {0} /\ 2^n <= 2^X
          /\ Wrap(a, n) \in 0 .. 2^n - 1
      <4>1. X \in 0 .. X /\ n <= X
        BY <2>1, WidthsAre
      <4>2. 2^X \in Nat \ {0} /\ 2^n \in Nat \ {0}
        BY <2>1, <4>1, PowerIs
      <4>3. 2^n <= 2^X
        BY <2>1, <4>1, PowerGrows
      <4>4. Wrap(a, n) \in 0 .. 2^n - 1
        BY <1>1, <2>1, WrapIs
      <4> QED
        BY <4>2, <4>3, <4>4
    <3> QED
      BY <3>1 DEF Dword
  <2>4. \A v \in Int : SignExtend(v, n) \in Dword
    BY <2>1, FitsDword
  <2>5. Wrap(b, n) # 0 => Signed(b, n) \in Int \ {0}
    BY <1>1, <2>1, <2>2, ZeroEitherWay
  <2>6. DivSigned(a, b, n) \in Dword
    BY <1>1, <2>2, <2>3, <2>4, <2>5, TruncIs DEF DivSigned
  <2>7. RemSigned(a, b, n) \in Dword
    BY <1>1, <2>2, <2>3, <2>4, <2>5, TruncIs DEF RemSigned
  <2>8. Wrap(b, n) # 0 => Wrap(a, n) \div Wrap(b, n) \in Int /\ Wrap(a, n) % Wrap(b, n) \in Int
    BY <2>2
  <2>9. DivUnsigned(a, b, n) \in Dword /\ RemUnsigned(a, b, n) \in Dword
    BY <2>3, <2>4, <2>8 DEF DivUnsigned, RemUnsigned
  <2> QED
    BY <2>6, <2>7, <2>9
<1> QED
  BY <1>2 DEF Divide

\* A register has as many bits as Bits says.
LEMMA BitsIs ==
  ASSUME NEW v \in Dword
  PROVE  /\ Bits(v) \in 0 .. X
         /\ v < 2^Bits(v)
<1> DEFINE S == {n \in 0 .. X : v < 2^n}
<1>1. X \in S
  BY PowerIs, WidthsAre DEF Dword
<1>2. PICK n \in S : \A m \in S : n <= m
  <2>1. S \subseteq Nat
    BY WidthsAre
  <2> HIDE DEF S
  <2> QED
    BY <1>1, <2>1, Least
<1>3. n = 0 \/ v >= 2^(n - 1)
  <2> SUFFICES ASSUME n # 0 PROVE v >= 2^(n - 1)
    OBVIOUS
  <2>1. n - 1 \in 0 .. X /\ n - 1 \notin S
    BY <1>2, WidthsAre
  <2>2. 2^(n - 1) \in Nat /\ v \in Nat
    BY <2>1, PowerIs, FitsDword
  <2> QED
    BY <2>1, <2>2
<1>4. n \in 0 .. X /\ v < 2^n
  BY <1>2
<1>5. \E k \in 0 .. X : v < 2^k /\ (k = 0 \/ v >= 2^(k - 1))
  BY <1>3, <1>4
<1> QED
  BY <1>5 DEF Bits

\* Rounding may reach the next power of two, no more.
LEMMA ConvertedFits ==
  ASSUME NEW v \in Dword, NEW p \in 1 .. X
  PROVE  Converted(v, p) \subseteq Dword
<1> DEFINE k   == Bits(v)
           ulp == 2^(k - p)
           q   == v \div ulp
           r   == v % ulp
           m   == 2^p
<1>1. v \in Nat /\ k \in 0 .. X /\ v < 2^k
  BY BitsIs, FitsDword
<1>2. 2^X \in Nat \ {0} /\ 2^k <= 2^X
  <2>1. X \in 0 .. X /\ k <= X
    BY <1>1, WidthsAre
  <2> QED
    BY <1>1, <2>1, PowerIs, PowerGrows
<1>3. Rounded(v, p) \in 0 .. 2^X
  <2>1. CASE k <= p
    <3>1. Rounded(v, p) = v
      BY <2>1 DEF Rounded
    <3> QED
      BY <1>1, <1>2, <3>1, PowerIs DEF Dword
  <2>2. CASE ~(k <= p)
    <3>1. k - p \in 0 .. X /\ p \in 0 .. X /\ (k - p) + p = k
      BY <1>1, <2>2, WidthsAre
    <3>2. 2^k = ulp * m /\ ulp \in Nat \ {0} /\ m \in Nat \ {0}
      <4>1. 2^((k - p) + p) = 2^(k - p) * 2^p
        BY <1>1, <3>1, PowerOfSum
      <4> QED
        BY <3>1, <4>1, PowerIs
    <3>3. Rounded(v, p) = q * ulp \/ Rounded(v, p) = (q + 1) * ulp
      BY <2>2 DEF Rounded
    <3> HIDE DEF ulp, m, k
    <3>4. q \in Nat /\ r \in 0 .. ulp - 1 /\ v = ulp * q + r
      BY <1>1, <3>2
    <3> HIDE DEF q, r
    <3>5. q + 1 <= m
      <4> SUFFICES ASSUME q >= m PROVE FALSE
        BY <3>2, <3>4
      <4>1. ulp * q = ulp * m + ulp * (q - m) /\ ulp * (q - m) \in Nat
        <5>1. q - m \in Nat
          BY <3>2, <3>4
        <5> QED
          BY <3>2, <3>4, <5>1
      <4>2. ulp * q \in Int /\ ulp * m \in Int
        BY <3>2, <3>4
      <4> QED
        BY <1>1, <3>2, <3>4, <4>1, <4>2
    <3>6. /\ q * ulp \in Nat /\ (q + 1) * ulp = q * ulp + ulp
          /\ (q + 1) * ulp <= ulp * m
      <4>1. m - (q + 1) \in Nat
        BY <3>2, <3>4, <3>5
      <4>2. ulp * (m - (q + 1)) \in Nat
        BY <3>2, <4>1
      <4>3. ulp * (m - (q + 1)) = ulp * m - (q + 1) * ulp
        BY <3>2, <3>4
      <4>4. q * ulp \in Nat /\ (q + 1) * ulp = q * ulp + ulp /\ ulp * m \in Int
        BY <3>2, <3>4
      <4> QED
        BY <3>2, <4>2, <4>3, <4>4
    <3> QED
      BY <1>2, <3>2, <3>3, <3>6
  <2> QED
    BY <2>1, <2>2
<1> HIDE DEF k
<1>4. CASE Rounded(v, p) = 2^X
  BY <1>2, <1>4 DEF Converted, Dword
<1>5. CASE Rounded(v, p) # 2^X
  BY <1>2, <1>3, <1>5 DEF Converted, Dword
<1> QED
  BY <1>4, <1>5

\* What an instruction writes to a csr fits into it.
LEMMA CsrFits ==
  ASSUME NEW op \in CsrOps, NEW old \in Dword, NEW data \in Dword
  PROVE  CsrNew(op, old, data) \in Dword
<1>1. old \in Int /\ data \in Int /\ 2^X - 1 - data \in Int
  BY PowerIs, WidthsAre, FitsDword DEF Dword
<1>2. OrBits(old, data) \in Dword /\ AndBits(old, 2^X - 1 - data) \in Dword
  BY <1>1, BitsFit
<1> QED
  BY <1>2 DEF CsrNew, CsrOps

-----------------------------------------------------------------------------
(* The inductive invariant.                                                *)

\* The instruction that is executed is one of the guest's; its RAM has every byte
\* that it may reach; the thread that does not run has registers too.
InsOK   == ins = NoIns \/ \E l \in DOMAIN Code : ins \in Code[l]
OtherOK == other.pc \in Dword /\ other.reg \in [Regs -> Dword] /\ other.reg[0] = 0

IInv == TypeOK /\ IsRam(memory) /\ InsOK /\ OtherOK

\* The memory and registers that the harts start with.
LEMMA InitIInv == Init => IInv
<1> SUFFICES ASSUME Init PROVE IInv
  OBVIOUS
<1>1. PICK s \in Starts : pc = s.pc /\ reg = s.reg /\ memory = s.memory /\ other = s.other
  BY DEF Init
<1>2. /\ s.pc \in Dword /\ s.reg \in [Regs -> Dword] /\ s.reg[0] = 0
      /\ s.other.pc \in Dword /\ s.other.reg \in [Regs -> Dword] /\ s.other.reg[0] = 0
      /\ IsRam(s.memory)
  BY ExecuteAssumption, Zenon
<1>3. IsRam(memory) /\ \A a \in DOMAIN memory : memory[a] \in Byte
  BY <1>1, <1>2 DEF IsRam
<1>4. 0 \in Dword
  BY FitsDword
<1>5. freg \in [Regs -> Dword] /\ csr \in [DOMAIN CsrKind -> Dword]
  BY <1>4 DEF Init
<1>6. TypeOK
  BY <1>1, <1>2, <1>3, <1>5 DEF Init, TypeOK
<1> QED
  BY <1>1, <1>2, <1>3, <1>6 DEF Init, IInv, InsOK, OtherOK

\* What is known of an instruction that is executed.
LEMMA InsIs ==
  ASSUME IInv, NEW ops, Executing(ops)
  PROVE  /\ ins.op \in ops /\ {ins.rd, ins.rs1, ins.rs2} \subseteq Regs
         /\ ins.imm \in Dword /\ ins.len \in Nat /\ ins.csr \in DOMAIN CsrKind
         /\ ins.op \in {"SC_D", "SC_W"} => ins.params = "LR_SC"
         /\ ins.op \in {"AMO_D", "AMO_W"} => ins.params \in AmoParams \ {"NONE", "LR_SC"}
         /\ ins.op \in {"SC_D", "SC_W", "AMO_D", "AMO_W"} => ins.params \in AmoParams
         /\ rs1val \in Dword /\ rs2val \in Dword
         /\ next_pc \in Dword /\ Target \in Dword /\ Wrap(rs1val + ins.imm, X) \in Dword
         /\ Address \in Dword /\ Operand \in Dword
         /\ ins' = NoIns /\ other' = other
<1>1. ins.op \in ops /\ ins # NoIns /\ ins' = NoIns /\ other' = other
  BY DEF Executing
<1>2. PICK l \in DOMAIN Code : ins \in Code[l]
  BY <1>1 DEF IInv, InsOK
<1>3. /\ {ins.rd, ins.rs1, ins.rs2} \subseteq Regs /\ ins.imm \in Dword /\ ins.len \in Nat
      /\ ins.csr \in DOMAIN CsrKind
      /\ ins.op \in {"SC_D", "SC_W"} => ins.params = "LR_SC"
      /\ ins.op \in {"AMO_D", "AMO_W"} => ins.params \in AmoParams \ {"NONE", "LR_SC"}
  BY <1>2, ExecuteAssumption, Zenon
<1>4. rs1val \in Dword /\ rs2val \in Dword /\ pc \in Dword
  BY <1>3 DEF rs1val, rs2val, IInv, TypeOK
<1>5. pc + ins.len \in Int /\ pc + ins.imm \in Int /\ rs1val + ins.imm \in Int
  <2>1. \A v \in Dword : v \in Int
    BY FitsDword
  <2>2. pc \in Int /\ ins.len \in Int /\ ins.imm \in Int /\ rs1val \in Int
    BY <1>3, <1>4, <2>1
  <2> QED
    BY <2>2
<1>6. next_pc \in Dword /\ Target \in Dword /\ Wrap(rs1val + ins.imm, X) \in Dword
  BY <1>5, FitsDword DEF next_pc, Target
<1>7. ins.op \in {"SC_D", "SC_W", "AMO_D", "AMO_W"} => ins.params \in AmoParams
  BY <1>3 DEF AmoParams
<1> QED
  BY <1>1, <1>3, <1>4, <1>6, <1>7 DEF Address, Operand

\* An access that has a translation stays inside the RAM.
LEMMA AccessInside ==
  ASSUME NEW m, IsRam(m), NEW vaddr \in Dword, mmu(vaddr) # Fault, NEW size \in Sizes
  PROVE  Inside(m, mmu(vaddr), size)
<1> DEFINE v == vaddr \div PageSize  frame == PageTable[v]  off == vaddr % PageSize
           base == frame * PageSize
<1>1. frame # Fault /\ mmu(vaddr) = base + off
  BY DEF mmu
<1>2. v \in DOMAIN PageTable /\ frame \in Nat /\ PageSize \in Nat \ {0}
  BY <1>1, RamAssumption
<1>3. off \in 0 .. PageSize - 1
  BY <1>2, FitsDword
<1>4. base .. base + PageSize + 6 \subseteq DOMAIN m
  BY <1>1, <1>2 DEF IsRam
<1>5. base \in Nat
  BY <1>2
<1> HIDE DEF v, frame, off, base
<1>6. ASSUME NEW i \in 0 .. size - 1 PROVE base + off + i \in DOMAIN m
  BY <1>2, <1>3, <1>4, <1>5 DEF Sizes
<1>7. base + off \in Nat
  BY <1>2, <1>3, <1>5
<1> QED
  BY <1>1, <1>6, <1>7 DEF Inside

-----------------------------------------------------------------------------
(* Every instruction keeps it.                                             *)

\* A result that fits keeps the registers' width and register 0 zero.
LEMMA WriteBackFits ==
  ASSUME TypeOK, ins.rd \in Regs, NEW v \in Dword, WriteBack(v)
  PROVE  reg' \in [Regs -> Dword] /\ reg'[0] = 0
BY DEF WriteBack, TypeOK, Regs

\* The same for floating-point registers.
LEMMA WriteBackFFits ==
  ASSUME TypeOK, ins.rd \in Regs, NEW v \in Dword, WriteBackF(v)
  PROVE  freg' \in [Regs -> Dword]
BY DEF WriteBackF, TypeOK

\* What is left to show of an instruction when it has ended.
LEMMA Retired ==
  ASSUME IInv, NEW ops, Executing(ops), pc' \in Dword, panic' \in BOOLEAN,
         reg' \in [Regs -> Dword], reg'[0] = 0, freg' \in [Regs -> Dword],
         csr' \in [DOMAIN CsrKind -> Dword], IsRam(memory')
  PROVE  IInv'
<1>1. ins' = NoIns /\ other' = other
  BY DEF Executing
<1>2. \A a \in DOMAIN memory' : memory'[a] \in Byte
  BY DEF IsRam
<1>3. IsRam(memory)'
  BY DEF IsRam
<1> QED
  BY <1>1, <1>2, <1>3 DEF IInv, TypeOK, InsOK, OtherOK

\* An instruction that writes a register and nothing else.
LEMMA WritesRegister ==
  ASSUME IInv, NEW ops, Executing(ops), NEW v \in Dword, WriteBack(v), pc' \in Dword,
         UNCHANGED <<freg, memory, csr, panic>>
  PROVE  IInv'
<1>1. reg' \in [Regs -> Dword] /\ reg'[0] = 0
  BY InsIs, WriteBackFits DEF IInv
<1>2. /\ panic' \in BOOLEAN /\ freg' \in [Regs -> Dword] /\ csr' \in [DOMAIN CsrKind -> Dword]
      /\ IsRam(memory')
  BY DEF IInv, TypeOK
<1> QED
  BY <1>1, <1>2, Retired

\* One lemma for each action that executes instructions.
LEMMA ArithKeeps == ASSUME IInv, ExecuteArith PROVE IInv'
<1>1. Executing(ImmOps \cup RegOps) /\ WriteBack(Arith(ins.op, rs1val, Operand))
      /\ pc' = next_pc /\ UNCHANGED <<freg, memory, csr, panic>>
  BY DEF ExecuteArith, GoesOn
<1>2. Arith(ins.op, rs1val, Operand) \in Dword /\ next_pc \in Dword
  BY <1>1, InsIs, ArithFits
<1> QED
  BY <1>1, <1>2, WritesRegister

LEMMA MulDivKeeps == ASSUME IInv, ExecuteMulDiv PROVE IInv'
<1> DEFINE Products == {"MUL", "MULW", "MULH", "MULHSU", "MULHU"}
           v == IF ins.op \in Products THEN Multiply(ins.op, rs1val, rs2val)
                                       ELSE Divide(ins.op, rs1val, rs2val)
<1>1. Executing(MulDivOps) /\ WriteBack(v) /\ pc' = next_pc
      /\ UNCHANGED <<freg, memory, csr, panic>>
  BY DEF ExecuteMulDiv, GoesOn
<1>2. rs1val \in Dword /\ rs2val \in Dword /\ next_pc \in Dword /\ ins.op \in MulDivOps
  BY <1>1, InsIs
<1>3. v \in Dword
  <2>1. CASE ins.op \in Products
    BY <1>2, <2>1, MultiplyFits
  <2>2. CASE ins.op \notin Products
    <3>1. ins.op \in {"DIV", "DIVU", "REM", "REMU", "DIVW", "DIVUW", "REMW", "REMUW"}
      BY <1>2, <2>2 DEF MulDivOps
    <3> QED
      BY <1>2, <2>2, <3>1, DivideFits
  <2> QED
    BY <2>1, <2>2
<1> HIDE DEF v
<1> QED
  BY <1>1, <1>2, <1>3, WritesRegister

LEMMA UpperKeeps == ASSUME IInv, ExecuteUpper PROVE IInv'
<1> DEFINE v == IF ins.op = "LUI" THEN ins.imm ELSE Target
<1>1. Executing({"LUI", "AUIPC"}) /\ WriteBack(v) /\ pc' = next_pc
      /\ UNCHANGED <<freg, memory, csr, panic>>
  BY DEF ExecuteUpper, GoesOn
<1>2. v \in Dword /\ next_pc \in Dword
  BY <1>1, InsIs
<1> HIDE DEF v
<1> QED
  BY <1>1, <1>2, WritesRegister

\* What happens to be in rd_val is a 64-bit value.
LEMMA NothingKeeps == ASSUME IInv, ExecuteNothing PROVE IInv'
<1>1. Executing(NoOps) /\ pc' = next_pc /\ UNCHANGED <<freg, memory, csr, panic>>
  BY DEF ExecuteNothing, GoesOn
<1>2. PICK v \in Dword : WriteBack(v)
  BY DEF ExecuteNothing
<1>3. next_pc \in Dword
  BY <1>1, InsIs
<1> QED
  BY <1>1, <1>2, <1>3, WritesRegister

LEMMA JumpKeeps == ASSUME IInv, ExecuteJump PROVE IInv'
<1>1. /\ Executing({"JAL", "JALR"}) /\ WriteBack(next_pc)
      /\ pc' = (IF ins.op = "JAL" THEN Target ELSE Wrap(rs1val + ins.imm, X))
      /\ UNCHANGED <<freg, memory, csr, panic>>
  BY DEF ExecuteJump
<1>2. next_pc \in Dword /\ pc' \in Dword
  BY <1>1, InsIs
<1> QED
  BY <1>1, <1>2, WritesRegister

LEMMA LoadKeeps == ASSUME IInv, ExecuteLoad PROVE IInv'
<1> DEFINE ops == Loads \cup {"LR_D", "LR_W"}
           size == Size(ins.op)
<1>1. /\ Executing(ops) /\ mmu(Address) # Fault /\ WriteBack(Loaded(ins.op, as_read))
      /\ pc' = next_pc /\ UNCHANGED <<freg, memory, csr, panic>>
  BY DEF ExecuteLoad, Reads, GoesOn
<1>2. ins.op \in ops /\ next_pc \in Dword /\ Address \in Dword
  BY <1>1, InsIs
<1>3. size \in Sizes
  BY <1>2 DEF Size, Sizes, Loads
<1>4. as_read \in Dword
  <2>1. Inside(memory, mmu(Address), size)
    BY <1>1, <1>2, <1>3, AccessInside DEF IInv
  <2> QED
    BY <1>3, <2>1, ReadFits DEF as_read, IInv
<1>5. Loaded(ins.op, as_read) \in Dword
  <2>1. B * size \in 1 .. X
    BY <1>3, SizeIs
  <2>2. as_read \in Int
    BY <1>4, FitsDword
  <2>3. SignExtend(as_read, B * size) \in Dword
    BY <2>1, <2>2, FitsDword
  <2> QED
    BY <1>4, <2>3 DEF Loaded
<1> QED
  BY <1>1, <1>2, <1>5, WritesRegister

\* A store, whatever else it does, leaves a RAM behind.
LEMMA WrittenIsRam ==
  ASSUME IInv, NEW ops, Executing(ops), mmu(Address) # Fault, Size(ins.op) \in Sizes,
         NEW data \in Dword, NEW params \in AmoParams
  PROVE  /\ IsRam(Written(data, params))
         /\ Inside(memory, mmu(Address), Size(ins.op))
<1>1. Inside(memory, mmu(Address), Size(ins.op))
  BY InsIs, AccessInside DEF IInv
<1> QED
  BY <1>1, WriteIsRam DEF Written, IInv

LEMMA StoreKeeps == ASSUME IInv, ExecuteStore PROVE IInv'
<1>1. /\ Executing(Stores) /\ mmu(Address) # Fault /\ memory' = Written(rs2val, "NONE")
      /\ pc' = next_pc /\ UNCHANGED <<reg, freg, csr, panic>>
  BY DEF ExecuteStore, Reads, GoesOn
<1>2. ins.op \in Stores /\ next_pc \in Dword /\ rs2val \in Dword
  BY <1>1, InsIs
<1>3. Size(ins.op) \in Sizes /\ "NONE" \in AmoParams
  BY <1>2 DEF Size, Sizes, Stores, AmoParams
<1>4. IsRam(memory')
  BY <1>1, <1>2, <1>3, WrittenIsRam
<1>5. /\ panic' \in BOOLEAN /\ reg' \in [Regs -> Dword] /\ reg'[0] = 0
      /\ freg' \in [Regs -> Dword] /\ csr' \in [DOMAIN CsrKind -> Dword]
  BY <1>1 DEF IInv, TypeOK
<1> QED
  BY <1>1, <1>2, <1>4, <1>5, Retired

LEMMA AtomicKeeps == ASSUME IInv, ExecuteAtomic PROVE IInv'
<1> DEFINE ops == {"SC_D", "SC_W", "AMO_D", "AMO_W"}
           v   == Returned(memory, mmu(Address), Size(ins.op), ins.params)
<1>1. /\ Executing(ops) /\ mmu(Address) # Fault /\ memory' = Written(rs2val, ins.params)
      /\ WriteBack(v) /\ pc' = next_pc /\ UNCHANGED <<freg, csr, panic>>
  BY DEF ExecuteAtomic, Reads, GoesOn
<1>2. /\ ins.op \in ops /\ next_pc \in Dword /\ rs2val \in Dword /\ ins.rd \in Regs
      /\ ins.params \in AmoParams
  BY <1>1, InsIs
<1>3. Size(ins.op) \in Sizes
  BY <1>2 DEF Size, Sizes
<1>4. IsRam(memory') /\ Inside(memory, mmu(Address), Size(ins.op))
  BY <1>1, <1>2, <1>3, WrittenIsRam
<1>5. v \in Dword
  BY <1>3, <1>4, ReturnedFits DEF IInv
<1> HIDE DEF v
<1>6. reg' \in [Regs -> Dword] /\ reg'[0] = 0
  BY <1>1, <1>2, <1>5, WriteBackFits DEF IInv
<1>7. panic' \in BOOLEAN /\ freg' \in [Regs -> Dword] /\ csr' \in [DOMAIN CsrKind -> Dword]
  BY <1>1 DEF IInv, TypeOK
<1> QED
  BY <1>1, <1>2, <1>4, <1>6, <1>7, Retired

\* The precisions of float and double.
LEMMA PrecisionIs == FloatBits \in 1 .. X /\ DoubleBits \in 1 .. X
BY ExecuteAssumption, WidthsAre

LEMMA FpLoadKeeps == ASSUME IInv, ExecuteFpLoad PROVE IInv'
<1>1. /\ Executing(FpLoads) /\ mmu(Address) # Fault
      /\ pc' = next_pc /\ UNCHANGED <<reg, memory, csr, panic>>
  BY DEF ExecuteFpLoad, Reads, GoesOn
<1>2. PICK v \in Converted(as_read, IF ins.op = "FLW" THEN FloatBits ELSE DoubleBits) :
        WriteBackF(v)
  BY DEF ExecuteFpLoad
<1>3. ins.op \in FpLoads /\ next_pc \in Dword /\ Address \in Dword /\ ins.rd \in Regs
  BY <1>1, InsIs
<1>4. Size(ins.op) \in Sizes
  BY <1>3 DEF Size, Sizes, FpLoads
<1>5. as_read \in Dword
  <2>1. Inside(memory, mmu(Address), Size(ins.op))
    BY <1>1, <1>3, <1>4, AccessInside DEF IInv
  <2> QED
    BY <1>4, <2>1, ReadFits DEF as_read, IInv
<1>6. v \in Dword
  BY <1>2, <1>5, PrecisionIs, ConvertedFits
<1>7. freg' \in [Regs -> Dword]
  BY <1>2, <1>3, <1>6, WriteBackFFits DEF IInv
<1>8. /\ panic' \in BOOLEAN /\ reg' \in [Regs -> Dword] /\ reg'[0] = 0
      /\ csr' \in [DOMAIN CsrKind -> Dword] /\ IsRam(memory')
  BY <1>1 DEF IInv, TypeOK
<1> QED
  BY <1>1, <1>3, <1>7, <1>8, Retired

LEMMA FpStoreKeeps == ASSUME IInv, ExecuteFpStore PROVE IInv'
<1>1. /\ Executing(FpStores) /\ mmu(Address) # Fault
      /\ pc' = next_pc /\ UNCHANGED <<reg, freg, csr, panic>>
  BY DEF ExecuteFpStore, Reads, GoesOn
<1>2. PICK v \in IF ins.op = "FSW" THEN Converted(rs2val, FloatBits) ELSE {freg[ins.rs2]} :
        memory' = Written(v, "NONE")
  BY DEF ExecuteFpStore
<1>3. ins.op \in FpStores /\ next_pc \in Dword /\ rs2val \in Dword /\ ins.rs2 \in Regs
  BY <1>1, InsIs
<1>4. Size(ins.op) \in Sizes /\ "NONE" \in AmoParams
  BY <1>3 DEF Size, Sizes, FpStores, AmoParams
<1>5. v \in Dword
  <2>1. freg[ins.rs2] \in Dword
    BY <1>3 DEF IInv, TypeOK
  <2>2. Converted(rs2val, FloatBits) \subseteq Dword
    BY <1>3, PrecisionIs, ConvertedFits
  <2> QED
    BY <1>2, <2>1, <2>2
<1>6. IsRam(memory')
  BY <1>1, <1>2, <1>4, <1>5, WrittenIsRam
<1>7. /\ panic' \in BOOLEAN /\ reg' \in [Regs -> Dword] /\ reg'[0] = 0
      /\ freg' \in [Regs -> Dword] /\ csr' \in [DOMAIN CsrKind -> Dword]
  BY <1>1 DEF IInv, TypeOK
<1> QED
  BY <1>1, <1>3, <1>6, <1>7, Retired

LEMMA FmvKeeps == ASSUME IInv, ExecuteFmv PROVE IInv'
<1>1. Executing({"FMV_W_X"}) /\ pc' = next_pc /\ UNCHANGED <<reg, memory, csr, panic>>
  BY DEF ExecuteFmv, GoesOn
<1>2. PICK v \in Converted(rs1val, FloatBits) : WriteBackF(v)
  BY DEF ExecuteFmv
<1>3. next_pc \in Dword /\ rs1val \in Dword /\ ins.rd \in Regs
  BY <1>1, InsIs
<1>4. v \in Dword
  BY <1>2, <1>3, PrecisionIs, ConvertedFits
<1>5. freg' \in [Regs -> Dword]
  BY <1>2, <1>3, <1>4, WriteBackFFits DEF IInv
<1>6. /\ panic' \in BOOLEAN /\ reg' \in [Regs -> Dword] /\ reg'[0] = 0
      /\ csr' \in [DOMAIN CsrKind -> Dword] /\ IsRam(memory')
  BY <1>1 DEF IInv, TypeOK
<1> QED
  BY <1>1, <1>3, <1>5, <1>6, Retired

LEMMA CsrKeeps == ASSUME IInv, csr_update PROVE IInv'
<1>1. Executing(CsrOps) /\ pc' = next_pc /\ UNCHANGED <<freg, memory, panic>>
  BY DEF csr_update, GoesOn
<1>2. PICK old \in CsrValues(ins.csr) :
        /\ csr' = [csr EXCEPT ![ins.csr] = CsrNew(ins.op, old, CsrData)]
        /\ WriteBack(old)
  BY DEF csr_update
<1>3. /\ ins.op \in CsrOps /\ next_pc \in Dword /\ rs1val \in Dword /\ ins.imm \in Dword
      /\ ins.rd \in Regs /\ ins.csr \in DOMAIN CsrKind
  BY <1>1, InsIs
<1>4. old \in Dword
  <2>1. csr[ins.csr] \in Dword /\ 0 \in Dword /\ 7 \in Dword /\ Clock \subseteq Dword
    BY <1>3, FitsDword, ExecuteAssumption DEF IInv, TypeOK
  <2>2. CsrKind[ins.csr] \in {"plain", "fixed", "counter", "absent", "zero", "unknown"}
    BY <1>3, ExecuteAssumption
  <2> QED
    BY <1>2, <2>1, <2>2 DEF CsrValues
<1>5. CsrNew(ins.op, old, CsrData) \in Dword
  <2>1. CsrData \in Dword
    BY <1>3 DEF CsrData
  <2> QED
    BY <1>3, <1>4, <2>1, CsrFits
<1>6. csr' \in [DOMAIN CsrKind -> Dword]
  BY <1>2, <1>3, <1>5 DEF IInv, TypeOK
<1>7. reg' \in [Regs -> Dword] /\ reg'[0] = 0
  BY <1>2, <1>3, <1>4, WriteBackFits DEF IInv
<1>8. panic' \in BOOLEAN /\ freg' \in [Regs -> Dword] /\ IsRam(memory')
  BY <1>1 DEF IInv, TypeOK
<1> QED
  BY <1>1, <1>3, <1>6, <1>7, <1>8, Retired

\* The instructions that change neither registers nor memory.
LEMMA QuietKeeps ==
  ASSUME IInv, NEW ops, Executing(ops), UNCHANGED state, pc' \in Dword, panic' \in BOOLEAN
  PROVE  IInv'
<1>1. /\ reg' \in [Regs -> Dword] /\ reg'[0] = 0 /\ freg' \in [Regs -> Dword]
      /\ csr' \in [DOMAIN CsrKind -> Dword] /\ IsRam(memory')
  BY DEF IInv, TypeOK, state
<1> QED
  BY <1>1, Retired

\* The actions that change no register and no memory.
LEMMA OthersKeep ==
  ASSUME IInv, ExecuteBadOp \/ ExecuteBranch
               \/ AccessFault \/ CsrAbsent \/ CsrUnknown
  PROVE  IInv'
<1>1. PICK ops : Executing(ops)
  BY DEF ExecuteBadOp, ExecuteBranch, AccessFault, CsrAbsent, CsrUnknown
<1>2. UNCHANGED state
  BY DEF ExecuteBadOp, ExecuteBranch, AccessFault, CsrAbsent, CsrUnknown,
         raise_except, RegsAfterExcept, state
<1>3. pc' \in {pc, next_pc, Target, Vector} /\ panic' \in {panic, TRUE}
  BY DEF ExecuteBadOp, ExecuteBranch, AccessFault, CsrAbsent, CsrUnknown,
         raise_except, GoesOn
<1>4. pc \in Dword /\ panic \in BOOLEAN /\ next_pc \in Dword /\ Target \in Dword
      /\ Vector \in Dword
  BY <1>1, InsIs, ExecuteAssumption DEF IInv, TypeOK
<1>5. pc' \in Dword /\ panic' \in BOOLEAN
  BY <1>3, <1>4
<1> QED
  BY <1>1, <1>2, <1>5, QuietKeeps

\* Every step, decoding, traps and changes of the hart included.
LEMMA NextIInv == IInv /\ [Next]_vars => IInv'
<1> SUFFICES ASSUME IInv, [Next]_vars PROVE IInv'
  OBVIOUS
<1>1. CASE Decode
  <2>1. PICK l \in DOMAIN Code : ins' \in Code[l]
    BY <1>1 DEF Decode
  <2>2. ins'.op \in STRING
    BY <2>1, ExecuteAssumption, Zenon
  <2>3. UNCHANGED <<pc, reg, freg, memory, csr, panic, other>>
    BY <1>1 DEF Decode, state
  <2> QED
    BY <2>1, <2>2, <2>3 DEF IInv, TypeOK, IsRam, InsOK, OtherOK
<1>2. CASE Execute
  BY <1>2, ArithKeeps, MulDivKeeps, UpperKeeps, NothingKeeps, JumpKeeps, LoadKeeps, StoreKeeps,
     AtomicKeeps, FpLoadKeeps, FpStoreKeeps, FmvKeeps, CsrKeeps, OthersKeep DEF Execute
<1>3. CASE Switch
  <2>1. other' = [pc |-> pc, reg |-> reg] /\ pc' = other.pc /\ reg' = other.reg
        /\ UNCHANGED <<freg, memory, csr, ins, panic>>
    BY <1>3 DEF Switch
  <2> QED
    BY <2>1 DEF IInv, TypeOK, IsRam, InsOK, OtherOK
<1>4. CASE UNCHANGED vars
  BY <1>4 DEF vars, state, IInv, TypeOK, IsRam, InsOK, OtherOK
<1> QED
  BY <1>1, <1>2, <1>3, <1>4 DEF Next

-----------------------------------------------------------------------------
(* Widths and faults.                                                      *)

\* The invariant holds in every reachable state.
THEOREM Invariance == Spec => []IInv
<1> QED
  BY InitIInv, NextIInv, PTL DEF Spec

\* Every register, csr and byte keeps its width, and register 0 is zero after
\* every instruction, the ones that name it as their destination included.
THEOREM TypeCorrect == Spec => []TypeOK
<1>1. IInv => TypeOK
  BY DEF IInv
<1> QED
  BY <1>1, Invariance, PTL

\* An instruction that traps for a reason, and any other.
Fails == \/ ins.op \in MemoryOps /\ mmu(Address) = Fault
         \/ ins.op \in CsrOps /\ CsrKind[ins.csr] = "absent"

\* An instruction traps if it fails and only then.
LEMMA OnlyFailuresTrap ==
  ASSUME IInv, Execute
  PROVE  \/ AccessFault \/ CsrAbsent
         \/ ~Fails /\ UNCHANGED trap
<1>1. CASE ExecuteArith \/ ExecuteMulDiv \/ ExecuteUpper \/ ExecuteNothing \/ ExecuteBadOp
           \/ ExecuteJump \/ ExecuteBranch \/ ExecuteFmv
  <2>1. PICK ops \in {ImmOps \cup RegOps, MulDivOps, {"LUI", "AUIPC"}, NoOps, {"EBREAK"},
                      {"JAL", "JALR"}, Branches, {"FMV_W_X"}} : Executing(ops)
    BY <1>1 DEF ExecuteArith, ExecuteMulDiv, ExecuteUpper, ExecuteNothing, ExecuteBadOp,
                ExecuteJump, ExecuteBranch, ExecuteFmv
  <2>2. ins.op \in ops
    BY <2>1 DEF Executing
  <2>3. ops \cap (MemoryOps \cup CsrOps) = {}
    BY <2>1 DEF ImmOps, RegOps, MulDivOps, NoOps, Branches, MemoryOps, Loads, Stores, Atomics,
                FpLoads, FpStores, CsrOps
  <2>4. ~Fails
    BY <2>2, <2>3 DEF Fails
  <2> QED
    BY <1>1, <2>4 DEF ExecuteArith, ExecuteMulDiv, ExecuteUpper, ExecuteNothing, ExecuteBadOp,
                      ExecuteJump, ExecuteBranch, ExecuteFmv, GoesOn
<1>2. CASE ExecuteLoad \/ ExecuteStore \/ ExecuteAtomic \/ ExecuteFpLoad \/ ExecuteFpStore
  <2>1. PICK ops \in {Loads \cup {"LR_D", "LR_W"}, Stores, {"SC_D", "SC_W", "AMO_D", "AMO_W"},
                      FpLoads, FpStores} : Reads(ops)
    BY <1>2 DEF ExecuteLoad, ExecuteStore, ExecuteAtomic, ExecuteFpLoad, ExecuteFpStore
  <2>2. ins.op \in ops /\ mmu(Address) # Fault
    BY <2>1 DEF Reads, Executing
  <2>3. ops \cap CsrOps = {}
    BY <2>1 DEF Loads, Stores, FpLoads, FpStores, CsrOps
  <2>4. ~Fails
    BY <2>2, <2>3 DEF Fails
  <2> QED
    BY <1>2, <2>4 DEF ExecuteLoad, ExecuteStore, ExecuteAtomic, ExecuteFpLoad, ExecuteFpStore,
                      GoesOn
<1>3. CASE csr_update \/ CsrUnknown
  <2>1. ins.op \in CsrOps
    BY <1>3 DEF csr_update, CsrUnknown, Executing
  <2>2. ins.op \notin MemoryOps
    BY <2>1 DEF MemoryOps, Loads, Stores, Atomics, FpLoads, FpStores, CsrOps
  <2>3. CsrKind[ins.csr] # "absent"
    BY <1>3 DEF csr_update, CsrUnknown, CsrValues
  <2> QED
    BY <1>3, <2>2, <2>3 DEF Fails, csr_update, CsrUnknown, GoesOn
<1> QED
  BY <1>1, <1>2, <1>3 DEF Execute

\* What raise_except reports of a failed access.
LEMMA ReportIs ==
  ASSUME IInv, AccessFault
  PROVE  /\ ins.op \in MemoryOps /\ ins.op \notin CsrOps /\ Fails
         /\ UNCHANGED state /\ pc' = Vector /\ trap'.epc = pc
         /\ trap'.tval = Wrap(rs1val + (IF ins.op \in Atomics THEN 0 ELSE ins.imm), X)
         /\ trap'.cause = Cause
<1>1. /\ Executing(MemoryOps) /\ ins.op \in MemoryOps /\ mmu(Address) = Fault
      /\ trap' = [cause |-> Cause, tval |-> Address, epc |-> pc] /\ pc' = Vector
      /\ UNCHANGED state
  BY DEF AccessFault, Executing, raise_except, RegsAfterExcept, state
<1>2. ins.op \notin CsrOps /\ Fails
  BY <1>1 DEF Fails, MemoryOps, Loads, Stores, Atomics, FpLoads, FpStores, CsrOps
<1>3. trap'.epc = pc /\ trap'.tval = Address /\ trap'.cause = Cause
  BY <1>1
<1>4. rs1val \in Dword
  BY <1>1, InsIs
<1>5. Wrap(rs1val + 0, X) = rs1val
  <2>1. 2^X \in Nat \ {0} /\ rs1val \in 0 .. 2^X - 1
    BY <1>4, PowerIs, WidthsAre DEF Dword
  <2> DEFINE p == 2^X  v == rs1val
  <2>2. (v + 0) % p = v
    <3>1. p \in Nat \ {0} /\ v \in 0 .. p - 1
      BY <2>1
    <3> HIDE DEF p, v
    <3> QED
      BY <3>1
  <2> QED
    BY <2>2 DEF Wrap
<1> QED
  BY <1>1, <1>2, <1>3, <1>5 DEF Address

\* A failed access changes neither registers nor memory, whatever order execute
\* computes and stores in, and reports its own address and location; nothing
\* else traps (raise_except, has_except).
THEOREM Precise == Spec => FaultsArePrecise
<1> DEFINE isLoad == ins.op \in {"LB", "LH", "LW", "LD", "LBU", "LHU", "LWU",
                                 "FLD", "FLW", "LR_D", "LR_W"} \ ReportedAsStore
           Report == /\ UNCHANGED state /\ pc' = Vector
                     /\ trap'.epc = pc
                     /\ ins.op \in MemoryOps =>
                          /\ trap'.tval = Wrap(rs1val + (IF ins.op \in Atomics THEN 0 ELSE ins.imm), X)
                          /\ trap'.cause = IF isLoad THEN "load_page_fault" ELSE "store_page_fault"
           Step   == Executed => IF Fails THEN Report ELSE UNCHANGED trap
<1>1. ASSUME IInv, Next PROVE Step
  <2> SUFFICES ASSUME Executed PROVE IF Fails THEN Report ELSE UNCHANGED trap
    OBVIOUS
  <2>1. Execute
    BY <1>1 DEF Next, Decode, Switch, Executed
  <2>2. CASE AccessFault
    <3>1. Cause = IF isLoad THEN "load_page_fault" ELSE "store_page_fault"
      <4>1. ins.op \in Loads <=> isLoad
        BY DEF Loads, ReportedAsStore
      <4> QED
        BY <4>1 DEF Cause
    <3> HIDE DEF isLoad
    <3> QED
      BY <1>1, <2>2, <3>1, ReportIs
  <2>3. CASE CsrAbsent
    <3>1. ins.op \in CsrOps /\ Fails
      BY <2>3 DEF CsrAbsent, Executing, Fails
    <3>2. ins.op \notin MemoryOps
      BY <3>1 DEF MemoryOps, Loads, Stores, Atomics, FpLoads, FpStores, CsrOps
    <3>3. UNCHANGED state /\ pc' = Vector /\ trap'.epc = pc
      BY <2>3 DEF CsrAbsent, raise_except, RegsAfterExcept, state
    <3> QED
      BY <3>1, <3>2, <3>3
  <2>4. CASE ~Fails /\ UNCHANGED trap
    BY <2>4
  <2> QED
    BY <1>1, <2>1, <2>2, <2>3, <2>4, OnlyFailuresTrap
<1>2. IInv /\ [Next]_vars => [Step]_vars
  BY <1>1
<1>3. [][Step]_vars => FaultsArePrecise
  BY PTL DEF FaultsArePrecise, Fails
<1> QED
  BY <1>2, <1>3, Invariance, PTL DEF Spec

-----------------------------------------------------------------------------
(* Division and congruence.                                                *)

\* A quotient and a remainder in range determine a division.
LEMMA DivModIs ==
  ASSUME NEW n \in Nat \ {0}, NEW q \in Int, NEW r \in 0..(n - 1)
  PROVE  (n * q + r) % n = r /\ (n * q + r) \div n = q
<1> DEFINE a == n * q + r
           x == a \div n
           s == a % n
<1>1. a \in Int
  OBVIOUS
<1> HIDE DEF a
<1>2. s \in 0..(n - 1) /\ x \in Int /\ a = n * x + s
  BY <1>1
<1>3. n * q + r = n * x + s
  BY <1>2 DEF a
<1> HIDE DEF x, s
<1>4. ~(q > x)
  <2> SUFFICES ASSUME q > x PROVE FALSE
    OBVIOUS
  <2>1. q - x - 1 \in Nat /\ n * q = n * x + n + n * (q - x - 1)
    BY <1>2
  <2>2. n * (q - x - 1) \in Nat
    BY <2>1
  <2> QED
    BY <1>2, <1>3, <2>1, <2>2
<1>5. ~(x > q)
  <2> SUFFICES ASSUME x > q PROVE FALSE
    OBVIOUS
  <2>1. x - q - 1 \in Nat /\ n * x = n * q + n + n * (x - q - 1)
    BY <1>2
  <2>2. n * (x - q - 1) \in Nat
    BY <2>1
  <2> QED
    BY <1>2, <1>3, <2>1, <2>2
<1>6. r = s /\ q = x
  BY <1>2, <1>3, <1>4, <1>5
<1> QED
  BY <1>6 DEF s, x, a

\* Whole multiples of the divisor come out of a division.
LEMMA DivShift ==
  ASSUME NEW p \in Nat \ {0}, NEW k \in Int, NEW u \in Int
  PROVE  (p * k + u) \div p = k + (u \div p) /\ (p * k + u) % p = u % p
<1> DEFINE x == u \div p  r == u % p
<1>1. x \in Int /\ r \in 0 .. p - 1 /\ u = p * x + r
  OBVIOUS
<1> HIDE DEF x, r
<1>2. k + x \in Int /\ p * k + u = p * (k + x) + r
  BY <1>1
<1>3. (p * (k + x) + r) % p = r /\ (p * (k + x) + r) \div p = k + x
  BY <1>1, <1>2, DivModIs
<1> QED
  BY <1>2, <1>3 DEF x, r

\* Dividing in two steps is dividing by the product.
LEMMA DivDiv ==
  ASSUME NEW p \in Nat \ {0}, NEW q \in Nat \ {0}, NEW z \in Int
  PROVE  (z \div p) \div q = z \div (p * q)
<1> DEFINE x == z \div p  r == z % p  y == x \div q  s == x % q
<1>1. x \in Int /\ r \in 0 .. p - 1 /\ z = p * x + r
  OBVIOUS
<1> HIDE DEF x, r
<1>2. y \in Int /\ s \in 0 .. q - 1 /\ x = q * y + s
  BY <1>1
<1> HIDE DEF y, s
<1> DEFINE m == p * q  t == p * s + r
<1>3. m \in Nat \ {0} /\ t \in 0 .. m - 1
  <2>1. q - 1 - s \in Nat /\ s \in Nat
    BY <1>2
  <2>2. p * (q - 1 - s) \in Nat /\ p * s \in Nat
    BY <2>1
  <2>3. p * (q - 1 - s) = p * q - p - p * s
    BY <1>2
  <2>4. p * q \in Nat \ {0}
    OBVIOUS
  <2> QED
    BY <1>1, <2>2, <2>3, <2>4
<1>4. z = m * y + t
  <2>1. p * x = p * (q * y) + p * s
    BY <1>2
  <2>2. p * (q * y) = (p * q) * y
    BY <1>2
  <2>3. (p * q) * y \in Int /\ p * s \in Int
    BY <1>2
  <2> QED
    BY <1>1, <2>1, <2>2, <2>3
<1> HIDE DEF m, t
<1>5. z \div m = y
  BY <1>2, <1>3, <1>4, DivModIs
<1> QED
  BY <1>5 DEF y, x, m

\* Numbers that differ by a multiple of p.
Cong(a, b, p) == \E q \in Int : a = b + p * q

\* They leave the same remainder.
LEMMA CongMod ==
  ASSUME NEW p \in Nat \ {0}, NEW a \in Int, NEW b \in Int, Cong(a, b, p)
  PROVE  a % p = b % p
<1>1. PICK q \in Int : a = b + p * q
  BY DEF Cong
<1>2. (p * q + b) % p = b % p
  BY <1>1, DivShift
<1>3. p * q + b = a
  <2>1. p * q \in Int
    BY <1>1
  <2> QED
    BY <1>1, <2>1
<1> QED
  BY <1>2, <1>3

\* A remainder is congruent to its number.
LEMMA CongSelf ==
  ASSUME NEW p \in Nat \ {0}, NEW a \in Int
  PROVE  Cong(a % p, a, p) /\ Cong(a, a, p)
<1> DEFINE x == a \div p  r == a % p
<1>1. x \in Int /\ r \in 0 .. p - 1 /\ a = p * x + r
  OBVIOUS
<1> HIDE DEF x, r
<1>2. r = a + p * (-x) /\ -x \in Int
  BY <1>1
<1>3. a = a + p * 0 /\ 0 \in Int
  OBVIOUS
<1> QED
  BY <1>2, <1>3 DEF Cong, r

\* Congruence is an equivalence, kept by sums, differences and products.
LEMMA CongLaws ==
  ASSUME NEW p \in Nat \ {0}, NEW a \in Int, NEW b \in Int, NEW c \in Int, NEW d \in Int
  PROVE  /\ Cong(a, b, p) => Cong(b, a, p)
         /\ Cong(a, b, p) /\ Cong(b, c, p) => Cong(a, c, p)
         /\ Cong(a, b, p) /\ Cong(c, d, p) => /\ Cong(a + c, b + d, p)
                                              /\ Cong(a - c, b - d, p)
                                              /\ Cong(a * c, b * d, p)
<1>1. ASSUME Cong(a, b, p) PROVE Cong(b, a, p)
  <2>1. PICK q \in Int : a = b + p * q
    BY <1>1 DEF Cong
  <2>2. b = a + p * (-q) /\ -q \in Int
    BY <2>1
  <2> QED
    BY <2>2 DEF Cong
<1>2. ASSUME Cong(a, b, p), Cong(b, c, p) PROVE Cong(a, c, p)
  <2>1. PICK q \in Int : a = b + p * q
    BY <1>2 DEF Cong
  <2>2. PICK r \in Int : b = c + p * r
    BY <1>2 DEF Cong
  <2>3. a = c + p * (q + r) /\ q + r \in Int
    BY <2>1, <2>2
  <2> QED
    BY <2>3 DEF Cong
<1>3. ASSUME Cong(a, b, p), Cong(c, d, p)
      PROVE  Cong(a + c, b + d, p) /\ Cong(a - c, b - d, p) /\ Cong(a * c, b * d, p)
  <2>1. PICK q \in Int : a = b + p * q
    BY <1>3 DEF Cong
  <2>2. PICK r \in Int : c = d + p * r
    BY <1>3 DEF Cong
  <2>3. a + c = (b + d) + p * (q + r) /\ q + r \in Int
    BY <2>1, <2>2
  <2>4. a - c = (b - d) + p * (q - r) /\ q - r \in Int
    BY <2>1, <2>2
  <2> DEFINE k == b * r + d * q + p * (q * r)
  <2>5. k \in Int
    <3>1. b * r \in Int /\ d * q \in Int /\ q * r \in Int
      BY <2>1, <2>2
    <3>2. p * (q * r) \in Int
      BY <3>1
    <3> QED
      BY <3>1, <3>2
  <2>6. a * c = b * d + p * k
    <3>1. (b + p * q) * (d + p * r) = b * d + b * (p * r) + (p * q) * d + (p * q) * (p * r)
      BY <2>1, <2>2
    <3>2. b * (p * r) = p * (b * r) /\ (p * q) * d = p * (d * q)
          /\ (p * q) * (p * r) = p * (p * (q * r))
      BY <2>1, <2>2
    <3>3. p * k = p * (b * r) + p * (d * q) + p * (p * (q * r))
      <4> DEFINE e == b * r  f == d * q  g == p * (q * r)
      <4>1. e \in Int /\ f \in Int /\ g \in Int
        BY <2>1, <2>2
      <4> HIDE DEF e, f, g
      <4>2. p * (e + f + g) = p * e + p * f + p * g
        BY <4>1
      <4> QED
        BY <4>2 DEF e, f, g
    <3>4. b * d \in Int /\ p * (b * r) \in Int /\ p * (d * q) \in Int /\ p * (p * (q * r)) \in Int
      BY <2>1, <2>2
    <3> QED
      BY <2>1, <2>2, <3>1, <3>2, <3>3, <3>4
  <2> QED
    BY <2>3, <2>4, <2>5, <2>6 DEF Cong
<1> QED
  BY <1>1, <1>2, <1>3

\* What is congruent for a multiple of p is so for p.
LEMMA CongFactor ==
  ASSUME NEW p \in Nat \ {0}, NEW m \in Nat \ {0}, NEW a \in Int, NEW b \in Int,
         Cong(a, b, p * m)
  PROVE  Cong(a, b, p)
<1>1. PICK q \in Int : a = b + (p * m) * q
  BY DEF Cong
<1>2. (p * m) * q = p * (m * q) /\ m * q \in Int
  BY <1>1
<1> QED
  BY <1>1, <1>2 DEF Cong

-----------------------------------------------------------------------------
(* Signed numbers.                                                         *)

\* The two halves of the numbers of n bits.
LEMMA HalfIs ==
  ASSUME NEW n \in 1 .. X
  PROVE  /\ n \in 0 .. X /\ n - 1 \in 0 .. X
         /\ 2^n \in Nat \ {0} /\ 2^(n - 1) \in Nat \ {0} /\ 2^n = 2 * 2^(n - 1)
<1>1. n \in 0 .. X /\ n - 1 \in 0 .. X /\ n - 1 \in 0 .. X - 1 /\ (n - 1) + 1 = n
  BY WidthsAre
<1> QED
  BY <1>1, PowerIs

\* A signed number is in its range and congruent to what it is of;
LEMMA SignedRange ==
  ASSUME NEW v \in Int, NEW n \in 1 .. X
  PROVE  /\ Signed(v, n) \in (-(2^(n - 1))) .. (2^(n - 1) - 1)
         /\ Cong(Signed(v, n), v, 2^n)
<1> DEFINE p == 2^n  h == 2^(n - 1)  u == Wrap(v, n)
<1>1. p \in Nat \ {0} /\ h \in Nat \ {0} /\ p = 2 * h
  BY HalfIs
<1>2. u \in 0 .. p - 1
  BY HalfIs, WrapIs
<1>3. Cong(u, v, p)
  BY <1>1, CongSelf DEF Wrap
<1>4. Signed(v, n) = IF u < h THEN u ELSE u - p
  BY DEF Signed
<1> HIDE DEF p, h, u
<1>5. PICK q \in Int : u = v + p * q
  BY <1>3 DEF Cong
<1>6. u - p = v + p * (q - 1) /\ q - 1 \in Int
  BY <1>1, <1>5
<1>7. Cong(u - p, v, p)
  BY <1>6 DEF Cong
<1>8. Signed(v, n) \in (-h) .. (h - 1) /\ Cong(Signed(v, n), v, p)
  BY <1>1, <1>2, <1>3, <1>4, <1>7
<1> QED
  BY <1>8 DEF p, h

\* and it is the only one.
LEMMA SignedUnique ==
  ASSUME NEW v \in Int, NEW n \in 1 .. X, NEW s \in (-(2^(n - 1))) .. (2^(n - 1) - 1),
         Cong(s, v, 2^n)
  PROVE  Signed(v, n) = s
<1> DEFINE p == 2^n  h == 2^(n - 1)  t == Signed(v, n)
<1>1. p \in Nat \ {0} /\ h \in Nat \ {0} /\ p = 2 * h
  BY HalfIs
<1>2. t \in (-h) .. (h - 1) /\ Cong(t, v, p)
  BY SignedRange
<1>3. s \in (-h) .. (h - 1) /\ Cong(s, v, p)
  OBVIOUS
<1> HIDE DEF p, h, t
<1>4. t \in Int /\ s \in Int
  BY <1>1, <1>2, <1>3
<1>5. Cong(s, t, p)
  BY <1>1, <1>2, <1>3, <1>4, CongLaws
<1>6. PICK q \in Int : s = t + p * q
  BY <1>5 DEF Cong
<1>7. q = 0
  <2>1. ~(q >= 1)
    <3> SUFFICES ASSUME q >= 1 PROVE FALSE
      OBVIOUS
    <3>1. p * q = p + p * (q - 1) /\ p * (q - 1) \in Nat
      BY <1>1, <1>6
    <3> QED
      BY <1>1, <1>2, <1>3, <1>6, <3>1
  <2>2. ~(q <= -1)
    <3> SUFFICES ASSUME q <= -1 PROVE FALSE
      OBVIOUS
    <3>1. -q - 1 \in Nat
      BY <1>6
    <3>2. p * q = -p - p * (-q - 1) /\ p * (-q - 1) \in Nat
      BY <1>1, <1>6, <3>1
    <3> QED
      BY <1>1, <1>2, <1>3, <1>6, <3>2
  <2> QED
    BY <1>6, <2>1, <2>2
<1>8. s = t
  BY <1>1, <1>4, <1>6, <1>7
<1> QED
  BY <1>8 DEF t

\* What is extended to a register keeps its low part.
LEMMA ExtendKeeps ==
  ASSUME NEW e \in Int, NEW n \in {W, X}, NEW v, v = SignExtend(e, n)
  PROVE  /\ v \in Dword /\ Wrap(v, n) = Wrap(e, n) /\ Signed(v, n) = Signed(e, n)
         /\ v = SignExtend(Wrap(v, n), n)
<1> DEFINE p == 2^n  s == Signed(e, n)  r == 2^X
<1>1. n \in 1 .. X /\ X \in 0 .. X
  BY WidthsAre
<1>2. p \in Nat \ {0} /\ r \in Nat \ {0} /\ s \in Int /\ Cong(s, e, p)
  BY <1>1, HalfIs, SignedIs, SignedRange, PowerIs
<1>3. v = s % r /\ v \in Dword
  BY <1>1, FitsDword DEF SignExtend, Wrap
<1>4. v \in Int
  BY <1>3, FitsDword
<1>5. PICK m \in Nat \ {0} : r = p * m
  <2>1. X - n \in 0 .. X /\ n \in 0 .. X /\ n + (X - n) = X
    BY <1>1, WidthsAre
  <2>2. 2^X = 2^n * 2^(X - n)
    BY <2>1, PowerOfSum
  <2>3. 2^(X - n) \in Nat \ {0}
    BY <2>1, PowerIs
  <2> QED
    BY <2>2, <2>3
<1> HIDE DEF p, s, r
<1>6. Cong(v, s, p)
  <2>1. Cong(v, s, r)
    BY <1>2, <1>3, CongSelf
  <2> QED
    BY <1>2, <1>4, <1>5, <2>1, CongFactor
<1>7. Cong(v, e, p)
  BY <1>2, <1>4, <1>6, CongLaws
<1>8. Wrap(v, n) = Wrap(e, n)
  <2>1. v % p = e % p
    BY <1>2, <1>4, <1>7, CongMod
  <2> QED
    BY <2>1 DEF Wrap, p
<1>9. Signed(v, n) = Signed(e, n)
  BY <1>8 DEF Signed
<1>10. Signed(Wrap(v, n), n) = s
  <2>1. s \in (-(2^(n - 1))) .. (2^(n - 1) - 1)
    BY <1>1, SignedRange DEF s
  <2>2. Wrap(v, n) \in Int
    BY <1>1, <1>4, WrapIs, HalfIs
  <2>3. Cong(s, Wrap(v, n), p)
    <3>1. Cong(Wrap(v, n), v, p)
      BY <1>2, <1>4, CongSelf DEF Wrap, p
    <3> QED
      BY <1>2, <1>4, <1>6, <2>2, <3>1, CongLaws
  <2> QED
    BY <1>1, <2>1, <2>2, <2>3, SignedUnique DEF p
<1>11. v = SignExtend(Wrap(v, n), n)
  BY <1>3, <1>10 DEF SignExtend, Wrap, r
<1> QED
  BY <1>3, <1>8, <1>9, <1>11

\* To cut a number to a register is to extend it from the width of a register.
LEMMA WrapExtends ==
  ASSUME NEW e \in Int
  PROVE  /\ Wrap(e, X) = SignExtend(e, X)
         /\ e \in Dword => Wrap(e, X) = e
<1> DEFINE p == 2^X  s == Signed(e, X)
<1>1. X \in 1 .. X /\ p \in Nat \ {0} /\ s \in Int /\ Cong(s, e, p)
  BY WidthsAre, HalfIs, SignedIs, SignedRange
<1> HIDE DEF p, s
<1>2. s % p = e % p
  BY <1>1, CongMod
<1>3. ASSUME e \in 0 .. p - 1 PROVE e % p = e
  BY <1>1, <1>3
<1> QED
  BY <1>2, <1>3 DEF Wrap, SignExtend, p, s, Dword

\* A number in the signed range is extended as it is.
LEMMA SmallExtends ==
  ASSUME NEW n \in {W, X}, NEW s \in (-(2^(n - 1))) .. (2^(n - 1) - 1)
  PROVE  /\ Signed(s, n) = s
         /\ SignExtend(s, n) = Wrap(s, X)
<1>1. n \in 1 .. X
  BY WidthsAre
<1>2. 2^n \in Nat \ {0} /\ 2^(n - 1) \in Nat \ {0}
  BY <1>1, HalfIs
<1>3. s \in Int
  BY <1>2
<1>4. Cong(s, s, 2^n)
  BY <1>2, <1>3, CongSelf
<1>5. Signed(s, n) = s
  BY <1>1, <1>3, <1>4, SignedUnique
<1> QED
  BY <1>5 DEF SignExtend

-----------------------------------------------------------------------------
(* Bits.                                                                   *)

\* A power taken apart at a bit.
LEMMA PowerAt ==
  ASSUME NEW n \in 0 .. X, NEW i \in 0 .. n - 1
  PROVE  \E m \in Nat \ {0} : 2^n = 2^i * (2 * m)
<1>1. /\ n \in Nat /\ i \in 0 .. X /\ n - i \in 0 .. X /\ i + (n - i) = n
      /\ n - i - 1 \in 0 .. X - 1 /\ (n - i - 1) + 1 = n - i /\ n - i - 1 \in 0 .. X
  BY WidthsAre
<1>2. 2^n = 2^i * 2^(n - i)
  BY <1>1, PowerOfSum
<1>3. 2^(n - i) = 2 * 2^(n - i - 1) /\ 2^(n - i - 1) \in Nat \ {0}
  BY <1>1, PowerIs
<1> QED
  BY <1>2, <1>3

\* The bits below the width are kept.
LEMMA BitOfWrap ==
  ASSUME NEW z \in Int, NEW n \in 0 .. X, NEW i \in 0 .. n - 1
  PROVE  Arch!Bit(Wrap(z, n), i) = Arch!Bit(z, i)
<1>1. i \in 0 .. X
  BY WidthsAre
<1>2. 2^n \in Nat \ {0} /\ 2^i \in Nat \ {0}
  BY <1>1, PowerIs
<1>3. PICK m \in Nat \ {0} : 2^n = 2^i * (2 * m)
  BY PowerAt
<1>4. PICK k \in Int : Wrap(z, n) = z + 2^n * k
  BY <1>2, CongSelf DEF Wrap, Cong
<1> DEFINE p == 2^i  w == z \div p  c == m * k
<1>5. p \in Nat \ {0} /\ w \in Int /\ c \in Int /\ 2 * c \in Int
  BY <1>2, <1>3, <1>4
<1>6. Wrap(z, n) = p * (2 * c) + z
  <2>1. (p * (2 * m)) * k = p * (2 * (m * k))
    <3>1. p \in Int /\ m \in Int /\ k \in Int
      BY <1>3, <1>4, <1>5
    <3> HIDE DEF p
    <3> QED
      BY <3>1
  <2>2. p * (2 * c) \in Int
    BY <1>5, ProductIs
  <2> QED
    BY <1>3, <1>4, <2>1, <2>2
<1> HIDE DEF p, c
<1>7. Wrap(z, n) \div p = 2 * c + w
  BY <1>5, <1>6, DivShift
<1> HIDE DEF w
<1>8. (2 * c + w) % 2 = w % 2
  BY <1>5, DivShift
<1> QED
  BY <1>7, <1>8 DEF Arch!Bit, p, w

\* A shift to the left.
LEMMA BitOfLeft ==
  ASSUME NEW a \in Int, NEW s \in 0 .. X, NEW i \in 0 .. X
  PROVE  Arch!Bit(a * 2^s, i) = IF i < s THEN 0 ELSE Arch!Bit(a, i - s)
<1>1. CASE i < s
  <2>1. i \in 0 .. s - 1
    BY <1>1, WidthsAre
  <2>2. PICK m \in Nat \ {0} : 2^s = 2^i * (2 * m)
    BY <2>1, PowerAt
  <2> DEFINE p == 2^i  c == m * a
  <2>3. p \in Nat \ {0} /\ c \in Int
    BY <2>2, PowerIs
  <2>4. a * (p * (2 * m)) = p * (2 * (m * a)) + 0
    <3>1. p \in Int /\ m \in Int
      BY <2>2, <2>3
    <3> HIDE DEF p
    <3> QED
      BY <3>1
  <2>5. a * 2^s = p * (2 * c) + 0
    BY <2>2, <2>4
  <2> HIDE DEF p, c
  <2>6. 2 * c \in Int /\ 0 \div p = 0
    BY <2>3
  <2>7. (p * (2 * c) + 0) \div p = 2 * c + 0
    BY <2>3, <2>6, DivShift
  <2>8. (2 * c + 0) % 2 = 0
    BY <2>3
  <2> QED
    BY <1>1, <2>5, <2>7, <2>8 DEF Arch!Bit, p
<1>2. CASE ~(i < s)
  <2>1. i - s \in 0 .. X /\ s + (i - s) = i
    BY <1>2, WidthsAre
  <2> DEFINE p == 2^s  q == 2^(i - s)
  <2>2. 2^i = p * q /\ p \in Nat \ {0} /\ q \in Nat \ {0}
    <3>1. 2^(s + (i - s)) = 2^s * 2^(i - s)
      BY <2>1, PowerOfSum
    <3> QED
      BY <2>1, <3>1, PowerIs
  <2> HIDE DEF p, q
  <2>3. (a * p) \div p = a
    <3>1. p * a + 0 = a * p /\ 0 \in 0 .. p - 1
      BY <2>2
    <3>2. (p * a + 0) \div p = a
      BY <2>2, <3>1, DivModIs
    <3> QED
      BY <3>1, <3>2
  <2>4. (a * p) \div (p * q) = a \div q
    <3>1. a * p \in Int
      BY <2>2
    <3> DEFINE z == a * p
    <3>2. (z \div p) \div q = z \div (p * q)
      <4> HIDE DEF z
      <4> QED
        BY <2>2, <3>1, DivDiv DEF z
    <3> QED
      BY <2>3, <3>2
  <2> QED
    BY <1>2, <2>2, <2>4 DEF Arch!Bit, p, q
<1> QED
  BY <1>1, <1>2

\* A shift to the right.
LEMMA BitOfRight ==
  ASSUME NEW a \in Int, NEW s \in 0 .. X, NEW i \in 0 .. X, i + s <= X
  PROVE  Arch!Bit(a \div 2^s, i) = Arch!Bit(a, i + s)
<1>1. 2^(s + i) = 2^s * 2^i /\ 2^s \in Nat \ {0} /\ 2^i \in Nat \ {0} /\ s + i = i + s
  <2>1. s + i <= X /\ s + i = i + s
    BY WidthsAre
  <2> QED
    BY <2>1, PowerOfSum, PowerIs
<1>2. (a \div 2^s) \div 2^i = a \div (2^s * 2^i)
  BY <1>1, DivDiv
<1> QED
  BY <1>1, <1>2 DEF Arch!Bit

\* A quotient lies in the range that is smaller by the divisor.
LEMMA DivRange ==
  ASSUME NEW p \in Nat \ {0}, NEW m \in Nat \ {0}, NEW t \in (-(p * m)) .. (p * m - 1)
  PROVE  t \div p \in (-m) .. (m - 1) /\ (t \div p < 0 <=> t < 0)
<1> DEFINE k == t \div p  r == t % p
<1>1. p * m \in Nat
  OBVIOUS
<1>2. t \in Int
  BY <1>1
<1>3. k \in Int /\ r \in 0 .. p - 1 /\ t = p * k + r
  BY <1>2
<1> HIDE DEF k, r
<1>4. ~(k >= m)
  <2> SUFFICES ASSUME k >= m PROVE FALSE
    OBVIOUS
  <2>1. k - m \in Nat /\ p * k = p * m + p * (k - m)
    BY <1>3
  <2>2. p * (k - m) \in Nat
    BY <2>1
  <2> QED
    BY <1>1, <1>3, <2>1, <2>2
<1>5. ~(k < -m)
  <2> SUFFICES ASSUME k < -m PROVE FALSE
    OBVIOUS
  <2>1. -m - k - 1 \in Nat /\ p * k = -(p * m) - p - p * (-m - k - 1)
    BY <1>3
  <2>2. p * (-m - k - 1) \in Nat
    BY <2>1
  <2> QED
    BY <1>1, <1>3, <2>1, <2>2
<1>6. k < 0 <=> t < 0
  <2>1. ASSUME k < 0 PROVE t < 0
    <3>1. -k - 1 \in Nat /\ p * k = -p - p * (-k - 1)
      BY <1>3, <2>1
    <3>2. p * (-k - 1) \in Nat
      BY <3>1
    <3> QED
      BY <1>3, <3>1, <3>2
  <2>2. ASSUME k >= 0 PROVE t >= 0
    <3>1. p * k \in Nat
      BY <1>3, <2>2
    <3> QED
      BY <1>3, <3>1
  <2> QED
    BY <1>2, <1>3, <2>1, <2>2
<1> QED
  BY <1>3, <1>4, <1>5, <1>6 DEF k

\* The bits above a number show its sign.
LEMMA BitAbove ==
  ASSUME NEW i \in 0 .. X, NEW k \in (-(2^i)) .. (2^i - 1)
  PROVE  Arch!Bit(k, i) = IF k < 0 THEN 1 ELSE 0
<1> DEFINE p == 2^i
<1>1. p \in Nat \ {0}
  BY PowerIs
<1> HIDE DEF p
<1>2. k \in (-p) .. (p - 1) /\ k \in Int
  BY <1>1 DEF p
<1>3. CASE k < 0
  <2>1. PICK q \in Int : q = -1
    OBVIOUS
  <2>2. p * q + (k + p) = k /\ k + p \in 0 .. p - 1
    BY <1>1, <1>2, <1>3, <2>1
  <2>3. (p * q + (k + p)) \div p = q
    BY <1>1, <2>2, DivModIs
  <2>4. (2 * q + 1) % 2 = 1
    BY DivModIs
  <2>5. 2 * q + 1 = q
    BY <2>1
  <2>6. (k \div p) % 2 = 1
    BY <2>2, <2>3, <2>4, <2>5
  <2> QED
    BY <1>3, <2>6 DEF Arch!Bit, p
<1>4. CASE ~(k < 0)
  <2>1. p * 0 + k = k /\ k \in 0 .. p - 1
    BY <1>1, <1>2, <1>4
  <2>2. (p * 0 + k) \div p = 0
    BY <1>1, <2>1, DivModIs
  <2>3. (k \div p) % 2 = 0
    BY <2>1, <2>2
  <2> QED
    BY <1>4, <2>3 DEF Arch!Bit, p
<1> QED
  BY <1>3, <1>4

\* The highest bit is the sign.
LEMMA SignBit ==
  ASSUME NEW z \in Int, NEW n \in 1 .. X
  PROVE  Arch!Bit(Wrap(z, n), n - 1) = IF Signed(z, n) < 0 THEN 1 ELSE 0
<1> DEFINE p == 2^n  h == 2^(n - 1)  u == Wrap(z, n)
<1>1. p \in Nat \ {0} /\ h \in Nat \ {0} /\ p = 2 * h
  BY HalfIs
<1>2. u \in 0 .. p - 1
  BY HalfIs, WrapIs
<1>3. Signed(z, n) = IF u < h THEN u ELSE u - p
  BY DEF Signed
<1>4. Arch!Bit(u, n - 1) = (u \div h) % 2
  BY DEF Arch!Bit
<1> HIDE DEF p, h, u
<1>5. CASE u < h
  <2>1. h * 0 + u = u /\ u \in 0 .. h - 1
    BY <1>1, <1>2, <1>5
  <2>2. u \div h = 0
    BY <1>1, <2>1, DivModIs
  <2> QED
    BY <1>2, <1>3, <1>4, <1>5, <2>2 DEF u
<1>6. CASE ~(u < h)
  <2>1. h * 1 + (u - h) = u /\ u - h \in 0 .. h - 1
    BY <1>1, <1>2, <1>6
  <2>2. u \div h = 1
    BY <1>1, <2>1, DivModIs, SMTT(30)
  <2> QED
    BY <1>1, <1>2, <1>3, <1>4, <1>6, <2>2 DEF u
<1> QED
  BY <1>5, <1>6

-----------------------------------------------------------------------------
(* Bits of what is combined bit by bit.                                    *)

\* A sum of binary digits has these digits.
LEMMA SumBit ==
  ASSUME NEW N \in 0 .. X, NEW t, NEW g, IsSum(g, t, N),
         NEW digit \in [1 .. N -> {0, 1}], \A n \in 1 .. N : t[n] = digit[n] * 2^(n - 1),
         NEW i \in 0 .. N - 1
  PROVE  Arch!Bit(g[N], i) = digit[i + 1]
<1> DEFINE p == 2^i  d == digit[i + 1]
           C(n) == \E r \in Int : g[n] = p * (d + 2 * r) + g[i]
           S == {n \in i + 1 .. N : ~ C(n)}
<1>1. /\ N \in Nat /\ i \in Nat /\ i \in 0 .. X /\ i + 1 \in 1 .. N /\ i \in 0 .. N
      /\ p \in Nat \ {0} /\ d \in {0, 1}
  BY WidthsAre, PowerIs
<1>2. g[i] \in 0 .. p - 1
  <2>1. N \in Nat /\ 1 \in Nat /\ 1 * N <= X /\ 1 * i = i
    BY WidthsAre
  <2>2. ASSUME NEW n \in 1 .. N PROVE \E e \in 0 .. 2^1 - 1 : t[n] = e * 2^(1 * (n - 1))
    <3>1. 2^1 = 2 /\ 1 * (n - 1) = n - 1 /\ digit[n] \in {0, 1}
      OBVIOUS
    <3>2. digit[n] \in 0 .. 2^1 - 1
      BY <3>1
    <3>3. t[n] = digit[n] * 2^(1 * (n - 1))
      BY <3>1
    <3> QED
      BY <3>2, <3>3
  <2>3. \A n \in 0 .. N : g[n] \in 0 .. 2^(1 * n) - 1
    BY <2>1, <2>2, SumIsNumber
  <2> QED
    BY <1>1, <2>1, <2>3
<1>3. \A n \in 1 .. N : g[n] = g[n - 1] + digit[n] * 2^(n - 1)
  BY WidthsAre DEF IsSum
<1>4. C(N)
  <2>1. CASE S = {}
    <3>1. N \notin S
      <4> HIDE DEF S
      <4> QED
        BY <2>1
    <3>2. N \in i + 1 .. N
      BY <1>1
    <3> QED
      BY <3>1, <3>2
  <2>2. CASE S # {}
    <3>1. S \subseteq Nat
      BY <1>1
    <3>2. PICK n \in S : \A k \in S : n <= k
      <4> HIDE DEF S
      <4> QED
        BY <2>2, <3>1, Least
    <3>3. n \in i + 1 .. N /\ ~ C(n)
      BY <3>2
    <3>4. n # i + 1
      <4> SUFFICES ASSUME n = i + 1 PROVE FALSE
        OBVIOUS
      <4>1. g[i + 1] = g[(i + 1) - 1] + digit[i + 1] * 2^((i + 1) - 1) /\ (i + 1) - 1 = i
        BY <1>1, <1>3
      <4>2. g[i + 1] = p * (d + 2 * 0) + g[i]
        <5>1. g[i + 1] = g[i] + d * p
          BY <4>1
        <5>2. g[i] \in Int
          BY <1>1, <1>2
        <5> HIDE DEF p, d
        <5> QED
          BY <1>1, <5>1, <5>2
      <4>3. 0 \in Int
        OBVIOUS
      <4>4. C(i + 1)
        BY <4>2, <4>3, Zenon
      <4> QED
        BY <3>3, <4>4
    <3>5. /\ n - 1 \in i + 1 .. N /\ n - 1 \notin S /\ n \in 1 .. N
          /\ n - 1 \in 0 .. X /\ i \in 0 .. (n - 1) - 1
      <4>1. n \in i + 1 .. N
        BY <3>3
      <4> HIDE DEF S, C
      <4>2. /\ n - 1 \in i + 1 .. N /\ n \in 1 .. N /\ ~ (n <= n - 1)
            /\ n - 1 \in 0 .. X /\ i \in 0 .. (n - 1) - 1
        BY <1>1, <3>4, <4>1, WidthsAre
      <4> QED
        BY <3>2, <4>2
    <3>6. PICK r \in Int : g[n - 1] = p * (d + 2 * r) + g[i]
      BY <3>5
    <3>7. PICK m \in Nat \ {0} : 2^(n - 1) = p * (2 * m)
      BY <3>5, PowerAt
    <3>8. g[n] = g[n - 1] + digit[n] * 2^(n - 1) /\ digit[n] \in {0, 1}
      BY <1>3, <3>5
    <3> DEFINE q == r + digit[n] * m
    <3>9. q \in Int
      BY <3>6, <3>7, <3>8
    <3>10. g[n] = p * (d + 2 * q) + g[i]
      <4>1. g[i] \in Int
        BY <1>1, <1>2
      <4> DEFINE b == digit[n]
      <4>2. b = 0 \/ b = 1
        BY <3>8
      <4>3. g[n] = p * (d + 2 * r) + g[i] + b * (p * (2 * m))
        BY <3>6, <3>7, <3>8
      <4> HIDE DEF p, d, b
      <4>4. d \in Int /\ p \in Int /\ r \in Int /\ m \in Int
        BY <1>1, <3>6, <3>7
      <4>5. p * (d + 2 * (r + b * m)) = p * (d + 2 * r) + b * (p * (2 * m))
        <5>1. CASE b = 0
          <6>1. r + 0 * m = r /\ 0 * (p * (2 * m)) = 0 /\ p * (d + 2 * r) + 0 = p * (d + 2 * r)
            BY <4>4
          <6> QED
            BY <5>1, <6>1
        <5>2. CASE b = 1
          <6>1. p * (d + 2 * (r + m)) = p * (d + 2 * r) + p * (2 * m)
            BY <4>4
          <6>2. r + 1 * m = r + m /\ 1 * (p * (2 * m)) = p * (2 * m)
            BY <4>4
          <6> QED
            BY <5>2, <6>1, <6>2
        <5> QED
          BY <4>2, <5>1, <5>2
      <4>6. p * (d + 2 * r) \in Int /\ b * (p * (2 * m)) \in Int
        BY <4>2, <4>4
      <4> QED
        BY <4>1, <4>3, <4>5, <4>6 DEF b
    <3> QED
      BY <3>3, <3>9, <3>10
  <2> QED
    BY <2>1, <2>2
<1> HIDE DEF S
<1>5. PICK r \in Int : g[N] = p * (d + 2 * r) + g[i]
  BY <1>4
<1> HIDE DEF p, d
<1> DEFINE z == d + 2 * r
<1>6. z \in Int /\ d \in 0 .. 2 - 1
  BY <1>1, <1>5
<1>7. g[N] \div p = z
  <2>1. g[N] = p * z + g[i]
    BY <1>5
  <2> HIDE DEF z
  <2> QED
    BY <1>1, <1>2, <1>6, <2>1, DivModIs
<1>8. (2 * r + d) % 2 = d /\ 2 * r + d = d + 2 * r
  BY <1>1, <1>5, <1>6, DivModIs
<1> QED
  BY <1>7, <1>8 DEF Arch!Bit, p, d

\* The bits of what is combined bit by bit are those of the table.
LEMMA BitOfBitwise ==
  ASSUME NEW x \in Int, NEW y \in Int, NEW table, NEW i \in 0 .. X - 1
  PROVE  Arch!Bit(Bitwise(x, y, table), i)
           = IF <<Arch!Bit(x, i), Arch!Bit(y, i)>> \in table THEN 1 ELSE 0
<1> DEFINE t == BitTerm(x, y, table)
           digit == [n \in 1 .. X |-> IF <<(x \div 2^(n - 1)) % 2, (y \div 2^(n - 1)) % 2>> \in table
                                        THEN 1 ELSE 0]
<1>1. PICK g : IsSum(g, t, X) /\ Bitwise(x, y, table) = g[X]
  BY BitwiseIsSum
<1>2. digit \in [1 .. X -> {0, 1}]
  OBVIOUS
<1>3. \A n \in 1 .. X : t[n] = digit[n] * 2^(n - 1)
  <2> SUFFICES ASSUME NEW n \in 1 .. X PROVE t[n] = digit[n] * 2^(n - 1)
    OBVIOUS
  <2>1. 2^(n - 1) \in Nat
    BY PowerIs, WidthsAre
  <2>2. 1 * 2^(n - 1) = 2^(n - 1) /\ 0 * 2^(n - 1) = 0
    BY <2>1
  <2> QED
    BY <2>2 DEF BitTerm
<1>4. X \in 0 .. X /\ i + 1 \in 1 .. X /\ (i + 1) - 1 = i
  BY WidthsAre
<1>5. digit[i + 1] = IF <<(x \div 2^i) % 2, (y \div 2^i) % 2>> \in table THEN 1 ELSE 0
  BY <1>4
<1> HIDE DEF t, digit
<1>6. Arch!Bit(g[X], i) = digit[i + 1]
  <2> DEFINE BitsOf(gg, tt, N) ==
               \A dd \in [1 .. N -> {0, 1}] :
                 (\A n \in 1 .. N : tt[n] = dd[n] * 2^(n - 1)) =>
                   \A j \in 0 .. N - 1 : Arch!Bit(gg[N], j) = dd[j + 1]
  <2>1. \A N \in 0 .. X : \A tt, gg : IsSum(gg, tt, N) => BitsOf(gg, tt, N)
    BY SumBit
  <2> HIDE DEF BitsOf
  <2>2. BitsOf(g, t, X)
    BY <1>1, <1>4, <2>1
  <2>3. \A j \in 0 .. X - 1 : Arch!Bit(g[X], j) = digit[j + 1]
    BY <1>2, <1>3, <2>2, Zenon DEF BitsOf
  <2> QED
    BY <2>3, Zenon
<1> QED
  BY <1>1, <1>5, <1>6 DEF Arch!Bit

\* A bit is 0 or 1.
LEMMA BitIs ==
  ASSUME NEW v \in Int, NEW i \in 0 .. X
  PROVE  Arch!Bit(v, i) \in {0, 1}
<1> DEFINE q == v \div 2^i
<1>1. q \in Int
  BY PowerIs, QuotientIs
<1> HIDE DEF q
<1>2. q % 2 \in {0, 1}
  BY <1>1
<1> QED
  BY <1>2 DEF Arch!Bit, q

\* The bits of the three logical operations.
LEMMA LogicBits ==
  ASSUME NEW x \in Int, NEW y \in Int, NEW i \in 0 .. X - 1
  PROVE  LET a == Arch!Bit(x, i)
             b == Arch!Bit(y, i)
         IN  /\ a \in {0, 1} /\ b \in {0, 1}
             /\ Arch!Bit(XorBits(x, y), i) = IF a = b THEN 0 ELSE 1
             /\ Arch!Bit(OrBits(x, y), i) = IF 1 \in {a, b} THEN 1 ELSE 0
             /\ Arch!Bit(AndBits(x, y), i) = a * b
<1> DEFINE a == Arch!Bit(x, i)  b == Arch!Bit(y, i)
           xor == {<<0, 1>>, <<1, 0>>}
           or  == {<<0, 1>>, <<1, 0>>, <<1, 1>>}
           and == {<<1, 1>>}
<1>1. a \in {0, 1} /\ b \in {0, 1}
  BY BitIs, WidthsAre
<1>2. \A p, q : /\ <<p, q>> \in xor <=> (p = 0 /\ q = 1) \/ (p = 1 /\ q = 0)
                /\ <<p, q>> \in or <=> (p = 0 /\ q = 1) \/ (p = 1 /\ q = 0) \/ (p = 1 /\ q = 1)
                /\ <<p, q>> \in and <=> p = 1 /\ q = 1
  OBVIOUS
<1>3. /\ XorBits(x, y) = Bitwise(x, y, xor) /\ OrBits(x, y) = Bitwise(x, y, or)
      /\ AndBits(x, y) = Bitwise(x, y, and)
  BY DEF XorBits, OrBits, AndBits
<1> HIDE DEF xor, or, and
<1>4. \A table : Arch!Bit(Bitwise(x, y, table), i) = IF <<a, b>> \in table THEN 1 ELSE 0
  BY BitOfBitwise
<1> HIDE DEF a, b
<1>5. /\ Arch!Bit(XorBits(x, y), i) = IF a = b THEN 0 ELSE 1
      /\ Arch!Bit(OrBits(x, y), i) = IF 1 \in {a, b} THEN 1 ELSE 0
      /\ Arch!Bit(AndBits(x, y), i) = a * b
  BY <1>1, <1>2, <1>3, <1>4
<1> QED
  BY <1>1, <1>5 DEF a, b

-----------------------------------------------------------------------------
(* Sums, shifts and quotients of n-bit numbers.                            *)

\* The signs do not matter to the low part of a sum, difference or product.
LEMMA LowPart ==
  ASSUME NEW a \in Int, NEW b \in Int, NEW n \in 1 .. X
  PROVE  /\ Wrap(Signed(a, n) + Signed(b, n), n) = Wrap(a + b, n)
         /\ Wrap(Signed(a, n) - Signed(b, n), n) = Wrap(a - b, n)
         /\ Wrap(Signed(a, n) * Signed(b, n), n) = Wrap(a * b, n)
         /\ Wrap(Signed(a, n), n) = Wrap(a, n)
<1> DEFINE p == 2^n  s == Signed(a, n)  t == Signed(b, n)
<1>1. p \in Nat \ {0} /\ s \in Int /\ t \in Int /\ Cong(s, a, p) /\ Cong(t, b, p)
  BY HalfIs, SignedIs, SignedRange
<1> HIDE DEF p, s, t
<1>2. Cong(s + t, a + b, p) /\ Cong(s - t, a - b, p) /\ Cong(s * t, a * b, p)
  BY <1>1, CongLaws
<1>3. /\ s + t \in Int /\ s - t \in Int /\ s * t \in Int
      /\ a + b \in Int /\ a - b \in Int /\ a * b \in Int
  BY <1>1
<1>4. /\ (s + t) % p = (a + b) % p /\ (s - t) % p = (a - b) % p
      /\ (s * t) % p = (a * b) % p /\ s % p = a % p
  BY <1>1, <1>2, <1>3, CongMod
<1> QED
  BY <1>4 DEF Wrap, p, s, t

\* The numbers a shift meets.
LEMMA ShiftSplits ==
  ASSUME NEW n \in 1 .. X, NEW s \in 0 .. n - 1
  PROVE  /\ s \in 0 .. X /\ n - s \in 1 .. X /\ n - s \in 0 .. X
         /\ 2^s \in Nat \ {0} /\ 2^(n - s) \in Nat \ {0} /\ 2^n = 2^s * 2^(n - s)
         /\ n - s - 1 \in 0 .. X /\ n - 1 \in 0 .. X
         /\ 2^(n - s - 1) \in Nat \ {0} /\ 2^(n - 1) = 2^s * 2^(n - s - 1)
<1>1. /\ s \in 0 .. X /\ n - s \in 1 .. X /\ n - s \in 0 .. X /\ s + (n - s) = n /\ n <= X
      /\ n - s - 1 \in 0 .. X /\ n - 1 \in 0 .. X /\ s + (n - s - 1) = n - 1 /\ n - 1 <= X
  BY WidthsAre
<1>2. 2^(s + (n - s)) = 2^s * 2^(n - s) /\ 2^(s + (n - s - 1)) = 2^s * 2^(n - s - 1)
  BY <1>1, PowerOfSum
<1> QED
  BY <1>1, <1>2, PowerIs

\* The bits of a number shifted to the left,
LEMMA LeftBits ==
  ASSUME NEW a \in Int, NEW n \in 1 .. X, NEW s \in 0 .. n - 1, NEW i \in 0 .. n - 1
  PROVE  Arch!Bit(Wrap(a * 2^s, n), i) = IF i < s THEN 0 ELSE Arch!Bit(a, i - s)
<1> DEFINE z == a * 2^s
<1>1. s \in 0 .. X /\ i \in 0 .. X /\ n \in 0 .. X /\ 2^s \in Int
  BY ShiftSplits, WidthsAre
<1>2. z \in Int
  BY <1>1, ProductIs
<1>3. Arch!Bit(z, i) = IF i < s THEN 0 ELSE Arch!Bit(a, i - s)
  BY <1>1, BitOfLeft
<1> HIDE DEF z
<1>4. Arch!Bit(Wrap(z, n), i) = Arch!Bit(z, i)
  BY <1>1, <1>2, BitOfWrap
<1> QED
  BY <1>3, <1>4 DEF z

\* to the right,
LEMMA RightBits ==
  ASSUME NEW n \in 1 .. X, NEW u \in 0 .. 2^n - 1, NEW s \in 0 .. n - 1, NEW i \in 0 .. n - 1
  PROVE  Arch!Bit(Wrap(u \div 2^s, n), i) = IF i + s < n THEN Arch!Bit(u, i + s) ELSE 0
<1> DEFINE e == u \div 2^s
<1>1. s \in 0 .. X /\ i \in 0 .. X /\ n \in 0 .. X /\ 2^n \in Nat
  BY ShiftSplits, HalfIs, WidthsAre
<1>2. u \in Int /\ e \in Int
  BY <1>1, ShiftSplits, QuotientIs
<1>3. Arch!Bit(Wrap(e, n), i) = Arch!Bit(e, i)
  <2> HIDE DEF e
  <2> QED
    BY <1>1, <1>2, BitOfWrap
<1>4. CASE i + s < n
  <2>1. i + s <= X
    BY <1>4, WidthsAre
  <2> QED
    BY <1>1, <1>2, <1>3, <1>4, <2>1, BitOfRight
<1>5. CASE ~(i + s < n)
  <2> DEFINE p == 2^s  m == 2^(n - s)
  <2>1. p \in Nat \ {0} /\ m \in Nat \ {0} /\ 2^n = p * m
    BY ShiftSplits
  <2>2. u \in 0 .. p * m - 1
    BY <2>1
  <2>3. e = u \div p
    OBVIOUS
  <2> HIDE DEF p, m, e
  <2>4. p * m \in Nat
    BY <2>1
  <2>5. u \in (-(p * m)) .. (p * m - 1) /\ ~(u < 0)
    BY <2>2, <2>4
  <2>6. e \in 0 .. m - 1
    <3>1. e \in (-m) .. (m - 1) /\ (e < 0 <=> u < 0)
      BY <2>1, <2>3, <2>5, DivRange
    <3> QED
      BY <1>2, <2>1, <2>5, <3>1
  <2>7. m <= 2^i
    <3>1. n - s <= i /\ n - s \in 0 .. X
      BY <1>5, ShiftSplits, WidthsAre
    <3> QED
      BY <1>1, <3>1, PowerGrows DEF m
  <2>8. 2^i \in Nat
    BY <1>1, PowerIs
  <2>9. e \in (-(2^i)) .. (2^i - 1) /\ ~(e < 0)
    BY <2>1, <2>6, <2>7, <2>8
  <2>10. Arch!Bit(e, i) = 0
    BY <1>1, <2>9, BitAbove
  <2> QED
    BY <1>3, <1>5, <2>10 DEF e
<1> QED
  BY <1>4, <1>5

\* and to the right with the sign.
LEMMA SignedRightBits ==
  ASSUME NEW a \in Int, NEW n \in 1 .. X, NEW s \in 0 .. n - 1
  PROVE  /\ Signed(a, n) \div 2^s \in (-(2^(n - 1))) .. (2^(n - 1) - 1)
         /\ \A i \in 0 .. n - 1 :
              Arch!Bit(Wrap(Signed(a, n) \div 2^s, n), i)
                = Arch!Bit(Wrap(a, n), IF i + s < n THEN i + s ELSE n - 1)
<1> DEFINE z == Signed(a, n)  p == 2^s  m == 2^(n - s - 1)  h == 2^(n - 1)  e == z \div p
<1>1. p \in Nat \ {0} /\ m \in Nat \ {0} /\ h = p * m /\ z \in (-h) .. (h - 1)
  BY ShiftSplits, SignedRange
<1>2. h \in Nat /\ z \in Int /\ e \in Int
  BY <1>1, SignedIs, QuotientIs
<1> HIDE DEF z, p, m, h
<1>3. e \in (-m) .. (m - 1) /\ (e < 0 <=> z < 0)
  <2>1. z \in (-(p * m)) .. (p * m - 1)
    BY <1>1
  <2> QED
    BY <1>1, <2>1, DivRange
<1> HIDE DEF e
<1>4. e \in (-h) .. (h - 1)
  <2>1. p * m = m + (p - 1) * m /\ (p - 1) * m \in Nat
    <3>1. p - 1 \in Nat
      BY <1>1
    <3> QED
      BY <1>1, <3>1
  <2> QED
    BY <1>1, <1>2, <1>3, <2>1
<1>5. ASSUME NEW i \in 0 .. n - 1
      PROVE  Arch!Bit(Wrap(e, n), i) = Arch!Bit(Wrap(a, n), IF i + s < n THEN i + s ELSE n - 1)
  <2>1. s \in 0 .. X /\ i \in 0 .. X /\ n \in 0 .. X
    BY ShiftSplits, WidthsAre
  <2>2. Arch!Bit(Wrap(e, n), i) = Arch!Bit(e, i)
    BY <1>2, <2>1, BitOfWrap
  <2>3. CASE i + s < n
    <3>1. i + s <= X /\ i + s \in 0 .. n - 1
      BY <2>3, WidthsAre
    <3>2. Arch!Bit(e, i) = Arch!Bit(z, i + s)
      BY <1>2, <2>1, <3>1, BitOfRight DEF e, p
    <3>3. Arch!Bit(Wrap(z, n), i + s) = Arch!Bit(z, i + s)
      BY <1>2, <2>1, <3>1, BitOfWrap
    <3>4. Wrap(z, n) = Wrap(a, n)
      BY LowPart DEF z
    <3> QED
      BY <2>2, <2>3, <3>2, <3>3, <3>4
  <2>4. CASE ~(i + s < n)
    <3>1. m <= 2^i
      <4>1. n - s - 1 <= i /\ n - s - 1 \in 0 .. X
        BY <2>4, ShiftSplits, WidthsAre
      <4> QED
        BY <2>1, <4>1, PowerGrows DEF m
    <3>2. 2^i \in Nat
      BY <2>1, PowerIs
    <3>3. e \in (-(2^i)) .. (2^i - 1)
      BY <1>1, <1>2, <1>3, <3>1, <3>2
    <3>4. Arch!Bit(e, i) = IF e < 0 THEN 1 ELSE 0
      BY <2>1, <3>3, BitAbove
    <3>5. Arch!Bit(Wrap(a, n), n - 1) = IF z < 0 THEN 1 ELSE 0
      BY SignBit DEF z
    <3> QED
      BY <1>3, <2>2, <2>4, <3>4, <3>5
  <2> QED
    BY <2>3, <2>4
<1> QED
  BY <1>4, <1>5 DEF e, z, p, h

\* Division toward zero: the remainder is smaller than the divisor and has the
\* sign of the dividend.
LEMMA TruncDivides ==
  ASSUME NEW n \in Int, NEW d \in Int \ {0}
  PROVE  /\ Trunc(n, d) \in Int /\ Rest(n, d) \in Int
         /\ n = d * Trunc(n, d) + Rest(n, d)
         /\ Abs(Rest(n, d)) < Abs(d)
         /\ Rest(n, d) = 0 \/ (Rest(n, d) < 0 <=> n < 0)
         /\ Abs(Trunc(n, d)) <= Abs(n)
         /\ n # 0 /\ Abs(Trunc(n, d)) = Abs(n) => Abs(d) = 1
         /\ IF (n < 0) = (d < 0) THEN Trunc(n, d) >= 0 ELSE Trunc(n, d) <= 0
<1> DEFINE N == Abs(n)  D == Abs(d)  Q == N \div D  R == N % D
           q == Trunc(n, d)  r == Rest(n, d)
<1>1. /\ N \in Nat /\ D \in Nat \ {0}
      /\ n = IF n < 0 THEN -N ELSE N
      /\ d = IF d < 0 THEN -D ELSE D
  BY DEF Abs
<1>2. q = IF (n < 0) = (d < 0) THEN Q ELSE -Q
  BY DEF Trunc
<1>3. r = n - d * q
  BY DEF Rest
<1> HIDE DEF N, D, q, r
<1>4. Q \in Nat /\ R \in 0 .. D - 1 /\ N = D * Q + R
  BY <1>1
<1> HIDE DEF Q, R
<1>5. q \in Int /\ d * q \in Int
  BY <1>1, <1>2, <1>4
<1>6. D * Q \in Nat
  BY <1>1, <1>4
<1>7. d * q = IF n < 0 THEN -(D * Q) ELSE D * Q
  <2>1. d * q = IF d < 0 THEN (-D) * q ELSE D * q
    BY <1>1
  <2>2. (-D) * Q = -(D * Q) /\ (-D) * (-Q) = D * Q /\ D * (-Q) = -(D * Q)
    BY <1>1, <1>4
  <2> QED
    BY <1>2, <2>1, <2>2
<1>8. r = IF n < 0 THEN -R ELSE R
  BY <1>1, <1>3, <1>4, <1>6, <1>7
<1>9. /\ r \in Int /\ n = d * q + r /\ Abs(r) < D
      /\ r = 0 \/ (r < 0 <=> n < 0)
  BY <1>1, <1>3, <1>4, <1>5, <1>8 DEF Abs
<1>10. Abs(q) = Q
  BY <1>2, <1>4 DEF Abs
<1>11. Q <= N /\ (N # 0 /\ Q = N => D = 1)
  <2>1. D * Q = Q + (D - 1) * Q /\ (D - 1) * Q \in Nat
    <3>1. D - 1 \in Nat
      BY <1>1
    <3> QED
      BY <1>1, <1>4, <3>1
  <2>2. ASSUME N # 0, Q = N PROVE D = 1
    <3> SUFFICES ASSUME D # 1 PROVE FALSE
      OBVIOUS
    <3>1. (D - 1) * Q = Q + (D - 2) * Q /\ (D - 2) * Q \in Nat
      <4>1. D - 2 \in Nat
        BY <1>1
      <4> QED
        BY <1>1, <1>4, <4>1
    <3> QED
      BY <1>1, <1>4, <2>1, <2>2, <3>1
  <2> QED
    BY <1>4, <2>1, <2>2
<1>12. n # 0 => N # 0
  BY <1>1
<1>13. IF (n < 0) = (d < 0) THEN q >= 0 ELSE q <= 0
  BY <1>2, <1>4
<1> QED
  BY <1>5, <1>9, <1>10, <1>11, <1>12, <1>13 DEF N, D, q, r

\* Only the most negative number divided by -1 leaves the range.
LEMMA QuotientRange ==
  ASSUME NEW h \in Nat \ {0}, NEW n \in (-h) .. (h - 1), NEW d \in (-h) .. (h - 1),
         d # 0, ~(n = -h /\ d = -1)
  PROVE  Trunc(n, d) \in (-h) .. (h - 1) /\ Rest(n, d) \in (-h) .. (h - 1)
<1> DEFINE q == Trunc(n, d)  r == Rest(n, d)
<1>1. n \in Int /\ d \in Int \ {0}
  OBVIOUS
<1>2. /\ q \in Int /\ r \in Int
      /\ Abs(r) < Abs(d) /\ Abs(q) <= Abs(n)
      /\ n # 0 /\ Abs(q) = Abs(n) => Abs(d) = 1
      /\ IF (n < 0) = (d < 0) THEN q >= 0 ELSE q <= 0
  BY <1>1, TruncDivides
<1> HIDE DEF q, r
<1>3. Abs(n) <= h /\ Abs(d) <= h /\ (Abs(n) = h => n = -h) /\ (Abs(d) = 1 => d \in {1, -1})
  BY DEF Abs
<1>4. r \in (-h) .. (h - 1)
  BY <1>1, <1>2, <1>3 DEF Abs
<1>5. Abs(q) <= h
  BY <1>1, <1>2, <1>3 DEF Abs
<1>6. q # h
  <2> SUFFICES ASSUME q = h PROVE FALSE
    OBVIOUS
  <2>1. Abs(q) = h /\ q > 0
    BY DEF Abs
  <2>2. Abs(n) = h
    BY <1>1, <1>2, <1>3, <2>1 DEF Abs
  <2>3. n = -h /\ n < 0 /\ d = 1
    BY <1>2, <1>3, <2>1, <2>2
  <2>4. ~((n < 0) = (d < 0))
    BY <2>3
  <2> QED
    BY <1>2, <2>1, <2>4
<1> QED
  BY <1>2, <1>4, <1>5, <1>6 DEF Abs, q, r

\* A quotient and a remainder as the reference has them.
LEMMA DivisionIs ==
  ASSUME NEW n \in Int, NEW d \in Int \ {0}, NEW q \in Int, NEW r \in Int, n = d * q + r,
         Abs(r) < Abs(d), r = 0 \/ (r < 0 <=> n < 0)
  PROVE  Arch!IsQuotient(n, d, q) /\ Arch!IsRemainder(n, d, r)
<1>1. n - q * d = r /\ q * d = d * q /\ q * d \in Int
  BY ProductIs
<1>2. Arch!Abs(r) < Arch!Abs(d) /\ (r = 0 \/ (r < 0) = (n < 0))
  BY DEF Abs, Arch!Abs
<1>3. Arch!IsQuotient(n, d, q)
  BY <1>1, <1>2 DEF Arch!IsQuotient, Arch!IsDivision
<1>4. (n - r) % Arch!Abs(d) = 0
  <2> DEFINE D == Arch!Abs(d)  k == IF d < 0 THEN -q ELSE q
  <2>1. D \in Nat \ {0} /\ d = (IF d < 0 THEN -D ELSE D) /\ k \in Int
    BY DEF Arch!Abs
  <2>2. n - r = d * q
    BY <1>1
  <2> HIDE DEF D
  <2>3. d * q = D * k + 0
    <3>1. CASE d < 0
      <4>1. (-D) * q = D * (-q) + 0
        BY <2>1
      <4> QED
        BY <2>1, <3>1, <4>1
    <3>2. CASE ~(d < 0)
      <4>1. D * q = D * q + 0
        BY <2>1
      <4> QED
        BY <2>1, <3>2, <4>1
    <3> QED
      BY <3>1, <3>2
  <2> HIDE DEF k
  <2>4. (D * k + 0) % D = 0
    BY <2>1, DivModIs
  <2> QED
    BY <2>2, <2>3, <2>4 DEF D
<1> QED
  BY <1>2, <1>3, <1>4 DEF Arch!IsRemainder

-----------------------------------------------------------------------------
(* Every result is that of the architecture.                               *)

\* The reference's conversions are those of the code.
LEMMA ArchIs ==
  ASSUME NEW v, NEW n
  PROVE  /\ Arch!Wrap(v, n) = Wrap(v, n) /\ Arch!Signed(v, n) = Signed(v, n)
         /\ Arch!SignExtend(v, n) = SignExtend(v, n)
BY DEF Arch!Wrap, Arch!Signed, Arch!SignExtend, Arch!X, Wrap, Signed, SignExtend, X

WordOps == {"ADDW", "ADDIW", "SUBW", "SLLW", "SLLIW", "SRLW", "SRLIW", "SRAW", "SRAIW",
            "MULW", "DIVW", "DIVUW", "REMW", "REMUW"}

\* Word operations and the others.
LEMMA WidthIs ==
  ASSUME NEW op
  PROVE  /\ Arch!Width(op) = IF op \in WordOps THEN W ELSE X
         /\ Arch!Width(op) \in {W, X} /\ Arch!Width(op) \in 1 .. X
<1>1. Arch!Width(op) = IF op \in WordOps THEN W ELSE X
  BY DEF Arch!Width, Arch!W, Arch!X, W, X, WordOps
<1> QED
  BY <1>1, WidthsAre

\* What is extended has the form that a result must have, and its low part.
LEMMA Extended ==
  ASSUME NEW e \in Int, NEW n \in {W, X}, NEW v, v = SignExtend(e, n)
  PROVE  /\ v = Arch!SignExtend(Arch!Wrap(v, n), n)
         /\ Arch!Wrap(v, n) = Wrap(e, n) /\ Arch!Signed(v, n) = Signed(e, n)
BY ExtendKeeps, ArchIs

\* A register as wide as the operation is not extended.
LEMMA NotExtended ==
  ASSUME NEW v \in Dword
  PROVE  /\ v \in Int /\ v = SignExtend(v, X) /\ Wrap(v, X) = v
         /\ v = Arch!SignExtend(Arch!Wrap(v, X), X)
         /\ Arch!Wrap(v, X) = v
<1>1. v \in Int
  BY FitsDword
<1> QED
  BY <1>1, WrapExtends, ArchIs

\* Sums, differences, comparisons and logic.
LEMMA SumIsResult ==
  ASSUME NEW op \in {"ADD", "ADDI", "ADDW", "ADDIW"}, NEW x \in Dword, NEW y \in Dword
  PROVE  Arch!IsResult(op, x, y, Arith(op, x, y))
<1> DEFINE n == Arch!Width(op)  v == Arith(op, x, y)
<1>1. n \in {W, X} /\ n \in 1 .. X
  BY WidthIs
<1>2. x \in Int /\ y \in Int /\ x + y \in Int
  BY NotExtended
<1>3. v = SignExtend(x + y, n)
  BY <1>2, WidthIs, WrapExtends DEF Arith, TO_WORD, WordOps
<1> HIDE DEF n, v
<1>4. v = Arch!SignExtend(Arch!Wrap(v, n), n) /\ Arch!Wrap(v, n) = Wrap(x + y, n)
  BY <1>1, <1>2, <1>3, Extended
<1>5. Arch!Wrap(v, n) = Arch!Wrap(Arch!Signed(x, n) + Arch!Signed(y, n), n)
  BY <1>1, <1>2, <1>4, LowPart, ArchIs
<1> QED
  BY <1>4, <1>5, Zenon DEF Arch!IsResult, n, v

LEMMA DifferenceIsResult ==
  ASSUME NEW op \in {"SUB", "SUBW"}, NEW x \in Dword, NEW y \in Dword
  PROVE  Arch!IsResult(op, x, y, Arith(op, x, y))
<1> DEFINE n == Arch!Width(op)  v == Arith(op, x, y)
<1>1. n \in {W, X} /\ n \in 1 .. X
  BY WidthIs
<1>2. x \in Int /\ y \in Int /\ x - y \in Int
  BY NotExtended
<1>3. v = SignExtend(x - y, n)
  BY <1>2, WidthIs, WrapExtends DEF Arith, TO_WORD, WordOps
<1> HIDE DEF n, v
<1>4. v = Arch!SignExtend(Arch!Wrap(v, n), n) /\ Arch!Wrap(v, n) = Wrap(x - y, n)
  BY <1>1, <1>2, <1>3, Extended
<1>5. Arch!Wrap(v, n) = Arch!Wrap(Arch!Signed(x, n) - Arch!Signed(y, n), n)
  BY <1>1, <1>2, <1>4, LowPart, ArchIs
<1> QED
  BY <1>4, <1>5, Zenon DEF Arch!IsResult, n, v

LEMMA ComparisonIsResult ==
  ASSUME NEW op \in {"SLT", "SLTI", "SLTU", "SLTIU"}, NEW x \in Dword, NEW y \in Dword
  PROVE  Arch!IsResult(op, x, y, Arith(op, x, y))
<1> DEFINE n == Arch!Width(op)  v == Arith(op, x, y)
<1>1. n = X
  BY WidthIs DEF WordOps
<1>2. v \in Dword
  BY ArithFits DEF ImmOps, RegOps
<1>3. CASE op \in {"SLT", "SLTI"}
  <2>1. v = IF Arch!Signed(x, n) < Arch!Signed(y, n) THEN 1 ELSE 0
    BY <1>1, <1>3, ArchIs DEF Arith
  <2> HIDE DEF n, v
  <2>2. v = Arch!SignExtend(Arch!Wrap(v, n), n)
    BY <1>1, <1>2, NotExtended
  <2> QED
    BY <1>3, <2>1, <2>2, Zenon DEF Arch!IsResult, n, v
<1>4. CASE op \in {"SLTU", "SLTIU"}
  <2>1. v = IF Arch!Wrap(x, n) < Arch!Wrap(y, n) THEN 1 ELSE 0
    BY <1>1, <1>4, NotExtended DEF Arith
  <2> HIDE DEF n, v
  <2>2. v = Arch!SignExtend(Arch!Wrap(v, n), n)
    BY <1>1, <1>2, NotExtended
  <2> QED
    BY <1>4, <2>1, <2>2, Zenon DEF Arch!IsResult, n, v
<1> QED
  BY <1>3, <1>4

LEMMA BitwiseIsResult ==
  ASSUME NEW op \in {"XOR", "XORI", "OR", "ORI", "AND", "ANDI"}, NEW x \in Dword, NEW y \in Dword
  PROVE  Arch!IsResult(op, x, y, Arith(op, x, y))
<1> DEFINE n == Arch!Width(op)  v == Arith(op, x, y)  a == Arch!Wrap(x, n)  b == Arch!Wrap(y, n)
<1>1. n = X
  BY WidthIs DEF WordOps
<1>2. v \in Dword
  BY ArithFits DEF ImmOps, RegOps
<1>3. a = x /\ b = y /\ a \in Int /\ b \in Int
  BY <1>1, NotExtended
<1>4. v = Arch!SignExtend(Arch!Wrap(v, n), n)
  <2> HIDE DEF n, v
  <2> QED
    BY <1>1, <1>2, NotExtended
<1>5. ASSUME NEW i \in 0 .. n - 1
      PROVE  LET p == Arch!Bit(a, i)
                 q == Arch!Bit(b, i)
             IN  /\ Arch!Bit(XorBits(x, y), i) = IF p = q THEN 0 ELSE 1
                 /\ Arch!Bit(OrBits(x, y), i) = IF 1 \in {p, q} THEN 1 ELSE 0
                 /\ Arch!Bit(AndBits(x, y), i) = p * q
  <2> HIDE DEF a, b, n
  <2>1. i \in 0 .. X - 1
    BY <1>1
  <2> QED
    BY <1>3, <2>1, LogicBits
<1>6. CASE op \in {"XOR", "XORI"}
  <2>1. v = XorBits(x, y)
    BY <1>6 DEF Arith
  <2>2. \A i \in 0 .. n - 1 : Arch!Bit(v, i) = IF Arch!Bit(a, i) = Arch!Bit(b, i) THEN 0 ELSE 1
    <3> HIDE DEF v, a, b, n
    <3> QED
      BY <1>5, <2>1
  <2> QED
    BY <1>4, <1>6, <2>2, Zenon DEF Arch!IsResult
<1>7. CASE op \in {"OR", "ORI"}
  <2>1. v = OrBits(x, y)
    BY <1>7 DEF Arith
  <2>2. \A i \in 0 .. n - 1 : Arch!Bit(v, i) = 1 <=> 1 \in {Arch!Bit(a, i), Arch!Bit(b, i)}
    <3> HIDE DEF v, a, b, n
    <3> QED
      BY <1>5, <2>1
  <2> QED
    BY <1>4, <1>7, <2>2, Zenon DEF Arch!IsResult
<1>8. CASE op \in {"AND", "ANDI"}
  <2>1. v = AndBits(x, y)
    BY <1>8 DEF Arith
  <2>2. \A i \in 0 .. n - 1 : Arch!Bit(v, i) = Arch!Bit(a, i) * Arch!Bit(b, i)
    <3> HIDE DEF v, a, b, n
    <3> QED
      BY <1>5, <2>1
  <2> QED
    BY <1>4, <1>8, <2>2, Zenon DEF Arch!IsResult
<1> QED
  BY <1>6, <1>7, <1>8

\* The host takes as many bits of the count as the operand needs.
LEMMA CountIs ==
  ASSUME NEW y \in Dword, NEW n \in {W, X}
  PROVE  /\ y % n \in 0 .. n - 1 /\ 2^(y % n) \in Nat \ {0}
         /\ (y % X) % W = y % W
<1>1. y \in Int /\ n \in Nat \ {0} /\ W \in Nat \ {0} /\ X \in Nat \ {0} /\ X = W * 2 /\ n <= X
  BY NotExtended, WidthsAre
<1>2. y % n \in 0 .. n - 1
  BY <1>1
<1>3. Cong(y % X, y, W)
  <2>1. Cong(y % X, y, X)
    BY <1>1, CongSelf
  <2>2. y % X \in Int
    BY <1>1
  <2> QED
    BY <1>1, <2>1, <2>2, CongFactor
<1>4. (y % X) % W = y % W
  <2>1. y % X \in Int
    BY <1>1
  <2> QED
    BY <1>1, <1>3, <2>1, CongMod
<1>5. y % n \in 0 .. X
  BY <1>1, <1>2
<1> QED
  BY <1>2, <1>4, <1>5, PowerIs

\* The three shifts.
LEMMA ShiftLeftIsResult ==
  ASSUME NEW op \in {"SLL", "SLLI", "SLLW", "SLLIW"}, NEW x \in Dword, NEW y \in Dword
  PROVE  Arch!IsResult(op, x, y, Arith(op, x, y))
<1> DEFINE n == Arch!Width(op)  v == Arith(op, x, y)  a == Arch!Wrap(x, n)  sh == y % n
           e == a * 2^sh
<1>1. n \in {W, X} /\ n \in 1 .. X /\ sh \in 0 .. n - 1 /\ 2^sh \in Int
  BY WidthIs, CountIs
<1>2. a \in Int /\ a = Wrap(x, n)
  BY <1>1, NotExtended, ArchIs, HalfIs, WrapIs
<1>3. e \in Int
  BY <1>1, <1>2, ProductIs
<1>4. v = SignExtend(e, n)
  <2>1. CASE op \in {"SLL", "SLLI"}
    <3>1. n = X /\ a = x
      BY <1>2, <2>1, WidthIs, NotExtended DEF WordOps
    <3>2. v = Wrap(x * 2^(y % X), X)
      BY <2>1 DEF Arith
    <3> HIDE DEF n, v, a
    <3>3. v = Wrap(e, n)
      BY <3>1, <3>2
    <3> HIDE DEF e
    <3> QED
      BY <1>3, <3>1, <3>3, WrapExtends
  <2>2. CASE op \in {"SLLW", "SLLIW"}
    <3>1. n = W
      BY <2>2, WidthIs DEF WordOps
    <3>2. v = SignExtend(Wrap(x, W) * 2^(y % W), W)
      BY <2>2 DEF Arith, TO_WORD
    <3> HIDE DEF n, v, a
    <3> QED
      BY <1>2, <3>1, <3>2
  <2> QED
    BY <2>1, <2>2
<1>5. ASSUME NEW i \in 0 .. n - 1
      PROVE  Arch!Bit(Wrap(e, n), i) = IF i < sh THEN 0 ELSE Arch!Bit(a, i - sh)
  <2> HIDE DEF n, a, sh
  <2> QED
    BY <1>1, <1>2, LeftBits
<1>6. v = Arch!SignExtend(Arch!Wrap(v, n), n) /\ Arch!Wrap(v, n) = Wrap(e, n)
  <2> HIDE DEF n, v, e
  <2> QED
    BY <1>1, <1>3, <1>4, Extended
<1>7. \A i \in 0 .. n - 1 :
        Arch!Bit(Arch!Wrap(v, n), i) = IF i < sh THEN 0 ELSE Arch!Bit(a, i - sh)
  <2> HIDE DEF n, v, e, a, sh
  <2> QED
    BY <1>5, <1>6
<1> QED
  BY <1>6, <1>7, Zenon DEF Arch!IsResult

LEMMA ShiftRightIsResult ==
  ASSUME NEW op \in {"SRL", "SRLI", "SRLW", "SRLIW"}, NEW x \in Dword, NEW y \in Dword
  PROVE  Arch!IsResult(op, x, y, Arith(op, x, y))
<1> DEFINE n == Arch!Width(op)  v == Arith(op, x, y)  a == Arch!Wrap(x, n)  sh == y % n
           e == a \div 2^sh
<1>1. n \in {W, X} /\ n \in 1 .. X /\ sh \in 0 .. n - 1 /\ 2^sh \in Nat \ {0}
  BY WidthIs, CountIs
<1>2. a \in 0 .. 2^n - 1 /\ a \in Nat /\ a = Wrap(x, n)
  BY <1>1, NotExtended, ArchIs, HalfIs, WrapIs
<1>3. e \in Int
  BY <1>1, <1>2, QuotientIs
<1>4. v = SignExtend(e, n)
  <2>1. CASE op \in {"SRL", "SRLI"}
    <3>1. n = X /\ a = x
      BY <1>2, <2>1, WidthIs, NotExtended DEF WordOps
    <3>2. v = x \div 2^(y % X)
      BY <2>1 DEF Arith
    <3>3. v \in Dword
      BY ArithFits DEF ImmOps, RegOps
    <3> HIDE DEF n, v, a
    <3>4. v = e
      BY <3>1, <3>2
    <3> QED
      BY <3>1, <3>3, <3>4, NotExtended
  <2>2. CASE op \in {"SRLW", "SRLIW"}
    <3>1. n = W
      BY <2>2, WidthIs DEF WordOps
    <3>2. v = SignExtend(Wrap(x, W) \div 2^(y % W), W)
      BY <2>2 DEF Arith, TO_WORD
    <3> HIDE DEF n, v, a
    <3> QED
      BY <1>2, <3>1, <3>2
  <2> QED
    BY <2>1, <2>2
<1>5. ASSUME NEW i \in 0 .. n - 1
      PROVE  Arch!Bit(Wrap(e, n), i) = IF i + sh < n THEN Arch!Bit(a, i + sh) ELSE 0
  <2> HIDE DEF n, a, sh
  <2> QED
    BY <1>1, <1>2, RightBits
<1>6. v = Arch!SignExtend(Arch!Wrap(v, n), n) /\ Arch!Wrap(v, n) = Wrap(e, n)
  <2> HIDE DEF n, v, e
  <2> QED
    BY <1>1, <1>3, <1>4, Extended
<1>7. \A i \in 0 .. n - 1 :
        Arch!Bit(Arch!Wrap(v, n), i) = IF i + sh < n THEN Arch!Bit(a, i + sh) ELSE 0
  <2> HIDE DEF n, v, e, a, sh
  <2> QED
    BY <1>5, <1>6
<1> QED
  BY <1>6, <1>7, Zenon DEF Arch!IsResult

LEMMA ShiftSignedIsResult ==
  ASSUME NEW op \in {"SRA", "SRAI", "SRAW", "SRAIW"}, NEW x \in Dword, NEW y \in Dword
  PROVE  Arch!IsResult(op, x, y, Arith(op, x, y))
<1> DEFINE n == Arch!Width(op)  v == Arith(op, x, y)  a == Arch!Wrap(x, n)  sh == y % n
           e == Signed(x, n) \div 2^sh
<1>1. n \in {W, X} /\ n \in 1 .. X /\ sh \in 0 .. n - 1 /\ 2^sh \in Nat \ {0} /\ x \in Int
  BY WidthIs, CountIs, NotExtended
<1>2. a = Wrap(x, n)
  BY ArchIs
<1>3. e \in Int
  BY <1>1, SignedIs, QuotientIs
<1>4. /\ e \in (-(2^(n - 1))) .. (2^(n - 1) - 1)
      /\ \A i \in 0 .. n - 1 :
           Arch!Bit(Wrap(e, n), i) = Arch!Bit(a, IF i + sh < n THEN i + sh ELSE n - 1)
  <2> HIDE DEF n, a, sh
  <2> QED
    BY <1>1, <1>2, SignedRightBits
<1>5. v = Wrap(e, X)
  <2>1. CASE op \in {"SRA", "SRAI"}
    BY <2>1, WidthIs DEF Arith, WordOps
  <2>2. CASE op \in {"SRAW", "SRAIW"}
    <3>1. n = W
      BY <2>2, WidthIs DEF WordOps
    <3>2. v = Wrap(Signed(x, W) \div 2^((y % X) % W), X)
      BY <2>2 DEF Arith
    <3>3. (y % X) % W = sh
      BY <3>1, CountIs
    <3> HIDE DEF n, v, sh
    <3> QED
      BY <3>1, <3>2, <3>3
  <2> QED
    BY <2>1, <2>2
<1>6. v = SignExtend(e, n)
  <2> HIDE DEF n, v, e
  <2> QED
    BY <1>1, <1>4, <1>5, SmallExtends
<1>7. v = Arch!SignExtend(Arch!Wrap(v, n), n) /\ Arch!Wrap(v, n) = Wrap(e, n)
  <2> HIDE DEF n, v, e
  <2> QED
    BY <1>1, <1>3, <1>6, Extended
<1>8. \A i \in 0 .. n - 1 :
        Arch!Bit(Arch!Wrap(v, n), i) = Arch!Bit(a, IF i + sh < n THEN i + sh ELSE n - 1)
  <2> HIDE DEF n, v, e, a, sh
  <2> QED
    BY <1>4, <1>7
<1> QED
  BY <1>7, <1>8, Zenon DEF Arch!IsResult

\* A register that is not negative as a signed number is that number.
LEMMA PositiveIs ==
  ASSUME NEW x \in Dword, ~(Signed(x, X) < 0)
  PROVE  Signed(x, X) = x
<1>1. Wrap(x, X) = x /\ x \in 0 .. 2^X - 1 /\ 2^X \in Nat
  BY NotExtended, HalfIs, WidthsAre DEF Dword
<1> QED
  BY <1>1 DEF Signed

\* The low products.
LEMMA ProductIsResult ==
  ASSUME NEW op \in {"MUL", "MULW"}, NEW x \in Dword, NEW y \in Dword
  PROVE  Arch!IsResult(op, x, y, Multiply(op, x, y))
<1> DEFINE n == Arch!Width(op)  v == Multiply(op, x, y)  e == Signed(x, n) * Signed(y, n)
<1>1. n \in {W, X} /\ n \in 1 .. X
  BY WidthIs
<1>2. e \in Int
  BY <1>1, NotExtended, SignedIs, ProductIs
<1>3. v = SignExtend(e, n)
  <2>1. CASE op = "MUL"
    <3>1. n = X /\ v = Wrap(Signed(x, X) * Signed(y, X), X)
      BY <2>1, WidthIs DEF Multiply, WordOps
    <3> HIDE DEF n, v
    <3>2. v = Wrap(e, X)
      BY <3>1
    <3> HIDE DEF e
    <3> QED
      BY <1>2, <3>1, <3>2, WrapExtends
  <2>2. CASE op = "MULW"
    <3>1. n = W /\ v = SignExtend(Signed(x, W) * Signed(y, W), W)
      BY <2>2, WidthIs DEF Multiply, TO_WORD, WordOps
    <3> HIDE DEF n, v
    <3> QED
      BY <3>1
  <2> QED
    BY <2>1, <2>2
<1>4. v = Arch!SignExtend(Arch!Wrap(v, n), n) /\ Arch!Wrap(v, n) = Wrap(e, n)
  <2> HIDE DEF n, v, e
  <2> QED
    BY <1>1, <1>2, <1>3, Extended
<1>5. Arch!Wrap(v, n) = Arch!Wrap(Arch!Signed(x, n) * Arch!Signed(y, n), n)
  <2> HIDE DEF n, v
  <2> QED
    BY <1>4, ArchIs
<1> QED
  BY <1>4, <1>5, Zenon DEF Arch!IsResult

\* The high products, of numbers that are not negative where they are signed.
LEMMA HighProductIsResult ==
  ASSUME NEW op \in {"MULH", "MULHSU", "MULHU"}, NEW x \in Dword, NEW y \in Dword,
         op # "MULHU" => ~(Signed(x, X) < 0),
         op = "MULH" => ~(Signed(y, X) < 0)
  PROVE  Arch!IsResult(op, x, y, Multiply(op, x, y))
<1> DEFINE n == Arch!Width(op)  v == Multiply(op, x, y)
<1>1. n = X /\ Arch!X = X
  BY WidthIs DEF WordOps, Arch!X, X
<1>2. v \in Dword /\ v = (x * y) \div 2^X
  BY MultiplyFits DEF Multiply
<1>3. Arch!Wrap(x, n) = x /\ Arch!Wrap(y, n) = y /\ Arch!Wrap(v, Arch!X) = v
  <2> HIDE DEF v
  <2> QED
    BY <1>1, <1>2, NotExtended
<1>4. v = Arch!SignExtend(Arch!Wrap(v, n), n)
  <2> HIDE DEF n, v
  <2> QED
    BY <1>1, <1>2, NotExtended
<1>5. CASE op = "MULHU"
  <2>1. v = (Arch!Wrap(x, n) * Arch!Wrap(y, n)) \div 2^Arch!X
    <3> HIDE DEF n, v
    <3> QED
      BY <1>1, <1>2, <1>3
  <2> QED
    BY <1>4, <1>5, <2>1, Zenon DEF Arch!IsResult
<1>6. CASE op # "MULHU"
  <2>1. Arch!Signed(x, n) = x /\ (op = "MULH" => Arch!Signed(y, n) = y)
    <3> HIDE DEF n
    <3> QED
      BY <1>1, <1>6, PositiveIs, ArchIs
  <2>2. CASE op = "MULH"
    <3>1. v = Arch!Wrap((Arch!Signed(x, n) * Arch!Signed(y, n)) \div 2^Arch!X, Arch!X)
      <4>1. Arch!Wrap((x * y) \div 2^X, Arch!X) = v
        BY <1>2, <1>3, Zenon
      <4> HIDE DEF n, v
      <4> QED
        BY <1>1, <2>1, <2>2, <4>1
    <3> QED
      BY <1>4, <2>2, <3>1, Zenon DEF Arch!IsResult
  <2>3. CASE op = "MULHSU"
    <3>1. v = Arch!Wrap((Arch!Signed(x, n) * Arch!Wrap(y, n)) \div 2^Arch!X, Arch!X)
      <4>1. Arch!Wrap((x * y) \div 2^X, Arch!X) = v
        BY <1>2, <1>3, Zenon
      <4> HIDE DEF n, v
      <4> QED
        BY <1>1, <1>3, <2>1, <4>1
    <3> QED
      BY <1>4, <2>3, <3>1, Zenon DEF Arch!IsResult
  <2> QED
    BY <1>6, <2>2, <2>3
<1> QED
  BY <1>5, <1>6

\* The signed operands of a division.
LEMMA OperandsAre ==
  ASSUME NEW a \in Dword, NEW n \in {W, X}
  PROVE  /\ n \in 1 .. X /\ 2^n \in Nat \ {0} /\ 2^(n - 1) \in Nat \ {0} /\ 2^n = 2 * 2^(n - 1)
         /\ a \in Int /\ Wrap(a, n) \in 0 .. 2^n - 1
         /\ Signed(a, n) \in (-(2^(n - 1))) .. (2^(n - 1) - 1)
         /\ Wrap(a, n) = 0 <=> Signed(a, n) = 0
         /\ Wrap(a, n) = MostNegative(n) <=> Signed(a, n) = -(2^(n - 1))
<1> DEFINE p == 2^n  h == 2^(n - 1)  u == Wrap(a, n)
<1>1. n \in 1 .. X /\ a \in Int
  BY WidthsAre, NotExtended
<1>2. p \in Nat \ {0} /\ h \in Nat \ {0} /\ p = 2 * h /\ u \in 0 .. p - 1
  BY <1>1, HalfIs, WrapIs
<1>3. Signed(a, n) = (IF u < h THEN u ELSE u - p) /\ MostNegative(n) = h
  BY DEF Signed, MostNegative
<1> HIDE DEF p, h, u
<1>4. /\ Signed(a, n) \in (-h) .. (h - 1)
      /\ u = 0 <=> Signed(a, n) = 0
      /\ u = MostNegative(n) <=> Signed(a, n) = -h
  BY <1>2, <1>3
<1> QED
  BY <1>1, <1>2, <1>4 DEF p, h, u

\* What a division by zero yields: all ones.
LEMMA MinusOneIs ==
  ASSUME NEW n \in {W, X}
  PROVE  /\ 2^X - 1 = SignExtend(-1, n) /\ Signed(-1, n) = -1
         /\ 2^X - 1 \in Dword
<1>1. n \in 1 .. X /\ X \in 1 .. X
  BY WidthsAre
<1>2. 2^X \in Nat \ {0} /\ 2^(n - 1) \in Nat \ {0}
  BY <1>1, HalfIs
<1>3. -1 \in (-(2^(n - 1))) .. (2^(n - 1) - 1)
  BY <1>2
<1>4. Signed(-1, n) = -1 /\ SignExtend(-1, n) = Wrap(-1, X)
  BY <1>3, SmallExtends
<1>5. Wrap(-1, X) = 2^X - 1
  <2> DEFINE p == 2^X
  <2> HIDE DEF p
  <2>1. p \in Nat \ {0}
    BY <1>2 DEF p
  <2>2. PICK q \in Int : q = -1
    OBVIOUS
  <2>3. p * q + (p - 1) = q /\ p - 1 \in 0 .. p - 1
    BY <2>1, <2>2
  <2>4. (p * q + (p - 1)) % p = p - 1
    BY <2>1, <2>3, DivModIs
  <2>5. q % p = p - 1
    BY <2>3, <2>4
  <2> QED
    BY <2>2, <2>5 DEF Wrap, p
<1> QED
  BY <1>2, <1>4, <1>5 DEF Dword

\* Signed quotients; by zero and of the most negative number by -1 as well.
LEMMA QuotientIsResult ==
  ASSUME NEW op \in {"DIV", "DIVW"}, NEW x \in Dword, NEW y \in Dword
  PROVE  Arch!IsResult(op, x, y, Divide(op, x, y))
<1> DEFINE n == Arch!Width(op)  v == Divide(op, x, y)  h == 2^(n - 1)
           sa == Signed(x, n)  sb == Signed(y, n)
<1>1. n \in {W, X}
  BY WidthIs
<1>2. v = DivSigned(x, y, n)
  BY WidthIs DEF Divide, WordOps
<1>3. /\ n \in 1 .. X /\ h \in Nat \ {0} /\ x \in Int /\ y \in Int
      /\ sa \in (-h) .. (h - 1) /\ sb \in (-h) .. (h - 1)
      /\ Wrap(y, n) = 0 <=> sb = 0
      /\ Wrap(x, n) = MostNegative(n) <=> sa = -h
  <2> HIDE DEF n
  <2> QED
    BY <1>1, OperandsAre
<1> HIDE DEF n, v
<1>4. \E e \in Int, q \in {Signed(v, n), h} :
        v = SignExtend(e, n) /\ Wrap(e, n) = Wrap(q, n) /\ Arch!IsQuotient(sa, sb, q)
  <2>1. CASE sb = 0
    <3>1. v = 2^X - 1
      BY <1>2, <1>3, <2>1 DEF DivSigned
    <3>2. v = SignExtend(-1, n) /\ Signed(-1, n) = -1
      BY <1>1, <3>1, MinusOneIs
    <3>3. Signed(v, n) = -1 /\ -1 \in Int
      BY <1>1, <3>2, ExtendKeeps
    <3>4. Arch!IsQuotient(sa, sb, -1)
      BY <2>1 DEF Arch!IsQuotient
    <3> QED
      BY <3>2, <3>3, <3>4
  <2>2. CASE sb # 0 /\ sb = -1 /\ sa = -h
    <3>1. v = SignExtend(x, n) /\ Wrap(x, n) = h
      BY <1>2, <1>3, <2>2 DEF DivSigned, MostNegative
    <3>2. Wrap(h, n) = Wrap(x, n)
      <4>1. Wrap(sa, n) = Wrap(x, n)
        BY <1>3, LowPart
      <4>2. Cong(h, -h, 2^n) /\ 2^n \in Nat \ {0} /\ h \in Int /\ -h \in Int
        <5>1. 2^n = 2 * h /\ 2^n \in Nat \ {0}
          BY <1>3, HalfIs
        <5>2. h = -h + 2^n * 1
          BY <1>3, <5>1
        <5> QED
          BY <1>3, <5>1, <5>2 DEF Cong
      <4>3. Wrap(h, n) = Wrap(-h, n)
        BY <4>2, CongMod DEF Wrap
      <4> QED
        BY <2>2, <4>1, <4>3
    <3>3. Arch!IsQuotient(sa, sb, h)
      <4> HIDE DEF sa, sb, h
      <4>1. sa = sb * h + 0 /\ h \in Int /\ 0 \in Int /\ Abs(0) < Abs(sb)
        BY <1>3, <2>2 DEF Abs
      <4>2. sa \in Int /\ sb \in Int \ {0}
        BY <1>3, <2>2
      <4> QED
        BY <4>1, <4>2, DivisionIs
    <3> QED
      BY <1>3, <3>1, <3>2, <3>3
  <2>3. CASE sb # 0 /\ ~(sb = -1 /\ sa = -h)
    <3> DEFINE q == Trunc(sa, sb)
    <3>1. v = SignExtend(q, n)
      BY <1>2, <1>3, <2>3 DEF DivSigned
    <3> HIDE DEF sa, sb
    <3>2. sa \in Int /\ sb \in Int \ {0}
      BY <1>3, <2>3
    <3>3. q \in Int /\ Arch!IsQuotient(sa, sb, q)
      BY <3>2, TruncDivides, DivisionIs
    <3>4. q \in (-h) .. (h - 1)
      BY <1>3, <2>3, QuotientRange
    <3> HIDE DEF q
    <3>5. Signed(q, n) = q
      BY <1>1, <3>4, SmallExtends
    <3>6. Signed(v, n) = q
      BY <1>1, <3>1, <3>3, <3>5, ExtendKeeps
    <3> QED
      BY <3>1, <3>3, <3>6 DEF sa, sb
  <2> QED
    BY <2>1, <2>2, <2>3
<1>5. PICK e \in Int, q \in {Signed(v, n), h} :
        v = SignExtend(e, n) /\ Wrap(e, n) = Wrap(q, n) /\ Arch!IsQuotient(sa, sb, q)
  BY <1>4
<1>6. v = Arch!SignExtend(Arch!Wrap(v, n), n) /\ Arch!Wrap(v, n) = Wrap(e, n)
  BY <1>1, <1>5, Extended
<1>7. \E k \in {Arch!Signed(v, n), 2^(n - 1)} :
        /\ Arch!Wrap(v, n) = Arch!Wrap(k, n)
        /\ Arch!IsQuotient(Arch!Signed(x, n), Arch!Signed(y, n), k)
  BY <1>5, <1>6, ArchIs
<1> QED
  BY <1>6, <1>7, Zenon DEF Arch!IsResult, n, v

\* Signed remainders, with the same special cases.
LEMMA RemainderIsResult ==
  ASSUME NEW op \in {"REM", "REMW"}, NEW x \in Dword, NEW y \in Dword
  PROVE  Arch!IsResult(op, x, y, Divide(op, x, y))
<1> DEFINE n == Arch!Width(op)  v == Divide(op, x, y)  h == 2^(n - 1)
           sa == Signed(x, n)  sb == Signed(y, n)
<1>1. n \in {W, X}
  BY WidthIs
<1>2. v = RemSigned(x, y, n)
  BY WidthIs DEF Divide, WordOps
<1>3. /\ n \in 1 .. X /\ h \in Nat \ {0} /\ x \in Int /\ y \in Int
      /\ sa \in (-h) .. (h - 1) /\ sb \in (-h) .. (h - 1)
      /\ Wrap(y, n) = 0 <=> sb = 0
      /\ Wrap(x, n) = MostNegative(n) <=> sa = -h
  <2> HIDE DEF n
  <2> QED
    BY <1>1, OperandsAre
<1> HIDE DEF n, v
<1>4. \E e \in Int : v = SignExtend(e, n) /\ Arch!IsRemainder(sa, sb, Signed(e, n))
  <2>1. CASE sb = 0
    <3>1. v = SignExtend(x, n)
      BY <1>2, <1>3, <2>1 DEF RemSigned
    <3>2. Arch!IsRemainder(sa, sb, Signed(x, n))
      BY <2>1 DEF Arch!IsRemainder
    <3> QED
      BY <1>3, <3>1, <3>2
  <2>2. CASE sb # 0 /\ sb = -1 /\ sa = -h
    <3>1. v = 0
      BY <1>2, <1>3, <2>2 DEF RemSigned
    <3>2. Signed(0, n) = 0 /\ v = SignExtend(0, n)
      <4>1. 0 \in (-h) .. (h - 1)
        BY <1>3
      <4>2. Signed(0, n) = 0 /\ SignExtend(0, n) = Wrap(0, X)
        BY <1>1, <4>1, SmallExtends
      <4>3. Wrap(0, X) = 0
        BY FitsDword, WrapExtends
      <4> QED
        BY <3>1, <4>2, <4>3
    <3>3. Arch!IsRemainder(sa, sb, 0)
      <4> HIDE DEF sa, sb, h
      <4>1. sa = sb * h + 0 /\ h \in Int /\ 0 \in Int /\ Abs(0) < Abs(sb)
        BY <1>3, <2>2 DEF Abs
      <4>2. sa \in Int /\ sb \in Int \ {0}
        BY <1>3, <2>2
      <4> QED
        BY <4>1, <4>2, DivisionIs
    <3> QED
      BY <3>2, <3>3
  <2>3. CASE sb # 0 /\ ~(sb = -1 /\ sa = -h)
    <3> DEFINE r == Rest(sa, sb)
    <3>1. v = SignExtend(r, n)
      BY <1>2, <1>3, <2>3 DEF RemSigned
    <3> HIDE DEF sa, sb
    <3>2. sa \in Int /\ sb \in Int \ {0}
      BY <1>3, <2>3
    <3>3. r \in Int /\ Arch!IsRemainder(sa, sb, r)
      BY <3>2, TruncDivides, DivisionIs
    <3>4. r \in (-h) .. (h - 1)
      BY <1>3, <2>3, QuotientRange
    <3> HIDE DEF r
    <3>5. Signed(r, n) = r
      BY <1>1, <3>4, SmallExtends
    <3> QED
      BY <3>1, <3>3, <3>5 DEF sa, sb
  <2> QED
    BY <2>1, <2>2, <2>3
<1>5. PICK e \in Int : v = SignExtend(e, n) /\ Arch!IsRemainder(sa, sb, Signed(e, n))
  BY <1>4
<1>6. v = Arch!SignExtend(Arch!Wrap(v, n), n) /\ Arch!Signed(v, n) = Signed(e, n)
  BY <1>1, <1>5, Extended
<1>7. Arch!IsRemainder(Arch!Signed(x, n), Arch!Signed(y, n), Arch!Signed(v, n))
  BY <1>5, <1>6, ArchIs
<1> QED
  BY <1>6, <1>7, Zenon DEF Arch!IsResult, n, v

\* The unsigned forms; the word forms of a division by zero deviate.
LEMMA UnsignedIs ==
  ASSUME NEW x \in Dword, NEW y \in Dword, NEW n \in {W, X}, Wrap(y, n) # 0
  PROVE  LET a == Wrap(x, n)
             b == Wrap(y, n)
         IN  /\ a \div b \in 0 .. 2^n - 1 /\ a % b \in 0 .. 2^n - 1
             /\ Arch!IsQuotient(a, b, a \div b) /\ Arch!IsRemainder(a, b, a % b)
<1> DEFINE a == Wrap(x, n)  b == Wrap(y, n)  q == a \div b  r == a % b  p == 2^n
<1>1. a \in 0 .. p - 1 /\ b \in 0 .. p - 1 /\ b # 0 /\ p \in Nat
  BY OperandsAre
<1> HIDE DEF a, b, p
<1>2. a \in Nat /\ b \in Nat \ {0}
  BY <1>1
<1>3. q \in 0 .. a /\ r \in 0 .. a /\ r \in 0 .. b - 1 /\ a = b * q + r
  BY <1>2, DivisionShrinks
<1> HIDE DEF q, r
<1>4. q \in Int /\ r \in Int /\ Abs(r) < Abs(b) /\ (r = 0 \/ (r < 0 <=> a < 0))
  BY <1>2, <1>3 DEF Abs
<1>5. Arch!IsQuotient(a, b, q) /\ Arch!IsRemainder(a, b, r)
  <2>1. a \in Int /\ b \in Int \ {0}
    BY <1>2
  <2> QED
    BY <1>3, <1>4, <2>1, DivisionIs, Zenon
<1>6. q \in 0 .. p - 1 /\ r \in 0 .. p - 1
  BY <1>1, <1>3
<1> QED
  BY <1>5, <1>6 DEF a, b, q, r, p

LEMMA UnsignedIsResult ==
  ASSUME NEW op \in {"DIVU", "DIVUW", "REMU", "REMUW"}, NEW x \in Dword, NEW y \in Dword,
         op \in {"DIVUW", "REMUW"} => Wrap(y, W) # 0
  PROVE  Arch!IsResult(op, x, y, Divide(op, x, y))
<1> DEFINE n == Arch!Width(op)  v == Divide(op, x, y)
           a == Arch!Wrap(x, n)  b == Arch!Wrap(y, n)
<1>1. n \in {W, X} /\ a = Wrap(x, n) /\ b = Wrap(y, n)
  BY WidthIs, ArchIs
<1>2. v = IF op \in {"DIVU", "DIVUW"} THEN DivUnsigned(x, y, n) ELSE RemUnsigned(x, y, n)
  BY WidthIs DEF Divide, WordOps
<1>3. op \in {"DIVUW", "REMUW"} => n = W
  BY WidthIs DEF WordOps
<1>4. op \in {"DIVU", "REMU"} => n = X
  BY WidthIs DEF WordOps
<1> HIDE DEF n, v, a, b
<1>5. /\ n \in 1 .. X /\ n \in 0 .. X /\ 2^n \in Nat \ {0}
      /\ \A e \in 0 .. 2^n - 1 : Wrap(e, n) = e /\ e \in Int
  <2>1. n \in 1 .. X /\ n \in 0 .. X
    BY <1>1, WidthsAre
  <2> DEFINE p == 2^n
  <2>2. p \in Nat \ {0}
    BY <2>1, PowerIs
  <2> HIDE DEF p
  <2>3. \A e \in 0 .. p - 1 : e % p = e /\ e \in Int
    BY <2>2
  <2> QED
    BY <2>1, <2>2, <2>3 DEF Wrap, p
<1>6. CASE b = 0
  <2>1. n = X /\ op \in {"DIVU", "REMU"}
    BY <1>1, <1>3, <1>4, <1>6
  <2>2. v \in Dword /\ v = IF op = "DIVU" THEN 2^n - 1 ELSE a
    <3>1. v = IF op = "DIVU" THEN 2^n - 1 ELSE a
      BY <1>1, <1>2, <1>6, <2>1 DEF DivUnsigned, RemUnsigned
    <3>2. v \in Dword
      BY DivideFits DEF v
    <3> QED
      BY <3>1, <3>2
  <2>3. v = Arch!SignExtend(Arch!Wrap(v, n), n) /\ Arch!Wrap(v, n) = v
    BY <2>1, <2>2, NotExtended
  <2>4. CASE op = "DIVU"
    <3>1. IF b = 0 THEN Arch!Wrap(v, n) = 2^n - 1 ELSE Arch!IsQuotient(a, b, Arch!Wrap(v, n))
      BY <1>6, <2>2, <2>3, <2>4
    <3> QED
      BY <2>3, <2>4, <3>1, Zenon DEF Arch!IsResult, n, v, a, b
  <2>5. CASE op = "REMU"
    <3>1. Arch!IsRemainder(a, b, Arch!Wrap(v, n))
      BY <1>6, <2>2, <2>3, <2>5 DEF Arch!IsRemainder
    <3> QED
      BY <2>3, <2>5, <3>1, Zenon DEF Arch!IsResult, n, v, a, b
  <2> QED
    BY <2>1, <2>4, <2>5
<1>7. CASE b # 0
  <2> DEFINE e == IF op \in {"DIVU", "DIVUW"} THEN a \div b ELSE a % b
  <2>1. /\ a \div b \in 0 .. 2^n - 1 /\ a % b \in 0 .. 2^n - 1
        /\ Arch!IsQuotient(a, b, a \div b) /\ Arch!IsRemainder(a, b, a % b)
    BY <1>1, <1>7, UnsignedIs
  <2>2. v = SignExtend(e, n) /\ e \in 0 .. 2^n - 1
    BY <1>1, <1>2, <1>7, <2>1 DEF DivUnsigned, RemUnsigned
  <2>3. v = Arch!SignExtend(Arch!Wrap(v, n), n) /\ Arch!Wrap(v, n) = e
    <3> HIDE DEF e
    <3> QED
      BY <1>1, <1>5, <2>2, Extended
  <2>4. CASE op \in {"DIVU", "DIVUW"}
    <3>1. IF b = 0 THEN Arch!Wrap(v, n) = 2^n - 1 ELSE Arch!IsQuotient(a, b, Arch!Wrap(v, n))
      BY <1>7, <2>1, <2>3, <2>4
    <3> QED
      BY <2>3, <2>4, <3>1, Zenon DEF Arch!IsResult, n, v, a, b
  <2>5. CASE op \in {"REMU", "REMUW"}
    <3>1. Arch!IsRemainder(a, b, Arch!Wrap(v, n))
      BY <2>1, <2>3, <2>5
    <3> QED
      BY <2>3, <2>5, <3>1, Zenon DEF Arch!IsResult, n, v, a, b
  <2> QED
    BY <2>4, <2>5
<1> QED
  BY <1>6, <1>7

-----------------------------------------------------------------------------
(* Instructions.                                                           *)

\* All the instructions that Arith and the multiplication and division compute.
LEMMA ArithIsResult ==
  ASSUME NEW op \in ImmOps \cup RegOps, NEW x \in Dword, NEW y \in Dword
  PROVE  Arch!IsResult(op, x, y, Arith(op, x, y))
<1>1. \/ op \in {"ADD", "ADDI", "ADDW", "ADDIW"} \/ op \in {"SUB", "SUBW"}
      \/ op \in {"SLT", "SLTI", "SLTU", "SLTIU"}
      \/ op \in {"XOR", "XORI", "OR", "ORI", "AND", "ANDI"}
      \/ op \in {"SLL", "SLLI", "SLLW", "SLLIW"} \/ op \in {"SRL", "SRLI", "SRLW", "SRLIW"}
      \/ op \in {"SRA", "SRAI", "SRAW", "SRAIW"}
  BY DEF ImmOps, RegOps
<1> QED
  BY <1>1, SumIsResult, DifferenceIsResult, ComparisonIsResult, BitwiseIsResult,
     ShiftLeftIsResult, ShiftRightIsResult, ShiftSignedIsResult

LEMMA MulDivIsResult ==
  ASSUME NEW op \in MulDivOps, NEW x \in Dword, NEW y \in Dword,
         op \in {"MULH", "MULHSU"} => ~(Signed(x, X) < 0),
         op = "MULH" => ~(Signed(y, X) < 0),
         op \in {"DIVUW", "REMUW"} => Wrap(y, W) # 0
  PROVE  Arch!IsResult(op, x, y, IF op \in {"MUL", "MULW", "MULH", "MULHSU", "MULHU"}
                                   THEN Multiply(op, x, y) ELSE Divide(op, x, y))
<1>1. CASE op \in {"MUL", "MULW"}
  BY <1>1, ProductIsResult
<1>2. CASE op \in {"MULH", "MULHSU", "MULHU"}
  BY <1>2, HighProductIsResult
<1>3. CASE op \in {"DIV", "DIVW"}
  BY <1>3, QuotientIsResult
<1>4. CASE op \in {"REM", "REMW"}
  BY <1>4, RemainderIsResult
<1>5. CASE op \in {"DIVU", "DIVUW", "REMU", "REMUW"}
  BY <1>5, UnsignedIsResult
<1> QED
  BY <1>1, <1>2, <1>3, <1>4, <1>5 DEF MulDivOps

\* Branches compare as the architecture does.
LEMMA TakenIs ==
  ASSUME NEW op \in Branches, NEW a \in Dword, NEW b \in Dword
  PROVE  Arch!Taken(op, a, b) <=> Condition(op, a, b)
<1>1. Arch!Signed(a, Arch!X) = Signed(a, X) /\ Arch!Signed(b, Arch!X) = Signed(b, X)
  BY ArchIs DEF Arch!X, X
<1>2. a \in Int /\ b \in Int /\ Signed(a, X) \in Int /\ Signed(b, X) \in Int
  BY FitsDword
<1> QED
  BY <1>1, <1>2 DEF Branches, Arch!Taken, Condition

-----------------------------------------------------------------------------
(* Results.                                                                *)

\* What a step does to the destination and to the other registers.
LEMMA Destination ==
  ASSUME TypeOK, ins.rd \in Regs, NEW v, WriteBack(v)
  PROVE  /\ \A r \in Regs \ {ins.rd} : reg'[r] = reg[r]
         /\ ins.rd # 0 => reg'[ins.rd] = v
BY DEF TypeOK, WriteBack

OneRegister == \A r \in Regs \ {ins.rd} : reg'[r] = reg[r]

\* No instruction changes a register that it does not name.
LEMMA OneRegisterChanges ==
  ASSUME IInv, Execute
  PROVE  OneRegister
<1>1. CASE \/ ExecuteBadOp \/ ExecuteBranch \/ AccessFault
           \/ ExecuteStore \/ ExecuteFpLoad \/ ExecuteFpStore \/ ExecuteFmv
           \/ CsrAbsent \/ CsrUnknown
  <2>1. reg' = reg
    BY <1>1 DEF ExecuteBadOp, ExecuteBranch, AccessFault, ExecuteStore,
                ExecuteFpLoad, ExecuteFpStore, ExecuteFmv, CsrAbsent, CsrUnknown,
                raise_except, RegsAfterExcept, state
  <2> QED
    BY <2>1 DEF OneRegister
<1>2. CASE \/ ExecuteArith \/ ExecuteMulDiv \/ ExecuteUpper \/ ExecuteNothing \/ ExecuteJump
           \/ ExecuteLoad \/ ExecuteAtomic \/ csr_update
  <2>1. \E ops : Executing(ops)
    BY <1>2 DEF ExecuteArith, ExecuteMulDiv, ExecuteUpper, ExecuteNothing, ExecuteJump, ExecuteLoad,
                ExecuteAtomic, csr_update, Reads
  <2>2. \E v : WriteBack(v)
    BY <1>2 DEF ExecuteArith, ExecuteMulDiv, ExecuteUpper, ExecuteNothing, ExecuteJump, ExecuteLoad,
                ExecuteAtomic, csr_update
  <2>3. ins.rd \in Regs
    BY <2>1, InsIs
  <2> QED
    BY <2>2, <2>3, Destination DEF IInv, OneRegister
<1> QED
  BY <1>1, <1>2 DEF Execute

\* What the other actions execute has no result of its own here.
LEMMA OtherOps ==
  ASSUME Execute
  PROVE  \/ ExecuteArith \/ ExecuteMulDiv \/ ExecuteJump \/ ExecuteBranch
         \/ ins.op \notin ImmOps \cup RegOps \cup MulDivOps \cup Branches \cup {"JAL", "JALR"}
<1>1. CASE ExecuteUpper \/ ExecuteNothing \/ ExecuteBadOp \/ ExecuteFmv
  BY <1>1 DEF ExecuteUpper, ExecuteNothing, ExecuteBadOp, ExecuteFmv, Executing, NoOps,
              ImmOps, RegOps, MulDivOps, Branches
<1>2. CASE \/ AccessFault \/ ExecuteLoad \/ ExecuteStore \/ ExecuteAtomic
           \/ ExecuteFpLoad \/ ExecuteFpStore
  <2>1. ins.op \in MemoryOps
    BY <1>2 DEF AccessFault, ExecuteLoad, ExecuteStore, ExecuteAtomic, ExecuteFpLoad,
                ExecuteFpStore, Reads, Executing, MemoryOps, Atomics
  <2> QED
    BY <2>1 DEF MemoryOps, Loads, Stores, Atomics, FpLoads, FpStores,
                ImmOps, RegOps, MulDivOps, Branches
<1>3. CASE csr_update \/ CsrAbsent \/ CsrUnknown
  BY <1>3 DEF csr_update, CsrAbsent, CsrUnknown, Executing, CsrOps,
              ImmOps, RegOps, MulDivOps, Branches
<1> QED
  BY <1>1, <1>2, <1>3 DEF Execute

\* A sum without bit 0 is where the architecture jumps to.
LEMMA EvenSum ==
  ASSUME NEW base \in Dword, NEW offset \in Dword, Wrap(base + offset, X) % 2 # 1
  PROVE  Arch!JumpTarget(base, offset) = Wrap(base + offset, X)
<1> DEFINE sum == Wrap(base + offset, X)
<1>1. sum \in Nat /\ Arch!Wrap(base + offset, Arch!X) = sum
  <2>1. base + offset \in Int
    BY FitsDword
  <2>2. Wrap(base + offset, X) \in Nat
    BY <2>1, FitsDword
  <2>3. Arch!X = X
    BY DEF Arch!X, X
  <2> QED
    BY <2>2, <2>3, ArchIs
<1> HIDE DEF sum
<1>2. sum % 2 = 0
  <2>1. sum % 2 # 1
    BY DEF sum
  <2> QED
    BY <1>1, <2>1
<1>3. Arch!JumpTarget(base, offset) = sum - (sum % 2)
  BY <1>1, Zenon DEF Arch!JumpTarget
<1> QED
  BY <1>1, <1>2, <1>3 DEF sum

\* An operation without a result changes no register, if the decoder has left no rd.
LEMMA QuietOps ==
  ASSUME IInv, Execute, ins.op \in NoOps, ~Deviates
  PROVE  reg' = reg
<1>1. ins.rd = 0
  BY DEF Deviates
<1>2. \/ ExecuteNothing
      \/ reg' = reg
  <2>1. CASE AccessFault \/ CsrAbsent
    BY <2>1 DEF AccessFault, CsrAbsent, raise_except, RegsAfterExcept
  <2>2. ins.op \notin ImmOps \cup RegOps \cup MulDivOps \cup Loads \cup CsrOps
        /\ ins.op \notin {"LUI", "AUIPC", "JAL", "JALR", "LR_D", "LR_W", "SC_D", "SC_W",
                          "AMO_D", "AMO_W"}
    BY DEF NoOps, ImmOps, RegOps, MulDivOps, Loads, CsrOps
  <2>3. ~(\/ ExecuteArith \/ ExecuteMulDiv \/ ExecuteUpper \/ ExecuteJump \/ ExecuteLoad
          \/ ExecuteAtomic \/ csr_update)
    BY <2>2 DEF ExecuteArith, ExecuteMulDiv, ExecuteUpper, ExecuteJump, ExecuteLoad,
                ExecuteAtomic, csr_update, Reads, Executing
  <2>4. CASE ExecuteBadOp \/ ExecuteBranch \/ ExecuteStore \/ ExecuteFpLoad
             \/ ExecuteFpStore \/ ExecuteFmv \/ CsrUnknown
    BY <2>4 DEF ExecuteBadOp, ExecuteBranch, ExecuteStore, ExecuteFpLoad, ExecuteFpStore,
                ExecuteFmv, CsrUnknown, state
  <2> QED
    BY <2>1, <2>3, <2>4 DEF Execute
<1> QED
  BY <1>1, <1>2 DEF ExecuteNothing, WriteBack

\* Every result, branch and link is that of the architecture, for registers of
\* any width, except where execute.c is known to deviate; no other register
\* changes.
THEOREM Results == Spec => ResultIsArchitectural
<1> DEFINE Result == ins.op \in ImmOps \cup RegOps \cup MulDivOps /\ ins.rd # 0 /\ ~Deviates =>
                       Arch!IsResult(ins.op, rs1val, Operand, reg'[ins.rd])
           Branch == ins.op \in Branches =>
                       pc' = IF Arch!Taken(ins.op, rs1val, rs2val) THEN Target ELSE next_pc
           Link   == ins.op \in {"JAL", "JALR"} /\ ins.rd # 0 => reg'[ins.rd] = next_pc
           Jump   == /\ ins.op = "JAL" => pc' = Target
                     /\ ins.op = "JALR" /\ ~Deviates => pc' = Arch!JumpTarget(rs1val, ins.imm)
           Quiet  == ins.op \in NoOps /\ ~Deviates => reg' = reg
           Step   == Executed => /\ \A r \in Regs \ {ins.rd} : reg'[r] = reg[r]
                                 /\ Result /\ Branch /\ Link /\ Jump /\ Quiet
<1>1. ASSUME IInv, Next PROVE Step
  <2> SUFFICES ASSUME Executed PROVE OneRegister /\ Result /\ Branch /\ Link /\ Jump /\ Quiet
    BY DEF OneRegister
  <2>1. Execute
    BY <1>1 DEF Next, Decode, Switch, Executed
  <2>2. CASE ExecuteArith
    <3>1. Executing(ImmOps \cup RegOps) /\ ins.op \in ImmOps \cup RegOps
          /\ WriteBack(Arith(ins.op, rs1val, Operand))
      BY <2>2 DEF ExecuteArith, Executing
    <3>2. rs1val \in Dword /\ Operand \in Dword /\ ins.rd \in Regs
      BY <1>1, <3>1, InsIs
    <3>3. ins.rd # 0 => reg'[ins.rd] = Arith(ins.op, rs1val, Operand)
      BY <1>1, <3>1, <3>2, Destination DEF IInv
    <3>4. Arch!IsResult(ins.op, rs1val, Operand, Arith(ins.op, rs1val, Operand))
      BY <3>1, <3>2, ArithIsResult
    <3>5. Result
      BY <3>3, <3>4
    <3>6. ins.op \notin Branches \cup NoOps \cup {"JAL", "JALR"}
      BY <3>1 DEF ImmOps, RegOps, Branches, NoOps
    <3> QED
      BY <1>1, <2>1, <3>5, <3>6, OneRegisterChanges
  <2>3. CASE ExecuteMulDiv
    <3> DEFINE v == IF ins.op \in {"MUL", "MULW", "MULH", "MULHSU", "MULHU"}
                      THEN Multiply(ins.op, rs1val, rs2val)
                      ELSE Divide(ins.op, rs1val, rs2val)
    <3>1. Executing(MulDivOps) /\ ins.op \in MulDivOps /\ WriteBack(v)
      BY <2>3 DEF ExecuteMulDiv, Executing
    <3>2. rs1val \in Dword /\ rs2val \in Dword /\ ins.rd \in Regs
      BY <1>1, <3>1, InsIs
    <3>3. ins.rd # 0 => reg'[ins.rd] = v
      <4> HIDE DEF v
      <4> QED
        BY <1>1, <3>1, <3>2, Destination DEF IInv
    <3>4. Operand = rs2val
      BY <3>1 DEF Operand, ImmOps, MulDivOps
    <3>5. ~Deviates => Arch!IsResult(ins.op, rs1val, rs2val, v)
      BY <3>1, <3>2, MulDivIsResult DEF Deviates
    <3> HIDE DEF v
    <3>6. Result
      BY <3>3, <3>4, <3>5
    <3>7. ins.op \notin Branches \cup NoOps \cup {"JAL", "JALR"}
      BY <3>1 DEF MulDivOps, Branches, NoOps
    <3> QED
      BY <1>1, <2>1, <3>6, <3>7, OneRegisterChanges
  <2>4. CASE ExecuteJump
    <3>1. Executing({"JAL", "JALR"}) /\ ins.op \in {"JAL", "JALR"} /\ WriteBack(next_pc)
          /\ pc' = IF ins.op = "JAL" THEN Target ELSE Wrap(rs1val + ins.imm, X)
      BY <2>4 DEF ExecuteJump, Executing
    <3>2. ins.rd \in Regs /\ rs1val \in Dword /\ ins.imm \in Dword
      BY <1>1, <3>1, InsIs
    <3>3. ins.rd # 0 => reg'[ins.rd] = next_pc
      BY <1>1, <3>1, <3>2, Destination DEF IInv
    <3>4. ins.op \notin ImmOps \cup RegOps \cup MulDivOps /\ ins.op \notin Branches \cup NoOps
      BY <3>1 DEF ImmOps, RegOps, MulDivOps, Branches, NoOps
    <3>5. ins.op = "JALR" /\ ~Deviates =>
            Arch!JumpTarget(rs1val, ins.imm) = Wrap(rs1val + ins.imm, X)
      BY <3>2, EvenSum DEF Deviates
    <3> QED
      BY <1>1, <2>1, <3>1, <3>3, <3>4, <3>5, OneRegisterChanges
  <2>5. CASE ExecuteBranch
    <3>1. Executing(Branches) /\ ins.op \in Branches
          /\ pc' = IF Condition(ins.op, rs1val, rs2val) THEN Target ELSE next_pc
      BY <2>5 DEF ExecuteBranch, Executing
    <3>2. rs1val \in Dword /\ rs2val \in Dword
      BY <1>1, <3>1, InsIs
    <3>3. Arch!Taken(ins.op, rs1val, rs2val) <=> Condition(ins.op, rs1val, rs2val)
      BY <3>1, <3>2, TakenIs
    <3>4. ins.op \notin ImmOps \cup RegOps \cup MulDivOps /\ ins.op \notin NoOps \cup {"JAL", "JALR"}
      BY <3>1 DEF ImmOps, RegOps, MulDivOps, Branches, NoOps
    <3> QED
      BY <1>1, <2>1, <3>1, <3>3, <3>4, OneRegisterChanges
  <2>6. CASE ins.op \notin ImmOps \cup RegOps \cup MulDivOps \cup Branches \cup {"JAL", "JALR"}
    <3>1. Quiet
      BY <1>1, <2>1, QuietOps
    <3> QED
      BY <1>1, <2>1, <2>6, <3>1, OneRegisterChanges
  <2> QED
    BY <2>1, <2>2, <2>3, <2>4, <2>5, <2>6, OtherOps
<1>2. IInv /\ [Next]_vars => [Step]_vars
  BY <1>1
<1>3. [][Step]_vars => ResultIsArchitectural
  BY PTL DEF ResultIsArchitectural
<1> QED
  BY <1>2, <1>3, Invariance, PTL DEF Spec

-----------------------------------------------------------------------------
(* The numbers that bytes are.                                             *)

\* The sum of the low digits of a number is its remainder.
LEMMA DigitsOf ==
  ASSUME NEW N \in Nat, B * N <= X, NEW D \in Nat, NEW t, NEW g, IsSum(g, t, N),
         \A n \in 1 .. N : t[n] = ((D \div 2^(B * (n - 1))) % 2^B) * 2^(B * (n - 1))
  PROVE  g[N] = D % 2^(B * N)
<1> DEFINE Q(n) == g[n] = D % 2^(B * n)
           S == {n \in 0 .. N : ~ Q(n)}
<1>1. CASE S = {}
  <2>1. N \notin S
    <3> HIDE DEF S
    <3> QED
      BY <1>1
  <2>2. N \in 0 .. N
    OBVIOUS
  <2> QED
    BY <2>1, <2>2
<1>2. CASE S # {}
  <2>1. S \subseteq Nat
    OBVIOUS
  <2>2. PICK n \in S : \A k \in S : n <= k
    <3> HIDE DEF S
    <3> QED
      BY <1>2, <2>1, Least
  <2>3. n \in 0 .. N /\ ~ Q(n)
    BY <2>2
  <2>4. g[n] = IF n = 0 THEN 0 ELSE g[n - 1] + t[n]
    BY <2>3 DEF IsSum
  <2>5. n # 0
    <3> SUFFICES ASSUME n = 0 PROVE FALSE
      OBVIOUS
    <3>1. B * n = 0
      BY WidthsAre
    <3>2. 2^(B * n) = 1
      BY <3>1, PowerIs
    <3>3. D % 1 = 0
      OBVIOUS
    <3> QED
      BY <2>3, <2>4, <3>2, <3>3
  <2>6. n - 1 \in 0 .. N /\ n - 1 \notin S /\ n \in 1 .. N
    BY <2>2, <2>3, <2>5
  <2> DEFINE a == B * (n - 1)  p == 2^a  q == 2^B
  <2>7. g[n - 1] = D % p /\ t[n] = ((D \div p) % q) * p
    BY <2>6
  <2>8. a \in 0 .. X /\ B \in 0 .. X /\ a + B <= X /\ a + B = B * n
    <3>1. n - 1 \in Nat /\ N - n \in Nat /\ B \in Nat
      BY <2>6, WidthsAre
    <3>2. B * (n - 1) \in Nat /\ B * (N - n) \in Nat
      BY <3>1
    <3>3. B * (n - 1) = B * n - B /\ B * (N - n) = B * N - B * n
      BY <2>6, <3>1
    <3>4. B * n \in Int /\ B * N \in Int
      BY <2>6, <3>1
    <3> QED
      BY <3>1, <3>2, <3>3, <3>4, WidthsAre
  <2>9. 2^(B * n) = p * q /\ p \in Nat \ {0} /\ q \in Nat \ {0}
    <3>1. 2^(a + B) = 2^a * 2^B
      BY <2>8, PowerOfSum
    <3> QED
      BY <2>8, <3>1, PowerIs
  <2>10. g[n] = (D % p) + ((D \div p) % q) * p
    BY <2>4, <2>5, <2>7
  <2> HIDE DEF p, q, a
  <2> DEFINE r == D % p  x == D \div p  d == x % q  y == x \div q
  <2>11. r \in 0 .. p - 1 /\ x \in Int /\ D = p * x + r
    BY <2>9
  <2> HIDE DEF r, x
  <2>12. d \in 0 .. q - 1 /\ y \in Int /\ x = q * y + d
    BY <2>9, <2>11
  <2> HIDE DEF d, y
  <2> DEFINE m == p * q  u == d * p + r
  <2>13. m \in Nat \ {0} /\ u \in 0 .. m - 1
    <3>1. d \in Nat /\ q - 1 - d \in Nat
      BY <2>9, <2>12
    <3>2. d * p \in Nat /\ (q - 1 - d) * p \in Nat /\ p * q \in Nat \ {0}
      BY <2>9, <3>1
    <3>3. (q - 1 - d) * p = p * q - p - d * p
      BY <2>9, <2>12
    <3> QED
      BY <2>9, <2>11, <3>2, <3>3
  <2>14. D = m * y + u
    <3>1. p * x = p * (q * y) + d * p
      BY <2>9, <2>12
    <3>2. p * (q * y) = (p * q) * y
      BY <2>9, <2>12
    <3>3. (p * q) * y \in Int /\ d * p \in Int
      BY <2>9, <2>12
    <3> QED
      BY <2>11, <3>1, <3>2, <3>3
  <2>15. g[n] = u
    <3>1. r \in Int /\ d * p \in Int
      BY <2>9, <2>11, <2>12
    <3>2. r + d * p = d * p + r
      BY <3>1
    <3>3. g[n] = r + d * p
      BY <2>10 DEF r, d, x
    <3> QED
      BY <3>2, <3>3
  <2> HIDE DEF m, u
  <2>16. D % m = u
    BY <2>12, <2>13, <2>14, DivModIs
  <2>17. g[n] = D % 2^(B * n)
    BY <2>9, <2>15, <2>16 DEF m
  <2> QED
    BY <2>3, <2>17
<1> QED
  BY <1>1, <1>2

\* What a store leaves in the bytes of the access is the number that it stores.
LEMMA CopiedIsNumber ==
  ASSUME NEW m, NEW addr \in Nat, NEW N \in Nat, B * N <= X, NEW D \in Nat, Inside(m, addr, N),
         NEW bytes, NEW new, new = Copied(m, addr, N, D),
         \A i \in 0 .. N - 1 : bytes[i] = new[addr + i]
  PROVE  Number(bytes, N) = Wrap(D, B * N)
<1> DEFINE t == ByteTerm(bytes, N)
<1>1. PICK g : IsSum(g, t, N) /\ Number(bytes, N) = g[N]
  BY NumberIsSum
<1>2. ASSUME NEW n \in 1 .. N
      PROVE  t[n] = ((D \div 2^(B * (n - 1))) % 2^B) * 2^(B * (n - 1))
  <2> DEFINE i == n - 1
  <2>1. /\ i \in 0 .. N - 1 /\ addr + i \in addr .. addr + N - 1 /\ (addr + i) - addr = i
        /\ addr + i \in DOMAIN m
    BY DEF Inside
  <2>2. t[n] = bytes[i] * 2^(B * i)
    BY DEF ByteTerm
  <2> HIDE DEF i
  <2>3. new[addr + i] = (D \div 2^(B * i)) % 2^B
    BY <2>1 DEF Copied
  <2>4. bytes[i] = (D \div 2^(B * i)) % 2^B
    BY <2>1, <2>3
  <2> QED
    BY <2>2, <2>4 DEF i
<1> HIDE DEF t
<1>3. g[N] = D % 2^(B * N)
  BY <1>1, <1>2, DigitsOf
<1> QED
  BY <1>1, <1>3 DEF Wrap

\* A store changes no byte but those of the access.
LEMMA CopiedElsewhere ==
  ASSUME NEW m, NEW addr \in Nat, NEW N \in Nat, NEW D, NEW a \in DOMAIN m,
         Copied(m, addr, N, D)[a] # m[a]
  PROVE  \E i \in 0 .. N - 1 : a = addr + i
<1>1. a \in addr .. addr + N - 1
  BY DEF Copied
<1>2. a - addr \in 0 .. N - 1 /\ a = addr + (a - addr)
  BY <1>1
<1> QED
  BY <1>2

-----------------------------------------------------------------------------
(* Accesses.                                                               *)

\* The bytes of an access that stays in its page lie behind each other.
LEMMA PlacesAre ==
  ASSUME NEW addr \in Dword, mmu(addr) # Fault, NEW size \in Sizes,
         (addr % PageSize) + size <= PageSize, NEW i \in 0 .. size - 1
  PROVE  Places(addr, size)[i] = mmu(addr) + i
<1> DEFINE P == PageSize  v == addr \div P  off == addr % P  p == 2^X  M == p \div P
           frame == PageTable[v]
<1>1. P \in Nat \ {0} /\ p \in Nat \ {0} /\ p % P = 0 /\ addr \in 0 .. p - 1 /\ addr \in Nat
  BY RamAssumption, PowerIs, WidthsAre, FitsDword DEF Dword
<1>2. size \in Nat /\ i \in Nat /\ i < size
  BY DEF Sizes
<1>3. off + size <= P
  OBVIOUS
<1>4. frame # Fault /\ mmu(addr) = frame * P + off /\ v \in DOMAIN PageTable
  BY RamAssumption DEF mmu
<1>5. frame \in Nat
  BY <1>4, RamAssumption
<1> HIDE DEF P, p, frame
<1>6. v \in Nat /\ off \in 0 .. P - 1 /\ addr = P * v + off
  BY <1>1
<1>7. M \in Nat /\ p = P * M
  BY <1>1
<1> HIDE DEF v, off, M
<1> DEFINE a == addr + i
<1>8. off + i \in 0 .. P - 1 /\ a = P * v + (off + i)
  BY <1>1, <1>2, <1>3, <1>6
<1>9. a \in 0 .. p - 1
  <2>1. v < M
    <3> SUFFICES ASSUME v >= M PROVE FALSE
      BY <1>6, <1>7
    <3>1. v - M \in Nat /\ P * v = P * M + P * (v - M)
      BY <1>1, <1>6, <1>7
    <3>2. P * (v - M) \in Nat /\ P * M \in Nat
      BY <1>1, <1>7, <3>1
    <3> QED
      BY <1>1, <1>6, <1>7, <3>1, <3>2
  <2>2. M - v - 1 \in Nat /\ P * M = P * v + P + P * (M - v - 1)
    BY <1>1, <1>6, <1>7, <2>1
  <2>3. P * (M - v - 1) \in Nat /\ P * v \in Nat
    BY <1>1, <1>6, <2>2
  <2> QED
    BY <1>1, <1>7, <1>8, <2>2, <2>3
<1>10. a \div P = v /\ a % P = off + i
  <2> DEFINE r == off + i
  <2>1. r \in 0 .. P - 1 /\ a = P * v + r /\ v \in Int
    BY <1>6, <1>8
  <2> HIDE DEF r, a
  <2> QED
    BY <1>1, <2>1, DivModIs DEF r
<1> HIDE DEF a
<1>11. Wrap(a, X) = a
  <2>1. a % p = a
    BY <1>1, <1>9
  <2> QED
    BY <2>1 DEF Wrap, p
<1>12. mmu(a) = frame * P + (off + i)
  BY <1>4, <1>10 DEF mmu, P, frame
<1>13. frame * P \in Nat
  BY <1>1, <1>5
<1>14. mmu(a) = mmu(addr) + i
  BY <1>2, <1>4, <1>6, <1>12, <1>13
<1>15. Places(addr, size)[i] = mmu(Wrap(addr + i, X))
  BY DEF Places
<1> QED
  BY <1>11, <1>14, <1>15 DEF a

\* The access that the running instruction makes.
Accesses == Executed /\ ins.op \in MemoryOps /\ mmu(Address) # Fault
            /\ (Address % PageSize) + Size(ins.op) <= PageSize

\* What the bytes of the access are before the step and after it.
Old ==
  Number([i \in 0 .. Size(ins.op) - 1 |-> memory[Places(Address, Size(ins.op))[i]]],
         Size(ins.op))
New ==
  Number([i \in 0 .. Size(ins.op) - 1 |-> memory'[Places(Address, Size(ins.op))[i]]],
         Size(ins.op))

\* Its size, its place in the RAM and its operands.
LEMMA AccessIs ==
  ASSUME IInv, Accesses, Execute
  PROVE  /\ Size(ins.op) \in Sizes /\ Arch!AccessSize(ins.op) = Size(ins.op)
         /\ Address \in Dword /\ Inside(memory, mmu(Address), Size(ins.op))
         /\ \A i \in 0 .. Size(ins.op) - 1 : Places(Address, Size(ins.op))[i] = mmu(Address) + i
         /\ rs2val \in Dword /\ ins.rd \in Regs
         /\ ins.op \in {"SC_D", "SC_W"} => ins.params = "LR_SC"
         /\ ins.op \in {"AMO_D", "AMO_W"} => ins.params \in AmoParams \ {"NONE", "LR_SC"}
<1>1. ins.op \in MemoryOps /\ mmu(Address) # Fault
      /\ (Address % PageSize) + Size(ins.op) <= PageSize
  BY DEF Accesses
<1>2. Size(ins.op) \in Sizes /\ Arch!AccessSize(ins.op) = Size(ins.op)
  BY <1>1 DEF MemoryOps, Loads, Stores, Atomics, FpLoads, FpStores, Size, Sizes, Arch!AccessSize
<1>3. Executing(MemoryOps)
  BY <1>1 DEF Accesses, Executed, Executing, Execute, ExecuteArith, ExecuteMulDiv, ExecuteUpper,
    ExecuteNothing, ExecuteBadOp, ExecuteJump, ExecuteBranch, AccessFault, ExecuteLoad, ExecuteStore,
    ExecuteAtomic, ExecuteFpLoad, ExecuteFpStore, ExecuteFmv, csr_update, CsrAbsent, CsrUnknown, Reads
<1>4. /\ Address \in Dword /\ rs2val \in Dword /\ ins.rd \in Regs
      /\ ins.op \in {"SC_D", "SC_W"} => ins.params = "LR_SC"
      /\ ins.op \in {"AMO_D", "AMO_W"} => ins.params \in AmoParams \ {"NONE", "LR_SC"}
  BY <1>3, InsIs
<1>5. Inside(memory, mmu(Address), Size(ins.op))
  BY <1>1, <1>2, <1>4, AccessInside DEF IInv
<1> QED
  BY <1>1, <1>2, <1>4, <1>5, PlacesAre

\* What is read is what the bytes of the access are.
LEMMA ReadIsOld ==
  ASSUME IInv, Accesses, Execute
  PROVE  /\ as_read = Old
         /\ Old \in 0 .. 2^(B * Size(ins.op)) - 1 /\ Old \in Dword
<1> DEFINE size == Size(ins.op)  addr == mmu(Address)
           bytes == [i \in 0 .. size - 1 |-> memory[Places(Address, size)[i]]]
<1>1. size \in Sizes /\ Inside(memory, addr, size) /\ size \in Nat /\ addr \in Nat
      /\ \A i \in 0 .. size - 1 : Places(Address, size)[i] = addr + i
  BY AccessIs DEF Sizes, Inside
<1>2. \A i \in 0 .. size - 1 : bytes[i] = memory[addr + i]
  BY <1>1
<1>3. as_read = ram_read(memory, addr, size) /\ Old = Number(bytes, size)
  BY DEF as_read, Old
<1> HIDE DEF size, addr, bytes
<1>4. ram_read(memory, addr, size) = Number(bytes, size)
  BY <1>1, <1>2, ReadIsNumber
<1>5. ram_read(memory, addr, size) \in Dword
  BY <1>1, ReadFits DEF IInv
<1>6. ram_read(memory, addr, size) \in 0 .. 2^(B * size) - 1
  <2>1. \A i \in 0 .. size - 1 : memory[addr + i] \in Byte
    BY <1>1 DEF IInv, IsRam, Inside
  <2>2. B * size <= X
    BY <1>1, SizeIs
  <2> QED
    BY <1>1, <2>1, <2>2, ReadIs
<1> QED
  BY <1>3, <1>4, <1>5, <1>6 DEF size

\* What is stored is the low part of the number, and only there.
LEMMA CopiedIsNew ==
  ASSUME IInv, Accesses, Execute, NEW D \in Nat,
         memory' = Copied(memory, mmu(Address), Size(ins.op), D)
  PROVE  /\ New = Wrap(D, B * Size(ins.op))
         /\ \A a \in DOMAIN memory : memory'[a] # memory[a] =>
              \E i \in 0 .. Size(ins.op) - 1 : a = Places(Address, Size(ins.op))[i]
<1> DEFINE size == Size(ins.op)  addr == mmu(Address)
           bytes == [i \in 0 .. size - 1 |-> memory'[Places(Address, size)[i]]]
<1>1. size \in Sizes /\ Inside(memory, addr, size) /\ size \in Nat /\ addr \in Nat
      /\ \A i \in 0 .. size - 1 : Places(Address, size)[i] = addr + i
  BY AccessIs DEF Sizes, Inside
<1>2. \A i \in 0 .. size - 1 : bytes[i] = memory'[addr + i]
  BY <1>1
<1>3. New = Number(bytes, size)
  BY DEF New
<1>4. memory' = Copied(memory, addr, size, D)
  OBVIOUS
<1> HIDE DEF size, addr, bytes
<1>5. B * size <= X
  BY <1>1, SizeIs
<1>6. Number(bytes, size) = Wrap(D, B * size)
  BY <1>1, <1>2, <1>4, <1>5, CopiedIsNumber
<1>7. ASSUME NEW a \in DOMAIN memory, memory'[a] # memory[a]
      PROVE  \E i \in 0 .. size - 1 : a = Places(Address, size)[i]
  <2>1. Copied(memory, addr, size, D)[a] # memory[a]
    BY <1>4, <1>7
  <2>2. addr \in Nat /\ size \in Nat
    BY <1>1
  <2>3. \E i \in 0 .. size - 1 : a = addr + i
    BY <2>1, <2>2, CopiedElsewhere
  <2> QED
    BY <1>1, <2>3
<1> QED
  BY <1>3, <1>6, <1>7 DEF size

\* What fits already is not cut.
LEMMA WrapKeeps ==
  ASSUME NEW n \in 0 .. X, NEW u \in 0 .. 2^n - 1
  PROVE  Wrap(u, n) = u /\ u \in Nat
<1> DEFINE p == 2^n
<1>1. p \in Nat \ {0} /\ u \in 0 .. p - 1
  BY PowerIs
<1> HIDE DEF p
<1>2. u % p = u /\ u \in Nat
  BY <1>1
<1> QED
  BY <1>2 DEF Wrap, p

Local == \A a \in DOMAIN memory : memory'[a] # memory[a] =>
           \E i \in 0 .. Size(ins.op) - 1 : a = Places(Address, Size(ins.op))[i]

\* A plain store and a store-conditional.
LEMMA StoreIsNew ==
  ASSUME IInv, Accesses, Execute, NEW data \in Dword, NEW params \in {"NONE", "LR_SC"},
         memory' = Written(data, params)
  PROVE  New = Wrap(data, B * Size(ins.op)) /\ Local
<1> DEFINE n == B * Size(ins.op)  low == Wrap(data, n)
           D == IF Size(ins.op) \in {4, 8} THEN low ELSE data
<1>1. n \in 0 .. X /\ data \in Int /\ data \in Nat
  BY AccessIs, SizeIs, FitsDword
<1>2. low \in 0 .. 2^n - 1 /\ low \in Nat
  <2> HIDE DEF n
  <2> QED
    BY <1>1, WrapIs
<1>3. memory' = Copied(memory, mmu(Address), Size(ins.op), D)
  <2>1. \A orig : amo(orig, low, params, n) = low
    BY DEF amo
  <2> HIDE DEF low, n
  <2> QED
    BY <2>1 DEF Written, ram_write, low, n
<1>4. D \in Nat /\ Wrap(D, n) = low
  <2> HIDE DEF n
  <2>1. Wrap(low, n) = low
    BY <1>1, <1>2, WrapKeeps
  <2> QED
    BY <1>1, <1>2, <2>1
<1> HIDE DEF D
<1>5. New = Wrap(D, n) /\ Local
  BY <1>3, <1>4, CopiedIsNew DEF Local
<1> QED
  BY <1>4, <1>5

\* What an AMO stores is what the architecture combines.
LEMMA AmoCombines ==
  ASSUME NEW n \in {W, X}, NEW old \in 0 .. 2^n - 1, NEW data \in 0 .. 2^n - 1,
         NEW kind \in AmoParams \ {"NONE", "LR_SC"}
  PROVE  /\ amo(old, data, kind, n) \in Nat
         /\ Arch!Combines(kind, old, data, n, Wrap(amo(old, data, kind, n), n))
<1> DEFINE D == amo(old, data, kind, n)  new == Wrap(D, n)
           so == Signed(old, n)  sd == Signed(data, n)
<1>1. n \in 0 .. X /\ n \in 1 .. X
  BY WidthsAre
<1>2. Wrap(old, n) = old /\ Wrap(data, n) = data /\ old \in Nat /\ data \in Nat
  BY <1>1, WrapKeeps
<1>3. old \in Int /\ data \in Int /\ so \in Int /\ sd \in Int
      /\ Arch!Signed(old, n) = so /\ Arch!Signed(data, n) = sd
  BY <1>1, <1>2, SignedIs, ArchIs
<1>4. CASE kind = "ADD"
  <2>1. D = Wrap(old + data, n) /\ old + data \in Int
    BY <1>3, <1>4 DEF amo
  <2>2. D \in 0 .. 2^n - 1 /\ D \in Nat
    <3> HIDE DEF D
    <3> QED
      BY <1>1, <2>1, WrapIs
  <2>3. new = D
    <3> HIDE DEF D
    <3> QED
      BY <1>1, <2>2, WrapKeeps
  <2>4. new = Arch!Wrap(Arch!Signed(old, n) + Arch!Signed(data, n), n)
    <3> HIDE DEF D, new
    <3> QED
      BY <1>1, <1>3, <2>1, <2>3, LowPart, ArchIs
  <2> QED
    BY <1>4, <2>2, <2>4, Zenon DEF Arch!Combines
<1>5. CASE kind = "SWAP"
  <2>1. D = data
    BY <1>5 DEF amo
  <2>2. new = data
    BY <1>2, <2>1
  <2> QED
    BY <1>2, <1>5, <2>1, <2>2, Zenon DEF Arch!Combines
<1>6. XorBits(old, data) \in Nat /\ OrBits(old, data) \in Nat /\ AndBits(old, data) \in Nat
  BY <1>3, BitsFit, FitsDword
<1>7. ASSUME NEW i \in 0 .. n - 1
      PROVE  LET p == Arch!Bit(old, i)
                 q == Arch!Bit(data, i)
             IN  /\ p \in {0, 1} /\ q \in {0, 1}
                 /\ Arch!Bit(Wrap(XorBits(old, data), n), i) = IF p = q THEN 0 ELSE 1
                 /\ Arch!Bit(Wrap(OrBits(old, data), n), i) = IF 1 \in {p, q} THEN 1 ELSE 0
                 /\ Arch!Bit(Wrap(AndBits(old, data), n), i) = p * q
  <2>1. i \in 0 .. X - 1
    BY WidthsAre
  <2>2. XorBits(old, data) \in Int /\ OrBits(old, data) \in Int /\ AndBits(old, data) \in Int
    BY <1>6
  <2>3. /\ Arch!Bit(Wrap(XorBits(old, data), n), i) = Arch!Bit(XorBits(old, data), i)
        /\ Arch!Bit(Wrap(OrBits(old, data), n), i) = Arch!Bit(OrBits(old, data), i)
        /\ Arch!Bit(Wrap(AndBits(old, data), n), i) = Arch!Bit(AndBits(old, data), i)
    BY <1>1, <2>2, BitOfWrap
  <2> QED
    BY <1>3, <2>1, <2>3, LogicBits
<1>8. CASE kind = "XOR"
  <2>1. D = XorBits(old, data)
    BY <1>8 DEF amo
  <2>2. \A i \in 0 .. n - 1 : Arch!Bit(new, i) = (Arch!Bit(old, i) + Arch!Bit(data, i)) % 2
    <3> SUFFICES ASSUME NEW i \in 0 .. n - 1
                 PROVE  Arch!Bit(new, i) = (Arch!Bit(old, i) + Arch!Bit(data, i)) % 2
      OBVIOUS
    <3> DEFINE p == Arch!Bit(old, i)  q == Arch!Bit(data, i)
    <3>1. p \in {0, 1} /\ q \in {0, 1} /\ Arch!Bit(new, i) = IF p = q THEN 0 ELSE 1
      BY <1>7, <2>1
    <3> HIDE DEF p, q, new
    <3>2. (p + q) % 2 = IF p = q THEN 0 ELSE 1
      BY <3>1
    <3> QED
      BY <3>1, <3>2 DEF p, q
  <2> QED
    BY <1>6, <1>8, <2>1, <2>2, Zenon DEF Arch!Combines
<1>9. CASE kind = "OR"
  <2>1. D = OrBits(old, data)
    BY <1>9 DEF amo
  <2>2. \A i \in 0 .. n - 1 : Arch!Bit(new, i) = 0 <=> Arch!Bit(old, i) + Arch!Bit(data, i) = 0
    BY <1>7, <2>1
  <2> QED
    BY <1>6, <1>9, <2>1, <2>2, Zenon DEF Arch!Combines
<1>10. CASE kind = "AND"
  <2>1. D = AndBits(old, data)
    BY <1>10 DEF amo
  <2>2. \A i \in 0 .. n - 1 : Arch!Bit(new, i) = 1 <=> Arch!Bit(old, i) + Arch!Bit(data, i) = 2
    BY <1>7, <2>1
  <2> QED
    BY <1>6, <1>10, <2>1, <2>2, Zenon DEF Arch!Combines
<1>11. CASE kind \in {"MIN", "MAX", "MINU", "MAXU"}
  <2> DEFINE first == CASE kind = "MIN"  -> so <= sd
                        [] kind = "MAX"  -> so >= sd
                        [] kind = "MINU" -> old <= data
                        [] kind = "MAXU" -> old >= data
  <2>1. D = IF first THEN old ELSE data
    <3>1. CASE kind = "MIN"
      <4>1. D = (IF sd < so THEN data ELSE old) /\ (first <=> so <= sd)
        BY <3>1 DEF amo
      <4> HIDE DEF D, so, sd, first
      <4> QED
        BY <1>2, <1>3, <4>1
    <3>2. CASE kind = "MAX"
      <4>1. D = (IF sd > so THEN data ELSE old) /\ (first <=> so >= sd)
        BY <3>2 DEF amo
      <4> HIDE DEF D, so, sd, first
      <4> QED
        BY <1>2, <1>3, <4>1
    <3>3. CASE kind = "MINU"
      <4>1. D = (IF data < old THEN data ELSE old) /\ (first <=> old <= data)
        BY <3>3 DEF amo
      <4> HIDE DEF D, so, sd, first
      <4> QED
        BY <1>2, <1>3, <4>1
    <3>4. CASE kind = "MAXU"
      <4>1. D = (IF data > old THEN data ELSE old) /\ (first <=> old >= data)
        BY <3>4 DEF amo
      <4> HIDE DEF D, so, sd, first
      <4> QED
        BY <1>2, <1>3, <4>1
    <3> QED
      BY <1>11, <3>1, <3>2, <3>3, <3>4
  <2>2. new = IF first THEN old ELSE data
    BY <1>2, <2>1
  <2> HIDE DEF D, new, so, sd
  <2>3. Arch!Combines(kind, old, data, n, new)
    BY <1>3, <1>11, <2>2 DEF Arch!Combines
  <2> QED
    BY <1>2, <2>1, <2>3 DEF D, new
<1> QED
  BY <1>4, <1>5, <1>8, <1>9, <1>10, <1>11 DEF AmoParams

\* An AMO stores the combination and returns what was there.
LEMMA AmoIsNew ==
  ASSUME IInv, Accesses, Execute, ins.op \in {"AMO_D", "AMO_W"},
         memory' = Written(rs2val, ins.params)
  PROVE  /\ Arch!Combines(ins.params, Old, Wrap(rs2val, B * Size(ins.op)), B * Size(ins.op), New)
         /\ Local
         /\ Returned(memory, mmu(Address), Size(ins.op), ins.params) = Old
<1> DEFINE size == Size(ins.op)  n == B * size  data == Wrap(rs2val, n)
           D == amo(Old, data, ins.params, n)
<1>1. size \in {4, 8} /\ n \in {W, X} /\ ins.params \in AmoParams \ {"NONE", "LR_SC"}
  <2>1. size \in {4, 8}
    BY DEF Size
  <2>2. n \in {W, X}
    BY <2>1, WidthsAre DEF W, X
  <2> QED
    BY <2>1, <2>2, AccessIs
<1>2. Returned(memory, mmu(Address), size, ins.params) = Old
  <2>1. ins.params # "LR_SC"
    BY <1>1
  <2> QED
    BY <2>1, ReadIsOld DEF Returned, as_read
<1>3. Old \in 0 .. 2^n - 1
  BY ReadIsOld
<1>4. data \in 0 .. 2^n - 1
  <2> HIDE DEF n
  <2>1. n \in 0 .. X
    BY <1>1, WidthsAre
  <2>2. rs2val \in Dword
    BY AccessIs
  <2>3. rs2val \in Int
    BY <2>2, FitsDword
  <2> QED
    BY <2>1, <2>3, WrapIs
<1>5. memory' = Copied(memory, mmu(Address), size, D)
  <2> HIDE DEF size
  <2> QED
    BY <1>1, <1>2 DEF Written, ram_write, size
<1>6. D \in Nat /\ Arch!Combines(ins.params, Old, data, n, Wrap(D, n))
  <2> HIDE DEF n, data
  <2> QED
    BY <1>1, <1>3, <1>4, AmoCombines
<1>7. New = Wrap(D, n) /\ Local
  <2> HIDE DEF D
  <2> QED
    BY <1>5, <1>6, CopiedIsNew DEF Local
<1> QED
  BY <1>2, <1>6, <1>7

\* What the property says of a step.
rdIs(v) == ins.rd # 0 => reg'[ins.rd] = v

MemoryStep ==
  LET n == B * Size(ins.op)
  IN  /\ Local
      /\ ins.op \in Loads \cup FpLoads \cup {"LR_D", "LR_W"} => memory' = memory
      /\ ins.op \in {"LB", "LH", "LW", "LD", "LR_W", "LR_D"} => rdIs(SignExtend(Old, n))
      /\ ins.op \in {"LBU", "LHU", "LWU"} => rdIs(Old)
      /\ ins.op \in Stores \cup {"SC_D", "SC_W"} => New = Wrap(rs2val, n)
      /\ ins.op \in {"SC_D", "SC_W"} => rdIs(0)
      /\ ins.op \in {"AMO_D", "AMO_W"} =>
           rdIs(Old) /\ Arch!Combines(ins.params, Old, Wrap(rs2val, n), n, New)

\* One lemma for each action that accesses the memory.
LEMMA LoadIsStep ==
  ASSUME IInv, Accesses, ExecuteLoad
  PROVE  MemoryStep
<1>1. /\ ins.op \in Loads \cup {"LR_D", "LR_W"} /\ WriteBack(Loaded(ins.op, as_read))
      /\ memory' = memory /\ Execute
  BY DEF ExecuteLoad, Reads, Executing, Execute
<1>2. as_read = Old /\ Old \in Dword /\ ins.rd \in Regs
  BY <1>1, ReadIsOld, AccessIs
<1>3. rdIs(Loaded(ins.op, Old))
  BY <1>1, <1>2, Destination DEF rdIs, IInv
<1>4. ins.op \in {"LB", "LH", "LW", "LD", "LR_W", "LR_D"} =>
        Loaded(ins.op, Old) = SignExtend(Old, B * Size(ins.op))
  <2>1. CASE ins.op \in {"LD", "LR_D"}
    <3>1. B * Size(ins.op) = X /\ Loaded(ins.op, Old) = Old
      BY <2>1, WidthsAre DEF Size, X, Loaded
    <3> QED
      BY <1>2, <3>1, NotExtended
  <2>2. CASE ins.op \in {"LB", "LH", "LW", "LR_W"}
    BY <2>2 DEF Loaded
  <2> QED
    BY <2>1, <2>2
<1>5. ins.op \in {"LBU", "LHU", "LWU"} => Loaded(ins.op, Old) = Old
  BY DEF Loaded
<1>6. ins.op \notin Stores \cup {"SC_D", "SC_W"} /\ ins.op \notin {"AMO_D", "AMO_W"}
  BY <1>1 DEF Loads, Stores
<1> QED
  BY <1>1, <1>3, <1>4, <1>5, <1>6 DEF MemoryStep, Local

LEMMA StoreIsStep ==
  ASSUME IInv, Accesses, ExecuteStore
  PROVE  MemoryStep
<1>1. ins.op \in Stores /\ memory' = Written(rs2val, "NONE") /\ Execute
  BY DEF ExecuteStore, Reads, Executing, Execute
<1>2. New = Wrap(rs2val, B * Size(ins.op)) /\ Local
  BY <1>1, StoreIsNew, AccessIs
<1> QED
  BY <1>1, <1>2 DEF MemoryStep, Loads, Stores, FpLoads

LEMMA AtomicIsStep ==
  ASSUME IInv, Accesses, ExecuteAtomic
  PROVE  MemoryStep
<1> DEFINE v == Returned(memory, mmu(Address), Size(ins.op), ins.params)
<1>1. /\ ins.op \in {"SC_D", "SC_W", "AMO_D", "AMO_W"} /\ Execute
      /\ memory' = Written(rs2val, ins.params) /\ WriteBack(v)
  BY DEF ExecuteAtomic, Reads, Executing, Execute
<1>2. ins.rd \in Regs /\ rs2val \in Dword
  BY <1>1, AccessIs
<1>3. rdIs(v)
  <2> HIDE DEF v
  <2> QED
    BY <1>1, <1>2, Destination DEF rdIs, IInv
<1>4. CASE ins.op \in {"SC_D", "SC_W"}
  <2>1. ins.params = "LR_SC"
    BY <1>1, <1>4, AccessIs
  <2>2. v = 0
    BY <2>1 DEF Returned
  <2>3. New = Wrap(rs2val, B * Size(ins.op)) /\ Local
    BY <1>1, <1>2, <2>1, StoreIsNew
  <2> QED
    BY <1>3, <1>4, <2>2, <2>3 DEF MemoryStep, Loads, FpLoads
<1>5. CASE ins.op \in {"AMO_D", "AMO_W"}
  <2>1. /\ Arch!Combines(ins.params, Old, Wrap(rs2val, B * Size(ins.op)), B * Size(ins.op), New)
        /\ Local /\ v = Old
    BY <1>1, <1>5, AmoIsNew
  <2>2. ins.op \notin Loads \cup FpLoads \cup Stores
    BY <1>5 DEF Loads, FpLoads, Stores
  <2> QED
    BY <1>3, <1>5, <2>1, <2>2 DEF MemoryStep
<1> QED
  BY <1>1, <1>4, <1>5

LEMMA FpIsStep ==
  ASSUME IInv, Accesses, ExecuteFpLoad \/ ExecuteFpStore
  PROVE  MemoryStep
<1>1. CASE ExecuteFpLoad
  <2>1. ins.op \in FpLoads /\ memory' = memory
    BY <1>1 DEF ExecuteFpLoad, Reads, Executing
  <2>2. ins.op \notin Stores /\ ins.op \notin {"LB", "LH", "LW", "LD", "LR_W", "LR_D", "LBU", "LHU",
                                             "LWU", "SC_D", "SC_W", "AMO_D", "AMO_W"}
    BY <2>1 DEF FpLoads, Stores
  <2> QED
    BY <2>1, <2>2 DEF MemoryStep, Local
<1>2. CASE ExecuteFpStore
  <2>1. /\ ins.op \in FpStores /\ Execute
        /\ \E v \in IF ins.op = "FSW" THEN Converted(rs2val, FloatBits) ELSE {freg[ins.rs2]} :
             memory' = Written(v, "NONE")
    BY <1>2 DEF ExecuteFpStore, Reads, Executing, Execute
  <2>2. (IF ins.op = "FSW" THEN Converted(rs2val, FloatBits) ELSE {freg[ins.rs2]}) \subseteq Dword
    <3>1. rs2val \in Dword /\ ins.rs2 \in Regs
      BY <1>2, InsIs DEF ExecuteFpStore, Reads
    <3> QED
      BY <3>1, PrecisionIs, ConvertedFits DEF IInv, TypeOK
  <2>3. PICK v \in Dword : memory' = Written(v, "NONE")
    BY <2>1, <2>2
  <2>4. Local
    BY <2>1, <2>3, StoreIsNew
  <2>5. ins.op \notin Loads \cup FpLoads \cup Stores
        /\ ins.op \notin {"LB", "LH", "LW", "LD", "LR_W", "LR_D", "LBU", "LHU",
                          "LWU", "SC_D", "SC_W", "AMO_D", "AMO_W"}
    BY <2>1 DEF Loads, FpLoads, FpStores, Stores
  <2> QED
    BY <2>4, <2>5 DEF MemoryStep
<1> QED
  BY <1>1, <1>2

\* Loads, stores and atomic operations that stay in one page do what the
\* architecture says, however virtual and physical pages are arranged
\* (as_read, as_write, ram_read, ram_write, _amo32, _amo64).
THEOREM MemoryMeetsArch == Spec => MemoryIsArchitectural
<1> DEFINE size  == Arch!AccessSize(ins.op)
           n     == B * size
           place == Places(Address, size)
           old   == Number([i \in 0 .. size - 1 |-> memory[place[i]]], size)
           new   == Number([i \in 0 .. size - 1 |-> memory'[place[i]]], size)
           data  == Wrap(rs2val, n)
           Is(v) == ins.rd # 0 => reg'[ins.rd] = v
           Step  == Executed /\ ins.op \in MemoryOps /\ mmu(Address) # Fault
                      /\ (Address % PageSize) + size <= PageSize =>
                      /\ \A a \in DOMAIN memory :
                           memory'[a] # memory[a] => \E i \in 0 .. size - 1 : a = place[i]
                      /\ ins.op \in Loads \cup FpLoads \cup {"LR_D", "LR_W"} => memory' = memory
                      /\ ins.op \in {"LB", "LH", "LW", "LD", "LR_W", "LR_D"} => Is(SignExtend(old, n))
                      /\ ins.op \in {"LBU", "LHU", "LWU"} => Is(old)
                      /\ ins.op \in Stores \cup {"SC_D", "SC_W"} => new = data
                      /\ ins.op \in {"SC_D", "SC_W"} => Is(0)
                      /\ ins.op \in {"AMO_D", "AMO_W"} =>
                           Is(old) /\ Arch!Combines(ins.params, old, data, n, new)
<1>1. ASSUME IInv, Next PROVE Step
  <2>1. ins.op \in MemoryOps => size = Size(ins.op)
    BY DEF MemoryOps, Loads, Stores, Atomics, FpLoads, FpStores, Size, Arch!AccessSize
  <2>2. ASSUME Accesses PROVE MemoryStep
    <3>1. Execute
      BY <1>1, <2>2 DEF Accesses, Executed, Next, Decode, Switch
    <3>2. ins.op \in MemoryOps /\ mmu(Address) # Fault
      BY <2>2 DEF Accesses
    <3>3. ExecuteLoad \/ ExecuteStore \/ ExecuteAtomic \/ ExecuteFpLoad \/ ExecuteFpStore
      <4>1. CASE ExecuteArith \/ ExecuteMulDiv \/ ExecuteUpper \/ ExecuteNothing \/ ExecuteBadOp
                 \/ ExecuteJump \/ ExecuteBranch \/ ExecuteFmv \/ csr_update \/ CsrAbsent \/ CsrUnknown
        <5>1. PICK ops \in {ImmOps \cup RegOps, MulDivOps, {"LUI", "AUIPC"}, NoOps, {"EBREAK"},
                            {"JAL", "JALR"}, Branches, {"FMV_W_X"}, CsrOps} : Executing(ops)
          BY <4>1 DEF ExecuteArith, ExecuteMulDiv, ExecuteUpper, ExecuteNothing, ExecuteBadOp,
                      ExecuteJump, ExecuteBranch, ExecuteFmv, csr_update, CsrAbsent, CsrUnknown
        <5>2. ins.op \in ops
          BY <5>1 DEF Executing
        <5>3. ops \cap MemoryOps = {}
          BY <5>1 DEF ImmOps, RegOps, MulDivOps, NoOps, Branches, MemoryOps, Loads, Stores, Atomics,
                      FpLoads, FpStores, CsrOps
        <5> QED
          BY <3>2, <5>2, <5>3
      <4>2. ~AccessFault
        BY <3>2 DEF AccessFault
      <4> QED
        BY <3>1, <4>1, <4>2 DEF Execute
    <3> QED
      BY <1>1, <2>2, <3>3, LoadIsStep, StoreIsStep, AtomicIsStep, FpIsStep
  <2> SUFFICES ASSUME Executed, ins.op \in MemoryOps, mmu(Address) # Fault,
                      (Address % PageSize) + size <= PageSize
               PROVE  Step
    OBVIOUS
  <2>3. MemoryStep
    BY <2>1, <2>2 DEF Accesses
  <2>4. size = Size(ins.op)
    BY <2>1
  <2> QED
    BY <2>3, <2>4, Zenon DEF MemoryStep, Local, Old, New, rdIs
<1>2. IInv /\ [Next]_vars => [Step]_vars
  BY <1>1
<1>3. [][Step]_vars => MemoryIsArchitectural
  BY PTL DEF MemoryIsArchitectural
<1> QED
  BY <1>2, <1>3, Invariance, PTL DEF Spec

-----------------------------------------------------------------------------
(* Two threads that increment a counter under a lock.                      *)

\* The k-th instruction of a thread; the 6th is the end.
At(k) == ThreadAt + 4 * k

\* The words of the guest.
LockWord == ram_read(memory, mmu(LockAddr), 4)
Counter  == ram_read(memory, mmu(CounterAddr), 4)

Self == [pc |-> pc, reg |-> reg]

\* A thread holds the lock from the swap that finds it free to its last store.
Holds(t) == t.pc \in {At(2), At(3), At(4), At(5)} \/ (t.pc = At(1) /\ t.reg[2] = 0)

\* What it has added to the counter.
Counted(t) == IF t.pc \in {At(5), At(6)} THEN 1 ELSE 0

\* Between its load and its store, its register and the counter agree.
ThreadOK(t) == /\ t.pc \in {At(k) : k \in 0 .. 6}
               /\ t.reg[1] = LockAddr /\ t.reg[3] = 1
               /\ t.pc = At(1) => t.reg[2] \in {0, 1}
               /\ t.pc = At(3) => t.reg[2] = Counter
               /\ t.pc = At(4) => t.reg[2] = Counter + 1

\* The lock is taken exactly while one of the threads holds it.
Guarded == /\ ThreadOK(Self) /\ ThreadOK(other)
           /\ ~(Holds(Self) /\ Holds(other))
           /\ LockWord = IF Holds(Self) \/ Holds(other) THEN 1 ELSE 0
           /\ Counter = Counted(Self) + Counted(other)

\* The guest is one of those that never switch.
NeverSwitches == other.pc \notin DOMAIN Code \cup {End(Locked)}

\* The decoded instruction is the one at pc.
InsHere == ins # NoIns => pc \in DOMAIN Code /\ ins \in Code[pc]

LInv == InsHere /\ (Guarded \/ NeverSwitches)

-----------------------------------------------------------------------------
\* The code of the threads.
LEMMA GuestIs ==
  ASSUME LockedGuest
  PROVE  /\ ThreadAt \in Nat /\ End(Locked) = At(6) /\ At(6) \in Dword \ DOMAIN Code
         /\ \A k \in 0 .. 5 : At(k) \in DOMAIN Code /\ Code[At(k)] = Locked[k + 1]
         /\ {End(Locked), End(Reserved)} \ DOMAIN Code = {At(6)}
         /\ LockAddr \in Dword /\ mmu(LockAddr) # Fault /\ mmu(CounterAddr) # Fault
         /\ (LockAddr % PageSize) + 8 <= PageSize
<1>1. /\ ThreadAt \in Nat /\ End(Locked) \in Dword \ DOMAIN Code
      /\ LockAddr \in Dword /\ mmu(LockAddr) # Fault /\ (LockAddr % PageSize) + 8 <= PageSize
      /\ mmu(CounterAddr) # Fault
      /\ DOMAIN Program(Locked) \subseteq DOMAIN Code
      /\ \A l \in DOMAIN Program(Locked) : Code[l] = Program(Locked)[l]
  BY Zenon DEF LockedGuest
<1>2. Len(Locked) = 6 /\ DOMAIN Locked = 1 .. 6 /\ Len(Reserved) = 4
  BY DEF Locked, Reserved
<1>3. End(Locked) = At(6) /\ End(Reserved) = At(4)
  BY <1>1, <1>2 DEF End, At
<1>4. ASSUME NEW k \in 0 .. 5
      PROVE  At(k) \in DOMAIN Program(Locked) /\ Program(Locked)[At(k)] = Locked[k + 1]
  <2>1. k + 1 \in DOMAIN Locked /\ At(k) = ThreadAt + (4 * ((k + 1) - 1))
    BY <1>1, <1>2 DEF At
  <2>2. At(k) \in {ThreadAt + (4 * (i - 1)) : i \in DOMAIN Locked}
    BY <2>1
  <2>3. ((At(k) - ThreadAt) \div 4) + 1 = k + 1
    BY <1>1 DEF At
  <2> QED
    BY <2>2, <2>3 DEF Program
<1>5. \A k \in 0 .. 5 : At(k) \in DOMAIN Code /\ Code[At(k)] = Locked[k + 1]
  BY <1>1, <1>4
<1> QED
  BY <1>1, <1>3, <1>5

\* The locations of a thread are different numbers.
LEMMA AtIs ==
  ASSUME LockedGuest
  PROVE  /\ \A k \in 0 .. 6 : At(k) \in Dword /\ At(k) \in Nat
         /\ \A k \in 0 .. 6, l \in 0 .. 6 : At(k) = At(l) => k = l
         /\ \A k \in 0 .. 5 : Wrap(At(k) + 4, X) = At(k + 1)
         /\ Wrap(At(1) + Back(4), X) = At(0)
<1>1. ThreadAt \in Nat /\ At(6) \in Dword
  BY GuestIs
<1> DEFINE p == 2^X
<1>2. p \in Nat \ {0} /\ At(6) \in 0 .. p - 1
  BY <1>1, PowerIs, WidthsAre DEF Dword
<1>3. \A k \in 0 .. 6 : At(k) \in 0 .. p - 1 /\ At(k) \in Nat
  <2> HIDE DEF p
  <2> QED
    BY <1>1, <1>2 DEF At
<1>4. \A k \in 0 .. 6, l \in 0 .. 6 : At(k) = At(l) => k = l
  BY <1>1 DEF At
<1>5. ASSUME NEW k \in 0 .. 5 PROVE Wrap(At(k) + 4, X) = At(k + 1)
  <2>1. At(k) + 4 = At(k + 1) /\ k + 1 \in 0 .. 6
    BY <1>1 DEF At
  <2>2. At(k + 1) \in 0 .. p - 1
    BY <1>3, <2>1
  <2>3. X \in 0 .. X
    BY WidthsAre
  <2> QED
    BY <2>1, <2>2, <2>3, WrapKeeps
<1>6. Wrap(At(1) + Back(4), X) = At(0)
  <2>1. At(1) + (p - 4) = At(0) + p
    BY <1>1, <1>2 DEF At
  <2>2. (At(0) + p) % p = At(0)
    <3>1. At(0) \in 0 .. p - 1
      BY <1>3
    <3> DEFINE a == At(0)
    <3> HIDE DEF a, p
    <3>2. a + p = p * 1 + a /\ 1 \in Int
      BY <1>2, <3>1 DEF a
    <3> QED
      BY <1>2, <3>1, <3>2, DivModIs DEF a
  <2> QED
    BY <2>1, <2>2 DEF Wrap, Back, p
<1> QED
  BY <1>3, <1>4, <1>5, <1>6 DEF Dword, p

\* The counter is in the page of the lock, 4 bytes behind it.
LEMMA CounterIs ==
  ASSUME LockedGuest
  PROVE  /\ CounterAddr \in Dword /\ Wrap(LockAddr + 4, X) = CounterAddr
         /\ Wrap(LockAddr + 0, X) = LockAddr
         /\ mmu(CounterAddr) = mmu(LockAddr) + 4 /\ mmu(CounterAddr) # Fault
         /\ (LockAddr % PageSize) + 4 <= PageSize /\ (CounterAddr % PageSize) + 4 <= PageSize
         /\ mmu(LockAddr) \in Nat
<1> DEFINE P == PageSize  p == 2^X  v == LockAddr \div P  off == LockAddr % P  M == p \div P
           frame == PageTable[v]
<1>1. /\ P \in Nat \ {0} /\ p \in Nat \ {0} /\ p % P = 0 /\ LockAddr \in 0 .. p - 1
      /\ LockAddr \in Nat /\ mmu(LockAddr) # Fault /\ off + 8 <= P
  BY GuestIs, RamAssumption, PowerIs, WidthsAre, FitsDword DEF Dword
<1>2. frame # Fault /\ mmu(LockAddr) = frame * P + off /\ v \in DOMAIN PageTable
  BY GuestIs, RamAssumption DEF mmu
<1>3. frame \in Nat
  BY <1>2, RamAssumption
<1> HIDE DEF P, p, frame
<1>4. v \in Nat /\ off \in 0 .. P - 1 /\ LockAddr = P * v + off
  BY <1>1
<1>5. M \in Nat /\ p = P * M
  BY <1>1
<1> HIDE DEF v, off, M
<1>6. CounterAddr = P * v + (off + 4) /\ off + 4 \in 0 .. P - 1
  BY <1>1, <1>4 DEF CounterAddr
<1>7. CounterAddr \in 0 .. p - 1
  <2>1. v < M
    <3> SUFFICES ASSUME v >= M PROVE FALSE
      BY <1>4, <1>5
    <3>1. v - M \in Nat /\ P * v = P * M + P * (v - M)
      BY <1>1, <1>4, <1>5
    <3>2. P * (v - M) \in Nat /\ P * M \in Nat
      BY <1>1, <1>5, <3>1
    <3> QED
      BY <1>1, <1>4, <1>5, <3>1, <3>2
  <2>2. M - v - 1 \in Nat /\ P * M = P * v + P + P * (M - v - 1)
    BY <1>1, <1>4, <1>5, <2>1
  <2>3. P * (M - v - 1) \in Nat /\ P * v \in Nat
    BY <1>1, <1>4, <2>2
  <2> QED
    BY <1>1, <1>5, <1>6, <2>2, <2>3
<1>8. CounterAddr \div P = v /\ CounterAddr % P = off + 4
  <2> DEFINE r == off + 4
  <2>1. r \in 0 .. P - 1 /\ CounterAddr = P * v + r /\ v \in Int
    BY <1>4, <1>6
  <2> HIDE DEF r
  <2>2. (P * v + r) % P = r /\ (P * v + r) \div P = v
    BY <1>1, <2>1, DivModIs
  <2> QED
    BY <2>1, <2>2 DEF r
<1>9. mmu(CounterAddr) = frame * P + (off + 4) /\ frame * P \in Nat
  BY <1>1, <1>2, <1>3, <1>8 DEF mmu, P, frame
<1>10. mmu(CounterAddr) = mmu(LockAddr) + 4 /\ mmu(LockAddr) \in Nat
  BY <1>2, <1>4, <1>9
<1>11. mmu(CounterAddr) # Fault
  BY GuestIs
<1>12. Wrap(LockAddr + 4, X) = CounterAddr /\ Wrap(LockAddr + 0, X) = LockAddr
  <2>1. X \in 0 .. X /\ LockAddr + 4 = CounterAddr /\ LockAddr + 0 = LockAddr
    BY <1>1, WidthsAre DEF CounterAddr
  <2>2. CounterAddr \in 0 .. 2^X - 1 /\ LockAddr \in 0 .. 2^X - 1
    BY <1>1, <1>7 DEF p
  <2> QED
    BY <2>1, <2>2, WrapKeeps
<1> QED
  BY <1>1, <1>4, <1>7, <1>8, <1>10, <1>11, <1>12 DEF Dword, p, P, off

\* Small numbers keep their value in every width.
LEMMA SmallFits ==
  ASSUME NEW v \in 0 .. 2
  PROVE  Wrap(v, W) = v /\ Wrap(v, X) = v /\ SignExtend(v, W) = v /\ v \in Dword
<1>1. 2^3 = 8 /\ 2^3 <= 2^(W - 1) /\ 2^(W - 1) \in Nat /\ 2^W = 2 * 2^(W - 1) /\ 2^W \in Nat
  <2>1. 3 \in 0 .. X /\ W - 1 \in 0 .. X - 1 /\ W - 1 \in 0 .. X /\ 3 <= W - 1 /\ (W - 1) + 1 = W
    BY WidthsAre
  <2>2. 2^3 <= 2^(W - 1) /\ 2^((W - 1) + 1) = 2 * 2^(W - 1) /\ 2^(W - 1) \in Nat
    BY <2>1, PowerGrows, PowerIs
  <2>3. 2^3 = 8
    OBVIOUS
  <2> QED
    BY <2>1, <2>2, <2>3
<1>2. 2^W <= 2^X /\ 2^X \in Nat
  BY WidthsAre, PowerGrows, PowerIs
<1>3. v \in 0 .. 2^W - 1 /\ v \in 0 .. 2^X - 1 /\ v \in (-(2^(W - 1))) .. (2^(W - 1) - 1)
  BY <1>1, <1>2
<1>4. W \in 0 .. X /\ X \in 0 .. X
  BY WidthsAre
<1>5. Wrap(v, W) = v /\ Wrap(v, X) = v
  BY <1>3, <1>4, WrapKeeps
<1>6. SignExtend(v, W) = Wrap(v, X)
  BY <1>3, SmallExtends
<1> QED
  BY <1>3, <1>5, <1>6 DEF Dword

\* Numbers whose bytes do not change, and numbers whose bytes are 0.
LEMMA SameBytes ==
  ASSUME NEW m, NEW n, NEW addr \in Nat, NEW N \in Nat,
         \A i \in 0 .. N - 1 : n[addr + i] = m[addr + i]
  PROVE  ram_read(n, addr, N) = ram_read(m, addr, N)
<1> DEFINE bytes == [i \in 0 .. N - 1 |-> m[addr + i]]
<1>1. /\ \A i \in 0 .. N - 1 : bytes[i] = m[addr + i]
      /\ \A i \in 0 .. N - 1 : bytes[i] = n[addr + i]
  OBVIOUS
<1> HIDE DEF bytes
<1>2. ram_read(m, addr, N) = Number(bytes, N)
  BY <1>1, ReadIsNumber
<1>3. ram_read(n, addr, N) = Number(bytes, N)
  BY <1>1, ReadIsNumber
<1> QED
  BY <1>2, <1>3

LEMMA ZeroWord ==
  ASSUME NEW m, NEW addr \in Nat, \A i \in 0 .. 3 : m[addr + i] = 0
  PROVE  ram_read(m, addr, 4) = 0
<1> DEFINE bytes == [i \in 0 .. 3 |-> 0]  t == ByteTerm(bytes, 4)
<1>1. ram_read(m, addr, 4) = Number(bytes, 4)
  <2> DEFINE N == 4
  <2>1. \A i \in 0 .. N - 1 : bytes[i] = m[addr + i]
    OBVIOUS
  <2>2. N \in Nat
    OBVIOUS
  <2> HIDE DEF bytes, N
  <2>3. ram_read(m, addr, N) = Number(bytes, N)
    BY <2>1, <2>2, ReadIsNumber
  <2> QED
    BY <2>3 DEF N
<1>2. PICK g : IsSum(g, t, 4) /\ Number(bytes, 4) = g[4]
  <2> HIDE DEF bytes
  <2> QED
    BY NumberIsSum
<1>3. ASSUME NEW n \in 1 .. 4 PROVE t[n] = 0
  <2>1. B * (n - 1) \in 0 .. X /\ n - 1 \in 0 .. 3
    BY WidthsAre
  <2>2. 2^(B * (n - 1)) \in Nat /\ bytes[n - 1] = 0
    BY <2>1, PowerIs
  <2> HIDE DEF bytes
  <2>3. t[n] = bytes[n - 1] * 2^(B * (n - 1))
    BY DEF ByteTerm
  <2> QED
    BY <2>2, <2>3
<1> HIDE DEF t, bytes
<1>4. g[0] = 0 /\ g[1] = 0 /\ g[2] = 0 /\ g[3] = 0 /\ g[4] = 0
  <2>1. g[0] = 0
    BY <1>2 DEF IsSum
  <2>2. \A n \in 1 .. 4 : g[n] = g[n - 1] + t[n]
    BY <1>2 DEF IsSum
  <2>3. g[1] = g[0] + t[1] /\ g[2] = g[1] + t[2] /\ g[3] = g[2] + t[3] /\ g[4] = g[3] + t[4]
    BY <2>2
  <2>4. t[1] = 0 /\ t[2] = 0 /\ t[3] = 0 /\ t[4] = 0
    BY <1>3
  <2> QED
    BY <2>1, <2>3, <2>4
<1> QED
  BY <1>1, <1>2, <1>4

-----------------------------------------------------------------------------
\* The fields of an instruction.
LEMMA FieldsOfIns ==
  ASSUME NEW op, NEW rd, NEW rs1, NEW rs2, NEW imm
  PROVE  LET i == Ins(op, rd, rs1, rs2, imm)
         IN  /\ i.op = op /\ i.rd = rd /\ i.rs1 = rs1 /\ i.rs2 = rs2 /\ i.imm = imm /\ i.len = 4
             /\ LET j == [i EXCEPT !.params = "SWAP"]
                IN  /\ j.op = op /\ j.rd = rd /\ j.rs1 = rs1 /\ j.rs2 = rs2 /\ j.imm = imm
                    /\ j.len = 4 /\ j.params = "SWAP"
BY DEF Ins, Plain

\* The instruction of each location.
LEMMA GuestCode ==
  ASSUME LockedGuest, InsHere, ins # NoIns
  PROVE  /\ pc = At(0) => /\ ins.op = "AMO_W" /\ ins.params = "SWAP" /\ ins.len = 4
                          /\ ins.rd = 2 /\ ins.rs1 = 1 /\ ins.rs2 = 3
         /\ pc = At(1) => /\ ins.op = "BNE" /\ ins.imm = Back(4) /\ ins.len = 4
                          /\ ins.rs1 = 2 /\ ins.rs2 = 0
         /\ pc = At(2) => /\ ins.op = "LW" /\ ins.imm = 4 /\ ins.len = 4
                          /\ ins.rd = 2 /\ ins.rs1 = 1
         /\ pc = At(3) => /\ ins.op = "ADDI" /\ ins.imm = 1 /\ ins.len = 4
                          /\ ins.rd = 2 /\ ins.rs1 = 2
         /\ pc = At(4) => /\ ins.op = "SW" /\ ins.imm = 4 /\ ins.len = 4
                          /\ ins.rs1 = 1 /\ ins.rs2 = 2
         /\ pc = At(5) => /\ ins.op = "SW" /\ ins.imm = 0 /\ ins.len = 4
                          /\ ins.rs1 = 1 /\ ins.rs2 = 0
<1>1. ASSUME NEW k \in 0 .. 5, pc = At(k) PROVE ins \in Locked[k + 1]
  BY <1>1, GuestIs DEF InsHere
<1>2. ASSUME pc = At(0)
      PROVE  ins.op = "AMO_W" /\ ins.params = "SWAP" /\ ins.len = 4
        /\ ins.rd = 2 /\ ins.rs1 = 1 /\ ins.rs2 = 3
  <2>1. ins = [Ins("AMO_W", 2, 1, 3, 0) EXCEPT !.params = "SWAP"]
    BY <1>1, <1>2 DEF Locked
  <2> QED
    BY <2>1, FieldsOfIns
<1>3. ASSUME pc = At(1)
      PROVE  ins.op = "BNE" /\ ins.imm = Back(4) /\ ins.len = 4 /\ ins.rs1 = 2 /\ ins.rs2 = 0
  <2>1. ins = Ins("BNE", 0, 2, 0, Back(4))
    BY <1>1, <1>3 DEF Locked
  <2> QED
    BY <2>1, FieldsOfIns
<1>4. ASSUME pc = At(2)
      PROVE  ins.op = "LW" /\ ins.imm = 4 /\ ins.len = 4 /\ ins.rd = 2 /\ ins.rs1 = 1
  <2>1. ins = Ins("LW", 2, 1, 0, 4)
    BY <1>1, <1>4 DEF Locked
  <2> QED
    BY <2>1, FieldsOfIns
<1>5. ASSUME pc = At(3)
      PROVE  ins.op = "ADDI" /\ ins.imm = 1 /\ ins.len = 4 /\ ins.rd = 2 /\ ins.rs1 = 2
  <2>1. ins = Ins("ADDI", 2, 2, 0, 1)
    BY <1>1, <1>5 DEF Locked
  <2> QED
    BY <2>1, FieldsOfIns
<1>6. ASSUME pc = At(4)
      PROVE  ins.op = "SW" /\ ins.imm = 4 /\ ins.len = 4 /\ ins.rs1 = 1 /\ ins.rs2 = 2
  <2>1. ins = Ins("SW", 0, 1, 2, 4)
    BY <1>1, <1>6 DEF Locked
  <2> QED
    BY <2>1, FieldsOfIns
<1>7. ASSUME pc = At(5)
      PROVE  ins.op = "SW" /\ ins.imm = 0 /\ ins.len = 4 /\ ins.rs1 = 1 /\ ins.rs2 = 0
  <2>1. ins = Ins("SW", 0, 1, 0, 0)
    BY <1>1, <1>7 DEF Locked
  <2> QED
    BY <2>1, FieldsOfIns
<1> QED
  BY <1>2, <1>3, <1>4, <1>5, <1>6, <1>7, Zenon

\* The action that executes it.
LEMMA RunsAs ==
  ASSUME Execute, ins.op \in MemoryOps => mmu(Address) # Fault
  PROVE  /\ Executed /\ other' = other
         /\ ins.op = "BNE" => ExecuteBranch
         /\ ins.op = "ADDI" => ExecuteArith
         /\ ins.op = "LW" => ExecuteLoad
         /\ ins.op = "SW" => ExecuteStore
         /\ ins.op = "AMO_W" => ExecuteAtomic
<1> DEFINE mine == {"BNE", "ADDI", "LW", "SW", "AMO_W"}
<1>1. CASE ExecuteMulDiv \/ ExecuteUpper \/ ExecuteNothing \/ ExecuteBadOp
           \/ ExecuteJump \/ ExecuteFmv \/ csr_update \/ CsrAbsent \/ CsrUnknown
           \/ ExecuteFpLoad \/ ExecuteFpStore
  <2>1. PICK ops \in {MulDivOps, {"LUI", "AUIPC"}, NoOps, {"EBREAK"}, {"JAL", "JALR"},
                      {"FMV_W_X"}, CsrOps, FpLoads, FpStores} : Executing(ops)
    BY <1>1 DEF ExecuteMulDiv, ExecuteUpper, ExecuteNothing, ExecuteBadOp, ExecuteJump,
                ExecuteFmv, csr_update, CsrAbsent, CsrUnknown, ExecuteFpLoad, ExecuteFpStore, Reads
  <2>2. ins.op \in ops /\ Executed /\ other' = other
    BY <2>1 DEF Executing, Executed
  <2>3. ops \cap mine = {}
    BY <2>1 DEF MulDivOps, NoOps, CsrOps, FpLoads, FpStores
  <2> QED
    BY <2>2, <2>3
<1>2. CASE AccessFault
  BY <1>2 DEF AccessFault, Executing
<1>3. CASE ExecuteArith
  <2>1. ins.op \in ImmOps \cup RegOps /\ Executed /\ other' = other
    BY <1>3 DEF ExecuteArith, Executing, Executed
  <2> QED
    BY <1>3, <2>1 DEF ImmOps, RegOps
<1>4. CASE ExecuteBranch
  <2>1. ins.op \in Branches /\ Executed /\ other' = other
    BY <1>4 DEF ExecuteBranch, Executing, Executed
  <2> QED
    BY <1>4, <2>1 DEF Branches
<1>5. CASE ExecuteLoad
  <2>1. ins.op \in Loads \cup {"LR_D", "LR_W"} /\ Executed /\ other' = other
    BY <1>5 DEF ExecuteLoad, Reads, Executing, Executed
  <2> QED
    BY <1>5, <2>1 DEF Loads
<1>6. CASE ExecuteStore
  <2>1. ins.op \in Stores /\ Executed /\ other' = other
    BY <1>6 DEF ExecuteStore, Reads, Executing, Executed
  <2> QED
    BY <1>6, <2>1 DEF Stores
<1>7. CASE ExecuteAtomic
  <2>1. ins.op \in {"SC_D", "SC_W", "AMO_D", "AMO_W"} /\ Executed /\ other' = other
    BY <1>7 DEF ExecuteAtomic, Reads, Executing, Executed
  <2> QED
    BY <1>7, <2>1
<1> QED
  BY <1>1, <1>2, <1>3, <1>4, <1>5, <1>6, <1>7 DEF Execute

\* An access to one of the two words leaves the other one alone.
LEMMA WordAccess ==
  ASSUME IInv, LockedGuest, Execute, ins.op \in {"LW", "SW", "AMO_W"},
         Address \in {LockAddr, CounterAddr}
  PROVE  /\ MemoryStep /\ Executed /\ other' = other
         /\ ins.op = "LW" => ExecuteLoad
         /\ ins.op = "SW" => ExecuteStore
         /\ ins.op = "AMO_W" => ExecuteAtomic
         /\ B * Size(ins.op) = W
         /\ Old = ram_read(memory, mmu(Address), 4)
         /\ New = ram_read(memory', mmu(Address), 4)
         /\ Address = LockAddr => Counter' = Counter
         /\ Address = CounterAddr => LockWord' = LockWord
<1>1. /\ mmu(Address) # Fault /\ (Address % PageSize) + 4 <= PageSize
      /\ mmu(Address) \in Nat /\ mmu(LockAddr) \in Nat /\ mmu(CounterAddr) = mmu(LockAddr) + 4
  BY GuestIs, CounterIs
<1>2. /\ Executed /\ other' = other
      /\ ins.op = "LW" => ExecuteLoad
      /\ ins.op = "SW" => ExecuteStore
      /\ ins.op = "AMO_W" => ExecuteAtomic
  BY <1>1, RunsAs
<1>3. Size(ins.op) = 4
  BY DEF Size
<1>4. B * Size(ins.op) = W
  BY <1>3, WidthsAre
<1>5. ins.op \in MemoryOps
  BY DEF MemoryOps, Loads, Stores, Atomics
<1>6. Accesses
  BY <1>1, <1>2, <1>3, <1>5 DEF Accesses
<1>7. MemoryStep
  BY <1>2, <1>6, LoadIsStep, StoreIsStep, AtomicIsStep
<1>8. \A i \in 0 .. 3 : Places(Address, 4)[i] = mmu(Address) + i
  <2>1. \A i \in 0 .. 4 - 1 : Places(Address, 4)[i] = mmu(Address) + i
    BY <1>3, <1>6, AccessIs
  <2> QED
    BY <2>1
<1>9. Old = ram_read(memory, mmu(Address), 4)
  <2> DEFINE N == 4  w == mmu(Address)
             bytes == [i \in 0 .. N - 1 |-> memory[Places(Address, N)[i]]]
  <2>1. Old = Number(bytes, N)
    BY <1>3 DEF Old
  <2>2. N \in Nat /\ w \in Nat /\ \A i \in 0 .. N - 1 : bytes[i] = memory[w + i]
    BY <1>1, <1>8
  <2> HIDE DEF N, w, bytes
  <2>3. ram_read(memory, w, N) = Number(bytes, N)
    BY <2>2, ReadIsNumber
  <2> QED
    BY <2>1, <2>3 DEF N, w
<1>10. New = ram_read(memory', mmu(Address), 4)
  <2> DEFINE N == 4  w == mmu(Address)
             bytes == [i \in 0 .. N - 1 |-> memory'[Places(Address, N)[i]]]
  <2>1. New = Number(bytes, N)
    BY <1>3 DEF New
  <2>2. N \in Nat /\ w \in Nat /\ \A i \in 0 .. N - 1 : bytes[i] = memory'[w + i]
    BY <1>1, <1>8
  <2> HIDE DEF N, w, bytes
  <2>3. ram_read(memory', w, N) = Number(bytes, N)
    BY <2>2, ReadIsNumber
  <2> QED
    BY <2>1, <2>3 DEF N, w
<1>11. ASSUME NEW word \in {LockAddr, CounterAddr}, word # Address
       PROVE  ram_read(memory', mmu(word), 4) = ram_read(memory, mmu(word), 4)
  <2> DEFINE N == 4  w == mmu(word)
  <2>1. /\ word \in Dword /\ mmu(word) # Fault /\ w \in Nat
        /\ \/ w = mmu(Address) + 4
           \/ mmu(Address) = w + 4
    BY <1>1, <1>11, GuestIs, CounterIs
  <2>2. \A i \in 0 .. 3 : w + i \in DOMAIN memory
    <3>1. Inside(memory, w, 4)
      BY <2>1, AccessInside DEF IInv, Sizes
    <3>2. \A i \in 0 .. 4 - 1 : w + i \in DOMAIN memory
      BY <3>1 DEF Inside
    <3> QED
      BY <3>2
  <2>3. \A a \in DOMAIN memory : memory'[a] # memory[a] => \E i \in 0 .. 3 : a = mmu(Address) + i
    <3>1. \A a \in DOMAIN memory : memory'[a] # memory[a] =>
            \E i \in 0 .. 4 - 1 : a = Places(Address, 4)[i]
      BY <1>3, <1>7 DEF MemoryStep, Local
    <3> QED
      BY <1>8, <3>1
  <2>4. N \in Nat /\ \A i \in 0 .. N - 1 : memory'[w + i] = memory[w + i]
    <3> SUFFICES ASSUME NEW i \in 0 .. 3, memory'[w + i] # memory[w + i] PROVE FALSE
      OBVIOUS
    <3> HIDE DEF w
    <3>1. PICK j \in 0 .. 3 : w + i = mmu(Address) + j
      BY <2>2, <2>3
    <3> QED
      BY <1>1, <2>1, <3>1
  <2> HIDE DEF N, w
  <2>5. ram_read(memory', w, N) = ram_read(memory, w, N)
    BY <2>1, <2>4, SameBytes
  <2> QED
    BY <2>5 DEF N, w
<1>12. LockAddr # CounterAddr
  <2>1. LockAddr \in Nat
    BY GuestIs, FitsDword
  <2> QED
    BY <2>1 DEF CounterAddr
<1> QED
  BY <1>2, <1>4, <1>7, <1>9, <1>10, <1>11, <1>12 DEF LockWord, Counter

-----------------------------------------------------------------------------
(* What each instruction of a thread does to its registers and the words.  *)

Runs == /\ IInv /\ LockedGuest /\ InsHere /\ ins # NoIns /\ Execute
        /\ reg[1] = LockAddr /\ reg[3] = 1

\* An instruction without a destination changes no register, others only register 2.
LEMMA RegistersAfter ==
  ASSUME Runs
  PROVE  /\ ins.rd = 2 => reg'[1] = LockAddr /\ reg'[3] = 1
         /\ ExecuteBranch \/ ExecuteStore => reg' = reg
         /\ GoesOn /\ ins.len = 4 => pc' = Wrap(pc + 4, X)
<1>1. ins.rd = 2 => reg'[1] = LockAddr /\ reg'[3] = 1
  <2>1. \A r \in Regs \ {ins.rd} : reg'[r] = reg[r]
    BY OneRegisterChanges DEF Runs, OneRegister
  <2> QED
    BY <2>1 DEF Runs, Regs
<1>2. ExecuteBranch \/ ExecuteStore => reg' = reg
  BY DEF ExecuteBranch, ExecuteStore, state
<1> QED
  BY <1>1, <1>2 DEF GoesOn, next_pc

\* AMO_W takes the lock or finds it taken; it leaves it taken.
LEMMA SwapStep ==
  ASSUME Runs, pc = At(0)
  PROVE  /\ pc' = At(1) /\ reg'[1] = LockAddr /\ reg'[3] = 1 /\ other' = other
         /\ reg'[2] = LockWord /\ LockWord' = 1 /\ Counter' = Counter
<1>1. /\ ins.op = "AMO_W" /\ ins.params = "SWAP" /\ ins.len = 4
      /\ ins.rd = 2 /\ ins.rs1 = 1 /\ ins.rs2 = 3
  BY GuestCode DEF Runs
<1>2. Address = LockAddr /\ rs2val = 1
  BY <1>1 DEF Address, Atomics, rs1val, rs2val, Runs
<1>3. /\ MemoryStep /\ other' = other /\ ExecuteAtomic /\ B * Size(ins.op) = W
      /\ Old = LockWord /\ New = LockWord' /\ Counter' = Counter
  BY <1>1, <1>2, WordAccess DEF Runs, LockWord
<1>4. reg'[2] = LockWord
  BY <1>1, <1>3 DEF MemoryStep, rdIs
<1>5. LockWord' = 1
  <2>1. Arch!Combines("SWAP", Old, Wrap(rs2val, W), W, New)
    BY <1>1, <1>3 DEF MemoryStep
  <2>2. New = Wrap(rs2val, W)
    BY <2>1 DEF Arch!Combines
  <2> QED
    BY <1>2, <1>3, <2>2, SmallFits
<1>6. pc' = At(1)
  <2>1. pc' = Wrap(At(0) + 4, X)
    BY <1>1, <1>3, RegistersAfter DEF ExecuteAtomic
  <2> QED
    BY <2>1, AtIs DEF Runs
<1> QED
  BY <1>1, <1>3, <1>4, <1>5, <1>6, RegistersAfter

\* BNE goes back while the lock is taken.
LEMMA RetryStep ==
  ASSUME Runs, pc = At(1)
  PROVE  /\ pc' = (IF reg[2] = 0 THEN At(2) ELSE At(0)) /\ reg' = reg /\ other' = other
         /\ LockWord' = LockWord /\ Counter' = Counter
<1>1. ins.op = "BNE" /\ ins.imm = Back(4) /\ ins.len = 4 /\ ins.rs1 = 2 /\ ins.rs2 = 0
  BY GuestCode DEF Runs
<1>2. ExecuteBranch /\ other' = other
  <2>1. ins.op \notin MemoryOps
    BY <1>1 DEF MemoryOps, Loads, Stores, Atomics, FpLoads, FpStores
  <2> QED
    BY <1>1, <2>1, RunsAs DEF Runs
<1>3. reg' = reg /\ memory' = memory
      /\ pc' = IF Condition(ins.op, rs1val, rs2val) THEN Target ELSE next_pc
  BY <1>2 DEF ExecuteBranch, state
<1>4. Condition(ins.op, rs1val, rs2val) <=> reg[2] # 0
  <2>1. reg[0] = 0
    BY DEF Runs, IInv, TypeOK
  <2> QED
    BY <1>1, <2>1 DEF Condition, rs1val, rs2val
<1>5. Target = At(0) /\ next_pc = At(2)
  BY <1>1, AtIs DEF Target, next_pc, Runs
<1>6. LockWord' = LockWord /\ Counter' = Counter
  BY <1>3 DEF LockWord, Counter
<1> QED
  BY <1>2, <1>3, <1>4, <1>5, <1>6

\* LW reads the counter.
LEMMA LoadStep ==
  ASSUME Runs, pc = At(2), Counter \in 0 .. 2
  PROVE  /\ pc' = At(3) /\ reg'[1] = LockAddr /\ reg'[3] = 1 /\ other' = other
         /\ reg'[2] = Counter /\ LockWord' = LockWord /\ Counter' = Counter
<1>1. ins.op = "LW" /\ ins.imm = 4 /\ ins.len = 4 /\ ins.rd = 2 /\ ins.rs1 = 1
  BY GuestCode DEF Runs
<1>2. Address = CounterAddr
  BY <1>1, CounterIs DEF Address, Atomics, rs1val, Runs
<1>3. /\ MemoryStep /\ other' = other /\ ExecuteLoad /\ B * Size(ins.op) = W
      /\ Old = Counter /\ New = Counter'
  BY <1>1, <1>2, WordAccess DEF Runs, Counter
<1>4. reg'[2] = Counter
  <2>1. reg'[2] = SignExtend(Old, W)
    BY <1>1, <1>3 DEF MemoryStep, rdIs
  <2> QED
    BY <1>3, <2>1, SmallFits
<1>5. LockWord' = LockWord /\ Counter' = Counter
  <2>1. memory' = memory
    BY <1>3 DEF ExecuteLoad
  <2> QED
    BY <2>1 DEF LockWord, Counter
<1>6. pc' = At(3)
  <2>1. pc' = Wrap(At(2) + 4, X)
    BY <1>1, <1>3, RegistersAfter DEF ExecuteLoad
  <2> QED
    BY <2>1, AtIs DEF Runs
<1> QED
  BY <1>1, <1>3, <1>4, <1>5, <1>6, RegistersAfter

\* ADDI adds 1 to what was read.
LEMMA AddStep ==
  ASSUME Runs, pc = At(3), reg[2] \in 0 .. 1
  PROVE  /\ pc' = At(4) /\ reg'[1] = LockAddr /\ reg'[3] = 1 /\ other' = other
         /\ reg'[2] = reg[2] + 1 /\ LockWord' = LockWord /\ Counter' = Counter
<1>1. ins.op = "ADDI" /\ ins.imm = 1 /\ ins.len = 4 /\ ins.rd = 2 /\ ins.rs1 = 2
  BY GuestCode DEF Runs
<1>2. ExecuteArith /\ other' = other
  <2>1. ins.op \notin MemoryOps
    BY <1>1 DEF MemoryOps, Loads, Stores, Atomics, FpLoads, FpStores
  <2> QED
    BY <1>1, <2>1, RunsAs DEF Runs
<1>3. WriteBack(Arith(ins.op, rs1val, Operand)) /\ GoesOn /\ memory' = memory
  BY <1>2 DEF ExecuteArith
<1>4. Arith(ins.op, rs1val, Operand) = Wrap(reg[2] + 1, X)
  <2>1. rs1val = reg[2] /\ Operand = 1
    BY <1>1 DEF rs1val, Operand, ImmOps
  <2> QED
    BY <1>1, <2>1 DEF Arith
<1>5. reg'[2] = reg[2] + 1
  <2>1. Wrap(reg[2] + 1, X) = reg[2] + 1
    BY SmallFits
  <2>2. reg'[2] = Arith(ins.op, rs1val, Operand)
    BY <1>1, <1>3, Destination DEF Runs, IInv, Regs
  <2> QED
    BY <1>4, <2>1, <2>2
<1>6. pc' = At(4)
  <2>1. pc' = Wrap(At(3) + 4, X)
    BY <1>1, <1>3, RegistersAfter
  <2> QED
    BY <2>1, AtIs DEF Runs
<1>7. LockWord' = LockWord /\ Counter' = Counter
  BY <1>3 DEF LockWord, Counter
<1> QED
  BY <1>1, <1>2, <1>5, <1>6, <1>7, RegistersAfter

\* SW stores the sum into the counter,
LEMMA CountStep ==
  ASSUME Runs, pc = At(4), reg[2] \in 0 .. 2
  PROVE  /\ pc' = At(5) /\ reg' = reg /\ other' = other
         /\ Counter' = reg[2] /\ LockWord' = LockWord
<1>1. ins.op = "SW" /\ ins.imm = 4 /\ ins.len = 4 /\ ins.rs1 = 1 /\ ins.rs2 = 2
  BY GuestCode DEF Runs
<1>2. Address = CounterAddr /\ rs2val = reg[2]
  BY <1>1, CounterIs DEF Address, Atomics, rs1val, rs2val, Runs
<1>3. /\ MemoryStep /\ other' = other /\ ExecuteStore /\ B * Size(ins.op) = W
      /\ New = Counter' /\ LockWord' = LockWord
  BY <1>1, <1>2, WordAccess DEF Runs, Counter
<1>4. Counter' = reg[2]
  <2>1. New = Wrap(rs2val, W)
    BY <1>1, <1>3 DEF MemoryStep, Stores
  <2> QED
    BY <1>2, <1>3, <2>1, SmallFits
<1>5. pc' = At(5)
  <2>1. pc' = Wrap(At(4) + 4, X)
    BY <1>1, <1>3, RegistersAfter DEF ExecuteStore
  <2> QED
    BY <2>1, AtIs DEF Runs
<1> QED
  BY <1>3, <1>4, <1>5, RegistersAfter

\* and the zero register into the lock.
LEMMA UnlockStep ==
  ASSUME Runs, pc = At(5)
  PROVE  /\ pc' = At(6) /\ reg' = reg /\ other' = other
         /\ LockWord' = 0 /\ Counter' = Counter
<1>1. ins.op = "SW" /\ ins.imm = 0 /\ ins.len = 4 /\ ins.rs1 = 1 /\ ins.rs2 = 0
  BY GuestCode DEF Runs
<1>2. Address = LockAddr /\ rs2val = 0
  <2>1. reg[0] = 0
    BY DEF Runs, IInv, TypeOK
  <2> QED
    BY <1>1, <2>1, CounterIs DEF Address, Atomics, rs1val, rs2val, Runs
<1>3. /\ MemoryStep /\ other' = other /\ ExecuteStore /\ B * Size(ins.op) = W
      /\ New = LockWord' /\ Counter' = Counter
  BY <1>1, <1>2, WordAccess DEF Runs, LockWord
<1>4. LockWord' = 0
  <2>1. New = Wrap(rs2val, W)
    BY <1>1, <1>3 DEF MemoryStep, Stores
  <2> QED
    BY <1>2, <1>3, <2>1, SmallFits
<1>5. pc' = At(6)
  <2>1. pc' = Wrap(At(5) + 4, X)
    BY <1>1, <1>3, RegistersAfter DEF ExecuteStore
  <2> QED
    BY <2>1, AtIs DEF Runs
<1> QED
  BY <1>3, <1>4, <1>5, RegistersAfter

-----------------------------------------------------------------------------
(* The lock protects the counter.                                          *)

\* Of a state with two threads, what the locations of the running one say.
LEMMA GuardedIs ==
  ASSUME LockedGuest, Guarded
  PROVE  /\ pc \in {At(k) : k \in 0 .. 6} /\ reg[1] = LockAddr /\ reg[3] = 1
         /\ Counter \in 0 .. 2
         /\ Holds(Self) => Counter = Counted(Self) + Counted(other) /\ ~Holds(other)
         /\ pc = At(2) => Counter \in 0 .. 1
         /\ pc = At(3) => reg[2] = Counter /\ Counter \in 0 .. 1
         /\ pc = At(4) => reg[2] = Counter + 1 /\ Counter \in 0 .. 1
<1>1. Self.pc = pc /\ Self.reg = reg
  BY DEF Self
<1>2. /\ pc \in {At(k) : k \in 0 .. 6} /\ reg[1] = LockAddr /\ reg[3] = 1
      /\ pc = At(3) => reg[2] = Counter
      /\ pc = At(4) => reg[2] = Counter + 1
  BY <1>1 DEF Guarded, ThreadOK
<1>3. Counted(Self) \in 0 .. 1 /\ Counted(other) \in 0 .. 1
      /\ Counter = Counted(Self) + Counted(other)
  BY DEF Guarded, Counted
<1>4. pc \in {At(2), At(3), At(4)} => Counted(Self) = 0
  BY <1>1, AtIs DEF Counted
<1> QED
  BY <1>2, <1>3, <1>4 DEF Guarded

LEMMA InitLInv == ASSUME LockedGuest, Init PROVE LInv
<1>1. PICK s \in Starts : pc = s.pc /\ reg = s.reg /\ memory = s.memory /\ other = s.other
  BY DEF Init
<1>2. InsHere
  BY DEF Init, InsHere
<1>3. CASE s.other.pc \notin DOMAIN Code \cup {End(Locked)}
  BY <1>1, <1>2, <1>3 DEF LInv, NeverSwitches
<1>4. CASE ThreadStart(s)
  <2>1. /\ pc = ThreadAt /\ reg[1] = LockAddr /\ reg[3] = 1
        /\ other.pc = ThreadAt /\ other.reg[1] = LockAddr /\ other.reg[3] = 1
        /\ \A i \in 0 .. 7 : memory[mmu(LockAddr) + i] = 0
    BY <1>1, <1>4 DEF ThreadStart
  <2>2. ThreadAt = At(0) /\ mmu(LockAddr) \in Nat /\ mmu(CounterAddr) = mmu(LockAddr) + 4
    BY GuestIs, CounterIs DEF At
  <2>3. LockWord = 0 /\ Counter = 0
    <3>1. \A i \in 0 .. 3 : memory[mmu(LockAddr) + i] = 0
      BY <2>1
    <3>2. \A i \in 0 .. 3 : memory[mmu(CounterAddr) + i] = 0
      <4> SUFFICES ASSUME NEW i \in 0 .. 3 PROVE memory[mmu(CounterAddr) + i] = 0
        OBVIOUS
      <4>1. i + 4 \in 0 .. 7 /\ mmu(CounterAddr) + i = mmu(LockAddr) + (i + 4)
        BY <2>2
      <4> QED
        BY <2>1, <4>1
    <3>3. mmu(CounterAddr) \in Nat
      BY <2>2
    <3> QED
      BY <2>2, <3>1, <3>2, <3>3, ZeroWord DEF LockWord, Counter
  <2>4. Self.pc = At(0) /\ Self.reg = reg /\ other.pc = At(0)
    BY <2>1, <2>2 DEF Self
  <2>5. At(0) \in {At(k) : k \in 0 .. 6} /\ \A k \in 1 .. 6 : At(0) # At(k)
    BY AtIs
  <2>6. ThreadOK(Self) /\ ThreadOK(other)
    BY <2>1, <2>4, <2>5 DEF ThreadOK
  <2>7. ~Holds(Self) /\ ~Holds(other) /\ Counted(Self) = 0 /\ Counted(other) = 0
    BY <2>4, <2>5 DEF Holds, Counted
  <2> QED
    BY <1>2, <2>3, <2>6, <2>7 DEF LInv, Guarded
<1> QED
  BY <1>1, <1>3, <1>4 DEF LockedGuest

\* A step of the running thread.
LEMMA ThreadStep ==
  ASSUME IInv, LockedGuest, InsHere, Guarded, Execute, ins # NoIns
  PROVE  Guarded'
<1>1. /\ pc \in {At(k) : k \in 0 .. 6} /\ reg[1] = LockAddr /\ reg[3] = 1
      /\ Counter \in 0 .. 2
      /\ pc = At(2) => Counter \in 0 .. 1
      /\ pc = At(3) => reg[2] = Counter /\ Counter \in 0 .. 1
      /\ pc = At(4) => reg[2] = Counter + 1 /\ Counter \in 0 .. 1
  BY GuardedIs
<1>2. Runs
  BY <1>1 DEF Runs
<1>3. pc # At(6)
  BY GuestIs DEF InsHere
<1>4. \A k \in 0 .. 6, l \in 0 .. 6 : At(k) = At(l) => k = l
  BY AtIs
<1>5. Self.pc = pc /\ Self.reg = reg /\ Self'.pc = pc' /\ Self'.reg = reg'
  BY DEF Self
<1>6. /\ ThreadOK(Self) /\ ThreadOK(other) /\ ~(Holds(Self) /\ Holds(other))
      /\ LockWord = IF Holds(Self) \/ Holds(other) THEN 1 ELSE 0
      /\ Counter = Counted(Self) + Counted(other)
  BY DEF Guarded
<1>7. Counted(other) \in 0 .. 1
  BY DEF Counted
\* The other thread keeps what it knows while the counter is as it was, or if
\* it does not hold the lock.
<1>8. ASSUME other' = other, Counter' = Counter \/ ~Holds(other)
      PROVE  ThreadOK(other)' /\ (Holds(other)' <=> Holds(other)) /\ Counted(other)' = Counted(other)
  BY <1>6, <1>8 DEF ThreadOK, Holds, Counted
<1>9. ASSUME other' = other, Counter' = Counter \/ ~Holds(other),
             ThreadOK(Self)', ~(Holds(Self)' /\ Holds(other)),
             LockWord' = IF Holds(Self)' \/ Holds(other) THEN 1 ELSE 0,
             Counter' = Counted(Self)' + Counted(other)
      PROVE  Guarded'
  BY <1>8, <1>9 DEF Guarded
<1>10. CASE pc = At(0)
  <2>1. /\ pc' = At(1) /\ reg'[1] = LockAddr /\ reg'[3] = 1 /\ other' = other
        /\ reg'[2] = LockWord /\ LockWord' = 1 /\ Counter' = Counter
    BY <1>2, <1>10, SwapStep
  <2>2. ~Holds(Self) /\ Counted(Self) = 0
    BY <1>4, <1>5, <1>10 DEF Holds, Counted
  <2>3. ThreadOK(Self)' /\ Counted(Self)' = 0 /\ (Holds(Self)' <=> LockWord = 0)
    BY <1>4, <1>5, <1>6, <2>1 DEF ThreadOK, Counted, Holds
  <2> QED
    BY <1>6, <1>7, <1>9, <2>1, <2>2, <2>3
<1>11. CASE pc = At(1)
  <2>1. /\ pc' = (IF reg[2] = 0 THEN At(2) ELSE At(0)) /\ reg' = reg /\ other' = other
        /\ LockWord' = LockWord /\ Counter' = Counter
    BY <1>2, <1>11, RetryStep
  <2>2. (Holds(Self) <=> reg[2] = 0) /\ Counted(Self) = 0
    BY <1>4, <1>5, <1>11 DEF Holds, Counted
  <2>3. ThreadOK(Self)' /\ Counted(Self)' = 0 /\ (Holds(Self)' <=> reg[2] = 0)
    BY <1>1, <1>4, <1>5, <2>1 DEF ThreadOK, Counted, Holds
  <2> QED
    BY <1>6, <1>7, <1>9, <2>1, <2>2, <2>3
<1>12. CASE pc = At(2)
  <2>1. /\ pc' = At(3) /\ reg'[1] = LockAddr /\ reg'[3] = 1 /\ other' = other
        /\ reg'[2] = Counter /\ LockWord' = LockWord /\ Counter' = Counter
    BY <1>1, <1>2, <1>12, LoadStep
  <2>2. Holds(Self) /\ Counted(Self) = 0
    BY <1>4, <1>5, <1>12 DEF Holds, Counted
  <2>3. ThreadOK(Self)' /\ Counted(Self)' = 0 /\ Holds(Self)'
    BY <1>4, <1>5, <2>1 DEF ThreadOK, Counted, Holds
  <2> QED
    BY <1>6, <1>7, <1>9, <2>1, <2>2, <2>3
<1>13. CASE pc = At(3)
  <2>1. /\ pc' = At(4) /\ reg'[1] = LockAddr /\ reg'[3] = 1 /\ other' = other
        /\ reg'[2] = Counter + 1 /\ LockWord' = LockWord /\ Counter' = Counter
    BY <1>1, <1>2, <1>13, AddStep
  <2>2. Holds(Self) /\ Counted(Self) = 0
    BY <1>4, <1>5, <1>13 DEF Holds, Counted
  <2>3. ThreadOK(Self)' /\ Counted(Self)' = 0 /\ Holds(Self)'
    BY <1>4, <1>5, <2>1 DEF ThreadOK, Counted, Holds
  <2> QED
    BY <1>6, <1>7, <1>9, <2>1, <2>2, <2>3
<1>14. CASE pc = At(4)
  <2>1. reg[2] = Counter + 1 /\ reg[2] \in 0 .. 2
    BY <1>1, <1>14
  <2>2. /\ pc' = At(5) /\ reg' = reg /\ other' = other
        /\ Counter' = Counter + 1 /\ LockWord' = LockWord
    BY <1>2, <1>14, <2>1, CountStep
  <2>3. Holds(Self) /\ Counted(Self) = 0
    BY <1>4, <1>5, <1>14 DEF Holds, Counted
  <2>4. ThreadOK(Self)' /\ Counted(Self)' = 1 /\ Holds(Self)'
    BY <1>1, <1>4, <1>5, <2>2 DEF ThreadOK, Counted, Holds
  <2>5. Counter' = Counted(Self)' + Counted(other)
    BY <1>6, <1>7, <2>2, <2>3, <2>4
  <2> QED
    BY <1>6, <1>9, <2>2, <2>3, <2>4, <2>5
<1>15. CASE pc = At(5)
  <2>1. /\ pc' = At(6) /\ reg' = reg /\ other' = other
        /\ LockWord' = 0 /\ Counter' = Counter
    BY <1>2, <1>15, UnlockStep
  <2>2. Holds(Self) /\ Counted(Self) = 1
    BY <1>4, <1>5, <1>15 DEF Holds, Counted
  <2>3. ThreadOK(Self)' /\ Counted(Self)' = 1 /\ ~Holds(Self)'
    BY <1>1, <1>4, <1>5, <2>1 DEF ThreadOK, Counted, Holds
  <2> QED
    BY <1>6, <1>7, <1>9, <2>1, <2>2, <2>3
<1> QED
  <2>1. PICK k \in 0 .. 6 : pc = At(k)
    BY <1>1
  <2>2. k \in {0, 1, 2, 3, 4, 5}
    BY <1>3, <2>1
  <2> QED
    BY <1>10, <1>11, <1>12, <1>13, <1>14, <1>15, <2>1, <2>2

\* The kernel may switch between any two instructions.
LEMMA SwitchStep ==
  ASSUME LockedGuest, Guarded, Switch
  PROVE  Guarded'
<1>1. other' = Self /\ pc' = other.pc /\ reg' = other.reg /\ memory' = memory
  BY DEF Switch, Self
<1>2. LockWord' = LockWord /\ Counter' = Counter
  BY <1>1 DEF LockWord, Counter
<1>3. /\ ThreadOK(Self)' <=> ThreadOK(other)
      /\ ThreadOK(other)' <=> ThreadOK(Self)
      /\ Holds(Self)' <=> Holds(other)
      /\ Holds(other)' <=> Holds(Self)
      /\ Counted(Self)' = Counted(other) /\ Counted(other)' = Counted(Self)
  <2>1. Self'.pc = other.pc /\ Self'.reg = other.reg
    BY <1>1 DEF Self
  <2> QED
    BY <1>1, <1>2, <2>1 DEF ThreadOK, Holds, Counted
<1>4. Counted(Self) \in 0 .. 1 /\ Counted(other) \in 0 .. 1
  BY DEF Counted
<1> QED
  BY <1>2, <1>3, <1>4 DEF Guarded

LEMMA NextLInv == ASSUME LockedGuest, IInv, LInv, [Next]_vars PROVE LInv'
<1>1. CASE Decode
  <2>1. /\ UNCHANGED <<pc, reg, memory, other>> /\ pc \in DOMAIN Code /\ ins' \in Code[pc]
    BY <1>1 DEF Decode, state
  <2>2. InsHere'
    BY <2>1 DEF InsHere
  <2>3. Guarded => Guarded'
    BY <2>1 DEF Guarded, ThreadOK, Holds, Counted, LockWord, Counter, Self
  <2> QED
    BY <2>1, <2>2, <2>3 DEF LInv, NeverSwitches
<1>2. CASE Execute
  <2>1. ins # NoIns /\ ins' = NoIns /\ other' = other
    BY <1>2 DEF Executing, Execute, ExecuteArith, ExecuteMulDiv, ExecuteUpper,
      ExecuteNothing, ExecuteBadOp, ExecuteJump, ExecuteBranch, AccessFault, ExecuteLoad, ExecuteStore,
      ExecuteAtomic, ExecuteFpLoad, ExecuteFpStore, ExecuteFmv, csr_update, CsrAbsent, CsrUnknown, Reads
  <2>2. InsHere'
    BY <2>1 DEF InsHere
  <2>3. Guarded => Guarded'
    BY <1>2, <2>1, ThreadStep DEF LInv
  <2> QED
    BY <2>1, <2>2, <2>3 DEF LInv, NeverSwitches
<1>3. CASE Switch
  <2>1. ins' = NoIns /\ other.pc \in DOMAIN Code
    BY <1>3 DEF Switch
  <2>2. InsHere' /\ ~NeverSwitches
    BY <2>1 DEF InsHere, NeverSwitches
  <2> QED
    BY <1>3, <2>2, SwitchStep DEF LInv
<1>4. CASE UNCHANGED vars
  <2>1. UNCHANGED <<pc, reg, memory, other, ins>>
    BY <1>4 DEF vars, state
  <2>2. InsHere'
    BY <2>1 DEF LInv, InsHere
  <2>3. Guarded => Guarded'
    BY <2>1 DEF Guarded, ThreadOK, Holds, Counted, LockWord, Counter, Self
  <2> QED
    BY <2>1, <2>2, <2>3 DEF LInv, NeverSwitches
<1> QED
  BY <1>1, <1>2, <1>3, <1>4 DEF Next

\* Both threads at their end have counted.
LEMMA LInvImplies == ASSUME LockedGuest, LInv PROVE NoLostUpdate
<1> SUFFICES ASSUME pc = At(6), other.pc = At(6) PROVE Counter = 2
  BY GuestIs DEF NoLostUpdate, Counter
<1>1. Guarded
  BY GuestIs DEF LInv, NeverSwitches
<1>2. Counted(Self) = 1 /\ Counted(other) = 1
  BY DEF Counted, Self
<1> QED
  BY <1>1, <1>2 DEF Guarded

\* Two guest threads that increment a word under a lock taken with AMO_SWAP_W
\* lose no increment, wherever the kernel switches between them (ram_write,
\* _amo32 and the write-back of execute), at any addresses and width.
THEOREM UpdateNotLost ==
  ASSUME LockedGuest
  PROVE  Spec => []NoLostUpdate
<1>1. Init => LInv
  BY InitLInv
<1>2. IInv /\ LInv /\ [Next]_vars => LInv'
  BY NextLInv
<1>3. LInv => NoLostUpdate
  BY LInvImplies
<1> QED
  BY <1>1, <1>2, <1>3, Invariance, PTL DEF Spec
=============================================================================
