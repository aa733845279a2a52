-------------------------------- MODULE Isa --------------------------------
(***************************************************************************)
(* Reference: what the instructions mean, on integers, from the definition *)
(* of the architecture.  It knows nothing of execute.c and characterises   *)
(* results instead of computing them where it can.                         *)
(***************************************************************************)
EXTENDS Widths

Abs(n) == IF n < 0 THEN -n ELSE n

\* n = q * d + r, the quotient rounded toward zero.
IsDivision(n, d, q, r) == /\ n = q * d + r
                          /\ Abs(r) < Abs(d)
                          /\ r = 0 \/ (r < 0) = (n < 0)

\* Division never traps: by zero the quotient is -1 and the remainder n.
IsQuotient(n, d, q)  == IF d = 0 THEN q = -1 ELSE IsDivision(n, d, q, n - q * d)
IsRemainder(n, d, r) == IF d = 0 THEN r = n
                        ELSE (n - r) % Abs(d) = 0 /\ Abs(r) < Abs(d)
                             /\ (r = 0 \/ (r < 0) = (n < 0))

Bit(v, i) == (v \div 2^i) % 2

\* Operand widths: a word operation works on the low half and extends the
\* sign of its result.
Width(op) == IF op \in {"ADDW", "ADDIW", "SUBW", "SLLW", "SLLIW", "SRLW", "SRLIW",
                        "SRAW", "SRAIW", "MULW", "DIVW", "DIVUW", "REMW", "REMUW"}
             THEN W ELSE X

\* v, an n-bit number, is the result of op on a and b.  The sum, the
\* difference and the products are congruences; the most negative number
\* divided by -1 is itself, again by congruence.
IsResult(op, x, y, v) ==
  LET n  == Width(op)
      a  == Wrap(x, n)
      b  == Wrap(y, n)
      sa == Signed(x, n)
      sb == Signed(y, n)
      sh == y % n
      low == Wrap(v, n)
      Is(value) == low = Wrap(value, n)
      Flag(p) == v = IF p THEN 1 ELSE 0
  IN  /\ v = SignExtend(low, n)
      /\ CASE op \in {"ADD", "ADDI", "ADDW", "ADDIW"} -> Is(sa + sb)
           [] op \in {"SUB", "SUBW"} -> Is(sa - sb)
           [] op \in {"SLT", "SLTI"} -> Flag(sa < sb)
           [] op \in {"SLTU", "SLTIU"} -> Flag(a < b)
           [] op \in {"XOR", "XORI"} ->
                \A i \in 0 .. n - 1 : Bit(v, i) = IF Bit(a, i) = Bit(b, i) THEN 0 ELSE 1
           [] op \in {"OR", "ORI"} ->
                \A i \in 0 .. n - 1 : Bit(v, i) = 1 <=> 1 \in {Bit(a, i), Bit(b, i)}
           [] op \in {"AND", "ANDI"} ->
                \A i \in 0 .. n - 1 : Bit(v, i) = Bit(a, i) * Bit(b, i)
           [] op \in {"SLL", "SLLI", "SLLW", "SLLIW"} ->
                \A i \in 0 .. n - 1 : Bit(low, i) = IF i < sh THEN 0 ELSE Bit(a, i - sh)
           [] op \in {"SRL", "SRLI", "SRLW", "SRLIW"} ->
                \A i \in 0 .. n - 1 : Bit(low, i) = IF i + sh < n THEN Bit(a, i + sh) ELSE 0
           [] op \in {"SRA", "SRAI", "SRAW", "SRAIW"} ->
                \A i \in 0 .. n - 1 :
                  Bit(low, i) = Bit(a, IF i + sh < n THEN i + sh ELSE n - 1)
           [] op \in {"MUL", "MULW"} -> Is(sa * sb)
           [] op = "MULH"   -> v = Wrap((sa * sb) \div 2^X, X)
           [] op = "MULHSU" -> v = Wrap((sa * b) \div 2^X, X)
           [] op = "MULHU"  -> v = (a * b) \div 2^X
           [] op \in {"DIV", "DIVW"} ->
                \E q \in {Signed(v, n), 2^(n - 1)} : Is(q) /\ IsQuotient(sa, sb, q)
           [] op \in {"REM", "REMW"} -> IsRemainder(sa, sb, Signed(v, n))
           [] op \in {"DIVU", "DIVUW"} ->
                IF b = 0 THEN low = 2^n - 1 ELSE IsQuotient(a, b, low)
           [] op \in {"REMU", "REMUW"} -> IsRemainder(a, b, low)

\* A branch is taken.
Taken(op, a, b) ==
  LET lt == Signed(a, X) < Signed(b, X)
  IN  CASE op = "BEQ"  -> a = b
        [] op = "BNE"  -> a # b
        [] op = "BLT"  -> lt
        [] op = "BGE"  -> ~lt
        [] op = "BLTU" -> a < b
        [] op = "BGEU" -> ~(a < b)

\* Where JALR jumps to: bit 0 of the sum is cleared.
JumpTarget(base, offset) == LET sum == Wrap(base + offset, X) IN sum - (sum % 2)

\* Bytes of an access.
AccessSize(op) ==
  CASE op \in {"LB", "LBU", "SB"} -> 1
    [] op \in {"LH", "LHU", "SH"} -> 2
    [] op \in {"LD", "SD", "FLD", "FSD", "LR_D", "SC_D", "AMO_D"} -> 8
    [] op \in {"LW", "LWU", "SW", "FLW", "FSW", "LR_W", "SC_W", "AMO_W"} -> 4

\* What an atomic operation leaves in memory.
Combines(kind, old, data, n, new) ==
  LET so == Signed(old, n)
      sd == Signed(data, n)
      Pick(p) == new = IF p THEN old ELSE data
  IN  CASE kind = "ADD"  -> new = Wrap(so + sd, n)
        [] kind = "SWAP" -> new = data
        [] kind = "XOR"  -> \A i \in 0 .. n - 1 : Bit(new, i) = (Bit(old, i) + Bit(data, i)) % 2
        [] kind = "OR"   -> \A i \in 0 .. n - 1 : Bit(new, i) = 0 <=> Bit(old, i) + Bit(data, i) = 0
        [] kind = "AND"  -> \A i \in 0 .. n - 1 : Bit(new, i) = 1 <=> Bit(old, i) + Bit(data, i) = 2
        [] kind = "MIN"  -> Pick(so <= sd)
        [] kind = "MAX"  -> Pick(so >= sd)
        [] kind = "MINU" -> Pick(old <= data)
        [] kind = "MAXU" -> Pick(old >= data)
=============================================================================
