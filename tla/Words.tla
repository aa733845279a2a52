------------------------------- MODULE Words -------------------------------
(***************************************************************************)
(* The bit macros of src/util.h.  A word of any width is the set of the    *)
(* positions of its 1 bits, so that 64-bit values are exact: a | b is      *)
(* a \cup b, and a shift moves the positions.                              *)
(***************************************************************************)
EXTENDS Integers

BITS(w, high, low) == {i - low : i \in w \cap (low..high)}
BIT(w, index)      == BITS(w, index, index)
EXPAND_BIT(w, index, num) == IF index \in w THEN 0..(num - 1) ELSE {}

Shl(w, n) == {i + n : i \in w}

\* The number that is in a field.  No field of an instruction has more than
\* seven bits.
Number(w) == LET bit(i, value) == IF i \in w THEN value ELSE 0
             IN  bit(0, 1) + bit(1, 2) + bit(2, 4) + bit(3, 8) + bit(4, 16)
                   + bit(5, 32) + bit(6, 64)

\* What the decoders hand to execute(): op, rd, rs1, rs2, imm and csr_addr.
Decoded(op, rd, rs1, rs2, imm) ==
  [op |-> op, rd |-> rd, rs1 |-> rs1, rs2 |-> rs2, imm |-> imm, csr_addr |-> {}]

\* An instruction that the decoder refuses with a panic.
Bad == Decoded("panic", 0, 0, 0, {})
=============================================================================
