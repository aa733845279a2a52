------------------------------- MODULE Widths -------------------------------
(***************************************************************************)
(* C's integers of a fixed width, on natural numbers.  A byte has B bits   *)
(* and the other widths follow from it as in the code, so that B = 8 is    *)
(* the emulator itself and B = 1 a small machine with the same structure.  *)
(***************************************************************************)
EXTENDS Integers

CONSTANT B     \* the bits of a byte

ASSUME WidthsAssumption == B \in Nat \ {0}

\* The numbers of these widths are powers of two.
ASSUME PowersAssumption ==
  \A n \in 0 .. 8 * B - 1 : 2^n \in Nat \ {0} /\ 2^(n + 1) = 2 * 2^n

H == 2 * B     \* int16_t
W == 4 * B     \* int32_t
X == 8 * B     \* int64_t

Byte  == 0 .. 2^B - 1
Dword == 0 .. 2^X - 1

\* A cast to an unsigned integer of n bits, and to a signed one.
Wrap(v, n)   == v % 2^n
Signed(v, n) == LET u == Wrap(v, n) IN IF u < 2^(n - 1) THEN u ELSE u - 2^n

\* (uint64_t)(intN_t)v
SignExtend(v, n) == Wrap(Signed(v, n), X)

\* Mutant: the high half is cleared.
TO_WORD_unsigned(v) == Wrap(v, W)

\* Bit 31 is copied to the high half.
TO_WORD(v) == SignExtend(v, W)
=============================================================================
