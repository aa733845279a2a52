------------------------------ MODULE MCDecode ------------------------------
(***************************************************************************)
(* Decode for TLC: every compressed instruction, every 32-bit one with two *)
(* registers whose numbers have no bit in common, and words with each      *)
(* opcode, whether it exists or not.                                       *)
(***************************************************************************)
EXTENDS Decode

\* satp (0x180), and a csr with the other bits of the field.
MCCsrs == {{7, 8}, {0, 1, 2, 3, 4, 5, 6, 9, 10, 11}}

\* Every single bit of an immediate, all of them and none.
MCPatterns == {{i} : i \in 0..31} \cup {{}, 0..31}

\* Every opcode and funct3, with the values of funct7 and of the field of rs2 that
\* dec32 compares with and some that it does not, and an rd or none.
MCOthers ==
  {ToBits((4 * code) + 3, 7) \cup Shl(ToBits(rd, 5), 7) \cup Shl(ToBits(f3, 3), 12)
     \cup Shl(ToBits(10, 5), 15) \cup Shl(ToBits(rs2, 5), 20) \cup Shl(ToBits(f7, 7), 25) :
     code \in 0..31, f3 \in 0..7, f7 \in {0, 1, 8, 9, 24, 32, 120, 127},
     rs2 \in {0, 1, 2, 5, 31}, rd \in {0, 21}}
=============================================================================
