------------------------------- MODULE MCIsa -------------------------------
(***************************************************************************)
(* Isa for TLC.  ALU words are 4 bits wide, so every pair of operands is  *)
(* tried, the division overflow case (8 / 15) and shift amounts above the *)
(* mask among them.  Instruction words are built from their fields: the   *)
(* eleven opcodes, a custom-0 and an RV32C one, every funct3, and field   *)
(* values that set the sign bit, bit 30, the low funct7 bits of the M and  *)
(* Zicond families, mret's immediate, and bits at the edges of each field  *)
(* an immediate is cut from.                                               *)
(***************************************************************************)
EXTENDS Isa

MCWordBits == 4

\* the word with these fields at their R-type positions
Encode(op7, rd, f3, rs1, rs2, f7) ==
    [i \in 0..31 |->
        LET bit(v, lo) == (v \div 2^(i - lo)) % 2
        IN CASE i < 7  -> bit(op7, 0)
             [] i < 12 -> bit(rd, 7)
             [] i < 15 -> bit(f3, 12)
             [] i < 20 -> bit(rs1, 15)
             [] i < 25 -> bit(rs2, 20)
             [] OTHER  -> bit(f7, 25)]

MCInstrs ==
    {Encode(op7, rd, f3, rs1, rs2, f7) :
        op7 \in {55, 23, 111, 103, 99, 3, 35, 19, 51, 15, 115, 11, 49},
        rd \in {0, 1, 30}, f3 \in 0..7, rs1 \in {0, 5, 17}, rs2 \in {0, 2, 17},
        f7 \in {0, 1, 7, 24, 32, 64, 127}}
==============================================================================
