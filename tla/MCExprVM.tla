------------------------------ MODULE MCExprVM ------------------------------
(***************************************************************************)
(* ExprVM for TLC, and the refinement mapping that shows it implements     *)
(* ExprSpec: the byte program is decoded into instructions from its first *)
(* byte on, and the byte pc maps to the index of the instruction that      *)
(* starts there.                                                           *)
(***************************************************************************)
EXTENDS ExprVM, TLC

\* words scaled to 16 bits; memory holds two words, at 0 and 4
MCWordBits == 16
MCMemWords == {0, 4}
MCMemByte  == [a \in 0..7 |-> <<7, 0, 0, 0, 11, 1, 0, 0>>[a + 1]]
MCRegIdx   == {1, 32}
MCRegVals  == {0, 3}

\* expression.cpp's unit test "Basic": x1 + mem[4..7] * pc, with ext 16
Basic == <<Reg, 0, 1, Reg, 0, 32, Const32, 0, 0, 0, 4, Ref32, Ext, 16, Mul, Add, End>>
\* a loop counting x1 down to zero with a backward goto
Countdown == <<Reg, 0, 1, Dup, If_goto, 0, 8, End, Const8, 1, Swap, Sub, Goto, 0, 3>>
\* every binary, unary and stack case once, the divisions guarded by x1
Mixed1 == <<Reg, 0, 1, Dup, Div_unsigned, Const8, 7, Reg, 0, 1, Rem_signed, Add,
            Const8, 2, Lsh, Const16, 255, 254, Rsh_signed, Const8, 1, Pick, 1, Rot,
            Bit_and, Equal, Const8, 5, Bit_xor, Const8, 8, Bit_or, Log_not, Bit_not,
            Const8, 1, Less_signed, End>>
Mixed2 == <<Const8, 9, Const8, 3, Sub, Const8, 4, Mul, Const8, 3, Swap, Div_signed,
            Const8, 250, Ext, 8, Zero_ext, 4, Const8, 6, Swap, Rem_unsigned, Const8, 5,
            Less_unsigned, Pop, Const8, 240, Rsh_unsigned, Reg, 0, 32, End>>
\* the error returns
Faults == { <<1>>, <<Add>>, <<Dup>>, <<Log_not>>, <<Ref8>>, <<End>>, <<Pick, 0>>,
            <<Ext, 4>>, <<Ext>>, <<If_goto, 0, 0>>, <<Const16, 1>>, <<Reg, 0, 40>>,
            <<Goto, 0, 9>>, <<Const8, 0, If_goto, 0>>, <<Const8, 1, If_goto, 0>>,
            <<Const8, 6, Ref16, Const8, 7, Ref32>> }
MCPrograms == {Basic, Countdown, Mixed1, Mixed2} \cup Faults

\* x1 = 0 is the numerator: the case GDB compiles from "x / y" with x = 0
ZeroNumerator == {<<Reg, 0, 1, Const8, 5, Div_unsigned, End>>}

-----------------------------------------------------------------------------
(* The refinement mapping                                                  *)

\* the offsets at which instructions of p start, decoding from offset o
RECURSIVE StartsFrom(_, _)
StartsFrom(p, o) == IF o >= Len(p) THEN <<>>
                    ELSE <<o>> \o StartsFrom(p, o + 1 + OperandLen(p[o + 1]))

\* the instruction index of each byte offset of p: an offset inside an
\* instruction has none (0); the end of p is Len + 1
IndexTable(p) == LET s == StartsFrom(p, 0)
                 IN [o \in 0..Len(p) |->
                       IF \E i \in DOMAIN s : s[i] = o THEN CHOOSE i \in DOMAIN s : s[i] = o
                       ELSE IF o = Len(p) THEN Len(s) + 1 ELSE 0]

\* the instructions of p, each with its operand read as ExprSpec reads it
DecodeTable(p) ==
    LET s == StartsFrom(p, 0)
        idx == IndexTable(p)
    IN [i \in DOMAIN s |->
          LET o   == s[i]
              op  == p[o + 1]
              n   == OperandLen(op)
              cut == o + n >= Len(p)
              v   == IF cut THEN 0
                     ELSE LET RECURSIVE Val(_)
                              Val(j) == IF j = 0 THEN 0 ELSE Val(j - 1) * 256 + p[o + j + 1]
                          IN Val(n)
          IN [op  |-> op, cut |-> cut,
              arg |-> CASE op \in {Goto, If_goto} -> IF cut THEN 0
                                                     ELSE IF v > Len(p) THEN Len(s) + 1 ELSE idx[v]
                        [] op \in {Const16, Const32} -> v % M
                        [] OTHER -> v]]

\* computed once per program
Decoded == [p \in Programs |-> DecodeTable(p)]
Indexed == [p \in Programs |-> IndexTable(p)]

Decode == Decoded[code]
IndexOf(o) == IF o <= Len(code) THEN Indexed[code][o] ELSE Len(Decode) + 1

Abs == INSTANCE ExprSpec WITH prog <- Decode, ip <- IndexOf(pc), stk <- stack,
                             st <- status, out <- res

\* The byte-level loop of execute implements the instruction-level machine
\* of spec 4.13: every pass of the loop, with the operand widths, the pc
\* it advances to, the big-endian operands and jump targets, the stack
\* effect and the early return it takes, is one step of ExprSpec.
Refines == Abs!ASpec

\* A division never traps the host process: a zero divisor is reported as
\* division_by_zero (spec 4.13), whatever the operands of div and rem.
NoHostFault == status # "host_fault"
==============================================================================
