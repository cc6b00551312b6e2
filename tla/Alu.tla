-------------------------------- MODULE Alu --------------------------------
(***************************************************************************)
(* ALU_module and Branch_module (alu.cpp): two-operand functions of u32    *)
(* words.  A u32 is scaled to WordBits bits: 2^32 becomes Modulus, the    *)
(* 0b11111 shift mask WordBits - 1, and the i64/u64 of the multiplies a   *)
(* double word.  Below them, the numeric semantics spec 4.3 states, as a  *)
(* reference written independently of the code.                           *)
(***************************************************************************)
EXTENDS Integers, Bitwise

CONSTANT WordBits   \* the width standing for 32 (a power of two)

ASSUME WordBits \in {2, 4, 8}

Modulus == 2^WordBits
U32     == 0..Modulus - 1

AluOps == {"Add", "Sub", "Sll", "Srl", "Sra", "Slt", "Sltu", "And", "Or", "Xor",
           "Mul", "Mulh", "Mulhsu", "Mulhu", "Div", "Divu", "Rem", "Remu",
           "Czero_eqz", "Czero_nez"}
BranchOps == {"None", "Eq", "Ne", "Lt", "Ge", "Ltu", "Geu"}

\* static_cast<i32>(x), and the conversion of an int result back to u32
I32(x)   == IF x >= Modulus \div 2 THEN x - Modulus ELSE x
ToU32(v) == v % Modulus

\* (mutant) floor division, as TLA+'s \div and Python's // round
TruncDivFloor(x, y) == x \div y
\* C++ / on int truncates toward zero; % takes the sign of the dividend
TruncDiv(x, y) == LET q == (IF x < 0 THEN -x ELSE x) \div (IF y < 0 THEN -y ELSE y)
                  IN IF (x < 0) = (y < 0) THEN q ELSE -q
TruncRem(x, y) == x - y * TruncDiv(x, y)

\* shift_amount & 0b11111
ShiftAmount(y) == y & (WordBits - 1)

\* compare::lt and compare::ltu
LtSigned(x, y)   == I32(x) < I32(y)
LtUnsigned(x, y) == x < y

\* mulh, mulhsu, mulhu: the operands are u32, so static_cast<i64> and
\* static_cast<u64> both zero-extend them, and the i64 * u64 of mulhsu is
\* done in u64; the product's high word is then the unsigned one in all
\* three (the i64 product of mulh may exceed INT64_MAX: the build's 64-bit
\* multiply wraps, and bits 32..63 are the same either way)
MulHigh(x, y) == ToU32((x * y) \div Modulus)

\* native_math::div and rem: the zero and overflow cases first
DivCode(x, y) ==
    CASE y = 0                                        -> Modulus - 1
      [] x = Modulus \div 2 /\ y = Modulus - 1        -> x
      [] OTHER -> ToU32(TruncDiv(I32(x), I32(y)))
RemCode(x, y) ==
    CASE y = 0                                        -> x
      [] x = Modulus \div 2 /\ y = Modulus - 1        -> 0
      [] OTHER -> ToU32(TruncRem(I32(x), I32(y)))

\* ALU_module::operator()
AluCode(op, x, y) ==
    CASE op = "Add"       -> ToU32(x + y)
      [] op = "Sub"       -> ToU32(x - y)
      [] op = "Sll"       -> ToU32(x * 2^ShiftAmount(y))
      [] op = "Srl"       -> x \div 2^ShiftAmount(y)
      [] op = "Sra"       -> ToU32(I32(x) \div 2^ShiftAmount(y))
      [] op = "Slt"       -> IF LtSigned(x, y) THEN 1 ELSE 0
      [] op = "Sltu"      -> IF LtUnsigned(x, y) THEN 1 ELSE 0
      [] op = "And"       -> x & y
      [] op = "Or"        -> x | y
      [] op = "Xor"       -> x ^^ y
      [] op = "Mul"       -> ToU32(x * y)
      [] op \in {"Mulh", "Mulhsu", "Mulhu"} -> MulHigh(x, y)
      [] op = "Div"       -> DivCode(x, y)
      [] op = "Divu"      -> IF y = 0 THEN Modulus - 1 ELSE x \div y
      [] op = "Rem"       -> RemCode(x, y)
      [] op = "Remu"      -> IF y = 0 THEN x ELSE x % y
      [] op = "Czero_eqz" -> IF y = 0 THEN 0 ELSE x
      [] op = "Czero_nez" -> IF y # 0 THEN 0 ELSE x

\* Branch_module::operator()
BranchCode(op, x, y) ==
    CASE op = "None" -> FALSE
      [] op = "Eq"   -> x = y
      [] op = "Ne"   -> x # y
      [] op = "Lt"   -> LtSigned(x, y)
      [] op = "Ge"   -> ~LtSigned(x, y)
      [] op = "Ltu"  -> LtUnsigned(x, y)
      [] op = "Geu"  -> ~LtUnsigned(x, y)

-----------------------------------------------------------------------------
(* Spec 4.3 and the RISC-V M and Zicond extensions                          *)

\* the two's-complement value of a word: its top bit weighs -2^(W-1)
TwosValue(x) == x - Modulus * (x \div (Modulus \div 2))
\* the bits of a word, and a bitwise function rebuilt from them
BitOf(x, i) == (x \div 2^i) % 2
Bitwise2(f(_, _), x, y) ==
    LET RECURSIVE Acc(_)
        Acc(i) == IF i = WordBits THEN 0 ELSE 2^i * f(BitOf(x, i), BitOf(y, i)) + Acc(i + 1)
    IN Acc(0)
\* the high word of an exact double-width product
HighWord(p) == (p \div Modulus) % Modulus
AbsVal(v) == IF v < 0 THEN -v ELSE v
\* RISC-V division rounds toward zero: q * y + r = x, |r| < |y|, and r is
\* zero or has the sign of x
Quotient(x, y) ==
    CHOOSE q \in -Modulus..Modulus :
        LET r == x - q * y IN AbsVal(r) < AbsVal(y) /\ (r = 0 \/ (r > 0) = (x > 0))

AluSpec(op, x, y) ==
    LET sx == TwosValue(x)
        sy == TwosValue(y)
        s  == y % WordBits
    IN CASE op = "Add"    -> (x + y) % Modulus
         [] op = "Sub"    -> (x + Modulus - y) % Modulus
         [] op = "Sll"    -> (x * 2^s) % Modulus
         [] op = "Srl"    -> x \div 2^s
         [] op = "Sra"    -> (sx \div 2^s) % Modulus
         [] op = "Slt"    -> IF sx < sy THEN 1 ELSE 0
         [] op = "Sltu"   -> IF x < y THEN 1 ELSE 0
         [] op = "And"    -> Bitwise2(LAMBDA a, b : a * b, x, y)
         [] op = "Or"     -> Bitwise2(LAMBDA a, b : IF a + b > 0 THEN 1 ELSE 0, x, y)
         [] op = "Xor"    -> Bitwise2(LAMBDA a, b : (a + b) % 2, x, y)
         [] op = "Mul"    -> (x * y) % Modulus
         [] op = "Mulh"   -> HighWord(sx * sy)
         [] op = "Mulhsu" -> HighWord(sx * y)
         [] op = "Mulhu"  -> HighWord(x * y)
         [] op = "Div"    -> IF y = 0 THEN Modulus - 1
                             ELSE IF sx = -(Modulus \div 2) /\ sy = -1 THEN x
                             ELSE Quotient(sx, sy) % Modulus
         [] op = "Divu"   -> IF y = 0 THEN Modulus - 1 ELSE Quotient(x, y)
         [] op = "Rem"    -> IF y = 0 THEN x
                             ELSE IF sx = -(Modulus \div 2) /\ sy = -1 THEN 0
                             ELSE (sx - Quotient(sx, sy) * sy) % Modulus
         [] op = "Remu"   -> IF y = 0 THEN x ELSE x - Quotient(x, y) * y
         [] op = "Czero_eqz" -> IF y = 0 THEN 0 ELSE x
         [] op = "Czero_nez" -> IF y = 0 THEN x ELSE 0

\* eq, ne, lt, ge (signed), ltu, geu
BranchSpec(op, x, y) ==
    CASE op = "None" -> FALSE
      [] op = "Eq"   -> x = y
      [] op = "Ne"   -> x # y
      [] op = "Lt"   -> TwosValue(x) < TwosValue(y)
      [] op = "Ge"   -> TwosValue(x) >= TwosValue(y)
      [] op = "Ltu"  -> x < y
      [] op = "Geu"  -> x >= y
==============================================================================
