------------------------------ MODULE ExprWord ------------------------------
(***************************************************************************)
(* The data of the stop-point condition VM (expression.cpp): its opcodes,  *)
(* the u32 arithmetic of every value-computing case, and the memory and    *)
(* register accessors it reads through (accessor.cpp).  A u32 is scaled    *)
(* to WordBits bits: the 32 of the shifts and extensions becomes WordBits  *)
(* and the 0x1F shift mask WordBits - 1.  Bytes keep eight bits.           *)
(***************************************************************************)
EXTENDS Integers, Bitwise

CONSTANTS
    WordBits,   \* the width standing for 32 (a power of two)
    MemWords,   \* word-aligned addresses the memory interface can read
    MemByte,    \* [bytes of MemWords -> 0..255]: what memory holds
    CsrAddrs    \* CSR addresses the CSR file implements

M    == 2^WordBits
Word == 0..M-1

ASSUME /\ WordBits \in {4, 8, 16}
       /\ MemWords \subseteq {a \in Word : a % 4 = 0}
       /\ MemByte \in [UNION {a..a+3 : a \in MemWords} -> 0..255]

\* enum class Bytecode (expression.hpp): the opcodes execute handles
Add == 2
Sub == 3
Mul == 4
Div_signed == 5
Div_unsigned == 6
Rem_signed == 7
Rem_unsigned == 8
Lsh == 9
Rsh_signed == 10
Rsh_unsigned == 11
Log_not == 14
Bit_and == 15
Bit_or == 16
Bit_xor == 17
Bit_not == 18
Equal == 19
Less_signed == 20
Less_unsigned == 21
Ext == 22
Zero_ext == 42
Ref8 == 23
Ref16 == 24
Ref32 == 25
Dup == 40
Pop == 41
Swap == 43
Pick == 50
Rot == 51
If_goto == 32
Goto == 33
Const8 == 34
Const16 == 35
Const32 == 36
Reg == 38
End == 39

BinaryOps == {Add, Sub, Mul, Div_signed, Div_unsigned, Rem_signed, Rem_unsigned,
              Lsh, Rsh_signed, Rsh_unsigned, Bit_and, Bit_or, Bit_xor, Equal,
              Less_signed, Less_unsigned}
Divides   == {Div_signed, Div_unsigned, Rem_signed, Rem_unsigned}
UnaryOps  == {Log_not, Bit_not}
RefOps    == {Ref8, Ref16, Ref32}
Supported == BinaryOps \cup UnaryOps \cup RefOps \cup
             {Ext, Zero_ext, Dup, Pop, Swap, Pick, Rot, If_goto, Goto,
              Const8, Const16, Const32, Reg, End}

\* the operand bytes that follow each opcode
OperandLen(op) ==
    CASE op \in {Const8, Ext, Zero_ext, Pick}     -> 1
      [] op \in {Const16, Goto, If_goto, Reg}     -> 2
      [] op = Const32                             -> 4
      [] OTHER                                    -> 0

Errors == {"unsupported_bytecode", "bytecode_out_of_bound", "stack_out_of_bound",
           "division_by_zero", "memory_access_error", "register_access_error"}

\* static_cast<i32> and back
Signed(x)   == IF x >= M \div 2 THEN x - M ELSE x
Unsigned(x) == x % M
\* C++ / and % on int: the quotient truncated toward zero
Quot(x, y) == IF (x < 0) = (y < 0) THEN (IF x < 0 THEN -x ELSE x) \div (IF y < 0 THEN -y ELSE y)
              ELSE -((IF x < 0 THEN -x ELSE x) \div (IF y < 0 THEN -y ELSE y))
CRem(x, y) == x - y * Quot(x, y)
Bool(c) == IF c THEN 1 ELSE 0

\* u32 product, in two halves so that TLC's integers do not overflow
MulWord(a, b) == (((a * (b % 256)) % M) + (((a * (b \div 256)) % M) * 256)) % M

\* the value a binary case pushes: GET_TOP_TWO_STACK pops b (the top)
\* and then a, and each case computes b op a or a op b as written
Apply(op, a, b) ==
    CASE op = Add           -> (a + b) % M
      [] op = Sub           -> Unsigned(b - a)
      [] op = Mul           -> MulWord(a, b)
      [] op = Div_signed    -> Unsigned(Quot(Signed(b), Signed(a)))
      [] op = Div_unsigned  -> b \div a
      [] op = Rem_signed    -> Unsigned(CRem(Signed(b), Signed(a)))
      [] op = Rem_unsigned  -> b % a
      [] op = Lsh           -> (b * 2^(a % WordBits)) % M
      [] op = Rsh_signed    -> Unsigned(Signed(b) \div 2^(a % WordBits))
      [] op = Rsh_unsigned  -> b \div 2^(a % WordBits)
      [] op = Bit_and       -> a & b
      [] op = Bit_or        -> a | b
      [] op = Bit_xor       -> a ^^ b
      [] op = Equal         -> Bool(a = b)
      [] op = Less_signed   -> Bool(Signed(b) < Signed(a))
      [] op = Less_unsigned -> Bool(b < a)

\* the b == 0 test of the four division cases
DivisionByZero(op, a, b) == op \in Divides /\ b = 0

\* the host division traps (SIGFPE on x86) when the divisor a is zero or
\* the signed quotient overflows
HostFault(op, a, b) ==
    /\ op \in Divides
    /\ \/ a = 0
       \/ (op \in {Div_signed, Rem_signed} /\ Signed(b) = -(M \div 2) /\ Signed(a) = -1)

UnaryApply(op, a) == IF op = Log_not THEN Bool(a = 0) ELSE M - 1 - a

\* ext n: (i32)(a << (32 - n)) >> (32 - n); zero_ext n: a & ((1 << n) - 1).
\* A shift count outside 0..31 is undefined; x86 masks it to five bits.
SignExt(a, n) == LET s == (WordBits - n) % WordBits
                 IN Unsigned(Signed((a * 2^s) % M) \div 2^s)
ZeroExt(a, n) == a % 2^(n % WordBits)

\* Memory_accessor::read: the word at address & ~3, then its byte
MemReadable(addr) == addr - (addr % 4) \in MemWords
\* the little-endian value of bytes at addr, addr + 1, ... (u32 wrap)
Assemble(addr, k) == (LET RECURSIVE Sum(_)
                          Sum(i) == IF i = k THEN 0
                                    ELSE (MemByte[(addr + i) % M] * (256^i % M)) + Sum(i + 1)
                      IN Sum(0)) % M
RefReadable(addr, k) == \A i \in 0..k-1 : MemReadable((addr + i) % M)

\* CPU_register_accessor::read: x0-x31, pc (32), and CSR i - 128, cut to
\* the 12 bits of CSR_access_info::address, if it exists
RegReadable(i) == i <= 32 \/ (i >= 128 /\ (i - 128) % 4096 \in CsrAddrs)
==============================================================================
