------------------------------ MODULE Decoder ------------------------------
(***************************************************************************)
(* Inst_decode_module (decode.cpp) with the instruction formats of         *)
(* inst.hpp.  An instruction word is its 32 bits, [0..31 -> {0, 1}].  A   *)
(* 32-bit value the decoder builds (an immediate, static_cast<u32> of it) *)
(* is represented by the integer whose two's-complement bits it has;      *)
(* register values and the pc, which the decoder only passes on, are     *)
(* symbolic operands.  The reference it is checked against is in Isa.    *)
(***************************************************************************)
EXTENDS Integers

Bits == [0..31 -> {0, 1}]

\* Bitset::slice<hi, lo>()
Slice(w, hi, lo) ==
    LET RECURSIVE S(_)
        S(i) == IF i < lo THEN 0 ELSE w[i] * 2^(i - lo) + S(i - 1)
    IN S(hi)
\* a + b, b being nb bits wide
Cat(a, b, nb) == a * 2^nb + b
\* sext<32>() of an n-bit value
Sext(v, n) == IF v >= 2^(n - 1) THEN v - 2^n ELSE v

\* the operands a Result carries
Reg(r) == [src |-> "reg", v |-> r]     \* registers.get_register(r)
Imm(v) == [src |-> "imm", v |-> v]
Pc     == [src |-> "pc", v |-> 0]

-----------------------------------------------------------------------------
(* inst.hpp                                                                *)

\* (mutant) rd sliced one bit too wide
RtypeWideRd(w) == [funct7 |-> Slice(w, 31, 25), rs2 |-> Slice(w, 24, 20), rs1 |-> Slice(w, 19, 15),
                   funct3 |-> Slice(w, 14, 12), rd |-> Slice(w, 12, 7)]
Rtype(w) == [funct7 |-> Slice(w, 31, 25), rs2 |-> Slice(w, 24, 20), rs1 |-> Slice(w, 19, 15),
             funct3 |-> Slice(w, 14, 12), rd |-> Slice(w, 11, 7)]
Itype(w) == [imm |-> Sext(Slice(w, 31, 20), 12), rs1 |-> Slice(w, 19, 15),
             funct3 |-> Slice(w, 14, 12), rd |-> Slice(w, 11, 7)]
Stype(w) == [imm |-> Sext(Cat(Slice(w, 31, 25), Slice(w, 11, 7), 5), 12),
             rs1 |-> Slice(w, 19, 15), rs2 |-> Slice(w, 24, 20), funct3 |-> Slice(w, 14, 12)]
Btype(w) == [imm |-> Sext(Cat(Cat(Cat(Cat(w[31], w[7], 1), Slice(w, 30, 25), 6), Slice(w, 11, 8), 4), 0, 1), 13),
             rs1 |-> Slice(w, 19, 15), rs2 |-> Slice(w, 24, 20), funct3 |-> Slice(w, 14, 12)]
\* slice<31, 12>() + zeros<12>: a full 32-bit word, so its top bit is the sign
Utype(w) == [imm |-> Cat(Sext(Slice(w, 31, 12), 20), 0, 12), rd |-> Slice(w, 11, 7)]
Jtype(w) == [imm |-> Sext(Cat(Cat(Cat(Cat(w[31], Slice(w, 19, 12), 8), w[20], 1), Slice(w, 30, 21), 10), 0, 1), 21),
             rd |-> Slice(w, 11, 7)]

-----------------------------------------------------------------------------
(* decode.cpp                                                              *)

\* CSR_access_info{} and Result{}: the defaults of every field
NoCsr  == [mode |-> "None", addr |-> 0, wv |-> Imm(0), read |-> FALSE]
Result == [wb |-> "None", rd |-> 0, alu |-> "Add", n1 |-> Imm(0), n2 |-> Imm(0),
           br |-> "None", b1 |-> Imm(0), b2 |-> Imm(0),
           mem |-> "None", funct |-> "None", sv |-> Imm(0),
           fencei |-> FALSE, ecall |-> FALSE, mret |-> FALSE, csr |-> NoCsr]

\* the values a Result's fields take
Operand    == [src : {"reg", "imm", "pc"}, v : Int]
ResultType == [wb : {"None", "Pc_plus_4", "Alu", "Memory", "Csr"}, rd : 0..31, alu : STRING,
               n1 : Operand, n2 : Operand, br : STRING, b1 : Operand, b2 : Operand,
               mem : {"None", "Load", "Store"}, funct : STRING, sv : Operand,
               fencei : BOOLEAN, ecall : BOOLEAN, mret : BOOLEAN,
               csr : [mode : {"None", "Overwrite", "Set", "Clear"}, addr : 0..4095,
                      wv : Operand, read : BOOLEAN]]

\* std::expected<Result, Trap>
Ok(r)   == [ok |-> TRUE, res |-> r]
Illegal == [ok |-> FALSE, res |-> Result]

DecodeLui(w) == LET u == Utype(w)
                IN [Result EXCEPT !.wb = "Alu", !.rd = u.rd, !.n1 = Imm(u.imm), !.n2 = Imm(0)]
DecodeAuipc(w) == LET u == Utype(w)
                  IN [Result EXCEPT !.wb = "Alu", !.rd = u.rd, !.n1 = Pc, !.n2 = Imm(u.imm)]
DecodeJal(w) == LET j == Jtype(w)
                IN [Result EXCEPT !.wb = "Pc_plus_4", !.rd = j.rd, !.n1 = Pc, !.n2 = Imm(j.imm),
                                  !.br = "Eq", !.b1 = Imm(0), !.b2 = Imm(0)]
DecodeJalr(w) == LET i == Itype(w)
                 IN [Result EXCEPT !.wb = "Pc_plus_4", !.rd = i.rd, !.n1 = Reg(i.rs1), !.n2 = Imm(i.imm),
                                   !.br = "Eq", !.b1 = Imm(0), !.b2 = Imm(0)]

LoadFunctList == <<"Load_byte", "Load_halfword", "Load_word", "None",
                   "Load_byte_unsigned", "Load_halfword_unsigned", "None", "None">>
DecodeLoad(w) == LET i == Itype(w)
                 IN [Result EXCEPT !.wb = "Memory", !.rd = i.rd, !.n1 = Reg(i.rs1), !.n2 = Imm(i.imm),
                                   !.mem = "Load", !.funct = LoadFunctList[i.funct3 + 1]]

DecodeStore(w) ==
    LET s == Stype(w)
        funct == CASE s.funct3 = 0 -> "Store_byte"
                   [] s.funct3 = 1 -> "Store_halfword"
                   [] s.funct3 = 2 -> "Store_word"
                   [] OTHER        -> "None"
    IN [Result EXCEPT !.n1 = Reg(s.rs1), !.n2 = Imm(s.imm), !.mem = "Store", !.funct = funct,
                      !.sv = Reg(s.rs2)]

\* the RV32I funct3 table; bit 30 picks sra over srl (and sub over add
\* where the caller allows it)
ShiftRight(w) == IF w[30] = 1 THEN "Sra" ELSE "Srl"
DecodeRegImm(w) ==
    LET i == Itype(w)
        ops == <<"Add", "Sll", "Slt", "Sltu", "Xor", ShiftRight(w), "Or", "And">>
    IN [Result EXCEPT !.wb = "Alu", !.rd = i.rd, !.alu = ops[i.funct3 + 1],
                      !.n1 = Reg(i.rs1), !.n2 = Imm(i.imm)]

\* (mutant) the family taken from funct7's upper three bits
DecodeRegRegUpper(w) ==
    LET r == Rtype(w)
        sel == r.funct7 \div 16
        rv32i == <<IF w[30] = 1 THEN "Sub" ELSE "Add", "Sll", "Slt", "Sltu", "Xor",
                   ShiftRight(w), "Or", "And">>
        rv32m == <<"Mul", "Mulh", "Mulhsu", "Mulhu", "Div", "Divu", "Rem", "Remu">>
        ok(op) == Ok([Result EXCEPT !.wb = "Alu", !.rd = r.rd, !.alu = op,
                                    !.n1 = Reg(r.rs1), !.n2 = Reg(r.rs2)])
    IN CASE sel = 0                  -> ok(rv32i[r.funct3 + 1])
         [] sel = 1                  -> ok(rv32m[r.funct3 + 1])
         [] sel = 7 /\ r.funct3 = 5  -> ok("Czero_eqz")
         [] sel = 7 /\ r.funct3 = 7  -> ok("Czero_nez")
         [] OTHER                    -> Illegal

\* funct7_select is funct7.slice<2, 0>()
DecodeRegReg(w) ==
    LET r == Rtype(w)
        sel == r.funct7 % 8
        rv32i == <<IF w[30] = 1 THEN "Sub" ELSE "Add", "Sll", "Slt", "Sltu", "Xor",
                   ShiftRight(w), "Or", "And">>
        rv32m == <<"Mul", "Mulh", "Mulhsu", "Mulhu", "Div", "Divu", "Rem", "Remu">>
        ok(op) == Ok([Result EXCEPT !.wb = "Alu", !.rd = r.rd, !.alu = op,
                                    !.n1 = Reg(r.rs1), !.n2 = Reg(r.rs2)])
    IN CASE sel = 0                  -> ok(rv32i[r.funct3 + 1])
         [] sel = 1                  -> ok(rv32m[r.funct3 + 1])
         [] sel = 7 /\ r.funct3 = 5  -> ok("Czero_eqz")
         [] sel = 7 /\ r.funct3 = 7  -> ok("Czero_nez")
         [] OTHER                    -> Illegal

DecodeBranch(w) ==
    LET b == Btype(w)
        ops == <<"Eq", "Ne", "None", "None", "Lt", "Ge", "Ltu", "Geu">>
    IN [Result EXCEPT !.n1 = Pc, !.n2 = Imm(b.imm), !.br = ops[b.funct3 + 1],
                      !.b1 = Reg(b.rs1), !.b2 = Reg(b.rs2)]

DecodeMiscMem(w) == IF Itype(w).funct3 = 1 THEN Ok([Result EXCEPT !.fencei = TRUE]) ELSE Illegal

\* funct3 = 0 compares static_cast<u16>(imm); the CSR forms sign-extend
\* the 5-bit rs1 field as their immediate
DecodeSystem(w) ==
    LET i == Itype(w)
        write == i.rs1 # 0
        csr == [mode |-> CASE i.funct3 % 4 = 1 -> IF write THEN "Overwrite" ELSE "None"
                           [] i.funct3 % 4 = 2 -> IF write THEN "Set" ELSE "None"
                           [] i.funct3 % 4 = 3 -> IF write THEN "Clear" ELSE "None"
                           [] OTHER -> "None",
                addr |-> i.imm % 2^12,
                wv |-> IF i.funct3 >= 4 THEN Imm(Sext(i.rs1, 5)) ELSE Reg(i.rs1),
                read |-> i.funct3 % 4 # 1 \/ i.rd # 0]
    IN CASE i.funct3 = 0 /\ i.imm % 2^16 = 0     -> Ok([Result EXCEPT !.ecall = TRUE])
         [] i.funct3 = 0 /\ i.imm % 2^16 = 770   -> Ok([Result EXCEPT !.mret = TRUE])
         [] i.funct3 \in {1, 2, 3, 5, 6, 7}      -> Ok([Result EXCEPT !.wb = "Csr", !.rd = i.rd, !.csr = csr])
         [] OTHER                                -> Illegal

\* Inst_decode_module::operator(): RV32C (len # 11) is illegal, then the
\* 5-bit opcode [6:2] picks the format
Decode(w) ==
    LET opcode == Slice(w, 6, 2)
    IN CASE Slice(w, 1, 0) # 3 -> Illegal
         [] opcode = 13 -> Ok(DecodeLui(w))
         [] opcode = 5  -> Ok(DecodeAuipc(w))
         [] opcode = 27 -> Ok(DecodeJal(w))
         [] opcode = 25 -> Ok(DecodeJalr(w))
         [] opcode = 0  -> Ok(DecodeLoad(w))
         [] opcode = 8  -> Ok(DecodeStore(w))
         [] opcode = 4  -> Ok(DecodeRegImm(w))
         [] opcode = 12 -> DecodeRegReg(w)
         [] opcode = 24 -> Ok(DecodeBranch(w))
         [] opcode = 3  -> DecodeMiscMem(w)
         [] opcode = 28 -> DecodeSystem(w)
         [] OTHER       -> Illegal
==============================================================================
