-------------------------------- MODULE Isa --------------------------------
(***************************************************************************)
(* The CPU's pure stages, each call one step: Inst_decode_module on an     *)
(* instruction word, ALU_module and Branch_module on two operands.  The   *)
(* stages are functions, so a behaviour is a single call: the state after *)
(* it holds the inputs and the result, and a property relates the two     *)
(* through the RISC-V definition (spec 4.2, 4.3) the code implements.     *)
(***************************************************************************)
EXTENDS Alu, Decoder

CONSTANT Instrs   \* the instruction words the model decodes

VARIABLE last     \* the call: its kind, inputs and result

TypeOK ==
    \/ last = [kind |-> "none"]
    \/ last \in [kind : {"decode"}, w : Bits, out : [ok : BOOLEAN, res : ResultType]]
    \/ last \in [kind : {"alu"}, op : AluOps, x : U32, y : U32, out : U32]
    \/ last \in [kind : {"branch"}, op : BranchOps, x : U32, y : U32, taken : BOOLEAN]

Init == last = [kind |-> "none"]

Idle == last.kind = "none"

\* Inst_decode_module::operator()(registers, instr, pc)
DecodeStep ==
    Idle /\ \E w \in Instrs : last' = [kind |-> "decode", w |-> w, out |-> Decode(w)]

\* ALU_module::operator()(opcode, x, y)
AluStep ==
    Idle /\ \E op \in AluOps, x, y \in U32 : last' = [kind |-> "alu", op |-> op, x |-> x, y |-> y, out |-> AluCode(op, x, y)]

\* Branch_module::operator()(opcode, x, y)
BranchStep ==
    Idle /\ \E op \in BranchOps, x, y \in U32 :
        last' = [kind |-> "branch", op |-> op, x |-> x, y |-> y, taken |-> BranchCode(op, x, y)]

Next == DecodeStep \/ AluStep \/ BranchStep

Spec == Init /\ [][Next]_last

-----------------------------------------------------------------------------
(* The reference: RISC-V's encodings of the instructions spec 4.2 lists   *)

\* an instruction: its 7-bit opcode, funct3, funct7 and, for ecall and
\* mret, the 12-bit immediate with rs1 = rd = 0 (-1: any value)
Entry(name, op7, f3, f7, i12, sel) ==
    [name |-> name, op7 |-> op7, f3 |-> f3, f7 |-> f7, i12 |-> i12, sel |-> sel]
Rows(name, op7, f7, pairs) == {Entry(name, op7, p[1], f7, -1, p[2]) : p \in pairs}

IsaTable ==
    {Entry("lui", 55, -1, -1, -1, "Add"), Entry("auipc", 23, -1, -1, -1, "Add"),
     Entry("jal", 111, -1, -1, -1, "Add"), Entry("jalr", 103, 0, -1, -1, "Add"),
     Entry("fence.i", 15, 1, -1, -1, "Add"),
     Entry("ecall", 115, 0, -1, 0, "Add"), Entry("mret", 115, 0, -1, 770, "Add")}
    \cup Rows("branch", 99, -1, {<<0, "Eq">>, <<1, "Ne">>, <<4, "Lt">>, <<5, "Ge">>, <<6, "Ltu">>, <<7, "Geu">>})
    \cup Rows("load", 3, -1, {<<0, "Load_byte">>, <<1, "Load_halfword">>, <<2, "Load_word">>,
                              <<4, "Load_byte_unsigned">>, <<5, "Load_halfword_unsigned">>})
    \cup Rows("store", 35, -1, {<<0, "Store_byte">>, <<1, "Store_halfword">>, <<2, "Store_word">>})
    \cup Rows("op-imm", 19, -1, {<<0, "Add">>, <<2, "Slt">>, <<3, "Sltu">>, <<4, "Xor">>, <<6, "Or">>, <<7, "And">>})
    \cup Rows("op-imm", 19, 0, {<<1, "Sll">>, <<5, "Srl">>}) \cup Rows("op-imm", 19, 32, {<<5, "Sra">>})
    \cup Rows("op", 51, 0, {<<0, "Add">>, <<1, "Sll">>, <<2, "Slt">>, <<3, "Sltu">>, <<4, "Xor">>,
                            <<5, "Srl">>, <<6, "Or">>, <<7, "And">>})
    \cup Rows("op", 51, 32, {<<0, "Sub">>, <<5, "Sra">>})
    \cup Rows("op", 51, 1, {<<0, "Mul">>, <<1, "Mulh">>, <<2, "Mulhsu">>, <<3, "Mulhu">>,
                            <<4, "Div">>, <<5, "Divu">>, <<6, "Rem">>, <<7, "Remu">>})
    \cup Rows("op", 51, 7, {<<5, "Czero_eqz">>, <<7, "Czero_nez">>})
    \cup Rows("csr", 115, -1, {<<1, "Overwrite">>, <<2, "Set">>, <<3, "Clear">>,
                              <<5, "Overwrite">>, <<6, "Set">>, <<7, "Clear">>})

Matches(w, e) ==
    /\ Slice(w, 6, 0) = e.op7
    /\ e.f3 = -1 \/ Slice(w, 14, 12) = e.f3
    /\ e.f7 = -1 \/ Slice(w, 31, 25) = e.f7
    /\ e.i12 = -1 \/ (Slice(w, 31, 20) = e.i12 /\ Slice(w, 19, 15) = 0 /\ Slice(w, 11, 7) = 0)

\* the immediates as the ISA manual draws them: each instruction bit
\* weighs a power of two, and inst[31] weighs minus the top one
IImm(w) == Slice(w, 30, 20) - w[31] * 2^11
SImm(w) == Slice(w, 30, 25) * 2^5 + Slice(w, 11, 7) - w[31] * 2^11
BImm(w) == Slice(w, 30, 25) * 2^5 + Slice(w, 11, 8) * 2 + w[7] * 2^11 - w[31] * 2^12
UImm(w) == (Slice(w, 30, 12) - w[31] * 2^19) * 2^12
JImm(w) == Slice(w, 30, 21) * 2 + w[20] * 2^11 + Slice(w, 19, 12) * 2^12 - w[31] * 2^20

\* what the instruction means, in the vocabulary of a Result: the
\* register written and from what, the ALU operation and operands (which
\* compute the address or target), the branch condition (always for the
\* jumps), the memory access, and the CSR access of spec 4.2
IsaResult(w, e) ==
    LET rd == Slice(w, 11, 7)  rs1 == Slice(w, 19, 15)  rs2 == Slice(w, 24, 20)
        f3 == Slice(w, 14, 12) R == Result
    IN CASE e.name = "lui"   -> [R EXCEPT !.wb = "Alu", !.rd = rd, !.n1 = Imm(UImm(w))]
         [] e.name = "auipc" -> [R EXCEPT !.wb = "Alu", !.rd = rd, !.n1 = Pc, !.n2 = Imm(UImm(w))]
         [] e.name = "jal"   -> [R EXCEPT !.wb = "Pc_plus_4", !.rd = rd, !.n1 = Pc, !.n2 = Imm(JImm(w)), !.br = "Eq"]
         [] e.name = "jalr"  -> [R EXCEPT !.wb = "Pc_plus_4", !.rd = rd, !.n1 = Reg(rs1), !.n2 = Imm(IImm(w)), !.br = "Eq"]
         [] e.name = "branch" -> [R EXCEPT !.n1 = Pc, !.n2 = Imm(BImm(w)), !.br = e.sel, !.b1 = Reg(rs1), !.b2 = Reg(rs2)]
         [] e.name = "load"  -> [R EXCEPT !.wb = "Memory", !.rd = rd, !.n1 = Reg(rs1), !.n2 = Imm(IImm(w)),
                                          !.mem = "Load", !.funct = e.sel]
         [] e.name = "store" -> [R EXCEPT !.n1 = Reg(rs1), !.n2 = Imm(SImm(w)), !.mem = "Store", !.funct = e.sel,
                                          !.sv = Reg(rs2)]
         [] e.name = "op-imm" -> [R EXCEPT !.wb = "Alu", !.rd = rd, !.alu = e.sel, !.n1 = Reg(rs1),
                                           !.n2 = Imm(IF e.sel \in {"Sll", "Srl", "Sra"} THEN rs2 ELSE IImm(w))]
         [] e.name = "op"    -> [R EXCEPT !.wb = "Alu", !.rd = rd, !.alu = e.sel, !.n1 = Reg(rs1), !.n2 = Reg(rs2)]
         [] e.name = "fence.i" -> [R EXCEPT !.fencei = TRUE]
         [] e.name = "ecall" -> [R EXCEPT !.ecall = TRUE]
         [] e.name = "mret"  -> [R EXCEPT !.mret = TRUE]
         [] e.name = "csr"   -> [R EXCEPT !.wb = "Csr", !.rd = rd,
                                   !.csr = [mode |-> IF rs1 # 0 THEN e.sel ELSE "None",
                                            addr |-> Slice(w, 31, 20),
                                            wv |-> IF f3 >= 4 THEN Imm(rs1) ELSE Reg(rs1),
                                            read |-> e.sel # "Overwrite" \/ rd # 0]]

\* the parts of a Result the execute stage uses: a shift uses the low five
\* bits of its second operand only (spec 4.3)
Effect(r) == IF r.alu \in {"Sll", "Srl", "Sra"} /\ r.n2.src = "imm"
             THEN [r EXCEPT !.n2.v = @ % 32] ELSE r
\* the CSR immediate forms write zimm, rs1 zero-extended (RISC-V); the
\* code sign-extends it (decode.cpp:324), so a zimm >= 16 is left out
Comparable(w, e) == ~(e.name = "csr" /\ Slice(w, 14, 12) >= 4 /\ Slice(w, 19, 15) >= 16)

-----------------------------------------------------------------------------
(* Properties                                                              *)

\* Every instruction of RV32IM, Zicond, Zicsr, fence.i and mret that spec
\* 4.2 lists is accepted by Inst_decode_module and decoded to what it
\* means: the code's opcode switch, its funct3 arrays indexed with bit 30
\* and funct7's low bits, and the inst.hpp immediates assembled by slicing
\* and concatenating bits must agree with the encoding table and with
\* the immediates weighed bit by bit.
DecodeMatchesIsa ==
    last.kind = "decode" =>
        \A e \in IsaTable :
            (Matches(last.w, e) /\ Comparable(last.w, e))
                => /\ last.out.ok
                   /\ Effect(last.out.res) = Effect(IsaResult(last.w, e))

\* ALU_module and Branch_module compute spec 4.3's functions: wrapping
\* arithmetic, shifts by the low bits of y, signed and unsigned
\* comparison, the division and remainder of RISC-V with their zero and
\* overflow cases, czero; mulh and mulhsu are checked on their own
\* (MulHighMatchesSpec).
NumericMatchesSpec ==
    /\ (last.kind = "alu" /\ last.op \notin {"Mulh", "Mulhsu"}) => last.out = AluSpec(last.op, last.x, last.y)
    /\ last.kind = "branch" => last.taken = BranchSpec(last.op, last.x, last.y)

\* mulh and mulhsu return the high word of the signed by signed and the
\* signed by unsigned product (spec 4.3).
MulHighMatchesSpec ==
    (last.kind = "alu" /\ last.op \in {"Mulh", "Mulhsu"}) => last.out = AluSpec(last.op, last.x, last.y)
==============================================================================
