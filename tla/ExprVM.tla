------------------------------- MODULE ExprVM -------------------------------
(***************************************************************************)
(* gdb_stub::expression::execute (expression.cpp), the stack machine that  *)
(* evaluates a hardware breakpoint's condition (Hw_breakpoint::            *)
(* is_triggered_by).  One step is one pass of its while (true) loop: the  *)
(* opcode at pc and its case of the switch, with every early return of    *)
(* the POP_STACK, GET_STACK_AT_INDEX, GET_OP_AT_INDEX and                  *)
(* GET_MEMORY_AT_ADDR macros in the order the case meets them.  The       *)
(* bytecode is a sequence of bytes indexed from 0 as in the code.          *)
(***************************************************************************)
EXTENDS ExprWord, Sequences

CONSTANTS
    Programs,   \* the bytecode sequences breakpoints carry
    RegIdx,     \* register numbers the programs read
    RegVals,    \* values those registers can hold
    MaxStack    \* bound on the stack the model explores

ASSUME /\ \A p \in Programs : p \in Seq(0..255)
       /\ \A i \in RegIdx : RegReadable(i)
       \* every readable register a program names is in RegIdx
       /\ RegVals \subseteq Word /\ MaxStack \in Nat

VARIABLES
    code,    \* bytecode_sequence
    pc,      \* size_t pc
    stack,   \* std::vector<Stack_element> stack; the top is its last element
    status,  \* "running", "done", an Execute_error, or "host_fault"
    res,     \* the Execute_result: <<top>> or <<top, next_to_top>>
    regs     \* what access_register_func returns for RegIdx

vars == <<code, pc, stack, status, res, regs>>

TypeOK ==
    /\ code \in Programs
    /\ pc \in Nat
    /\ stack \in Seq(Word) /\ Len(stack) <= MaxStack
    /\ status \in {"running", "done", "host_fault"} \cup Errors
    /\ res \in Seq(Word) /\ Len(res) <= 2
    /\ regs \in [RegIdx -> RegVals]

Init ==
    /\ code \in Programs
    /\ pc = 0
    /\ stack = <<>>
    /\ status = "running"
    /\ res = <<>>
    /\ regs \in [RegIdx -> RegVals]

\* bytecode_sequence[i], and whether GET_OP_AT_INDEX(i) succeeds
Byte(i)   == code[i + 1]
InCode(i) == i < Len(code)
\* "most-significant byte first" operands
BigEndian(i, k) == (LET RECURSIVE BE(_)
                        BE(j) == IF j = k THEN 0 ELSE (Byte(i + j) * (256^(k - 1 - j) % M)) + BE(j + 1)
                    IN BE(0)) % M
\* stack[stack.size() - k - 1]; Top(0) is stack.back()
Top(k)    == stack[Len(stack) - k]
Popped(k) == SubSeq(stack, 1, Len(stack) - k)

Op == Byte(pc)

\* an early return with an error (the stack dies with the call)
Fail(e) == /\ status' = e
           /\ UNCHANGED <<code, pc, stack, res, regs>>

\* a case that completes and loops with a new stack and pc
Continue(s, p) == /\ Len(s) <= MaxStack
                  /\ stack' = s /\ pc' = p
                  /\ UNCHANGED <<code, status, res, regs>>

Running == status = "running"

-----------------------------------------------------------------------------
(* The loop body, by group of cases                                        *)

\* GET_OP_AT_INDEX(op_uint8, pc) past the end
RunOff == Running /\ ~InCode(pc) /\ Fail("bytecode_out_of_bound")

\* default:
Unsupported == Running /\ InCode(pc) /\ Op \notin Supported /\ Fail("unsupported_bytecode")

\* add ... less_unsigned: GET_TOP_TWO_STACK, the b == 0 test of the
\* divisions, then the host operation on b and a
Binary ==
    /\ Running /\ InCode(pc) /\ Op \in BinaryOps
    /\ IF Len(stack) < 2 THEN Fail("stack_out_of_bound")
       ELSE LET b == Top(0)
                a == Top(1)
            IN IF DivisionByZero(Op, a, b) THEN Fail("division_by_zero")
               ELSE IF HostFault(Op, a, b)
                    THEN status' = "host_fault" /\ UNCHANGED <<code, pc, stack, res, regs>>
                    ELSE Continue(Append(Popped(2), Apply(Op, a, b)), pc + 1)

\* log_not, bit_not
Unary ==
    /\ Running /\ InCode(pc) /\ Op \in UnaryOps
    /\ IF stack = <<>> THEN Fail("stack_out_of_bound")
       ELSE Continue(Append(Popped(1), UnaryApply(Op, Top(0))), pc + 1)

\* ext n, zero_ext n: the operand n is read before the pop
Extend ==
    /\ Running /\ InCode(pc) /\ Op \in {Ext, Zero_ext}
    /\ IF ~InCode(pc + 1) THEN Fail("bytecode_out_of_bound")
       ELSE IF stack = <<>> THEN Fail("stack_out_of_bound")
       ELSE LET n == Byte(pc + 1)
            IN Continue(Append(Popped(1), IF Op = Ext THEN SignExt(Top(0), n)
                                          ELSE ZeroExt(Top(0), n)), pc + 2)

\* ref8, ref16, ref32: pop the address, read 1, 2 or 4 bytes one by one
Deref ==
    /\ Running /\ InCode(pc) /\ Op \in RefOps
    /\ LET k == CASE Op = Ref8 -> 1 [] Op = Ref16 -> 2 [] Op = Ref32 -> 4
       IN IF stack = <<>> THEN Fail("stack_out_of_bound")
          ELSE IF ~RefReadable(Top(0), k) THEN Fail("memory_access_error")
          ELSE Continue(Append(Popped(1), Assemble(Top(0), k)), pc + 1)

\* dup, pop, swap, rot
Shuffle ==
    /\ Running /\ InCode(pc) /\ Op \in {Dup, Pop, Swap, Rot}
    /\ LET arity == CASE Op \in {Dup, Pop} -> 1 [] Op = Swap -> 2 [] Op = Rot -> 3
       IN IF Len(stack) < arity THEN Fail("stack_out_of_bound")
          ELSE Continue(CASE Op = Dup  -> Append(stack, Top(0))
                          [] Op = Pop  -> Popped(1)
                          [] Op = Swap -> Popped(2) \o <<Top(0), Top(1)>>
                          [] Op = Rot  -> Popped(3) \o <<Top(0), Top(2), Top(1)>>,
                        pc + 1)

\* pick n: GET_OP_AT_INDEX, then GET_STACK_AT_INDEX(val, n)
PickN ==
    /\ Running /\ InCode(pc) /\ Op = Pick
    /\ IF ~InCode(pc + 1) THEN Fail("bytecode_out_of_bound")
       ELSE IF Byte(pc + 1) >= Len(stack) THEN Fail("stack_out_of_bound")
       ELSE Continue(Append(stack, Top(Byte(pc + 1))), pc + 2)

\* (mutant) if_goto reads both target bytes before it tests the popped value
JumpTargetFirst ==
    /\ Running /\ InCode(pc) /\ Op \in {Goto, If_goto}
    /\ IF Op = If_goto /\ stack = <<>> THEN Fail("stack_out_of_bound")
       ELSE IF ~InCode(pc + 2) THEN Fail("bytecode_out_of_bound")
       ELSE IF Op = If_goto /\ Top(0) = 0 THEN Continue(Popped(1), pc + 3)
       ELSE Continue(IF Op = If_goto THEN Popped(1) ELSE stack,
                     Byte(pc + 1) * 256 + Byte(pc + 2))

\* goto; if_goto pops first and reads its target only when it jumps
Jump ==
    /\ Running /\ InCode(pc) /\ Op \in {Goto, If_goto}
    /\ IF Op = If_goto /\ stack = <<>> THEN Fail("stack_out_of_bound")
       ELSE IF Op = If_goto /\ Top(0) = 0 THEN Continue(Popped(1), pc + 3)
       ELSE IF ~InCode(pc + 2) THEN Fail("bytecode_out_of_bound")
       ELSE Continue(IF Op = If_goto THEN Popped(1) ELSE stack,
                     Byte(pc + 1) * 256 + Byte(pc + 2))

\* const8, const16, const32
Constant ==
    /\ Running /\ InCode(pc) /\ Op \in {Const8, Const16, Const32}
    /\ LET k == CASE Op = Const8 -> 1 [] Op = Const16 -> 2 [] Op = Const32 -> 4
       IN IF ~InCode(pc + k) THEN Fail("bytecode_out_of_bound")
          ELSE Continue(Append(stack, BigEndian(pc + 1, k)), pc + 1 + k)

\* reg: a 16-bit register number, then access_register_func
RegRead ==
    /\ Running /\ InCode(pc) /\ Op = Reg
    /\ IF ~InCode(pc + 2) THEN Fail("bytecode_out_of_bound")
       ELSE LET i == Byte(pc + 1) * 256 + Byte(pc + 2)
            IN IF ~RegReadable(i) THEN Fail("register_access_error")
               ELSE Continue(Append(stack, regs[i]), pc + 3)

\* end: pop the top, and the next-to-top if there is one, and return
Finish ==
    /\ Running /\ InCode(pc) /\ Op = End
    /\ IF stack = <<>> THEN Fail("stack_out_of_bound")
       ELSE /\ status' = "done"
            /\ res' = IF Len(stack) = 1 THEN <<Top(0)>> ELSE <<Top(0), Top(1)>>
            /\ UNCHANGED <<code, pc, stack, regs>>

Next == RunOff \/ Unsupported \/ Binary \/ Unary \/ Extend \/ Deref \/ Shuffle
        \/ PickN \/ Jump \/ Constant \/ RegRead \/ Finish

Spec == Init /\ [][Next]_vars
==============================================================================
