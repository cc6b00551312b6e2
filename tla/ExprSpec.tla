------------------------------ MODULE ExprSpec ------------------------------
(***************************************************************************)
(* What the condition VM promises (spec 4.13), at the level of whole       *)
(* instructions: a program is a sequence of instructions, each an opcode   *)
(* with its operand already read (a constant, a shift width, a pick depth, *)
(* a register number, or a jump target as an instruction index), and      *)
(* "cut" when the bytecode ends inside its operand.  There are no bytes    *)
(* and no byte pc.  Values are computed as ExprWord computes them; this   *)
(* specification is about control, the stack discipline and which error  *)
(* each instruction ends in.                                               *)
(***************************************************************************)
EXTENDS ExprWord, Sequences

CONSTANTS RegIdx, RegVals

VARIABLES
    prog,   \* the instructions
    ip,     \* the next instruction; Len(prog) + 1 is past the end
    stk,    \* the stack, top last
    st,     \* "running", "done" or an error
    out,    \* <<top>> or <<top, next_to_top>>
    regs    \* the registers the program may read

avars == <<prog, ip, stk, st, out, regs>>

Instr == [op : 0..255, arg : Nat, cut : BOOLEAN]

AInit ==
    /\ prog \in Seq(Instr)
    /\ ip = 1 /\ stk = <<>> /\ st = "running" /\ out = <<>>
    /\ regs \in [RegIdx -> RegVals]

I         == prog[ip]
Nth(k)    == stk[Len(stk) - k]
Drop(k)   == SubSeq(stk, 1, Len(stk) - k)
Arity(op) ==
    CASE op \in BinaryOps \cup {Swap}                                   -> 2
      [] op = Rot                                                       -> 3
      [] op \in UnaryOps \cup RefOps \cup {Ext, Zero_ext, Dup, Pop, If_goto, End} -> 1
      [] OTHER                                                          -> 0

Stop(e) == st' = e /\ UNCHANGED <<prog, ip, stk, out, regs>>
Go(s, i) == stk' = s /\ ip' = i /\ UNCHANGED <<prog, st, out, regs>>

Live == st = "running" /\ ip \in 1..Len(prog)

\* reading an opcode past the end, an unknown opcode, or an operand past
\* the end (if_goto's target is read only when it jumps) ends the run
BadCode ==
    \/ st = "running" /\ ip > Len(prog) /\ Stop("bytecode_out_of_bound")
    \/ Live /\ I.op \notin Supported /\ Stop("unsupported_bytecode")
    \/ Live /\ I.op \in Supported \ {If_goto} /\ I.cut /\ Stop("bytecode_out_of_bound")

\* too few operands on the stack (pick needs more than its depth)
Underflow ==
    /\ Live /\ I.op \in Supported /\ (I.cut => I.op = If_goto)
    /\ \/ Len(stk) < Arity(I.op)
       \/ I.op = Pick /\ I.arg >= Len(stk)
    /\ Stop("stack_out_of_bound")

\* an instruction with its operands on the stack
Ready == Live /\ I.op \in Supported /\ (I.cut => I.op = If_goto)
         /\ Len(stk) >= Arity(I.op) /\ (I.op = Pick => I.arg < Len(stk))

Compute ==
    /\ Ready /\ I.op \in BinaryOps \cup UnaryOps \cup {Ext, Zero_ext}
    /\ IF I.op \in BinaryOps /\ DivisionByZero(I.op, Nth(1), Nth(0))
       THEN Stop("division_by_zero")
       ELSE Go(Append(Drop(Arity(I.op)),
                 CASE I.op \in BinaryOps -> Apply(I.op, Nth(1), Nth(0))
                   [] I.op \in UnaryOps  -> UnaryApply(I.op, Nth(0))
                   [] I.op = Ext         -> SignExt(Nth(0), I.arg)
                   [] I.op = Zero_ext    -> ZeroExt(Nth(0), I.arg)), ip + 1)

Load ==
    /\ Ready /\ I.op \in RefOps \cup {Reg}
    /\ IF I.op = Reg
       THEN IF RegReadable(I.arg) THEN Go(Append(stk, regs[I.arg]), ip + 1)
            ELSE Stop("register_access_error")
       ELSE LET k == CASE I.op = Ref8 -> 1 [] I.op = Ref16 -> 2 [] I.op = Ref32 -> 4
            IN IF RefReadable(Nth(0), k) THEN Go(Append(Drop(1), Assemble(Nth(0), k)), ip + 1)
               ELSE Stop("memory_access_error")

\* dup, pop, swap, rot, pick n, constN: the stack operations of GDB's
\* agent expressions; pick 0 is dup
Push ==
    /\ Ready /\ I.op \in {Dup, Pop, Swap, Rot, Pick, Const8, Const16, Const32}
    /\ Go(CASE I.op = Dup  -> Append(stk, Nth(0))
            [] I.op = Pop  -> Drop(1)
            [] I.op = Swap -> Drop(2) \o <<Nth(0), Nth(1)>>
            [] I.op = Rot  -> Drop(3) \o <<Nth(0), Nth(2), Nth(1)>>
            [] I.op = Pick -> Append(stk, Nth(I.arg))
            [] OTHER       -> Append(stk, I.arg), ip + 1)

\* goto; if_goto pops, falls through on zero and otherwise jumps
Branch ==
    /\ Ready /\ I.op \in {Goto, If_goto}
    /\ IF I.op = Goto THEN Go(stk, I.arg)
       ELSE IF Nth(0) = 0 THEN Go(Drop(1), ip + 1)
       ELSE IF I.cut THEN Stop("bytecode_out_of_bound")
       ELSE Go(Drop(1), I.arg)

\* end returns the top and, if there is one, the next-to-top
Return ==
    /\ Ready /\ I.op = End
    /\ st' = "done"
    /\ out' = IF Len(stk) = 1 THEN <<Nth(0)>> ELSE <<Nth(0), Nth(1)>>
    /\ UNCHANGED <<prog, ip, stk, regs>>

ANext == BadCode \/ Underflow \/ Compute \/ Load \/ Push \/ Branch \/ Return

ASpec == AInit /\ [][ANext]_avars
==============================================================================
