-------------------------------- MODULE Hart --------------------------------
(***************************************************************************)
(* One RV32 machine-mode hart of the emulator, cycle by cycle:             *)
(* Emulator::tick_one_cycle = CPU_module::step (execute, handle_trap,      *)
(* CSR_module::tick) followed by Clock::tick.  The program is arbitrary:   *)
(* each cycle fetches any instruction of Instrs.  Data is abstracted to    *)
(* what the trap and interrupt logic reads: the CSRs, one destination    *)
(* register x1, the pc, and the clock's counter and compare value.  A      *)
(* 32-bit word is the set of its one bits (TLC integers are 32-bit         *)
(* signed), so masking is exact; addresses are numbers below 2^31: the     *)
(* RAM at 0x8000_0000 is outside this model, ROM, clock and unmapped       *)
(* space are inside it.                                                    *)
(***************************************************************************)
EXTENDS Naturals, FiniteSets

CONSTANTS
    CsrAddrs,       \* CSR addresses the program uses (some may not exist)
    CsrWriteVals,   \* a function from (at least) CsrAddrs to the values written
    CsrRds,         \* the rd of CSR instructions: x0 and/or x1
    JumpTargets,    \* targets of taken jumps and branches
    StoreAddrs,     \* effective addresses of stores
    CmpVals,        \* values stored into the clock's compare register
    InstWord,       \* the instruction word (mtval of an illegal instruction)
    MaxCycles       \* bound on mcycle

Bits == 0..31
Word == SUBSET Bits
Ones == Bits
\* the word of a number below 2^31, and the number of a word without bit 31
ToWord(n) == {i \in 0..30 : (n \div 2^i) % 2 = 1}
RECURSIVE ToNum(_)
ToNum(w) == IF w = {} THEN 0
            ELSE LET i == CHOOSE j \in w : TRUE IN 2^i + ToNum(w \ {i})

\* CSR addresses (csr.hpp)
MSTATUS == 768   \* 0x300
MIE     == 772   \* 0x304
MTVEC   == 773   \* 0x305
MEPC    == 833   \* 0x341
MCAUSE  == 834   \* 0x342
MTVAL   == 835   \* 0x343
MIP     == 836   \* 0x344
MVENDORID == 3857  \* 0xF11, read-only
\* the CSRs CSR_module implements among those modelled
CsrFile == {MSTATUS, MIE, MTVEC, MEPC, MCAUSE, MTVAL, MIP, MVENDORID}

\* trap codes (trap.hpp) as mcause words: bit 31 marks an interrupt.
\* NoTrap marks a cycle that commits; bit 32 keeps it apart from every
\* mcause word (InstMisaligned is the empty word).
NoTrap           == {32}
InstMisaligned   == ToWord(0)
InstAccessFault  == ToWord(1)
IllegalInst      == ToWord(2)
StoreMisaligned  == ToWord(6)
StoreAccessFault == ToWord(7)
EcallM           == ToWord(11)
MachineTimerInt  == {31} \cup ToWord(7)
IsInterrupt(t) == 31 \in t

\* platform memory map (platform.cpp); the clock's cmp.lo is word 2
RomBase == 1048576          \* 0x0010_0000, 128 KiB, locked
RomEnd  == RomBase + 131072
ClockBase == 69632          \* 0x0001_1000, 256 B
CmpLoAddr == ClockBase + 8

ASSUME /\ CsrAddrs \subseteq 0..4095
       /\ CsrAddrs \subseteq DOMAIN CsrWriteVals
       /\ CsrRds \subseteq {0, 1}
       /\ JumpTargets \subseteq Nat /\ StoreAddrs \subseteq Nat
       /\ CmpVals \subseteq Nat /\ InstWord \in Nat
       /\ MaxCycles \in Nat

\* mstatus bits that survive force_legal: mie (3), mpie (7), mpp (12:11)
MIE_BIT == 3
MPIE_BIT == 7
MPP_MACHINE == {11, 12}
LegalMstatus == SUBSET {MIE_BIT, MPIE_BIT, 11, 12}

-----------------------------------------------------------------------------
(* Instructions as decoded (decode.cpp): their kind and operands           *)

CsrInstrs ==
    {[k |-> "csr", f |-> f, addr |-> a, wr |-> FALSE, val |-> {}, rd |-> rd] :
        f \in {"rw", "rs", "rc"}, a \in CsrAddrs, rd \in CsrRds}
    \cup
    UNION {{[k |-> "csr", f |-> f, addr |-> a, wr |-> TRUE, val |-> ToWord(v), rd |-> rd] :
              f \in {"rw", "rs", "rc"}, v \in CsrWriteVals[a], rd \in CsrRds} :
           a \in CsrAddrs}
Instrs ==
    {[k |-> k] : k \in {"alu", "fencei", "ecall", "mret", "illegal"}}
    \cup {[k |-> "jal", target |-> t, rd |-> rd] : t \in JumpTargets, rd \in {0, 1}}
    \cup {[k |-> "store", addr |-> a, val |-> v] : a \in StoreAddrs, v \in CmpVals}
    \cup CsrInstrs

VARIABLES
    pc,       \* CPU_module::pc
    x1,       \* the destination register the program reads back
    csr,      \* [CsrFile -> Word]: the CSR_module fields
    mcycle,   \* mcycle (minstret ticks with it)
    counter,  \* Clock: 64-bit counter
    cmp,      \* Clock: 64-bit compare value
    rec,      \* the step record returned by step(): [inst, trap]
    ctx       \* ghost: the context a timer interrupt interrupted

vars == <<pc, x1, csr, mcycle, counter, cmp, rec, ctx>>

NoCtx == [on |-> FALSE, pc |-> 0, clean |-> FALSE]

TypeOK ==
    /\ pc \in Nat /\ x1 \in Word
    /\ csr \in [CsrFile -> Word] /\ csr[MSTATUS] \in LegalMstatus
    /\ mcycle \in 0..MaxCycles /\ counter \in Nat /\ cmp \in Nat
    /\ rec.inst \in Instrs \cup {[k |-> "none"]} /\ rec.trap \in Word \cup {NoTrap}
    /\ ctx \in [on : BOOLEAN, pc : Nat, clean : BOOLEAN]

\* Platform construction: CSRs cleared except mpp = Machine, pc at ROM,
\* the clock value-initialised to zero.
Init ==
    /\ pc = RomBase /\ x1 = {}
    /\ csr = [a \in CsrFile |-> IF a = MSTATUS THEN MPP_MACHINE ELSE {}]
    /\ mcycle = 0 /\ counter = 0 /\ cmp = 0
    /\ rec = [inst |-> [k |-> "none"], trap |-> NoTrap]
    /\ ctx = NoCtx

-----------------------------------------------------------------------------
(* CSR_module (csr.cpp)                                                    *)

ForceLegalKeepsSie(v) == v \cap ({1, MIE_BIT, MPIE_BIT} \cup MPP_MACHINE)

\* Mstatus::force_legal: every field but mie, mpie and mpp reads as zero.
ForceLegal(v) == v \cap ({MIE_BIT, MPIE_BIT} \cup MPP_MACHINE)

\* the decoder's write mode: none when rs1 is x0
WriteMode(i) ==
    IF ~i.wr THEN "none"
    ELSE CASE i.f = "rw" -> "overwrite" [] i.f = "rs" -> "set" [] i.f = "rc" -> "clear"

\* csrrw reads only when rd is not x0, csrrs and csrrc always read
ReadsCsr(i) == i.f # "rw" \/ i.rd # 0

\* <<write_value, write_mask>> of operator()
WriteOperands(mode, v) ==
    CASE mode = "none"      -> <<{}, {}>>
      [] mode = "overwrite" -> <<v, Ones>>
      [] mode = "clear"     -> <<{}, v>>
      [] mode = "set"       -> <<Ones, v>>

\* (dst & ~mask) | (value & mask)
MaskedWrite(dst, mask, value) == (dst \ mask) \cup (value \cap mask)

\* CSR_module::operator(): [ok, file, result].  A read-only address
\* (bits 11:10 = 11) refuses a non-empty mask; no access returns 0; the
\* plain CSRs return the value before the write, mstatus the value after
\* its write and force_legal; an unknown address is Not_exists.
CsrAccess(file, a, mode, v, read) ==
    LET wv   == WriteOperands(mode, v)[1]
        mask == WriteOperands(mode, v)[2]
        new  == MaskedWrite(file[a], mask, wv)
    IN CASE (a \div 1024) % 4 = 3 /\ mask # {} ->
                [ok |-> FALSE, file |-> file, result |-> {}]
         [] ~read /\ mode = "none" ->
                [ok |-> TRUE, file |-> file, result |-> {}]
         [] a = MSTATUS ->
                [ok |-> TRUE, file |-> [file EXCEPT ![a] = ForceLegal(new)],
                 result |-> ForceLegal(new)]
         [] a \in CsrFile ->
                [ok |-> TRUE, file |-> [file EXCEPT ![a] = new], result |-> file[a]]
         [] OTHER ->
                [ok |-> FALSE, file |-> file, result |-> {}]

-----------------------------------------------------------------------------
(* Memory paths (memory.cpp, platform.cpp, block-memory.cpp)               *)

\* Inst_fetch_module: the trap of a fetch at pc, or NoTrap (ROM).
FetchTrap(a) ==
    CASE a % 4 # 0 -> InstMisaligned
      [] RomBase <= a /\ a < RomEnd -> NoTrap
      [] OTHER -> InstAccessFault

\* Load_store_module, store word: misaligned first, then the device's
\* answer: the clock takes cmp.lo, the locked ROM refuses (Access_fault),
\* anything unmapped is Out_of_range; both become a store access fault.
StoreTrap(a) ==
    CASE a % 4 # 0 -> StoreMisaligned
      [] a = CmpLoAddr -> NoTrap
      [] OTHER -> StoreAccessFault

-----------------------------------------------------------------------------
(* CPU_module::execute (cpu.cpp): the state after the cycle's execute,     *)
(* as [trap, tval, pc, file, x1, cmp]; tval is what mtval would receive:   *)
(* the alu result (the store address; still 0 when the fetch failed) or   *)
(* the instruction word.                                                   *)

Execute(i) ==
    LET trapped(t, tv) == [trap |-> t, tval |-> tv, pc |-> pc, file |-> csr,
                           x1 |-> x1, cmp |-> cmp]
        commit(npc, f, r, c) == [trap |-> NoTrap, tval |-> {}, pc |-> npc,
                                 file |-> f, x1 |-> r, cmp |-> c]
        pending == MIE_BIT \in csr[MSTATUS] /\ 7 \in csr[MIP] \cap csr[MIE]
    IN CASE FetchTrap(pc) # NoTrap -> trapped(FetchTrap(pc), {})
         [] i.k = "illegal" -> trapped(IllegalInst, ToWord(InstWord))
         [] i.k = "ecall"   -> trapped(EcallM, {})
         [] pending         -> trapped(MachineTimerInt, {})
         [] i.k = "csr" ->
              LET acc == CsrAccess(csr, i.addr, WriteMode(i), i.val, ReadsCsr(i))
              IN IF ~acc.ok THEN trapped(IllegalInst, ToWord(InstWord))
                 ELSE commit(pc + 4, acc.file,
                             IF i.rd = 1 THEN acc.result ELSE x1, cmp)
         [] i.k = "store" ->
              IF StoreTrap(i.addr) # NoTrap
              THEN trapped(StoreTrap(i.addr), ToWord(i.addr))
              ELSE commit(pc + 4, csr, x1, i.val)
         [] i.k = "jal" ->
              commit(i.target, csr, IF i.rd = 1 THEN ToWord(pc + 4) ELSE x1, cmp)
         [] i.k = "mret" ->
              LET s == csr[MSTATUS]
              IN commit(ToNum(csr[MEPC]),
                        [csr EXCEPT ![MSTATUS] = (IF MPIE_BIT \in s THEN {MIE_BIT} ELSE {})
                                                 \cup (s \cap MPP_MACHINE)],
                        x1, cmp)
         [] OTHER -> commit(pc + 4, csr, x1, cmp)   \* alu, fence.i (ignored)

-----------------------------------------------------------------------------
(* CPU_module::handle_trap                                                 *)

\* mpie <- mie, mie <- 0, mpp <- Machine
TrapStatusNoMpie(s) == MPP_MACHINE

TrapStatus(s) == (IF MIE_BIT \in s THEN {MPIE_BIT} ELSE {}) \cup MPP_MACHINE

\* mtvec: mode in bits 1:0 (1 = Vectored), base_upper30 above; a vectored
\* interrupt goes to base + 4 * (code & 0x7fffffff)
TrapVector(tvec, t) ==
    IF IsInterrupt(t) /\ tvec \cap {0, 1} = {0}
    THEN ToNum(tvec \ {0, 1}) + 4 * ToNum(t \ {31})
    ELSE ToNum(tvec \ {0, 1})

\* [pc, file] after trap delivery from the executed state r
HandleTrap(r) ==
    IF r.trap = NoTrap THEN [pc |-> r.pc, file |-> r.file]
    ELSE [pc |-> TrapVector(r.file[MTVEC], r.trap),
          file |-> [r.file EXCEPT ![MSTATUS] = TrapStatus(@),
                                  ![MEPC] = ToWord(r.pc),
                                  ![MCAUSE] = r.trap,
                                  ![MTVAL] = r.tval]]

-----------------------------------------------------------------------------
(* Clock::tick: ++counter, then MTIP if counter > cmp                      *)

ClockTickBeforeIncrement(c, cv, mipv) ==
    IF c > cv THEN mipv \cup {7} ELSE mipv

ClockTick(c, cv, mipv) ==
    IF c + 1 > cv THEN mipv \cup {7} ELSE mipv

\* the ghost context of a timer interrupt: set when one is taken, dirty
\* after a further trap or a CSR write to mstatus or mepc, gone at mret
NextCtx(i, r) ==
    CASE r.trap = MachineTimerInt -> [on |-> TRUE, pc |-> pc, clean |-> TRUE]
      [] r.trap # NoTrap -> [ctx EXCEPT !.clean = FALSE]
      [] i.k = "mret" -> NoCtx
      [] i.k = "csr" /\ i.wr /\ i.addr \in {MSTATUS, MEPC} ->
            [ctx EXCEPT !.clean = FALSE]
      [] OTHER -> ctx

\* Emulator::tick_one_cycle
Cycle ==
    /\ mcycle < MaxCycles
    /\ \E i \in Instrs :
         LET r == Execute(i)
             t == HandleTrap(r)
         IN /\ pc' = t.pc
            /\ x1' = r.x1
            /\ cmp' = r.cmp
            /\ counter' = counter + 1
            /\ csr' = [t.file EXCEPT ![MIP] = ClockTick(counter, r.cmp, @)]
            /\ mcycle' = mcycle + 1
            /\ rec' = [inst |-> i, trap |-> r.trap]
            /\ ctx' = NextCtx(i, r)

Next == Cycle

Spec == Init /\ [][Next]_vars

-----------------------------------------------------------------------------
(* Properties                                                              *)

\* A timer interrupt is transparent to the interrupted code: when the
\* handler returns with mret without having trapped again or written
\* mstatus or mepc, execution resumes at the interrupted pc with machine
\* interrupts enabled (handle_trap saves pc and mie into mepc and mpie,
\* mret restores them).
InterruptTransparency ==
    [][ (ctx.on /\ ctx.clean /\ rec'.trap = NoTrap /\ rec'.inst.k = "mret")
        => (pc' = ctx.pc /\ MIE_BIT \in csr'[MSTATUS]) ]_vars

\* A timer interrupt that is due and enabled when a cycle starts is taken
\* by that cycle before the instruction has any effect, unless the fetch,
\* an illegal word or an ecall traps first (cpu.cpp tests the interrupt
\* after decode and the ecall test, before the CSR and memory stages).
\* It takes two cycles to go wrong: the MTIP latch that Clock::tick set
\* at the end of an earlier cycle must survive whatever that cycle's CSR
\* writes did to mip, and execute must test it before committing.
TimerTakenWhenDue ==
    [][ (counter > cmp /\ MIE_BIT \in csr[MSTATUS] /\ 7 \in csr[MIE])
        => \/ FetchTrap(pc) # NoTrap
           \/ rec'.inst.k \in {"illegal", "ecall"}
           \/ rec'.trap = MachineTimerInt /\ x1' = x1 /\ cmp' = cmp ]_vars

\* A CSR instruction that commits writes the CSR's value from before the
\* instruction into rd (the RISC-V Zicsr semantics of csrrw/csrrs/csrrc).
CsrReadsOldValue ==
    [][ (rec'.trap = NoTrap /\ rec'.inst.k = "csr" /\ rec'.inst.rd = 1)
        => x1' = csr[rec'.inst.addr] ]_vars
=============================================================================
