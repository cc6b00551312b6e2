----------------------------- MODULE StopPoints -----------------------------
(***************************************************************************)
(* The debugger's stop points and the run loops that consult them          *)
(* (emulator-debug.cpp, stop-point.cpp): the hardware breakpoints,         *)
(* std::map<u32, Hw_breakpoint>, with the Z1/z1 handlers and               *)
(* check_breakpoint; the watchpoints of WatchRange with their Z2-Z4/z2-z4   *)
(* handlers and check_watchpoint; and run_until_trap / run_steps, which    *)
(* after every cycle check the breakpoint at the new pc, then the          *)
(* watchpoint of the cycle's access, then the interrupt flag.              *)
(*                                                                         *)
(* Packets are handled while the hart is stopped; c, s and i start a run   *)
(* that ends with a stop reply.  The program is abstracted: a cycle moves  *)
(* the pc to any of Pcs and makes at most one load or store.  A           *)
(* breakpoint condition is a bytecode name of Conds; whether it evaluates  *)
(* non-zero in a cycle is a free choice, as ExprVM models its evaluation.  *)
(***************************************************************************)
EXTENDS WatchRange

CONSTANTS
    BpAddrs,     \* addresses GDB sets breakpoints at
    BpLens,      \* the lengths of its Z0/Z1 packets
    Pcs,         \* the pcs the program moves to
    Conds,       \* condition bytecodes GDB attaches to a breakpoint
    NoCond,      \* model value: a breakpoint without a condition
    Absent,      \* model value: no breakpoint at an address
    StepCounts   \* the cycle counts of i packets (s is run_steps(1))

ASSUME /\ BpAddrs \subseteq Pcs
       /\ StepCounts \subseteq Nat

BpVal == Conds \cup {NoCond, Absent}
NoReply == [sig |-> "none", hit |-> "none", pc |-> 0]
NoRun == [kind |-> "none", n |-> 0, k |-> 0]

VARIABLES
    bps,     \* Emulator_debug::hw_breakpoints: [BpAddrs -> its cond or Absent]
    gdbBps,  \* ghost: the breakpoints GDB was told OK for, with the cond it sent
    pc,      \* CPU_module::pc
    run,     \* the loop async_run's worker executes: run_until_trap ("c")
             \* or run_steps ("s") with its count n and loop index k
    intr,    \* the std::atomic<bool> interrupt of async_run
    reply    \* the stop reply of the last run

spVars == <<bps, gdbBps, pc, run, intr, reply>>
allVars == <<vars, spVars>>

Stopped == run.kind = "none"

SpTypeOK ==
    /\ TypeOK
    /\ bps \in [BpAddrs -> BpVal] /\ gdbBps \in [BpAddrs -> BpVal]
    /\ pc \in Pcs
    /\ run \in [kind : {"none", "c", "s"}, n : StepCounts \cup {0, 1}, k : StepCounts \cup {0, 1}]
    /\ run.kind = "s" => run.k <= run.n
    /\ intr \in BOOLEAN
    /\ reply \in [sig : {"none", "SIGTRAP", "SIGINT"}, hit : {"none", "break", "watch"},
                  pc : Pcs \cup {0}]

SpInit ==
    /\ Init
    /\ bps = [a \in BpAddrs |-> Absent] /\ gdbBps = [a \in BpAddrs |-> Absent]
    /\ pc \in Pcs
    /\ run = NoRun
    /\ intr = FALSE /\ reply = NoReply

-----------------------------------------------------------------------------
(* The Z1/z1 handlers                                                      *)

\* Hw_breakpoint::from: the command's address and optional condition
FromCmd(a, c) == c

\* handle_add_breakpoint: Z0 is Unsupported, a length other than 4 an
\* error; otherwise hw_breakpoints.emplace, which keeps a breakpoint
\* already at the address, and OK
AddBreakpoint(a, hw, len, c) ==
    /\ Stopped /\ ops < MaxOps
    /\ IF hw /\ len = 4
       THEN /\ bps' = IF bps[a] = Absent THEN [bps EXCEPT ![a] = FromCmd(a, c)] ELSE bps
            /\ gdbBps' = [gdbBps EXCEPT ![a] = c]
       ELSE UNCHANGED <<bps, gdbBps>>
    /\ ops' = ops + 1
    /\ UNCHANGED <<wps, believed, last, pc, run, intr, reply>>

\* hw_breakpoints.erase(address)
Erase(m, a) == [m EXCEPT ![a] = Absent]

\* handle_remove_breakpoint: z0 is Unsupported; erase, an error if it
\* erased nothing, else OK
RemoveBreakpoint(a, hw) ==
    /\ Stopped /\ ops < MaxOps
    /\ IF hw /\ bps[a] # Absent
       THEN /\ bps' = Erase(bps, a)
            /\ gdbBps' = [gdbBps EXCEPT ![a] = Absent]
       ELSE UNCHANGED <<bps, gdbBps>>
    /\ ops' = ops + 1
    /\ UNCHANGED <<wps, believed, last, pc, run, intr, reply>>

\* the watchpoint handlers of WatchRange, while the hart is stopped
WatchPacket ==
    /\ Stopped
    /\ \/ \E st \in WatchStarts, len \in WatchLens, rd, wr \in BOOLEAN :
             AddWatch(st, len, rd, wr) \/ AddRefused(st, len, rd, wr)
       \/ \E st \in WatchStarts, len \in WatchLens : RemoveWatch(st, len)
    /\ UNCHANGED spVars

-----------------------------------------------------------------------------
(* Starting a run, interrupting it                                          *)

\* handle_continue, handle_step, handle_step_single_cycles: an optional
\* address becomes the pc, then async_run with a fresh interrupt flag runs
\* run_until_trap, run_steps(1) or run_steps(count), count 1 when the i
\* packet has none and possibly 0
Resume ==
    /\ Stopped
    /\ \E p \in Pcs :
         /\ \/ run' = [NoRun EXCEPT !.kind = "c"]
            \/ \E n \in StepCounts \cup {1} : run' = [kind |-> "s", n |-> n, k |-> 0]
         /\ pc' = p
    /\ intr' = FALSE /\ reply' = NoReply
    /\ UNCHANGED <<vars, bps, gdbBps>>

\* async_run: a ^C or ? received while the worker runs sets the flag
Interrupt ==
    /\ ~Stopped /\ ~intr
    /\ intr' = TRUE
    /\ UNCHANGED <<vars, bps, gdbBps, pc, run, reply>>

-----------------------------------------------------------------------------
(* One iteration of run_until_trap / run_steps                              *)

\* Hw_breakpoint::is_triggered_by at pc p: no condition triggers; a
\* condition triggers when execute succeeds with a non-zero top (holds)
IsTriggeredBy(bp, holds) == bp = NoCond \/ (bp \in Conds /\ holds)

\* check_breakpoint: hw_breakpoints.contains(pc) and is_triggered_by
CheckBreakpoint(p, holds) == p \in BpAddrs /\ bps[p] # Absent /\ IsTriggeredBy(bps[p], holds)

\* the for loop of run_steps over iota(0, cycle_count) has ended
StepsDone(k, n) == k >= n

Interrupted(f) == f

\* One iteration of either loop: tick_one_cycle, then check_breakpoint,
\* check_watchpoint and the flag, in that order.  run_steps enters the
\* iteration only while its index is below the count.  The cycle's
\* access, if any, is looked up by WatchRange's CheckWatchpoint.
Cycle ==
    /\ run.kind = "c" \/ (run.kind = "s" /\ ~StepsDone(run.k, run.n))
    /\ \E p \in Pcs, holds \in BOOLEAN :
       \E acc \in {"none", "load", "store"} :
         /\ IF acc = "none" THEN UNCHANGED last
            ELSE \E a \in AccessAddrs, sz \in AccessLens, ran \in BOOLEAN :
                   CheckWatchpoint(acc, a, sz, ran)
         /\ LET isBreak == CheckBreakpoint(p, holds)
                isWatch == acc # "none" /\ last'.hit
                stop(sig, hit) == /\ run' = NoRun
                                  /\ reply' = [sig |-> sig, hit |-> hit, pc |-> p]
            IN CASE isBreak           -> stop("SIGTRAP", "break")
                 [] isWatch           -> stop("SIGTRAP", "watch")
                 [] Interrupted(intr) -> stop("SIGINT", "none")
                 [] OTHER -> /\ run' = IF run.kind = "s" THEN [run EXCEPT !.k = @ + 1] ELSE run
                             /\ UNCHANGED reply
         /\ pc' = p
    /\ UNCHANGED <<wps, believed, ops, bps, gdbBps, intr>>

\* run_steps after its last iteration: return SIGTRAP
StepsReturn ==
    /\ run.kind = "s" /\ StepsDone(run.k, run.n)
    /\ run' = NoRun
    /\ reply' = [sig |-> "SIGTRAP", hit |-> "none", pc |-> pc]
    /\ UNCHANGED <<vars, bps, gdbBps, pc, intr>>

SpNext ==
    \/ \E a \in BpAddrs, hw \in BOOLEAN, len \in BpLens, c \in Conds \cup {NoCond} :
         AddBreakpoint(a, hw, len, c)
    \/ \E a \in BpAddrs, hw \in BOOLEAN : RemoveBreakpoint(a, hw)
    \/ WatchPacket
    \/ Resume
    \/ Interrupt
    \/ Cycle
    \/ StepsReturn

\* The worker is a std::async(std::launch::async) thread whose loop never
\* blocks, so once started it keeps executing iterations.
SpSpec == SpInit /\ [][SpNext]_allVars /\ WF_allVars(Cycle) /\ WF_allVars(StepsReturn)

-----------------------------------------------------------------------------
(* Properties                                                              *)

BreakCondCurrent == \A a \in BpAddrs : bps[a] = gdbBps[a]

\* A load or store that ran and touched a watchpoint in a direction it
\* watches is reported: the run that made it stops with a watchpoint hit,
\* not with another reason that leaves the access unreported (spec 4.15:
\* return on breakpoint, watchpoint, or the flag).
WatchStopReported ==
    [][ (~Stopped /\ last' # last /\ last'.hit /\ last'.ran)
        => (Stopped' /\ reply'.hit = "watch") ]_allVars

==============================================================================
