------------------------------ MODULE SimClock ------------------------------
(***************************************************************************)
(* The second Clock peripheral of the tree, src/sim (clock.hpp, clock.cpp). *)
(* Its counter and compare value are each a union of a u64 and a struct   *)
(* of two u32 halves, counter_lo and counter_hi, so a half is a view of   *)
(* the 64-bit value rather than a field of its own: on the little-endian  *)
(* hosts the emulator is built for, counter_lo is the low word.  The      *)
(* halves wrap at ClockLo, standing for 2^32, as in MemBus; the u64 wraps *)
(* at ClockLo^2.                                                           *)
(*                                                                         *)
(* The lib Clock of MemBus keeps two u32 fields per register and builds   *)
(* the u64 with get_64/set_64.  SimClockAgrees checks, in every state the *)
(* memory run reaches, that both give the same answer and the same next  *)
(* state to every read and write the bus can forward.                     *)
(***************************************************************************)
EXTENDS MemBus

\* the u64 modulus
Wrap64 == ClockLo * ClockLo

\* the unions: a half is the low or high word of the 64-bit value
Lo(v) == v % ClockLo
Hi(v) == v \div ClockLo
WithLo(v, h) == Hi(v) * ClockLo + h
WithHi(v, h) == h * ClockLo + Lo(v)

\* the state of a default-constructed sim Clock: u64 counter = 0 and
\* u64 cmp = 0 initialise the unions, the optionals are empty
SimClockInit == [counter |-> 0, cmp |-> 0, counter_templow |-> NoVal, cmp_templow |-> NoVal]

SimFail(e, c) == [ok |-> FALSE, err |-> e, val |-> 0, clk |-> c]
SimDone(v, c) == [ok |-> TRUE, err |-> "none", val |-> v, clk |-> c]

\* choose_bits of the expanded byte mask on one half
SimHalf(mask, data, h) == ModLo(ChooseBytes(mask, data, HalfWord(h)))

\* Clock::write: alignment, then one case per register; a write to either
\* half of a register drops that register's staged low half
SimClockWrite(c, off, data, mask) ==
    CASE off % 4 # 0 -> SimFail("Unaligned", c)
      [] off \div 4 = 0 -> SimDone(0, [c EXCEPT !.counter = WithLo(@, SimHalf(mask, data, Lo(@))),
                                                !.counter_templow = NoVal])
      [] off \div 4 = 1 -> SimDone(0, [c EXCEPT !.counter = WithHi(@, SimHalf(mask, data, Hi(@))),
                                                !.counter_templow = NoVal])
      [] off \div 4 = 2 -> SimDone(0, [c EXCEPT !.cmp = WithLo(@, SimHalf(mask, data, Lo(@))),
                                                !.cmp_templow = NoVal])
      [] off \div 4 = 3 -> SimDone(0, [c EXCEPT !.cmp = WithHi(@, SimHalf(mask, data, Hi(@))),
                                                !.cmp_templow = NoVal])
      [] OTHER -> SimFail("Access_fault", c)

\* (mutant) Clock::read returning the staged counter half without
\* clearing it
SimClockReadKeepsStage(c, off) ==
    CASE off % 4 # 0 -> SimFail("Unaligned", c)
      [] off \div 4 = 0 -> SimDone(IF c.counter_templow # NoVal THEN c.counter_templow
                                   ELSE Lo(c.counter), c)
      [] off \div 4 = 1 -> SimDone(Hi(c.counter), [c EXCEPT !.counter_templow = Lo(c.counter)])
      [] off \div 4 = 2 -> IF c.cmp_templow # NoVal
                           THEN SimDone(c.cmp_templow, [c EXCEPT !.cmp_templow = NoVal])
                           ELSE SimDone(Lo(c.cmp), c)
      [] off \div 4 = 3 -> SimDone(Hi(c.cmp), [c EXCEPT !.cmp_templow = Lo(c.cmp)])
      [] OTHER -> SimFail("Access_fault", c)

\* Clock::read: a high half stages the low half of the same moment; the
\* next read of the low half returns the staged value once
SimClockRead(c, off) ==
    CASE off % 4 # 0 -> SimFail("Unaligned", c)
      [] off \div 4 = 0 -> IF c.counter_templow # NoVal
                           THEN SimDone(c.counter_templow, [c EXCEPT !.counter_templow = NoVal])
                           ELSE SimDone(Lo(c.counter), c)
      [] off \div 4 = 1 -> SimDone(Hi(c.counter), [c EXCEPT !.counter_templow = Lo(c.counter)])
      [] off \div 4 = 2 -> IF c.cmp_templow # NoVal
                           THEN SimDone(c.cmp_templow, [c EXCEPT !.cmp_templow = NoVal])
                           ELSE SimDone(Lo(c.cmp), c)
      [] off \div 4 = 3 -> SimDone(Hi(c.cmp), [c EXCEPT !.cmp_templow = Lo(c.cmp)])
      [] OTHER -> SimFail("Access_fault", c)

\* Clock::tick: ++counter on the u64 (mip is Hart's)
SimTick(c) == [c EXCEPT !.counter = (@ + 1) % Wrap64]

-----------------------------------------------------------------------------
(* Correspondence with the lib Clock of MemBus                             *)

\* the sim Clock holding the lib Clock's registers and staged halves
SimOf(b) == [counter |-> b.ctr, cmp |-> b.cmp, counter_templow |-> b.ctl, cmp_templow |-> b.cml]

\* a sim result and a lib result say the same
SameRead(s, l) ==
    /\ s.ok = l.ok /\ s.err = l.err
    /\ s.ok => HalfWord(s.val) = l.val
    /\ s.clk = SimOf(l.bus)
SameWrite(s, l) == s.ok = l.ok /\ s.err = l.err /\ s.clk = SimOf(l.bus)

ClockOffs == {a.off : a \in {x \in Addrs : x.dev = "clock" /\ x.off < Size("clock")}}

\* The two Clock implementations of the tree are interchangeable: from
\* every state the memory run reaches, the src/sim Clock (u64 unions whose
\* halves alias the counter) answers every read, every masked write of a
\* stored value and every tick as the src/lib Clock (separate u32 halves
\* joined by get_64/set_64) does, and is left in the same state, staged
\* low halves included.
SimClockAgrees ==
    LET c == SimOf(bus)
    IN /\ SimOf(BusInit) = SimClockInit
       /\ SimTick(c) = SimOf(Tick(bus))
       /\ \A o \in ClockOffs :
            /\ SameRead(SimClockRead(c, o), ClockRead(bus, [dev |-> "clock", off |-> o]))
            /\ \A v \in StoreVals, m \in SUBSET (0..3) :
                 SameWrite(SimClockWrite(c, o, v, m),
                           ClockWrite(bus, [dev |-> "clock", off |-> o], v, m))
==============================================================================
