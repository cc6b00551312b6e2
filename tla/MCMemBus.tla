------------------------------ MODULE MCMemBus ------------------------------
(* MemBus for TLC: two RAM words, the ROM word, the clock's four registers *)
(* and one offset past them, and unmapped space.                           *)
EXTENDS SimClock

\* RAM offsets at every alignment and past the end, ROM at two
\* alignments, the clock's registers, a misaligned clock offset and one
\* past the registers, an unmapped address
MCAddrs == {[dev |-> "ram", off |-> o] : o \in {0, 1, 2, 6, 8}}
           \cup {[dev |-> "rom", off |-> o] : o \in {0, 2}}
           \cup {[dev |-> "clock", off |-> o] : o \in {0, 2, 4, 8, 12, 16}}
           \cup {[dev |-> "none", off |-> 0]}

\* a value whose bytes alternate around 0x80: lb at offsets 0 and 1 and lh
\* at 0 and 2 (of the stored halfword) show both extensions
MCStoreVals == {<<1, 130, 3, 132>>}
MCRomImage  == <<5, 134, 7, 136>>
MCMLens     == {3, 6}
MCMData     == {<<200>>, <<9, 10>>}
=============================================================================
