------------------------------- MODULE MCHart -------------------------------
(* Model-checking instance of Hart: the CSRs a trap handler uses, the      *)
(* values written to them, and jump and store targets that reach every    *)
(* trap of the fetch and store paths.                                     *)
EXTENDS Hart

\* mstatus, mie, mtvec, mepc, mip, the read-only mvendorid and 0x7C0,
\* which CSR_module does not implement
MCCsrAddrs == {MSTATUS, MIE, MTVEC, MEPC, MIP, MVENDORID, 1984}

\* the CSRs a timer interrupt handler uses, for the longer runs
MCTrapCsrAddrs == {MSTATUS, MIE, MTVEC, MEPC, MIP}

\* mstatus: mie, and sie (not implemented, forced to zero); mtvec: a
\* Vectored handler table at ROM + 64; mepc: an aligned return address
MCCsrWriteVals ==
    [a \in MCCsrAddrs |->
        CASE a = MSTATUS -> {8, 2}
          [] a = MIE     -> {128}
          [] a = MTVEC   -> {RomBase + 65}
          [] a = MEPC    -> {RomBase + 16}
          [] a = MIP     -> {128}
          [] OTHER       -> {1}]

\* a ROM target, a misaligned one, an unmapped one
MCJumpTargets == {RomBase + 8, RomBase + 2, 512}

\* the clock's cmp.lo, a misaligned address, the locked ROM
MCStoreAddrs == {CmpLoAddr, CmpLoAddr + 2, RomBase}
=============================================================================
