\* Trap entry, mret and the timer over MaxCycles cycles of any program.
CONSTANTS
    CsrAddrs <- MCTrapCsrAddrs
    CsrWriteVals <- MCCsrWriteVals
    JumpTargets <- MCJumpTargets
    StoreAddrs <- MCStoreAddrs
    CsrRds = {0}
    CmpVals = {3}
    InstWord = 0
    MaxCycles = 5
SPECIFICATION Spec
INVARIANT TypeOK
PROPERTY InterruptTransparency TimerTakenWhenDue
\* The run ends when mcycle reaches MaxCycles.
CHECK_DEADLOCK FALSE
