\* Loads, stores, m and M packets in any order over MaxOps steps.
CONSTANTS
    RamWords = 2
    RomImage <- MCRomImage
    ClockLo = 2
    NoVal = NoVal
    Addrs <- MCAddrs
    StoreVals <- MCStoreVals
    MLens <- MCMLens
    MData <- MCMData
    MaxOps = 3
SPECIFICATION Spec
INVARIANT TypeOK SimClockAgrees
PROPERTY LoadReturnsMemory DebugReadFaithful ClockPairAtomic
\* The run ends when ops reaches MaxOps.
CHECK_DEADLOCK FALSE
