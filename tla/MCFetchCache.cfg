\* Aliased RAM pages 2 and 4 (entry 0), ROM page 1, peripheral page 3 and
\* unmapped page 5 (entry 1); up to three writes.
CONSTANTS
    RamPages = {2, 4}
    RomPages = {1}
    PeriphPages = {3}
    NoPages = {5}
    NumEntries = 2
    Values = {0, 1}
    FillVals = {0}
    RomImage <- MCRomImage
    MaxWrites = 3
    None = None
SPECIFICATION Spec
INVARIANT TypeOK FetchOwnPage
\* The only state without a successor is the one after the fetch unit
\* threw std::logic_error, which ends the emulator.
CHECK_DEADLOCK FALSE
