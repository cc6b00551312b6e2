CONSTANTS
    WordBits <- MCWordBits
    Instrs <- MCInstrs
SPECIFICATION Spec
INVARIANT TypeOK
INVARIANT DecodeMatchesIsa
INVARIANT NumericMatchesSpec
CHECK_DEADLOCK FALSE
