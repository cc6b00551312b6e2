CONSTANTS
    WordBits <- MCWordBits
    Instrs <- MCInstrs
SPECIFICATION Spec
INVARIANT MulHighMatchesSpec
CHECK_DEADLOCK FALSE
