\* The condition VM over the unit-test program, a counting loop, two
\* programs that reach every computing case, and one program per error
\* return; x1 is 0 or 3.
CONSTANTS
    WordBits <- MCWordBits
    MemWords <- MCMemWords
    MemByte <- MCMemByte
    CsrAddrs = {}
    RegIdx <- MCRegIdx
    RegVals <- MCRegVals
    Programs <- MCPrograms
    MaxStack = 6
SPECIFICATION Spec
PROPERTY Refines
\* execute returns: a finished or failed run has no next step
CHECK_DEADLOCK FALSE
