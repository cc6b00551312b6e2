\* GDB's compilation of the condition "x1 / 5" with x1 = 0: x1 is pushed
\* first, 5 last, and div_unsigned is the last instruction before end.
CONSTANTS
    WordBits <- MCWordBits
    MemWords <- MCMemWords
    MemByte <- MCMemByte
    CsrAddrs = {}
    RegIdx <- MCRegIdx
    RegVals <- MCRegVals
    Programs <- ZeroNumerator
    MaxStack = 6
SPECIFICATION Spec
INVARIANT NoHostFault
\* execute returns: a finished or failed run has no next step
CHECK_DEADLOCK FALSE
