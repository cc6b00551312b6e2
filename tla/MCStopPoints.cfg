\* Watchpoints at 0, 4 and 14 of a 16-byte space; one breakpoint address
\* (4) among the pcs 0 and 4, set with length 4 or 2 (refused), with no
\* condition or the condition C1; i packets of 0 and 2 cycles besides s;
\* at most three Z and z packets.  Runs, cycles and ^C are unbounded.
CONSTANTS
    Mod = 16
    WatchStarts = {0, 4}
    WatchLens = {0, 4}
    AccessAddrs = {0, 4}
    AccessLens = {4}
    MaxWatch = 3
    MaxOps = 2
    BpAddrs = {4}
    BpLens = {2, 4}
    Pcs = {0, 4}
    Conds = {C1}
    NoCond = NoCond
    Absent = Absent
    StepCounts = {0, 2}
SPECIFICATION SpSpec
INVARIANT SpTypeOK
 
