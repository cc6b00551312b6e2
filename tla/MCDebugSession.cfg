\* Three connections, every command: the session properties that hold.
CONSTANTS
    UserCmds <- MCUserCmds
    MaxConnections = 3
SPECIFICATION Spec
INVARIANT TypeOK
PROPERTY CpuExclusive InterruptHonoured
\* The stub really stops: run() returns on an unhandled packet, and GDB
\* may have used up its connections.
CHECK_DEADLOCK FALSE
