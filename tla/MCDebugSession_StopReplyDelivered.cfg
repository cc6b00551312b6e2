\* Expected violation: with one connection, a continue that stops while
\* async_run blocks in receive() never gets its stop reply to GDB.
CONSTANTS
    UserCmds <- MCUserCmds
    MaxConnections = 1
SPECIFICATION Spec
PROPERTY StopReplyDelivered
CHECK_DEADLOCK FALSE
