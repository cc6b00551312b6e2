\* Expected violation: a ^C crossing the stop reply makes send() close
\* the connection.
CONSTANTS
    UserCmds <- MCUserCmds
    MaxConnections = 1
SPECIFICATION Spec
INVARIANT NoSpuriousClose
CHECK_DEADLOCK FALSE
