\* Both error-return paths enabled; threads may then block for good, so deadlock is not an error here.
CONSTANTS
    p1 = p1
    p2 = p2
    p3 = p3
    Threads <- MCThreads
    MaxRounds = 2
    BadConf = TRUE
    MasterSlave = TRUE
SPECIFICATION Spec
INVARIANT InitializedWhileUsed
CHECK_DEADLOCK FALSE
