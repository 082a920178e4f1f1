\* Correct configurations: both error-return paths disabled. A thread stuck
\* for good violates AllThreadsReturn, which therefore stands for the
\* deadlock check.
CONSTANTS
    p1 = p1
    p2 = p2
    p3 = p3
    Threads <- MCThreads
    MaxRounds = 2
    BadConf = FALSE
    MasterSlave = FALSE
SPECIFICATION Spec
INVARIANT TypeOK
INVARIANT OneChanger
INVARIANT InitCountAccounting
INVARIANT InitializedWhileUsed
INVARIANT ReleasedWhenUnused
INVARIANT ConfPathsAgree
INVARIANT NcpuPrecedence
PROPERTY AllThreadsReturn
CHECK_DEADLOCK FALSE
