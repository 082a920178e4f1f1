\* A starpu_conf without magic 42 may be passed (workers.c:1256-1260).
CONSTANTS
    p1 = p1
    p2 = p2
    p3 = p3
    Threads <- MCThreads
    MaxRounds = 1
    BadConf = TRUE
    MasterSlave = FALSE
SPECIFICATION Spec
PROPERTY AllThreadsReturn
CHECK_DEADLOCK FALSE
