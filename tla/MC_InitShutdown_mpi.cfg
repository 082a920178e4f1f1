\* Built with STARPU_USE_MPI_MASTER_SLAVE and no MPI device (workers.c:1167-1171).
CONSTANTS
    p1 = p1
    p2 = p2
    p3 = p3
    Threads <- MCThreads
    MaxRounds = 1
    BadConf = FALSE
    MasterSlave = TRUE
SPECIFICATION Spec
INVARIANT ReleasedWhenUnused
CHECK_DEADLOCK FALSE
