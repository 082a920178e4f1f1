\* Built with MPI_CACHE, as the file is (line 86).  Programs of two calls:
\* the caches are filled, hit and cleared, but no read follows a write of
\* cached data.  With MaxTasks = 3, TLC finds CachedCopyCurrent violated
\* (a read of a stale cached copy) and NoUnmatchedCommunication violated
\* (a receive no send matches).
CONSTANTS
    n0 = n0
    n1 = n1
    n2 = n2
    d0 = d0
    d1 = d1
    d2 = d2
    Nodes <- MCNodes
    Data <- MCData
    Owner <- MCOwner
    TaskChoices <- MCTaskChoices
    MaxTasks = 4
    Cache = TRUE
SPECIFICATION Spec
INVARIANT MessagesMatch
