\* Built with MPI_CACHE, as the file is (line 86).  Programs of three
\* calls: a rank receives a data, its owner then writes it, and the rank
\* reads it again, so the cache is filled, invalidated and hit.
CONSTANTS
    n0 = n0
    n1 = n1
    n2 = n2
    d0 = d0
    d1 = d1
    d2 = d2
    Nodes <- MCNodes
    Data <- MCData
    Owner <- MCOwner
    TaskChoices <- MCTaskChoices
    MaxTasks = 3
    Cache = TRUE
SPECIFICATION Spec
INVARIANT CachedCopyCurrent
