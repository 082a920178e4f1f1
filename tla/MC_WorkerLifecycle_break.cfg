\* The application drives the first worker itself (not_launched_drivers).
CONSTANTS
    N = 5
    Kind <- MCKind
    Devid <- MCDevid
    Leader <- MCLeader
    NotLaunched <- MCNotLaunchedFirst
    Impls <- MCImpls
    Codelets <- MCCodelets
    Ctxs <- MCCtxs
    CheckEntirePlatform = FALSE
    NMaxBufs = 3
SPECIFICATION Spec
INVARIANT AllThreadsJoined
