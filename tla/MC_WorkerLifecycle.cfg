\* The application drives the last worker itself, so the early "break" of
\* the wait loop skips nobody.
CONSTANTS
    N = 5
    Kind <- MCKind
    Devid <- MCDevid
    Leader <- MCLeader
    NotLaunched <- MCNotLaunchedLast
    Impls <- MCImpls
    Codelets <- MCCodelets
    Ctxs <- MCCtxs
    CheckEntirePlatform = FALSE
    NMaxBufs = 3
SPECIFICATION Spec
INVARIANT TypeOK
INVARIANT InitializedOnReturn
INVARIANT AllThreadsJoined
INVARIANT ImplQueriesAgree
INVARIANT SubmitCheckSound
INVARIANT SubmitCheckCompleteWithoutHook
INVARIANT WorkerIdQueriesAgree
INVARIANT WorkerDevidsAgree
INVARIANT WorkerCtxFreeAgrees
INVARIANT FortranInsertAgrees
INVARIANT FortranRoundTrip
PROPERTY ShutdownReturns
\* A join that never returns violates ShutdownReturns, which therefore
\* stands for the deadlock check.
CHECK_DEADLOCK FALSE
