\* Three jobs over three handles in two arbiter groups, every buffer list
\* of up to three distinct handles.  No symmetry: the liveness property is
\* checked in the same run.  A mutant that blocks a job for ever must show
\* up as a violation of AllJobsFinish, so deadlock is not checked apart.
CONSTANTS
    Tasks = {t1, t2, t3}
    Handles = {h1, h2, h3}
    Arbiters = {A, B}
    h1 = h1
    h2 = h2
    h3 = h3
    A = A
    B = B
    NoHandle = NoHandle
    ArbiterOf <- MCArbiterOf
    BufferChoices <- MCBufferChoices
SPECIFICATION Spec
INVARIANT TypeOK
INVARIANT RefcntCountsHolders
INVARIANT BusyCountAccounting
INVARIANT RequestersAreWaiting
INVARIANT PushedAtMostOnce
PROPERTY AllJobsFinish
PROPERTY ImplementsTaskAcquisition
CHECK_DEADLOCK FALSE
