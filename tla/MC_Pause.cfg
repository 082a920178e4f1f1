\* One application thread pausing and resuming twice, three workers.
CONSTANTS
    w1 = w1
    w2 = w2
    w3 = w3
    c1 = c1
    c2 = c2
    Workers = {w1, w2, w3}
    Controllers = {c1}
    MaxCycles = 2
SPECIFICATION Spec
INVARIANT TypeOK
INVARIANT BlockedOnlyWhilePaused
INVARIANT StrayIterationsBounded
PROPERTY WorkersProgress
