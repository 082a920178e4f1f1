\* Two application threads, each pausing and resuming once, at the same time.
CONSTANTS
    w1 = w1
    w2 = w2
    w3 = w3
    c1 = c1
    c2 = c2
    Workers = {w1, w2}
    Controllers = {c1, c2}
    MaxCycles = 1
SPECIFICATION Spec
PROPERTY WorkersProgress
