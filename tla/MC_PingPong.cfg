\* Two round trips: the buffer goes 0 -> 1 -> 0 twice, so a stale flag or a
\* stale buffer from the first round trip would be seen in the second.
CONSTANTS
    NIter = 2
SPECIFICATION Spec
INVARIANT TypeOK
INVARIANT DistinctIds
INVARIANT ReceivesWhatWasSent
PROPERTY PingPongCompletes
\* A thread blocked for good violates PingPongCompletes, which therefore
\* stands for the deadlock check.
CHECK_DEADLOCK FALSE
