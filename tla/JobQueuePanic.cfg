SPECIFICATION Spec
CONSTANTS
    Jobs = {j1, j2}
    None = None
    Workers = {w1, w2}
    Pollers = {p1}
    RetryLimits = {1, 3}
    ChanCap = 2
    MaxJobFaults = 1
INVARIANTS NoSendOnClosedChannel
CHECK_DEADLOCK FALSE
