SPECIFICATION FairSpec
CONSTANTS
    Jobs = {j1}
    None = None
    Workers = {w1}
    Pollers = {p1}
    RetryLimits = {3}
    ChanCap = 1
    MaxJobFaults = 0
PROPERTIES ExhaustedJobsDie
CHECK_DEADLOCK FALSE
