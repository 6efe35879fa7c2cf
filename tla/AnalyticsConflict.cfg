SPECIFICATION AnalyticsSpec
CONSTANTS
    Slots = {p}
    MaxRequests = 1
    MaxFaults = 0
    MetricOrgs = {o1}
    Things = {x1}
    Categories = {k1, k2}
    Cyclers = {p}
    MetricBuffer = 1
    DayLength = 1
    Backlog = 2
    Retention = 1
    LastHour = 1
    MaxMetricEvents = 1
    MaxCycles = 1
INVARIANTS EventsBecomeMetrics
CHECK_DEADLOCK FALSE
