SPECIFICATION QueuesSpec
CONSTANTS
    Jobs = {j1, j2}
    None = None
    Workers = {w1, w2}
    Pollers = {p1, p2}
    RetryLimits = {1, 3}
    ChanCap = 2
    MaxJobFaults = 2
    Deliveries = {d1}
    Events = {d1, d2, d3}
    NoDelivery = NoDelivery
    NoEvent = NoEvent
    Buffer = 1
    Couriers = {w1, w2}
    MaxAttempts = 3
    MaxFaults = 3
    MaxReplays = 2
    MaxSystemFaults = 1
INVARIANTS
    SingleExecution
    StoresAgree
    DeliveredOnce
    BusKeepsOrder
PROPERTIES
    ImplementsLifecycle
    EveryJobSettles
    DeliveriesSettle
    EventsArrive
CHECK_DEADLOCK FALSE
