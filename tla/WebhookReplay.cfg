SPECIFICATION FairDeliverySpec
CONSTANTS
    Deliveries = {d1}
    NoDelivery = None
    Couriers = {w1}
    MaxAttempts = 2
    MaxFaults = 0
    MaxReplays = 1
PROPERTIES ReplayedIsPickedUp
CHECK_DEADLOCK FALSE
