SPECIFICATION UsersAndKeysSpec
CONSTANTS
    Slots = {r1, r2}
    MaxRequests = 2
    MaxFaults = 0
    Keys = {k1}
    KeyUsers = {u1}
    NoUser = NoUser
INVARIANTS KeyAuthenticates
CHECK_DEADLOCK FALSE
