SPECIFICATION TrafficSpec
CONSTANTS
    Requests = {r1}
    Tokens = {t1}
    ResetTokens = {k1}
    NoToken = NoToken
    MaxPasswords = 0
    MaxAuthFaults = 0
    Slots = {r1, r2}
    MaxRequests = 5
    MaxFaults = 1
    Ops = {a, b}
    MaxLapses = 1
    BufferSize = 2
    MaxEntries = 4
    MaxInsertFaults = 1
    Exports = {a}
    Exporters = {w1}
    NoExport = NoExport
CHECK_DEADLOCK FALSE
INVARIANT ReplayIsFaithful
