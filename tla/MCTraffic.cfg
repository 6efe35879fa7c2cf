SPECIFICATION TrafficSpec
CONSTANTS
    Requests = {p, q}
    Tokens = {t1, t2, t3}
    ResetTokens = {a, b}
    NoToken = NoToken
    MaxPasswords = 1
    MaxAuthFaults = 1
    Slots = {p, q}
    MaxRequests = 3
    MaxFaults = 1
    Ops = {a, b}
    MaxLapses = 1
    BufferSize = 2
    MaxEntries = 4
    MaxInsertFaults = 1
    Exports = {a, b}
    Exporters = {p, q}
    NoExport = NoExport
INVARIANTS
    SessionsFollowPassword
    OneLiveTokenPerLogin
    ReuseEndsTheLogin
    ResetTokensHold
    ExecutionsAccounted
    EntriesAccounted
    ExportsAccounted
SYMMETRY Symmetry
CHECK_DEADLOCK FALSE
