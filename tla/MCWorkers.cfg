SPECIFICATION WorkersSpec
CONSTANTS
    Slots = {r1, r2}
    MaxRequests = 3
    MaxFaults = 1
    Emails = {e1, e2}
    Mailers = {w1, w2}
    Senders = {s1}
    NoEmail = NoEmail
    RetryMax = 2
    MaxEmailFaults = 1
    CacheInstances = {i1, i2}
    MaxPolicyChanges = 2
    MaxReloads = 1
    Imports = {j1}
    Importers = {w1, w2}
    NoImport = NoImport
    Media = {m1}
    ConversionNames = {thumbnail, preview}
    Converters = {w1, w2}
    MaxAttempts = 2
    ChannelSize = 1
    Jobs = {j1, j2}
    None = None
    Workers = {w1, w2}
    Pollers = {p1}
    RetryLimits = {1}
    ChanCap = 2
    MaxJobFaults = 2
    Clients = {c1}
    Strangers = {}
    MaxCalls = 0
    MaxResets = 4
    Punctual = TRUE
INVARIANTS
    EmailsAccounted
    ChangesAreStored
    ImportsTakenOnce
    FilesAccounted
    SingleCustody
PROPERTIES
    WaitingEnds
    ListedStuckJobsRecover
CHECK_DEADLOCK FALSE
