SPECIFICATION GatewaySpec
CONSTANTS
    Clients = {p, q}
    Rooms = {r1}
    NoClient = NoClient
    NoRoom = NoRoom
    ChanCap = 1
    SendBuffer = 1
    MaxRooms = 2
    MaxRefs = 2
    MaxMessages = 1
    MaxHubFaults = 1
    Slots = {p, q}
    MaxRequests = 5
    MaxFaults = 1
    Limit = 2
    RecordLimit = 3
    MaxBatch = 2
    Types = {"organizations", "users", "org_members"}
    MaxCatalog = 3
    MaxImport = 2
    Recipients = {p, q}
    NoteTypes = {t1}
    MailedTypes = {t1}
    HourlyLimit = 1
    MaxNotes = 3
    Readers = {p, q}
    FeedOrgs = {o1}
    Subjects = {x1, x2}
    FeedBuffer = 2
    MaxEvents = 2
    MetricOrgs = {o1}
    Things = {x1}
    Categories = {k1, k2}
    Cyclers = {p, q}
    MetricBuffer = 1
    DayLength = 1
    Backlog = 2
    Retention = 1
    LastHour = 4
    MaxMetricEvents = 2
    MaxCycles = 3
INVARIANTS
    SendStaysOpen
    RegistriesAgree
    GoneConnectionsAreReleased
    TrafficIsChecked
    UsersAreTold
SYMMETRY Symmetry
CHECK_DEADLOCK FALSE
