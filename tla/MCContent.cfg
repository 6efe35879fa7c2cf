SPECIFICATION ContentSpec
CONSTANTS
    Slots = {p, q}
    MaxRequests = 4
    MaxFaults = 1
    Requests = {p, q}
    Contents = {x1, x2}
    Original = x1
    NoSum = NoSum
    MaxUploads = 3
    MaxVersionFaults = 1
    Entities = {a, b}
    Writers = {u1, u2}
    Moderators = {u2}
    MaxComments = 3
    Reporters = {u1, u2}
    Editors = {u2}
    Slugs = {a, b}
    MaxArticles = 2
    Names = {a, b}
    Tagged = {a, b}
    Candidates = 2
    MaxTags = 2
    Full = 2
    Groups = {g1}
    NoGroup = NoGroup
    MaxFlags = 2
    Members = {u1, u2}
    UserKeys = {k1, k2}
    SystemKeys = {k3}
    FixedKeys = {k4}
    HookOrgs = {o1}
    Urls = {a, b}
    HookEvents = {e1}
    MaxHooks = 2
    MaxSent = 2
    Billers = {u1, u2}
    Clerks = {u2}
    MaxInvoices = 2
    MaxClock = 2
    Searchers = {a, b}
    MaxSaved = 1
    DefaultPage = 1
    MaxPage = 2
    MaxDocs = 3
    MaxRows = 3
INVARIANTS
    NumbersInOrder
    LiveHasFile
    ContentsDiffer
    CurrentIsLive
    ContentHolds
    SwitchesHold
PROPERTIES
    NewsMovesAlong
SYMMETRY Symmetry
CHECK_DEADLOCK FALSE
