SPECIFICATION AccountsSpec
CONSTANTS
    Slots = {r1, r2}
    MaxRequests = 7
    MaxFaults = 1
    Users = {u1, u2}
    Instances = {a, b}
    Nobody = Nobody
    Roles = {editor, system}
    SystemRoles = {system}
    Permissions = {p1}
    Keys = {a, b}
    KeyUsers = {u1, u2}
    NoUser = NoUser
    Providers = {a, b}
    Names = {n1}
    OAuthUsers = {u1, u2}
    NoOne = NoOne
    MaxCodes = 2
    Codes = 2
    MaxPasswords = 1
    MaxSecrets = 2
    Jobs = {u1, u2}
    None = None
    Workers = {r1, r2}
    Pollers = {p1}
    RetryLimits = {1}
    ChanCap = 2
    MaxJobFaults = 1
    Clients = {c1, c2}
    Strangers = {c2}
    MaxCalls = 1
    MaxResets = 1
    Punctual = FALSE
INVARIANTS
    RolesFollowMembers
    DecisionsHold
    KeysHold
    ProvidersLoginSafely
    UserRowHolds
    ClaimableJobsTravel
SYMMETRY Symmetry
CHECK_DEADLOCK FALSE
