SPECIFICATION MCSpec
CONSTANTS
    Users = {u1}
    Sids = {s1, s2}
    Reqs = {r1, r2}
    Grants <- TwoGrants
    MaxPasswordAttempts = 2
    AttemptCap = 6
    MaxFaults = 1
    None = None
    c1 = c1
    Creds = {c1}
    Finishers = {r1, r2}
    MaxCeremonies = 2
    MaxSigns = 1
    ApiKeyIds = {s1, s2}
    Prefixes = {"p", "q"}
    MaxAttempts = 2
    Callers = {c1}
    MaxRevokes = 1
    Flags = {c1}
    Readers = {r1, r2}
    Updaters = {s1, s2}
    Seeded <- Switched
    MaxVersion = 3
    Clients = {c1}
    RateLimitRequests = 2
    RateLimitWindow = 3
    MaxPerTick = 4
    Entries = {1, 2, 3}
    GroupValues = {0, 1}
    Columns = {"action", "risk"}
    Queries <- EveryMode
    DefaultPageSize = 2
    LargestPage = 3
    GroupDepth = 3
    MaxRows = 2
    MaxWrites = 1
    Members = {"u1", "u2"}
    Passkeys = {c1}
    Numbers = {"n1"}
    Attachment <- OnPlatform
    BackedUp = {c1}
    Admins = {"o1"}
    Asked <- EveryReport
    LastDay = 2
    MaxChanges = 2
SYMMETRY Symmetry
INVARIANTS TypesOK ClaimsWithinGrant NoSessionForDeleted LockoutSlack ReplayBudget KeysAnswer StaleOnlyIfRaced WindowHolds PagesAreTheList PartsWithinWhole
PROPERTIES CountNeverBack NoTruncatedExport
CHECK_DEADLOCK FALSE
