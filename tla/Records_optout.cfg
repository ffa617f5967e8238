SPECIFICATION MCSpec
CONSTANTS
    WebSockets = {w1}
    EventStreams = {e1}
    Topics = {t1, t2}
    Publishers = {p1, p2}
    ClientSendBuffer = 1
    MaxEvents = 1
    None = None
    Calls = {p1, p2}
    Users = {"u1", "u2"}
    Tokens = {"phone"}
    NoticeRequests <- Sends
    MutedKeys <- Muted
    MaxChanges = 2
    r1 = r1
    r2 = r2
    r3 = r3
    Rows <- Documents
    AdminRequests <- AdminAsks
    Seeded <- SeededAccounts
    MaxRequests = 3
    Instances = {t1, t2}
    SeedRuns = {p1, p2}
    Migration = migration
    SystemSlugs <- RolesInOrder
    Accounts <- RolesInOrder
    Releases = {1, 2}
    MaxBoots = 2
    MaxFaults = 1
SYMMETRY Symmetry
INVARIANT OptOutHonoured
CHECK_DEADLOCK FALSE
