SPECIFICATION MCSpec
CONSTANTS
    Users = {u1, u2}
    Numbers = {n1, n2, n3}
    Reqs = {r1, r2}
    Codes = {c1}
    OtpMaxAttempts = 2
    MaxFaults = 1
    None = None
    People <- Persons
    Usernames <- Names
    Login <- Logins
    Emails = {n1, n2, n3}
    Docs = {u1, u2}
    Callbacks = {r1, r2}
    MaxMoves = 1
    MaxLookups = 1
SYMMETRY Symmetry
INVARIANTS TypesOK CodeBudget PrimaryBudget IdentityKeepsAccount
CHECK_DEADLOCK FALSE
