SPECIFICATION Spec
CONSTANTS
    Users = {u1}
    Sids = {s1, s2}
    Reqs = {r1, r2}
    Grants <- OneGrant
    MaxPasswordAttempts = 2
    AttemptCap = 0
    MaxFaults = 0
    None = None
SYMMETRY Symmetry
PROPERTIES LogoutAllRevokesAll
CHECK_DEADLOCK FALSE
