SPECIFICATION Spec
CONSTANTS
    Users = {u1}
    Sids = {s1, s2, s3, s4}
    Reqs = {r1, r2}
    Grants <- OneGrant
    MaxPasswordAttempts = 2
    AttemptCap = 2
    MaxFaults = 1
    None = None
CONSTRAINT CountedAlone
SYMMETRY Symmetry
INVARIANTS RevokedStaysRevoked RotationFanout
PROPERTIES StoreSpec
CHECK_DEADLOCK FALSE
