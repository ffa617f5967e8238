SPECIFICATION Spec
CONSTANTS
    Users = {u1}
    Numbers = {n1}
    Reqs = {r1, r2}
    Codes = {c1}
    OtpMaxAttempts = 2
    MaxFaults = 0
    None = None
SYMMETRY Symmetry
INVARIANTS MaxAttemptsPerOTP
CHECK_DEADLOCK FALSE
