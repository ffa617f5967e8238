CONSTANTS
    m1 = m1
    p1 = p1
    Jobs = {m1, p1}
    TaskOf <- MCTaskOf
    Settings <- MCSettings
    Prefetch = 1
    Attempts = 2
    EmailRetries = 2
    PromotionalRetries = 1
    MaxRestarts = 2
SPECIFICATION Spec
INVARIANTS TypeOK JobsAccountedFor
PROPERTIES EventuallyRun ContractSpec
CHECK_DEADLOCK FALSE
