CONSTANTS
    m1 = m1
    p1 = p1
    Jobs = {m1, p1}
    TaskOf <- MCTaskOf
    Settings <- OneBackend
    Prefetch = 1
    Attempts = 2
    EmailRetries = 2
    PromotionalRetries = 1
    MaxRestarts = 1
SPECIFICATION Spec
PROPERTY ConsumesUntilStopped
CHECK_DEADLOCK FALSE
