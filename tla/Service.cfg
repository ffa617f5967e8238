SPECIFICATION MCSpec
CONSTANTS
    Builds <- InTurn
    AdminPolicies <- LowFloor
    ApkRetention = 2
    MaxFaults = 1
    None = None
    Devices = {d1}
    Apis = {a1, a2}
    Calls = {c1, c2}
    MaxBoots = 2
    MaxLosses = 1
    MaxInserts = 1
INVARIANTS TypesOK StorageKept PolicyKept ServedOnce
PROPERTIES RefusedGetsIn StopEnds
CHECK_DEADLOCK FALSE
