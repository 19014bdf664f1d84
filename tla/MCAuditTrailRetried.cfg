SPECIFICATION AuditSpec
CONSTANTS
    Requests = {r1, r2}
    Capacity = 1
    MaxFaults = 3
    MaxCrashes = 1
INVARIANTS RetriedAreStored
CHECK_DEADLOCK FALSE
