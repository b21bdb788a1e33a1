SPECIFICATION Spec
CONSTANTS
    r1 = r1  r2 = r2  r3 = r3
    Buckets = {1, 2}
    Plans = {{1, 2}, {2}}
    Limit <- Limits
    Requests = {r1, r2}
    Window = 2  Retention = 3  Patience = 1
    LastTick = 5  MaxCount = 3
SYMMETRY Interchangeable
INVARIANTS WithinLimit NoWaitCycle
CHECK_DEADLOCK FALSE
