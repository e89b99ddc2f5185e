\* Liveness, with late starts, failures and a crash.
SPECIFICATION Spec
CONSTANTS
    r1 = r1
    r2 = r2
    r3 = r3
    r4 = r4
    a = a
    b = b
    Req <- ThreeReq
    Critical <- OneCritical
    Caller <- TwoCallers
    QueueCap = 1
    None = None
    BootFirst = FALSE
    Faults <- AllFaults
    MaxCrashes = 1
PROPERTIES QueueDrains SaveNeverBlocks
CHECK_DEADLOCK FALSE
