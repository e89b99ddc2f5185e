\* Safety and refinement: boot first, every fault, one crash.
SPECIFICATION Spec
CONSTANTS
    r1 = r1
    r2 = r2
    r3 = r3
    r4 = r4
    a = a
    b = b
    Req <- FourReq
    Critical <- TwoCritical
    Caller <- TwoCallers
    QueueCap = 2
    None = None
    BootFirst = TRUE
    Faults <- AllFaults
    MaxCrashes = 1
INVARIANTS TypeOK RowAccounted SinglePlace NoStrandedQueue DropsCounted
PROPERTIES ImplementsLedger
CHECK_DEADLOCK FALSE
