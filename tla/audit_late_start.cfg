\* Requests are served before InitAuditFromViper ran.
SPECIFICATION Spec
CONSTANTS
    r1 = r1
    r2 = r2
    r3 = r3
    r4 = r4
    a = a
    b = b
    Req <- ThreeReq
    Critical <- OneCritical
    Caller <- TwoCallers
    QueueCap = 1
    None = None
    BootFirst = FALSE
    Faults <- NoFaults
    MaxCrashes = 0
INVARIANTS RowAccounted
CHECK_DEADLOCK FALSE
