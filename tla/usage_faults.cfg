\* Everything may fail: only earned charges.
SPECIFICATION Spec
CONSTANTS
    q1 = q1
    q2 = q2
    q3 = q3
    Req <- ThreeReq
    Merchant <- OneMerchant
    Namings <- FewNamings
    Limit = 1
    QueueCap = 1
    Faults <- AllFaults
    MaxCrashes = 1
INVARIANTS TypeOK ChargesAreEarned
SYMMETRY Symmetry
CHECK_DEADLOCK FALSE
