\* A create charged to a merchant named by the body only.
SPECIFICATION Spec
CONSTANTS
    q1 = q1
    q2 = q2
    q3 = q3
    Req <- ThreeReq
    Merchant <- TwoMerchants
    Namings <- PlainNamings
    Limit = 1
    QueueCap = 3
    Faults <- NoFaults
    MaxCrashes = 0
INVARIANTS ChargedWasChecked
CHECK_DEADLOCK FALSE
