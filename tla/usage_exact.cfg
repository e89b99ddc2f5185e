\* Nothing fails: the meter is exact, holds the quota and catches up.
SPECIFICATION Spec
CONSTANTS
    q1 = q1
    q2 = q2
    q3 = q3
    Req <- ThreeReq
    Merchant <- TwoMerchants
    Namings <- ManyNamings
    Limit = 1
    QueueCap = 3
    Faults <- NoFaults
    MaxCrashes = 0
INVARIANTS MeterExact
PROPERTIES SettledAdmission MeterCatchesUp
CHECK_DEADLOCK FALSE
