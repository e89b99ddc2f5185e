\* Three services change their shared token while two calls are under way.
SPECIFICATION Spec
CONSTANTS
    s1 = s1
    s2 = s2
    s3 = s3
    c1 = c1
    c2 = c2
    Service <- ThreeServices
    Call <- TwoCalls
    Old = "old"
    New = "new"
    Other = "other"
INVARIANTS TypeOK NobodyRejected
SYMMETRY Symmetry
CHECK_DEADLOCK FALSE
