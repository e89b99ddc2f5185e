\* One request of any kind, and another one that changes its document.
SPECIFICATION Spec
CONSTANTS
    r1 = r1
    r2 = r2
    Req <- TwoReqs
    Asks <- AnyAndRival
    Documents <- FirstDocuments
    Long <- LongScalars
    Huge <- HugeScalars
    Secrets <- SecretScalars
    MaxBody = 2
    MaxChanges = 5
    Keys <- TwoKeys
    KeyOrder <- Names
    Capital <- Capitals
    Rules <- HandRules
    MapRules <- MapPairs
    Visitor = "v"
    Forged = "f"
    Edge = "e"
    Gateway = "g"
INVARIANTS TypeOK DiffReplays RowTellsTheWrite SecretsStayOut BodyReachesHandler CallbackIsGenuine RemoteIPIsVisitor SameResource DeleteUndoesCreate
CHECK_DEADLOCK FALSE
