\* Two sessions of one or two accounts, resets, logouts, expiry, refused commands.
SPECIFICATION Spec
CONSTANTS
    a1 = a1
    a2 = a2
    k1 = k1
    k2 = k2
    s1 = s1
    s2 = s2
    r1 = r1
    r2 = r2
    Account <- TwoAccounts
    NoAccount = NoAccount
    Secret <- TwoSecrets
    NoSecret = NoSecret
    Session <- TwoSessions
    Req <- OneReq
    Ttl <- LifetimeOrNone
    Lifetime = 1
    MaxTime = 1
    MaxResets = 1
    RedisFaults = TRUE
INVARIANTS TypeOK PassedOnOwnSecret SessionKeepsSecret
SYMMETRY Symmetry
CHECK_DEADLOCK FALSE
