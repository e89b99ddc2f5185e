\* Two goroutines calling the registry from its first use on.
SPECIFICATION Spec
CONSTANTS
    t1 = t1
    t2 = t2
    Thread <- TwoThreads
    NoThread = NoThread
    Code <- Codes
    RawCode <- RawCodes
    Canonical <- CanonicalOf
    Name <- Names
    DefaultNames <- Defaults
    Label <- Labels
    DefaultHosts <- HostDefaults
    EnvNames <- NameOrders
    EnvHosts <- HostOrders
    WeChatCode = "x7"
    Calls <- CallSet
    NoCall = NoCall
INVARIANTS TypeOK RaceFree
PROPERTIES ImplementsDirectory CallsReturn
