SPECIFICATION Spec
CONSTANTS
    Thread = {"a", "b"}
    Process = {"p1", "p2"}
    ProcessOf <- OneEachOfTwo
    Skew <- SameClocks
    Ts = {1, 2, 3, 4}
    Takeover = 1
    PingLimit = 1
    OldPing = 1
    MaxAge = 2
    Faults = {"crash", "network", "late"}
    NoProcess = "none"
INVARIANT TypeOK
INVARIANT UnrobbedOwnerIsNamed
INVARIANT TakenByOne
PROPERTY ImplementsLock
