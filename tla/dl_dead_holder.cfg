SPECIFICATION FairSpec
CONSTANTS
    Thread = {"a", "b"}
    Process = {"p1", "p2"}
    ProcessOf <- OneEachOfTwo
    Skew <- SameClocks
    Ts = {1, 2, 3, 4}
    Takeover = 1
    PingLimit = 1
    OldPing = 2
    MaxAge = 3
    Faults = {"crash"}
    NoProcess = "none"
PROPERTY PingedDeadHolderIsTakenOver
