SPECIFICATION Spec
CONSTANTS
    Thread = {"a", "b", "c"}
    Process = {"p1", "p2"}
    ProcessOf <- SharedByTwo
    Skew <- P2Ahead
    Ts = {1, 2, 3, 4, 5}
    Takeover = 2
    PingLimit = 1
    OldPing = 3
    MaxAge = 5
    Faults = {}
    NoProcess = "none"
INVARIANT MutualExclusion
INVARIANT TakenHasOwner
