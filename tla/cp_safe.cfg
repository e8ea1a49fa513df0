SPECIFICATION Spec
CONSTANTS
    s1 = s1
    s2 = s2
    s3 = s3
    c1 = c1
    c2 = c2
    c3 = c3
    Scoped = {s1, s2, s3}
    Conn = {c1, c2, c3}
    NoConn = NoConn
    NoHost = NoHost
    Host = {"set/a", "set/b", "d"}
    PoolOf <- SetAndServer
    _maxPerHost = 2
    MaxIdle = 1
    MaxCreated = 3
    Faults = {"connect", "socket", "hook"}
SYMMETRY Symmetry
CHECK_DEADLOCK FALSE
INVARIANT TypeOK
INVARIANT OneUser
INVARIANT NoOldReplies
INVARIANT NoneLeaked
