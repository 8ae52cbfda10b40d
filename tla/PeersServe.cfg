SPECIFICATION FairSpec
CONSTANTS
    a = a
    c1 = c1
    c2 = c2
    c3 = c3
    k1 = k1
    k2 = k2
    Conns = {c1, c2, c3}
    Keys = {k1, k2}
    KeyOf <- TwoDialledEachOther
    Callers = {a}
    MaxPeers = 2
    Fanout = 8
    SendQueue = 1
    MaxWork = 2
    NoConn = NoConn
    Nobody = Nobody
INVARIANTS
    TypeOK
    ClosedOnce
    DeadPeersLeave
    LiveIsListed
PROPERTIES
    LockServed
    EndTogether
CHECK_DEADLOCK FALSE
