SPECIFICATION Spec
CONSTANTS
    o = o
    m = m
    w = w
    Nodes = {o, m, w}
    Connections <- Mesh
    Tx = {t}
    Origin <- MCOrigin
    InitWitnesses <- AllButOrigin
    WitnessSets = {}
    Accepts <- EveryNodeAccepts
    QuorumK = 1
    GossipHops = 2
    GossipFanout = 8
    LinkCap = 8
    MaxExpiries = 0
    MaxBreaks = 0
    MaxFaults = 1
INVARIANTS
    LockPrecedesVerify
    QuorumSafety
    QueuesHaveRoom
    ConfirmedOnce
CHECK_DEADLOCK FALSE
