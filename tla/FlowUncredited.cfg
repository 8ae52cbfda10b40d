SPECIFICATION Spec
CONSTANTS
    o = o
    m = m
    w = w
    Nodes = {o, w}
    Connections <- Mesh
    Tx = {t}
    Origin <- MCOrigin
    InitWitnesses <- OnlyW
    WitnessSets = {}
    Accepts <- EveryNodeAccepts
    QuorumK = 1
    GossipHops = 6
    GossipFanout = 8
    LinkCap = 64
    MaxExpiries = 0
    MaxBreaks = 0
    MaxFaults = 0
INVARIANTS
    ConfirmationReachesAll
CHECK_DEADLOCK FALSE
