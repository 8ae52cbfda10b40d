SPECIFICATION Spec
CONSTANTS
    o = o
    m = m
    w = w
    Nodes = {o, m, w}
    Connections <- Mesh
    Tx = {t}
    Origin <- MCOrigin
    InitWitnesses <- AllButOrigin
    WitnessSets = {}
    Accepts <- EveryNodeAccepts
    QuorumK = 2
    GossipHops = 6
    GossipFanout = 8
    LinkCap = 64
    MaxExpiries = 0
    MaxBreaks = 0
    MaxFaults = 0
INVARIANTS
    CollectedIsQuorum
CHECK_DEADLOCK FALSE
