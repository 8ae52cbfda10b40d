SPECIFICATION FairSpec
CONSTANTS
    o = o
    m = m
    w = w
    Nodes = {o, m, w}
    Connections <- Star
    Tx = {t}
    Origin <- MCOrigin
    InitWitnesses <- AllButOrigin
    WitnessSets = {{w}}
    Accepts <- EveryNodeAccepts
    QuorumK = 2
    GossipHops = 2
    GossipFanout = 8
    LinkCap = 2
    MaxExpiries = 1
    MaxBreaks = 1
    MaxFaults = 0
INVARIANTS
    TypeOK
    QuorumSafety
    CreditImpliesConfirmed
    LostStaysLost
PROPERTIES
    FloodEnds
CHECK_DEADLOCK FALSE
