SPECIFICATION Spec
SYMMETRY OwnTxSymmetry
CONSTANTS
    Accounts = {a, b}
    Self = a
    Bystander = b
    Payees = {b}
    SendAmounts = {4, 12}
    OwnTx = {t1, t2, t3}
    Foreign = {f1}
    ForeignTx <- MCForeignToSelf
    InitBal <- MCInitBal
    NoTx = NoTx
    NoSnap = NoSnap
    NoBalance = NoBalance
    MaxAmount = 15
    BondDivisor = 2
    WordSize = 31
    CycleCheckDepth = 1
    SnapshotInterval = 2
    FaucetAmounts = {0}
    FaucetDefault = 15
    Readers = {r1}
    Callers = {}
    EchoOwn = FALSE
    MaxInFlight = 2
    MaxSeq = 3
    MaxCrashes = 1
    MaxFaults = 1
    MaxFaucets = 1
INVARIANTS
    TypeOK
    NoGaps
    BondsBacked
    DroppedIsUnrecorded
    QuorumCovered
CHECK_DEADLOCK FALSE
