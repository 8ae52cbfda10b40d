SPECIFICATION Spec
SYMMETRY OwnTxSymmetry
CONSTANTS
    Accounts = {a, b, c}
    Self = a
    Bystander = c
    Payees = {b}
    SendAmounts = {2, 4}
    OwnTx = {t1, t2}
    Foreign = {f1}
    ForeignTx <- MCForeignToBystander
    InitBal <- MCInitBal
    NoTx = NoTx
    NoSnap = NoSnap
    NoBalance = NoBalance
    MaxAmount = 15
    BondDivisor = 2
    WordSize = 31
    CycleCheckDepth = 1
    SnapshotInterval = 2
    FaucetAmounts = {0}
    FaucetDefault = 3
    Readers = {r1}
    Callers = {c1}
    EchoOwn = TRUE
    MaxInFlight = 1
    MaxSeq = 3
    MaxCrashes = 1
    MaxFaults = 1
    MaxFaucets = 0
INVARIANTS
    SenderExact
    
    BondsCollected
    SnapshotLags
PROPERTIES
    RecordsImmutable
CHECK_DEADLOCK FALSE
