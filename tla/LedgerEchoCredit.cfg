SPECIFICATION Spec
CONSTANTS
    Accounts = {a, b}
    Self = a
    Bystander = b
    Payees = {b}
    SendAmounts = {2}
    OwnTx = {t1}
    Foreign = {}
    ForeignTx <- MCForeignToSelf
    InitBal <- MCInitBal
    NoTx = NoTx
    NoSnap = NoSnap
    NoBalance = NoBalance
    MaxAmount = 15
    BondDivisor = 2
    WordSize = 31
    CycleCheckDepth = 1
    SnapshotInterval = 2
    FaucetAmounts = {0}
    FaucetDefault = 3
    Readers = {r1}
    Callers = {}
    EchoOwn = TRUE
    MaxInFlight = 1
    MaxSeq = 3
    MaxCrashes = 0
    MaxFaults = 0
    MaxFaucets = 0
INVARIANTS
    ReceiversExact
CHECK_DEADLOCK FALSE
