SPECIFICATION Spec
CONSTANTS
    Accounts = {a, b}
    Self = a
    Bystander = b
    Payees = {b}
    SendAmounts = {4}
    OwnTx = {t1, t2}
    Foreign = {}
    ForeignTx <- MCForeignToSelf
    InitBal <- MCInitBal
    NoTx = NoTx
    NoSnap = NoSnap
    NoBalance = NoBalance
    MaxAmount = 15
    BondDivisor = 2
    WordSize = 31
    CycleCheckDepth = 1
    SnapshotInterval = 2
    FaucetAmounts = {0}
    FaucetDefault = 3
    Readers = {}
    Callers = {}
    EchoOwn = FALSE
    MaxInFlight = 2
    MaxSeq = 3
    MaxCrashes = 0
    MaxFaults = 0
    MaxFaucets = 0
INVARIANTS
    SpentWithinFunds
CHECK_DEADLOCK FALSE
