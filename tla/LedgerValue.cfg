SPECIFICATION Spec
CONSTANTS
    Accounts = {a, b, c}
    Self = a
    Bystander = c
    Payees = {b}
    SendAmounts = {1, 2}
    OwnTx = {t1, t2, t3}
    Foreign = {f1, f2}
    ForeignTx <- MCForeignToBystander
    InitBal <- MCInitBal
    NoTx = NoTx
    NoSnap = NoSnap
    NoBalance = NoBalance
    MaxAmount = 15
    BondDivisor = 2
    WordSize = 31
    CycleCheckDepth = 1
    SnapshotInterval = 1
    FaucetAmounts = {0}
    FaucetDefault = 3
    Readers = {r1}
    Callers = {}
    EchoOwn = FALSE
    MaxInFlight = 1
    MaxSeq = 3
    MaxCrashes = 0
    MaxFaults = 0
    MaxFaucets = 0
INVARIANTS
    ReceiversExact
    Conservation
    SnapshotMatchesChain
PROPERTIES
    IsAtomicLedger
CHECK_DEADLOCK FALSE
