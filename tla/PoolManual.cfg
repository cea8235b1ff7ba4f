SPECIFICATION Spec
CONSTANTS
    Row = {r1}
    tFree = tFree
    tPast = tPast
    tBlock = tBlock
    tTime = tTime
    tEdge = tEdge
    Tx = {tFree}
    LockOf <- MCLockOf
    LOCKTIME_THRESHOLD = 10
    NULL = NULL
    Wallet = {"liana", "sparrow"}
    UserOps = {"at", "delay", "import_at", "price", "retry"}
    EnvOps = {"price", "reject"}
    ConfigMode = "immediate"
    HasIndexer = TRUE
    HasRpc = FALSE
    HasTxIndex = TRUE
    MaxTime = 12
    MaxHeight = 1
    MaxFaults = 1
INVARIANTS
    TypeOK
    HeldStaysPrivate
PROPERTIES
    InstructionHonoured
    PromiseKept
