SPECIFICATION Spec
CONSTANTS
    Row = {r1}
    tFree = tFree
    tPast = tPast
    tBlock = tBlock
    tTime = tTime
    tEdge = tEdge
    Tx = {tBlock, tTime, tEdge}
    LockOf <- MCLockOf
    LOCKTIME_THRESHOLD = 10
    NULL = NULL
    Wallet = {"sparrow"}
    UserOps = {"at", "delay", "remove"}
    EnvOps = {"indexer", "reject", "reorg", "restart"}
    ConfigMode = "immediate"
    HasIndexer = TRUE
    HasRpc = FALSE
    HasTxIndex = TRUE
    MaxTime = 13
    MaxHeight = 2
    MaxFaults = 1
PROPERTIES
    InstructionHonoured
    RecordIsKept
    HeldStaysVisible
    PromiseKept
