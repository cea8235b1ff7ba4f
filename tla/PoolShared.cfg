SPECIFICATION Spec
SYMMETRY RowSymmetry
CONSTANTS
    Row = {r1, r2}
    tFree = tFree
    tPast = tPast
    tBlock = tBlock
    tTime = tTime
    tEdge = tEdge
    Tx = {tBlock}
    LockOf <- MCLockOf
    LOCKTIME_THRESHOLD = 10
    NULL = NULL
    Wallet = {"sparrow"}
    UserOps = {"cli", "import", "remove"}
    EnvOps = {"db", "lost_reply"}
    ConfigMode = "immediate"
    HasIndexer = TRUE
    HasRpc = TRUE
    HasTxIndex = TRUE
    MaxTime = 11
    MaxHeight = 2
    MaxFaults = 1
PROPERTIES
    RecordIsKept
    PromiseKept
