SPECIFICATION OutageSpec
CONSTANTS
    Row = {r1}
    tFree = tFree
    tPast = tPast
    tBlock = tBlock
    tTime = tTime
    tEdge = tEdge
    Tx = {tBlock}
    LockOf <- MCLockOf
    LOCKTIME_THRESHOLD = 10
    NULL = NULL
    Wallet = {"sparrow"}
    UserOps = {}
    EnvOps = {"indexer"}
    ConfigMode = "immediate"
    HasIndexer = TRUE
    HasRpc = TRUE
    HasTxIndex = TRUE
    MaxTime = 11
    MaxHeight = 2
    MaxFaults = 1
PROPERTIES
    SentWithoutIndexer
