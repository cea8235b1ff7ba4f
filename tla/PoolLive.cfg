SPECIFICATION FairSpec
CONSTANTS
    Row = {r1}
    tFree = tFree
    tPast = tPast
    tBlock = tBlock
    tTime = tTime
    tEdge = tEdge
    Tx = {tBlock, tTime}
    LockOf <- MCLockOf
    LOCKTIME_THRESHOLD = 10
    NULL = NULL
    Wallet = {"sparrow"}
    UserOps = {"remove"}
    EnvOps = {"indexer", "rpc", "reject", "lost_reply", "restart", "evict", "reorg", "db"}
    ConfigMode = "immediate"
    HasIndexer = TRUE
    HasRpc = TRUE
    HasTxIndex = TRUE
    MaxTime = 13
    MaxHeight = 3
    MaxFaults = 1
INVARIANTS
    RecordedMeansHappened
PROPERTIES
    PromiseKept
    MaturedIsSent
    DroppedIsResent
    MinedIsConfirmed
