SPECIFICATION FairSpec
CONSTANTS
    Tx = {coin, spend}
    Sh = {a, b}
    coin = coin
    spend = spend
    a = a
    b = b
    Pays <- MCPays
    Ins <- MCIns
    Settled = {coin}
    MaxStores <- MCMaxStores
    MaxErrors = 1
    NULL = NULL
INVARIANTS
    TypeOK
    HeldIsShownOnce
PROPERTIES
    SentIsSeen
CHECK_DEADLOCK FALSE
