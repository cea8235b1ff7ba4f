SPECIFICATION Spec
CONSTANTS
    Reader = {monitor, api}
    Monitor = monitor
    Requests <- MCRequests
    Timeout = 1
    Ttl = 2
    MaxLkg = 5
    Interval = 2
    Cap = 9
    NULL = NULL
INVARIANTS
    TypeOK
    TriggersAreCurrent
    StandingPriceSeen
PROPERTIES
    FallbackHolds
