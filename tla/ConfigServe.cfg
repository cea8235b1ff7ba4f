SPECIFICATION FairSpec
CONSTANTS
    Caller = {r1, r2}
    Retry = retry
    node = node
    nodeTls = nodeTls
    other = other
    Url = {node, nodeTls, other}
    Found = {node, other}
    Electrs = node
    Typed = {other}
    NETWORK = NETWORK
    Variants <- MCVariants
    Setting = {1, 2}
    Faults = {"disk"}
    MaxTries = 2
    ABSENT = ABSENT
    EMPTY = EMPTY
    NULL = NULL
INVARIANTS
    TypeOK
    ClientIsConfigured
    FileIsCurrent
PROPERTIES
    AnsweredUnlessSaved
    LoopsUnlessSaved
CHECK_DEADLOCK FALSE
