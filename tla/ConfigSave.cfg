SPECIFICATION FairSpec
CONSTANTS
    Caller = {r1}
    Retry = retry
    node = node
    nodeTls = nodeTls
    other = other
    Url = {node, nodeTls, other}
    Found = {node}
    Electrs = node
    Typed = {other}
    NETWORK = NETWORK
    Variants <- MCVariants
    Setting = {1}
    Faults = {}
    MaxTries = 1
    ABSENT = ABSENT
    EMPTY = EMPTY
    NULL = NULL
PROPERTIES
    RequestAnswered
CHECK_DEADLOCK FALSE
