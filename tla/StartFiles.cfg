SPECIFICATION Spec
CONSTANTS
    daemon = daemon
    cli = cli
    Process = {daemon, cli}
    Daemon = daemon
    Faults = {"crash", "disk", "db"}
    MaxSaves = 1
    MaxFaults = 1
    NULL = NULL
    TORN = TORN
INVARIANTS
    TypeOK
    SchemaWhole
    ServesRehydrated
    
PROPERTIES
    RefusedForCause
    StartEnds
