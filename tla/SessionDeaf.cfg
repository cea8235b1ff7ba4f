SPECIFICATION FairSpec
CONSTANTS
    Session = {s1}
    Tx = {t1}
    Sh = {out, in}
    out = out
    in = in
    t1 = t1
    t2 = t2
    Outs <- MCOuts
    Ins <- MCIns
    ChanCap = 2
    Faults = {"db", "disconnect"}
    MaxLines = 2
    MaxBroadcasts = 2
    NULL = NULL
INVARIANTS
    AckedIsPolled
    HeldIsQueued
PROPERTIES
    EveryLineAnswered
    OutputsLearnLeaving
CHECK_DEADLOCK FALSE
