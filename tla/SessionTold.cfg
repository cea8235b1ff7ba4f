SPECIFICATION Spec
CONSTANTS
    Session = {s1, s2}
    Tx = {t1}
    Sh = {out, in}
    out = out
    in = in
    t1 = t1
    t2 = t2
    Outs <- MCOuts
    Ins <- MCIns
    ChanCap = 10
    Faults = {"db"}
    MaxLines = 2
    MaxBroadcasts = 1
    NULL = NULL
INVARIANTS
    TypeOK
    OutputsTold
    AckedIsPolled
SYMMETRY SessionSymmetry
CHECK_DEADLOCK FALSE
