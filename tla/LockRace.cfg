SPECIFICATION Spec
SYMMETRY ProcSymmetry
CONSTANTS
    p1 = p1
    p2 = p2
    p3 = p3
    p4 = p4
    Procs <- ThreeProcs
    Nothing = Nothing
    MaxAttempts = 3
    SerialStart = FALSE
    PidReuse = FALSE
INVARIANT
    AtMostOneDaemon
CHECK_DEADLOCK FALSE
