SPECIFICATION Spec
SYMMETRY ProcSymmetry
CONSTANTS
    p1 = p1
    p2 = p2
    p3 = p3
    p4 = p4
    Procs <- FourProcs
    Nothing = Nothing
    MaxAttempts = 3
    SerialStart = TRUE
    PidReuse = TRUE
INVARIANTS
    TypeOK
    AtMostOneDaemon
    SocketReachesDaemon
    OnlyCrashesBlock
PROPERTIES
    ReleaseSparesOthers
    ContendedOnlyByHolder
CHECK_DEADLOCK FALSE
