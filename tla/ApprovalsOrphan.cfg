SPECIFICATION Spec
CHECK_DEADLOCK FALSE
CONSTANTS
    a1 = a1
    a2 = a2
    a3 = a3
    s1 = s1
    s2 = s2
    c1 = c1
    c2 = c2
    yes = yes
    no = no
    None = None
    Requests <- TwoRequests
    Sessions <- OneSession
    Owner <- TwoOwners
    Options = {yes, no}
    Clicks = {c1, c2}
    Capacity = 2
    MaxCrashes = 1
INVARIANT NoOrphan
