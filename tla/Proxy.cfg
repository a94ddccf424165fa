SPECIFICATION FairSpec
CHECK_DEADLOCK FALSE
CONSTANTS
    p1 = p1
    p2 = p2
    a = a
    b = b
    Projects = {a, b}
    Expiry = 1
    MaxEntries = 1
    Launchd = TRUE
    Proxies = {p1, p2}
    Assignments <- OneOrTwoProjects
    Callers = {p1}
    MaxLaunches = 3
    MaxBoots = 2
INVARIANTS TypeOK AnnouncedIsScripted BootExcusesOne
PROPERTY ProxySettles
