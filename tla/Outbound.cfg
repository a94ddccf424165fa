SPECIFICATION Spec
CHECK_DEADLOCK FALSE
CONSTANTS
    c1 = c1
    c2 = c2
    s1 = s1
    own = own
    group = group
    Senders = {s1}
    MaxTurns = 1
    MaxRefills <- OneRefill
    Calls = {c1, c2}
    Chats = {own, group}
    Private = {own}
    MaxEntries = 1
    Capacity = 1
    Files = 2
    Errands <- ThreeErrands
INVARIANTS TypeOK NoAlertStorm AlertsAccounted FetchedOnce OnlyPrivateChats ToldWhatHappened
