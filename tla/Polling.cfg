SPECIFICATION FairSpec
CONSTANTS
    Replies <- ThreeReplies
    AnyTime <- FirstAndLast
    Capacity = 2
    Threshold = 2
    MaxUpdate = 2
    MaxDeaths = 1
    MayRefuse = FALSE
INVARIANTS
    TypeOK
    ReplayFifo
    ToldTheTruth
    NoUpdateSkipped
PROPERTIES
    ImplementsFeed
    QuarantineEnds
    StopEndsLoop
\* A stopped loop stops.
CHECK_DEADLOCK FALSE
