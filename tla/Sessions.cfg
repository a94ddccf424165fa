SPECIFICATION FairSpec
CHECK_DEADLOCK FALSE
CONSTANTS
    Nobody = Nobody
    Conns = {c1, c2, c3}
    Shortids = {x, y, z}
    Capacity = 2
    MaxTexts = 2
INVARIANTS TypeOK RegistryMatches FramesInOrder FocusIsLastUsed
PROPERTIES TurnedAwayIsClosed ConnectionsSettle
