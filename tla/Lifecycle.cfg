SPECIFICATION FairSpec
CHECK_DEADLOCK FALSE
CONSTANTS
    None = None
    Users = {alice, bob}
    PerSenderLimit = 1
    GlobalLimit = 2
    WindowLength = 2
    MaxWindows = 2
    HeartbeatTimeout = 2
    Cooldown = 2
    IdleTtl = 3
    MaxClients = 1
    MaxBoots = 2
INVARIANTS TypeOK WindowHasItsTimer CodesWorkOnce RestartObeysSame IdleIsDeserted
PROPERTY SomebodyIsHeard
