SPECIFICATION Spec
CHECK_DEADLOCK FALSE
CONSTANTS
    None = None
    Users = {alice, bob}
    PerSenderLimit = 1
    GlobalLimit = 2
    WindowLength = 3
    MaxWindows = 2
    HeartbeatTimeout = 2
    \* The cooldown follows several failed polls: counted from the last success
    \* it ends after the heartbeat timeout.
    Cooldown = 4
    IdleTtl = 4
    MaxClients = 1
    MaxBoots = 1
INVARIANT WaitsForReset
