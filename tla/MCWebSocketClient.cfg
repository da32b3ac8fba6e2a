SPECIFICATION FairSpec
CONSTANTS
    Configs <- AllConfigs
    NoConfig = NoConfig
    Calls = {k1, k2}
    NoCall = NoCall
    AllowStop = TRUE
    MaxMessages = 1
    AttemptCap = 3
INVARIANTS
    ConfigWhileActive
    ActiveHasSocket
    ReconnectBound
PROPERTIES
    EveryCallAnswered
    WaitingEnds
CHECK_DEADLOCK FALSE
