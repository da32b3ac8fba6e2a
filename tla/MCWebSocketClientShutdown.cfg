SPECIFICATION FairSpec
CONSTANTS
    Configs <- AllConfigs
    NoConfig = NoConfig
    Calls = {k1}
    NoCall = NoCall
    AllowStop = FALSE
    MaxMessages = 0
    AttemptCap = 3
PROPERTIES
    ShutdownReturns
CHECK_DEADLOCK FALSE
