SPECIFICATION ConnectedSpec
CONSTANTS
    Configs <- OneConfig
    NoConfig = NoConfig
    Calls = {k1}
    NoCall = NoCall
    AllowStop = FALSE
    MaxMessages = 0
    AttemptCap = 2
    NumMessages = 2
    LimitIdOf <- Ids
    RateLimits <- Limits
    MaxSendQueue <- QueueSizes
    AgeCap = 2
INVARIANTS
    SendRateBound
    NoCallbackLeft
PROPERTIES
    AcceptedIsHandedOver
CHECK_DEADLOCK FALSE
