SPECIFICATION FairClient
CONSTANTS
    one = one
    two = two
    free = free
    group = group
    destructor = destructor
    slot = slot
    NoGroup = NoGroup
    NoOne = NoOne
    Groups = {group}
    GroupOf <- InGroup
    Slots = {slot}
    SlotsOf <- SlotUsed
    CancelTarget <- CancelsGroup
    WaitsFor <- WaitsForGroup
    Requests = {one, two, free}
    NullRequests = {}
    Counted = {}
    RetryAttempts <- Retried
    Streaming = {}
    CurlMayFail = {}
    QueueLimit = 0
    Cancels = {destructor}
    Waiters = {waiter}
    AllowShutdown = FALSE
    MaxInFlight <- Cap
    Destructor <- Destructors
INVARIANTS
    InFlightBound
    FutureMeansFinal
    WaitResultIsRight
    DestroyedMeansQuiet
PROPERTIES
    EveryFutureReady
    EveryCallReturns
CHECK_DEADLOCK FALSE
