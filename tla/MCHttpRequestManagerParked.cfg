SPECIFICATION Spec
CONSTANTS
    one = one
    two = two
    free = free
    null = null
    group = group
    slot = slot
    byGroup = byGroup
    byId = byId
    waiter = waiter
    NoGroup = NoGroup
    NoOne = NoOne
    Groups = {group}
    GroupOf <- InGroup
    Slots = {slot}
    SlotsOf <- SlotUsed
    CancelTarget <- CancelsWhat
    WaitsFor <- WaitsForGroup
    Requests = {one, free}
    NullRequests = {}
    Counted = {}
    RetryAttempts <- Retried
    Streaming = {}
    CurlMayFail = {}
    QueueLimit = 0
    Cancels = {byGroup}
    Waiters = {}
    AllowShutdown = FALSE
INVARIANTS
    CancelMeansFinished
CHECK_DEADLOCK FALSE
