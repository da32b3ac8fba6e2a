SPECIFICATION Spec
CONSTANTS
    one = one
    two = two
    free = free
    null = null
    group = group
    slot = slot
    byGroup = byGroup
    byId = byId
    waiter = waiter
    NoGroup = NoGroup
    NoOne = NoOne
    Groups = {group}
    GroupOf <- InGroup
    Slots = {slot}
    SlotsOf <- SlotUsed
    CancelTarget <- CancelsWhat
    WaitsFor <- WaitsForGroup
    Requests = {one, two, free}
    NullRequests = {}
    Counted = {one}
    RetryAttempts <- Retried
    Streaming = {free}
    CurlMayFail = {}
    QueueLimit = 2
    Cancels = {byGroup}
    Waiters = {waiter}
    AllowShutdown = FALSE
INVARIANTS
    OneOwner
    HoldsThroughRetries
    NoTokenAfterEnd
    NoRetryAfterChunk
PROPERTIES
    ImplementsLifecycle
CHECK_DEADLOCK FALSE
