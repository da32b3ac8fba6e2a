SPECIFICATION Spec
CONSTANTS
    one = one
    two = two
    free = free
    null = null
    group = group
    slot = slot
    byGroup = byGroup
    byId = byId
    waiter = waiter
    NoGroup = NoGroup
    NoOne = NoOne
    Groups = {group}
    GroupOf <- InGroup
    Slots = {slot}
    SlotsOf <- SlotUsed
    CancelTarget <- CancelsWhat
    WaitsFor <- WaitsForGroup
    Requests = {one, two, null}
    NullRequests = {null}
    Counted = {}
    RetryAttempts <- NotRetried
    Streaming = {}
    CurlMayFail = {two}
    QueueLimit = 0
    Cancels = {byGroup, byId}
    Waiters = {waiter}
    AllowShutdown = TRUE
INVARIANTS
    CancelMeansFinished
    ShutdownFinishesAll
PROPERTIES
    ImplementsLifecycle
CHECK_DEADLOCK FALSE
