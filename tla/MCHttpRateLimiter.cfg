SPECIFICATION LogSpec
CONSTANTS
    NoToken = NoToken
    Requests = {r1, r2}
    Untracked = {}
    Keys = {k1}
    Rates = {1}
    Periods = {2}
    GcEvery = 2
    Uptimes = {1}
    MaxLimits = 2
    MaxTime = 3
    MaxAttempts = 2
    DurationUnit = 1
    MaxDuration = 1000
SYMMETRY Symmetry
INVARIANTS
    SequentialExclusion
    NoLeakedToken
    RemovedIsIdle
    CountWithinRate
    DelayAgreesWithAllow
    DelayIsExact
    AnyDelayIsLowerBound
    CountIsHistory
    SlidingWindowBound
CHECK_DEADLOCK FALSE
