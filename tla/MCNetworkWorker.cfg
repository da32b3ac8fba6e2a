SPECIFICATION FairSpec
CONSTANTS
    t1 = t1
    t2 = t2
    w1 = w1
    Tasks = {t1, t2}
    Work = {w1}
    Reentrant = {t1}
    AllowStop = TRUE
INVARIANTS
    NoSelfDeadlock
    StopWaitsForWorker
    TasksRunOnce
PROPERTIES
    EverythingFinishes
    StopReturns
CHECK_DEADLOCK FALSE
