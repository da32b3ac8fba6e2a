SPECIFICATION Spec
CONSTANTS
    t1 = t1
    t2 = t2
    w1 = w1
    Tasks = {}
    Work = {w1}
    Reentrant = {w1}
    AllowStop = FALSE
INVARIANTS
    NoSelfDeadlock
CHECK_DEADLOCK FALSE
