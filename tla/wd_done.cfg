CONSTANTS
    t1 = t1
    t2 = t2
    registry <- Registry
    Thresholds = {2}
    MaxWaits = 2
SPECIFICATION Spec
INVARIANT AllThreadsDone
CHECK_DEADLOCK FALSE
