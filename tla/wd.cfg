CONSTANTS
    t1 = t1
    t2 = t2
    registry <- Registry
    Thresholds = {0, 2}
    MaxWaits = 2
SPECIFICATION FairSpec
INVARIANTS
    OneAlarmPerWait
    TotalsAgree
    SummaryTrailsByOne
    UnderstatedWaitsCounted
PROPERTIES
    StarvedThreadIsMarked
    StopReturns
CHECK_DEADLOCK FALSE
