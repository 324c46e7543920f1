CONSTANTS
    t1 = t1
    t2 = t2
    Threads = {t1, t2}
    OpsOf <- MCOpsOf
    Levels = {"VERBOSE", "STANDARD", "SUMMARY"}
    MaxAlerts = 1
    Main = Main
    Watchdog = Watchdog
    NoOne = NoOne
SPECIFICATION FairSpec
INVARIANTS
    FileMirrorsStdout
    HeadersEncloseRun
    RecordsInOrder
PROPERTY ShutdownReached
CHECK_DEADLOCK FALSE
