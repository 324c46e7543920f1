CONSTANTS
    Profiles <- MCProfiles
    Algorithms <- MCAlgorithms
    BENCHMARK_RUNS = 2
    CommandLines <- MCCommandLines
    Waits = {0, 3}
    Starves = {0, 1}
    Durations = {0, 5}
    OldLines <- MCOldLines
    Files <- MCFiles
SPECIFICATION Spec
INVARIANTS
    JainInRange
    AverageBetweenRuns
    OneHeaderFirst
CHECK_DEADLOCK FALSE
