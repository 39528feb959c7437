SPECIFICATION Spec
CONSTANTS
    w1 = w1
    w2 = w2
    Workers <- TwoWorkers
    NoWorker = none
    MaxBucket = 4
    MaxNow = 8
    Window = 2
    QuietBuckets = 3
    MinStreak = 2
    MaxCrashes = 1
    DispatchFails = TRUE
SYMMETRY WorkerSymmetry
INVARIANTS TypeOK EpisodeSumsUp  StreakIsVoiced RecoveryTruthful 
CHECK_DEADLOCK FALSE
